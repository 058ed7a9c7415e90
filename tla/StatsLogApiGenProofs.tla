------------------------ MODULE StatsLogApiGenProofs ------------------------
(***************************************************************************)
(* What the exit status of the tool says of the files it leaves, and which *)
(* prefix the annotations in them have, proved for every command line and  *)
(* every result of the collation.                                          *)
(***************************************************************************)
EXTENDS AnnotationPrefixes, TLAPS

WritePhases == {"cpp", "header", "java", "rust", "rustHeader", "return"}

Clean == collated # <<>> /\ found.errorCount = 0

\* The C++ file may be broken without errorCount telling so.
Masked(n) == files[n].writer = "cpp" /\ (Requested("header") \/ Requested("java"))

Told(n) == files[n].complete \/ errorCount # 0 \/ Masked(n)

\* The writer phases are reached with clean atoms only, and in each of them a
\* broken file shows in errorCount unless its error has been replaced.  That
\* only the C++ file can be broken before Java is written is what makes Masked
\* enough after the two assignments that replace errorCount.
Inv ==
  /\ errorCount \in Nat
  /\ phase \in {"parse", "check", "collate", "cpp"} => DOMAIN files = {}
  /\ phase \in WritePhases => Clean
  /\ phase \in {"header", "java"} =>
       \A n \in DOMAIN files : files[n].complete \/ files[n].writer = "cpp"
  /\ phase \in WritePhases => \A n \in DOMAIN files : Told(n)
  /\ phase # "exited" => status = -1
  /\ OnlyCleanAtomsWritten
  /\ ExitTellsOfBrokenFiles

\* The writers return a number of errors.
LEMMA ErrorCounts == CppErrors \in Nat /\ JavaErrors \in Nat /\ RustErrors \in Nat
<1>1. \A b : Count(b) \in Nat
  BY DEF Count
<1>2. CppErrors \in Nat
  BY <1>1 DEF CppErrors, write_stats_log_cpp, write_stats_log_cpp_vendor,
              write_native_create_vendor_atom_methods
<1>3. JavaErrors \in Nat
  <2>1. \A t, l : write_java_pushed_methods(t, l) \in Nat
    BY DEF write_java_pushed_methods, Count
  <2>2. \A t : write_java_non_chained_methods(t) \in Nat
    BY DEF write_java_non_chained_methods, Count
  <2>3. \A t : write_java_pulled_methods(t) \in Nat
    BY DEF write_java_pulled_methods, Count
  <2>4. \A t : write_java_work_source_methods(t) \in Nat
    BY DEF write_java_work_source_methods, Count
  <2>5. \A t : write_java_q_logger_class(t) \in Nat
    BY DEF write_java_q_logger_class
  <2>6. \A t : write_java_pushed_methods_vendor(t) \in Nat
    BY DEF write_java_pushed_methods_vendor, Count
  <2> QED BY <2>1, <2>2, <2>3, <2>4, <2>5, <2>6
          DEF JavaErrors, write_stats_log_java, write_stats_log_java_vendor
<1>4. RustErrors \in Nat
  BY <1>1 DEF RustErrors, write_stats_log_rust, write_rust_stats_write_atoms
<1> QED BY <1>2, <1>3, <1>4

\* An error in the QLogger, which is not counted, never comes alone: a type it
\* does not know is one the Java methods do not, or that of a repeated field,
\* for which they refuse level Q.
LEMMA DroppedErrorsTold == DroppedErrors \in Nat /\ (JavaErrors = 0 => DroppedErrors = 0)
<1>1. DroppedErrors \in {0, 1}
  BY DEF DroppedErrors, write_java_methods_q_schema, Count
<1>2. ASSUME DroppedErrors # 0 PROVE JavaErrors # 0
  <2> DEFINE table == found.atoms.signatureInfoMap
  <2>1. ~Vendor /\ options.minApiLevel = API_Q
    BY <1>2 DEF DroppedErrors
  <2>2. PICK s \in DOMAIN table : ~(TypesIn(s) \subseteq ChainedTypes)
    BY <1>2, <2>1 DEF DroppedErrors, write_java_methods_q_schema, Count, QTypes, ChainedTypes, PlainTypes
  <2>3. write_method_body(s) # 0 \/ HasRepeated(s)
    <3>1. PICK t \in TypesIn(s) : t \notin ChainedTypes
      BY <2>2
    <3>2. CASE t \in RepeatedJavaTypes
      BY <3>1, <3>2 DEF HasRepeated, is_repeated_field
    <3>3. CASE t \notin RepeatedJavaTypes
      BY <3>1, <3>3 DEF write_method_body, Count
    <3> QED
      BY <3>2, <3>3
  <2>4. write_java_pushed_methods(table, options.minApiLevel) = 1
    BY <2>1, <2>2, <2>3 DEF write_java_pushed_methods, Count
  <2>5. /\ write_java_non_chained_methods(found.atoms.nonChainedSignatureInfoMap) \in Nat
        /\ write_java_pulled_methods(found.atoms.pulledAtomsSignatureInfoMap) \in Nat
        /\ write_java_work_source_methods(table) \in Nat
        /\ write_java_q_logger_class(table) \in Nat
    BY DEF write_java_non_chained_methods, write_java_pulled_methods, Count,
           write_java_work_source_methods, write_java_q_logger_class
  <2> QED
    BY <2>1, <2>4, <2>5 DEF JavaErrors, write_stats_log_java
<1> QED
  BY <1>1, <1>2

LEMMA InvInit == Init => Inv
<1> SUFFICES ASSUME Init PROVE Inv
  OBVIOUS
<1>1. phase = "parse" /\ errorCount = 0 /\ DOMAIN files = {} /\ status = -1
  BY DEF Init
<1> QED BY <1>1 DEF Inv, OnlyCleanAtomsWritten, ExitTellsOfBrokenFiles, WritePhases

\* While the arguments are parsed and checked there is no file.
LEMMA NoFileStep ==
  ASSUME Inv, phase \in {"parse", "check"}, UNCHANGED <<files, errorCount, collated>>,
         \/ phase' \in {"parse", "check", "collate"} /\ status' = status
         \/ phase' = "exited"
  PROVE  Inv'
  BY DEF Inv, OnlyCleanAtomsWritten, ExitTellsOfBrokenFiles, WritePhases

\* run() returns an error: it need not tell which file is broken.
LEMMA FailureStep ==
  ASSUME Inv, UNCHANGED <<options, files, errorCount, collated>>, NEW n \in {1, KILLED}, Exit(n)
  PROVE  Inv'
<1>1. OnlyCleanAtomsWritten'
  BY DEF Inv, OnlyCleanAtomsWritten, found
<1>2. ExitTellsOfBrokenFiles'
  BY DEF Exit, KILLED, ExitTellsOfBrokenFiles
<1> QED BY <1>1, <1>2 DEF Inv, Exit, WritePhases

\* The phase after the files are as they were.
LEMMA SkipStep ==
  ASSUME Inv, SkipWriter
  PROVE  Inv'
<1>1. /\ UNCHANGED <<options, files, errorCount, collated, status>>
      /\ phase \in WritePhases /\ phase' \in WritePhases
      /\ phase' # "cpp"
      /\ phase' \in {"header", "java"} => phase \in {"cpp", "header"}
      /\ phase # "exited"
  BY DEF SkipWriter, NotRequested, GoOn, WritePhases
<1>2. Clean'
  BY <1>1 DEF Inv, Clean, found
<1>3. ASSUME NEW n \in DOMAIN files' PROVE Told(n)'
  BY <1>1 DEF Inv, Told, Masked, Requested
<1>4. phase' \in {"header", "java"} =>
        \A n \in DOMAIN files' : files'[n].complete \/ files'[n].writer = "cpp"
  BY <1>1 DEF Inv
<1>5. OnlyCleanAtomsWritten'
  BY <1>2 DEF OnlyCleanAtomsWritten, Clean
<1>6. ExitTellsOfBrokenFiles'
  BY <1>1 DEF Inv, ExitTellsOfBrokenFiles
<1>7. phase' \notin {"parse", "check", "collate", "cpp"}
  BY <1>1 DEF WritePhases
<1> QED BY <1>1, <1>2, <1>3, <1>4, <1>5, <1>6, <1>7 DEF Inv

\* What a writer leaves, whatever it does to errorCount.
LEMMA WrittenFiles ==
  ASSUME NEW w, NEW errors, Written(w, errors), NEW n \in DOMAIN files'
  PROVE  \/ files'[n].writer = w /\ (files'[n].complete <=> errors = 0)
         \/ n \in DOMAIN files /\ files'[n] = files[n]
  BY DEF Written

\* A writer phase is followed by a later one, with the same atoms.
LEMMA WrittenClean ==
  ASSUME Inv, NEW w, NEW errors, Written(w, errors), phase \in WritePhases
  PROVE  Clean' /\ OnlyCleanAtomsWritten'
  BY DEF Inv, Written, Clean, found, OnlyCleanAtomsWritten

LEMMA InvStep == Inv /\ [Next]_vars => Inv'
<1> SUFFICES ASSUME Inv, [Next]_vars PROVE Inv'
  OBVIOUS
<1> USE DEF Inv
<1>1. CASE Help
  BY <1>1, NoFileStep DEF Help, Parsing, Exit
<1>2. CASE MissingValue
  BY <1>2, NoFileStep DEF MissingValue, Parsing, Exit
<1>3. CASE SetValue
  BY <1>3, NoFileStep DEF SetValue, Parsing
<1>4. CASE SetSwitch
  BY <1>4, NoFileStep DEF SetSwitch, Parsing
<1>5. CASE SkipArgument
  BY <1>5, NoFileStep DEF SkipArgument, Parsing
<1>6. CASE EndArguments
  BY <1>6, NoFileStep DEF EndArguments, GoOn
<1>7. CASE CheckOptions
  BY <1>7, NoFileStep DEF CheckOptions, Exit, GoOn
<1>8. CASE Collate
  <2>1. PICK r \in Collations : collated' = <<r>>
    BY <1>8 DEF Collate
  <2>2. /\ DOMAIN files' = {} /\ errorCount' = r.errorCount /\ found' = r
        /\ errorCount' \in Nat
    BY <1>8, <2>1, ToolAssumption DEF Collate, found
  <2>3. \/ phase' = "exited" /\ status' = 1
        \/ errorCount' = 0 /\ phase' = "cpp" /\ status' = -1
    BY <1>8 DEF Collate, Exit, GoOn
  <2>4. phase' \in WritePhases => Clean'
    BY <2>1, <2>2, <2>3 DEF Clean, WritePhases
  <2> QED BY <2>2, <2>3, <2>4 DEF OnlyCleanAtomsWritten, ExitTellsOfBrokenFiles
<1>9. CASE ImportFails
  BY <1>9, FailureStep DEF ImportFails
<1>10. CASE SkipWriter
  BY <1>10, SkipStep
<1>11. CASE CannotWrite
  BY <1>11, FailureStep DEF CannotWrite, Refused
<1>12. CASE WriteCpp
  <2>1. /\ phase = "cpp" /\ phase' = "header" /\ status' = status /\ status = -1
        /\ Written("cpp", CppErrors) /\ errorCount' = CppErrors
    BY <1>12 DEF WriteCpp, GoOn
  <2>2. Clean' /\ OnlyCleanAtomsWritten'
    BY <2>1, WrittenClean DEF WritePhases
  <2>3. ASSUME NEW n \in DOMAIN files'
        PROVE  files'[n].writer = "cpp" /\ (files'[n].complete <=> errorCount' = 0)
    BY <2>1, <2>3, WrittenFiles
  <2> QED BY <2>1, <2>2, <2>3, ErrorCounts DEF Told, ExitTellsOfBrokenFiles
<1>13. CASE WriteHeader
  <2>1. /\ phase = "header" /\ phase' = "java" /\ status' = status /\ status = -1
        /\ Written("header", 0) /\ errorCount' = 0
        /\ Requested("header") /\ options' = options
    BY <1>13 DEF WriteHeader, GoOn, Written
  <2>2. Clean' /\ OnlyCleanAtomsWritten'
    BY <2>1, WrittenClean DEF WritePhases
  <2>3. ASSUME NEW n \in DOMAIN files'
        PROVE  files'[n].complete \/ files'[n].writer = "cpp"
    BY <2>1, <2>3, WrittenFiles
  <2>4. Requested("header")'
    BY <2>1 DEF Requested
  <2> QED BY <2>1, <2>2, <2>3, <2>4 DEF Told, Masked, ExitTellsOfBrokenFiles
<1>14. CASE WriteJava
  <2>1. /\ phase = "java" /\ phase' = "rust" /\ status' = status /\ status = -1
        /\ Written("java", JavaErrors + DroppedErrors) /\ errorCount' = JavaErrors
        /\ Requested("java") /\ options' = options
    BY <1>14 DEF WriteJava, GoOn, Written
  <2>2. Clean' /\ OnlyCleanAtomsWritten'
    BY <2>1, WrittenClean DEF WritePhases
  <2>3. Requested("java")'
    BY <2>1 DEF Requested
  <2>4. ASSUME NEW n \in DOMAIN files'
        PROVE  files'[n].complete \/ errorCount' # 0 \/ files'[n].writer = "cpp"
    BY <2>1, <2>4, WrittenFiles, ErrorCounts, DroppedErrorsTold
  <2> QED BY <2>1, <2>2, <2>3, <2>4, ErrorCounts DEF Told, Masked, ExitTellsOfBrokenFiles
<1>15. CASE RefuseVendorWorkSource
  <2>1. /\ phase = "java" /\ phase' = "exited" /\ status' = 1
        /\ Written("java", 1) /\ errorCount' = errorCount
    BY <1>15 DEF RefuseVendorWorkSource, Exit
  <2>2. OnlyCleanAtomsWritten'
    BY <2>1, WrittenClean DEF WritePhases
  <2> QED BY <2>1, <2>2 DEF ExitTellsOfBrokenFiles, WritePhases
<1>16. CASE WriteRust
  <2>1. /\ phase = "rust" /\ phase' = "rustHeader" /\ status' = status /\ status = -1
        /\ Written("rust", RustErrors) /\ errorCount' = errorCount + RustErrors
        /\ options' = options
    BY <1>16 DEF WriteRust, GoOn, Written
  <2>2. Clean' /\ OnlyCleanAtomsWritten'
    BY <2>1, WrittenClean DEF WritePhases
  <2>3. ASSUME NEW n \in DOMAIN files' PROVE Told(n)'
    <3>1. CASE files'[n].writer = "rust" /\ (files'[n].complete <=> RustErrors = 0)
      BY <2>1, <3>1, ErrorCounts DEF Told
    <3>2. CASE n \in DOMAIN files /\ files'[n] = files[n]
      <4>1. Told(n)
        BY <2>1, <3>2 DEF WritePhases
      <4>2. errorCount # 0 => errorCount' # 0
        BY <2>1, ErrorCounts
      <4> QED BY <2>1, <3>2, <4>1, <4>2 DEF Told, Masked, Requested
    <3> QED BY <2>1, <3>1, <3>2, WrittenFiles
  <2>4. errorCount' \in Nat
    BY <2>1, ErrorCounts
  <2> QED BY <2>1, <2>2, <2>3, <2>4 DEF ExitTellsOfBrokenFiles
<1>17. CASE WriteRustHeader
  <2>1. /\ phase = "rustHeader" /\ phase' = "return" /\ status' = status /\ status = -1
        /\ Written("rustHeader", 0) /\ errorCount' = errorCount
        /\ options' = options
    BY <1>17 DEF WriteRustHeader, GoOn, Written
  <2>2. Clean' /\ OnlyCleanAtomsWritten'
    BY <2>1, WrittenClean DEF WritePhases
  <2>3. ASSUME NEW n \in DOMAIN files' PROVE Told(n)'
    <3>1. CASE n \in DOMAIN files /\ files'[n] = files[n]
      BY <2>1, <3>1 DEF Told, Masked, Requested, WritePhases
    <3>2. CASE files'[n].complete
      BY <3>2 DEF Told
    <3> QED BY <2>1, <3>1, <3>2, WrittenFiles
  <2> QED BY <2>1, <2>2, <2>3 DEF ExitTellsOfBrokenFiles
<1>18. CASE Return
  <2>1. /\ phase = "return" /\ phase' = "exited" /\ status' = errorCount
        /\ UNCHANGED <<options, collated, errorCount, files>>
    BY <1>18 DEF Return, Exit
  <2>2. OnlyCleanAtomsWritten'
    BY <2>1 DEF OnlyCleanAtomsWritten, found
  <2>3. ExitTellsOfBrokenFiles'
    BY <2>1 DEF ExitTellsOfBrokenFiles, Told, Masked, Requested, WritePhases
  <2> QED BY <2>1, <2>2, <2>3 DEF WritePhases
<1>19. CASE UNCHANGED vars
  BY <1>19 DEF vars, OnlyCleanAtomsWritten, ExitTellsOfBrokenFiles, Clean, Told, Masked,
               Requested, found
<1>20. CASE Exited
  BY <1>19, <1>20 DEF Exited
<1> QED BY <1>1, <1>2, <1>3, <1>4, <1>5, <1>6, <1>7, <1>8, <1>9, <1>10, <1>11, <1>12,
           <1>13, <1>14, <1>15, <1>16, <1>17, <1>18, <1>19, <1>20 DEF Next

\* No file is opened for atoms with errors, whatever is asked for and found.
THEOREM OnlyCleanCorrect == Spec => []OnlyCleanAtomsWritten
<1>1. Inv => OnlyCleanAtomsWritten
  BY DEF Inv
<1> QED BY InvInit, InvStep, <1>1, PTL DEF Spec

\* Exit status 0 means that every file is complete, but for a C++ file with a
\* header or a Java file written after it.
THEOREM ExitCorrect == Spec => []ExitTellsOfBrokenFiles
<1>1. Inv => ExitTellsOfBrokenFiles
  BY DEF Inv
<1> QED BY InvInit, InvStep, <1>1, PTL DEF Spec

-----------------------------------------------------------------------------
(* The outputs. *)

\* The writers that have had their turn when run() comes to a phase.
Before ==
  [cpp |-> {}, header |-> {"cpp"}, java |-> {"cpp", "header"}, rust |-> {"cpp", "header", "java"},
   rustHeader |-> {"cpp", "header", "java", "rust"}, return |-> Writers]

\* The files are those asked of the writers W, each of the last that was asked for it.
FilesOf(W) ==
  /\ DOMAIN files = {options[w] : w \in {v \in W : Requested(v)}}
  /\ \A n \in DOMAIN files, w \in W :
       options[w] = n => WriterOrder[w] <= WriterOrder[files[n].writer]

\* There are no atoms before the collation but after it, and then one writer after the other
\* has its turn.
OutputInv ==
  /\ phase \in {"parse", "check", "collate"} => collated = <<>>
  /\ phase \in WritePhases => FilesOf(Before[phase]) /\ collated # <<>>
  /\ OutputsWritten

\* Whether a writer is asked for anything only depends on its option.
LEMMA Requests ==
  /\ options' = options => \A v : Requested(v)' = Requested(v)
  /\ \A v, w : options[v] = options[w] => (Requested(v) <=> Requested(w))
<1>1. ASSUME options' = options, NEW v PROVE Requested(v)' = Requested(v)
  BY <1>1, Zenon DEF Requested
<1>2. ASSUME NEW v, NEW w, options[v] = options[w] PROVE Requested(v) <=> Requested(w)
  BY <1>2, Zenon DEF Requested
<1> QED BY <1>1, <1>2

\* A writer only changes files.
LEMMA WrittenOnly ==
  ASSUME NEW w, NEW errors, Written(w, errors)
  PROVE  UNCHANGED <<argv, index, options, collated>>
BY DEF Written

\* A writer adds its file, or takes over the file of a writer before it.
LEMMA WriterAdds ==
  ASSUME NEW W \in SUBSET Writers, NEW w \in Writers, NEW errors, FilesOf(W),
         Written(w, errors), Requested(w), \A v \in W : WriterOrder[v] < WriterOrder[w]
  PROVE  FilesOf(W \cup {w})'
<1>0. options' = options /\ \A v : Requested(v)' = Requested(v)
  BY Requests DEF Written
<1>1. /\ DOMAIN files' = DOMAIN files \cup {options[w]}
      /\ files'[options[w]].writer = w
      /\ \A n \in DOMAIN files \ {options[w]} : files'[n] = files[n]
  BY DEF Written
<1>2. {v \in W \cup {w} : Requested(v)} = {v \in W : Requested(v)} \cup {w}
  OBVIOUS
<1>3. DOMAIN files' = {options[v] : v \in {u \in W : Requested(u)} \cup {w}}
  BY <1>1 DEF FilesOf
<1>4. \A v \in Writers : WriterOrder[v] \in Nat
  BY DEF Writers, WriterOrder
<1>5. ASSUME NEW n \in DOMAIN files', NEW v \in W \cup {w}, options[v] = n
      PROVE  WriterOrder[v] <= WriterOrder[files'[n].writer]
  <2>1. CASE n = options[w]
    BY <1>1, <1>4, <2>1
  <2>2. CASE n # options[w]
    <3>1. n \in DOMAIN files /\ files'[n] = files[n] /\ v \in W
      BY <1>1, <1>5, <2>2
    <3> QED BY <1>5, <3>1 DEF FilesOf
  <2> QED BY <2>1, <2>2
<1>6. DOMAIN files' = {options[v] : v \in {u \in W \cup {w} : Requested(u)}}
  BY <1>2, <1>3
<1> QED BY <1>0, <1>5, <1>6 DEF FilesOf

\* A writer that is not asked for anything has no file.
LEMMA WriterSkipped ==
  ASSUME NEW W, NEW w, FilesOf(W), ~Requested(w), UNCHANGED <<options, files>>
  PROVE  FilesOf(W \cup {w})'
<1>1. \A v : Requested(v)' = Requested(v)
  BY Requests
<1>2. {v \in W \cup {w} : Requested(v)} = {v \in W : Requested(v)}
  OBVIOUS
<1>3. options[w] \notin DOMAIN files
  BY Requests DEF FilesOf
<1> QED BY <1>1, <1>2, <1>3 DEF FilesOf

\* What is left of the tool once run() has returned an error.
LEMMA FailedOutputs ==
  ASSUME phase' = "exited", status' # 0
  PROVE  OutputInv'
BY DEF OutputInv, OutputsWritten, WritePhases

\* The step to a writer's phase or to the end.
LEMMA TurnStep ==
  ASSUME phase' \in WritePhases, status' = -1, collated' # <<>>,
         NEW W, W = Before[phase'], FilesOf(W)'
  PROVE  OutputInv'
<1>1. FilesOf(Before[phase])'
  BY DEF FilesOf
<1>2. phase' \notin {"parse", "check", "collate"} /\ ~(status' = 0)
  BY DEF WritePhases
<1> QED BY <1>1, <1>2 DEF OutputInv, OutputsWritten

LEMMA OutputStep == Inv /\ OutputInv /\ [Next]_vars => OutputInv'
<1> SUFFICES ASSUME Inv, OutputInv, [Next]_vars PROVE OutputInv'
  OBVIOUS
<1>0. /\ phase # "exited" => status = -1
      /\ phase \in WritePhases => FilesOf(Before[phase]) /\ collated # <<>>
      /\ phase \in {"parse", "check", "collate"} => collated = <<>> /\ DOMAIN files = {}
  BY DEF Inv, OutputInv
<1>1. ASSUME phase' \in {"parse", "check", "collate", "exited"}, collated' = <<>>,
             status' = 0 => HelpGiven'
      PROVE  OutputInv'
  BY <1>1 DEF OutputInv, OutputsWritten, WritePhases
<1>2. CASE Help \/ MissingValue \/ SetValue \/ SetSwitch \/ SkipArgument
  <2>1. CASE Help
    BY <1>0, <1>1, <2>1 DEF Help, Parsing, Exit, HelpGiven
  <2>2. CASE MissingValue \/ SetValue \/ SetSwitch \/ SkipArgument
    BY <1>0, <1>1, <2>2 DEF MissingValue, SetValue, SetSwitch, SkipArgument, Parsing, Exit
  <2> QED BY <1>2, <2>1, <2>2
<1>3. CASE EndArguments \/ CheckOptions
  BY <1>0, <1>1, <1>3 DEF EndArguments, CheckOptions, Exit, GoOn
<1>4. CASE Collate
  <2>1. CASE errorCount' # 0
    BY <1>4, <2>1, FailedOutputs DEF Collate, Exit
  <2>2. CASE errorCount' = 0
    <3>1. phase' = "cpp" /\ status' = -1 /\ DOMAIN files' = {} /\ collated' # <<>>
      BY <1>0, <1>4, <2>2 DEF Collate, GoOn
    <3>2. FilesOf({})'
      BY <3>1 DEF FilesOf
    <3>3. Before[phase'] = {} /\ phase' \in WritePhases
      BY <3>1 DEF Before, WritePhases
    <3> QED BY <3>1, <3>2, <3>3, TurnStep
  <2> QED BY <2>1, <2>2
<1>5. CASE ImportFails \/ CannotWrite \/ RefuseVendorWorkSource
  <2>1. ASSUME NEW n, n # 0, Exit(n) PROVE OutputInv'
    BY <2>1, FailedOutputs DEF Exit
  <2>2. KILLED # 0
    BY DEF KILLED
  <2>3. Exit(KILLED) \/ Exit(1)
    BY <1>5, Zenon DEF ImportFails, CannotWrite, Refused, RefuseVendorWorkSource
  <2> QED BY <2>1, <2>2, <2>3
<1>6. ASSUME NEW w \in Writers, NEW next \in WritePhases, Before[next] = Before[w] \cup {w},
             phase = w, phase' = next, status' = status, collated' = collated,
             \/ ~Requested(w) /\ UNCHANGED <<options, files>>
             \/ Requested(w) /\ \E errors : Written(w, errors)
      PROVE  OutputInv'
  <2>1. FilesOf(Before[w]) /\ status' = -1 /\ collated' # <<>>
    BY <1>0, <1>6 DEF WritePhases, Writers
  <2>2. Before[w] \in SUBSET Writers /\ \A v \in Before[w] : WriterOrder[v] < WriterOrder[w]
    BY DEF Before, Writers, WriterOrder
  <2> DEFINE W == Before[w]
  <2>3. FilesOf(W) /\ W \in SUBSET Writers /\ (\A v \in W : WriterOrder[v] < WriterOrder[w])
        /\ W \cup {w} = Before[phase']
    BY <1>6, <2>1, <2>2
  <2> HIDE DEF W
  <2>4. FilesOf(W \cup {w})'
    <3>1. CASE ~Requested(w) /\ UNCHANGED <<options, files>>
      BY <2>3, <3>1, WriterSkipped
    <3>2. CASE Requested(w) /\ \E errors : Written(w, errors)
      <4>1. PICK errors : Written(w, errors)
        BY <3>2
      <4> QED BY <2>3, <3>2, <4>1, WriterAdds
    <3> QED BY <1>6, <3>1, <3>2
  <2> DEFINE V == W \cup {w}
  <2>5. V = Before[phase'] /\ FilesOf(V)' /\ phase' \in WritePhases /\ status' = -1
    BY <1>6, <2>1, <2>3, <2>4
  <2> HIDE DEF V
  <2> QED BY <2>1, <2>5, TurnStep
<1>7. /\ Before["header"] = Before["cpp"] \cup {"cpp"}
      /\ Before["java"] = Before["header"] \cup {"header"}
      /\ Before["rust"] = Before["java"] \cup {"java"}
      /\ Before["rustHeader"] = Before["rust"] \cup {"rust"}
      /\ Before["return"] = Before["rustHeader"] \cup {"rustHeader"}
      /\ WritePhases = Writers \cup {"return"}
      /\ Writers = {"cpp", "header", "java", "rust", "rustHeader"}
  BY DEF Before, Writers, WritePhases
<1>8. ASSUME NEW w \in Writers, NEW next \in WritePhases, NotRequested(w, next),
             Before[next] = Before[w] \cup {w}
      PROVE  OutputInv'
  BY <1>6, <1>8 DEF NotRequested, GoOn
<1>9. CASE SkipWriter
  BY <1>7, <1>8, <1>9 DEF SkipWriter
<1>10. CASE WriteCpp
  BY <1>6, <1>7, <1>10, WrittenOnly DEF WriteCpp, GoOn
<1>11. CASE WriteHeader
  BY <1>6, <1>7, <1>11, WrittenOnly DEF WriteHeader, GoOn
<1>12. CASE WriteJava
  BY <1>6, <1>7, <1>12, WrittenOnly DEF WriteJava, GoOn
<1>13. CASE WriteRust
  BY <1>6, <1>7, <1>13, WrittenOnly DEF WriteRust, GoOn
<1>14. CASE WriteRustHeader
  BY <1>6, <1>7, <1>14, WrittenOnly DEF WriteRustHeader, GoOn
<1>15. CASE Return
  <2>1. FilesOf(Writers) /\ UNCHANGED <<options, files>> /\ phase' = "exited" /\ collated' # <<>>
    BY <1>0, <1>15 DEF Return, Exit, WritePhases, Before
  <2>2. FilesOf(Writers)'
    BY <2>1, Requests DEF FilesOf
  <2> QED BY <2>1, <2>2 DEF OutputInv, OutputsWritten, FilesOf, WritePhases
<1>16. CASE UNCHANGED vars
  BY <1>16, Requests DEF vars, OutputInv, OutputsWritten, FilesOf, HelpGiven
<1>17. CASE Exited
  BY <1>16, <1>17 DEF Exited
<1> QED BY <1>2, <1>3, <1>4, <1>5, <1>9, <1>10, <1>11, <1>12, <1>13, <1>14, <1>15, <1>16, <1>17
        DEF Next

\* But for --help, exit status 0 means that atoms were found and every output
\* asked for was written, and a file two options name is what the later writer made of it.
THEOREM OutputsCorrect == Spec => []OutputsWritten
<1>1. Init => OutputInv
  BY DEF Init, OutputInv, OutputsWritten, WritePhases
<1>2. OutputInv => OutputsWritten
  BY DEF OutputInv
<1> QED BY InvInit, InvStep, OutputStep, <1>1, <1>2, PTL DEF Spec

-----------------------------------------------------------------------------
(* Types and API levels. *)

\* What each step does to the phase, and when the options and the atoms stay.
Order ==
  /\ phase \in {"parse", "check"} => phase' \in {"parse", "check", "collate", "exited"}
                                     /\ UNCHANGED <<collated, files, errorCount>>
  /\ phase \in {"parse", "check"} /\ phase' = "collate" => phase = "check" /\ ~BadOptions
  /\ phase = "check" => phase' \in {"collate", "exited"}
  /\ phase = "collate" => phase' \in {"cpp", "exited"} /\ UNCHANGED files
  /\ phase = "cpp" => phase' \in {"header", "exited"}
  /\ phase = "header" => phase' \in {"java", "exited"}
  /\ phase = "java" => phase' \in {"rust", "exited"}
  /\ phase = "rust" => phase' \in {"rustHeader", "exited"}
  /\ phase = "rustHeader" => phase' \in {"return", "exited"}
  /\ phase \in {"return", "exited"} => phase' = "exited" /\ UNCHANGED <<errorCount, files>>
  /\ phase # "parse" => UNCHANGED <<argv, index, options>>
  /\ phase \in WritePhases \cup {"exited"} => UNCHANGED collated

LEMMA PhaseOrder == Next => Order
<1> SUFFICES ASSUME Next PROVE Order
  OBVIOUS
<1> USE DEF Order, WritePhases
<1>1. CASE Help \/ MissingValue \/ SetValue \/ SetSwitch \/ SkipArgument
  BY <1>1 DEF Help, MissingValue, SetValue, SetSwitch, SkipArgument, Parsing, Exit
<1>2. CASE EndArguments
  BY <1>2 DEF EndArguments, GoOn
<1>3. CASE CheckOptions
  BY <1>3 DEF CheckOptions, Exit, GoOn
<1>4. CASE Collate \/ ImportFails
  BY <1>4 DEF Collate, ImportFails, Exit, GoOn
<1>5. CASE SkipWriter
  BY <1>5 DEF SkipWriter, NotRequested, GoOn
<1>6. CASE CannotWrite
  BY <1>6 DEF CannotWrite, Refused, Exit, Writers
<1>7. CASE WriteCpp \/ WriteHeader
  BY <1>7 DEF WriteCpp, WriteHeader, Written, GoOn
<1>8. CASE WriteJava \/ RefuseVendorWorkSource
  BY <1>8 DEF WriteJava, RefuseVendorWorkSource, Written, GoOn, Exit
<1>9. CASE WriteRust \/ WriteRustHeader
  BY <1>9 DEF WriteRust, WriteRustHeader, Written, GoOn
<1>10. CASE Return
  BY <1>10 DEF Return, Exit
<1>11. CASE Exited
  BY <1>11 DEF Exited, vars
<1> QED BY <1>1, <1>2, <1>3, <1>4, <1>5, <1>6, <1>7, <1>8, <1>9, <1>10, <1>11 DEF Next

\* Only the argument loop sets options, and it keeps their names.
OptionsOK == DOMAIN options = DOMAIN DefaultOptions /\ options.minApiLevel \in Int

LEMMA OptionsStep == OptionsOK /\ [Next]_vars => OptionsOK'
<1> SUFFICES ASSUME OptionsOK, [Next]_vars PROVE OptionsOK'
  OBVIOUS
<1>1. /\ \A name, value : DOMAIN [options EXCEPT ![name] = value] = DOMAIN options
      /\ \A name, value : name # "minApiLevel" =>
           [options EXCEPT ![name] = value].minApiLevel = options.minApiLevel
      /\ \A value : [options EXCEPT !.minApiLevel = value].minApiLevel = value
  BY DEF OptionsOK, DefaultOptions
<1>2. CASE SetValue
  <2> DEFINE name == ValueOption[argv[index]]
             value == argv[index + 1]
  <2>1. options' = IF name # "minApiLevel" THEN [options EXCEPT ![name] = value]
                   ELSE IF value = "current" THEN options
                   ELSE [options EXCEPT !.minApiLevel = Atoi(value)]
    BY <1>2 DEF SetValue
  <2>2. Atoi(value) \in Int
    BY DEF Atoi
  <2> HIDE DEF name, value
  <2> QED BY <1>1, <2>1, <2>2 DEF OptionsOK
<1>3. CASE SetSwitch
  <2>1. \/ options' = [options EXCEPT !.minApiLevel = API_Q]
        \/ options' = [options EXCEPT !.worksource = TRUE]
        \/ options' = [options EXCEPT !.bootstrap = TRUE]
    BY <1>3 DEF SetSwitch, Switches
  <2>2. CASE options' = [options EXCEPT !.minApiLevel = API_Q]
    BY <1>1, <2>2 DEF OptionsOK, API_Q
  <2>3. CASE options' = [options EXCEPT !.worksource = TRUE]
    BY <2>3 DEF OptionsOK, DefaultOptions
  <2>4. CASE options' = [options EXCEPT !.bootstrap = TRUE]
    BY <2>4 DEF OptionsOK, DefaultOptions
  <2> QED BY <2>1, <2>2, <2>3, <2>4
<1>4. CASE ~SetValue /\ ~SetSwitch
  <2>1. options' = options
    <3>1. CASE Help \/ MissingValue \/ SkipArgument
      BY <3>1 DEF Help, MissingValue, SkipArgument
    <3>2. CASE phase # "parse" /\ Next
      BY <3>2, PhaseOrder DEF Order
    <3>3. CASE EndArguments \/ UNCHANGED vars
      BY <3>3 DEF EndArguments, vars
    <3>4. Next /\ phase = "parse" => Help \/ MissingValue \/ SkipArgument \/ EndArguments
      BY <1>4 DEF Next, CheckOptions, Collate, ImportFails, SkipWriter, NotRequested, CannotWrite,
                  Refused, Writers, WriteCpp, WriteHeader, WriteJava, RefuseVendorWorkSource,
                  WriteRust, WriteRustHeader, Return, Exited
    <3> QED BY <3>1, <3>2, <3>3, <3>4
  <2> QED BY <2>1 DEF OptionsOK
<1> QED BY <1>2, <1>3, <1>4

\* What the files hold: each what its option names, from the writer it names,
\* and the C++ one is complete only if its writer found no error.
FilesOK ==
  \A n \in DOMAIN files :
    /\ files[n].writer \in Writers
    /\ options[files[n].writer] = n
    /\ files[n].writer = "cpp" /\ files[n].complete => CppErrors = 0

\* The strengthening of TypeOK and OldLevelsFit.
TypeInv ==
  /\ TypeOK
  /\ OptionsOK
  /\ FilesOK
  /\ phase \in {"collate"} \cup WritePhases => ~BadOptions
  /\ DOMAIN files # {} => ~BadOptions /\ phase \in WritePhases \cup {"exited"}

\* A writer, the file it leaves and the number of its errors.
Writes(w) ==
  \E errors \in Nat : Written(w, errors) /\ (w = "cpp" => errors = CppErrors)

LEMMA FilesWritten ==
  ASSUME Next
  PROVE  UNCHANGED files \/ \E w \in Writers : phase = w /\ Writes(w)
<1>1. CASE WriteCpp
  BY <1>1, ErrorCounts DEF WriteCpp, Writes, Writers
<1>2. CASE WriteHeader
  BY <1>2 DEF WriteHeader, Writes, Writers
<1>3. CASE WriteJava
  <2>1. JavaErrors + DroppedErrors \in Nat
    BY ErrorCounts, DroppedErrorsTold
  <2> QED BY <1>3, <2>1 DEF WriteJava, Writes, Writers
<1>4. CASE RefuseVendorWorkSource
  BY <1>4 DEF RefuseVendorWorkSource, Writes, Writers
<1>5. CASE WriteRust
  BY <1>5, ErrorCounts DEF WriteRust, Writes, Writers
<1>6. CASE WriteRustHeader
  BY <1>6 DEF WriteRustHeader, Writes, Writers
<1>7. CASE Help \/ MissingValue \/ SetValue \/ SetSwitch \/ SkipArgument
  BY <1>7 DEF Help, MissingValue, SetValue, SetSwitch, SkipArgument, Parsing
<1>8. CASE EndArguments \/ CheckOptions \/ Collate \/ ImportFails
  BY <1>8 DEF EndArguments, CheckOptions, Collate, ImportFails
<1>9. CASE SkipWriter \/ CannotWrite \/ Return \/ Exited
  BY <1>9 DEF SkipWriter, NotRequested, CannotWrite, Refused, Return, Exited, vars
<1> QED BY <1>1, <1>2, <1>3, <1>4, <1>5, <1>6, <1>7, <1>8, <1>9 DEF Next

LEMMA FilesStep == TypeInv /\ [Next]_vars => FilesOK'
<1> SUFFICES ASSUME TypeInv, [Next]_vars, NEW n \in DOMAIN files'
             PROVE  /\ files'[n].writer \in Writers
                    /\ options'[files'[n].writer] = n
                    /\ files'[n].writer = "cpp" /\ files'[n].complete => CppErrors' = 0
  BY DEF FilesOK
<1>1. ASSUME UNCHANGED files
      PROVE  UNCHANGED <<options, collated>>
  <2>1. DOMAIN files # {}
    BY <1>1
  <2>2. phase \in WritePhases \cup {"exited"}
    BY <2>1 DEF TypeInv
  <2> QED BY <2>2, PhaseOrder DEF Order, vars, WritePhases
<1>2. UNCHANGED <<options, collated>> => CppErrors' = CppErrors
  BY DEF CppErrors, Vendor, found
<1>3. CASE UNCHANGED files
  BY <1>1, <1>2, <1>3 DEF TypeInv, FilesOK
<1>4. ASSUME NEW w \in Writers, Writes(w) 
      PROVE  /\ files'[n].writer \in Writers
             /\ options'[files'[n].writer] = n
             /\ files'[n].writer = "cpp" /\ files'[n].complete => CppErrors' = 0
  <2>1. PICK errors \in Nat : Written(w, errors) /\ (w = "cpp" => errors = CppErrors)
    BY <1>4 DEF Writes
  <2>2. UNCHANGED <<options, collated>>
    BY <2>1 DEF Written
  <2>3. CASE n = options[w]
    <3>1. files'[n].writer = w /\ (files'[n].complete <=> errors = 0)
      BY <2>1, <2>3 DEF Written
    <3> QED BY <1>2, <2>1, <2>2, <2>3, <3>1
  <2>4. CASE n # options[w]
    <3>1. n \in DOMAIN files /\ files'[n] = files[n]
      BY <2>1, <2>4 DEF Written
    <3> QED BY <1>2, <2>2, <3>1 DEF TypeInv, FilesOK
  <2> QED BY <2>3, <2>4
<1> QED BY <1>3, <1>4, FilesWritten DEF vars

LEMMA TypeInvInit == Init => TypeInv
<1> SUFFICES ASSUME Init PROVE TypeInv
  OBVIOUS
<1>1. /\ argv \in Seq(STRING) /\ index = 1 /\ options = DefaultOptions /\ phase = "parse"
      /\ collated = <<>> /\ errorCount = 0 /\ DOMAIN files = {} /\ status = -1
  BY ToolAssumption DEF Init
<1>2. OptionsOK
  <2>1. DefaultOptions.minApiLevel = 10000
    BY DEF DefaultOptions, API_LEVEL_CURRENT
  <2> QED BY <1>1, <2>1 DEF OptionsOK
<1>3. TypeOK
  BY <1>1 DEF TypeOK
<1> QED BY <1>1, <1>2, <1>3 DEF TypeInv, FilesOK, WritePhases

\* The variables beside the files, whose part of TypeOK is FilesOK.
LEMMA TypeOKStep ==
  ASSUME TypeInv, [Next]_vars, errorCount' \in Nat
  PROVE  TypeOK'
<1>1. argv' \in Seq(STRING) /\ index' \in 1 .. Len(argv') + 1
  <2>1. argv \in Seq(STRING) /\ Len(argv) \in Nat /\ index \in 1 .. Len(argv) + 1
    BY DEF TypeInv, TypeOK
  <2>2. CASE Help \/ MissingValue \/ SetValue \/ SetSwitch \/ SkipArgument \/ EndArguments
    BY <2>1, <2>2 DEF Help, MissingValue, SetValue, SetSwitch, SkipArgument, EndArguments, Parsing
  <2>3. CASE phase # "parse" \/ UNCHANGED vars
    BY <2>1, <2>3, PhaseOrder DEF Order, vars
  <2>4. Next /\ phase = "parse" =>
          Help \/ MissingValue \/ SetValue \/ SetSwitch \/ SkipArgument \/ EndArguments
    BY DEF Next, CheckOptions, Collate, ImportFails, SkipWriter, NotRequested, CannotWrite,
           Refused, Writers, WriteCpp, WriteHeader, WriteJava, RefuseVendorWorkSource,
           WriteRust, WriteRustHeader, Return, Exited
  <2> QED BY <2>2, <2>3, <2>4
<1>2. OptionsOK'
  BY OptionsStep DEF TypeInv
<1>3. phase' \in {"parse", "check", "collate", "return", "exited"} \cup Writers
  BY PhaseOrder DEF Order, TypeInv, TypeOK, Writers, vars
<1>4. collated' \in {<<>>} \cup {<<r>> : r \in Collations}
  <2>1. CASE Collate
    BY <2>1 DEF Collate
  <2>2. CASE ~Collate
    <3>1. Next => UNCHANGED collated
      BY <2>2 DEF Next, Help, MissingValue, SetValue, SetSwitch, SkipArgument, Parsing, EndArguments,
                  CheckOptions, ImportFails, SkipWriter, NotRequested, CannotWrite, Refused, WriteCpp,
                  WriteHeader, WriteJava, RefuseVendorWorkSource, WriteRust, WriteRustHeader, Written,
                  Return, Exited, vars
    <3> QED BY <3>1 DEF TypeInv, TypeOK, vars
  <2> QED BY <2>1, <2>2
<1>5. status' \in {-1, KILLED} \cup Nat
  <2>1. errorCount \in Nat /\ status \in {-1, KILLED} \cup Nat
    BY DEF TypeInv, TypeOK
  <2>2. CASE Help \/ MissingValue \/ CheckOptions \/ Collate \/ ImportFails
    <3>1. status' \in {0, 1, KILLED} \/ status' = status
      BY <2>2 DEF Help, MissingValue, CheckOptions, Collate, ImportFails, Exit, GoOn
    <3> QED BY <2>1, <3>1
  <2>3. CASE CannotWrite \/ RefuseVendorWorkSource \/ Return
    BY <2>1, <2>3 DEF CannotWrite, Refused, RefuseVendorWorkSource, Return, Exit
  <2>4. CASE SetValue \/ SetSwitch \/ SkipArgument \/ EndArguments \/ SkipWriter
    BY <2>1, <2>4 DEF SetValue, SetSwitch, SkipArgument, EndArguments, SkipWriter, NotRequested, GoOn
  <2>5. CASE WriteCpp \/ WriteHeader \/ WriteJava \/ WriteRust \/ WriteRustHeader
    BY <2>1, <2>5 DEF WriteCpp, WriteHeader, WriteJava, WriteRust, WriteRustHeader, GoOn
  <2>6. CASE Exited \/ UNCHANGED vars
    BY <2>1, <2>6 DEF Exited, vars
  <2> QED BY <2>2, <2>3, <2>4, <2>5, <2>6 DEF Next
<1>6. \A n \in DOMAIN files' : files'[n].writer \in Writers /\ options'[files'[n].writer] = n
  BY FilesStep DEF FilesOK
<1> QED BY <1>1, <1>2, <1>3, <1>4, <1>5, <1>6 DEF TypeOK, OptionsOK

LEMMA TypeInvStep == TypeInv /\ Inv' /\ [Next]_vars => TypeInv'
<1> SUFFICES ASSUME TypeInv, Inv', [Next]_vars PROVE TypeInv'
  OBVIOUS
<1>1. TypeOK' /\ OptionsOK' /\ FilesOK'
  BY TypeOKStep, OptionsStep, FilesStep DEF TypeInv, Inv
<1>2. options' = options => BadOptions' = BadOptions
  BY DEF BadOptions, Requested
<1>3. phase' \in {"collate"} \cup WritePhases => ~BadOptions'
  <2>1. CASE UNCHANGED vars
    BY <1>2, <2>1 DEF TypeInv, vars
  <2>2. CASE Next /\ phase \in {"parse", "check"}
    <3>1. phase' \in {"collate"} \cup WritePhases => phase' = "collate"
      BY <2>2, PhaseOrder DEF Order, WritePhases
    <3>2. phase' = "collate" => ~BadOptions /\ options' = options
      BY <2>2, PhaseOrder DEF Order
    <3> QED BY <1>2, <3>1, <3>2
  <2>3. CASE Next /\ phase \notin {"parse", "check"}
    <3>1. options' = options
      BY <2>3, PhaseOrder DEF Order
    <3>2. phase' \in {"collate"} \cup WritePhases => phase \in {"collate"} \cup WritePhases
      BY <2>3, PhaseOrder DEF Order, WritePhases, TypeInv, TypeOK, Writers
    <3> QED BY <1>2, <3>1, <3>2 DEF TypeInv
  <2> QED BY <2>1, <2>2, <2>3
<1>4. DOMAIN files' # {} => ~BadOptions' /\ phase' \in WritePhases \cup {"exited"}
  <2>1. CASE UNCHANGED vars
    BY <1>2, <2>1 DEF TypeInv, vars
  <2>2. CASE Next /\ phase \in WritePhases \cup {"exited"}
    <3>1. options' = options /\ phase' \in WritePhases \cup {"exited"}
      BY <2>2, PhaseOrder DEF Order, WritePhases
    <3>2. phase = "exited" => files' = files
      BY <2>2, PhaseOrder DEF Order
    <3> QED BY <1>2, <2>2, <3>1, <3>2 DEF TypeInv
  <2>3. CASE Next /\ phase \notin WritePhases \cup {"exited"}
    <3>1. phase \in {"parse", "check", "collate"}
      BY <2>3 DEF TypeInv, TypeOK, Writers, WritePhases
    <3>2. files' = files
      BY <2>3, <3>1, PhaseOrder DEF Order
    <3> QED BY <2>3, <3>2 DEF TypeInv
  <2> QED BY <2>1, <2>2, <2>3
<1> QED BY <1>1, <1>3, <1>4 DEF TypeInv

\* A C++ writer without error has no repeated field for a level below T.
LEMMA OldCppHasNoRepeated ==
  ASSUME TypeInv, Inv, NEW n \in DOMAIN files, files[n].complete, files[n].writer = "cpp",
         ~Vendor, options.minApiLevel < API_T, options.minApiLevel # API_LEVEL_CURRENT,
         NEW s \in DOMAIN found.atoms.signatureInfoMap \cup DOMAIN found.atoms.pulledAtomsSignatureInfoMap
  PROVE  ~HasRepeated(s)
<1>1. ~BadOptions /\ CppErrors = 0
  BY DEF TypeInv, FilesOK
<1>2. ~options.bootstrap
  BY <1>1 DEF BadOptions
<1>3. /\ write_native_stats_write_methods(found.atoms.signatureInfoMap, options.minApiLevel, options.bootstrap) = 0
      /\ write_native_build_stats_event_methods(found.atoms.pulledAtomsSignatureInfoMap, options.minApiLevel) = 0
  BY <1>1, <1>2 DEF CppErrors, write_stats_log_cpp, write_native_stats_write_methods,
                    write_native_build_stats_event_methods, Count
<1>4. write_native_method_body(s, options.minApiLevel) = 0 => ~HasRepeated(s)
  BY DEF write_native_method_body, Count
<1>5. CompatErrors(s) = 0 => ~HasRepeated(s)
  BY DEF CompatErrors, Count, HasRepeated, is_repeated_field, ChainedTypes, PlainTypes,
         PrimitiveJavaTypes, RepeatedJavaTypes
<1>6. write_native_method_body(s, options.minApiLevel) = 0 \/ CompatErrors(s) = 0
  BY <1>2, <1>3 DEF write_native_stats_write_methods, write_native_build_stats_event_methods,
                    write_native_method_body, CompatErrors, Count
<1> QED BY <1>4, <1>5, <1>6

LEMMA TypeInvAlways == Spec => [](TypeInv /\ Inv)
<1>1. TypeInv /\ Inv /\ [Next]_vars => (TypeInv /\ Inv)'
  BY InvStep, TypeInvStep
<1> QED BY InvInit, TypeInvInit, <1>1, PTL DEF Spec

\* Type correctness: a file is only ever what an option asked for, by the
\* writer of that option.
THEOREM TypeCorrect == Spec => []TypeOK
<1>1. TypeInv => TypeOK
  BY DEF TypeInv
<1> QED BY TypeInvAlways, <1>1, PTL

-----------------------------------------------------------------------------
(* The run comes to its end: a number that every step makes smaller.        *)

\* The phases ahead of run(), each with one step at most but for the arguments.
Ahead == [parse |-> 9, check |-> 8, collate |-> 7, cpp |-> 6, header |-> 5, java |-> 4,
          rust |-> 3, rustHeader |-> 2, return |-> 1, exited |-> 0]

StepsLeft == Ahead[phase] + (IF phase = "parse" THEN (Len(argv) + 1) - index ELSE 0)

LEMMA StepsLeftType ==
  ASSUME TypeOK
  PROVE  StepsLeft \in Nat
<1>1. Len(argv) \in Nat /\ index \in 1 .. Len(argv) + 1
  BY DEF TypeOK
<1>2. Ahead[phase] \in Nat
  BY DEF TypeOK, Ahead, Writers
<1> QED BY <1>1, <1>2 DEF StepsLeft

\* The argument loop moves on by one or two arguments, or is left.
LEMMA ParseMovesOn ==
  ASSUME TypeOK, Next, phase = "parse", phase' = "parse"
  PROVE  argv' = argv /\ index' \in Int /\ index' > index
<1>1. Len(argv) \in Nat /\ index \in 1 .. Len(argv) + 1
  BY DEF TypeOK
<1>2. SetValue \/ SetSwitch \/ SkipArgument
  BY DEF Next, Help, MissingValue, EndArguments, CheckOptions, Collate, ImportFails, SkipWriter,
         NotRequested, CannotWrite, Refused, Writers, WriteCpp, WriteHeader, WriteJava,
         RefuseVendorWorkSource, WriteRust, WriteRustHeader, Return, Exited, Exit, GoOn
<1>3. argv' = argv /\ (index' = index + 1 \/ index' = index + 2)
  BY <1>2 DEF SetValue, SetSwitch, SkipArgument, Parsing
<1> QED BY <1>1, <1>3

\* Once run() has returned there is no step.
LEMMA ExitedStays ==
  ASSUME Next, phase = "exited"
  PROVE  UNCHANGED vars
BY DEF Next, Help, MissingValue, SetValue, SetSwitch, SkipArgument, Parsing, EndArguments,
       CheckOptions, Collate, ImportFails, SkipWriter, NotRequested, CannotWrite, Refused, Writers,
       WriteCpp, WriteHeader, WriteJava, RefuseVendorWorkSource, WriteRust, WriteRustHeader,
       Return, Exited

\* run() takes at most 9 steps besides one for each argument, whatever fails:
\* with the fairness of Spec, and as a step can always be taken, it returns.
THEOREM ToolRunsDown == Spec => [](StepsLeft \in Nat) /\ [][StepsLeft' < StepsLeft]_vars
<1>1. TypeInv => TypeOK /\ StepsLeft \in Nat
  BY StepsLeftType DEF TypeInv
<1>2. ASSUME TypeOK, TypeOK', [Next]_vars PROVE [StepsLeft' < StepsLeft]_vars
  <2> SUFFICES ASSUME Next, phase # "exited" PROVE StepsLeft' < StepsLeft
    BY <1>2, ExitedStays
  <2>1. /\ Len(argv) \in Nat /\ index \in 1 .. Len(argv) + 1
        /\ Len(argv)' \in Nat /\ index' \in 1 .. Len(argv)' + 1
    BY <1>2 DEF TypeOK
  <2>2. phase \in {"parse", "check", "collate", "return", "exited"} \cup Writers
    BY <1>2 DEF TypeOK
  <2>3. CASE phase' = "parse"
    <3>1. phase = "parse"
      BY <2>2, <2>3, PhaseOrder DEF Order, Writers
    <3>2. argv' = argv /\ index' > index
      BY <1>2, <2>3, <3>1, ParseMovesOn
    <3> QED BY <2>1, <2>3, <3>1, <3>2 DEF StepsLeft, Ahead
  <2>4. CASE phase' # "parse"
    <3>1. Ahead[phase'] < Ahead[phase] /\ Ahead[phase'] \in Nat /\ Ahead[phase] \in Nat
      BY <2>2, <2>4, PhaseOrder DEF Order, Writers, Ahead
    <3> QED BY <2>1, <2>4, <3>1 DEF StepsLeft
  <2> QED BY <2>3, <2>4
<1> QED BY TypeInvAlways, <1>1, <1>2, PTL DEF Spec

\* The option checks, made before anything is collated, fit what the writers do.
THEOREM LevelsCorrect == Spec => []OldLevelsFit
<1>1. TypeInv /\ Inv => OldLevelsFit
  <2> SUFFICES ASSUME TypeInv, Inv, NEW n \in DOMAIN files
               PROVE  /\ options.minApiLevel >= API_Q
                      /\ options.minApiLevel # API_LEVEL_CURRENT
                           => options.module # DEFAULT_MODULE_NAME /\ ~options.bootstrap
                      /\ files[n].complete /\ files[n].writer = "cpp" /\ ~Vendor
                           /\ options.minApiLevel < API_T
                           => \A s \in DOMAIN found.atoms.signatureInfoMap
                                      \cup DOMAIN found.atoms.pulledAtomsSignatureInfoMap : ~HasRepeated(s)
    BY DEF OldLevelsFit
  <2>1. ~BadOptions /\ options.minApiLevel \in Int
    BY DEF TypeInv, OptionsOK
  <2>2. options.minApiLevel < API_T => options.minApiLevel # API_LEVEL_CURRENT
    BY <2>1 DEF API_T, API_LEVEL_CURRENT
  <2>3. options.minApiLevel >= API_Q
    BY <2>1 DEF BadOptions, API_Q
  <2>4. options.minApiLevel # API_LEVEL_CURRENT => options.module # DEFAULT_MODULE_NAME /\ ~options.bootstrap
    BY <2>1 DEF BadOptions
  <2> QED BY <2>2, <2>3, <2>4, OldCppHasNoRepeated
<1> QED BY TypeInvAlways, <1>1, PTL

-----------------------------------------------------------------------------
(* The prefixes.  The writers run in a fixed order, so the prefix of a file *)
(* can only be its own or that of a writer before its own.                  *)

\* Who may have built the map, and with which prefix, by the phase reached.
BuiltBy ==
  IF ~Vendor THEN ANNOTATION_ID_CONSTANTS = "ANNOTATION_ID_"
  ELSE \/ /\ ANNOTATION_ID_CONSTANTS = "AnnotationId::"
          /\ Annotated /\ Requested("cpp")
       \/ /\ ANNOTATION_ID_CONSTANTS = "AnnotationId."
          /\ Annotated /\ Requested("java") /\ phase \notin {"header", "java"}
       \/ /\ ANNOTATION_ID_CONSTANTS = "ANNOTATION_ID_"
          /\ phase \notin {"header", "java", "rust"}

PrefixInv ==
  /\ phase \in {"parse", "check", "collate", "cpp"} => ANNOTATION_ID_CONSTANTS = ""
  /\ ANNOTATION_ID_CONSTANTS = "" => DOMAIN namedWith = {}
  /\ ANNOTATION_ID_CONSTANTS # "" => BuiltBy
  /\ PrefixesFit

\* No name is given, and the options and the atoms stay as they are.
LEMMA QuietStep ==
  ASSUME PrefixInv, NoNames, UNCHANGED <<options, collated>>,
         phase' = phase \/ (Next /\ phase \in WritePhases \cup {"exited"})
  PROVE  PrefixInv'
<1>1. /\ Vendor' = Vendor /\ \A w : Requested(w)' = Requested(w)
      /\ Annotated' = Annotated /\ \A w : OwnPrefix(w)' = OwnPrefix(w)
  BY DEF Vendor, Requested, Annotated, AnnotatedFrom, OwnPrefix, found
<1>2. /\ phase' \in {"parse", "check", "collate", "cpp"} => phase \in {"parse", "check", "collate", "cpp"}
      /\ phase' \in {"header", "java"} => phase \in {"cpp", "header", "java"}
      /\ phase' = "rust" => phase \in {"java", "rust"}
  BY PhaseOrder DEF Order, WritePhases
<1>3. ANNOTATION_ID_CONSTANTS # "" /\ phase # "cpp" => BuiltBy'
  <2>1. CASE ~Vendor
    BY <1>1, <2>1 DEF PrefixInv, BuiltBy, NoNames
  <2>2. CASE Vendor
    BY <1>1, <1>2, <2>2 DEF PrefixInv, BuiltBy, NoNames
  <2> QED BY <2>1, <2>2
<1>4. PrefixesFit'
  BY <1>1 DEF PrefixInv, PrefixesFit, NoNames
<1> QED BY <1>2, <1>3, <1>4 DEF PrefixInv, NoNames

\* Before the writers there is no map, and they are reached without one.
LEMMA EarlyStep ==
  ASSUME PrefixInv, NoNames, phase \in {"parse", "check", "collate"}
  PROVE  PrefixInv'
<1>1. ANNOTATION_ID_CONSTANTS' = "" /\ DOMAIN namedWith' = {}
  BY DEF PrefixInv, NoNames
<1> QED BY <1>1 DEF PrefixInv, PrefixesFit

\* A writer asks: it is the first, or gets the prefix of one before it.
LEMMA AskStep ==
  ASSUME PrefixInv, Next, phase \in Writers, Requested(phase), phase' # "exited",
         NEW asks \in Asks(phase), asks, get_annotation_id_constants(phase)
  PROVE  PrefixInv'
<1>0. /\ phase \in {"cpp", "header", "java", "rust"} /\ phase \in WritePhases
      /\ phase = "header" => ~Vendor
      /\ Vendor /\ phase \in {"cpp", "java"} => Annotated
  BY DEF Asks, AtAnAnnotation, Writers, WritePhases
<1>1. /\ UNCHANGED <<options, collated>>
      /\ phase = "cpp" => phase' = "header"
      /\ phase = "header" => phase' = "java"
      /\ phase = "java" => phase' = "rust"
      /\ phase = "rust" => phase' = "rustHeader"
  BY <1>0, PhaseOrder DEF Order
<1>2. /\ Vendor' = Vendor /\ \A w : Requested(w)' = Requested(w)
      /\ Annotated' = Annotated /\ \A w : OwnPrefix(w)' = OwnPrefix(w)
  BY <1>1 DEF Vendor, Requested, Annotated, AnnotatedFrom, OwnPrefix, found
<1>3. /\ ANNOTATION_ID_CONSTANTS' =
           IF ANNOTATION_ID_CONSTANTS = "" THEN OwnPrefix(phase) ELSE ANNOTATION_ID_CONSTANTS
      /\ DOMAIN namedWith' = DOMAIN namedWith \cup {phase}
      /\ namedWith'[phase] = ANNOTATION_ID_CONSTANTS'
      /\ \A w \in DOMAIN namedWith \ {phase} : namedWith'[w] = namedWith[w]
  BY DEF get_annotation_id_constants
<1>4. ANNOTATION_ID_CONSTANTS' # "" /\ BuiltBy'
  <2>1. CASE ANNOTATION_ID_CONSTANTS = ""
    BY <1>0, <1>1, <1>2, <1>3, <2>1 DEF BuiltBy, OwnPrefix
  <2>2. CASE ANNOTATION_ID_CONSTANTS # ""
    BY <1>0, <1>1, <1>2, <1>3, <2>2 DEF PrefixInv, BuiltBy
  <2> QED BY <2>1, <2>2
<1>5. \/ namedWith'[phase] = OwnPrefix(phase)
      \/ Vendor /\ Annotated /\ (Requested("cpp") \/ (phase = "rust" /\ Requested("java")))
  <2>1. CASE ANNOTATION_ID_CONSTANTS = ""
    BY <1>3, <2>1
  <2>2. CASE ANNOTATION_ID_CONSTANTS # "" /\ ~Vendor
    BY <1>3, <2>2 DEF PrefixInv, BuiltBy, OwnPrefix
  <2>3. CASE ANNOTATION_ID_CONSTANTS # "" /\ Vendor
    BY <1>0, <1>3, <2>3 DEF PrefixInv, BuiltBy, OwnPrefix
  <2> QED BY <2>1, <2>2, <2>3
<1>6. PrefixesFit'
  BY <1>2, <1>3, <1>5 DEF PrefixInv, PrefixesFit
<1>7. phase' \notin {"parse", "check", "collate", "cpp"}
  BY <1>0, <1>1
<1> QED BY <1>4, <1>6, <1>7 DEF PrefixInv

LEMMA PrefixInvStep == TypeOK /\ PrefixInv /\ [PrefixNext]_prefixVars => PrefixInv'
<1> SUFFICES ASSUME TypeOK, PrefixInv, [PrefixNext]_prefixVars PROVE PrefixInv'
  OBVIOUS
<1>1. CASE UNCHANGED prefixVars
  BY <1>1, QuietStep DEF prefixVars, vars, NoNames
<1>2. CASE PrefixNext /\ phase \in Writers /\ Requested(phase) /\ phase' # "exited"
  <2>1. PICK asks \in Asks(phase) : IF asks THEN get_annotation_id_constants(phase) ELSE NoNames
    BY <1>2 DEF PrefixNext
  <2>2. CASE asks
    BY <1>2, <2>1, <2>2, AskStep DEF PrefixNext
  <2>3. CASE ~asks
    <3>1. NoNames /\ Next /\ phase \in WritePhases
      BY <1>2, <2>1, <2>3 DEF PrefixNext, Writers, WritePhases
    <3>2. UNCHANGED <<options, collated>>
      BY <3>1, PhaseOrder DEF Order, WritePhases
    <3> QED BY <3>1, <3>2, QuietStep
  <2> QED BY <2>2, <2>3
<1>3. CASE PrefixNext /\ ~(phase \in Writers /\ Requested(phase) /\ phase' # "exited")
  <2>1. NoNames /\ Next
    BY <1>3 DEF PrefixNext
  <2>2. CASE phase \in {"parse", "check", "collate"}
    BY <2>1, <2>2, EarlyStep
  <2>3. CASE phase \notin {"parse", "check", "collate"}
    <3>1. phase \in WritePhases \cup {"exited"}
      BY <2>3 DEF TypeOK, Writers, WritePhases
    <3>2. UNCHANGED <<options, collated>>
      BY <2>1, <3>1, PhaseOrder DEF Order, WritePhases
    <3> QED BY <2>1, <3>1, <3>2, QuietStep
  <2> QED BY <2>2, <2>3
<1> QED BY <1>1, <1>2, <1>3

\* Keeping the prefixes is no hindrance to the tool: what is proved of its steps
\* holds of them with the prefixes.
LEMMA ToolInside == PrefixSpec => Init /\ [][Next]_vars
<1>1. PrefixInit => Init
  BY DEF PrefixInit
<1>2. [PrefixNext]_prefixVars => [Next]_vars
  BY DEF PrefixNext, prefixVars
<1> QED BY <1>1, <1>2, PTL DEF PrefixSpec

\* The annotations in a file have the names of its language, but for vendor
\* atoms in a call that writes C++ or Java for them before it.
THEOREM PrefixesCorrect == PrefixSpec => []PrefixesFit
<1>1. PrefixInit => PrefixInv
  BY DEF PrefixInit, Init, PrefixInv, PrefixesFit
<1>2. TypeInv => TypeOK
  BY DEF TypeInv
<1>3. TypeInv /\ Inv /\ [Next]_vars => (TypeInv /\ Inv)'
  BY InvStep, TypeInvStep
<1>4. PrefixSpec => []TypeOK
  BY InvInit, TypeInvInit, ToolInside, <1>2, <1>3, PTL
<1>5. PrefixInv => PrefixesFit
  BY DEF PrefixInv
<1> QED BY PrefixInvStep, <1>1, <1>4, <1>5, PTL DEF PrefixSpec
=============================================================================
