--------------------------- MODULE ExpressCatalog ---------------------------
(***************************************************************************)
(* The express metric catalog: the library that reads a directory of .cfg  *)
(* files into one map of metrics and computes their ids (catalog.cpp), and *)
(* the two programs that use it, the validator, a test, and the generator  *)
(* of the Java class (expresscatalog-code-gen).                            *)
(*                                                                         *)
(* A metric id is a number, its rank among the ids in the order of the     *)
(* maps; a metric has its id, if any, and its MetricType.                  *)
(***************************************************************************)
EXTENDS Integers, Sequences, TLC

CONSTANTS
  Requests,        \* the tool, its output and the directory it finds
  WellNamed,       \* the ids that match the regular expression
  Fingerprint      \* the hash of every id

METRIC_TYPE_UNKNOWN == 0
MetricTypes == 0 .. 4

IsMetric(m) == /\ m.id \in SUBSET Nat /\ \A i, j \in m.id : i = j
               /\ m.type \in MetricTypes

\* An entry of the directory; of a directory in it, metrics are those of the
\* .cfg files below.
IsEntry(e) == /\ {e.regular, e.cfg, e.readable, e.parses} \subseteq BOOLEAN
              /\ e.metrics \in Seq([id : SUBSET Nat, type : MetricTypes])
              /\ \A i \in 1 .. Len(e.metrics) : IsMetric(e.metrics[i])

ASSUME CatalogAssumption ==
  /\ \A r \in Requests :
       /\ r.tool \in {"validator", "codegen"}
       /\ {r.java, r.writable, r.exists} \subseteq BOOLEAN
       /\ \A n \in DOMAIN r.entries : IsEntry(r.entries[n])
  /\ WellNamed \subseteq DOMAIN Fingerprint

VARIABLES
  request,
  phase,         \* "read", "file", "hash", "generate", "write" or "exited"
  unread,        \* the entries the directory iterator has not come to
  file, at,      \* the file being read, and the metric of it that is next
  metrics,       \* the type of every metric read, by id
  unhashed,      \* the ids generateMetricsIds has not come to
  metricsIds,    \* the hash and the type of the others
  unwritten,     \* the ids that are not in the Java file yet
  generated,     \* the Java file
  status         \* what the tool returned, or RUNNING

vars == <<request, phase, unread, file, at, metrics, unhashed, metricsIds,
          unwritten, generated, status>>

RUNNING == -2
FAILED  == -1
KILLED  == 134

Empty  == [id \in {} |-> 0]
NoFile == [written |-> FALSE, complete |-> FALSE, entries |-> Empty]

entries == request.entries

\* A file that cannot be read gives an empty text, which is a valid message.
IsConfig(e)   == e.regular /\ e.cfg
MetricsOf(e)  == IF e.readable THEN e.metrics ELSE <<>>
TextParses(e) == e.readable => e.parses

Located(name)   == IsConfig(entries[name])
MetricsIn(name) == MetricsOf(entries[name])
Parses(name)    == TextParses(entries[name])

Init ==
  /\ request \in Requests
  /\ phase = "read"
  /\ unread = DOMAIN request.entries
  /\ file = "" /\ at = 1
  /\ metrics = Empty
  /\ unhashed = {} /\ metricsIds = Empty
  /\ unwritten = {} /\ generated = NoFile
  /\ status = RUNNING

Exit(s)   == phase' = "exited" /\ status' = s
GoOn(p)   == phase' = p /\ UNCHANGED status

-----------------------------------------------------------------------------
(* readCatalog *)

\* directory_iterator throws, and nothing catches it.
NoDirectory ==
  /\ phase = "read" /\ ~request.exists
  /\ Exit(KILLED)
  /\ UNCHANGED <<request, unread, file, at, metrics, unhashed, metricsIds, unwritten, generated>>

SkipEntry ==
  /\ phase = "read" /\ request.exists
  /\ \E name \in unread : ~Located(name) /\ unread' = unread \ {name}
  /\ UNCHANGED <<request, phase, file, at, metrics, unhashed, metricsIds, unwritten, generated, status>>

\* Mistake: pass over a file that is not a catalog.
OpenFile_SkipBroken ==
  /\ phase = "read" /\ request.exists
  /\ \E name \in unread :
       /\ Located(name)
       /\ unread' = unread \ {name}
       /\ file' = name
       /\ GoOn(IF Parses(name) THEN "file" ELSE "read")
  /\ at' = 1
  /\ UNCHANGED <<request, metrics, unhashed, metricsIds, unwritten, generated>>

OpenFile ==
  /\ phase = "read" /\ request.exists
  /\ \E name \in unread :
       /\ Located(name)
       /\ unread' = unread \ {name}
       /\ file' = name
       /\ IF Parses(name) THEN GoOn("file") ELSE Exit(FAILED)
  /\ at' = 1
  /\ UNCHANGED <<request, metrics, unhashed, metricsIds, unwritten, generated>>

metric == MetricsIn(file)[at]

\* Mistake: look for the id among the metrics of one file only.
Acceptable_InFile ==
  /\ metric.id # {}
  /\ metric.id \subseteq WellNamed
  /\ \A j \in 1 .. at - 1 : MetricsIn(file)[j].id # metric.id

\* Mistake: take an id of any form.
Acceptable_AnyName ==
  /\ metric.id # {}
  /\ metric.id \cap DOMAIN metrics = {}

Acceptable ==
  /\ metric.id # {}
  /\ metric.id \subseteq WellNamed
  /\ metric.id \cap DOMAIN metrics = {}

ReadMetric ==
  /\ phase = "file" /\ at <= Len(MetricsIn(file)) /\ Acceptable
  /\ metrics' = [id \in DOMAIN metrics \cup metric.id |->
                   IF id \in metric.id THEN metric.type ELSE metrics[id]]
  /\ at' = at + 1
  /\ UNCHANGED <<request, phase, unread, file, unhashed, metricsIds, unwritten, generated, status>>

RejectMetric ==
  /\ phase = "file" /\ at <= Len(MetricsIn(file)) /\ ~Acceptable
  /\ Exit(FAILED)
  /\ UNCHANGED <<request, unread, file, at, metrics, unhashed, metricsIds, unwritten, generated>>

EndOfFile ==
  /\ phase = "file" /\ at > Len(MetricsIn(file))
  /\ GoOn("read")
  /\ UNCHANGED <<request, unread, file, at, metrics, unhashed, metricsIds, unwritten, generated>>

EndOfCatalog ==
  /\ phase = "read" /\ request.exists /\ unread = {}
  /\ unhashed' = DOMAIN metrics
  /\ GoOn("hash")
  /\ UNCHANGED <<request, unread, file, at, metrics, metricsIds, unwritten, generated>>

-----------------------------------------------------------------------------
(* generateMetricsIds *)

IsFirst(id, ids) == \A other \in ids : id <= other

\* Mistake: take two ids with one hash.
Collision_Never(id) == FALSE
Collision(id) == \E known \in DOMAIN metricsIds : metricsIds[known].hash = Fingerprint[id]

HashMetric ==
  /\ phase = "hash"
  /\ \E id \in unhashed :
       /\ IsFirst(id, unhashed)
       /\ ~Collision(id)
       /\ unhashed' = unhashed \ {id}
       /\ metricsIds' = [m \in DOMAIN metricsIds \cup {id} |->
                           IF m = id THEN [hash |-> Fingerprint[id], type |-> metrics[id]]
                           ELSE metricsIds[m]]
  /\ UNCHANGED <<request, phase, unread, file, at, metrics, unwritten, generated, status>>

RejectCollision ==
  /\ phase = "hash"
  /\ \E id \in unhashed : IsFirst(id, unhashed) /\ Collision(id)
  /\ Exit(FAILED)
  /\ UNCHANGED <<request, unread, file, at, metrics, unhashed, metricsIds, unwritten, generated>>

\* All the validator wants to know; the generator goes on.
EndOfHashes ==
  /\ phase = "hash" /\ unhashed = {}
  /\ IF request.tool = "validator" THEN Exit(0) ELSE GoOn("generate")
  /\ UNCHANGED <<request, unread, file, at, metrics, unhashed, metricsIds, unwritten, generated>>

-----------------------------------------------------------------------------
(* generateLoggingCode *)

NothingToGenerate ==
  /\ phase = "generate" /\ ~request.java
  /\ Exit(0)
  /\ UNCHANGED <<request, unread, file, at, metrics, unhashed, metricsIds, unwritten, generated>>

CannotOpen ==
  /\ phase = "generate" /\ request.java /\ ~request.writable
  /\ Exit(FAILED)
  /\ UNCHANGED <<request, unread, file, at, metrics, unhashed, metricsIds, unwritten, generated>>

OpenJava ==
  /\ phase = "generate" /\ request.java /\ request.writable
  /\ generated' = [written |-> TRUE, complete |-> FALSE, entries |-> Empty]
  /\ unwritten' = DOMAIN metricsIds
  /\ GoOn("write")
  /\ UNCHANGED <<request, unread, file, at, metrics, unhashed, metricsIds>>

Known(id) == metricsIds[id].type # METRIC_TYPE_UNKNOWN

\* Mistake: report a metric without a type and go on.
WriteMetric_Skip ==
  /\ phase = "write"
  /\ \E id \in unwritten :
       /\ IsFirst(id, unwritten)
       /\ unwritten' = unwritten \ {id}
       /\ generated' = [generated EXCEPT !.entries =
                          [m \in DOMAIN @ \cup (IF Known(id) THEN {id} ELSE {}) |-> metricsIds[m]]]
  /\ UNCHANGED <<request, phase, unread, file, at, metrics, unhashed, metricsIds, status>>

WriteMetric ==
  /\ phase = "write"
  /\ \E id \in unwritten :
       /\ IsFirst(id, unwritten) /\ Known(id)
       /\ unwritten' = unwritten \ {id}
       /\ generated' = [written |-> TRUE, complete |-> FALSE,
                        entries |-> [m \in DOMAIN generated.entries \cup {id} |-> metricsIds[m]]]
  /\ UNCHANGED <<request, phase, unread, file, at, metrics, unhashed, metricsIds, status>>

\* exit(-1) in the middle of the file.
UnknownType ==
  /\ phase = "write"
  /\ \E id \in unwritten : IsFirst(id, unwritten) /\ ~Known(id)
  /\ Exit(FAILED)
  /\ UNCHANGED <<request, unread, file, at, metrics, unhashed, metricsIds, unwritten, generated>>

EndOfJava ==
  /\ phase = "write" /\ unwritten = {}
  /\ generated' = [written |-> TRUE, complete |-> TRUE, entries |-> generated.entries]
  /\ Exit(0)
  /\ UNCHANGED <<request, unread, file, at, metrics, unhashed, metricsIds, unwritten>>

Exited == phase = "exited" /\ UNCHANGED vars

Next ==
  \/ NoDirectory \/ SkipEntry \/ OpenFile \/ ReadMetric \/ RejectMetric \/ EndOfFile \/ EndOfCatalog
  \/ HashMetric \/ RejectCollision \/ EndOfHashes
  \/ NothingToGenerate \/ CannotOpen \/ OpenJava \/ WriteMetric \/ UnknownType \/ EndOfJava
  \/ Exited

\* Nothing in the tools waits.
Spec == Init /\ [][Next]_vars /\ WF_vars(Next)

-----------------------------------------------------------------------------

\* The places of a directory where a metric is: a file and an index.
Places(r, names) ==
  UNION {{n} \X (1 .. Len(MetricsOf(r.entries[n]))) : n \in {m \in names : IsConfig(r.entries[m])}}
At(r, p) == MetricsOf(r.entries[p[1]])[p[2]]

\* The variables keep their types.
TypeOK ==
  /\ phase \in {"read", "file", "hash", "generate", "write", "exited"}
  /\ unread \subseteq DOMAIN entries
  /\ phase = "file" => /\ file \in DOMAIN entries \ unread /\ Located(file)
                       /\ at \in 1 .. Len(MetricsIn(file)) + 1
  /\ DOMAIN metrics \subseteq WellNamed
  /\ status \in {RUNNING, FAILED, KILLED, 0} /\ (status = RUNNING <=> phase # "exited")

\* Where the reader has been.
PlacesRead ==
  IF phase = "file"
  THEN Places(request, DOMAIN entries \ (unread \cup {file})) \cup {file} \X (1 .. at - 1)
  ELSE Places(request, DOMAIN entries \ unread)

Going == phase # "exited" \/ status = 0

\* In whatever order the directory iterator gives the files, the map holds the
\* metrics of exactly the files read so far, each once: no file changes or
\* hides a metric of another (catalog.cpp:87-92, :106).
MetricsOfFilesRead ==
  Going =>
    /\ DOMAIN metrics = UNION {At(request, p).id : p \in PlacesRead}
    /\ \A p \in PlacesRead :
         /\ At(request, p).id # {} /\ At(request, p).id \subseteq WellNamed
         /\ \A id \in At(request, p).id : metrics[id] = At(request, p).type
    /\ \A p, q \in PlacesRead : p # q => At(request, p).id \cap At(request, q).id = {}

\* No two metrics of the ids computed, and so of a generated class, share a
\* hash, by which alone statsd tells them apart (catalog.cpp:129-139).
HashesDistinct ==
  /\ \A id \in DOMAIN metricsIds :
       metricsIds[id].hash = Fingerprint[id] /\ metricsIds[id].type = metrics[id]
  /\ \A m, n \in DOMAIN metricsIds : m # n => metricsIds[m].hash # metricsIds[n].hash

\* A Java file is opened for a catalog read without error only; when the tool
\* succeeds it is complete, and whatever it leaves behind that is not complete
\* the exit status tells (codegen.cpp:33-41, codegen_java.cpp:62-63).
BrokenFileTold ==
  /\ generated.written => unread = {} /\ unhashed = {} /\ DOMAIN metricsIds = DOMAIN metrics
  /\ status = 0 /\ request.tool = "codegen" /\ request.java =>
       generated.complete /\ DOMAIN generated.entries = DOMAIN metrics
  /\ generated.written /\ phase = "exited" => (generated.complete <=> status = 0)

-----------------------------------------------------------------------------
(* What the tools promise: CollationContract for a directory. *)

AllPlaces(r) == Places(r, DOMAIN r.entries)
IdsOf(r)     == UNION {At(r, p).id : p \in AllPlaces(r)}
Generates(r) == r.tool = "codegen" /\ r.java

\* Every file parses, every metric has a well formed id of its own, no two
\* ids have one hash; for a Java class, all types are known.
WellFormedCatalog(r) ==
  /\ r.exists
  /\ \A n \in DOMAIN r.entries : IsConfig(r.entries[n]) => TextParses(r.entries[n])
  /\ \A p \in AllPlaces(r) : At(r, p).id # {} /\ At(r, p).id \subseteq WellNamed
  /\ \A p, q \in AllPlaces(r) : p # q => At(r, p).id \cap At(r, q).id = {}
  /\ \A m, n \in IdsOf(r) : m # n => Fingerprint[m] # Fingerprint[n]
  /\ Generates(r) => /\ r.writable
                     /\ \A p \in AllPlaces(r) : At(r, p).type # METRIC_TYPE_UNKNOWN

Entries(r) ==
  UNION {{<<id, Fingerprint[id], At(r, p).type>> : id \in At(r, p).id} : p \in AllPlaces(r)}
DeclaredEntries(r) == IF Generates(r) THEN Entries(r) ELSE {}

Verdict == IF phase # "exited" THEN "pending" ELSE IF status = 0 THEN "accepted" ELSE "rejected"
Delivered ==
  IF status # 0 THEN {}
  ELSE {<<id, generated.entries[id].hash, generated.entries[id].type>> :
          id \in DOMAIN generated.entries}

Contract ==
  INSTANCE CollationContract WITH
    Inputs <- Requests, WellFormed <- WellFormedCatalog, Declaration <- DeclaredEntries,
    NoDeclaration <- {}, input <- request, verdict <- Verdict, declared <- Delivered

\* The tools accept a directory exactly when the catalog in it obeys the rules,
\* whatever the order of its files, and the class they generate has all of its
\* metrics; the validator, which runs in the tests, accepts what the generator
\* can read, but for the types.  And they end.
ImplementsContract == Contract!Spec

-----------------------------------------------------------------------------
(* Statements of comments and messages that do not hold. *)

\* catalog.h:31: the folder is parsed recursively, all cfg files are located.
ReadsRecursively ==
  phase = "exited" /\ status = 0 =>
    \A n \in DOMAIN entries : ~entries[n].regular =>
      \A i \in 1 .. Len(entries[n].metrics) : entries[n].metrics[i].id \subseteq DOMAIN metrics
=============================================================================
