------------------------- MODULE ExpressCatalogProofs -------------------------
(***************************************************************************)
(* The express tools keep their contract for every directory, every set of *)
(* well named ids and every hash function.                                 *)
(*                                                                         *)
(* The invariant says of each phase what the ones before it have left: the *)
(* files read parse and their metrics are those of the map; the ids hashed *)
(* are distinct; the entries written are ids of known type.                *)
(***************************************************************************)
EXTENDS ExpressCatalog, TLAPS

Hashing    == phase \in {"hash", "generate", "write"}
Generating == phase \in {"generate", "write"}
Succeeded  == phase = "exited" /\ status = 0

\* What is known once the directory has been read, and once it is hashed.
Phases ==
  /\ Going => \A n \in DOMAIN entries \ unread : Located(n) => Parses(n)
  /\ Hashing \/ Succeeded =>
       /\ request.exists /\ unread = {}
       /\ unhashed = DOMAIN metrics \ DOMAIN metricsIds
       /\ DOMAIN metricsIds \subseteq DOMAIN metrics
  /\ phase \in {"read", "file"} => metricsIds = Empty /\ unhashed = {}
  /\ phase = "file" => request.exists
  /\ Generating \/ Succeeded => unhashed = {}
  /\ generated.written => unread = {} /\ unhashed = {} /\ DOMAIN metricsIds = DOMAIN metrics
  /\ phase = "generate" => request.tool = "codegen"
  /\ phase \in {"read", "file", "hash", "generate"} => generated = NoFile

EntriesWritten ==
  /\ phase = "write" =>
       /\ Generates(request) /\ request.writable
       /\ generated.written /\ ~generated.complete
       /\ unwritten = DOMAIN metricsIds \ DOMAIN generated.entries
  /\ phase = "write" \/ Succeeded =>
       /\ DOMAIN generated.entries \subseteq DOMAIN metricsIds
       /\ \A id \in DOMAIN generated.entries :
            generated.entries[id] = metricsIds[id] /\ metricsIds[id].type # METRIC_TYPE_UNKNOWN
  /\ Succeeded /\ Generates(request) =>
       request.writable /\ generated.complete /\ generated.written /\ DOMAIN generated.entries = DOMAIN metricsIds
  /\ Succeeded /\ ~Generates(request) => generated = NoFile
  /\ phase = "exited" /\ status # 0 => ~generated.complete

Inv ==
  /\ request \in Requests
  /\ TypeOK
  /\ Phases
  /\ MetricsOfFilesRead
  /\ HashesDistinct
  /\ EntriesWritten

LEMMA InPlaces ==
  ASSUME NEW r, NEW names, NEW p
  PROVE  p \in Places(r, names) <=>
           \E n \in names : /\ IsConfig(r.entries[n])
                            /\ \E i \in 1 .. Len(MetricsOf(r.entries[n])) : p = <<n, i>>
BY DEF Places

\* The map holds the metrics at some places, and these are each well formed.
MapHolds(m, r, places) ==
  /\ DOMAIN m = UNION {At(r, p).id : p \in places}
  /\ \A p \in places :
       /\ At(r, p).id # {} /\ At(r, p).id \subseteq WellNamed
       /\ \A id \in At(r, p).id : m[id] = At(r, p).type
  /\ \A p, q \in places : p # q => At(r, p).id \cap At(r, q).id = {}

LEMMA MapOfFilesRead == MetricsOfFilesRead <=> (Going => MapHolds(metrics, request, PlacesRead))
BY DEF MetricsOfFilesRead, MapHolds

\* One more metric at a place of its own.
LEMMA MapGrows ==
  ASSUME NEW m, NEW r, NEW places, NEW p, MapHolds(m, r, places), p \notin places,
         At(r, p).id # {}, At(r, p).id \subseteq WellNamed, At(r, p).id \cap DOMAIN m = {},
         NEW m2, m2 = [id \in DOMAIN m \cup At(r, p).id |->
                         IF id \in At(r, p).id THEN At(r, p).type ELSE m[id]]
  PROVE  MapHolds(m2, r, places \cup {p})
<1>1. DOMAIN m2 = UNION {At(r, q).id : q \in places \cup {p}}
  <2>1. DOMAIN m = UNION {At(r, q).id : q \in places}
    BY DEF MapHolds
  <2>2. DOMAIN m2 = DOMAIN m \cup At(r, p).id
    OBVIOUS
  <2> QED
    BY <2>1, <2>2
<1>2. \A q \in places : At(r, q).id \subseteq DOMAIN m
  BY DEF MapHolds
<1>3. ASSUME NEW q \in places \cup {p}
      PROVE  /\ At(r, q).id # {} /\ At(r, q).id \subseteq WellNamed
             /\ \A id \in At(r, q).id : m2[id] = At(r, q).type
  <2>1. CASE q = p
    BY <2>1
  <2>2. CASE q \in places
    BY <2>2, <1>2 DEF MapHolds
  <2> QED
    BY <2>1, <2>2
<1>4. ASSUME NEW q \in places \cup {p}, NEW s \in places \cup {p}, q # s
      PROVE  At(r, q).id \cap At(r, s).id = {}
  <2>1. CASE q \in places /\ s \in places
    BY <2>1, <1>4 DEF MapHolds
  <2>2. CASE q = p /\ s \in places
    BY <2>2, <1>2
  <2>3. CASE q \in places /\ s = p
    BY <2>3, <1>2
  <2> QED
    BY <2>1, <2>2, <2>3, <1>4
<1> QED
  BY <1>1, <1>3, <1>4 DEF MapHolds

-----------------------------------------------------------------------------
(* How each action of the reader changes the places read. *)

LEMMA SkipPlaces ==
  ASSUME TypeOK, SkipEntry
  PROVE  PlacesRead' = PlacesRead
<1>1. PICK name \in unread : ~Located(name) /\ unread' = unread \ {name}
  BY DEF SkipEntry
<1>2. /\ request' = request /\ phase = "read" /\ phase' = "read"
  BY DEF SkipEntry
<1>3. \A p : p \in Places(request, DOMAIN entries \ unread')
               <=> p \in Places(request, DOMAIN entries \ unread)
  BY <1>1, InPlaces DEF Located, TypeOK, entries
<1>4. Places(request, DOMAIN entries \ unread') = Places(request, DOMAIN entries \ unread)
  BY <1>3
<1> QED
  BY <1>2, <1>4 DEF PlacesRead, entries

LEMMA OpenPlaces ==
  ASSUME TypeOK, OpenFile, phase' = "file"
  PROVE  PlacesRead' = PlacesRead
<1>1. PICK name \in unread : unread' = unread \ {name} /\ file' = name
  BY DEF OpenFile
<1>2. /\ request' = request /\ phase = "read" /\ at' = 1
  BY DEF OpenFile
<1>3. DOMAIN entries \ (unread' \cup {file'}) = DOMAIN entries \ unread
  BY <1>1
<1>4. {file'} \X (1 .. at' - 1) = {}
  BY <1>2
<1> QED
  BY <1>2, <1>3, <1>4 DEF PlacesRead, entries

LEMMA ReadPlaces ==
  ASSUME TypeOK, ReadMetric
  PROVE  /\ PlacesRead' = PlacesRead \cup {<<file, at>>}
         /\ <<file, at>> \notin PlacesRead
         /\ metric = At(request, <<file, at>>)
<1>1. /\ phase = "file" /\ phase' = "file" /\ at' = at + 1 /\ file' = file
      /\ request' = request /\ unread' = unread
  BY DEF ReadMetric
<1>2. at \in Nat /\ at >= 1
  BY <1>1 DEF TypeOK
<1>3. {file} \X (1 .. at' - 1) = ({file} \X (1 .. at - 1)) \cup {<<file, at>>}
  <2>1. 1 .. at' - 1 = (1 .. at - 1) \cup {at}
    BY <1>1, <1>2
  <2> QED
    BY <2>1
<1>4. <<file, at>> \notin Places(request, DOMAIN entries \ (unread \cup {file}))
  BY InPlaces
<1>5. <<file, at>> \notin {file} \X (1 .. at - 1)
  BY <1>2
<1>6. metric = At(request, <<file, at>>)
  BY DEF metric, At, MetricsIn, entries
<1> QED
  BY <1>1, <1>3, <1>4, <1>5, <1>6 DEF PlacesRead, entries

LEMMA EndPlaces ==
  ASSUME TypeOK, EndOfFile
  PROVE  PlacesRead' = PlacesRead
<1>1. /\ phase = "file" /\ phase' = "read" /\ at > Len(MetricsIn(file))
      /\ request' = request /\ unread' = unread
  BY DEF EndOfFile, GoOn
<1>2. /\ file \in DOMAIN entries \ unread /\ Located(file)
      /\ at \in 1 .. Len(MetricsIn(file)) + 1
  BY <1>1 DEF TypeOK
<1>3. 1 .. at - 1 = 1 .. Len(MetricsIn(file))
  BY <1>1, <1>2
<1>4. \A p : p \in Places(request, DOMAIN entries \ unread) <=>
               \/ p \in Places(request, DOMAIN entries \ (unread \cup {file}))
               \/ p \in {file} \X (1 .. at - 1)
  <2> TAKE p
  <2>1. p \in {file} \X (1 .. at - 1) <=>
          \E i \in 1 .. Len(MetricsOf(request.entries[file])) : p = <<file, i>>
    <3>1. 1 .. at - 1 = 1 .. Len(MetricsOf(request.entries[file]))
      BY <1>3 DEF MetricsIn, entries
    <3> DEFINE S == 1 .. Len(MetricsOf(request.entries[file]))
    <3> HIDE DEF S
    <3>2. p \in {file} \X S <=> \E i \in S : p = <<file, i>>
      OBVIOUS
    <3> QED
      BY <3>1, <3>2 DEF S
  <2>2. IsConfig(request.entries[file])
    BY <1>2 DEF Located, entries
  <2>3. p \in Places(request, DOMAIN entries \ unread) <=>
          \E n \in DOMAIN entries \ unread :
            /\ IsConfig(request.entries[n])
            /\ \E i \in 1 .. Len(MetricsOf(request.entries[n])) : p = <<n, i>>
    BY InPlaces
  <2>4. p \in Places(request, DOMAIN entries \ (unread \cup {file})) <=>
          \E n \in DOMAIN entries \ (unread \cup {file}) :
            /\ IsConfig(request.entries[n])
            /\ \E i \in 1 .. Len(MetricsOf(request.entries[n])) : p = <<n, i>>
    BY InPlaces
  <2>5. DOMAIN entries \ unread = (DOMAIN entries \ (unread \cup {file})) \cup {file}
    BY <1>2
  <2> QED
    BY <2>1, <2>2, <2>3, <2>4, <2>5
<1>5. Places(request, DOMAIN entries \ unread) =
        Places(request, DOMAIN entries \ (unread \cup {file})) \cup {file} \X (1 .. at - 1)
  BY <1>4
<1> QED
  BY <1>1, <1>5 DEF PlacesRead, entries

-----------------------------------------------------------------------------
(* The invariant. *)

LEMMA InitInv == Init => Inv
<1> SUFFICES ASSUME Init PROVE Inv
  OBVIOUS
<1>1. TypeOK
  BY DEF Init, TypeOK, entries, Empty, RUNNING
<1>2. Phases
  BY DEF Init, Phases, Going, Hashing, Generating, Succeeded, entries, Located, Parses, NoFile,
         RUNNING
<1>3. MetricsOfFilesRead
  <2>1. PlacesRead = {}
    <3>1. DOMAIN entries \ unread = {} /\ phase # "file"
      BY DEF Init, entries
    <3> QED
      BY <3>1 DEF PlacesRead, Places
  <2>2. DOMAIN metrics = {}
    BY DEF Init, Empty
  <2> QED
    BY <2>1, <2>2, MapOfFilesRead DEF MapHolds
<1>4. HashesDistinct
  BY DEF Init, HashesDistinct, Empty
<1>5. EntriesWritten
  BY DEF Init, EntriesWritten, Succeeded, RUNNING
<1> QED
  BY <1>1, <1>2, <1>3, <1>4, <1>5 DEF Inv, Init

\* The tools only stop with FAILED or KILLED before they have succeeded.
LEMMA StopInv ==
  ASSUME Inv, phase # "exited", phase' = "exited", status' \in {FAILED, KILLED},
         UNCHANGED <<request, unread, metrics, unhashed, metricsIds, generated>>
  PROVE  Inv'
<1> USE DEF FAILED, KILLED, RUNNING
<1>1. ~Going' /\ ~Hashing' /\ ~Generating' /\ ~Succeeded' /\ ~Succeeded
  BY DEF Going, Hashing, Generating, Succeeded
<1>2. TypeOK'
  BY DEF Inv, TypeOK, entries
<1>3. Phases'
  BY <1>1 DEF Inv, Phases
<1>4. MetricsOfFilesRead'
  BY <1>1 DEF MetricsOfFilesRead
<1>5. HashesDistinct'
  BY DEF Inv, HashesDistinct
<1>6. EntriesWritten'
  <2>1. ~generated.complete
    <3>1. CASE phase = "write"
      BY <3>1 DEF Inv, EntriesWritten
    <3>2. CASE phase # "write"
      BY <3>2 DEF Inv, TypeOK, Phases, NoFile
    <3> QED
      BY <3>1, <3>2
  <2> QED
    BY <2>1, <1>1 DEF EntriesWritten
<1> QED
  BY <1>2, <1>3, <1>4, <1>5, <1>6 DEF Inv

\* The reader's steps touch nothing of what comes after it.
LEMMA ReaderInv ==
  ASSUME Inv, phase \in {"read", "file"}, phase' \in {"read", "file"}, TypeOK',
         UNCHANGED <<request, unhashed, metricsIds, unwritten, generated, status>>,
         phase' = "file" => request.exists, MetricsOfFilesRead',
         \A n \in DOMAIN entries \ unread' : Located(n) => Parses(n)
  PROVE  Inv'
<1>1. ~Hashing' /\ ~Generating' /\ ~Succeeded'
  BY DEF Hashing, Generating, Succeeded
<1>2. generated = NoFile /\ metricsIds = Empty /\ unhashed = {}
  BY DEF Inv, Phases
<1>3. Phases'
  BY <1>1, <1>2 DEF Inv, Phases, NoFile, Located, Parses, entries
<1>4. HashesDistinct' /\ EntriesWritten'
  BY <1>1, <1>2 DEF HashesDistinct, EntriesWritten, Empty
<1> QED
  BY <1>3, <1>4 DEF Inv

LEMMA SkipEntryInv == ASSUME Inv, SkipEntry PROVE Inv'
<1>1. PICK name \in unread : ~Located(name) /\ unread' = unread \ {name}
  BY DEF SkipEntry
<1>2. /\ phase = "read" /\ phase' = "read"
      /\ UNCHANGED <<request, file, at, metrics, unhashed, metricsIds, unwritten, generated, status>>
  BY DEF SkipEntry
<1>3. TypeOK'
  BY <1>1, <1>2 DEF Inv, TypeOK, entries
<1>4. PlacesRead' = PlacesRead
  BY SkipPlaces DEF Inv
<1>5. MetricsOfFilesRead'
  BY <1>2, <1>4 DEF Inv, MetricsOfFilesRead, Going
<1>6. \A n \in DOMAIN entries \ unread' : Located(n) => Parses(n)
  BY <1>1, <1>2 DEF Inv, Phases, Going
<1> QED
  BY <1>2, <1>3, <1>5, <1>6, ReaderInv

LEMMA OpenFileInv == ASSUME Inv, OpenFile PROVE Inv'
<1>1. PICK name \in unread : /\ Located(name) /\ unread' = unread \ {name} /\ file' = name
                             /\ IF Parses(name) THEN GoOn("file") ELSE Exit(FAILED)
  BY DEF OpenFile
<1>2. /\ phase = "read" /\ at' = 1 /\ request.exists
      /\ UNCHANGED <<request, metrics, unhashed, metricsIds, unwritten, generated>>
  BY DEF OpenFile
<1>3. CASE Parses(name)
  <2>1. phase' = "file" /\ status' = status
    BY <1>1, <1>3 DEF GoOn
  <2>2. TypeOK'
    <3>1. file' \in DOMAIN entries' \ unread' /\ Located(file)'
      BY <1>1, <1>2 DEF Inv, TypeOK, entries, Located
    <3>2. MetricsIn(file)' = MetricsOf(entries[name])
      BY <1>1, <1>2 DEF MetricsIn, entries
    <3>3. MetricsOf(entries[name]) \in Seq([id : SUBSET Nat, type : MetricTypes])
      <4>1. IsEntry(entries[name])
        BY <1>1, CatalogAssumption DEF Inv, TypeOK, entries
      <4> QED
        BY <4>1 DEF IsEntry, MetricsOf
    <3>4. at' \in 1 .. Len(MetricsIn(file)') + 1
      BY <3>2, <3>3, <1>2
    <3> QED
      BY <3>1, <3>4, <2>1, <1>1, <1>2 DEF Inv, TypeOK, entries
  <2>3. PlacesRead' = PlacesRead
    BY <2>1, OpenPlaces DEF Inv
  <2>4. MetricsOfFilesRead'
    BY <1>2, <2>1, <2>3 DEF Inv, MetricsOfFilesRead, Going
  <2>5. \A n \in DOMAIN entries \ unread' : Located(n) => Parses(n)
    BY <1>1, <1>2, <1>3 DEF Inv, Phases, Going
  <2> QED
    BY <1>2, <2>1, <2>2, <2>4, <2>5, ReaderInv
<1>4. CASE ~Parses(name)
  <2>1. phase' = "exited" /\ status' = FAILED
    BY <1>1, <1>4 DEF Exit
  <2>2. ~Going' /\ ~Hashing' /\ ~Generating' /\ ~Succeeded'
    BY <2>1 DEF Going, Hashing, Generating, Succeeded, FAILED
  <2>3. generated = NoFile /\ metricsIds = Empty /\ unhashed = {}
    BY <1>2 DEF Inv, Phases
  <2>4. TypeOK'
    BY <1>1, <1>2, <2>1 DEF Inv, TypeOK, entries, FAILED, RUNNING
  <2>5. Phases' /\ MetricsOfFilesRead' /\ HashesDistinct' /\ EntriesWritten'
    BY <1>2, <2>1, <2>2, <2>3
       DEF Phases, MetricsOfFilesRead, HashesDistinct, EntriesWritten, NoFile, Empty
  <2> QED
    BY <1>2, <2>4, <2>5 DEF Inv
<1> QED
  BY <1>3, <1>4

LEMMA ReadMetricInv == ASSUME Inv, ReadMetric PROVE Inv'
<1>1. /\ phase = "file" /\ phase' = "file" /\ at <= Len(MetricsIn(file)) /\ Acceptable /\ at' = at + 1
      /\ UNCHANGED <<request, unread, file, unhashed, metricsIds, unwritten, generated, status>>
  BY DEF ReadMetric
<1>2. /\ metric.id # {} /\ metric.id \subseteq WellNamed /\ metric.id \cap DOMAIN metrics = {}
      /\ metrics' = [id \in DOMAIN metrics \cup metric.id |->
                       IF id \in metric.id THEN metric.type ELSE metrics[id]]
  BY DEF ReadMetric, Acceptable
<1>3. /\ PlacesRead' = PlacesRead \cup {<<file, at>>} /\ <<file, at>> \notin PlacesRead
      /\ metric = At(request, <<file, at>>)
  BY ReadPlaces DEF Inv
<1>4. TypeOK'
  <2>1. MetricsIn(file)' = MetricsIn(file) /\ Located(file)' = Located(file)
    BY <1>1 DEF MetricsIn, entries, Located
  <2>2. at' \in 1 .. Len(MetricsIn(file)) + 1
    <3>1. at \in 1 .. Len(MetricsIn(file)) + 1
      BY <1>1 DEF Inv, TypeOK
    <3> QED
      BY <3>1, <1>1
  <2>3. DOMAIN metrics' \subseteq WellNamed
    BY <1>2 DEF Inv, TypeOK
  <2> QED
    BY <1>1, <2>1, <2>2, <2>3 DEF Inv, TypeOK, entries
<1>5. MetricsOfFilesRead'
  <2>1. MapHolds(metrics, request, PlacesRead)
    BY <1>1, MapOfFilesRead DEF Inv, Going
  <2>2. MapHolds(metrics', request, PlacesRead \cup {<<file, at>>})
    BY <1>2, <1>3, <2>1, MapGrows
  <2> QED
    BY <1>1, <1>3, <2>2 DEF MetricsOfFilesRead, MapHolds
<1>6. \A n \in DOMAIN entries \ unread' : Located(n) => Parses(n)
  BY <1>1 DEF Inv, Phases, Going
<1>7. request.exists
  BY <1>1 DEF Inv, Phases
<1> QED
  BY <1>1, <1>4, <1>5, <1>6, <1>7, ReaderInv

LEMMA EndOfFileInv == ASSUME Inv, EndOfFile PROVE Inv'
<1>1. /\ phase = "file" /\ phase' = "read"
      /\ UNCHANGED <<request, unread, file, at, metrics, unhashed, metricsIds, unwritten, generated, status>>
  BY DEF EndOfFile, GoOn
<1>2. TypeOK'
  BY <1>1 DEF Inv, TypeOK, entries
<1>3. PlacesRead' = PlacesRead
  BY EndPlaces DEF Inv
<1>4. MetricsOfFilesRead'
  BY <1>1, <1>3 DEF Inv, MetricsOfFilesRead, Going
<1>5. \A n \in DOMAIN entries \ unread' : Located(n) => Parses(n)
  BY <1>1 DEF Inv, Phases, Going
<1> QED
  BY <1>1, <1>2, <1>4, <1>5, ReaderInv

LEMMA StopsInv ==
  ASSUME Inv, NoDirectory \/ RejectMetric \/ RejectCollision \/ CannotOpen \/ UnknownType
  PROVE  Inv'
<1>1. /\ phase # "exited" /\ phase' = "exited" /\ status' \in {FAILED, KILLED}
      /\ UNCHANGED <<request, unread, metrics, unhashed, metricsIds, generated>>
  BY DEF NoDirectory, RejectMetric, RejectCollision, CannotOpen, UnknownType, Exit
<1> QED
  BY <1>1, StopInv

\* The steps after the reader leave the places read as they are.
LEMMA ReadBefore ==
  ASSUME MetricsOfFilesRead, Going, phase # "file", phase' # "file",
         UNCHANGED <<request, unread, metrics>>
  PROVE  MetricsOfFilesRead'
<1>1. PlacesRead' = PlacesRead
  BY DEF PlacesRead, entries
<1> QED
  BY <1>1 DEF MetricsOfFilesRead

LEMMA EndOfCatalogInv == ASSUME Inv, EndOfCatalog PROVE Inv'
<1>1. /\ phase = "read" /\ request.exists /\ unread = {} /\ unhashed' = DOMAIN metrics
      /\ phase' = "hash"
      /\ UNCHANGED <<request, unread, file, at, metrics, metricsIds, unwritten, generated, status>>
  BY DEF EndOfCatalog, GoOn
<1>2. TypeOK'
  BY <1>1 DEF Inv, TypeOK, entries
<1>3. Phases'
  BY <1>1 DEF Inv, Phases, Going, Hashing, Generating, Succeeded, entries, Located, Parses, Empty,
              NoFile
<1>4. MetricsOfFilesRead'
  BY <1>1, ReadBefore DEF Inv, Going
<1>5. HashesDistinct'
  BY <1>1 DEF Inv, HashesDistinct
<1>6. EntriesWritten'
  BY <1>1 DEF EntriesWritten, Succeeded
<1> QED
  BY <1>1, <1>2, <1>3, <1>4, <1>5, <1>6 DEF Inv

LEMMA HashMetricInv == ASSUME Inv, HashMetric PROVE Inv'
<1>1. PICK id \in unhashed :
        /\ ~Collision(id) /\ unhashed' = unhashed \ {id}
        /\ metricsIds' = [m \in DOMAIN metricsIds \cup {id} |->
                            IF m = id THEN [hash |-> Fingerprint[id], type |-> metrics[id]]
                            ELSE metricsIds[m]]
  BY DEF HashMetric
<1>2. /\ phase = "hash" /\ phase' = "hash"
      /\ UNCHANGED <<request, unread, file, at, metrics, unwritten, generated, status>>
  BY DEF HashMetric
<1>3. TypeOK'
  BY <1>2 DEF Inv, TypeOK, entries
<1>4. DOMAIN metricsIds' = DOMAIN metricsIds \cup {id}
  BY <1>1
<1>5. /\ request.exists /\ unread = {} /\ DOMAIN metricsIds \subseteq DOMAIN metrics
      /\ unhashed = DOMAIN metrics \ DOMAIN metricsIds /\ generated = NoFile
  BY <1>2 DEF Inv, Phases, Hashing
<1>6. Phases'
  <2>1. /\ unhashed' = DOMAIN metrics \ DOMAIN metricsIds' /\ DOMAIN metricsIds' \subseteq DOMAIN metrics
    BY <1>1, <1>4, <1>5
  <2>2. \A n \in DOMAIN entries \ unread : Located(n) => Parses(n)
    BY <1>2 DEF Inv, Phases, Going
  <2> QED
    BY <1>2, <1>5, <2>1, <2>2
       DEF Phases, Hashing, Generating, Succeeded, NoFile, Located, Parses, entries
<1>7. MetricsOfFilesRead'
  BY <1>2, ReadBefore DEF Inv, Going
<1>8. HashesDistinct'
  <2>1. metricsIds'[id].hash = Fingerprint[id] /\ metricsIds'[id].type = metrics[id]
    BY <1>1
  <2>2. \A m \in DOMAIN metricsIds : metricsIds'[m] = metricsIds[m] /\ m # id
    BY <1>1, <1>5
  <2>3. \A m \in DOMAIN metricsIds : metricsIds[m].hash # Fingerprint[id]
    BY <1>1 DEF Collision
  <2>4. ASSUME NEW m \in DOMAIN metricsIds'
        PROVE  metricsIds'[m].hash = Fingerprint[m] /\ metricsIds'[m].type = metrics[m]
    BY <1>4, <2>1, <2>2 DEF Inv, HashesDistinct
  <2>5. ASSUME NEW m \in DOMAIN metricsIds', NEW n \in DOMAIN metricsIds', m # n
        PROVE  metricsIds'[m].hash # metricsIds'[n].hash
    <3>1. CASE m = id
      BY <3>1, <1>4, <2>1, <2>2, <2>3, <2>5
    <3>2. CASE n = id
      BY <3>2, <1>4, <2>1, <2>2, <2>3, <2>5
    <3>3. CASE m # id /\ n # id
      BY <3>3, <1>4, <2>2, <2>5 DEF Inv, HashesDistinct
    <3> QED
      BY <3>1, <3>2, <3>3
  <2> QED
    BY <1>2, <2>4, <2>5 DEF HashesDistinct
<1>9. EntriesWritten'
  BY <1>2 DEF EntriesWritten, Succeeded
<1> QED
  BY <1>2, <1>3, <1>6, <1>7, <1>8, <1>9 DEF Inv

LEMMA EndOfHashesInv == ASSUME Inv, EndOfHashes PROVE Inv'
<1>1. /\ phase = "hash" /\ unhashed = {}
      /\ UNCHANGED <<request, unread, file, at, metrics, unhashed, metricsIds, unwritten, generated>>
      /\ \/ request.tool = "validator" /\ phase' = "exited" /\ status' = 0
         \/ request.tool # "validator" /\ phase' = "generate" /\ status' = status
  BY DEF EndOfHashes, GoOn, Exit
<1>2. /\ request.exists /\ unread = {} /\ unhashed = DOMAIN metrics \ DOMAIN metricsIds
      /\ DOMAIN metricsIds \subseteq DOMAIN metrics /\ generated = NoFile
  BY <1>1 DEF Inv, Phases, Hashing
<1>3. TypeOK'
  BY <1>1 DEF Inv, TypeOK, entries, RUNNING
<1>4. request.tool # "validator" => request.tool = "codegen"
  BY CatalogAssumption DEF Inv
<1>5. Phases'
  <2>1. \A n \in DOMAIN entries \ unread : Located(n) => Parses(n)
    BY <1>1 DEF Inv, Phases, Going
  <2> QED
    BY <1>1, <1>2, <1>4, <2>1
       DEF Phases, Hashing, Generating, Succeeded, NoFile, Located, Parses, entries
<1>6. MetricsOfFilesRead'
  BY <1>1, ReadBefore DEF Inv, Going
<1>7. HashesDistinct'
  BY <1>1 DEF Inv, HashesDistinct
<1>8. EntriesWritten'
  <2>1. DOMAIN generated.entries = {} /\ ~generated.complete
    BY <1>2 DEF NoFile, Empty
  <2>2. Succeeded' => ~Generates(request)
    BY <1>1, <1>4 DEF Succeeded, Generates
  <2> QED
    BY <1>1, <1>2, <2>1, <2>2 DEF EntriesWritten, Succeeded, RUNNING
<1> QED
  BY <1>1, <1>3, <1>5, <1>6, <1>7, <1>8 DEF Inv

LEMMA NothingToGenerateInv == ASSUME Inv, NothingToGenerate PROVE Inv'
<1>1. /\ phase = "generate" /\ phase' = "exited" /\ status' = 0 /\ ~request.java
      /\ UNCHANGED <<request, unread, file, at, metrics, unhashed, metricsIds, unwritten, generated>>
  BY DEF NothingToGenerate, Exit
<1>2. /\ request.exists /\ unread = {} /\ unhashed = DOMAIN metrics \ DOMAIN metricsIds
      /\ unhashed = {} /\ DOMAIN metricsIds \subseteq DOMAIN metrics /\ generated = NoFile
  BY <1>1 DEF Inv, Phases, Hashing, Generating
<1>3. TypeOK'
  BY <1>1 DEF Inv, TypeOK, entries, RUNNING
<1>4. Phases'
  <2>1. \A n \in DOMAIN entries \ unread : Located(n) => Parses(n)
    BY <1>1 DEF Inv, Phases, Going
  <2> QED
    BY <1>1, <1>2, <2>1 DEF Phases, Hashing, Generating, Succeeded, NoFile, Located, Parses, entries
<1>5. MetricsOfFilesRead'
  BY <1>1, ReadBefore DEF Inv, Going
<1>6. HashesDistinct'
  BY <1>1 DEF Inv, HashesDistinct
<1>7. EntriesWritten'
  <2>1. DOMAIN generated.entries = {} /\ ~generated.complete
    BY <1>2 DEF NoFile, Empty
  <2> QED
    BY <1>1, <1>2, <2>1 DEF EntriesWritten, Succeeded, Generates
<1> QED
  BY <1>1, <1>3, <1>4, <1>5, <1>6, <1>7 DEF Inv

LEMMA OpenJavaInv == ASSUME Inv, OpenJava PROVE Inv'
<1>1. /\ phase = "generate" /\ phase' = "write" /\ request.java /\ request.writable
      /\ generated' = [written |-> TRUE, complete |-> FALSE, entries |-> Empty]
      /\ unwritten' = DOMAIN metricsIds
      /\ UNCHANGED <<request, unread, file, at, metrics, unhashed, metricsIds, status>>
  BY DEF OpenJava, GoOn
<1>2. /\ request.exists /\ unread = {} /\ unhashed = DOMAIN metrics \ DOMAIN metricsIds
      /\ unhashed = {} /\ DOMAIN metricsIds \subseteq DOMAIN metrics /\ request.tool = "codegen"
  BY <1>1 DEF Inv, Phases, Hashing, Generating
<1>3. TypeOK'
  BY <1>1 DEF Inv, TypeOK, entries
<1>4. Phases'
  <2>1. \A n \in DOMAIN entries \ unread : Located(n) => Parses(n)
    BY <1>1 DEF Inv, Phases, Going
  <2> QED
    BY <1>1, <1>2, <2>1 DEF Phases, Hashing, Generating, Succeeded, Located, Parses, entries
<1>5. MetricsOfFilesRead'
  BY <1>1, ReadBefore DEF Inv, Going
<1>6. HashesDistinct'
  BY <1>1 DEF Inv, HashesDistinct
<1>7. EntriesWritten'
  <2>1. /\ DOMAIN generated'.entries = {} /\ ~generated'.complete /\ generated'.written
    BY <1>1 DEF Empty
  <2> QED
    BY <1>1, <1>2, <2>1 DEF EntriesWritten, Succeeded, Generates
<1> QED
  BY <1>1, <1>3, <1>4, <1>5, <1>6, <1>7 DEF Inv

\* While the Java file is written, all that was read and hashed stays.
LEMMA WritingInv ==
  ASSUME Inv, phase = "write", phase' = "write" \/ (phase' = "exited" /\ status' = 0),
         phase' = "write" => status' = status, generated'.written, EntriesWritten',
         UNCHANGED <<request, unread, file, at, metrics, unhashed, metricsIds>>
  PROVE  Inv'
<1>1. /\ request.exists /\ unread = {} /\ unhashed = DOMAIN metrics \ DOMAIN metricsIds
      /\ unhashed = {} /\ DOMAIN metricsIds \subseteq DOMAIN metrics
  BY DEF Inv, Phases, Hashing, Generating
<1>2. DOMAIN metricsIds = DOMAIN metrics
  BY <1>1
<1>3. TypeOK'
  BY DEF Inv, TypeOK, entries, RUNNING
<1>4. Phases'
  <2>1. \A n \in DOMAIN entries \ unread : Located(n) => Parses(n)
    BY DEF Inv, Phases, Going
  <2> QED
    BY <1>1, <1>2, <2>1 DEF Phases, Hashing, Generating, Succeeded, Located, Parses, entries
<1>5. MetricsOfFilesRead'
  BY ReadBefore DEF Inv, Going
<1>6. HashesDistinct'
  BY DEF Inv, HashesDistinct
<1> QED
  BY <1>3, <1>4, <1>5, <1>6 DEF Inv

LEMMA WriteMetricInv == ASSUME Inv, WriteMetric PROVE Inv'
<1>1. PICK id \in unwritten :
        /\ Known(id) /\ unwritten' = unwritten \ {id}
        /\ generated' = [written |-> TRUE, complete |-> FALSE,
                         entries |-> [m \in DOMAIN generated.entries \cup {id} |-> metricsIds[m]]]
  BY DEF WriteMetric
<1>2. /\ phase = "write" /\ phase' = "write"
      /\ UNCHANGED <<request, unread, file, at, metrics, unhashed, metricsIds, status>>
  BY DEF WriteMetric
<1>3. /\ Generates(request) /\ request.writable
      /\ unwritten = DOMAIN metricsIds \ DOMAIN generated.entries
      /\ DOMAIN generated.entries \subseteq DOMAIN metricsIds
      /\ \A m \in DOMAIN generated.entries : metricsIds[m].type # METRIC_TYPE_UNKNOWN
  BY <1>2 DEF Inv, EntriesWritten
<1>4. /\ generated'.written /\ ~generated'.complete
      /\ generated'.entries = [m \in DOMAIN generated.entries \cup {id} |-> metricsIds[m]]
  BY <1>1
<1>5. EntriesWritten'
  <2>1. unwritten' = DOMAIN metricsIds \ DOMAIN generated'.entries
    BY <1>1, <1>3, <1>4
  <2>2. DOMAIN generated'.entries \subseteq DOMAIN metricsIds
    BY <1>1, <1>3, <1>4
  <2>3. \A m \in DOMAIN generated'.entries :
          generated'.entries[m] = metricsIds[m] /\ metricsIds[m].type # METRIC_TYPE_UNKNOWN
    BY <1>1, <1>3, <1>4 DEF Known
  <2> QED
    BY <1>2, <1>3, <1>4, <2>1, <2>2, <2>3 DEF EntriesWritten, Succeeded, Generates
<1> QED
  BY <1>2, <1>4, <1>5, WritingInv

LEMMA EndOfJavaInv == ASSUME Inv, EndOfJava PROVE Inv'
<1>1. /\ phase = "write" /\ phase' = "exited" /\ status' = 0 /\ unwritten = {}
      /\ generated' = [written |-> TRUE, complete |-> TRUE, entries |-> generated.entries]
      /\ UNCHANGED <<request, unread, file, at, metrics, unhashed, metricsIds, unwritten>>
  BY DEF EndOfJava, Exit
<1>2. /\ Generates(request) /\ request.writable
      /\ unwritten = DOMAIN metricsIds \ DOMAIN generated.entries
      /\ DOMAIN generated.entries \subseteq DOMAIN metricsIds
      /\ \A m \in DOMAIN generated.entries :
           generated.entries[m] = metricsIds[m] /\ metricsIds[m].type # METRIC_TYPE_UNKNOWN
  BY <1>1 DEF Inv, EntriesWritten
<1>3. generated'.written /\ generated'.complete /\ generated'.entries = generated.entries
  BY <1>1
<1>4. DOMAIN generated.entries = DOMAIN metricsIds
  BY <1>1, <1>2
<1>5. EntriesWritten'
  BY <1>1, <1>2, <1>3, <1>4 DEF EntriesWritten, Succeeded, Generates
<1> QED
  BY <1>1, <1>3, <1>5, WritingInv

LEMMA StutterInv == ASSUME Inv, UNCHANGED vars PROVE Inv'
<1> USE DEF vars
<1>1. PlacesRead' = PlacesRead
  BY DEF PlacesRead, entries
<1>2. MetricsOfFilesRead'
  BY <1>1 DEF Inv, MetricsOfFilesRead, Going
<1>3. TypeOK' /\ HashesDistinct'
  BY DEF Inv, TypeOK, HashesDistinct, entries, Located, MetricsIn
<1>4. Phases'
  BY DEF Inv, Phases, Going, Hashing, Generating, Succeeded, Located, Parses, entries
<1>5. EntriesWritten'
  BY DEF Inv, EntriesWritten, Succeeded
<1> QED
  BY <1>2, <1>3, <1>4, <1>5 DEF Inv

LEMMA StepInv == Inv /\ [Next]_vars => Inv'
<1> SUFFICES ASSUME Inv, [Next]_vars PROVE Inv'
  OBVIOUS
<1>1. CASE NoDirectory \/ RejectMetric \/ RejectCollision \/ CannotOpen \/ UnknownType
  BY <1>1, StopsInv
<1>2. CASE SkipEntry \/ OpenFile \/ ReadMetric \/ EndOfFile \/ EndOfCatalog
  BY <1>2, SkipEntryInv, OpenFileInv, ReadMetricInv, EndOfFileInv, EndOfCatalogInv
<1>3. CASE HashMetric \/ EndOfHashes
  BY <1>3, HashMetricInv, EndOfHashesInv
<1>4. CASE NothingToGenerate \/ OpenJava \/ WriteMetric \/ EndOfJava
  BY <1>4, NothingToGenerateInv, OpenJavaInv, WriteMetricInv, EndOfJavaInv
<1>5. CASE Exited \/ UNCHANGED vars
  BY <1>5, StutterInv DEF Exited
<1> QED
  BY <1>1, <1>2, <1>3, <1>4, <1>5 DEF Next

LEMMA Invariant == Spec => []Inv
BY InitInv, StepInv, PTL DEF Spec

\* The variables keep their types (catalog.cpp:100-142).
THEOREM CatalogTypeOK == Spec => []TypeOK
<1>1. Inv => TypeOK
  BY DEF Inv
<1> QED
  BY <1>1, Invariant, PTL

\* Whatever the order of the files, the map holds the metrics of exactly those
\* read (catalog.cpp:58-123).
THEOREM OrderDoesNotMatter == Spec => []MetricsOfFilesRead
<1>1. Inv => MetricsOfFilesRead
  BY DEF Inv
<1> QED
  BY <1>1, Invariant, PTL

\* No two metrics share a hash (catalog.cpp:125-142).
THEOREM NoCollision == Spec => []HashesDistinct
<1>1. Inv => HashesDistinct
  BY DEF Inv
<1> QED
  BY <1>1, Invariant, PTL

\* The exit status tells of a Java file that is not complete
\* (expresscatalog-code-gen/main.cpp:59-75, codegen_java.cpp:62-63).
THEOREM NoBrokenFile == Spec => []BrokenFileTold
<1>1. Inv => BrokenFileTold
  <2> SUFFICES ASSUME Inv PROVE BrokenFileTold
    OBVIOUS
  <2>1. generated.written => unread = {} /\ unhashed = {} /\ DOMAIN metricsIds = DOMAIN metrics
    BY DEF Inv, Phases
  <2>2. ASSUME status = 0, request.tool = "codegen", request.java
        PROVE  generated.complete /\ DOMAIN generated.entries = DOMAIN metrics
    <3>1. Succeeded
      BY <2>2 DEF Inv, TypeOK, Succeeded, RUNNING
    <3>2. /\ generated.complete /\ generated.written
          /\ DOMAIN generated.entries = DOMAIN metricsIds
      BY <2>2, <3>1 DEF Inv, EntriesWritten, Generates
    <3> QED
      BY <2>1, <3>2
  <2>3. ASSUME generated.written, phase = "exited"
        PROVE  generated.complete <=> status = 0
    <3>1. CASE status = 0
      <4>1. generated # NoFile
        BY <2>3 DEF NoFile
      <4> QED
        BY <3>1, <4>1, <2>3 DEF Inv, EntriesWritten, Succeeded
    <3>2. CASE status # 0
      BY <3>2, <2>3 DEF Inv, EntriesWritten
    <3> QED
      BY <3>1, <3>2
  <2> QED
    BY <2>1, <2>2, <2>3 DEF BrokenFileTold
<1> QED
  BY <1>1, Invariant, PTL

-----------------------------------------------------------------------------
(* The contract. *)

\* Once the directory has been read, the map holds the metrics of all of it.
LEMMA AllRead ==
  ASSUME Inv, Hashing \/ Succeeded
  PROVE  /\ MapHolds(metrics, request, AllPlaces(request))
         /\ IdsOf(request) = DOMAIN metrics
<1>1. /\ unread = {} /\ phase # "file" /\ Going
  BY DEF Inv, Phases, Hashing, Succeeded, Going
<1>2. PlacesRead = AllPlaces(request)
  BY <1>1 DEF PlacesRead, AllPlaces, entries
<1>3. MapHolds(metrics, request, AllPlaces(request))
  BY <1>1, <1>2, MapOfFilesRead DEF Inv
<1> QED
  BY <1>3 DEF MapHolds, IdsOf

LEMMA SomePlace ==
  ASSUME NEW id \in IdsOf(request)
  PROVE  \E p \in AllPlaces(request) : id \in At(request, p).id
BY DEF IdsOf

LEMMA Accepted ==
  ASSUME Inv, Succeeded
  PROVE  WellFormedCatalog(request) /\ Delivered = DeclaredEntries(request)
<1>1. /\ MapHolds(metrics, request, AllPlaces(request)) /\ IdsOf(request) = DOMAIN metrics
  BY AllRead
<1>2. /\ request.exists /\ unread = {} /\ DOMAIN metricsIds = DOMAIN metrics
  BY DEF Inv, Phases
<1>3. \A n \in DOMAIN request.entries : IsConfig(request.entries[n]) => TextParses(request.entries[n])
  BY <1>2 DEF Inv, Phases, Going, Succeeded, Located, Parses, entries
<1>4. \A m, n \in IdsOf(request) : m # n => Fingerprint[m] # Fingerprint[n]
  BY <1>1, <1>2 DEF Inv, HashesDistinct
<1>5. \A p \in AllPlaces(request) : \A id \in At(request, p).id :
        /\ id \in DOMAIN metricsIds
        /\ metricsIds[id].hash = Fingerprint[id] /\ metricsIds[id].type = At(request, p).type
  BY <1>1, <1>2 DEF Inv, HashesDistinct, MapHolds
<1>6. ASSUME Generates(request)
      PROVE  /\ request.writable /\ DOMAIN generated.entries = DOMAIN metricsIds
             /\ \A id \in DOMAIN metricsIds :
                  generated.entries[id] = metricsIds[id] /\ metricsIds[id].type # METRIC_TYPE_UNKNOWN
  BY <1>6 DEF Inv, EntriesWritten
<1>7. Generates(request) =>
        request.writable /\ \A p \in AllPlaces(request) : At(request, p).type # METRIC_TYPE_UNKNOWN
  <2> SUFFICES ASSUME Generates(request), NEW p \in AllPlaces(request)
               PROVE  request.writable /\ At(request, p).type # METRIC_TYPE_UNKNOWN
    BY <1>6
  <2>1. PICK id \in At(request, p).id : TRUE
    BY <1>1 DEF MapHolds
  <2> QED
    BY <2>1, <1>5, <1>6
<1>8. WellFormedCatalog(request)
  <2>1. /\ \A p \in AllPlaces(request) : At(request, p).id # {} /\ At(request, p).id \subseteq WellNamed
        /\ \A p, q \in AllPlaces(request) : p # q => At(request, p).id \cap At(request, q).id = {}
    BY <1>1 DEF MapHolds
  <2> QED
    BY <1>2, <1>3, <1>4, <1>7, <2>1 DEF WellFormedCatalog
<1>9. Delivered = DeclaredEntries(request)
  <2>1. Delivered = {<<id, generated.entries[id].hash, generated.entries[id].type>> :
                       id \in DOMAIN generated.entries}
    BY DEF Delivered, Succeeded
  <2>2. CASE ~Generates(request)
    <3>1. DOMAIN generated.entries = {}
      BY <2>2 DEF Inv, EntriesWritten, NoFile, Empty
    <3> QED
      BY <2>1, <2>2, <3>1 DEF DeclaredEntries
  <2>3. CASE Generates(request)
    <3> DEFINE Triple(id) == <<id, metricsIds[id].hash, metricsIds[id].type>>
    <3>1. Delivered = {Triple(id) : id \in DOMAIN metrics}
      BY <2>1, <2>3, <1>2, <1>6
    <3>2. \A p \in AllPlaces(request) : \A id \in At(request, p).id :
            <<id, Fingerprint[id], At(request, p).type>> = Triple(id)
      BY <1>5
    <3> HIDE DEF Triple
    <3>3. ASSUME NEW t \in Delivered PROVE t \in Entries(request)
      <4>1. PICK id \in DOMAIN metrics : t = Triple(id)
        BY <3>1
      <4>2. PICK p \in AllPlaces(request) : id \in At(request, p).id
        BY <1>1, SomePlace
      <4>3. t = <<id, Fingerprint[id], At(request, p).type>>
        BY <3>2, <4>1, <4>2
      <4> QED
        BY <4>2, <4>3 DEF Entries
    <3>4. ASSUME NEW t \in Entries(request) PROVE t \in Delivered
      <4>1. PICK p \in AllPlaces(request) :
              \E id \in At(request, p).id : t = <<id, Fingerprint[id], At(request, p).type>>
        BY DEF Entries
      <4>2. PICK id \in At(request, p).id : t = <<id, Fingerprint[id], At(request, p).type>>
        BY <4>1
      <4>3. t = Triple(id) /\ id \in DOMAIN metrics
        BY <3>2, <4>2, <1>2, <1>5
      <4> QED
        BY <3>1, <4>3
    <3> QED
      BY <2>3, <3>3, <3>4 DEF DeclaredEntries
  <2> QED
    BY <2>2, <2>3
<1> QED
  BY <1>8, <1>9

LEMMA Rejected ==
  ASSUME Inv, phase # "exited", Next, phase' = "exited", status' # 0
  PROVE  ~WellFormedCatalog(request)
<1>1. ASSUME NoDirectory PROVE ~request.exists
  BY <1>1 DEF NoDirectory
<1>2. ASSUME OpenFile
      PROVE  \E n \in DOMAIN request.entries :
               IsConfig(request.entries[n]) /\ ~TextParses(request.entries[n])
  <2>1. PICK name \in unread : Located(name) /\ ~Parses(name)
    BY <1>2 DEF OpenFile, GoOn
  <2>2. name \in DOMAIN request.entries
    BY <2>1 DEF Inv, TypeOK, entries
  <2> QED
    BY <2>1, <2>2 DEF Located, Parses, entries
<1>3. ASSUME RejectMetric
      PROVE  \E p \in AllPlaces(request) :
               \/ At(request, p).id = {} \/ ~(At(request, p).id \subseteq WellNamed)
               \/ \E q \in AllPlaces(request) : p # q /\ At(request, p).id \cap At(request, q).id # {}
  <2> DEFINE p == <<file, at>>
  <2>1. phase = "file" /\ at <= Len(MetricsIn(file)) /\ ~Acceptable
    BY <1>3 DEF RejectMetric
  <2>2. /\ file \in DOMAIN request.entries /\ file \notin unread /\ IsConfig(request.entries[file])
        /\ at \in Nat /\ at >= 1
    BY <2>1 DEF Inv, TypeOK, entries, Located
  <2>3. Len(MetricsIn(file)) \in Nat
    <3>1. IsEntry(request.entries[file])
      BY <2>2, CatalogAssumption DEF Inv
    <3> QED
      BY <3>1 DEF IsEntry, MetricsIn, MetricsOf, entries
  <2>4. p \in AllPlaces(request)
    <3>1. at \in 1 .. Len(MetricsOf(request.entries[file]))
      BY <2>1, <2>2, <2>3 DEF MetricsIn, entries
    <3> QED
      BY <2>2, <3>1, InPlaces DEF AllPlaces
  <2>5. metric = At(request, p)
    BY DEF metric, At, MetricsIn, entries
  <2>6. CASE metric.id \cap DOMAIN metrics # {}
    <3>1. DOMAIN metrics = UNION {At(request, q).id : q \in PlacesRead}
      BY <2>1 DEF Inv, MetricsOfFilesRead, Going
    <3>2. PICK q \in PlacesRead : metric.id \cap At(request, q).id # {}
      BY <2>6, <3>1
    <3>3. q \in Places(request, DOMAIN entries \ (unread \cup {file})) \/ q \in {file} \X (1 .. at - 1)
      BY <2>1, <3>2 DEF PlacesRead
    <3>4. q # p
      <4>1. CASE q \in Places(request, DOMAIN entries \ (unread \cup {file}))
        BY <4>1, InPlaces
      <4>2. CASE q \in {file} \X (1 .. at - 1)
        BY <4>2, <2>2
      <4> QED
        BY <4>1, <4>2, <3>3
    <3>5. q \in AllPlaces(request)
      <4>1. CASE q \in Places(request, DOMAIN entries \ (unread \cup {file}))
        BY <4>1, InPlaces DEF AllPlaces, entries
      <4>2. CASE q \in {file} \X (1 .. at - 1)
        <5>1. PICK i \in 1 .. at - 1 : q = <<file, i>>
          BY <4>2
        <5>2. i \in 1 .. Len(MetricsOf(request.entries[file]))
          BY <2>1, <2>2, <2>3, <5>1 DEF MetricsIn, entries
        <5> QED
          BY <5>1, <5>2, <2>2, InPlaces DEF AllPlaces
      <4> QED
        BY <4>1, <4>2, <3>3
    <3> QED
      BY <2>4, <2>5, <3>2, <3>4, <3>5
  <2>7. CASE metric.id = {} \/ ~(metric.id \subseteq WellNamed)
    BY <2>4, <2>5, <2>7
  <2> QED
    BY <2>1, <2>6, <2>7 DEF Acceptable
<1>4. ASSUME RejectCollision
      PROVE  \E m, n \in IdsOf(request) : m # n /\ Fingerprint[m] = Fingerprint[n]
  <2>1. PICK id \in unhashed : Collision(id)
    BY <1>4 DEF RejectCollision
  <2>2. Hashing
    BY <1>4 DEF RejectCollision, Hashing
  <2>3. PICK known \in DOMAIN metricsIds : metricsIds[known].hash = Fingerprint[id]
    BY <2>1 DEF Collision
  <2>4. /\ id \in IdsOf(request) /\ known \in IdsOf(request) /\ id # known
    BY <2>1, <2>2, <2>3, AllRead DEF Inv, Phases
  <2>5. Fingerprint[id] = Fingerprint[known]
    BY <2>3 DEF Inv, HashesDistinct
  <2> QED
    BY <2>4, <2>5
<1>5. ASSUME CannotOpen PROVE Generates(request) /\ ~request.writable
  BY <1>5 DEF CannotOpen, Inv, Phases, Generates
<1>6. ASSUME UnknownType
      PROVE  Generates(request) /\ \E p \in AllPlaces(request) : At(request, p).type = METRIC_TYPE_UNKNOWN
  <2>1. PICK id \in unwritten : ~Known(id)
    BY <1>6 DEF UnknownType
  <2>2. phase = "write" /\ Hashing
    BY <1>6 DEF UnknownType, Hashing
  <2>3. Generates(request) /\ id \in DOMAIN metricsIds
    BY <2>1, <2>2 DEF Inv, EntriesWritten
  <2>4. id \in IdsOf(request)
    BY <2>2, <2>3, AllRead DEF Inv, Phases
  <2>5. PICK p \in AllPlaces(request) : id \in At(request, p).id
    BY <2>4, SomePlace
  <2>6. metrics[id] = At(request, p).type
    BY <2>2, <2>5, AllRead DEF MapHolds
  <2>7. metricsIds[id].type = metrics[id]
    BY <2>3 DEF Inv, HashesDistinct
  <2> QED
    BY <2>1, <2>3, <2>5, <2>6, <2>7 DEF Known
<1>7. \/ NoDirectory \/ OpenFile \/ RejectMetric \/ RejectCollision \/ CannotOpen \/ UnknownType
  BY DEF Next, SkipEntry, ReadMetric, EndOfFile, EndOfCatalog, HashMetric, EndOfHashes,
         NothingToGenerate, OpenJava, WriteMetric, EndOfJava, Exited, Exit, GoOn
<1> QED
  BY <1>1, <1>2, <1>3, <1>4, <1>5, <1>6, <1>7 DEF WellFormedCatalog

\* The tools accept a directory exactly when the catalog in it obeys the rules,
\* and the Java class then holds all of it: safety of ImplementsContract for
\* every directory (catalog.cpp:58-142, codegen.cpp:25-43).
THEOREM ContractImplemented == Spec => Contract!Safety
<1>1. Init => Contract!Init
  <2> SUFFICES ASSUME Init PROVE Contract!Init
    OBVIOUS
  <2>1. phase # "exited" /\ status # 0
    <3>1. phase = "read" /\ status = RUNNING
      BY DEF Init
    <3> QED
      BY <3>1 DEF RUNNING
  <2>2. Verdict = "pending"
    BY <2>1 DEF Verdict
  <2>3. Delivered = {}
    BY <2>1 DEF Delivered
  <2> QED
    BY <2>2, <2>3 DEF Init, Contract!Init
<1>2. Inv /\ Inv' /\ [Next]_vars => [Contract!Next]_(Contract!vars)
  <2> SUFFICES ASSUME Inv, Inv', [Next]_vars PROVE [Contract!Next]_(Contract!vars)
    OBVIOUS
  <2>1. request' = request
    BY DEF vars, Next, NoDirectory, SkipEntry, OpenFile, ReadMetric, RejectMetric, EndOfFile,
           EndOfCatalog, HashMetric, RejectCollision, EndOfHashes, NothingToGenerate, CannotOpen,
           OpenJava, WriteMetric, UnknownType, EndOfJava, Exited
  <2>2. phase # "exited" => Verdict = "pending" /\ Delivered = {}
    BY DEF Inv, TypeOK, Verdict, Delivered, RUNNING
  <2>3. CASE phase' # "exited"
    <3>1. phase # "exited"
      BY <2>3 DEF vars, Next, NoDirectory, SkipEntry, OpenFile, ReadMetric, RejectMetric, EndOfFile,
                  EndOfCatalog, HashMetric, RejectCollision, EndOfHashes, NothingToGenerate,
                  CannotOpen, OpenJava, WriteMetric, UnknownType, EndOfJava, Exited
    <3>2. Verdict' = "pending" /\ Delivered' = {}
      BY <2>3 DEF Inv, TypeOK, Verdict, Delivered, RUNNING
    <3> QED
      BY <2>1, <2>2, <3>1, <3>2 DEF Contract!vars
  <2>4. CASE phase = "exited"
    <3>1. UNCHANGED vars
      BY <2>4 DEF Next, NoDirectory, SkipEntry, OpenFile, ReadMetric, RejectMetric, EndOfFile,
                  EndOfCatalog, HashMetric, RejectCollision, EndOfHashes, NothingToGenerate,
                  CannotOpen, OpenJava, WriteMetric, UnknownType, EndOfJava, Exited
    <3> QED
      BY <3>1 DEF vars, Contract!vars, Verdict, Delivered
  <2>5. CASE phase # "exited" /\ phase' = "exited" /\ status' = 0
    <3>1. /\ WellFormedCatalog(request)' /\ Delivered' = DeclaredEntries(request)'
      <4>1. Succeeded'
        BY <2>5 DEF Succeeded
      <4>2. (Inv /\ Succeeded => WellFormedCatalog(request) /\ Delivered = DeclaredEntries(request))'
        BY Accepted, PTL
      <4> QED
        BY <4>1, <4>2
    <3>2. /\ WellFormedCatalog(request)' <=> WellFormedCatalog(request)
          /\ DeclaredEntries(request)' = DeclaredEntries(request)
      BY <2>1 DEF WellFormedCatalog, AllPlaces, Places, At, IdsOf, Generates, DeclaredEntries, Entries
    <3>3. Verdict' = "accepted"
      BY <2>5 DEF Verdict
    <3> QED
      BY <2>1, <2>2, <2>5, <3>1, <3>2, <3>3 DEF Contract!Next, Contract!Accept
  <2>6. CASE phase # "exited" /\ phase' = "exited" /\ status' # 0
    <3>1. Next
      BY <2>6 DEF vars
    <3>2. ~WellFormedCatalog(request)
      BY <2>6, <3>1, Rejected
    <3>3. Verdict' = "rejected" /\ Delivered' = {}
      BY <2>6 DEF Verdict, Delivered
    <3> QED
      BY <2>1, <2>2, <2>6, <3>2, <3>3 DEF Contract!Next, Contract!Reject
  <2> QED
    BY <2>3, <2>4, <2>5, <2>6
<1>3. Spec => Contract!Init /\ [][Contract!Next]_(Contract!vars)
  BY <1>1, <1>2, Invariant, PTL DEF Spec
<1> QED
  BY <1>3 DEF Contract!Safety
=============================================================================
