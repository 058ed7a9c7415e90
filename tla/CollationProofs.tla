--------------------------- MODULE CollationProofs ---------------------------
(***************************************************************************)
(* The collation of all atoms, for every message: what the tables hold and *)
(* the errors that are counted do not depend on the order of the fields,   *)
(* the writers find what they look up in them, and collate_atoms keeps its *)
(* contract.  What collate_atom returns for an atom is cited from          *)
(* CollateFieldProofs.                                                     *)
(***************************************************************************)
EXTENDS Collation, CollateFieldProofs

-----------------------------------------------------------------------------
(* What the operators of the sequences and sets libraries compute. *)

\* A sequence with one element more.
LEMMA ConcatOne ==
  ASSUME NEW S, NEW s \in Seq(S), NEW e \in S, NEW n \in Nat, Len(s) = n
  PROVE  s \o <<e>> = [j \in 1 .. n + 1 |-> IF j <= n THEN s[j] ELSE e]
OBVIOUS

\* The errors of the fields in S.
ErrorsIn(S) == SetSum([f \in AtomFields |-> ErrorsOf(f)], S)

\* The sum in ErrorsAddUp is the one the lemmas on sums are about.
LEMMA ErrorsSum ==
  ASSUME IsFiniteSet(Taken), Taken \subseteq AtomFields
  PROVE  ErrorsAddUp <=> errorCount = ErrorsIn(Taken)
<1> DEFINE g == [f \in AtomFields |-> ErrorsOf(f)]
           first(s) == CHOOSE y \in s : TRUE
           it == CHOOSE x : x = [s \in SUBSET Taken |-> IF s = {} THEN 0
                                  ELSE ErrorsOf(CHOOSE y \in s : TRUE) + x[s \ {CHOOSE y \in s : TRUE}]]
<1>1. ErrorsAddUp <=> errorCount = it[Taken]
  BY Zenon DEF ErrorsAddUp, MapThenSumSet, MapThenFoldSet
<1>2. ASSUME NEW s \in SUBSET Taken, s # {}
      PROVE  ErrorsOf(CHOOSE y \in s : TRUE) = g[Chosen(s)]
  <2>1. Chosen(s) \in AtomFields
    BY <1>2 DEF Chosen
  <2>2. g[Chosen(s)] = ErrorsOf(Chosen(s))
    BY <2>1
  <2> HIDE DEF g
  <2> QED BY <2>2 DEF Chosen
<1> HIDE DEF g
<1>3. ASSUME NEW sums, SetSumsOf(g, Taken, sums)
      PROVE  sums = [s \in SUBSET Taken |-> IF s = {} THEN 0
                        ELSE ErrorsOf(CHOOSE y \in s : TRUE) + sums[s \ {CHOOSE y \in s : TRUE}]]
  BY <1>2, <1>3 DEF SetSumsOf, Chosen
<1>4. it = [s \in SUBSET Taken |-> IF s = {} THEN 0
               ELSE ErrorsOf(CHOOSE y \in s : TRUE) + it[s \ {CHOOSE y \in s : TRUE}]]
  <2>1. PICK sums : SetSumsOf(g, Taken, sums)
    BY SetSumsExist
  <2>2. sums = [s \in SUBSET Taken |-> IF s = {} THEN 0
                   ELSE ErrorsOf(CHOOSE y \in s : TRUE) + sums[s \ {CHOOSE y \in s : TRUE}]]
    BY <1>3, <2>1
  <2>3. \E x : x = [s \in SUBSET Taken |-> IF s = {} THEN 0
                        ELSE ErrorsOf(CHOOSE y \in s : TRUE) + x[s \ {CHOOSE y \in s : TRUE}]]
    BY <2>2, Zenon
  <2> QED BY <2>3, Zenon
<1> HIDE DEF it
<1>5. SetSumsOf(g, Taken, it)
  BY <1>2, <1>4 DEF SetSumsOf, Chosen
<1>6. PICK sums : SetSumsOf(g, Taken, sums) /\ SetSum(g, Taken) = sums[Taken]
  BY SetSumsExist DEF SetSum
<1>7. it[Taken] = SetSum(g, Taken)
  BY <1>5, <1>6, SetSumsUnique
<1> QED BY <1>1, <1>7 DEF g, ErrorsIn

-----------------------------------------------------------------------------
(* The inductive invariant. *)

\* Where the two loops are.
Position ==
  /\ message \in AtomMessages
  /\ i \in 1 .. Len(message.regular) + 1
  /\ extensions \subseteq message.extensions

Tables == Position /\ OrderIndependent

\* The errors of the fields taken have been counted, those of no other field.
Counted ==
  /\ Position
  /\ IsFiniteSet(Taken)
  /\ errorCount = ErrorsIn(Taken)

\* What the non-chained variants of the atoms F leave.
NonChainedTables ==
  LET F == {f \in Inserted : HasChain(f.fields)} IN
  /\ DOMAIN nonChainedSignatureInfoMap = {NonChainedSignature(f.fields) : f \in F}
  /\ \A s \in DOMAIN nonChainedSignatureInfoMap : nonChainedSignatureInfoMap[s] = {}
  /\ DOMAIN non_chained_decls = {f.number : f \in F}
  /\ \A f \in F : non_chained_decls[f.number] = NonChainedFields(f.fields)

\* collate_atoms returns when there is nothing left to collate.
Finished ==
  /\ returned \in BOOLEAN
  /\ returned => ~InRegular /\ extensions = {}

Inv == Tables /\ Counted /\ NonChainedTables /\ Finished

\* The field may be inserted: none of the early returns is for it.
Insertable(f) ==
  /\ InModule(message, f) /\ f.isMessage /\ ~(Restricted(f) /\ Pulled(f))
  /\ ~PrimaryWithoutExclusive(collate_atom(AtomOf(f)).decl)

\* AddAtom extends the table of F to the table of F and f.
LEMMA AddAtomToTable ==
  ASSUME NEW F, NEW f
  PROVE  AddAtom(TableOf(F), SignatureOf(f), EntriesOf(f)) = TableOf(F \cup {f})
<1> DEFINE sigs == {SignatureOf(g) : g \in F}
           new  == AddAtom(TableOf(F), SignatureOf(f), EntriesOf(f))
           with(G, s) == {g \in G : SignatureOf(g) = s}
           all(G, s) == UNION {EntriesOf(g) : g \in with(G, s)}
<1>1. /\ DOMAIN TableOf(F) = sigs
      /\ \A s \in sigs : TableOf(F)[s] = all(F, s)
  BY DEF TableOf
<1>2. /\ DOMAIN TableOf(F \cup {f}) = sigs \cup {SignatureOf(f)}
      /\ \A s \in sigs \cup {SignatureOf(f)} : TableOf(F \cup {f})[s] = all(F \cup {f}, s)
  <2>1. {SignatureOf(g) : g \in F \cup {f}} = sigs \cup {SignatureOf(f)}
    OBVIOUS
  <2> QED BY <2>1 DEF TableOf
<1>3. DOMAIN new = sigs \cup {SignatureOf(f)}
  BY <1>1 DEF AddAtom, Put
<1>4. ASSUME NEW s \in sigs \cup {SignatureOf(f)}
      PROVE  new[s] = all(F \cup {f}, s)
  <2>1. CASE s = SignatureOf(f) /\ s \in sigs
    <3>1. new[s] = EntriesOf(f) \cup all(F, s)
      BY <1>1, <2>1 DEF AddAtom, Put
    <3>2. with(F \cup {f}, s) = with(F, s) \cup {f}
      BY <2>1
    <3> HIDE DEF with
    <3> QED BY <3>1, <3>2
  <2>2. CASE s = SignatureOf(f) /\ s \notin sigs
    <3>1. new[s] = EntriesOf(f)
      BY <1>1, <2>2 DEF AddAtom, Put
    <3>2. with(F \cup {f}, s) = {f}
      BY <2>2
    <3> HIDE DEF with
    <3> QED BY <3>1, <3>2
  <2>3. CASE s # SignatureOf(f)
    <3>1. new[s] = all(F, s)
      BY <1>1, <2>3 DEF AddAtom, Put
    <3>2. with(F \cup {f}, s) = with(F, s)
      BY <2>3
    <3> QED BY <3>1, <3>2
  <2> QED BY <2>1, <2>2, <2>3
<1>5. TableOf(F \cup {f}) = [s \in sigs \cup {SignatureOf(f)} |-> all(F \cup {f}, s)]
  BY <1>2 DEF TableOf
<1>6. new = [s \in sigs \cup {SignatureOf(f)} |-> new[s]]
  BY <1>3 DEF AddAtom, Put
<1> HIDE DEF new, all, sigs
<1>7. [s \in sigs \cup {SignatureOf(f)} |-> new[s]]
         = [s \in sigs \cup {SignatureOf(f)} |-> all(F \cup {f}, s)]
  BY <1>4
<1> QED BY <1>5, <1>6, <1>7 DEF new

\* The fields of the message, and no two of them with one number.
LEMMA MessageFacts ==
  ASSUME Position
  PROVE  /\ message.regular \in Seq(AtomFields) /\ Len(message.regular) \in Nat
         /\ DOMAIN message.regular = 1 .. Len(message.regular)
         /\ message.extensions \subseteq AtomFields
         /\ Fields(message) \subseteq AtomFields
         /\ \A f, g \in Fields(message) : f.number = g.number => f = g
         /\ Taken \subseteq Fields(message)
         /\ Inserted \subseteq Taken
<1>1. /\ message.regular \in Seq(AtomFields) /\ message.extensions \subseteq AtomFields
      /\ \A j, k \in DOMAIN message.regular :
            message.regular[j].number = message.regular[k].number => j = k
      /\ \A e, g \in message.extensions : e.number = g.number => e = g
      /\ \A k \in DOMAIN message.regular, e \in message.extensions :
            message.regular[k].number # e.number
  BY DEF Position, AtomMessages
<1>2. /\ Len(message.regular) \in Nat /\ DOMAIN message.regular = 1 .. Len(message.regular)
      /\ \A k \in DOMAIN message.regular : message.regular[k] \in AtomFields
  BY <1>1
<1>3. Fields(message) \subseteq AtomFields
  BY <1>1, <1>2 DEF Fields
<1>4. \A f, g \in Fields(message) : f.number = g.number => f = g
  BY <1>1 DEF Fields
<1>5. Taken \subseteq Fields(message)
  <2>1. 1 .. i - 1 \subseteq DOMAIN message.regular
    BY <1>2 DEF Position
  <2> QED BY <2>1 DEF Taken, Fields
<1>6. Inserted \subseteq Taken
  BY DEF Inserted
<1> QED BY <1>1, <1>2, <1>3, <1>4, <1>5, <1>6

\* A field that is passed is new, and is from then on among the fields taken.
LEMMA PassTakes ==
  ASSUME Position, NEW f \in NextFields, Pass(f)
  PROVE  /\ Position'
         /\ Taken' = Taken \cup {f}
         /\ message' = message
         /\ f \in AtomFields
         /\ Taken \subseteq AtomFields
         /\ f \notin Taken
         /\ \A g \in Taken : g.number # f.number
<1>0. /\ message.regular \in Seq(AtomFields) /\ Len(message.regular) \in Nat
      /\ DOMAIN message.regular = 1 .. Len(message.regular)
      /\ \A j, k \in DOMAIN message.regular :
            message.regular[j].number = message.regular[k].number => j = k
      /\ \A k \in DOMAIN message.regular, e \in message.extensions :
            message.regular[k].number # e.number
      /\ message' = message
  BY MessageFacts DEF Position, AtomMessages, Pass
<1>1. CASE InRegular
  <2>1. /\ i \in 1 .. Len(message.regular) /\ f = message.regular[i]
        /\ i' = i + 1 /\ extensions' = extensions
    BY <1>0, <1>1 DEF Position, InRegular, NextFields, Pass
  <2>2. Position'
    BY <1>0, <2>1 DEF Position
  <2>3. 1 .. i' - 1 = (1 .. i - 1) \cup {i}
    BY <1>0, <2>1
  <2>4. {message.regular[k] : k \in 1 .. i' - 1} = {message.regular[k] : k \in 1 .. i - 1} \cup {f}
    BY <2>1, <2>3
  <2>5. Taken' = Taken \cup {f}
    BY <1>0, <2>1, <2>4 DEF Taken
  <2>6. f \in Fields(message)
    BY <1>0, <2>1 DEF Fields
  <2>7. f \notin Taken
    <3>1. \A k \in 1 .. i - 1 : k \in DOMAIN message.regular /\ k # i
      BY <1>0, <2>1
    <3>2. \A k \in 1 .. i - 1 : message.regular[k] # f
      BY <1>0, <2>1, <3>1
    <3>3. f \notin message.extensions
      BY <1>0, <2>1
    <3> QED BY <3>2, <3>3 DEF Taken
  <2> QED BY <1>0, <2>2, <2>5, <2>6, <2>7, MessageFacts
<1>2. CASE ~InRegular
  <2>1. f \in extensions /\ f \in message.extensions /\ i' = i /\ extensions' = extensions \ {f}
    BY <1>2 DEF NextFields, Pass, Position
  <2>2. Position'
    BY <1>0, <2>1 DEF Position
  <2>3. message.extensions \ extensions' = (message.extensions \ extensions) \cup {f}
    BY <2>1 DEF Position
  <2>4. Taken' = Taken \cup {f}
    BY <1>0, <2>1, <2>3 DEF Taken
  <2>5. 1 .. i - 1 \subseteq DOMAIN message.regular
    BY <1>0 DEF Position
  <2>6. f \notin Taken
    BY <1>0, <2>1, <2>5 DEF Taken
  <2>7. f \in Fields(message)
    BY <2>1 DEF Fields
  <2> QED BY <1>0, <2>2, <2>4, <2>6, <2>7, MessageFacts
<1> QED BY <1>1, <1>2

\* A field that may not be inserted leaves the inserted ones as they are.
LEMMA PassRejected ==
  ASSUME Tables, NEW f \in NextFields, Pass(f), UNCHANGED atoms, ~Insertable(f)
  PROVE  Tables'
<1>1. /\ Position' /\ Taken' = Taken \cup {f} /\ message' = message
  BY PassTakes DEF Tables
<1>2. \A g : InModule(message, g)' = InModule(message, g)
  BY <1>1 DEF InModule
<1>3. Inserted' = Inserted
  BY <1>1, <1>2 DEF Inserted, Insertable
<1>4. OrderIndependent'
  BY <1>3 DEF Tables, OrderIndependent, atoms
<1> QED BY <1>1, <1>4 DEF Tables

\* A field that is inserted is in every table it belongs to, and in no other.
LEMMA PassInserted ==
  ASSUME Tables, NEW f \in NextFields, Pass(f), Insert(f), Insertable(f)
  PROVE  Tables'
<1>1. /\ Position' /\ Taken' = Taken \cup {f} /\ message' = message
      /\ \A g \in Taken : g.number # f.number
  BY PassTakes DEF Tables
<1>2. \A g : InModule(message, g)' = InModule(message, g)
  BY <1>1 DEF InModule
<1>3. Inserted' = Inserted \cup {f}
  BY <1>1, <1>2 DEF Inserted, Insertable
<1>4. signatureInfoMap' = TableOf({g \in Inserted' : ~Pulled(g)})
  <2>1. CASE Pulled(f)
    <3>1. {g \in Inserted' : ~Pulled(g)} = {g \in Inserted : ~Pulled(g)}
      BY <1>3, <2>1
    <3> QED BY <2>1, <3>1 DEF Tables, OrderIndependent, Insert
  <2>2. CASE ~Pulled(f)
    <3>1. {g \in Inserted' : ~Pulled(g)} = {g \in Inserted : ~Pulled(g)} \cup {f}
      BY <1>3, <2>2
    <3>2. signatureInfoMap' = AddAtom(signatureInfoMap, SignatureOf(f), EntriesOf(f))
      BY <2>2 DEF Insert
    <3> QED BY <3>1, <3>2, AddAtomToTable DEF Tables, OrderIndependent
  <2> QED BY <2>1, <2>2
<1>5. pulledAtomsSignatureInfoMap' = TableOf({g \in Inserted' : Pulled(g)})
  <2>1. CASE ~Pulled(f)
    <3>1. {g \in Inserted' : Pulled(g)} = {g \in Inserted : Pulled(g)}
      BY <1>3, <2>1
    <3> QED BY <2>1, <3>1 DEF Tables, OrderIndependent, Insert
  <2>2. CASE Pulled(f)
    <3>1. {g \in Inserted' : Pulled(g)} = {g \in Inserted : Pulled(g)} \cup {f}
      BY <1>3, <2>2
    <3>2. pulledAtomsSignatureInfoMap' =
              AddAtom(pulledAtomsSignatureInfoMap, SignatureOf(f), EntriesOf(f))
      BY <2>2 DEF Insert
    <3> QED BY <3>1, <3>2, AddAtomToTable DEF Tables, OrderIndependent
  <2> QED BY <2>1, <2>2
<1>6. decls' = Put(decls, f.number, DeclOf(f))
  BY DEF Insert
<1>7. DOMAIN decls' = {g.number : g \in Inserted'}
  <2>1. DOMAIN decls' = DOMAIN decls \cup {f.number}
    BY <1>6 DEF Put
  <2>2. {g.number : g \in Inserted \cup {f}} = {g.number : g \in Inserted} \cup {f.number}
    OBVIOUS
  <2> QED BY <1>3, <2>1, <2>2 DEF Tables, OrderIndependent
<1>8. ASSUME NEW g \in Inserted' PROVE decls'[g.number] = DeclOf(g)
  <2>1. CASE g = f
    BY <1>6, <2>1 DEF Put
  <2>2. CASE g # f
    <3>1. g \in Inserted /\ g.number # f.number
      BY <1>1, <1>3, <2>2 DEF Inserted
    <3>2. g.number \in DOMAIN decls /\ decls[g.number] = DeclOf(g)
      BY <3>1 DEF Tables, OrderIndependent
    <3> QED BY <1>6, <3>1, <3>2 DEF Put
  <2> QED BY <2>1, <2>2
<1>9. OrderIndependent'
  BY <1>4, <1>5, <1>7, <1>8 DEF OrderIndependent
<1> QED BY <1>1, <1>9 DEF Tables

-----------------------------------------------------------------------------
(* The errors. *)

LEMMA AtomOfProto ==
  ASSUME NEW f \in AtomFields
  PROVE  AtomOf(f) \in AtomProtos
BY DEF AtomFields, AtomOf, AtomProtos, Restricted

\* The errors of a field are counted from zero.
LEMMA ErrorsOfField ==
  ASSUME NEW f \in AtomFields
  PROVE  ErrorsOf(f) \in Nat
<1>1. collate_atom(AtomOf(f)).errorCount \in Nat
  BY AtomOfProto, CollateAtomReturns
<1> QED BY <1>1 DEF ErrorsOf, Count

\* A new field adds its errors to the sum.
LEMMA ErrorsInAdd ==
  ASSUME NEW S \in SUBSET AtomFields, IsFiniteSet(S)
  PROVE  /\ ErrorsIn({}) = 0
         /\ ErrorsIn(S) \in Nat
         /\ \A f \in S : ErrorsIn(S) = ErrorsOf(f) + ErrorsIn(S \ {f})
<1> DEFINE g == [f \in AtomFields |-> ErrorsOf(f)]
<1>1. \A f \in AtomFields : g[f] = ErrorsOf(f) /\ g[f] \in Nat
  BY ErrorsOfField
<1>2. \A T : ErrorsIn(T) = SetSum(g, T)
  BY DEF ErrorsIn
<1> HIDE DEF g
<1>3. \A f \in S : g[f] \in Nat
  BY <1>1
<1>4. /\ SetSum(g, {}) = 0 /\ SetSum(g, S) \in Nat
      /\ \A x \in S : SetSum(g, S) = g[x] + SetSum(g, S \ {x})
  BY <1>3, SetSumAdd
<1> QED BY <1>1, <1>2, <1>4

\* A field that is passed with its errors counted.
LEMMA PassCounted ==
  ASSUME Counted, NEW f \in NextFields, Pass(f), errorCount' = errorCount + ErrorsOf(f)
  PROVE  Counted'
<1>1. /\ Position' /\ Taken' = Taken \cup {f} /\ message' = message
      /\ f \in AtomFields /\ Taken \subseteq AtomFields /\ f \notin Taken
  BY PassTakes DEF Counted
<1> DEFINE T == Taken \cup {f}
<1>2. IsFiniteSet(T)
  BY FS_AddElement DEF Counted
<1>3. T \ {f} = Taken /\ f \in T /\ T \in SUBSET AtomFields
  BY <1>1
<1> HIDE DEF T
<1>4. ErrorsIn(T) = ErrorsOf(f) + ErrorsIn(Taken)
  BY <1>2, <1>3, ErrorsInAdd
<1>5. ErrorsOf(f) \in Nat /\ ErrorsIn(Taken) \in Nat
  BY <1>1, ErrorsOfField, ErrorsInAdd DEF Counted
<1>6. errorCount' = ErrorsIn(T)
  BY <1>4, <1>5 DEF Counted
<1>7. ErrorsIn(Taken)' = ErrorsIn(T)
  BY <1>1 DEF T, ErrorsIn, ErrorsOf, InModule
<1> QED BY <1>1, <1>2, <1>6, <1>7 DEF Counted, T

-----------------------------------------------------------------------------
(* The non-chained variants. *)

\* A field that is not inserted, or has no chain, leaves no variant.
LEMMA NoNonChained ==
  ASSUME Position, NonChainedTables, NEW f \in NextFields, Pass(f),
         UNCHANGED <<nonChainedSignatureInfoMap, non_chained_decls>>,
         ~Insertable(f) \/ ~HasChain(f.fields)
  PROVE  NonChainedTables'
<1>1. Taken' = Taken \cup {f} /\ message' = message
  BY PassTakes
<1>2. \A g : InModule(message, g)' = InModule(message, g)
  BY <1>1 DEF InModule
<1>3. {g \in Inserted : HasChain(g.fields)}' = {g \in Inserted : HasChain(g.fields)}
  BY <1>1, <1>2 DEF Inserted, Insertable
<1> QED BY <1>3 DEF NonChainedTables

\* A field with a chain that is inserted leaves its variant.
LEMMA AddNonChained ==
  ASSUME Position, NonChainedTables, NEW f \in NextFields, Pass(f), Insertable(f),
         HasChain(f.fields), InsertNonChained(f)
  PROVE  NonChainedTables'
<1> DEFINE F == {g \in Inserted : HasChain(g.fields)}
           map == nonChainedSignatureInfoMap
           sig == NonChainedSignature(f.fields)
<1>1. /\ Taken' = Taken \cup {f} /\ message' = message
      /\ \A g \in Taken : g.number # f.number
  BY PassTakes
<1>2. \A g : InModule(message, g)' = InModule(message, g)
  BY <1>1 DEF InModule
<1>3. F' = F \cup {f}
  BY <1>1, <1>2 DEF Inserted, Insertable
<1>4. F \subseteq Taken
  BY DEF Inserted
<1>5. map' = AddAtom(map, sig, {}) /\ non_chained_decls' = Put(non_chained_decls, f.number, NonChainedFields(f.fields))
  BY DEF InsertNonChained
<1>6. /\ DOMAIN map = {NonChainedSignature(g.fields) : g \in F}
      /\ \A s \in DOMAIN map : map[s] = {}
      /\ DOMAIN non_chained_decls = {g.number : g \in F}
      /\ \A g \in F : non_chained_decls[g.number] = NonChainedFields(g.fields)
  BY DEF NonChainedTables
<1> HIDE DEF F
<1>7. DOMAIN map' = {NonChainedSignature(g.fields) : g \in F'}
  <2>1. DOMAIN map' = DOMAIN map \cup {sig}
    BY <1>5 DEF AddAtom, Put
  <2>2. {NonChainedSignature(g.fields) : g \in F \cup {f}} = {NonChainedSignature(g.fields) : g \in F} \cup {sig}
    OBVIOUS
  <2> QED BY <1>3, <1>6, <2>1, <2>2
<1>8. \A s \in DOMAIN map' : map'[s] = {}
  BY <1>5, <1>6 DEF AddAtom, Put
<1>9. DOMAIN non_chained_decls' = {g.number : g \in F'}
  <2>1. DOMAIN non_chained_decls' = DOMAIN non_chained_decls \cup {f.number}
    BY <1>5 DEF Put
  <2>2. {g.number : g \in F \cup {f}} = {g.number : g \in F} \cup {f.number}
    OBVIOUS
  <2> QED BY <1>3, <1>6, <2>1, <2>2
<1>10. ASSUME NEW g \in F' PROVE non_chained_decls'[g.number] = NonChainedFields(g.fields)
  <2>1. CASE g = f
    BY <1>5, <2>1 DEF Put
  <2>2. CASE g # f
    <3>1. g \in F /\ g.number # f.number
      BY <1>1, <1>3, <1>4, <2>2
    <3>2. g.number \in DOMAIN non_chained_decls
      BY <1>6, <3>1
    <3> QED BY <1>5, <1>6, <3>1, <3>2 DEF Put
  <2> QED BY <2>1, <2>2
<1> QED BY <1>7, <1>8, <1>9, <1>10 DEF NonChainedTables, F

-----------------------------------------------------------------------------
(* The invariant. *)

LEMMA InvInit == Init => Inv
<1> SUFFICES ASSUME Init PROVE Inv
  OBVIOUS
<1>1. message \in AtomMessages /\ i = 1 /\ extensions = message.extensions
  BY MessagesAssumption DEF Init
<1>2. Position
  BY <1>1 DEF Position, AtomMessages
<1>3. Taken = {}
  BY <1>1 DEF Taken
<1>4. Inserted = {}
  BY <1>3 DEF Inserted
<1>5. TableOf({}) = EmptyMap
  BY DEF TableOf, EmptyMap
<1>6. OrderIndependent
  BY <1>4, <1>5 DEF Init, OrderIndependent, EmptyMap
<1>7. Counted
  <2>1. IsFiniteSet({})
    BY FS_EmptySet
  <2>2. ErrorsIn({}) = 0
    BY <2>1, ErrorsInAdd
  <2> QED BY <1>2, <1>3, <2>1, <2>2 DEF Init, Counted
<1>8. NonChainedTables
  BY <1>4 DEF Init, NonChainedTables, EmptyMap
<1>9. Finished
  BY DEF Init, Finished
<1> QED BY <1>2, <1>6, <1>7, <1>8, <1>9 DEF Inv, Tables

\* While there is a field to pass, collate_atoms has not returned.
LEMMA PassUnfinished ==
  ASSUME Finished, NEW f \in NextFields, Pass(f)
  PROVE  Finished'
BY DEF Finished, NextFields, Pass

LEMMA InvStep == Inv /\ [Next]_vars => Inv'
<1> SUFFICES ASSUME Inv, [Next]_vars PROVE Inv'
  OBVIOUS
<1>0. /\ Tables /\ Position /\ Counted /\ NonChainedTables /\ Finished
      /\ Taken \subseteq AtomFields
      /\ errorCount \in Nat
  <2>1. Tables /\ Position /\ Counted /\ NonChainedTables /\ Finished
    BY DEF Inv, Tables
  <2>2. Taken \subseteq AtomFields
    BY <2>1, MessageFacts
  <2> QED BY <2>1, <2>2, ErrorsInAdd DEF Counted
<1>1. ASSUME NEW f \in NextFields, Pass(f), UNCHANGED atoms, ~Insertable(f),
             errorCount' = errorCount + ErrorsOf(f)
      PROVE  Inv'
  BY <1>0, <1>1, PassRejected, PassCounted, NoNonChained, PassUnfinished DEF Inv, atoms
<1>2. ASSUME NEW f \in NextFields, SkipOtherModule(f) PROVE Inv'
  <2>1. ErrorsOf(f) = 0 /\ ~Insertable(f)
    BY <1>2 DEF SkipOtherModule, ErrorsOf, Insertable
  <2>2. errorCount' = errorCount + ErrorsOf(f)
    BY <1>0, <1>2, <2>1 DEF SkipOtherModule
  <2> QED BY <1>1, <1>2, <2>1, <2>2 DEF SkipOtherModule
<1>3. ASSUME NEW f \in NextFields, RejectNonMessage(f) PROVE Inv'
  <2>1. ErrorsOf(f) = 1 /\ ~Insertable(f)
    BY <1>3 DEF RejectNonMessage, ErrorsOf, Insertable
  <2> QED BY <1>1, <1>3, <2>1 DEF RejectNonMessage
<1>4. ASSUME NEW f \in NextFields, RejectRestrictedPulled(f) PROVE Inv'
  <2>1. ErrorsOf(f) = 1 /\ ~Insertable(f)
    BY <1>4 DEF RejectRestrictedPulled, ErrorsOf, Insertable
  <2> QED BY <1>1, <1>4, <2>1 DEF RejectRestrictedPulled
<1>5. ASSUME NEW f \in NextFields PROVE f \in AtomFields /\ collate_atom(AtomOf(f)).errorCount \in Nat
  <2>1. f \in AtomFields
    BY <1>0, MessageFacts DEF NextFields, InRegular, Position
  <2> QED BY <2>1, AtomOfProto, CollateAtomReturns
<1>6. ASSUME NEW f \in NextFields, RejectUnownedPrimary(f) PROVE Inv'
  <2>1. ~Insertable(f)
    BY <1>6 DEF RejectUnownedPrimary, Insertable
  <2>2. ErrorsOf(f) = collate_atom(AtomOf(f)).errorCount + 1
    BY <1>6 DEF RejectUnownedPrimary, ErrorsOf
  <2>3. errorCount' = errorCount + collate_atom(AtomOf(f)).errorCount + 1
    BY <1>6 DEF RejectUnownedPrimary
  <2>4. errorCount' = errorCount + ErrorsOf(f)
    BY <1>0, <1>5, <2>2, <2>3
  <2> QED BY <1>1, <1>6, <2>1, <2>4 DEF RejectUnownedPrimary
<1>7. ASSUME NEW f \in NextFields, CollateAtomField(f) PROVE Inv'
  <2>1. Insertable(f) /\ Pass(f) /\ Insert(f) /\ InsertNonChained(f)
    BY <1>7 DEF CollateAtomField, Insertable
  <2>2. ErrorsOf(f) = collate_atom(AtomOf(f)).errorCount + Count(f.restriction)
    BY <1>7 DEF CollateAtomField, ErrorsOf
  <2>3. errorCount' = errorCount + collate_atom(AtomOf(f)).errorCount + Count(f.restriction)
    BY <1>7 DEF CollateAtomField
  <2>4. Count(f.restriction) \in Nat
    BY DEF Count
  <2>5. errorCount' = errorCount + ErrorsOf(f)
    BY <1>0, <1>5, <2>2, <2>3, <2>4
  <2>6. NonChainedTables'
    BY <1>0, <2>1, AddNonChained, NoNonChained DEF InsertNonChained
  <2> QED BY <1>0, <2>1, <2>5, <2>6, PassInserted, PassCounted, PassUnfinished DEF Inv
<1>8. ASSUME UNCHANGED <<message, i, extensions, errorCount, atoms>>, Finished' PROVE Inv'
  <2>1. Position'
    BY <1>0, <1>8 DEF Position
  <2>2. Inserted' = Inserted /\ Taken' = Taken
    BY <1>8 DEF Inserted, Taken, InModule
  <2>3. Tables'
    BY <1>0, <1>8, <2>1, <2>2 DEF Tables, OrderIndependent, atoms
  <2>4. ErrorsIn(Taken)' = ErrorsIn(Taken)
    BY <1>8, <2>2 DEF ErrorsIn, ErrorsOf, InModule
  <2>5. Counted'
    BY <1>0, <1>8, <2>1, <2>2, <2>4 DEF Counted
  <2>6. NonChainedTables'
    BY <1>0, <1>8, <2>2 DEF NonChainedTables, atoms
  <2> QED BY <1>8, <2>3, <2>5, <2>6 DEF Inv
<1>9. CASE Return
  BY <1>0, <1>8, <1>9 DEF Return, Finished, InRegular
<1>10. CASE UNCHANGED vars
  BY <1>0, <1>8, <1>10 DEF vars, Finished, InRegular
<1> QED BY <1>2, <1>3, <1>4, <1>6, <1>7, <1>9, <1>10 DEF Next

LEMMA InvCorrect == Spec => []Inv
BY InvInit, InvStep, PTL DEF Spec

-----------------------------------------------------------------------------
(* What a step may not do. *)

\* A table only gains signatures and entries.
LEMMA AddAtomGrows ==
  ASSUME NEW table, NEW s, NEW entries
  PROVE  Grows(table, AddAtom(table, s, entries))
BY DEF Grows, AddAtom, Put

LEMMA GrowsSame ==
  ASSUME NEW table
  PROVE  Grows(table, table)
BY DEF Grows

\* The AtomDecl of a new field is put under a number no AtomDecl has.
LEMMA InsertKeepsDecls ==
  ASSUME Tables, NEW f \in NextFields, Pass(f), Insert(f)
  PROVE  \A n \in DOMAIN decls : n \in DOMAIN decls' /\ decls'[n] = decls[n]
<1>1. DOMAIN decls = {g.number : g \in Inserted} /\ decls' = Put(decls, f.number, DeclOf(f))
  BY DEF Tables, OrderIndependent, Insert
<1>2. \A g \in Inserted : g.number # f.number
  BY PassTakes DEF Tables, Inserted
<1>3. f.number \notin DOMAIN decls
  BY <1>1, <1>2
<1> QED BY <1>1, <1>3 DEF Put

\* Nothing that is found is taken back, in every step of every collation.
THEOREM CollationOnlyAdds == Spec => NothingTakenBack
<1> DEFINE Kept == /\ errorCount <= errorCount'
                   /\ \A n \in DOMAIN decls : n \in DOMAIN decls' /\ decls'[n] = decls[n]
                   /\ Grows(signatureInfoMap, signatureInfoMap')
                   /\ Grows(pulledAtomsSignatureInfoMap, pulledAtomsSignatureInfoMap')
                   /\ Grows(nonChainedSignatureInfoMap, nonChainedSignatureInfoMap')
           Step == /\ errorCount <= errorCount'
                   /\ \A n \in DOMAIN decls : n \in DOMAIN decls' /\ decls'[n] = decls[n]
                   /\ Grows(signatureInfoMap, signatureInfoMap')
                   /\ Grows(pulledAtomsSignatureInfoMap, pulledAtomsSignatureInfoMap')
                   /\ Grows(nonChainedSignatureInfoMap, nonChainedSignatureInfoMap')
                   /\ returned => UNCHANGED <<errorCount, returned, atoms>>
<1>1. ASSUME Inv, [Next]_vars PROVE [Step]_vars
  <2>0. Tables /\ Position /\ Finished /\ errorCount \in Nat
    <3>1. Tables /\ Position /\ Finished /\ Counted
      BY <1>1 DEF Inv, Tables
    <3> QED BY <3>1, MessageFacts, ErrorsInAdd DEF Counted
  <2>1. ASSUME errorCount' \in Nat, errorCount <= errorCount', UNCHANGED atoms PROVE Kept
    BY <2>1, GrowsSame DEF atoms
  <2>2. ASSUME NEW f \in NextFields
        PROVE  collate_atom(AtomOf(f)).errorCount \in Nat /\ ~returned
    <3>1. f \in AtomFields
      BY <2>0, MessageFacts DEF NextFields, InRegular, Position
    <3>2. ~returned
      BY <2>0 DEF NextFields, Finished
    <3> QED BY <3>1, <3>2, AtomOfProto, CollateAtomReturns
  <2>3. ASSUME NEW f \in NextFields, SkipOtherModule(f) PROVE Kept
    BY <2>0, <2>1, <2>3 DEF SkipOtherModule
  <2>4. ASSUME NEW f \in NextFields, RejectNonMessage(f) PROVE Kept
    BY <2>0, <2>1, <2>4 DEF RejectNonMessage
  <2>5. ASSUME NEW f \in NextFields, RejectRestrictedPulled(f) PROVE Kept
    BY <2>0, <2>1, <2>5 DEF RejectRestrictedPulled
  <2>6. ASSUME NEW f \in NextFields, RejectUnownedPrimary(f) PROVE Kept
    <3>1. /\ errorCount' = errorCount + collate_atom(AtomOf(f)).errorCount + 1
          /\ UNCHANGED atoms
      BY <2>6 DEF RejectUnownedPrimary
    <3>2. errorCount' \in Nat /\ errorCount <= errorCount'
      BY <2>0, <2>2, <3>1
    <3> QED BY <2>1, <3>1, <3>2
  <2>7. ASSUME NEW f \in NextFields, CollateAtomField(f) PROVE Kept
    <3>1. /\ errorCount' = errorCount + collate_atom(AtomOf(f)).errorCount + Count(f.restriction)
          /\ Pass(f) /\ Insert(f) /\ InsertNonChained(f)
      BY <2>7 DEF CollateAtomField
    <3>2. Count(f.restriction) \in Nat
      BY DEF Count
    <3>3. errorCount <= errorCount'
      BY <2>0, <2>2, <3>1, <3>2
    <3>4. \A n \in DOMAIN decls : n \in DOMAIN decls' /\ decls'[n] = decls[n]
      BY <2>0, <3>1, InsertKeepsDecls
    <3>5. /\ Grows(signatureInfoMap, signatureInfoMap')
          /\ Grows(pulledAtomsSignatureInfoMap, pulledAtomsSignatureInfoMap')
      BY <3>1, AddAtomGrows, GrowsSame DEF Insert
    <3>6. Grows(nonChainedSignatureInfoMap, nonChainedSignatureInfoMap')
      BY <3>1, AddAtomGrows, GrowsSame DEF InsertNonChained
    <3> QED BY <3>3, <3>4, <3>5, <3>6
  <2>8. CASE Return
    <3>1. UNCHANGED <<errorCount, atoms>> /\ returned' = TRUE
      BY <2>8 DEF Return
    <3>2. Kept
      BY <2>0, <2>1, <3>1
    <3>3. returned => UNCHANGED <<errorCount, returned, atoms>>
      BY <2>0, <3>1 DEF Finished
    <3> QED BY <3>2, <3>3
  <2>9. ASSUME NEW f \in NextFields,
               SkipOtherModule(f) \/ RejectNonMessage(f) \/ RejectRestrictedPulled(f)
               \/ RejectUnownedPrimary(f) \/ CollateAtomField(f)
        PROVE  Step
    BY <2>2, <2>3, <2>4, <2>5, <2>6, <2>7, <2>9
  <2> QED BY <1>1, <2>8, <2>9 DEF Next
<1> HIDE DEF Step
<1>2. Spec => [][Step]_vars
  BY <1>1, InvCorrect, PTL DEF Spec
<1> QED BY <1>2 DEF Step, NothingTakenBack

\* The tables depend only on which fields have been collated, for every message
\* and every order of its extensions.
THEOREM TablesCorrect == Spec => []OrderIndependent
<1>1. Inv => OrderIndependent
  BY DEF Inv, Tables
<1> QED BY InvCorrect, <1>1, PTL

\* No error of a field is lost or counted twice, whatever the order of the
\* extensions and however many fields there are.
THEOREM ErrorsCorrect == Spec => []ErrorsAddUp
<1>1. Inv => ErrorsAddUp
  <2> SUFFICES ASSUME Inv PROVE ErrorsAddUp
    OBVIOUS
  <2>1. Counted /\ IsFiniteSet(Taken)
    BY DEF Inv, Counted
  <2>2. Taken \subseteq AtomFields
    BY <2>1, MessageFacts DEF Counted
  <2> QED BY <2>1, <2>2, ErrorsSum DEF Counted
<1> QED BY InvCorrect, <1>1, PTL

\* The tables refer to atoms there are, of the table's kind.
LEMMA TableHolds ==
  ASSUME OrderIndependent, NEW F \in SUBSET Inserted, NEW kind,
         \A f \in F : DeclOf(f).atomType = kind
  PROVE  Holds(TableOf(F), kind)
<1> SUFFICES ASSUME NEW s \in DOMAIN TableOf(F), NEW e \in TableOf(F)[s]
             PROVE  e[2] \in DOMAIN decls /\ decls[e[2]].atomType = kind
  BY DEF Holds
<1>1. TableOf(F)[s] = UNION {EntriesOf(f) : f \in {g \in F : SignatureOf(g) = s}}
  BY DEF TableOf
<1>2. PICK f \in F : e \in EntriesOf(f)
  BY <1>1
<1>3. e[2] = f.number
  BY <1>2 DEF EntriesOf
<1> QED BY <1>3 DEF OrderIndependent

\* Every variable keeps its type.
THEOREM CollationTypeCorrect == Spec => []TypeOK
<1>1. Inv => TypeOK
  <2> SUFFICES ASSUME Inv PROVE TypeOK
    OBVIOUS
  <2>1. Position /\ OrderIndependent /\ Counted /\ NonChainedTables /\ Finished
    BY DEF Inv, Tables
  <2>2. errorCount \in Nat
    BY <2>1, MessageFacts, ErrorsInAdd DEF Counted
  <2>3. Holds(signatureInfoMap, "pushed")
    <3> DEFINE F == {f \in Inserted : ~Pulled(f)}
    <3>1. F \in SUBSET Inserted /\ \A f \in F : DeclOf(f).atomType = "pushed"
      BY DEF DeclOf
    <3>2. signatureInfoMap = TableOf(F)
      BY <2>1 DEF OrderIndependent
    <3> HIDE DEF F
    <3> QED BY <2>1, <3>1, <3>2, TableHolds
  <2>4. Holds(pulledAtomsSignatureInfoMap, "pulled")
    <3> DEFINE F == {f \in Inserted : Pulled(f)}
    <3>1. F \in SUBSET Inserted /\ \A f \in F : DeclOf(f).atomType = "pulled"
      BY DEF DeclOf
    <3>2. pulledAtomsSignatureInfoMap = TableOf(F)
      BY <2>1 DEF OrderIndependent
    <3> HIDE DEF F
    <3> QED BY <2>1, <3>1, <3>2, TableHolds
  <2>5. DOMAIN non_chained_decls \subseteq DOMAIN decls
    BY <2>1 DEF NonChainedTables, OrderIndependent
  <2> QED BY <2>1, <2>2, <2>3, <2>4, <2>5 DEF TypeOK, Position, NonChainedTables, Finished
<1> QED BY InvCorrect, <1>1, PTL

-----------------------------------------------------------------------------
(* Collations without errors. *)

\* The ranges of getAtomType are the documented ones.
LEMMA PulledAsDeclared ==
  ASSUME NEW f \in AtomFields
  PROVE  Pulled(f) <=> DeclaredPulled(f)
<1>1. f.number \in Nat
  BY DEF AtomFields
<1> QED BY <1>1 DEF Pulled, DeclaredPulled

\* A field has no errors exactly when it is skipped or allowed.
LEMMA NoErrorIffAllowed ==
  ASSUME NEW f \in AtomFields
  PROVE  /\ ErrorsOf(f) = 0 <=> (InModule(message, f) => AtomAllowed(f))
         /\ AtomAllowed(f) => ~PrimaryWithoutExclusive(collate_atom(AtomOf(f)).decl)
<1> DEFINE a == AtomOf(f)
           c == collate_atom(a)
<1>1. a \in AtomProtos /\ a.fields = f.fields
  BY AtomOfProto DEF AtomOf
<1>2. f.isMessage \in BOOLEAN /\ f.restriction \in BOOLEAN
  BY DEF AtomFields
<1> HIDE DEF a
<1>3. /\ c.errorCount \in Nat
      /\ c.errorCount = 0 <=> WellFormed(a)
      /\ WellFormed(a) =>
           /\ c.decl.exclusiveField = 0 <=> \A k \in DOMAIN a.fields : ~IsExclusive(a.fields[k])
           /\ c.decl.primaryFields = <<>>
                <=> \A k \in DOMAIN a.fields : \A o \in a.fields[k].state : ~o.primary /\ ~o.firstUid
  BY <1>1, CollateAtomReturns
<1> HIDE DEF c
<1> DEFINE owned == (\E k \in DOMAIN f.fields : \E o \in f.fields[k].state : o.primary \/ o.firstUid)
                       => \E k \in DOMAIN f.fields : IsExclusive(f.fields[k])
           alone == c.decl.primaryFields # <<>> /\ c.decl.exclusiveField = 0
<1>4. WellFormed(a) => (alone <=> ~owned)
  BY <1>1, <1>3
<1>5. AtomAllowed(f) <=> /\ f.isMessage /\ ~(Restricted(f) /\ Pulled(f))
                         /\ WellFormed(a) /\ owned /\ ~f.restriction
  BY PulledAsDeclared DEF AtomAllowed, a
<1>6. alone <=> PrimaryWithoutExclusive(collate_atom(AtomOf(f)).decl)
  BY DEF PrimaryWithoutExclusive, a, c
<1>7. ErrorsOf(f) = IF ~InModule(message, f) THEN 0
                    ELSE IF ~f.isMessage \/ (Restricted(f) /\ Pulled(f)) THEN 1
                    ELSE c.errorCount + (IF alone THEN 1 ELSE Count(f.restriction))
  BY DEF ErrorsOf, PrimaryWithoutExclusive, a, c
<1> HIDE DEF owned, alone
<1>8. Count(f.restriction) \in Nat /\ (Count(f.restriction) = 0 <=> ~f.restriction)
  BY <1>2 DEF Count
<1>9. ErrorsOf(f) = 0 <=> (InModule(message, f) => AtomAllowed(f))
  <2>1. CASE ~InModule(message, f)
    BY <1>7, <2>1
  <2>2. CASE InModule(message, f) /\ (~f.isMessage \/ (Restricted(f) /\ Pulled(f)))
    BY <1>5, <1>7, <2>2
  <2>3. CASE InModule(message, f) /\ f.isMessage /\ ~(Restricted(f) /\ Pulled(f))
    <3>1. CASE alone
      BY <1>3, <1>4, <1>5, <1>7, <2>3, <3>1
    <3>2. CASE ~alone
      BY <1>3, <1>4, <1>5, <1>7, <1>8, <2>3, <3>2
    <3> QED BY <3>1, <3>2
  <2> QED BY <2>1, <2>2, <2>3
<1> QED BY <1>4, <1>5, <1>6, <1>9

\* What is kept of an atom that is allowed is what it declares.
LEMMA AllowedAtom ==
  ASSUME NEW f \in AtomFields, AtomAllowed(f)
  PROVE  /\ SignatureOf(f) = DeclaredSignature(AtomOf(f))
         /\ DOMAIN SignatureOf(f) = 1 .. Len(f.fields)
         /\ Len(SignatureOf(f)) = Len(f.fields)
         /\ DeclOf(f).decl.annotations = DeclaredAtomAnnotations(f)
         /\ DeclOf(f).decl.fields = [k \in 1 .. Len(f.fields) |-> java_type(f.fields[k], f.isUintAllowed)]
         /\ Len(DeclOf(f).decl.fields) = Len(f.fields)
         /\ \A b \in DeclaredAtomAnnotations(f) : b[1] \in {ATOM_ID_FIELD_NUMBER} \cup 1 .. Len(f.fields)
<1> DEFINE a == AtomOf(f)
           c == collate_atom(a)
<1>1. /\ a \in AtomProtos /\ a.fields = f.fields /\ a.isUintAllowed = f.isUintAllowed
      /\ WellFormed(a)
  BY AtomOfProto DEF AtomOf, AtomAllowed
<1>2. /\ a.fields \in Seq(FieldProtos) /\ Len(a.fields) \in Nat /\ DOMAIN a.fields = 1 .. Len(a.fields)
      /\ \A k \in 1 .. Len(a.fields) : a.fields[k] \in FieldProtos
  BY <1>1, AtomFacts
<1>3. SignatureOf(f) = c.signature
  BY DEF SignatureOf
<1>4. /\ DeclOf(f).decl = [c.decl EXCEPT !.annotations = AtomIdAnnotations(f) \cup @]
  BY DEF DeclOf
<1>5. DeclaredAtomAnnotations(f) = AtomIdAnnotations(f) \cup DeclaredAnnotations(a)
  BY DEF DeclaredAtomAnnotations
<1>6. DOMAIN f.fields = DOMAIN a.fields
  BY <1>1
<1> HIDE DEF a
<1>7. /\ DOMAIN c.signature = 1 .. Len(a.fields) /\ c.signature \in Seq(JavaTypes)
      /\ IsDecl(c.decl)
      /\ c.decl.fields = [k \in 1 .. Len(a.fields) |-> java_type(a.fields[k], a.isUintAllowed)]
      /\ c.signature = DeclaredSignature(a)
      /\ c.decl.annotations = DeclaredAnnotations(a)
  BY <1>1, CollateAtomReturns
<1> HIDE DEF c
<1>8. /\ DeclOf(f).decl.annotations = AtomIdAnnotations(f) \cup c.decl.annotations
      /\ DeclOf(f).decl.fields = c.decl.fields
  BY <1>4, <1>7 DEF IsDecl
<1>9. Len(c.signature) = Len(a.fields)
  BY <1>2, <1>7
<1>10. Len(c.decl.fields) = Len(a.fields)
  <2> DEFINE g == [k \in 1 .. Len(a.fields) |-> java_type(a.fields[k], a.isUintAllowed)]
  <2>1. g \in Seq(JavaTypes)
    <3>1. \A k \in 1 .. Len(a.fields) : java_type(a.fields[k], a.isUintAllowed) \in JavaTypes
      BY <1>1, <1>2, AtomFacts, JavaTypeInTypes
    <3> QED BY <1>2, <3>1
  <2>2. DOMAIN g = 1 .. Len(a.fields)
    OBVIOUS
  <2> HIDE DEF g
  <2>3. Len(g) = Len(a.fields)
    BY <1>2, <2>1, <2>2
  <2> QED BY <1>7, <2>3 DEF g
<1>11. ASSUME NEW b \in DeclaredAtomAnnotations(f)
       PROVE  b[1] \in {ATOM_ID_FIELD_NUMBER} \cup 1 .. Len(f.fields)
  <2>1. CASE b \in AtomIdAnnotations(f)
    <3>1. \/ b = <<ATOM_ID_FIELD_NUMBER, "TRUNCATE_TIMESTAMP", TRUE>>
          \/ \E v \in f.category : b = <<ATOM_ID_FIELD_NUMBER, "RESTRICTION_CATEGORY", v>>
      BY <2>1 DEF AtomIdAnnotations, When
    <3>2. CASE b = <<ATOM_ID_FIELD_NUMBER, "TRUNCATE_TIMESTAMP", TRUE>>
      BY <3>2
    <3>3. ASSUME NEW v \in f.category, b = <<ATOM_ID_FIELD_NUMBER, "RESTRICTION_CATEGORY", v>>
          PROVE  b[1] = ATOM_ID_FIELD_NUMBER
      BY <3>3
    <3> QED BY <3>1, <3>2, <3>3
  <2>2. CASE b \in DeclaredAnnotations(a)
    <3>1. PICK k \in DOMAIN a.fields : b \in DeclaredFieldAnnotations(a.fields[k])
      BY <2>2 DEF DeclaredAnnotations
    <3>2. b[1] = a.fields[k].number
      BY <1>2, <3>1, DeclaredAnnotationField
    <3>3. a.fields[k].number = k
      BY <1>1, <3>1 DEF WellFormed, NumberAllowed
    <3> QED BY <1>1, <1>2, <3>1, <3>2, <3>3
  <2> QED BY <1>5, <2>1, <2>2
<1> QED BY <1>1, <1>3, <1>5, <1>7, <1>8, <1>9, <1>10, <1>11 DEF a

\* When no error has been counted every field taken is skipped or allowed, and
\* at the end every field has been taken.
LEMMA ErrorFree ==
  ASSUME Inv
  PROVE  /\ errorCount = 0 => \A f \in Taken : InModule(message, f) => AtomAllowed(f)
         /\ (\A f \in Taken : InModule(message, f) => AtomAllowed(f)) => errorCount = 0
         /\ errorCount = 0 => Inserted = {f \in Taken : InModule(message, f)}
         /\ ~InRegular /\ extensions = {} => Taken = Fields(message)
<1>0. /\ Position /\ Counted /\ IsFiniteSet(Taken) /\ Taken \subseteq AtomFields
  BY MessageFacts DEF Inv, Tables, Counted
<1>1. ASSUME NEW f \in Taken PROVE errorCount = ErrorsOf(f) + ErrorsIn(Taken \ {f})
                                   /\ ErrorsOf(f) \in Nat /\ ErrorsIn(Taken \ {f}) \in Nat
  <2>1. IsFiniteSet(Taken \ {f}) /\ Taken \ {f} \in SUBSET AtomFields
    BY <1>0, FS_RemoveElement
  <2> QED BY <1>0, <2>1, ErrorsInAdd, ErrorsOfField DEF Counted
<1>2. ASSUME errorCount = 0, NEW f \in Taken, InModule(message, f) PROVE AtomAllowed(f)
  <2> DEFINE e == ErrorsOf(f)
             r == ErrorsIn(Taken \ {f})
  <2>1. errorCount = e + r /\ e \in Nat /\ r \in Nat
    BY <1>1
  <2> HIDE DEF e, r
  <2>2. e = 0
    BY <1>2, <2>1
  <2> QED BY <1>0, <1>2, <2>2, NoErrorIffAllowed DEF e
<1>3. ASSUME \A f \in Taken : InModule(message, f) => AtomAllowed(f)
      PROVE  errorCount = 0
  <2> DEFINE g == [f \in AtomFields |-> ErrorsOf(f)]
  <2>1. \A f \in Taken : g[f] = 0
    BY <1>0, <1>3, NoErrorIffAllowed
  <2> HIDE DEF g
  <2>2. SetSum(g, Taken) = 0
    BY <1>0, <2>1, SetSumZero
  <2> QED BY <1>0, <2>2 DEF Counted, ErrorsIn, g
<1>4. ASSUME errorCount = 0 PROVE Inserted = {f \in Taken : InModule(message, f)}
  BY <1>0, <1>2, <1>4, NoErrorIffAllowed, PulledAsDeclared DEF Inserted, AtomAllowed
<1>5. ASSUME ~InRegular, extensions = {} PROVE Taken = Fields(message)
  <2>1. 1 .. i - 1 = DOMAIN message.regular
    BY <1>0, <1>5, MessageFacts DEF Position, InRegular
  <2> QED BY <1>5, <2>1 DEF Taken, Fields
<1> QED BY <1>2, <1>3, <1>4, <1>5

\* The entries of an atom are under its signature, and under no other.
LEMMA EntryInTable ==
  ASSUME NEW F, NEW f \in F, \A g \in F : g.number = f.number => g = f,
         NEW s \in DOMAIN TableOf(F), NEW p
  PROVE  <<p, f.number>> \in TableOf(F)[s]
           <=> s = SignatureOf(f) /\ p \in {b[1] : b \in DeclOf(f).decl.annotations}
<1>1. TableOf(F)[s] = UNION {EntriesOf(g) : g \in {h \in F : SignatureOf(h) = s}}
  BY DEF TableOf
<1>2. ASSUME <<p, f.number>> \in TableOf(F)[s]
      PROVE  s = SignatureOf(f) /\ p \in {b[1] : b \in DeclOf(f).decl.annotations}
  <2>1. PICK g \in F : SignatureOf(g) = s /\ <<p, f.number>> \in EntriesOf(g)
    BY <1>1, <1>2
  <2>2. PICK b \in DeclOf(g).decl.annotations : <<p, f.number>> = <<b[1], g.number>>
    BY <2>1 DEF EntriesOf
  <2>3. p = b[1] /\ f.number = g.number
    BY <2>2
  <2> QED BY <2>1, <2>2, <2>3
<1>3. ASSUME s = SignatureOf(f), p \in {b[1] : b \in DeclOf(f).decl.annotations}
      PROVE  <<p, f.number>> \in TableOf(F)[s]
  BY <1>1, <1>3 DEF EntriesOf
<1> QED BY <1>2, <1>3

\* The writers find the annotations of an atom at the positions of its
\* arguments, for every message that is collated without errors.
THEOREM PositionsCorrect == Spec => []AnnotationsFoundByPosition
<1>1. Inv => AnnotationsFoundByPosition
  <2> SUFFICES ASSUME Inv, Accepted, NEW n \in DOMAIN decls
               PROVE  LET table == IF decls[n].atomType = "pulled" THEN pulledAtomsSignatureInfoMap
                                   ELSE signatureInfoMap
                          d == decls[n].decl
                          found(s) == {p \in {ATOM_ID_FIELD_NUMBER} \cup DOMAIN s : <<p, n>> \in table[s]}
                      IN {a[1] : a \in d.annotations} = UNION {found(s) : s \in DOMAIN table}
                         /\ \A s \in DOMAIN table : found(s) # {} => Len(s) = Len(d.fields)
    BY DEF AnnotationsFoundByPosition
  <2> DEFINE table == IF decls[n].atomType = "pulled" THEN pulledAtomsSignatureInfoMap
                      ELSE signatureInfoMap
             d == decls[n].decl
             found(s) == {p \in {ATOM_ID_FIELD_NUMBER} \cup DOMAIN s : <<p, n>> \in table[s]}
  <2>1. Position /\ OrderIndependent
    BY DEF Inv, Tables
  <2>2. PICK f \in Inserted : f.number = n /\ decls[n] = DeclOf(f)
    BY <2>1 DEF OrderIndependent
  <2> DEFINE F == {g \in Inserted : Pulled(g) <=> Pulled(f)}
             sig == SignatureOf(f)
             positions == {a[1] : a \in d.annotations}
  <2>3. f \in F /\ \A g \in F : g.number = f.number => g = f
    BY <2>1, MessageFacts
  <2>4. table = TableOf(F)
    <3>1. CASE Pulled(f)
      <4>1. F = {g \in Inserted : Pulled(g)}
        BY <3>1
      <4> QED BY <2>1, <2>2, <3>1, <4>1 DEF OrderIndependent, DeclOf
    <3>2. CASE ~Pulled(f)
      <4>1. F = {g \in Inserted : ~Pulled(g)}
        BY <3>2
      <4>2. decls[n].atomType = "pushed"
        BY <2>2, <3>2 DEF DeclOf
      <4>3. table = signatureInfoMap
        BY <4>2
      <4> HIDE DEF table, F
      <4> QED BY <2>1, <4>1, <4>3 DEF OrderIndependent
    <3> QED BY <3>1, <3>2
  <2>5. f \in AtomFields /\ AtomAllowed(f)
    <3>1. errorCount = 0
      BY DEF Accepted
    <3>2. Inserted = {g \in Taken : InModule(message, g)}
      BY <3>1, ErrorFree
    <3> QED BY <2>1, <3>1, <3>2, ErrorFree, MessageFacts
  <2>6. sig \in DOMAIN table
    BY <2>3, <2>4 DEF TableOf
  <2>7. \A s \in DOMAIN table : \A p : <<p, n>> \in table[s] <=> s = sig /\ p \in positions
    <3> HIDE DEF F
    <3> SUFFICES ASSUME NEW s \in DOMAIN TableOf(F), NEW p
                 PROVE  <<p, f.number>> \in TableOf(F)[s] <=> s = sig /\ p \in positions
      BY <2>2, <2>4
    <3> QED BY <2>2, <2>3, EntryInTable
  <2>8. positions \subseteq {ATOM_ID_FIELD_NUMBER} \cup DOMAIN sig /\ Len(sig) = Len(d.fields)
    <3>1. /\ d.annotations = DeclaredAtomAnnotations(f)
          /\ \A b \in DeclaredAtomAnnotations(f) : b[1] \in {ATOM_ID_FIELD_NUMBER} \cup 1 .. Len(f.fields)
          /\ DOMAIN sig = 1 .. Len(f.fields)
          /\ Len(sig) = Len(f.fields) /\ Len(d.fields) = Len(f.fields)
      BY <2>2, <2>5, AllowedAtom
    <3> QED BY <3>1
  <2> HIDE DEF table, d, positions, F, sig
  <2>9. \A s \in DOMAIN table : found(s) = IF s = sig THEN positions ELSE {}
    BY <2>7, <2>8
  <2> HIDE DEF found
  <2>10. positions = UNION {found(s) : s \in DOMAIN table}
    BY <2>6, <2>9
  <2>11. \A s \in DOMAIN table : found(s) # {} => Len(s) = Len(d.fields)
    BY <2>8, <2>9
  <2> QED BY <2>10, <2>11 DEF table, d, found, positions
<1> QED BY InvCorrect, <1>1, PTL

-----------------------------------------------------------------------------
(* The contract. *)

\* The table of allowed atoms is the one they declare.
LEMMA TableDeclared ==
  ASSUME NEW F \in SUBSET AtomFields, \A f \in F : AtomAllowed(f),
         \A f, g \in F : f.number = g.number => f = g
  PROVE  TableOf(F) = DeclaredTable(F)
<1> DEFINE entries(f) == {<<a[1], f.number>> : a \in DeclaredAtomAnnotations(f)}
           sig(f) == DeclaredSignature(AtomOf(f))
           sigs == {sig(f) : f \in F}
           of(s) == UNION {EntriesOf(f) : f \in {g \in F : SignatureOf(g) = s}}
           declared(s) == {e \in UNION {entries(f) : f \in F} : \E f \in F : f.number = e[2] /\ sig(f) = s}
<1>1. ASSUME NEW f \in F PROVE SignatureOf(f) = sig(f) /\ EntriesOf(f) = entries(f)
  <2>1. SignatureOf(f) = sig(f) /\ DeclOf(f).decl.annotations = DeclaredAtomAnnotations(f)
    BY AllowedAtom
  <2> QED BY <2>1 DEF EntriesOf
<1>2. \A f \in F : \A e \in entries(f) : e[2] = f.number
  OBVIOUS
<1>3. TableOf(F) = [s \in {SignatureOf(f) : f \in F} |-> of(s)]
  BY DEF TableOf
<1>4. DeclaredTable(F) = [s \in sigs |-> declared(s)]
  BY DEF DeclaredTable
<1>5. {SignatureOf(f) : f \in F} = sigs
  BY <1>1
<1> HIDE DEF entries, sig
<1>6. ASSUME NEW s \in sigs PROVE of(s) = declared(s)
  <2>1. ASSUME NEW e \in of(s) PROVE e \in declared(s)
    <3>1. PICK f \in F : SignatureOf(f) = s /\ e \in EntriesOf(f)
      BY <2>1
    <3>2. sig(f) = s /\ e \in entries(f) /\ f.number = e[2]
      BY <1>1, <1>2, <3>1
    <3> QED BY <3>2
  <2>2. ASSUME NEW e \in declared(s) PROVE e \in of(s)
    <3>1. PICK g \in F : e \in entries(g)
      BY <2>2
    <3>2. PICK f \in F : f.number = e[2] /\ sig(f) = s
      BY <2>2
    <3>3. g = f
      BY <1>2, <3>1, <3>2
    <3>4. SignatureOf(f) = s /\ e \in EntriesOf(f)
      BY <1>1, <3>1, <3>2, <3>3
    <3> QED BY <3>4
  <2> QED BY <2>1, <2>2
<1> HIDE DEF sigs, of, declared
<1> QED BY <1>3, <1>4, <1>5, <1>6

\* The tables the code is generated from.
ReturnedAtoms ==
    [pushed |-> signatureInfoMap, pulled |-> pulledAtomsSignatureInfoMap,
     annotations |-> {<<n, decls[n].decl.annotations>> : n \in DOMAIN decls}]

\* A collation that has returned accepts the messages that are allowed, and
\* then holds what they declare.
Verdict ==
  returned => /\ Accepted <=> MessageAllowed(message)
              /\ Accepted => ReturnedAtoms = DeclaredAtoms(message)

LEMMA ReturnedVerdict == Inv => Verdict
<1> SUFFICES ASSUME Inv, returned
             PROVE  /\ Accepted <=> MessageAllowed(message)
                    /\ Accepted => ReturnedAtoms = DeclaredAtoms(message)
  BY DEF Verdict
<1>1. Position /\ OrderIndependent /\ Finished
  BY DEF Inv, Tables
<1>2. Taken = Fields(message)
  BY <1>1, ErrorFree DEF Finished
<1>3. Accepted <=> MessageAllowed(message)
  BY <1>2, ErrorFree DEF Accepted, MessageAllowed
<1>4. ASSUME Accepted PROVE ReturnedAtoms = DeclaredAtoms(message)
  <2> DEFINE selected == {f \in Fields(message) : InModule(message, f)}
             pushed == {f \in selected : ~Pulled(f)}
             pulled == {f \in selected : Pulled(f)}
  <2>1. Inserted = selected
    BY <1>2, <1>4, ErrorFree DEF Accepted
  <2>2. /\ selected \subseteq AtomFields
        /\ \A f \in selected : AtomAllowed(f)
        /\ \A f, g \in selected : f.number = g.number => f = g
    BY <1>1, <1>3, <1>4, MessageFacts DEF MessageAllowed
  <2>3. /\ signatureInfoMap = TableOf(pushed) /\ pulledAtomsSignatureInfoMap = TableOf(pulled)
        /\ DOMAIN decls = {f.number : f \in selected}
        /\ \A f \in selected : decls[f.number] = DeclOf(f)
    BY <1>1, <2>1 DEF OrderIndependent
  <2>4. DeclaredAtoms(message) =
          [pushed |-> DeclaredTable(pushed), pulled |-> DeclaredTable(pulled),
           annotations |-> {<<f.number, DeclaredAtomAnnotations(f)>> : f \in selected}]
    <3>1. /\ pushed = {f \in selected : ~DeclaredPulled(f)}
          /\ pulled = {f \in selected : DeclaredPulled(f)}
      BY <2>2, PulledAsDeclared
    <3> QED BY <3>1 DEF DeclaredAtoms
  <2> HIDE DEF selected
  <2>5. TableOf(pushed) = DeclaredTable(pushed)
    <3>1. /\ pushed \in SUBSET AtomFields /\ \A f \in pushed : AtomAllowed(f)
          /\ \A f, g \in pushed : f.number = g.number => f = g
      BY <2>2
    <3> HIDE DEF pushed
    <3> QED BY <3>1, TableDeclared
  <2>6. TableOf(pulled) = DeclaredTable(pulled)
    <3>1. /\ pulled \in SUBSET AtomFields /\ \A f \in pulled : AtomAllowed(f)
          /\ \A f, g \in pulled : f.number = g.number => f = g
      BY <2>2
    <3> HIDE DEF pulled
    <3> QED BY <3>1, TableDeclared
  <2>7. {<<n, decls[n].decl.annotations>> : n \in DOMAIN decls}
          = {<<f.number, DeclaredAtomAnnotations(f)>> : f \in selected}
    <3>1. \A f \in selected : decls[f.number].decl.annotations = DeclaredAtomAnnotations(f)
      BY <2>2, <2>3, AllowedAtom
    <3> QED BY <2>3, <3>1
  <2> HIDE DEF pushed, pulled
  <2> QED BY <2>3, <2>4, <2>5, <2>6, <2>7 DEF ReturnedAtoms
<1> QED BY <1>3, <1>4

\* collate_atoms implements its contract: the verdict is the one the message
\* deserves, and the tables of an accepted message are those it declares.
THEOREM CollationContractImplemented == Spec => Contract!Safety
<1>1. Init => Contract!Init
  <2> SUFFICES ASSUME Init PROVE Contract!Init
    OBVIOUS
  <2>1. ~returned /\ ~Accepted
    BY DEF Init, Accepted
  <2>2. message \in AtomMessages
    BY MessagesAssumption DEF Init
  <2> QED BY <2>1, <2>2 DEF Contract!Init
<1>2. Inv /\ Verdict' /\ [Next]_vars => [Contract!Next]_(Contract!vars)
  <2> SUFFICES ASSUME Inv, Verdict', [Next]_vars PROVE [Contract!Next]_(Contract!vars)
    OBVIOUS
  <2>1. CASE Return /\ ~returned
    <3>1. ~returned /\ ~Accepted /\ returned' /\ message' = message
      BY <2>1 DEF Return, Accepted
    <3>2. /\ Accepted' <=> MessageAllowed(message)
          /\ Accepted' => ReturnedAtoms' = DeclaredAtoms(message)
      BY <3>1 DEF Verdict
    <3>3. CASE MessageAllowed(message)
      BY <3>1, <3>2, <3>3 DEF Contract!Next, Contract!Accept, ReturnedAtoms
    <3>4. CASE ~MessageAllowed(message)
      BY <3>1, <3>2, <3>4 DEF Contract!Next, Contract!Reject
    <3> QED BY <3>3, <3>4
  <2>2. CASE UNCHANGED vars \/ (Return /\ returned)
    <3>1. /\ message' = message /\ returned' = returned /\ errorCount' = errorCount
          /\ signatureInfoMap' = signatureInfoMap /\ decls' = decls
          /\ pulledAtomsSignatureInfoMap' = pulledAtomsSignatureInfoMap
      BY <2>2 DEF vars, atoms, Return, Inv, Finished
    <3>2. Accepted' <=> Accepted
      BY <3>1 DEF Accepted
    <3> QED BY <3>1, <3>2 DEF Contract!vars
  <2>3. ASSUME NEW f \in NextFields, Pass(f) PROVE UNCHANGED Contract!vars
    <3>1. ~returned /\ ~returned' /\ message' = message
      BY <2>3 DEF Pass, Inv, Finished, NextFields
    <3> QED BY <3>1 DEF Accepted, Contract!vars
  <2>4. CASE \E f \in NextFields : Pass(f)
    BY <2>3, <2>4
  <2> QED BY <2>1, <2>2, <2>4 DEF Next, SkipOtherModule, RejectNonMessage, RejectRestrictedPulled,
                                 RejectUnownedPrimary, CollateAtomField
<1> QED BY InvCorrect, ReturnedVerdict, <1>1, <1>2, PTL DEF Spec, Contract!Safety

-----------------------------------------------------------------------------
(* The non-chained variants of well formed atoms. *)

\* The two fields of AttributionNode.
LEMMA AttributionNodeCollated ==
  /\ collate_atom(AttributionNode).signature = <<"INT", "STRING">>
  /\ collate_atom(AttributionNode).decl.fields = <<"INT", "STRING">>
<1> DEFINE a == AttributionNode
           c == collate_atom(a)
           node(n, t) == [number |-> n, type |-> t, repeated |-> FALSE, bytes |-> FALSE,
                          state |-> {}, restriction |-> {}, category |-> FALSE, isUid |-> FALSE]
<1>1. /\ a.fields = <<node(1, "int32"), node(2, "string")>>
      /\ a.restricted = FALSE /\ a.isUintAllowed = FALSE
      /\ a = [fields |-> a.fields, restricted |-> FALSE, isUintAllowed |-> FALSE]
  BY DEF AttributionNode
<1>2. node(1, "int32") \in FieldProtos /\ node(2, "string") \in FieldProtos
  BY DEF FieldProtos, ProtoTypes, ScalarProtoTypes, Optional
<1>3. /\ Len(a.fields) = 2 /\ DOMAIN a.fields = 1 .. 2
      /\ a.fields[1] = node(1, "int32") /\ a.fields[2] = node(2, "string")
      /\ a.fields \in Seq(FieldProtos)
  BY <1>1, <1>2
<1>4. a \in AtomProtos
  <2>1. ByNumber(a.fields)
    BY <1>3 DEF ByNumber
  <2> QED BY <1>1, <1>3, <2>1 DEF AtomProtos
<1>5. /\ java_type(a.fields[1], a.isUintAllowed) = "INT"
      /\ java_type(a.fields[2], a.isUintAllowed) = "STRING"
  BY <1>1, <1>2, <1>3, JavaTypeTable DEF ScalarProtoTypes, ScalarJavaType
<1>6. ArgumentType(a.fields[1]) = "INT" /\ ArgumentType(a.fields[2]) = "STRING"
  BY <1>3 DEF ArgumentType, UnsignedProtoTypes, ScalarJavaType
<1>7. WellFormed(a)
  <2> SUFFICES ASSUME NEW k \in 1 .. 2
               PROVE  /\ NumberAllowed(a, k) /\ TypeAllowed(a, a.fields[k])
                      /\ PositionAllowed(a, k) /\ AnnotationsAllowed(a, k)
    BY <1>3 DEF WellFormed
  <2> DEFINE f == a.fields[k]
  <2>1. /\ f.number = k /\ f.type \in {"int32", "string"} /\ f.repeated = FALSE /\ f.bytes = FALSE
        /\ f.state = {} /\ f.restriction = {} /\ f.category = FALSE /\ f.isUid = FALSE
    BY <1>3
  <2> HIDE DEF f
  <2>2. NumberAllowed(a, k)
    BY <2>1 DEF NumberAllowed, f
  <2>3. TypeAllowed(a, f)
    BY <1>1, <2>1 DEF TypeAllowed, ScalarProtoTypes
  <2>4. PositionAllowed(a, k)
    BY <2>1 DEF PositionAllowed, f
  <2>5. StateAllowed(a, k)
    BY <2>1 DEF StateAllowed, f
  <2>6. RestrictionAllowed(a, f) /\ UidAllowed(a, f)
    BY <2>1 DEF RestrictionAllowed, UidAllowed
  <2> QED BY <2>2, <2>3, <2>4, <2>5, <2>6 DEF AnnotationsAllowed, f
<1> HIDE DEF a, node
<1>8. /\ c.signature = DeclaredSignature(a)
      /\ c.decl.fields = [k \in 1 .. Len(a.fields) |-> java_type(a.fields[k], a.isUintAllowed)]
  BY <1>4, <1>7, CollateAtomReturns
<1>9. c.signature = [k \in 1 .. 2 |-> ArgumentType(a.fields[k])]
  BY <1>3, <1>8 DEF DeclaredSignature
<1>10. c.signature = <<"INT", "STRING">>
  BY <1>6, <1>9
<1>11. c.decl.fields = [k \in 1 .. 2 |-> java_type(a.fields[k], a.isUintAllowed)]
  BY <1>3, <1>8
<1>12. c.decl.fields = <<"INT", "STRING">>
  BY <1>5, <1>11
<1> QED BY <1>10, <1>12 DEF a

\* The flattened types when the chain is the first argument.
FlattenedTypes(fields, n, x, y, typeOf) ==
    [j \in 1 .. n + 1 |-> IF j = 1 THEN x ELSE IF j = 2 THEN y ELSE typeOf[FlatType(fields[j - 1])]]

LEMMA ChainFlattened ==
  ASSUME NEW n \in Nat \ {0}, NEW fields, DOMAIN fields = 1 .. n,
         FlatType(fields[1]) = "ATTRIBUTION_CHAIN",
         \A k \in 2 .. n : FlatType(fields[k]) # "ATTRIBUTION_CHAIN",
         NEW x \in JavaTypes, NEW y \in JavaTypes, NEW typeOf,
         \A k \in 2 .. n : typeOf[FlatType(fields[k])] \in JavaTypes
  PROVE  Flatten(fields, <<x, y>>, typeOf) = FlattenedTypes(fields, n, x, y, typeOf)
<1> DEFINE parts == [k \in DOMAIN fields |->
                        IF FlatType(fields[k]) = "ATTRIBUTION_CHAIN" THEN <<x, y>>
                        ELSE <<typeOf[FlatType(fields[k])]>>]
           g == [j \in 1 .. n + 1 |-> IF j = 1 THEN x ELSE IF j = 2 THEN y
                                      ELSE typeOf[FlatType(fields[j - 1])]]
           upTo(k) == [j \in 1 .. k |-> g[j]]
<1>1. Flatten(fields, <<x, y>>, typeOf) = FlattenSeq(parts)
  BY DEF Flatten
<1>2. /\ DOMAIN parts = 1 .. n
      /\ parts[1] = <<x, y>>
      /\ \A k \in 2 .. n : parts[k] = <<typeOf[FlatType(fields[k])]>>
  <2>1. \A k \in 2 .. n : k \in 1 .. n
    OBVIOUS
  <2>2. 1 \in 1 .. n
    OBVIOUS
  <2> QED BY <2>1, <2>2
<1>3. Len(parts) = n
  <2>1. \A k \in 1 .. n : k = 1 \/ k \in 2 .. n
    OBVIOUS
  <2>2. \A k \in 1 .. n : parts[k] \in Seq(JavaTypes)
    BY <1>2, <2>1
  <2>3. parts = [k \in 1 .. n |-> parts[k]]
    OBVIOUS
  <2> HIDE DEF parts
  <2>4. parts \in Seq(Seq(JavaTypes))
    BY <2>2, <2>3
  <2> QED BY <1>2, <2>4
<1>4. /\ g[1] = x /\ g[2] = y
      /\ \A k \in 2 .. n : g[k + 1] = typeOf[FlatType(fields[k])]
      /\ \A j \in 1 .. n + 1 : g[j] \in JavaTypes
  <2>1. g[1] = x /\ g[2] = y
    OBVIOUS
  <2>2. ASSUME NEW k \in 2 .. n PROVE g[k + 1] = typeOf[FlatType(fields[k])]
    <3>1. k + 1 \in 1 .. n + 1 /\ k + 1 # 1 /\ k + 1 # 2 /\ (k + 1) - 1 = k
      OBVIOUS
    <3> QED BY <3>1
  <2>3. ASSUME NEW j \in 1 .. n + 1 PROVE g[j] \in JavaTypes
    <3>1. CASE j \in {1, 2}
      BY <2>1, <3>1
    <3>2. CASE j \notin {1, 2}
      <4>1. j - 1 \in 2 .. n /\ (j - 1) + 1 = j
        BY <3>2
      <4> QED BY <2>2, <4>1
    <3> QED BY <3>1, <3>2
  <2> QED BY <2>1, <2>2, <2>3
<1> HIDE DEF parts
<1> HIDE DEF g, upTo
<1>5. PICK fl : Flattens(fl, parts, n)
  BY <1>3, FlattenSeqUnfolded
<1> USE DEF upTo
<1> DEFINE N == {m \in Nat : m + 1 \in 1 .. n => fl[m + 1] = upTo(m + 2)}
<1>6. 0 \in N
  <2>1. fl[1] = <<x, y>>
    BY <1>2, <1>5 DEF Flattens
  <2>2. upTo(2) = <<x, y>>
    BY <1>4
  <2> QED BY <2>1, <2>2
<1>7. ASSUME NEW m \in Nat, m \in N PROVE m + 1 \in N
  <2> SUFFICES ASSUME (m + 1) + 1 \in 1 .. n PROVE fl[(m + 1) + 1] = upTo((m + 1) + 2)
    OBVIOUS
  <2>1. m + 1 \in 1 .. n /\ m + 2 \in 2 .. n /\ (m + 2) - 1 = m + 1 /\ (m + 1) + 1 = m + 2
        /\ (m + 1) + 2 = m + 3 /\ m + 3 \in 1 .. n + 1 /\ (m + 2) + 1 = m + 3
    OBVIOUS
  <2>2. fl[m + 1] = upTo(m + 2)
    BY <1>7, <2>1
  <2>3. parts[m + 2] = <<g[m + 3]>>
    BY <1>2, <1>4, <2>1
  <2>4. fl[m + 2] = upTo(m + 2) \o <<g[m + 3]>>
    <3>1. fl[m + 2] = fl[(m + 2) - 1] \o parts[m + 2]
      BY <1>5, <2>1 DEF Flattens
    <3> HIDE DEF upTo
    <3> QED BY <2>1, <2>2, <2>3, <3>1
  <2>5. upTo(m + 2) \in Seq(JavaTypes) /\ Len(upTo(m + 2)) = m + 2 /\ g[m + 3] \in JavaTypes
    <3>1. \A j \in 1 .. m + 2 : g[j] \in JavaTypes
      BY <1>4, <2>1
    <3> QED BY <1>4, <2>1, <3>1
  <2>6. upTo(m + 2) \o <<g[m + 3]>> = upTo(m + 3)
    <3> DEFINE s == upTo(m + 2)
    <3>1. s \o <<g[m + 3]>> = [j \in 1 .. (m + 2) + 1 |-> IF j <= m + 2 THEN s[j] ELSE g[m + 3]]
      <4> HIDE DEF s
      <4> QED BY <2>1, <2>5, ConcatOne DEF s
    <3>2. \A j \in 1 .. m + 3 : (IF j <= m + 2 THEN s[j] ELSE g[m + 3]) = g[j]
      BY <2>1
    <3>3. (m + 2) + 1 = m + 3
      OBVIOUS
    <3> HIDE DEF s
    <3> QED BY <3>1, <3>2, <3>3 DEF s
  <2> QED BY <2>1, <2>4, <2>6
<1> HIDE DEF N
<1>8. \A m \in Nat : m \in N
  BY <1>6, <1>7, NatInductionOnSets
<1>9. n - 1 \in N /\ (n - 1) + 1 = n /\ (n - 1) + 2 = n + 1
  BY <1>8
<1>10. fl[n] = upTo(n + 1)
  BY <1>9 DEF N
<1>11. upTo(n + 1) = g
  BY DEF g
<1> QED BY <1>1, <1>5, <1>10, <1>11 DEF g, Flattens, FlattenedTypes

\* In a well formed atom only the first field may be a chain, and what is
\* flattened of the others says how they are passed on.
LEMMA WellFormedChain ==
  ASSUME NEW a \in AtomProtos, WellFormed(a), NEW k \in 1 .. Len(a.fields)
  PROVE  /\ FlatType(a.fields[k]) \in JavaTypes
         /\ FlatType(a.fields[k]) = "ATTRIBUTION_CHAIN" <=> a.fields[k].type = "AttributionNode"
         /\ FlatType(a.fields[k]) = "ATTRIBUTION_CHAIN" => k = 1
         /\ SignatureType(FlatType(a.fields[k]), FALSE) = ArgumentType(a.fields[k])
<1> DEFINE f == a.fields[k]
           jt == java_type(f, a.isUintAllowed)
<1>1. f \in FieldProtos /\ k \in DOMAIN a.fields /\ a.isUintAllowed \in BOOLEAN
  BY AtomFacts
<1>2. f.number = k /\ TypeAllowed(a, f) /\ (f.type = "AttributionNode" => f.number = 1)
  BY <1>1 DEF WellFormed, NumberAllowed, PositionAllowed
<1> HIDE DEF f
<1>3. FlatType(f) = "ATTRIBUTION_CHAIN" <=> f.type = "AttributionNode"
  BY <1>1, ChainType DEF FlatType
<1>4. FlatType(f) \in JavaTypes
  BY <1>1, JavaTypeInTypes DEF FlatType
<1>5. jt = FlatType(f)
  <2>1. f.type \in UnsignedProtoTypes => a.isUintAllowed
    BY <1>2 DEF TypeAllowed, UnsignedProtoTypes, ScalarProtoTypes
  <2>2. f.type \in ProtoTypes
    BY <1>1 DEF FieldProtos
  <2> QED BY <1>1, <2>1, <2>2, JavaTypeTable DEF FlatType, ProtoTypes
<1>6. SignatureType(jt, f.bytes) = ArgumentType(f)
  BY <1>1, <1>2, AllowedJavaType
<1>7. jt # "OBJECT"
  <2>1. TypeError(a, f) = 0
    BY <1>1, <1>2, TypeErrorIffForbidden
  <2> QED BY <2>1 DEF TypeError, Count
<1>8. SignatureType(jt, FALSE) = SignatureType(jt, f.bytes)
  <2> HIDE DEF jt
  <2> QED BY <1>7 DEF SignatureType
<1> QED BY <1>2, <1>3, <1>4, <1>5, <1>6, <1>8 DEF f

\* The signature of the non-chained variant, and the fields it is written from.
LEMMA NonChainedVariant ==
  ASSUME NEW a \in AtomProtos, WellFormed(a), HasChain(a.fields)
  PROVE  LET n == Len(a.fields)
             s == NonChainedSignature(a.fields)
             d == NonChainedFields(a.fields)
         IN /\ n \in Nat \ {0}
            /\ s \in Seq(JavaTypes) /\ Len(s) = n + 1 /\ DOMAIN s = 1 .. n + 1
            /\ d \in Seq(JavaTypes) /\ Len(d) = n + 1 /\ DOMAIN d = 1 .. n + 1
            /\ s[1] = "INT" /\ s[2] = "STRING"
            /\ \A k \in 2 .. n : s[k + 1] = NonChainedSignatureType(FlatType(a.fields[k]))
            /\ \A k \in 2 .. n : d[k + 1] = FlatType(a.fields[k])
            /\ a.fields[1].type = "AttributionNode"
            /\ \A k \in 2 .. n : FlatType(a.fields[k]) \in JavaTypes \ {"ATTRIBUTION_CHAIN"}
<1> DEFINE n == Len(a.fields)
           fields == a.fields
           s == NonChainedSignature(fields)
           d == NonChainedFields(fields)
           with(typeOf) == FlattenedTypes(fields, n, "INT", "STRING", typeOf)
<1>1. n \in Nat /\ DOMAIN fields = 1 .. n
  BY AtomFacts
<1>2. \A k \in 1 .. n : /\ FlatType(fields[k]) \in JavaTypes
                        /\ FlatType(fields[k]) = "ATTRIBUTION_CHAIN" <=> fields[k].type = "AttributionNode"
                        /\ FlatType(fields[k]) = "ATTRIBUTION_CHAIN" => k = 1
  BY WellFormedChain
<1>3. n \in Nat \ {0} /\ FlatType(fields[1]) = "ATTRIBUTION_CHAIN" /\ fields[1].type = "AttributionNode"
  <2>1. PICK k \in 1 .. n : FlatType(fields[k]) = "ATTRIBUTION_CHAIN"
    BY <1>1 DEF HasChain
  <2> QED BY <1>1, <1>2, <2>1
<1>4. \A k \in 2 .. n : FlatType(fields[k]) \in JavaTypes \ {"ATTRIBUTION_CHAIN"}
  <2>1. \A k \in 2 .. n : k \in 1 .. n /\ k # 1
    OBVIOUS
  <2> QED BY <1>2, <2>1
<1> HIDE DEF n, fields
<1>5. /\ \A k \in 2 .. n : InSignature[FlatType(fields[k])] = NonChainedSignatureType(FlatType(fields[k]))
      /\ \A k \in 2 .. n : InFields[FlatType(fields[k])] = FlatType(fields[k])
      /\ \A k \in 2 .. n : InSignature[FlatType(fields[k])] \in JavaTypes
  BY <1>4 DEF InSignature, InFields, NonChainedSignatureType, JavaTypes, PrimitiveJavaTypes
<1>6. "INT" \in JavaTypes /\ "STRING" \in JavaTypes
  BY DEF JavaTypes, PrimitiveJavaTypes
<1>6a. ASSUME NEW typeOf, \A k \in 2 .. n : typeOf[FlatType(fields[k])] \in JavaTypes
       PROVE  Flatten(fields, <<"INT", "STRING">>, typeOf) = with(typeOf)
  <2>1. \A k \in 2 .. n : FlatType(fields[k]) # "ATTRIBUTION_CHAIN"
    BY <1>4
  <2> DEFINE x == "INT"
             y == "STRING"
  <2>2. x \in JavaTypes /\ y \in JavaTypes
    BY <1>6
  <2> HIDE DEF x, y
  <2>3. Flatten(fields, <<x, y>>, typeOf)
          = FlattenedTypes(fields, n, x, y, typeOf)
    BY <1>1, <1>3, <1>6a, <2>1, <2>2, ChainFlattened
  <2> QED BY <2>3 DEF x, y
<1> HIDE DEF with
<1>7. s = with(InSignature)
  <2>1. s = Flatten(fields, <<"INT", "STRING">>, InSignature)
    BY AttributionNodeCollated DEF NonChainedSignature
  <2> QED BY <1>5, <1>6a, <2>1
<1>8. d = with(InFields)
  <2>1. d = Flatten(fields, <<"INT", "STRING">>, InFields)
    BY AttributionNodeCollated DEF NonChainedFields
  <2>2. \A k \in 2 .. n : InFields[FlatType(fields[k])] \in JavaTypes
    BY <1>4, <1>5
  <2> QED BY <1>6a, <2>1, <2>2
<1> USE DEF with
<1>9. ASSUME NEW typeOf, \A k \in 2 .. n : typeOf[FlatType(fields[k])] \in JavaTypes
      PROVE  LET w == with(typeOf)
             IN /\ w \in Seq(JavaTypes) /\ DOMAIN w = 1 .. n + 1 /\ Len(w) = n + 1 /\ w[1] = "INT" /\ w[2] = "STRING"
                /\ \A k \in 2 .. n : w[k + 1] = typeOf[FlatType(fields[k])]
  <2> DEFINE w == with(typeOf)
  <2> USE DEF FlattenedTypes
  <2>1. DOMAIN w = 1 .. n + 1 /\ w[1] = "INT" /\ w[2] = "STRING"
    BY <1>3
  <2>2. ASSUME NEW k \in 2 .. n PROVE w[k + 1] = typeOf[FlatType(fields[k])]
    <3>1. k + 1 \in 1 .. n + 1 /\ k + 1 # 1 /\ k + 1 # 2 /\ (k + 1) - 1 = k
      BY <1>3
    <3> QED BY <3>1
  <2>3. ASSUME NEW j \in 1 .. n + 1 PROVE w[j] \in JavaTypes
    <3>1. CASE j \in {1, 2}
      BY <1>3, <1>6, <2>1, <3>1
    <3>2. CASE j \notin {1, 2}
      <4>1. j - 1 \in 2 .. n /\ (j - 1) + 1 = j
        BY <1>3, <3>2
      <4> HIDE DEF w
      <4> QED BY <1>9, <2>2, <4>1
    <3> QED BY <3>1, <3>2
  <2>4. w = [j \in 1 .. n + 1 |-> w[j]]
    OBVIOUS
  <2> HIDE DEF w
  <2>5. w \in Seq(JavaTypes)
    BY <1>3, <2>3, <2>4
  <2>6. Len(w) = n + 1
    BY <1>3, <2>1, <2>5
  <2> QED BY <2>1, <2>2, <2>5, <2>6 DEF w
<1> HIDE DEF with, s, d
<1>10. /\ s \in Seq(JavaTypes) /\ DOMAIN s = 1 .. n + 1 /\ Len(s) = n + 1 /\ s[1] = "INT" /\ s[2] = "STRING"
       /\ \A k \in 2 .. n : s[k + 1] = InSignature[FlatType(fields[k])]
  BY <1>5, <1>7, <1>9
<1>11. d \in Seq(JavaTypes) /\ DOMAIN d = 1 .. n + 1 /\ Len(d) = n + 1 /\ \A k \in 2 .. n : d[k + 1] = InFields[FlatType(fields[k])]
  BY <1>4, <1>5, <1>8, <1>9
<1> QED BY <1>3, <1>4, <1>5, <1>10, <1>11 DEF s, d, n, fields

\* The signature of the chained method, from what the non-chained one is given.
LEMMA ChainedSignature ==
  ASSUME NEW a \in AtomProtos, WellFormed(a), HasChain(a.fields),
         NEW s, s = NonChainedSignature(a.fields)
  PROVE  /\ \A k \in DOMAIN s : s[k] # "ATTRIBUTION_CHAIN"
         /\ \A k \in 3 .. Len(s) : SignatureType(NonChainedFields(a.fields)[k], FALSE) = PassedOnAs(s[k])
         /\ <<"ATTRIBUTION_CHAIN">> \o [k \in 1 .. Len(s) - 2 |-> PassedOnAs(s[k + 2])]
               = DeclaredSignature(a)
<1> DEFINE n == Len(a.fields)
           d == NonChainedFields(a.fields)
<1>1. /\ n \in Nat \ {0}
      /\ Len(s) = n + 1 /\ DOMAIN s = 1 .. n + 1
      /\ s[1] = "INT" /\ s[2] = "STRING"
      /\ \A k \in 2 .. n : s[k + 1] = NonChainedSignatureType(FlatType(a.fields[k]))
      /\ \A k \in 2 .. n : d[k + 1] = FlatType(a.fields[k])
      /\ a.fields[1].type = "AttributionNode"
      /\ \A k \in 2 .. n : FlatType(a.fields[k]) \in JavaTypes \ {"ATTRIBUTION_CHAIN"}
  BY NonChainedVariant
<1>2. /\ \A k \in 1 .. n : SignatureType(FlatType(a.fields[k]), FALSE) = ArgumentType(a.fields[k])
      /\ DOMAIN a.fields = 1 .. n
  BY WellFormedChain, AtomFacts
<1> HIDE DEF n, d
<1>3. \A jt \in JavaTypes : SignatureType(jt, FALSE) = PassedOnAs(NonChainedSignatureType(jt))
  BY DEF SignatureType, PassedOnAs, NonChainedSignatureType
<1>4. ASSUME NEW k \in 2 .. n
      PROVE  /\ s[k + 1] # "ATTRIBUTION_CHAIN"
             /\ SignatureType(d[k + 1], FALSE) = PassedOnAs(s[k + 1])
             /\ PassedOnAs(s[k + 1]) = ArgumentType(a.fields[k])
  <2>1. k \in 1 .. n
    BY <1>1
  <2> QED BY <1>1, <1>2, <1>3, <2>1 DEF NonChainedSignatureType
<1>5. \A k \in 3 .. n + 1 : k - 1 \in 2 .. n /\ (k - 1) + 1 = k
  BY <1>1
<1>6. ASSUME NEW k \in DOMAIN s PROVE s[k] # "ATTRIBUTION_CHAIN"
  <2>1. k \in {1, 2} \/ k \in 3 .. n + 1
    BY <1>1
  <2> QED BY <1>1, <1>4, <1>5, <2>1
<1>7. ASSUME NEW k \in 3 .. Len(s) PROVE SignatureType(d[k], FALSE) = PassedOnAs(s[k])
  BY <1>1, <1>4, <1>5
<1>8. <<"ATTRIBUTION_CHAIN">> \o [k \in 1 .. Len(s) - 2 |-> PassedOnAs(s[k + 2])] = DeclaredSignature(a)
  <2> DEFINE t == [k \in 1 .. n - 1 |-> ArgumentType(a.fields[k + 1])]
             u == <<"ATTRIBUTION_CHAIN">> \o t
  <2>1. Len(s) - 2 = n - 1 /\ n - 1 \in Nat
    BY <1>1
  <2>2. ASSUME NEW k \in 1 .. n - 1 PROVE PassedOnAs(s[k + 2]) = ArgumentType(a.fields[k + 1])
    <3>1. k + 1 \in 2 .. n /\ (k + 1) + 1 = k + 2
      BY <1>1
    <3> QED BY <1>4, <3>1
  <2>3. [k \in 1 .. Len(s) - 2 |-> PassedOnAs(s[k + 2])] = t
    BY <2>1, <2>2
  <2> DEFINE T == {ArgumentType(a.fields[k]) : k \in 1 .. n} \cup {"ATTRIBUTION_CHAIN"}
  <2>4. t \in Seq(T) /\ Len(t) = n - 1
    <3>1. \A k \in 1 .. n - 1 : k + 1 \in 1 .. n
      BY <1>1
    <3>2. \A k \in 1 .. n - 1 : ArgumentType(a.fields[k + 1]) \in T
      BY <3>1
    <3> HIDE DEF T
    <3>3. t \in [1 .. n - 1 -> T]
      BY <3>2
    <3> QED BY <2>1, <3>3
  <2>5. "ATTRIBUTION_CHAIN" \in T
    OBVIOUS
  <2>6. \A k \in 1 .. n - 1 : t[k] = ArgumentType(a.fields[k + 1])
    OBVIOUS
  <2> HIDE DEF t, T
  <2>7. u = [k \in 1 .. n |-> IF k = 1 THEN "ATTRIBUTION_CHAIN" ELSE t[k - 1]]
    <3>1. /\ DOMAIN u = 1 .. n /\ u = [k \in DOMAIN u |-> u[k]]
      BY <1>1, <2>4, <2>5
    <3>2. ASSUME NEW k \in 1 .. n PROVE u[k] = IF k = 1 THEN "ATTRIBUTION_CHAIN" ELSE t[k - 1]
      BY <1>1, <2>4, <2>5
    <3> HIDE DEF u
    <3> QED BY <3>1, <3>2
  <2> HIDE DEF u
  <2>8. ASSUME NEW k \in 1 .. n
        PROVE  (IF k = 1 THEN "ATTRIBUTION_CHAIN" ELSE t[k - 1]) = ArgumentType(a.fields[k])
    <3>1. CASE k = 1
      BY <1>1, <3>1 DEF ArgumentType
    <3>2. CASE k # 1
      <4>1. n \in Nat /\ k \in 1 .. n /\ k # 1
        BY <1>1, <3>2
      <4>2. k - 1 \in 1 .. n - 1 /\ (k - 1) + 1 = k
        BY <4>1
      <4> QED BY <2>6, <3>2, <4>2
    <3> QED BY <3>1, <3>2
  <2>9. DeclaredSignature(a) = [k \in 1 .. n |-> ArgumentType(a.fields[k])]
    BY <1>2 DEF DeclaredSignature
  <2>10. u = [k \in 1 .. n |-> ArgumentType(a.fields[k])]
    BY <2>7, <2>8
  <2>11. u = DeclaredSignature(a)
    BY <2>9, <2>10
  <2> QED BY <2>3, <2>11 DEF u
<1> QED BY <1>6, <1>7, <1>8 DEF d

\* Every pushed non-chained method calls a chained method that is generated,
\* with the types it takes, for every message that is collated without errors.
THEOREM NonChainedCorrect == Spec => []NonChainedCallsChained
<1>1. Inv => NonChainedCallsChained
  <2> SUFFICES ASSUME Inv, Accepted,
                      NEW n \in {m \in DOMAIN non_chained_decls : decls[m].atomType = "pushed"}
               PROVE  \E s \in DOMAIN nonChainedSignatureInfoMap :
        /\ Len(s) = Len(non_chained_decls[n]) /\ Len(s) >= 2
        /\ s[1] = "INT" /\ s[2] = "STRING"
        /\ \A k \in DOMAIN s : s[k] # "ATTRIBUTION_CHAIN"
        /\ \A k \in 3 .. Len(s) : SignatureType(non_chained_decls[n][k], FALSE) = PassedOnAs(s[k])
        /\ <<"ATTRIBUTION_CHAIN">> \o [k \in 1 .. Len(s) - 2 |-> PassedOnAs(s[k + 2])]
              \in DOMAIN signatureInfoMap
    BY DEF NonChainedCallsChained
  <2>1. Position /\ OrderIndependent /\ NonChainedTables
    BY DEF Inv, Tables
  <2>2. PICK f \in Inserted : HasChain(f.fields) /\ f.number = n
    BY <2>1 DEF NonChainedTables
  <2> DEFINE s == NonChainedSignature(f.fields)
             a == AtomOf(f)
  <2>3. s \in DOMAIN nonChainedSignatureInfoMap /\ non_chained_decls[n] = NonChainedFields(f.fields)
    BY <2>1, <2>2 DEF NonChainedTables
  <2>4. ~Pulled(f)
    <3>1. decls[n] = DeclOf(f) /\ decls[n].atomType = "pushed"
      BY <2>1, <2>2 DEF OrderIndependent
    <3> QED BY <3>1 DEF DeclOf
  <2>5. f \in AtomFields /\ AtomAllowed(f)
    <3>1. errorCount = 0
      BY DEF Accepted
    <3>2. Inserted = {g \in Taken : InModule(message, g)}
      BY <3>1, ErrorFree
    <3> QED BY <2>1, <3>1, <3>2, ErrorFree, MessageFacts
  <2>6. a \in AtomProtos /\ WellFormed(a) /\ a.fields = f.fields
    BY <2>5, AtomOfProto DEF AtomAllowed, AtomOf
  <2> HIDE DEF a
  <2>7. /\ Len(f.fields) \in Nat \ {0}
        /\ Len(s) = Len(f.fields) + 1 /\ Len(non_chained_decls[n]) = Len(f.fields) + 1
        /\ s[1] = "INT" /\ s[2] = "STRING"
    BY <2>2, <2>3, <2>6, NonChainedVariant
  <2>8. /\ \A k \in DOMAIN s : s[k] # "ATTRIBUTION_CHAIN"
        /\ \A k \in 3 .. Len(s) : SignatureType(non_chained_decls[n][k], FALSE) = PassedOnAs(s[k])
        /\ <<"ATTRIBUTION_CHAIN">> \o [k \in 1 .. Len(s) - 2 |-> PassedOnAs(s[k + 2])] = DeclaredSignature(a)
    BY <2>2, <2>3, <2>6, ChainedSignature
  <2>9. DeclaredSignature(a) \in DOMAIN signatureInfoMap
    <3>1. SignatureOf(f) = DeclaredSignature(a)
      BY <2>5, AllowedAtom DEF a
    <3> QED BY <2>1, <2>4, <3>1 DEF OrderIndependent, TableOf
  <2> HIDE DEF s
  <2>10. Len(s) >= 2
    BY <2>7
  <2> QED BY <2>3, <2>7, <2>8, <2>9, <2>10
<1> QED BY InvCorrect, <1>1, PTL
=============================================================================
