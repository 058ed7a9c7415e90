------------------------------ MODULE Recursion ------------------------------
(***************************************************************************)
(* Induction for the recursive functions of the models and of the          *)
(* libraries.  The induction theorems of the library take the property as  *)
(* an operator, which the provers cannot instantiate; here it is a set,    *)
(* and the induction is the choice of the least number outside the set.    *)
(* From it: partial sums, sums over finite sets, FlattenSeq, sequences     *)
(* encoded word by word, and sums by FoldLeft.                             *)
(***************************************************************************)
EXTENDS SequencesExt, Naturals, FiniteSets, TLAPS, WellFoundedInduction,
        FiniteSetTheorems, SequenceTheorems

\* A set that holds 0 and the successors of its numbers holds every number.
LEMMA NatInductionOnSets ==
  ASSUME NEW S, 0 \in S, \A n \in Nat : n \in S => n + 1 \in S
  PROVE  \A n \in Nat : n \in S
<1> DEFINE R == OpToRel(<, Nat)
           T == Nat \ S
<1>1. IsWellFoundedOn(R, Nat)
  BY NatLessThanWellFounded, Zenon
<1>2. \A m, n \in Nat : m < n => <<m, n>> \in R
  BY DEF OpToRel
<1> HIDE DEF R
<1>3. ASSUME T # {} PROVE FALSE
  <2>1. PICK x \in T : \A y \in T : <<y, x>> \notin R
    <3>1. T \subseteq Nat
      OBVIOUS
    <3> HIDE DEF T
    <3> QED BY <1>1, <1>3, <3>1, WFMin, Zenon
  <2>2. x # 0 /\ x - 1 \in Nat /\ x - 1 < x
    BY <2>1
  <2>3. x - 1 \in S
    BY <1>2, <2>1, <2>2
  <2> QED BY <2>1, <2>2, <2>3
<1> QED BY <1>3
-----------------------------------------------------------------------------
(* Partial sums. *)

\* s holds the sums of the first 0, 1, ..., n elements of g.
PartialSumsOf(g, n, s) == s = [k \in 0 .. n |-> IF k = 0 THEN 0 ELSE s[k - 1] + g[k]]

PartialSums(g, n) == CHOOSE s : PartialSumsOf(g, n, s)

\* The recursion of the partial sums has a solution.
LEMMA PartialSumsExist ==
  ASSUME NEW g
  PROVE  \A n \in Nat : \E s : PartialSumsOf(g, n, s)
<1> DEFINE S == {n \in Nat : \E s : PartialSumsOf(g, n, s)}
<1>1. 0 \in S
  <2> DEFINE s == [k \in 0 .. 0 |-> 0]
  <2>1. PartialSumsOf(g, 0, s)
    BY DEF PartialSumsOf
  <2> QED BY <2>1
<1>2. ASSUME NEW n \in Nat, n \in S PROVE n + 1 \in S
  <2>1. PICK s : PartialSumsOf(g, n, s)
    BY <1>2
  <2> DEFINE t == [k \in 0 .. n + 1 |-> IF k <= n THEN s[k] ELSE s[n] + g[n + 1]]
  <2>2. ASSUME NEW k \in 0 .. n + 1
        PROVE  t[k] = IF k = 0 THEN 0 ELSE t[k - 1] + g[k]
    <3>1. CASE k <= n
      BY <2>1, <3>1 DEF PartialSumsOf
    <3>2. CASE k = n + 1
      BY <2>1, <3>2 DEF PartialSumsOf
    <3> QED BY <3>1, <3>2
  <2>3. PartialSumsOf(g, n + 1, t)
    BY <2>2 DEF PartialSumsOf
  <2> QED BY <2>3
<1> HIDE DEF S
<1>3. \A n \in Nat : n \in S
  BY <1>1, <1>2, NatInductionOnSets
<1> QED BY <1>3 DEF S

\* A partial sum adds one element to the sum before it, and is a number.
LEMMA PartialSumsEach ==
  ASSUME NEW n \in Nat, NEW g, \A k \in 1 .. n : g[k] \in Nat
  PROVE  /\ PartialSums(g, n)[0] = 0
         /\ \A k \in 1 .. n : PartialSums(g, n)[k] = PartialSums(g, n)[k - 1] + g[k]
         /\ \A k \in 0 .. n : PartialSums(g, n)[k] \in Nat
<1> DEFINE s == PartialSums(g, n)
           S == {k \in Nat : k <= n => s[k] \in Nat}
<1>1. PartialSumsOf(g, n, s)
  BY PartialSumsExist DEF PartialSums
<1> HIDE DEF s
<1>2. s[0] = 0 /\ \A k \in 1 .. n : s[k] = s[k - 1] + g[k]
  BY <1>1 DEF PartialSumsOf
<1>3. 0 \in S
  BY <1>2
<1>4. ASSUME NEW k \in Nat, k \in S PROVE k + 1 \in S
  <2> SUFFICES ASSUME k + 1 <= n PROVE s[k + 1] \in Nat
    OBVIOUS
  <2>1. k + 1 \in 1 .. n /\ (k + 1) - 1 = k /\ s[k] \in Nat
    BY <1>4
  <2> QED BY <1>2, <2>1
<1> HIDE DEF S
<1>5. \A k \in Nat : k \in S
  BY <1>3, <1>4, NatInductionOnSets
<1> QED BY <1>2, <1>5 DEF S, s

-----------------------------------------------------------------------------
(* Sums over finite sets, as the community modules' folds compute them: one  *)
(* element is chosen, and added to the sum of the others.                    *)

Chosen(s) == CHOOSE x \in s : TRUE

\* sums holds the sum of g over every subset of S.
SetSumsOf(g, S, sums) ==
  sums = [s \in SUBSET S |-> IF s = {} THEN 0 ELSE g[Chosen(s)] + sums[s \ {Chosen(s)}]]

SetSum(g, S) == (CHOOSE sums : SetSumsOf(g, S, sums))[S]

\* A chosen element leaves a smaller set.
LEMMA ChosenRemoved ==
  ASSUME NEW s, IsFiniteSet(s), s # {}
  PROVE  /\ Chosen(s) \in s
         /\ IsFiniteSet(s \ {Chosen(s)})
         /\ Cardinality(s) \in Nat \ {0}
         /\ Cardinality(s \ {Chosen(s)}) = Cardinality(s) - 1
<1>1. Chosen(s) \in s
  BY DEF Chosen
<1>2. /\ IsFiniteSet(s \ {Chosen(s)})
      /\ Cardinality(s \ {Chosen(s)}) = Cardinality(s) - 1
  BY <1>1, FS_RemoveElement
<1>3. Cardinality(s) \in Nat /\ Cardinality(s) # 0
  BY FS_CardinalityType, FS_EmptySet
<1> QED BY <1>1, <1>2, <1>3

\* The recursion of the sums has a solution on the subsets of a finite set.
LEMMA SetSumsExist ==
  ASSUME NEW g, NEW S, IsFiniteSet(S)
  PROVE  \E sums : SetSumsOf(g, S, sums)
<1> DEFINE upTo(n) == {s \in SUBSET S : Cardinality(s) <= n}
           sumsTo(f, n) == f = [s \in upTo(n) |-> IF s = {} THEN 0 ELSE g[Chosen(s)] + f[s \ {Chosen(s)}]]
           N == {n \in Nat : \E f : sumsTo(f, n)}
<1>0. \A s \in SUBSET S : IsFiniteSet(s) /\ Cardinality(s) \in Nat /\ Cardinality(s) <= Cardinality(S)
  BY FS_Subset, FS_CardinalityType
<1>1. \A s \in SUBSET S : Cardinality(s) = 0 <=> s = {}
  BY <1>0, FS_EmptySet
<1>2. \A s \in SUBSET S : s # {} => /\ s \ {Chosen(s)} \in SUBSET S
                                   /\ Cardinality(s \ {Chosen(s)}) = Cardinality(s) - 1
  BY <1>0, ChosenRemoved
<1>3. 0 \in N
  <2> DEFINE f == [s \in upTo(0) |-> 0]
  <2>1. \A s \in upTo(0) : s = {}
    BY <1>0, <1>1
  <2>2. sumsTo(f, 0)
    BY <2>1
  <2> QED BY <2>2
<1>4. ASSUME NEW n \in Nat, n \in N PROVE n + 1 \in N
  <2>1. PICK f : sumsTo(f, n)
    BY <1>4
  <2> DEFINE h == [s \in upTo(n + 1) |-> IF s \in upTo(n) THEN f[s]
                                       ELSE g[Chosen(s)] + f[s \ {Chosen(s)}]]
  <2>2. ASSUME NEW s \in upTo(n + 1)
        PROVE  h[s] = IF s = {} THEN 0 ELSE g[Chosen(s)] + h[s \ {Chosen(s)}]
    <3>1. CASE s = {}
      <4>1. s \in upTo(n)
        BY <1>1, <3>1
      <4> QED BY <2>1, <3>1, <4>1
    <3>2. CASE s # {}
      <4>1. /\ s \ {Chosen(s)} \in upTo(n) /\ s \ {Chosen(s)} \in upTo(n + 1)
        BY <1>0, <1>2, <3>2
      <4>2. h[s \ {Chosen(s)}] = f[s \ {Chosen(s)}]
        BY <4>1
      <4>3. h[s] = g[Chosen(s)] + f[s \ {Chosen(s)}]
        <5>1. CASE s \in upTo(n)
          BY <2>1, <3>2, <5>1
        <5>2. CASE s \notin upTo(n)
          BY <5>2
        <5> QED BY <5>1, <5>2
      <4> QED BY <3>2, <4>2, <4>3
    <3> QED BY <3>1, <3>2
  <2>3. sumsTo(h, n + 1)
    BY <2>2
  <2> HIDE DEF h, sumsTo
  <2>4. \E t : sumsTo(t, n + 1)
    BY <2>3
  <2> QED BY <2>4
<1> HIDE DEF N
<1>5. \A n \in Nat : n \in N
  BY <1>3, <1>4, NatInductionOnSets
<1>6. PICK f : sumsTo(f, Cardinality(S))
  <2>1. Cardinality(S) \in Nat
    BY FS_CardinalityType
  <2>2. Cardinality(S) \in N
    BY <1>5, <2>1
  <2> QED BY <2>2 DEF N
<1>7. upTo(Cardinality(S)) = SUBSET S
  BY <1>0
<1> QED BY <1>6, <1>7 DEF SetSumsOf

\* The sums of a set do not depend on what it is a subset of.
LEMMA SetSumsUnique ==
  ASSUME NEW g, NEW S, NEW T, NEW a, NEW b, SetSumsOf(g, S, a), SetSumsOf(g, T, b)
  PROVE  \A s : s \subseteq S /\ s \subseteq T /\ IsFiniteSet(s) => a[s] = b[s]
<1> DEFINE N == {n \in Nat : \A s : s \subseteq S /\ s \subseteq T /\ IsFiniteSet(s) /\ Cardinality(s) = n
                                => a[s] = b[s]}
<1>1. /\ \A s \in SUBSET S : a[s] = IF s = {} THEN 0 ELSE g[Chosen(s)] + a[s \ {Chosen(s)}]
      /\ \A s \in SUBSET T : b[s] = IF s = {} THEN 0 ELSE g[Chosen(s)] + b[s \ {Chosen(s)}]
  BY DEF SetSumsOf
<1>2. 0 \in N
  <2> SUFFICES ASSUME NEW s, s \subseteq S, s \subseteq T, IsFiniteSet(s), Cardinality(s) = 0
               PROVE  a[s] = b[s]
    OBVIOUS
  <2>1. s = {}
    BY FS_EmptySet
  <2> QED BY <1>1, <2>1
<1>3. ASSUME NEW n \in Nat, n \in N PROVE n + 1 \in N
  <2> SUFFICES ASSUME NEW s, s \subseteq S, s \subseteq T, IsFiniteSet(s), Cardinality(s) = n + 1
               PROVE  a[s] = b[s]
    OBVIOUS
  <2>1. s # {}
    BY FS_EmptySet
  <2> DEFINE r == s \ {Chosen(s)}
  <2>2. r \subseteq S /\ r \subseteq T /\ IsFiniteSet(r) /\ Cardinality(r) = n
    BY <2>1, ChosenRemoved
  <2>3. a[r] = b[r]
    <3> HIDE DEF r
    <3> QED BY <1>3, <2>2
  <2> QED BY <1>1, <2>1, <2>3
<1> HIDE DEF N
<1>4. \A n \in Nat : n \in N
  BY <1>2, <1>3, NatInductionOnSets
<1> SUFFICES ASSUME NEW s, s \subseteq S, s \subseteq T, IsFiniteSet(s)
             PROVE  a[s] = b[s]
  OBVIOUS
<1>5. Cardinality(s) \in Nat
  BY FS_CardinalityType
<1> QED BY <1>4, <1>5 DEF N

\* The sum of a set, from that of the others than its chosen element.
LEMMA SetSumChosen ==
  ASSUME NEW g, NEW S, IsFiniteSet(S)
  PROVE  SetSum(g, S) = IF S = {} THEN 0 ELSE g[Chosen(S)] + SetSum(g, S \ {Chosen(S)})
<1> DEFINE R == S \ {Chosen(S)}
           a == CHOOSE sums : SetSumsOf(g, S, sums)
           b == CHOOSE sums : SetSumsOf(g, R, sums)
<1>1. SetSumsOf(g, S, a) /\ SetSum(g, S) = a[S]
  BY SetSumsExist DEF SetSum
<1>2. CASE S = {}
  BY <1>1, <1>2 DEF SetSumsOf
<1>3. CASE S # {}
  <2>1. IsFiniteSet(R)
    BY <1>3, ChosenRemoved
  <2>2. SetSumsOf(g, R, b) /\ SetSum(g, R) = b[R]
    <3> HIDE DEF R
    <3> QED BY <2>1, SetSumsExist DEF SetSum
  <2>3. R \subseteq S /\ R \subseteq R
    OBVIOUS
  <2> HIDE DEF a, b, R
  <2>4. a[R] = b[R]
    BY <1>1, <2>1, <2>2, <2>3, SetSumsUnique
  <2>5. a[S] = g[Chosen(S)] + a[R]
    BY <1>1, <1>3 DEF SetSumsOf, R
  <2> QED BY <1>1, <1>3, <2>2, <2>4, <2>5 DEF R
<1> QED BY <1>2, <1>3

\* The sum over the empty set, and over a set with one element more: which
\* element is chosen first makes no difference.
LEMMA SetSumAdd ==
  ASSUME NEW g, NEW S, IsFiniteSet(S), \A x \in S : g[x] \in Nat
  PROVE  /\ SetSum(g, {}) = 0
         /\ SetSum(g, S) \in Nat
         /\ \A x \in S : SetSum(g, S) = g[x] + SetSum(g, S \ {x})
<1> DEFINE Good(s) == /\ SetSum(g, s) \in Nat
                      /\ \A x \in s : /\ SetSum(g, s \ {x}) \in Nat
                                      /\ SetSum(g, s) = g[x] + SetSum(g, s \ {x})
           N == {n \in Nat : \A s \in SUBSET S : Cardinality(s) = n => Good(s)}
<1>0. \A s \in SUBSET S : IsFiniteSet(s) /\ Cardinality(s) \in Nat
  BY FS_Subset, FS_CardinalityType
<1>1. SetSum(g, {}) = 0
  BY FS_EmptySet, SetSumChosen
<1>2. 0 \in N
  <2> SUFFICES ASSUME NEW s \in SUBSET S, Cardinality(s) = 0 PROVE Good(s)
    OBVIOUS
  <2>1. s = {}
    BY <1>0, FS_EmptySet
  <2> QED BY <1>1, <2>1
<1>3. ASSUME NEW n \in Nat, n \in N PROVE n + 1 \in N
  <2> SUFFICES ASSUME NEW s \in SUBSET S, Cardinality(s) = n + 1 PROVE Good(s)
    OBVIOUS
  <2> DEFINE c == Chosen(s)
  <2>1. s # {}
    BY FS_EmptySet
  <2>2. c \in s
    BY <1>0, <2>1, ChosenRemoved
  <2>3. ASSUME NEW x \in s
        PROVE  s \ {x} \in SUBSET S /\ Cardinality(s \ {x}) = n /\ SetSum(g, s \ {x}) \in Nat
               /\ Good(s \ {x})
    <3>1. Cardinality(s \ {x}) = Cardinality(s) - 1
      BY <1>0, FS_RemoveElement
    <3>2. s \ {x} \in SUBSET S /\ Cardinality(s \ {x}) = n
      BY <3>1
    <3>3. Good(s \ {x})
      <4> HIDE DEF Good
      <4> QED BY <1>3, <3>2
    <3> QED BY <3>2, <3>3
  <2>4. SetSum(g, s) = g[c] + SetSum(g, s \ {c})
    BY <1>0, <2>1, SetSumChosen
  <2>5. SetSum(g, s) \in Nat
    BY <2>2, <2>3, <2>4
  <2>6. ASSUME NEW x \in s, x # c PROVE SetSum(g, s) = g[x] + SetSum(g, s \ {x})
    <3> DEFINE rest == SetSum(g, (s \ {c}) \ {x})
               gc == g[c]
               gx == g[x]
    <3>1. SetSum(g, s \ {c}) = gx + rest /\ rest \in Nat
      BY <2>2, <2>3, <2>6
    <3>2. SetSum(g, s \ {x}) = gc + rest
      <4>1. (s \ {x}) \ {c} = (s \ {c}) \ {x}
        OBVIOUS
      <4>2. SetSum(g, s \ {x}) = g[c] + SetSum(g, (s \ {x}) \ {c})
        BY <2>2, <2>3, <2>6
      <4> QED BY <4>1, <4>2
    <3>3. SetSum(g, s) = gc + SetSum(g, s \ {c})
      BY <2>4
    <3>4. gc \in Nat /\ gx \in Nat
      BY <2>2
    <3> HIDE DEF rest, gc, gx
    <3>5. SetSum(g, s) = gx + SetSum(g, s \ {x})
      BY <3>1, <3>2, <3>3, <3>4
    <3> QED BY <3>5 DEF gx
  <2> QED BY <2>2, <2>3, <2>4, <2>5, <2>6
<1> HIDE DEF N
<1>4. \A n \in Nat : n \in N
  BY <1>2, <1>3, NatInductionOnSets
<1>5. Good(S)
  BY <1>0, <1>4 DEF N
<1> QED BY <1>1, <1>5

\* A sum of zeros.
LEMMA SetSumZero ==
  ASSUME NEW g, NEW S, IsFiniteSet(S), \A x \in S : g[x] = 0
  PROVE  SetSum(g, S) = 0
<1> DEFINE N == {n \in Nat : \A s \in SUBSET S : Cardinality(s) = n => SetSum(g, s) = 0}
<1>0. \A s \in SUBSET S : IsFiniteSet(s) /\ Cardinality(s) \in Nat
  BY FS_Subset, FS_CardinalityType
<1>1. 0 \in N
  <2> SUFFICES ASSUME NEW s \in SUBSET S, Cardinality(s) = 0 PROVE SetSum(g, s) = 0
    OBVIOUS
  <2>1. s = {}
    BY <1>0, FS_EmptySet
  <2> QED BY <1>0, <2>1, SetSumChosen
<1>2. ASSUME NEW n \in Nat, n \in N PROVE n + 1 \in N
  <2> SUFFICES ASSUME NEW s \in SUBSET S, Cardinality(s) = n + 1 PROVE SetSum(g, s) = 0
    OBVIOUS
  <2>1. s # {}
    BY FS_EmptySet
  <2>2. /\ Chosen(s) \in s
        /\ s \ {Chosen(s)} \in SUBSET S
        /\ Cardinality(s \ {Chosen(s)}) = n
    BY <1>0, <2>1, ChosenRemoved
  <2>3. SetSum(g, s \ {Chosen(s)}) = 0
    BY <1>2, <2>2
  <2>4. SetSum(g, s) = g[Chosen(s)] + SetSum(g, s \ {Chosen(s)})
    BY <1>0, <2>1, SetSumChosen
  <2> QED BY <2>2, <2>3, <2>4
<1> HIDE DEF N
<1>3. \A n \in Nat : n \in N
  BY <1>1, <1>2, NatInductionOnSets
<1>4. Cardinality(S) \in N /\ S \in SUBSET S
  BY <1>0, <1>3
<1> QED BY <1>4 DEF N
-----------------------------------------------------------------------------
(* Sequences put one after the other, by FlattenSeq of SequencesExt. *)

\* The recursive function inside FlattenSeq, as far as the nth sequence.
FlattenedTo(seqs, fl, n) ==
  fl = [k \in 1 .. n |-> IF k = 1 THEN seqs[k] ELSE fl[k - 1] \o seqs[k]]

\* That recursion has a solution.
LEMMA FlattenedExists ==
  ASSUME NEW seqs
  PROVE  \A n \in Nat : \E fl : FlattenedTo(seqs, fl, n)
<1> DEFINE S == {n \in Nat : \E fl : FlattenedTo(seqs, fl, n)}
<1>1. 0 \in S
  <2> DEFINE fl == [k \in 1 .. 0 |-> 0]
  <2>1. fl = [k \in 1 .. 0 |-> IF k = 1 THEN seqs[k] ELSE fl[k - 1] \o seqs[k]]
    OBVIOUS
  <2> HIDE DEF fl
  <2>2. FlattenedTo(seqs, fl, 0)
    BY <2>1 DEF FlattenedTo
  <2> QED BY <2>2
<1>2. ASSUME NEW n \in Nat, n \in S PROVE n + 1 \in S
  <2>1. PICK d : FlattenedTo(seqs, d, n)
    BY <1>2
  <2> DEFINE t == IF n = 0 THEN seqs[1] ELSE d[n] \o seqs[n + 1]
             e == [k \in 1 .. n + 1 |-> IF k <= n THEN d[k] ELSE t]
  <2>2. ASSUME NEW k \in 1 .. n + 1
        PROVE  e[k] = IF k = 1 THEN seqs[k] ELSE e[k - 1] \o seqs[k]
    <3>1. CASE k <= n
      <4>1. k \in 1 .. n
        BY <3>1
      <4>2. d[k] = IF k = 1 THEN seqs[k] ELSE d[k - 1] \o seqs[k]
        BY <2>1, <4>1 DEF FlattenedTo
      <4>3. k # 1 => k - 1 \in 1 .. n + 1 /\ k - 1 <= n
        BY <4>1
      <4>4. e[k] = d[k] /\ (k # 1 => e[k - 1] = d[k - 1])
        BY <4>1, <4>3
      <4> HIDE DEF e
      <4> QED BY <4>2, <4>4
    <3>2. CASE k = n + 1 /\ n = 0
      BY <3>2
    <3>3. CASE k = n + 1 /\ n # 0
      <4>1. n \in 1 .. n + 1 /\ n <= n /\ ~(n + 1 <= n) /\ n + 1 \in 1 .. n + 1
        BY <3>3
      <4>2. e[n] = d[n] /\ e[n + 1] = t
        BY <4>1
      <4>3. k - 1 = n /\ k # 1
        BY <3>3
      <4> HIDE DEF e
      <4> QED BY <3>3, <4>2, <4>3
    <3> QED BY <3>1, <3>2, <3>3
  <2> HIDE DEF t
  <2>3. e = [k \in 1 .. n + 1 |-> e[k]]
    OBVIOUS
  <2> HIDE DEF e
  <2>4. FlattenedTo(seqs, e, n + 1)
    BY <2>2, <2>3 DEF FlattenedTo
  <2> QED BY <2>4
<1> HIDE DEF S
<1>3. \A n \in Nat : n \in S
  BY <1>1, <1>2, NatInductionOnSets
<1> QED BY <1>3 DEF S

\* FlattenSeq puts the sequences one after the other: fl[k] is the first k.
Flattens(fl, seqs, n) ==
  /\ FlattenSeq(seqs) = fl[n]
  /\ fl[1] = seqs[1]
  /\ \A k \in 2 .. n : fl[k] = fl[k - 1] \o seqs[k]

LEMMA FlattenSeqUnfolded ==
  ASSUME NEW n \in Nat \ {0}, NEW seqs, Len(seqs) = n
  PROVE  \E fl : Flattens(fl, seqs, n)
<1> DEFINE fl == CHOOSE x : x = [k \in 1 .. Len(seqs) |-> IF k = 1 THEN seqs[k] ELSE x[k - 1] \o seqs[k]]
<1>1. fl = [k \in 1 .. Len(seqs) |-> IF k = 1 THEN seqs[k] ELSE fl[k - 1] \o seqs[k]]
  <2>1. \E x : x = [k \in 1 .. Len(seqs) |-> IF k = 1 THEN seqs[k] ELSE x[k - 1] \o seqs[k]]
    BY FlattenedExists DEF FlattenedTo
  <2> QED BY <2>1, Zenon
<1>2. FlattenSeq(seqs) = fl[Len(seqs)]
  <2>1. Len(seqs) # 0
    OBVIOUS
  <2> QED BY <2>1, Zenon DEF FlattenSeq
<1> HIDE DEF fl
<1>3. \A k \in 1 .. n : fl[k] = IF k = 1 THEN seqs[k] ELSE fl[k - 1] \o seqs[k]
  BY <1>1
<1>4. fl[1] = seqs[1]
  BY <1>3
<1>5. ASSUME NEW k \in 2 .. n PROVE fl[k] = fl[k - 1] \o seqs[k]
  <2>1. k \in 1 .. n /\ k # 1
    OBVIOUS
  <2> QED BY <1>3, <2>1, Zenon
<1>6. Flattens(fl, seqs, n)
  BY <1>2, <1>4, <1>5 DEF Flattens
<1> QED BY <1>6

\* The sequences put one after the other are a sequence over the same set.
LEMMA FlattenedInSeq ==
  ASSUME NEW S, NEW parts \in Seq(Seq(S))
  PROVE  FlattenSeq(parts) \in Seq(S)
<1> DEFINE n == Len(parts)
<1>1. CASE n = 0
  <2>1. FlattenSeq(parts) = <<>>
    BY <1>1 DEF FlattenSeq
  <2> QED BY <2>1
<1>2. CASE n # 0
  <2>1. n \in Nat \ {0} /\ \A k \in 1 .. n : parts[k] \in Seq(S)
    BY <1>2
  <2> HIDE DEF n
  <2>2. PICK fl : Flattens(fl, parts, n)
    BY <2>1, FlattenSeqUnfolded DEF n
  <2> DEFINE N == {m \in Nat : m + 1 \in 1 .. n => fl[m + 1] \in Seq(S)}
  <2>3. 0 \in N
    BY <2>1, <2>2 DEF Flattens
  <2>4. ASSUME NEW m \in Nat, m \in N PROVE m + 1 \in N
    <3> SUFFICES ASSUME (m + 1) + 1 \in 1 .. n PROVE fl[(m + 1) + 1] \in Seq(S)
      OBVIOUS
    <3>1. m + 1 \in 1 .. n /\ (m + 1) + 1 \in 2 .. n /\ ((m + 1) + 1) - 1 = m + 1
      BY <2>1
    <3>2. fl[m + 1] \in Seq(S) /\ parts[(m + 1) + 1] \in Seq(S)
      BY <2>1, <2>4, <3>1
    <3>3. fl[(m + 1) + 1] = fl[m + 1] \o parts[(m + 1) + 1]
      BY <2>2, <3>1 DEF Flattens
    <3> QED BY <3>2, <3>3
  <2> HIDE DEF N
  <2>5. \A m \in Nat : m \in N
    BY <2>3, <2>4, NatInductionOnSets
  <2>6. n - 1 \in N /\ (n - 1) + 1 \in 1 .. n /\ (n - 1) + 1 = n
    BY <2>1, <2>5
  <2>7. fl[n] \in Seq(S)
    BY <2>6 DEF N
  <2> QED BY <2>2, <2>7 DEF Flattens
<1> QED BY <1>1, <1>2

\* No sequences give the empty one.
LEMMA FlattenEmpty == FlattenSeq(<<>>) = <<>>
BY DEF FlattenSeq

\* r is s without its first element.
RestOf(s, r) == Len(s) = Len(r) + 1 /\ \A k \in 1 .. Len(r) : r[k] = s[k + 1]

\* Tail(s) is the rest of s.
LEMMA RestExists ==
  ASSUME NEW T, NEW s \in Seq(T), s # <<>>
  PROVE  /\ Tail(s) \in Seq(T) /\ RestOf(s, Tail(s)) /\ s[1] \in T
         /\ Len(s) = Len(Tail(s)) + 1 /\ Len(Tail(s)) \in Nat
<1>1. Tail(s) \in Seq(T) /\ Len(Tail(s)) = Len(s) - 1 /\ Len(s) \in Nat \ {0}
      /\ \A k \in 1 .. Len(Tail(s)) : Tail(s)[k] = s[k + 1]
  BY HeadTailProperties, EmptySeq
<1>2. s[1] \in T
  BY <1>1
<1> QED BY <1>1, <1>2 DEF RestOf

\* A sequence is its first element and its rest.
LEMMA FirstAndRest ==
  ASSUME NEW T, NEW s \in Seq(T), NEW t \in Seq(T), s # <<>>, t # <<>>,
         s[1] = t[1], Tail(s) = Tail(t)
  PROVE  s = t
<1> DEFINE r == Tail(s)
<1>1. /\ Len(s) = Len(r) + 1 /\ \A k \in 1 .. Len(r) : r[k] = s[k + 1]
      /\ Len(r) \in Nat
  BY RestExists DEF RestOf
<1>2. Len(t) = Len(r) + 1 /\ \A k \in 1 .. Len(r) : r[k] = t[k + 1]
  BY RestExists, ZenonT(60) DEF RestOf
<1> HIDE DEF r
<1>3. ASSUME NEW k \in 1 .. Len(s) PROVE s[k] = t[k]
  <2>1. CASE k = 1
    BY <2>1
  <2>2. CASE k # 1
    <3>1. k - 1 \in 1 .. Len(r) /\ (k - 1) + 1 = k
      BY <1>1, <2>2
    <3> QED BY <1>1, <1>2, <3>1
  <2> QED BY <2>1, <2>2
<1>4. Len(s) = Len(t)
  BY <1>1, <1>2
<1> QED BY <1>3, <1>4, SeqEqual

\* Concatenation is associative.
LEMMA ConcatStep ==
  ASSUME NEW S, NEW p \in Seq(S), NEW g \in Seq(S), NEW r \in Seq(S)
  PROVE  (p \o g) \o r = p \o (g \o r) /\ g \o r \in Seq(S)
BY ConcatAssociative, ConcatProperties

\* The same words follow a chain.
LEMMA CancelFirst ==
  ASSUME NEW S, NEW c \in Seq(S), NEW p \in Seq(S), NEW q \in Seq(S), c \o p = c \o q
  PROVE  p = q
BY ConcatSimplifications

\* The element x, then the elements of p.
FirstThen(x, p) == <<x>> \o p

\* The first element and the rest are told apart.
LEMMA HeadTailOne ==
  ASSUME NEW S, NEW x \in S, NEW y \in S, NEW p \in Seq(S), NEW q \in Seq(S),
         FirstThen(x, p) = FirstThen(y, q)
  PROVE  x = y /\ p = q
<1> USE DEF FirstThen
<1>1. Len(p) = Len(q) /\ Len(p) \in Nat
  OBVIOUS
<1>2. x = (<<x>> \o p)[1] /\ y = (<<y>> \o q)[1]
  OBVIOUS
<1>3. ASSUME NEW k \in 1 .. Len(p) PROVE p[k] = q[k]
  <2>1. p[k] = (<<x>> \o p)[k + 1] /\ q[k] = (<<y>> \o q)[k + 1]
    BY <1>1
  <2> QED BY <2>1
<1> QED BY <1>1, <1>2, <1>3, SeqEqual

\* two are the first two elements of q, and rest the others.
FirstTwo(q, two) == Len(two) = 2 /\ two[1] = q[1] /\ two[2] = q[2]
AfterTwo(q, rest) == Len(q) = Len(rest) + 2 /\ \A k \in 1 .. Len(rest) : rest[k] = q[k + 2]

\* A sequence is its first two elements and the others.
LEMMA TwoThen ==
  ASSUME NEW S, NEW two \in Seq(S), NEW rest \in Seq(S), NEW q \in Seq(S), FirstTwo(q, two), AfterTwo(q, rest)
  PROVE  two \o rest = q
<1> DEFINE m == Len(two)
           n == Len(rest)
           c == two \o rest
<1>1. /\ c \in Seq(S) /\ Len(c) = m + n /\ m \in Nat /\ n \in Nat
      /\ \A k \in 1 .. m + n : c[k] = IF k <= m THEN two[k] ELSE rest[k - m]
  BY ConcatProperties
<1> HIDE DEF c
<1>2. m = 2 /\ two[1] = q[1] /\ two[2] = q[2]
  BY DEF FirstTwo
<1>3. Len(q) = n + 2 /\ \A k \in 1 .. n : rest[k] = q[k + 2]
  BY DEF AfterTwo
<1> HIDE DEF m, n
<1>4. ASSUME NEW k \in 1 .. n + 2 PROVE c[k] = q[k]
  <2>0. k \in 1 .. m + n
    BY <1>1, <1>2
  <2>1. CASE k \in {1, 2}
    BY <1>1, <1>2, <2>0, <2>1
  <2>2. CASE k \notin {1, 2}
    <3> DEFINE j == k - 2
    <3>1. j \in 1 .. n /\ k = j + 2 /\ ~(k <= m)
      BY <1>1, <1>2, <2>2
    <3>2. c[k] = rest[j]
      BY <1>1, <1>2, <2>0, <3>1
    <3> HIDE DEF j
    <3> QED BY <1>3, <3>1, <3>2
  <2> QED BY <2>1, <2>2
<1>5. Len(c) = n + 2
  BY <1>1, <1>2
<1>6. c = q
  BY <1>1, <1>3, <1>4, <1>5, SeqEqual
<1> QED BY <1>6 DEF c

\* FlattenSeq puts the first sequence before what it makes of the others.
LEMMA FlattenFirst ==
  ASSUME NEW S, NEW parts \in Seq(Seq(S)), NEW rest \in Seq(Seq(S)),
         RestOf(parts, rest)
  PROVE  FlattenSeq(parts) = parts[1] \o FlattenSeq(rest)
<1> DEFINE n == Len(rest)
<1>1. n \in Nat /\ \A k \in 1 .. n + 1 : parts[k] \in Seq(S)
  BY DEF RestOf
<1>2. PICK fl : Flattens(fl, parts, n + 1)
  <2>1. n + 1 \in Nat \ {0}
    BY <1>1
  <2>2. Len(parts) = n + 1
    BY DEF RestOf
  <2> HIDE DEF n
  <2> QED BY <2>1, <2>2, FlattenSeqUnfolded
<1>3. CASE n = 0
  <2>1. FlattenSeq(rest) = <<>>
    BY <1>3 DEF FlattenSeq
  <2>2. FlattenSeq(parts) = parts[1]
    BY <1>2, <1>3 DEF Flattens
  <2>3. parts[1] \in Seq(S)
    BY <1>1
  <2> QED BY <2>1, <2>2, <2>3
<1>4. CASE n # 0
  <2>1. n \in Nat \ {0} /\ \A k \in 1 .. n : rest[k] \in Seq(S)
    BY <1>4
  <2>0. \A k \in 1 .. n : rest[k] = parts[k + 1]
    BY DEF RestOf
  <2> HIDE DEF n
  <2>2. PICK gl : Flattens(gl, rest, n)
    BY <2>1, FlattenSeqUnfolded DEF n
  <2> DEFINE P(k) == gl[k] \in Seq(S) /\ fl[k + 1] = parts[1] \o gl[k]
             N == {m \in Nat : m + 1 \in 1 .. n => P(m + 1)}
  <2>3. P(1)
    <3>0. 1 \in 1 .. n /\ 1 + 1 = 2 /\ 2 \in 2 .. n + 1 /\ 2 - 1 = 1
      BY <2>1
    <3>1. gl[1] = rest[1] /\ rest[1] = parts[2] /\ rest[1] \in Seq(S)
      BY <2>0, <2>1, <2>2, <3>0 DEF Flattens
    <3>2. fl[1] = parts[1] /\ fl[2] = fl[1] \o parts[2]
      BY <1>2, <3>0 DEF Flattens
    <3> QED BY <3>0, <3>1, <3>2
  <2>4. ASSUME NEW k \in 1 .. n, P(k), k + 1 \in 1 .. n PROVE P(k + 1)
    <3>1. k + 1 \in 2 .. n /\ (k + 1) - 1 = k /\ (k + 1) + 1 \in 2 .. n + 1
          /\ ((k + 1) + 1) - 1 = k + 1
      BY <2>1, <2>4
    <3>2. gl[k] \in Seq(S) /\ fl[k + 1] = parts[1] \o gl[k]
      BY <2>4
    <3>3. gl[k + 1] = gl[k] \o rest[k + 1]
      BY <2>2, <3>1 DEF Flattens
    <3>4. fl[(k + 1) + 1] = fl[k + 1] \o parts[(k + 1) + 1]
      BY <1>2, <3>1 DEF Flattens
    <3>5. rest[k + 1] = parts[(k + 1) + 1] /\ rest[k + 1] \in Seq(S)
      <4> DEFINE j == k + 1
      <4>1. j \in 1 .. n
        BY <2>4
      <4> HIDE DEF j
      <4>2. rest[j] = parts[j + 1] /\ rest[j] \in Seq(S)
        BY <2>0, <2>1, <4>1
      <4> QED BY <4>2 DEF j
    <3>6. parts[1] \in Seq(S)
      BY <1>1, <2>1
    <3>7. fl[(k + 1) + 1] = (parts[1] \o gl[k]) \o rest[k + 1]
      BY <3>2, <3>4, <3>5
    <3> DEFINE p == parts[1]
               g == gl[k]
               r == rest[k + 1]
    <3>8. p \in Seq(S) /\ g \in Seq(S) /\ r \in Seq(S)
      BY <3>2, <3>5, <3>6
    <3> HIDE DEF p, g, r
    <3>9. (p \o g) \o r = p \o (g \o r) /\ g \o r \in Seq(S)
      BY <3>8, ConcatStep, SMTT(30)
    <3>10. fl[(k + 1) + 1] = p \o gl[k + 1] /\ gl[k + 1] = g \o r
      BY <3>3, <3>7, <3>9 DEF p, g, r
    <3> QED BY <3>9, <3>10 DEF p
  <2> HIDE DEF P
  <2>5. 0 \in N
    BY <2>3
  <2>6. ASSUME NEW m \in Nat, m \in N PROVE m + 1 \in N
    <3> SUFFICES ASSUME (m + 1) + 1 \in 1 .. n PROVE P((m + 1) + 1)
      OBVIOUS
    <3>1. m + 1 \in 1 .. n
      BY <2>1
    <3> QED BY <2>4, <2>6, <3>1
  <2> HIDE DEF N
  <2>8. \A m \in Nat : m \in N
    BY <2>5, <2>6, NatInductionOnSets
  <2>9. P(n)
    <3>1. n - 1 \in N /\ (n - 1) + 1 \in 1 .. n /\ (n - 1) + 1 = n
      BY <2>1, <2>8
    <3> QED BY <3>1 DEF N
  <2>7. fl[n + 1] = parts[1] \o gl[n]
    BY <2>9 DEF P
  <2> QED BY <1>2, <2>2, <2>7 DEF Flattens
<1> QED BY <1>3, <1>4

\* Sequences of one element each, put one after the other.
LEMMA FlattenSingles ==
  ASSUME NEW S, NEW q \in Seq(S)
  PROVE  FlattenSeq([k \in DOMAIN q |-> <<q[k]>>]) = q
<1> DEFINE singles(x) == [k \in DOMAIN x |-> <<x[k]>>]
           N == {m \in Nat : \A x \in Seq(S) : Len(x) = m => FlattenSeq(singles(x)) = x}
<1>1. ASSUME NEW x \in Seq(S) PROVE singles(x) \in Seq(Seq(S)) /\ Len(singles(x)) = Len(x)
  <2>1. DOMAIN x = 1 .. Len(x) /\ Len(x) \in Nat /\ \A k \in 1 .. Len(x) : <<x[k]>> \in Seq(S)
    OBVIOUS
  <2> QED BY <2>1
<1>2. 0 \in N
  <2> SUFFICES ASSUME NEW x \in Seq(S), Len(x) = 0 PROVE FlattenSeq(singles(x)) = x
    OBVIOUS
  <2>1. x = <<>> /\ singles(x) = <<>>
    OBVIOUS
  <2> QED BY <2>1, FlattenEmpty
<1>3. ASSUME NEW m \in Nat, m \in N PROVE m + 1 \in N
  <2> SUFFICES ASSUME NEW x \in Seq(S), Len(x) = m + 1 PROVE FlattenSeq(singles(x)) = x
    OBVIOUS
  <2> DEFINE r == Tail(x)
  <2>0. m \in Nat
    OBVIOUS
  <2>1. x # <<>>
    BY <2>0
  <2>2. r \in Seq(S) /\ RestOf(x, r) /\ Len(r) = m /\ x[1] \in S
    BY <2>0, <2>1, RestExists
  <2> HIDE DEF r
  <2>3. FlattenSeq(singles(r)) = r
    BY <1>3, <2>2
  <2> DEFINE p == singles(x)
             g == singles(r)
  <2>4. p \in Seq(Seq(S)) /\ g \in Seq(Seq(S)) /\ Len(p) = m + 1 /\ Len(g) = m
    BY <1>1, <2>2
  <2>5. RestOf(p, g)
    <3>1. ASSUME NEW k \in 1 .. m PROVE g[k] = p[k + 1]
      <4>1. k \in DOMAIN r /\ k + 1 \in DOMAIN x /\ r[k] = x[k + 1]
        BY <2>0, <2>2 DEF RestOf
      <4> QED BY <4>1
    <3> QED BY <2>4, <3>1 DEF RestOf
  <2>6. p[1] = <<x[1]>>
    <3>1. 1 \in DOMAIN x
      BY <2>0
    <3> QED BY <3>1
  <2> HIDE DEF p, g
  <2>7. FlattenSeq(p) = p[1] \o FlattenSeq(g)
    BY <2>4, <2>5, FlattenFirst
  <2>8. FlattenSeq(p) = <<x[1]>> \o r
    BY <2>3, <2>6, <2>7 DEF g
  <2>9. x = <<x[1]>> \o r
    <3> DEFINE e == x[1]
    <3>1. e \in S /\ e = x[1]
      BY <2>2
    <3> HIDE DEF e
    <3>2. \A k \in 1 .. Len(x) : x[k] = (<<e>> \o r)[k]
      <4> SUFFICES ASSUME NEW k \in 1 .. Len(x) PROVE x[k] = (<<e>> \o r)[k]
        OBVIOUS
      <4>1. CASE k = 1
        BY <2>2, <3>1, <4>1
      <4>2. CASE k # 1
        <5> DEFINE j == k - 1
        <5>1. j \in 1 .. m /\ k = j + 1
          BY <2>0, <4>2
        <5> HIDE DEF j
        <5>2. (<<e>> \o r)[k] = r[j]
          BY <2>0, <2>2, <3>1, <5>1
        <5> QED BY <2>2, <5>1, <5>2 DEF RestOf
      <4> QED BY <4>1, <4>2
    <3>3. <<e>> \o r \in Seq(S) /\ Len(<<e>> \o r) = Len(x)
      BY <2>0, <2>2, <3>1
    <3>4. x = <<e>> \o r
      BY <3>2, <3>3, SeqEqual
    <3> QED BY <3>4 DEF e
  <2> QED BY <2>8, <2>9 DEF p
<1> HIDE DEF N
<1>4. \A m \in Nat : m \in N
  BY <1>2, <1>3, NatInductionOnSets
<1>5. Len(q) \in N
  BY <1>4
<1> QED BY <1>5 DEF N
-----------------------------------------------------------------------------
(* Sequences of words: every letter of s replaced by its word. *)

\* The words of the letters of s, one after the other.
Encode(words, s) == FlattenSeq([k \in DOMAIN s |-> words[s[k]]])

\* The words of the letters T are sequences over S.
Code(words, T, S) == \A t \in T : words[t] \in Seq(S)

\* The words of a sequence of letters are a sequence of sequences.
LEMMA WordsOf ==
  ASSUME NEW T, NEW S, NEW words, Code(words, T, S), NEW s \in Seq(T)
  PROVE  /\ [k \in DOMAIN s |-> words[s[k]]] \in Seq(Seq(S))
         /\ Len([k \in DOMAIN s |-> words[s[k]]]) = Len(s)
<1> DEFINE parts == [k \in DOMAIN s |-> words[s[k]]]
<1>1. Len(s) \in Nat /\ DOMAIN s = 1 .. Len(s) /\ \A k \in 1 .. Len(s) : s[k] \in T
  OBVIOUS
<1>2. parts = [k \in 1 .. Len(s) |-> parts[k]] /\ \A k \in 1 .. Len(s) : parts[k] \in Seq(S)
  BY <1>1 DEF Code
<1>3. DOMAIN parts = 1 .. Len(s)
  BY <1>1
<1> HIDE DEF parts
<1>4. parts \in Seq(Seq(S))
  BY <1>1, <1>2
<1>5. Len(parts) = Len(s)
  BY <1>1, <1>3, <1>4
<1> QED BY <1>4, <1>5 DEF parts

\* The encoding of a sequence of letters is a sequence over S.
LEMMA EncodeInSeq ==
  ASSUME NEW T, NEW S, NEW words, Code(words, T, S), NEW s \in Seq(T)
  PROVE  Encode(words, s) \in Seq(S)
<1> DEFINE parts == [k \in DOMAIN s |-> words[s[k]]]
<1>1. parts \in Seq(Seq(S))
  BY WordsOf
<1> HIDE DEF parts
<1>2. FlattenSeq(parts) \in Seq(S)
  BY <1>1, FlattenedInSeq
<1> QED BY <1>2 DEF Encode, parts

\* No letters have no words.
LEMMA EncodeEmpty ==
  ASSUME NEW words
  PROVE  Encode(words, <<>>) = <<>>
<1>1. [k \in DOMAIN <<>> |-> words[<<>>[k]]] = <<>>
  OBVIOUS
<1> QED BY <1>1, FlattenEmpty DEF Encode

\* The word of the first letter comes first, whatever names the rest of the letters.
LEMMA EncodeFirst ==
  ASSUME NEW T, NEW S, NEW words, Code(words, T, S),
         NEW s \in Seq(T), NEW r \in Seq(T), RestOf(s, r)
  PROVE  Encode(words, s) = words[s[1]] \o Encode(words, r)
<1> DEFINE parts == [k \in DOMAIN s |-> words[s[k]]]
           rest == [k \in DOMAIN r |-> words[r[k]]]
<1>1. /\ Len(s) \in Nat /\ DOMAIN s = 1 .. Len(s)
      /\ Len(r) \in Nat /\ DOMAIN r = 1 .. Len(r)
      /\ Len(s) = Len(r) + 1 /\ \A k \in 1 .. Len(r) : r[k] = s[k + 1]
  BY DEF RestOf
<1>2. parts \in Seq(Seq(S)) /\ Len(parts) = Len(s) /\ rest \in Seq(Seq(S)) /\ Len(rest) = Len(r)
  BY WordsOf
<1>3. ASSUME NEW k \in 1 .. Len(r) PROVE rest[k] = parts[k + 1]
  <2>1. k \in DOMAIN r /\ k + 1 \in DOMAIN s
    BY <1>1
  <2>2. r[k] = s[k + 1]
    BY <1>1
  <2> QED BY <2>1, <2>2
<1>4. parts[1] = words[s[1]]
  <2>1. 1 \in DOMAIN s
    BY <1>1
  <2> QED BY <2>1
<1>5. Encode(words, s) = FlattenSeq(parts) /\ Encode(words, r) = FlattenSeq(rest)
  BY DEF Encode
<1> HIDE DEF parts, rest
<1>6. FlattenSeq(parts) = parts[1] \o FlattenSeq(rest)
  <2>1. RestOf(parts, rest)
    BY <1>1, <1>2, <1>3 DEF RestOf
  <2> QED BY <1>2, <2>1, FlattenFirst
<1> QED BY <1>4, <1>5, <1>6

\* The word of the first letter comes first.
LEMMA EncodeTail ==
  ASSUME NEW T, NEW S, NEW words, Code(words, T, S), NEW s \in Seq(T), s # <<>>
  PROVE  Encode(words, s) = words[s[1]] \o Encode(words, Tail(s))
<1> DEFINE r == Tail(s)
<1>1. r \in Seq(T) /\ RestOf(s, r)
  BY RestExists
<1> HIDE DEF r
<1>2. Encode(words, s) = words[s[1]] \o Encode(words, r)
  BY <1>1, EncodeFirst
<1> QED BY <1>2 DEF r

\* The words of the n letters after the first.
WordsAfterFirst(words, s, n) == [k \in 1 .. n |-> words[s[k + 1]]]

\* The word of the first letter, then those of the others.
LEMMA ChainThenOthers ==
  ASSUME NEW T, NEW S, NEW words, Code(words, T, S),
         NEW s \in Seq(T), NEW n \in Nat, Len(s) = n + 1
  PROVE  Encode(words, s) = words[s[1]] \o FlattenSeq(WordsAfterFirst(words, s, n))
<1> DEFINE r == Tail(s)
<1>1. s # <<>>
  OBVIOUS
<1>2. r \in Seq(T) /\ RestOf(s, r) /\ Len(r) = n
  BY <1>1, RestExists
<1>3. Encode(words, s) = words[s[1]] \o Encode(words, r)
  BY <1>1, EncodeTail
<1> HIDE DEF r
<1>4. \A k \in 1 .. n : words[r[k]] = words[s[k + 1]]
  BY <1>2 DEF RestOf
<1>5. DOMAIN r = 1 .. n
  BY <1>2
<1>6. [k \in DOMAIN r |-> words[r[k]]] = WordsAfterFirst(words, s, n)
  BY <1>4, <1>5 DEF WordsAfterFirst
<1> QED BY <1>3, <1>6 DEF Encode

\* Every letter has a word that is not empty, and is told by its first element.
Decodable(words, T, S) ==
  /\ Code(words, T, S)
  /\ \A t \in T : words[t] # <<>>
  /\ \A t, u \in T : words[t][1] = words[u][1] => t = u

\* The encoding starts with the word of the first letter, which can be told.
LEMMA EncodeUnfold ==
  ASSUME NEW T, NEW S, NEW words, Decodable(words, T, S), NEW s \in Seq(T), s # <<>>
  PROVE  /\ Encode(words, s) = words[s[1]] \o Encode(words, Tail(s))
         /\ words[s[1]] \in Seq(S) /\ Encode(words, Tail(s)) \in Seq(S)
         /\ Encode(words, s) # <<>>
         /\ Encode(words, s)[1] = words[s[1]][1]
<1>1. Code(words, T, S)
  BY DEF Decodable
<1>2. Tail(s) \in Seq(T) /\ RestOf(s, Tail(s)) /\ s[1] \in T
  BY RestExists
<1>3. Encode(words, s) = words[s[1]] \o Encode(words, Tail(s))
  <2> DEFINE r == Tail(s)
  <2>1. r \in Seq(T) /\ RestOf(s, r)
    BY <1>2
  <2> HIDE DEF r
  <2>2. Encode(words, s) = words[s[1]] \o Encode(words, r)
    BY <1>1, <2>1, EncodeFirst
  <2> QED BY <2>2 DEF r
<1> DEFINE w == words[s[1]]
           e == Encode(words, Tail(s))
<1>4. w \in Seq(S) /\ w # <<>> /\ e \in Seq(S)
  <2>1. e \in Seq(S)
    BY <1>1, <1>2, EncodeInSeq
  <2> QED BY <1>1, <1>2, <2>1 DEF Decodable, Code
<1> HIDE DEF w, e
<1>5. w \o e # <<>> /\ (w \o e)[1] = w[1]
  <2>1. Len(w) \in Nat \ {0} /\ Len(e) \in Nat
    BY <1>4
  <2>2. 1 \in 1 .. Len(w) + Len(e) /\ 1 <= Len(w)
    BY <2>1
  <2>3. Len(w \o e) = Len(w) + Len(e) /\ (w \o e)[1] = w[1]
    BY <1>4, <2>2, ConcatProperties
  <2> QED BY <2>1, <2>3
<1> QED BY <1>3, <1>4, <1>5 DEF w, e

\* Different sequences of letters give different sequences of words.
LEMMA EncodeInjective ==
  ASSUME NEW T, NEW S, NEW words, Decodable(words, T, S),
         NEW s \in Seq(T), NEW t \in Seq(T), Encode(words, s) = Encode(words, t)
  PROVE  s = t
<1> DEFINE Unique(x, y) == Encode(words, x) = Encode(words, y) => x = y
           N == {m \in Nat : \A x, y \in Seq(T) : Len(x) = m => Unique(x, y)}
<1>0. ASSUME NEW z \in Seq(T), z # <<>>
      PROVE  /\ Encode(words, z) = words[z[1]] \o Encode(words, Tail(z))
             /\ words[z[1]] \in Seq(S) /\ Encode(words, Tail(z)) \in Seq(S)
             /\ Encode(words, z) # <<>>
             /\ Encode(words, z)[1] = words[z[1]][1]
  BY <1>0, EncodeUnfold
<1>1. 0 \in N
  <2> SUFFICES ASSUME NEW x \in Seq(T), NEW y \in Seq(T), Len(x) = 0 PROVE Unique(x, y)
    OBVIOUS
  <2>1. x = <<>>
    OBVIOUS
  <2>2. y # <<>> => Encode(words, y) # <<>>
    BY <1>0
  <2> QED BY <2>1, <2>2, EncodeEmpty
<1>2. ASSUME NEW m \in Nat, m \in N PROVE m + 1 \in N
  <2> SUFFICES ASSUME NEW x \in Seq(T), NEW y \in Seq(T), Len(x) = m + 1,
                      Encode(words, x) = Encode(words, y)
               PROVE  x = y
    OBVIOUS
  <2>1. x # <<>>
    BY EmptySeq
  <2>2. y # <<>>
    BY <2>1, <1>0, EncodeEmpty
  <2>3. /\ Tail(x) \in Seq(T) /\ x[1] \in T /\ Tail(y) \in Seq(T) /\ y[1] \in T
        /\ Len(Tail(x)) = m
    BY <2>1, <2>2, RestExists
  <2>4. x[1] = y[1]
    <3>1. words[x[1]][1] = words[y[1]][1]
      BY <2>1, <1>0, <2>2
    <3> QED BY <2>3, <3>1 DEF Decodable
  <2>5. Encode(words, Tail(x)) = Encode(words, Tail(y))
    <3> DEFINE w == words[x[1]]
               ex == Encode(words, Tail(x))
               ey == Encode(words, Tail(y))
    <3>1. w \o ex = w \o ey /\ w \in Seq(S) /\ ex \in Seq(S) /\ ey \in Seq(S)
      BY <2>1, <2>2, <1>0, <2>4
    <3> HIDE DEF w, ex, ey
    <3>2. ex = ey
      BY <3>1, ConcatSimplifications
    <3> QED BY <3>2 DEF ex, ey
  <2>6. Tail(x) = Tail(y)
    BY <1>2, <2>3, <2>5
  <2> QED BY <2>1, <2>2, <2>4, <2>6, FirstAndRest
<1> HIDE DEF N, Unique
<1>3. \A m \in Nat : m \in N
  BY <1>1, <1>2, NatInductionOnSets
<1>4. Len(s) \in N
  BY <1>3
<1>5. Unique(s, t)
  BY <1>4 DEF N
<1> QED BY <1>5 DEF Unique

-----------------------------------------------------------------------------
(* Sums by FoldLeft of SequencesExt: its recursion takes the greatest index  *)
(* of a set away, and ends at what is added up in the order of the indices.  *)

\* The recursion of FoldLeft when it adds w[k] for k from 1 to n.
FoldSumsOf(w, base, n, it) ==
  it = [s \in SUBSET (1 .. n) |-> IF s = {} THEN base ELSE it[s \ {Max(s)}] + w[Max(s)]]

\* The greatest number of a set of some of the first n.
LEMMA MaxIn ==
  ASSUME NEW n \in Nat
  PROVE  /\ \A s \in SUBSET (1 .. n) : s # {} => Max(s) \in s
         /\ \A k \in 1 .. n : Max(1 .. k) = k
<1> DEFINE Greatest(s) == \E x \in s : \A y \in s : x >= y
           N == {m \in Nat : \A s \in SUBSET (1 .. m) : s # {} => Greatest(s)}
<1>1. 0 \in N
  <2>1. 1 .. 0 = {}
    OBVIOUS
  <2>2. \A s \in SUBSET (1 .. 0) : s = {}
    BY <2>1
  <2> QED BY <2>2
<1>2. ASSUME NEW m \in Nat, m \in N PROVE m + 1 \in N
  <2> SUFFICES ASSUME NEW s \in SUBSET (1 .. m + 1), s # {} PROVE Greatest(s)
    OBVIOUS
  <2>1. CASE m + 1 \in s
    BY <2>1
  <2>2. CASE m + 1 \notin s
    <3>1. s \in SUBSET (1 .. m)
      BY <2>2
    <3> QED BY <1>2, <3>1
  <2> QED BY <2>1, <2>2
<1> HIDE DEF N
<1>3. n \in N
  BY <1>1, <1>2, NatInductionOnSets
<1>4. ASSUME NEW s \in SUBSET (1 .. n), s # {} PROVE Max(s) \in s
  <2>1. \E x \in s : \A y \in s : x >= y
    BY <1>3, <1>4 DEF N
  <2> QED BY <2>1 DEF Max
<1>5. ASSUME NEW k \in 1 .. n PROVE Max(1 .. k) = k
  <2>1. k \in 1 .. k /\ \A y \in 1 .. k : k >= y
    OBVIOUS
  <2>2. \A x \in 1 .. k : (\A y \in 1 .. k : x >= y) => x = k
    BY <2>1
  <2> QED BY <2>1, <2>2 DEF Max
<1> QED BY <1>4, <1>5

\* That recursion has a solution.
LEMMA FoldSumsExist ==
  ASSUME NEW n \in Nat, NEW w \in [1 .. n -> Nat], NEW base \in Nat
  PROVE  \E it : FoldSumsOf(w, base, n, it)
<1> DEFINE it == [s \in SUBSET (1 .. n) |-> base + SetSum(w, s)]
<1>1. IsFiniteSet(1 .. n)
  BY FS_Interval
<1>2. ASSUME NEW s \in SUBSET (1 .. n)
      PROVE  it[s] = IF s = {} THEN base ELSE it[s \ {Max(s)}] + w[Max(s)]
  <2>1. CASE s = {}
    <3>1. SetSum(w, {}) = 0
      BY FS_EmptySet, SetSumAdd
    <3> QED BY <2>1, <3>1
  <2>2. CASE s # {}
    <3> DEFINE x == Max(s)
    <3>1. x \in s
      BY <2>2, MaxIn
    <3> HIDE DEF x
    <3>2. IsFiniteSet(s)
      BY <1>1, FS_Subset
    <3>3. \A y \in s : w[y] \in Nat
      OBVIOUS
    <3>4. SetSum(w, s) = w[x] + SetSum(w, s \ {x})
      <4>1. \A y \in s : SetSum(w, s) = w[y] + SetSum(w, s \ {y})
        BY <3>2, <3>3, SetSumAdd
      <4> QED BY <3>1, <4>1
    <3>8. SetSum(w, s \ {x}) \in Nat
      <4> DEFINE r == s \ {x}
      <4>0. r \subseteq s
        OBVIOUS
      <4>1. IsFiniteSet(r) /\ \A y \in r : w[y] \in Nat
        BY <3>2, <3>3, <4>0, FS_Subset
      <4> HIDE DEF r
      <4>2. SetSum(w, r) \in Nat
        BY <4>1, SetSumAdd
      <4> QED BY <4>2 DEF r
    <3>5. w[x] \in Nat
      BY <3>1, <3>3
    <3>6. it[s] = base + SetSum(w, s) /\ it[s \ {x}] = base + SetSum(w, s \ {x})
      OBVIOUS
    <3>7. it[s] = it[s \ {x}] + w[x]
      <4> HIDE DEF it
      <4> QED BY <3>4, <3>5, <3>6, <3>8
    <3> HIDE DEF it
    <3> QED BY <2>2, <3>7 DEF x
  <2> QED BY <2>1, <2>2
<1>3. it = [s \in SUBSET (1 .. n) |-> it[s]]
  OBVIOUS
<1> HIDE DEF it
<1>4. FoldSumsOf(w, base, n, it)
  BY <1>2, <1>3, Zenon DEF FoldSumsOf
<1> QED BY <1>4

\* The numbers s start at base and grow by those of w.
GrowsBy(s, base, n, w) == s[1] = base /\ \A k \in 1 .. n : s[k + 1] = s[k] + w[k]

\* Numbers that start at base and grow by w[k] reach what is folded.
LEMMA FoldSumsReached ==
  ASSUME NEW n \in Nat, NEW w \in [1 .. n -> Nat], NEW base \in Nat,
         NEW it, FoldSumsOf(w, base, n, it),
         NEW s, GrowsBy(s, base, n, w)
  PROVE  it[1 .. n] = s[n + 1]
<1> DEFINE N == {k \in Nat : k <= n => it[1 .. k] = s[k + 1]}
<1>0. \A t \in SUBSET (1 .. n) : it[t] = IF t = {} THEN base ELSE it[t \ {Max(t)}] + w[Max(t)]
  BY Zenon DEF FoldSumsOf
<1>1. 0 \in N
  <2>1. 1 .. 0 = {} /\ {} \in SUBSET (1 .. n)
    OBVIOUS
  <2>2. it[{}] = base
    BY <1>0, <2>1
  <2>3. it[1 .. 0] = base
    BY <2>1, <2>2
  <2>4. 0 + 1 = 1
    OBVIOUS
  <2> QED BY <2>3, <2>4 DEF GrowsBy
<1>2. ASSUME NEW k \in Nat, k \in N PROVE k + 1 \in N
  <2> SUFFICES ASSUME k + 1 <= n PROVE it[1 .. k + 1] = s[(k + 1) + 1]
    OBVIOUS
  <2>1. k + 1 \in 1 .. n /\ it[1 .. k] = s[k + 1]
    BY <1>2
  <2>2. Max(1 .. k + 1) = k + 1
    BY <2>1, MaxIn
  <2>3. (1 .. k + 1) \ {k + 1} = 1 .. k /\ 1 .. k + 1 # {} /\ 1 .. k + 1 \in SUBSET (1 .. n)
    <3>1. (1 .. k + 1) \ {k + 1} = 1 .. k
      OBVIOUS
    <3>2. k + 1 \in 1 .. k + 1 /\ \A y \in 1 .. k + 1 : y \in 1 .. n
      BY <2>1
    <3> QED BY <3>1, <3>2
  <2>4. it[1 .. k + 1] = it[1 .. k] + w[k + 1]
    <3> DEFINE t == 1 .. k + 1
    <3>1. it[t] = it[t \ {Max(t)}] + w[Max(t)]
      BY <1>0, <2>3
    <3>2. it[t] = it[t \ {k + 1}] + w[k + 1]
      BY <2>2, <3>1
    <3>3. t \ {k + 1} = 1 .. k
      BY <2>3
    <3> HIDE DEF t
    <3>4. it[t] = it[1 .. k] + w[k + 1]
      BY <3>2, <3>3
    <3> QED BY <3>4 DEF t
  <2>5. s[(k + 1) + 1] = s[k + 1] + w[k + 1]
    BY <2>1 DEF GrowsBy
  <2> QED BY <2>1, <2>4, <2>5
<1> HIDE DEF N
<1>3. n \in N
  BY <1>1, <1>2, NatInductionOnSets
<1> QED BY <1>3 DEF N
=============================================================================
