------------------------------- MODULE Induction -------------------------------
(* Induction over numbers and finite sets, sequences, and sums over finite    *)
(* sets: lemmas that several proofs use.                                      *)
EXTENDS Integers, Sequences, Functions, FiniteSets, FiniteSetTheorems, WellFoundedInduction, TLAPS

--------------------------------------------------------------------------------
(* Induction over the numbers up to n, with the property as a set.            *)

\* A set of natural numbers that is not empty has a least element.
LEMMA Least ==
    ASSUME NEW S \in SUBSET Nat, S # {}
    PROVE  \E n \in S : \A m \in S : n <= m
<1> DEFINE R == OpToRel(<, Nat)
<1>1. IsWellFoundedOn(R, Nat)
  BY NatLessThanWellFounded
<1>2. \E x \in S : \A y \in S : ~(<<y, x>> \in R)
  <2> HIDE DEF R
  <2> QED BY <1>1, WFMin
<1>3. \A x, y \in Nat : y < x => <<y, x>> \in R
  BY DEF OpToRel
<1> HIDE DEF R
<1>4. PICK x \in S : \A y \in S : ~(<<y, x>> \in R)
  BY <1>2
<1>5. ASSUME NEW y \in S
      PROVE  x <= y
  <2>1. x \in Nat /\ y \in Nat
    OBVIOUS
  <2>2. ~(y < x)
    BY <2>1, <1>3, <1>4
  <2> QED BY <2>1, <2>2
<1> QED BY <1>5

\* What holds of 0 and is handed from k - 1 to k holds of the numbers up to n.
LEMMA UpTo ==
    ASSUME NEW n \in Nat, NEW S, 0 \in S, \A k \in 1..n : k - 1 \in S => k \in S
    PROVE  \A k \in 0..n : k \in S
<1> SUFFICES ASSUME (0..n) \ S # {}
             PROVE  FALSE
  OBVIOUS
<1>1. (0..n) \ S \in SUBSET Nat
  OBVIOUS
<1>2. PICK k \in (0..n) \ S : \A m \in (0..n) \ S : k <= m
  BY <1>1, Least
<1>3. k \in 1..n
  OBVIOUS
<1>4. k - 1 \in 0..n /\ ~(k <= k - 1)
  BY <1>3
<1>5. k - 1 \in S
  BY <1>2, <1>4
<1> QED BY <1>3, <1>5

\* A sequence is one over the set of its elements.
LEMMA OverRange ==
    ASSUME NEW S, NEW s \in Seq(S)
    PROVE  s \in Seq(Range(s))
<1>1. Len(s) \in Nat /\ DOMAIN s = 1..Len(s) /\ s = [i \in 1..Len(s) |-> s[i]]
  OBVIOUS
<1>2. \A i \in 1..Len(s) : s[i] \in Range(s)
  BY <1>1 DEF Range
<1>3. [i \in 1..Len(s) |-> s[i]] \in Seq(Range(s))
  BY <1>1, <1>2
<1> QED BY <1>1, <1>3

--------------------------------------------------------------------------------
(* Induction over the subsets of a finite set, with the property as a set.    *)

\* What holds of the empty set and of a set with one more element holds of
\* every subset.
LEMMA SubsetsAll ==
    ASSUME NEW S, IsFiniteSet(S), NEW P, {} \in P,
           \A T \in SUBSET S : \A x \in S \ T : T \in P => T \cup {x} \in P
    PROVE  \A T \in SUBSET S : T \in P
<1>1. Cardinality(S) \in Nat /\ \A T \in SUBSET S : IsFiniteSet(T) /\ Cardinality(T) \in 0..Cardinality(S)
  <2>1. Cardinality(S) \in Nat
    BY FS_CardinalityType
  <2>2. \A T \in SUBSET S : IsFiniteSet(T) /\ Cardinality(T) <= Cardinality(S)
    BY FS_Subset
  <2>3. \A T \in SUBSET S : Cardinality(T) \in Nat
    BY <2>2, FS_CardinalityType
  <2> QED BY <2>1, <2>2, <2>3
<1> DEFINE N == {n \in 0..Cardinality(S) : \A T \in SUBSET S : Cardinality(T) = n => T \in P}
<1>2. 0 \in N
  <2>1. \A T \in SUBSET S : Cardinality(T) = 0 => T = {}
    BY <1>1, FS_EmptySet
  <2> QED BY <1>1, <2>1
<1>3. ASSUME NEW k \in 1..Cardinality(S), k - 1 \in N
      PROVE  k \in N
  <2> SUFFICES ASSUME NEW T \in SUBSET S, Cardinality(T) = k
               PROVE  T \in P
    BY <1>1
  <2>1. T # {}
    BY <1>1, FS_EmptySet
  <2>2. PICK x \in T : TRUE
    BY <2>1
  <2>3. Cardinality(T \ {x}) = k - 1
    BY <1>1, FS_RemoveElement
  <2>4. T \ {x} \in SUBSET S /\ x \in S \ (T \ {x}) /\ (T \ {x}) \cup {x} = T
    OBVIOUS
  <2>5. T \ {x} \in P
    BY <1>3, <2>3, <2>4
  <2>6. (T \ {x}) \cup {x} \in P
    BY <2>4, <2>5
  <2> QED BY <2>4, <2>6
<1>4. \A k \in 0..Cardinality(S) : k \in N
  <2> HIDE DEF N
  <2> QED BY <1>1, <1>2, <1>3, UpTo
<1> QED BY <1>1, <1>4

--------------------------------------------------------------------------------
(* Sums over finite sets: SumFunctionOnSet of the community modules.          *)

\* the recursive function by which a sum is defined, taking the elements of a
\* set in the order of CHOOSE
First(s) == CHOOSE x \in s : TRUE
Adding(f, g, s) == IF s = {} THEN 0 ELSE f[First(s)] + g[s \ {First(s)}]
Iter(f, S, g) == g = [s \in SUBSET S |-> Adding(f, g, s)]

LEMMA FirstIn ==
    ASSUME NEW s, s # {}
    PROVE  First(s) \in s
BY DEF First

\* Such a function exists for every finite set: a function for the subsets up
\* to some size gives one for the next size.
LEMMA IterExists ==
    ASSUME NEW f, NEW S, IsFiniteSet(S)
    PROVE  \E g : Iter(f, S, g)
<1>1. Cardinality(S) \in Nat /\ \A T \in SUBSET S : IsFiniteSet(T) /\ Cardinality(T) \in 0..Cardinality(S)
  <2>1. Cardinality(S) \in Nat
    BY FS_CardinalityType
  <2>2. \A T \in SUBSET S : IsFiniteSet(T) /\ Cardinality(T) <= Cardinality(S)
    BY FS_Subset
  <2>3. \A T \in SUBSET S : Cardinality(T) \in Nat
    BY <2>2, FS_CardinalityType
  <2> QED BY <2>1, <2>2, <2>3
<1> DEFINE Small(n) == {s \in SUBSET S : Cardinality(s) <= n}
           Good(n, g) == \A s \in Small(n) : g[s] = Adding(f, g, s)
           N == {n \in 0..Cardinality(S) : \E g : Good(n, g)}
<1>2. 0 \in N
  <2> DEFINE z == [s \in SUBSET S |-> 0]
  <2>1. \A s \in Small(0) : s = {}
    BY <1>1, FS_EmptySet
  <2>2. Good(0, z)
    BY <2>1 DEF Adding
  <2> QED BY <1>1, <2>2
<1>3. ASSUME NEW k \in 1..Cardinality(S), k - 1 \in N
      PROVE  k \in N
  <2>1. PICK g : Good(k - 1, g)
    BY <1>3
  <2> DEFINE h == [s \in SUBSET S |-> Adding(f, g, s)]
  <2>2. \A s \in Small(k - 1) : h[s] = g[s]
    BY <2>1
  <2>3. ASSUME NEW s \in Small(k), s # {}
        PROVE  s \ {First(s)} \in Small(k - 1)
    <3>1. First(s) \in s
      BY <2>3, FirstIn
    <3>2. Cardinality(s \ {First(s)}) = Cardinality(s) - 1
      BY <1>1, <3>1, FS_RemoveElement
    <3> QED BY <1>1, <3>2
  <2>4. ASSUME NEW s \in Small(k)
        PROVE  h[s] = Adding(f, h, s)
    <3>1. h[s] = Adding(f, g, s)
      OBVIOUS
    <3>2. s # {} => h[s \ {First(s)}] = g[s \ {First(s)}]
      BY <2>2, <2>3
    <3> HIDE DEF h
    <3> QED BY <3>1, <3>2 DEF Adding
  <2> HIDE DEF h
  <2>5. Good(k, h)
    BY <2>4
  <2> QED BY <1>1, <2>5
<1>4. Cardinality(S) \in N
  <2> HIDE DEF N
  <2> QED BY <1>1, <1>2, <1>3, UpTo
<1>5. PICK g : Good(Cardinality(S), g)
  BY <1>4
<1>6. \A s \in SUBSET S : s \in Small(Cardinality(S)) /\ s \ {First(s)} \in SUBSET S
  BY <1>1
<1> DEFINE h == [s \in SUBSET S |-> g[s]]
<1>7. \A s \in SUBSET S : g[s] = Adding(f, h, s)
  BY <1>5, <1>6 DEF Adding
<1>8. Iter(f, S, h)
  BY <1>7 DEF Iter
<1> QED BY <1>8

LEMMA SumIs ==
    ASSUME NEW f, NEW S, IsFiniteSet(S)
    PROVE  \E g : Iter(f, S, g) /\ SumFunctionOnSet(f, S) = g[S]
<1>1. \E g : Iter(f, S, g)
  BY IterExists
<1> QED BY <1>1 DEF Iter, Adding, First, SumFunctionOnSet, FoldFunctionOnSet, MapThenFoldSet

\* Two such functions agree where both are defined.
LEMMA IterSame ==
    ASSUME NEW f, NEW S, NEW T, IsFiniteSet(T), T \subseteq S, NEW g, NEW h, Iter(f, S, g), Iter(f, T, h)
    PROVE  \A s \in SUBSET T : g[s] = h[s]
<1>1. \A s \in SUBSET T : IsFiniteSet(s) /\ Cardinality(s) \in Nat /\ Cardinality(s) <= Cardinality(T)
  BY FS_Subset, FS_CardinalityType
<1>2. Cardinality(T) \in Nat
  BY FS_CardinalityType
<1>3. \A s \in SUBSET T : g[s] = Adding(f, g, s) /\ h[s] = Adding(f, h, s)
  <2>1. \A s \in SUBSET T : h[s] = Adding(f, h, s)
    BY DEF Iter
  <2>2. \A s \in SUBSET S : g[s] = Adding(f, g, s)
    BY DEF Iter
  <2> QED BY <2>1, <2>2
<1> DEFINE N == {n \in 0..Cardinality(T) : \A s \in SUBSET T : Cardinality(s) = n => g[s] = h[s]}
<1>4. 0 \in N
  <2>1. \A s \in SUBSET T : Cardinality(s) = 0 => s = {}
    BY <1>1, FS_EmptySet
  <2>2. g[{}] = 0 /\ h[{}] = 0
    BY <1>3 DEF Adding
  <2> QED BY <1>2, <2>1, <2>2
<1>5. ASSUME NEW k \in 1..Cardinality(T), k - 1 \in N
      PROVE  k \in N
  <2> SUFFICES ASSUME NEW s \in SUBSET T, Cardinality(s) = k
               PROVE  g[s] = h[s]
    BY <1>2
  <2>1. s # {}
    BY <1>1, FS_EmptySet
  <2>2. First(s) \in s
    BY <2>1, FirstIn
  <2>3. Cardinality(s \ {First(s)}) = k - 1 /\ s \ {First(s)} \in SUBSET T
    BY <1>1, <2>2, FS_RemoveElement
  <2>4. g[s \ {First(s)}] = h[s \ {First(s)}]
    BY <1>5, <2>3
  <2> QED BY <1>3, <2>1, <2>4 DEF Adding
<1>6. \A k \in 0..Cardinality(T) : k \in N
  <2> HIDE DEF N
  <2> QED BY <1>2, <1>4, <1>5, UpTo
<1> QED BY <1>1, <1>2, <1>6

LEMMA SumEmpty ==
    ASSUME NEW f
    PROVE  SumFunctionOnSet(f, {}) = 0
<1>1. IsFiniteSet({})
  BY FS_EmptySet
<1>2. PICK g : Iter(f, {}, g) /\ SumFunctionOnSet(f, {}) = g[{}]
  BY <1>1, SumIs
<1> QED BY <1>2 DEF Iter, Adding

LEMMA SumStep ==
    ASSUME NEW f, NEW S, IsFiniteSet(S), S # {}
    PROVE  SumFunctionOnSet(f, S) = f[First(S)] + SumFunctionOnSet(f, S \ {First(S)})
<1> DEFINE T == S \ {First(S)}
<1>1. IsFiniteSet(T) /\ T \subseteq S
  BY FS_Subset
<1>2. PICK g : Iter(f, S, g) /\ SumFunctionOnSet(f, S) = g[S]
  BY SumIs
<1> HIDE DEF T
<1>3. PICK h : Iter(f, T, h) /\ SumFunctionOnSet(f, T) = h[T]
  BY <1>1, SumIs
<1>4. g[T] = h[T]
  BY <1>1, <1>2, <1>3, IterSame
<1>5. g[S] = Adding(f, g, S)
  BY <1>2 DEF Iter
<1> QED BY <1>2, <1>3, <1>4, <1>5 DEF Adding, T

\* A sum of integers is an integer, and may be taken in any order.
LEMMA SumInt ==
    ASSUME NEW f, NEW S, IsFiniteSet(S), \A x \in S : f[x] \in Int
    PROVE  \A T \in SUBSET S : SumFunctionOnSet(f, T) \in Int
<1>1. \A s \in SUBSET S : IsFiniteSet(s) /\ Cardinality(s) \in Nat /\ Cardinality(s) <= Cardinality(S)
  BY FS_Subset, FS_CardinalityType
<1>2. Cardinality(S) \in Nat
  BY FS_CardinalityType
<1> DEFINE N == {n \in 0..Cardinality(S) : \A s \in SUBSET S : Cardinality(s) = n => SumFunctionOnSet(f, s) \in Int}
<1>4. 0 \in N
  <2>1. \A s \in SUBSET S : Cardinality(s) = 0 => s = {}
    BY <1>1, FS_EmptySet
  <2> QED BY <1>2, <2>1, SumEmpty
<1>5. ASSUME NEW k \in 1..Cardinality(S), k - 1 \in N
      PROVE  k \in N
  <2> SUFFICES ASSUME NEW s \in SUBSET S, Cardinality(s) = k
               PROVE  SumFunctionOnSet(f, s) \in Int
    BY <1>2
  <2>1. s # {}
    BY <1>1, FS_EmptySet
  <2>2. First(s) \in s
    BY <2>1, FirstIn
  <2>3. Cardinality(s \ {First(s)}) = k - 1 /\ s \ {First(s)} \in SUBSET S
    BY <1>1, <2>2, FS_RemoveElement
  <2>4. SumFunctionOnSet(f, s \ {First(s)}) \in Int
    BY <1>5, <2>3
  <2>5. SumFunctionOnSet(f, s) = f[First(s)] + SumFunctionOnSet(f, s \ {First(s)})
    BY <1>1, <2>1, SumStep
  <2> QED BY <2>2, <2>4, <2>5
<1>6. \A k \in 0..Cardinality(S) : k \in N
  <2> HIDE DEF N
  <2> QED BY <1>2, <1>4, <1>5, UpTo
<1> QED BY <1>1, <1>2, <1>6

LEMMA SumRemove ==
    ASSUME NEW f, NEW S, IsFiniteSet(S), \A x \in S : f[x] \in Int, NEW y \in S
    PROVE  SumFunctionOnSet(f, S) = f[y] + SumFunctionOnSet(f, S \ {y})
<1>1. \A s \in SUBSET S : IsFiniteSet(s) /\ Cardinality(s) \in Nat /\ Cardinality(s) <= Cardinality(S)
  BY FS_Subset, FS_CardinalityType
<1>2. Cardinality(S) \in Nat
  BY FS_CardinalityType
<1>3. \A s \in SUBSET S : SumFunctionOnSet(f, s) \in Int
  BY SumInt
<1> DEFINE Any(s) == \A x \in s : SumFunctionOnSet(f, s) = f[x] + SumFunctionOnSet(f, s \ {x})
           N == {n \in 0..Cardinality(S) : \A s \in SUBSET S : Cardinality(s) = n => Any(s)}
<1>4. 0 \in N
  <2>1. \A s \in SUBSET S : Cardinality(s) = 0 => s = {}
    BY <1>1, FS_EmptySet
  <2> QED BY <1>2, <2>1
<1>5. ASSUME NEW k \in 1..Cardinality(S), k - 1 \in N
      PROVE  k \in N
  <2> SUFFICES ASSUME NEW s \in SUBSET S, Cardinality(s) = k, NEW x \in s
               PROVE  SumFunctionOnSet(f, s) = f[x] + SumFunctionOnSet(f, s \ {x})
    BY <1>2
  <2> DEFINE a == First(s)
  <2>1. a \in s
    BY FirstIn
  <2>2. SumFunctionOnSet(f, s) = f[a] + SumFunctionOnSet(f, s \ {a})
    BY <1>1, SumStep
  <2> HIDE DEF a
  <2>3. CASE x = a
    BY <2>2, <2>3
  <2>4. CASE x # a
    <3>1. /\ Cardinality(s \ {a}) = k - 1 /\ s \ {a} \in SUBSET S /\ x \in s \ {a}
          /\ Cardinality(s \ {x}) = k - 1 /\ s \ {x} \in SUBSET S /\ a \in s \ {x}
      BY <1>1, <2>1, <2>4, FS_RemoveElement
    <3>2. SumFunctionOnSet(f, s \ {a}) = f[x] + SumFunctionOnSet(f, (s \ {a}) \ {x})
      BY <1>5, <3>1
    <3>3. SumFunctionOnSet(f, s \ {x}) = f[a] + SumFunctionOnSet(f, (s \ {x}) \ {a})
      BY <1>5, <3>1
    <3>4. (s \ {a}) \ {x} = (s \ {x}) \ {a} /\ (s \ {a}) \ {x} \in SUBSET S
      OBVIOUS
    <3>5. SumFunctionOnSet(f, (s \ {a}) \ {x}) \in Int /\ f[a] \in Int /\ f[x] \in Int
      BY <1>3, <2>1, <3>4
    <3>6. SumFunctionOnSet(f, (s \ {a}) \ {x}) = SumFunctionOnSet(f, (s \ {x}) \ {a})
      BY <3>4, Zenon
    <3> QED BY ONLY <2>2, <3>2, <3>3, <3>5, <3>6
  <2> QED BY <2>3, <2>4
<1>6. \A k \in 0..Cardinality(S) : k \in N
  <2> HIDE DEF N
  <2> QED BY <1>2, <1>4, <1>5, UpTo
<1>7. Any(S)
  BY <1>1, <1>2, <1>6
<1> QED BY <1>7

\* An element more.
LEMMA SumAdd ==
    ASSUME NEW f, NEW S, IsFiniteSet(S), NEW y, y \notin S, \A x \in S \cup {y} : f[x] \in Int
    PROVE  SumFunctionOnSet(f, S \cup {y}) = f[y] + SumFunctionOnSet(f, S)
<1>1. IsFiniteSet(S \cup {y})
  BY FS_AddElement
<1>2. y \in S \cup {y} /\ (S \cup {y}) \ {y} = S
  OBVIOUS
<1> QED BY <1>1, <1>2, SumRemove

\* A sum depends on the summands only.
LEMMA SumEqual ==
    ASSUME NEW f, NEW g, NEW S, IsFiniteSet(S), \A x \in S : f[x] \in Int /\ g[x] = f[x]
    PROVE  SumFunctionOnSet(g, S) = SumFunctionOnSet(f, S)
<1> DEFINE P == {T \in SUBSET S : SumFunctionOnSet(g, T) = SumFunctionOnSet(f, T)}
<1>1. {} \in P
  BY SumEmpty
<1>2. ASSUME NEW T \in SUBSET S, NEW x \in S \ T, T \in P
      PROVE  T \cup {x} \in P
  <2>1. IsFiniteSet(T) /\ (\A y \in T \cup {x} : f[y] \in Int) /\ (\A y \in T \cup {x} : g[y] \in Int)
    BY FS_Subset
  <2>2. SumFunctionOnSet(f, T \cup {x}) = f[x] + SumFunctionOnSet(f, T)
    BY <2>1, SumAdd
  <2>3. SumFunctionOnSet(g, T \cup {x}) = g[x] + SumFunctionOnSet(g, T)
    BY <2>1, SumAdd
  <2> QED BY <1>2, <2>2, <2>3
<1>3. S \in P
  <2> HIDE DEF P
  <2> QED BY <1>1, <1>2, SubsetsAll
<1> QED BY <1>3

\* A sum over two sets without a common element.
LEMMA SumUnion ==
    ASSUME NEW f, NEW A, NEW B, IsFiniteSet(A), IsFiniteSet(B), A \cap B = {}, \A x \in A \cup B : f[x] \in Int
    PROVE  SumFunctionOnSet(f, A \cup B) = SumFunctionOnSet(f, A) + SumFunctionOnSet(f, B)
<1> DEFINE P == {T \in SUBSET B : SumFunctionOnSet(f, A \cup T) = SumFunctionOnSet(f, A) + SumFunctionOnSet(f, T)}
<1>0. SumFunctionOnSet(f, A) \in Int
  BY SumInt
<1>1. {} \in P
  <2>1. A \cup {} = A
    OBVIOUS
  <2> QED BY <1>0, <2>1, SumEmpty
<1>2. ASSUME NEW T \in SUBSET B, NEW x \in B \ T, T \in P
      PROVE  T \cup {x} \in P
  <2>1. IsFiniteSet(T) /\ IsFiniteSet(A \cup T)
    BY FS_Subset, FS_Union
  <2>2. x \notin A \cup T /\ f[x] \in Int /\ SumFunctionOnSet(f, T) \in Int
    BY <2>1, SumInt
  <2>3. SumFunctionOnSet(f, T \cup {x}) = f[x] + SumFunctionOnSet(f, T)
    BY <2>1, <2>2, SumAdd
  <2>4. SumFunctionOnSet(f, (A \cup T) \cup {x}) = f[x] + SumFunctionOnSet(f, A \cup T)
    BY <2>1, <2>2, SumAdd
  <2>5. (A \cup T) \cup {x} = A \cup (T \cup {x})
    OBVIOUS
  <2>6. SumFunctionOnSet(f, A \cup T) = SumFunctionOnSet(f, A) + SumFunctionOnSet(f, T)
    BY <1>2
  <2>7. SumFunctionOnSet(f, (A \cup T) \cup {x}) = SumFunctionOnSet(f, A \cup (T \cup {x}))
    BY <2>5, Zenon
  <2>8. SumFunctionOnSet(f, A \cup (T \cup {x})) = SumFunctionOnSet(f, A) + SumFunctionOnSet(f, T \cup {x})
    BY ONLY <1>0, <2>2, <2>3, <2>4, <2>6, <2>7
  <2> QED BY <2>8
<1>3. B \in P
  <2> HIDE DEF P
  <2> QED BY <1>1, <1>2, SubsetsAll
<1> QED BY <1>3

\* One summand changes.
LEMMA SumChange ==
    ASSUME NEW f, NEW g, NEW S, IsFiniteSet(S), NEW y \in S, \A x \in S : f[x] \in Int /\ g[x] \in Int,
           \A x \in S \ {y} : g[x] = f[x]
    PROVE  SumFunctionOnSet(g, S) = SumFunctionOnSet(f, S) + g[y] - f[y]
<1>1. IsFiniteSet(S \ {y})
  BY FS_Subset
<1>2. SumFunctionOnSet(f, S) = f[y] + SumFunctionOnSet(f, S \ {y})
  BY SumRemove
<1>3. SumFunctionOnSet(g, S) = g[y] + SumFunctionOnSet(g, S \ {y})
  BY SumRemove
<1>4. SumFunctionOnSet(g, S \ {y}) = SumFunctionOnSet(f, S \ {y})
  BY <1>1, SumEqual
<1>5. SumFunctionOnSet(f, S \ {y}) \in Int
  BY SumInt
<1> QED BY <1>2, <1>3, <1>4, <1>5

\* Sums over the classes of a partition, added up.
LEMMA SumClasses ==
    ASSUME NEW f, NEW S, IsFiniteSet(S), \A x \in S : f[x] \in Int, NEW h, NEW K, IsFiniteSet(K),
           NEW C, \A k \in K : \A x : x \in C[k] <=> x \in S /\ h[x] = k,
           NEW U, \A x : x \in U <=> x \in S /\ h[x] \in K,
           NEW F, \A k \in K : F[k] = SumFunctionOnSet(f, C[k])
    PROVE  SumFunctionOnSet(F, K) = SumFunctionOnSet(f, U)
<1> DEFINE In(T) == {x \in S : h[x] \in T}
           P == {T \in SUBSET K : SumFunctionOnSet(F, T) = SumFunctionOnSet(f, In(T))}
<1>1. {} \in P
  <2>1. In({}) = {}
    OBVIOUS
  <2> QED BY <2>1, SumEmpty
<1>2. ASSUME NEW T \in SUBSET K, NEW k \in K \ T, T \in P
      PROVE  T \cup {k} \in P
  <2> DEFINE A == C[k]
             B == In(T)
  <2>1. IsFiniteSet(T) /\ IsFiniteSet(A) /\ IsFiniteSet(B)
    BY FS_Subset
  <2>2. A \cap B = {} /\ In(T \cup {k}) = A \cup B /\ \A x \in A \cup B : f[x] \in Int
    OBVIOUS
  <2>3. SumFunctionOnSet(f, A \cup B) = SumFunctionOnSet(f, A) + SumFunctionOnSet(f, B)
    <3> HIDE DEF A, B
    <3> QED BY <2>1, <2>2, SumUnion
  <2>4. \A q \in K : F[q] \in Int
    <3>1. \A q \in K : C[q] \in SUBSET S
      OBVIOUS
    <3>2. \A s \in SUBSET S : SumFunctionOnSet(f, s) \in Int
      BY SumInt
    <3> QED BY <3>1, <3>2
  <2>5. SumFunctionOnSet(F, T \cup {k}) = F[k] + SumFunctionOnSet(F, T)
    BY <2>1, <2>4, SumAdd
  <2>6. F[k] = SumFunctionOnSet(f, A) /\ SumFunctionOnSet(F, T) = SumFunctionOnSet(f, B)
    BY <1>2
  <2> HIDE DEF A, B, In
  <2>7. SumFunctionOnSet(f, In(T \cup {k})) = SumFunctionOnSet(f, A \cup B)
    BY <2>2, Zenon
  <2>8. SumFunctionOnSet(F, T \cup {k}) = SumFunctionOnSet(f, In(T \cup {k}))
    BY <2>3, <2>5, <2>6, <2>7
  <2> QED BY <2>8, Zenon
<1>3. K \in P
  <2> HIDE DEF P
  <2> QED BY ONLY IsFiniteSet(K), <1>1, <1>2, SubsetsAll
<1>4. U = In(K)
  OBVIOUS
<1> HIDE DEF In
<1>5. SumFunctionOnSet(f, U) = SumFunctionOnSet(f, In(K))
  BY <1>4, Zenon
<1> QED BY <1>3, <1>5

\* Sums add up term by term.
LEMMA SumPlus ==
    ASSUME NEW f, NEW g, NEW h, NEW S, IsFiniteSet(S), \A x \in S : f[x] \in Int /\ g[x] \in Int /\ h[x] = f[x] + g[x]
    PROVE  SumFunctionOnSet(h, S) = SumFunctionOnSet(f, S) + SumFunctionOnSet(g, S)
<1> DEFINE P == {T \in SUBSET S : SumFunctionOnSet(h, T) = SumFunctionOnSet(f, T) + SumFunctionOnSet(g, T)}
<1>1. {} \in P
  BY SumEmpty
<1>2. ASSUME NEW T \in SUBSET S, NEW x \in S \ T, T \in P
      PROVE  T \cup {x} \in P
  <2>1. IsFiniteSet(T) /\ T \cup {x} \in SUBSET S
    BY FS_Subset
  <2>2. \A y \in T \cup {x} : f[y] \in Int /\ g[y] \in Int /\ h[y] \in Int
    OBVIOUS
  <2>3. /\ SumFunctionOnSet(f, T \cup {x}) = f[x] + SumFunctionOnSet(f, T)
        /\ SumFunctionOnSet(g, T \cup {x}) = g[x] + SumFunctionOnSet(g, T)
        /\ SumFunctionOnSet(h, T \cup {x}) = h[x] + SumFunctionOnSet(h, T)
    BY <2>1, <2>2, SumAdd
  <2>4. SumFunctionOnSet(f, T) \in Int /\ SumFunctionOnSet(g, T) \in Int
    BY <2>1, <2>2, SumInt
  <2>5. SumFunctionOnSet(h, T) = SumFunctionOnSet(f, T) + SumFunctionOnSet(g, T)
    BY <1>2
  <2>6. h[x] = f[x] + g[x] /\ f[x] \in Int /\ g[x] \in Int
    OBVIOUS
  <2>7. SumFunctionOnSet(h, T \cup {x}) = SumFunctionOnSet(f, T \cup {x}) + SumFunctionOnSet(g, T \cup {x})
    BY <2>3, <2>4, <2>5, <2>6
  <2> QED BY <2>1, <2>7
<1>3. \A T \in SUBSET S : T \in P
  <2> HIDE DEF P
  <2> QED BY <1>1, <1>2, SubsetsAll
<1> QED BY <1>3

\* A sum of multiples, and of one number.
LEMMA SumScale ==
    ASSUME NEW f, NEW g, NEW S, IsFiniteSet(S), NEW c \in Int, \A x \in S : f[x] \in Int /\ g[x] = c * f[x]
    PROVE  SumFunctionOnSet(g, S) = c * SumFunctionOnSet(f, S)
<1> DEFINE P == {T \in SUBSET S : SumFunctionOnSet(g, T) = c * SumFunctionOnSet(f, T)}
<1>1. {} \in P
  BY SumEmpty
<1>2. ASSUME NEW T \in SUBSET S, NEW x \in S \ T, T \in P
      PROVE  T \cup {x} \in P
  <2>1. IsFiniteSet(T) /\ T \cup {x} \in SUBSET S
    BY FS_Subset
  <2>2. \A y \in T \cup {x} : f[y] \in Int /\ g[y] \in Int
    OBVIOUS
  <2>3. /\ SumFunctionOnSet(f, T \cup {x}) = f[x] + SumFunctionOnSet(f, T)
        /\ SumFunctionOnSet(g, T \cup {x}) = g[x] + SumFunctionOnSet(g, T)
    BY <2>1, <2>2, SumAdd
  <2>4. SumFunctionOnSet(f, T) \in Int
    BY <2>1, <2>2, SumInt
  <2>5. SumFunctionOnSet(g, T) = c * SumFunctionOnSet(f, T)
    BY <1>2
  <2>6. g[x] = c * f[x] /\ f[x] \in Int
    OBVIOUS
  <2>7. \A a, b \in Int : c * a + c * b = c * (a + b)
    OBVIOUS
  <2>8. SumFunctionOnSet(g, T \cup {x}) = c * SumFunctionOnSet(f, T \cup {x})
    BY <2>3, <2>4, <2>5, <2>6, <2>7
  <2> QED BY <2>1, <2>8
<1>3. \A T \in SUBSET S : T \in P
  <2> HIDE DEF P
  <2> QED BY <1>1, <1>2, SubsetsAll
<1> QED BY <1>3

LEMMA SumConstant ==
    ASSUME NEW f, NEW S, IsFiniteSet(S), NEW c \in Int, \A x \in S : f[x] = c
    PROVE  SumFunctionOnSet(f, S) = Cardinality(S) * c
<1> DEFINE P == {T \in SUBSET S : SumFunctionOnSet(f, T) = Cardinality(T) * c}
<1>1. {} \in P
  BY SumEmpty, FS_EmptySet
<1>2. ASSUME NEW T \in SUBSET S, NEW x \in S \ T, T \in P
      PROVE  T \cup {x} \in P
  <2>1. IsFiniteSet(T) /\ T \cup {x} \in SUBSET S
    BY FS_Subset
  <2>2. \A y \in T \cup {x} : f[y] \in Int
    OBVIOUS
  <2>3. SumFunctionOnSet(f, T \cup {x}) = f[x] + SumFunctionOnSet(f, T)
    BY <2>1, <2>2, SumAdd
  <2>4. Cardinality(T \cup {x}) = Cardinality(T) + 1 /\ Cardinality(T) \in Nat
    BY <2>1, FS_AddElement, FS_CardinalityType
  <2>5. SumFunctionOnSet(f, T) = Cardinality(T) * c
    BY <1>2
  <2>6. \A a \in Nat : c + a * c = (a + 1) * c
    OBVIOUS
  <2>7. SumFunctionOnSet(f, T \cup {x}) = Cardinality(T \cup {x}) * c
    BY <2>3, <2>4, <2>5, <2>6
  <2> QED BY <2>1, <2>7
<1>3. \A T \in SUBSET S : T \in P
  <2> HIDE DEF P
  <2> QED BY <1>1, <1>2, SubsetsAll
<1> QED BY <1>3

\* The same terms under other names.
LEMMA SumImage ==
    ASSUME NEW f, NEW g, NEW h, NEW A, NEW B, IsFiniteSet(A),
           \A x \in A : h[x] \in B /\ f[h[x]] \in Int /\ g[x] = f[h[x]],
           \A x, y \in A : h[x] = h[y] => x = y,
           \A z \in B : \E x \in A : h[x] = z
    PROVE  SumFunctionOnSet(g, A) = SumFunctionOnSet(f, B) /\ IsFiniteSet(B)
<1> DEFINE Im(T) == {h[x] : x \in T}
           P == {T \in SUBSET A : SumFunctionOnSet(g, T) = SumFunctionOnSet(f, Im(T)) /\ IsFiniteSet(Im(T))}
<1>1. {} \in P
  <2>1. Im({}) = {}
    OBVIOUS
  <2>2. SumFunctionOnSet(g, {}) = SumFunctionOnSet(f, {}) /\ IsFiniteSet({})
    BY SumEmpty, FS_EmptySet
  <2>3. SumFunctionOnSet(g, {}) = SumFunctionOnSet(f, Im({})) /\ IsFiniteSet(Im({}))
    BY <2>1, <2>2, Zenon
  <2> QED BY <2>3
<1>2. ASSUME NEW T \in SUBSET A, NEW x \in A \ T, T \in P
      PROVE  T \cup {x} \in P
  <2>1. IsFiniteSet(T) /\ T \cup {x} \in SUBSET A
    BY FS_Subset
  <2>2. Im(T \cup {x}) = Im(T) \cup {h[x]}
    OBVIOUS
  <2>3. h[x] \notin Im(T)
    OBVIOUS
  <2>4. IsFiniteSet(Im(T)) /\ SumFunctionOnSet(g, T) = SumFunctionOnSet(f, Im(T))
    BY <1>2
  <2>5. \A z \in Im(T) \cup {h[x]} : f[z] \in Int
    OBVIOUS
  <2>6. \A y \in T \cup {x} : g[y] \in Int
    OBVIOUS
  <2>7. SumFunctionOnSet(g, T \cup {x}) = g[x] + SumFunctionOnSet(g, T)
    BY <2>1, <2>6, SumAdd
  <2> DEFINE I == Im(T)
  <2> HIDE DEF I
  <2>8. SumFunctionOnSet(f, I \cup {h[x]}) = f[h[x]] + SumFunctionOnSet(f, I) /\ IsFiniteSet(I \cup {h[x]})
    <3>1. IsFiniteSet(I) /\ h[x] \notin I /\ \A z \in I \cup {h[x]} : f[z] \in Int
      BY <2>3, <2>4, <2>5 DEF I
    <3> QED BY <3>1, SumAdd, FS_AddElement
  <2>9. SumFunctionOnSet(f, Im(T \cup {x})) = f[h[x]] + SumFunctionOnSet(f, Im(T)) /\ IsFiniteSet(Im(T \cup {x}))
    <3> HIDE DEF Im
    <3> QED BY <2>2, <2>8, Zenon DEF I
  <2>10. g[x] = f[h[x]]
    OBVIOUS
  <2>11. SumFunctionOnSet(g, T \cup {x}) = SumFunctionOnSet(f, Im(T \cup {x}))
    <3> HIDE DEF Im
    <3> QED BY <2>4, <2>7, <2>9, <2>10, Zenon
  <2> HIDE DEF Im
  <2> QED BY <2>1, <2>9, <2>11
<1>3. A \in P
  <2> HIDE DEF P
  <2> QED BY <1>1, <1>2, SubsetsAll
<1>4. Im(A) = B
  OBVIOUS
<1>5. SumFunctionOnSet(g, A) = SumFunctionOnSet(f, Im(A)) /\ IsFiniteSet(Im(A))
  BY <1>3
<1> HIDE DEF Im
<1> QED BY <1>4, <1>5, Zenon

\* The order of two sums does not matter.
Transposed(S, T, F, G, f, g) ==
    /\ IsFiniteSet(S) /\ IsFiniteSet(T)
    /\ \A x \in S, y \in T : F[x][y] \in Int /\ G[y][x] = F[x][y]
    /\ \A x \in S : f[x] = SumFunctionOnSet(F[x], T)
    /\ \A y \in T : g[y] = SumFunctionOnSet(G[y], S)
LEMMA SumSwap ==
    ASSUME NEW S, NEW T, NEW F, NEW G, NEW f, NEW g, Transposed(S, T, F, G, f, g)
    PROVE  SumFunctionOnSet(f, S) = SumFunctionOnSet(g, T)
<1> USE DEF Transposed
<1> DEFINE gU(U) == [y \in T |-> SumFunctionOnSet(G[y], U)]
           P == {U \in SUBSET S : SumFunctionOnSet(f, U) = SumFunctionOnSet(gU(U), T)}
<1>0. \A x \in S : f[x] \in Int
  BY SumInt
<1>1. {} \in P
  <2>1. \A y \in T : gU({})[y] = 0
    BY SumEmpty
  <2>2. SumFunctionOnSet(gU({}), T) = Cardinality(T) * 0
    <3> HIDE DEF gU
    <3> QED BY <2>1, SumConstant
  <2>3. Cardinality(T) * 0 = 0
    BY FS_CardinalityType
  <2>4. SumFunctionOnSet(f, {}) = 0
    BY SumEmpty
  <2> HIDE DEF gU
  <2> QED BY <2>2, <2>3, <2>4
<1>2. ASSUME NEW U \in SUBSET S, NEW x \in S \ U, U \in P
      PROVE  U \cup {x} \in P
  <2>1. IsFiniteSet(U) /\ U \cup {x} \in SUBSET S
    BY FS_Subset
  <2>2. SumFunctionOnSet(f, U \cup {x}) = f[x] + SumFunctionOnSet(f, U)
    BY <1>0, <2>1, SumAdd
  <2>3. ASSUME NEW y \in T
        PROVE  /\ SumFunctionOnSet(G[y], U \cup {x}) = F[x][y] + SumFunctionOnSet(G[y], U)
               /\ SumFunctionOnSet(G[y], U) \in Int
    <3>1. \A z \in U \cup {x} : G[y][z] \in Int
      OBVIOUS
    <3>2. SumFunctionOnSet(G[y], U \cup {x}) = G[y][x] + SumFunctionOnSet(G[y], U)
      BY <2>1, <3>1, SumAdd
    <3>3. SumFunctionOnSet(G[y], U) \in Int
      BY <2>1, <3>1, SumInt
    <3> QED BY <3>2, <3>3
  <2>4. \A y \in T : F[x][y] \in Int /\ gU(U)[y] \in Int /\ gU(U \cup {x})[y] = F[x][y] + gU(U)[y]
    BY <2>3
  <2>5. SumFunctionOnSet(gU(U \cup {x}), T) = SumFunctionOnSet(F[x], T) + SumFunctionOnSet(gU(U), T)
    <3> DEFINE a == gU(U \cup {x})
               b == gU(U)
               c == F[x]
    <3>1. \A y \in T : c[y] \in Int /\ b[y] \in Int /\ a[y] = c[y] + b[y]
      BY <2>4
    <3> HIDE DEF a, b, c
    <3>2. SumFunctionOnSet(a, T) = SumFunctionOnSet(c, T) + SumFunctionOnSet(b, T)
      BY <3>1, SumPlus
    <3> QED BY <3>2 DEF a, b, c
  <2>6. SumFunctionOnSet(f, U) = SumFunctionOnSet(gU(U), T)
    BY <1>2
  <2>7. f[x] = SumFunctionOnSet(F[x], T)
    OBVIOUS
  <2> HIDE DEF gU
  <2>8. SumFunctionOnSet(f, U \cup {x}) = SumFunctionOnSet(gU(U \cup {x}), T)
    BY <2>2, <2>5, <2>6, <2>7, Zenon
  <2> QED BY <2>1, <2>8
<1>3. S \in P
  <2> HIDE DEF P
  <2> QED BY <1>1, <1>2, SubsetsAll
<1>4. SumFunctionOnSet(f, S) = SumFunctionOnSet(gU(S), T)
  BY <1>3
<1>5. \A y \in T : g[y] = gU(S)[y] /\ g[y] \in Int
  <2>1. ASSUME NEW y \in T
        PROVE  SumFunctionOnSet(G[y], S) \in Int
    <3>1. \A x \in S : G[y][x] \in Int
      OBVIOUS
    <3> QED BY <3>1, SumInt
  <2> QED BY <2>1
<1> HIDE DEF gU
<1>6. SumFunctionOnSet(gU(S), T) = SumFunctionOnSet(g, T)
  BY <1>5, SumEqual
<1> QED BY <1>4, <1>6

\* All terms but one are 0.
LEMMA SumSingle ==
    ASSUME NEW f, NEW S, IsFiniteSet(S), NEW y \in S, f[y] \in Int, \A x \in S \ {y} : f[x] = 0
    PROVE  SumFunctionOnSet(f, S) = f[y]
<1>1. IsFiniteSet(S \ {y})
  BY FS_Subset
<1>2. SumFunctionOnSet(f, S) = f[y] + SumFunctionOnSet(f, S \ {y})
  <2>1. \A x \in S : f[x] \in Int
    OBVIOUS
  <2> QED BY <2>1, SumRemove
<1>3. SumFunctionOnSet(f, S \ {y}) = Cardinality(S \ {y}) * 0
  BY <1>1, SumConstant
<1>4. Cardinality(S \ {y}) * 0 = 0
  BY <1>1, FS_CardinalityType
<1> QED BY <1>2, <1>3, <1>4

================================================================================
