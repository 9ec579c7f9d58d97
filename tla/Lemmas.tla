------------------------------- MODULE Lemmas -------------------------------
(* Facts about numbers, finite sets, sums and sequences that the proofs share. *)
(* Induction is stated with the set of the numbers, or of the parts of a set,  *)
(* for which a fact holds.                                                     *)
EXTENDS Integers, FiniteSets, Functions, SequencesExt, FiniteSetTheorems,
        WellFoundedInduction, NaturalsInduction, SequenceTheorems, TLAPS

-----------------------------------------------------------------------------
(* Numbers. *)

\* Numbers have a least one.
LEMMA Least ==
    ASSUME NEW T \in SUBSET Nat, T # {}
    PROVE  \E x \in T : \A y \in T : x <= y
<1> DEFINE R == OpToRel(<, Nat)
<1>1. \E x \in T : \A y \in T : ~ (<<y, x>> \in R)
  <2>1. IsWellFoundedOn(R, Nat)
    BY NatLessThanWellFounded
  <2> HIDE DEF R
  <2> QED
    BY <2>1, WFMin, Zenon
<1>2. PICK x \in T : \A y \in T : ~ (<<y, x>> \in R)
  BY <1>1
<1>3. ASSUME NEW y \in T, y < x PROVE FALSE
  <2>1. <<y, x>> \in R
    BY <1>3 DEF OpToRel
  <2> QED
    BY <1>2, <2>1
<1>4. \A y \in T : x <= y
  BY <1>3
<1> QED
  BY <1>4

\* Numbers below a bound have a greatest one.
LEMMA Greatest ==
    ASSUME NEW T \in SUBSET Nat, T # {}, NEW m \in Nat, \A y \in T : y <= m
    PROVE  \E x \in T : \A y \in T : y <= x
<1> DEFINE U == {m - x : x \in T}
<1>1. \A x \in T : m - x \in Nat
  OBVIOUS
<1>2. U \subseteq Nat /\ U # {}
  BY <1>1
<1>3. PICK u \in U : \A v \in U : u <= v
  <2> HIDE DEF U
  <2> QED
    BY <1>2, Least
<1>4. PICK x \in T : u = m - x
  BY <1>3
<1>5. \A y \in T : m - x <= m - y
  BY <1>3, <1>4
<1>6. \A y \in T : y <= x
  BY <1>5
<1> QED
  BY <1>6

\* What holds of zero and goes on from each number holds of all.
LEMMA EachNumber ==
    ASSUME NEW A, 0 \in A, \A n \in Nat : n \in A => n + 1 \in A
    PROVE  \A n \in Nat : n \in A
<1> DEFINE Bad == Nat \ A
<1> SUFFICES ASSUME Bad # {} PROVE FALSE
  OBVIOUS
<1>1. PICK x \in Bad : \A y \in Bad : x <= y
  <2>1. Bad \in SUBSET Nat
    OBVIOUS
  <2> HIDE DEF Bad
  <2> QED
    BY <2>1, Least
<1>2. x - 1 \in Nat /\ x - 1 \notin Bad
  BY <1>1
<1>3. x - 1 \in A /\ (x - 1) + 1 = x
  BY <1>2
<1> QED
  BY <1>1, <1>2, <1>3

LEMMA OneLess ==
    ASSUME NEW S, IsFiniteSet(S), NEW x \in S
    PROVE  /\ IsFiniteSet(S \ {x}) /\ Cardinality(S) \in Nat /\ Cardinality(S \ {x}) \in Nat
           /\ Cardinality(S \ {x}) + 1 = Cardinality(S)
<1>1. IsFiniteSet(S \ {x}) /\ Cardinality(S \ {x}) = Cardinality(S) - 1
  BY FS_RemoveElement
<1>2. Cardinality(S) \in Nat /\ Cardinality(S \ {x}) \in Nat
  BY <1>1, FS_CardinalityType
<1> QED
  BY <1>1, <1>2

\* What holds of the empty set and goes on as an element joins holds of a finite
\* set.
LEMMA EachPart ==
    ASSUME NEW S, IsFiniteSet(S), NEW A,
           {} \in A, \A T \in SUBSET S : T \in A => \A x \in S \ T : T \cup {x} \in A
    PROVE  S \in A
<1> DEFINE Good == {n \in Nat : \A T \in SUBSET S : Cardinality(T) = n => T \in A}
<1>1. \A T \in SUBSET S : IsFiniteSet(T) /\ Cardinality(T) \in Nat
  BY FS_Subset, FS_CardinalityType
<1>2. 0 \in Good
  BY <1>1, FS_EmptySet
<1>3. ASSUME NEW n \in Nat, n \in Good PROVE n + 1 \in Good
  <2> SUFFICES ASSUME NEW T \in SUBSET S, Cardinality(T) = n + 1 PROVE T \in A
    OBVIOUS
  <2>1. PICK x \in T : TRUE
    <3>1. T # {}
      BY FS_EmptySet
    <3> QED
      BY <3>1
  <2>2. Cardinality(T \ {x}) = n
    <3>1. Cardinality(T \ {x}) \in Nat /\ Cardinality(T \ {x}) + 1 = Cardinality(T)
      BY <1>1, OneLess
    <3> QED
      BY <3>1
  <2>3. T \ {x} \in A
    BY <1>3, <2>2
  <2>4. T = (T \ {x}) \cup {x} /\ x \in S \ (T \ {x})
    OBVIOUS
  <2> QED
    BY <2>3, <2>4
<1>4. Cardinality(S) \in Good
  <2> HIDE DEF Good
  <2> QED
    BY <1>1, <1>2, <1>3, EachNumber
<1> QED
  BY <1>4

-----------------------------------------------------------------------------
(* Sums. *)

Chosen(T) == CHOOSE x \in T : TRUE

\* The function behind a sum of f over S: the sums over the parts of S.
Summing(f, S, it) ==
    it = [T \in SUBSET S |-> IF T = {} THEN 0 ELSE f[Chosen(T)] + it[T \ {Chosen(T)}]]

LEMMA SumDef ==
    ASSUME NEW f, NEW S
    PROVE  SumFunctionOnSet(f, S) = (CHOOSE it : Summing(f, S, it))[S]
BY Zenon DEF SumFunctionOnSet, FoldFunctionOnSet, MapThenFoldSet, Summing, Chosen

LEMMA SummingExists ==
    ASSUME NEW f, NEW S, IsFiniteSet(S), \A x \in S : f[x] \in Int
    PROVE  \E it \in [SUBSET S -> Int] : Summing(f, S, it)
<1> DEFINE Next(it, T) == IF T = {} THEN 0 ELSE f[Chosen(T)] + it[T \ {Chosen(T)}]
           Good == {n \in Nat : \E it \in [SUBSET S -> Int] :
                       \A T \in SUBSET S : Cardinality(T) <= n => it[T] = Next(it, T)}
<1>1. \A T \in SUBSET S : IsFiniteSet(T) /\ Cardinality(T) \in Nat
  BY FS_Subset, FS_CardinalityType
<1>2. \A T \in SUBSET S : T # {} => /\ Chosen(T) \in T
                                    /\ T \ {Chosen(T)} \in SUBSET S
                                    /\ Cardinality(T \ {Chosen(T)}) = Cardinality(T) - 1
  <2> TAKE T \in SUBSET S
  <2> HAVE T # {}
  <2>1. Chosen(T) \in T
    BY Zenon DEF Chosen
  <2>2. Cardinality(T \ {Chosen(T)}) = Cardinality(T) - 1
    <3>1. /\ Cardinality(T) \in Nat /\ Cardinality(T \ {Chosen(T)}) \in Nat
          /\ Cardinality(T \ {Chosen(T)}) + 1 = Cardinality(T)
      BY <1>1, <2>1, OneLess
    <3> QED
      BY <3>1
  <2> QED
    BY <2>1, <2>2
<1>3. \A it \in [SUBSET S -> Int], T \in SUBSET S : Next(it, T) \in Int
  BY <1>2
<1>4. 0 \in Good
  <2> DEFINE zero == [T \in SUBSET S |-> 0]
  <2>1. \A T \in SUBSET S : Cardinality(T) <= 0 => T = {}
    BY <1>1, FS_EmptySet
  <2>2. zero \in [SUBSET S -> Int] /\ \A T \in SUBSET S : Cardinality(T) <= 0 => zero[T] = Next(zero, T)
    BY <2>1
  <2> QED
    BY <2>2
<1>5. ASSUME NEW n \in Nat, n \in Good PROVE n + 1 \in Good
  <2>1. PICK it \in [SUBSET S -> Int] : \A T \in SUBSET S : Cardinality(T) <= n => it[T] = Next(it, T)
    BY <1>5
  <2> DEFINE more == [T \in SUBSET S |-> IF Cardinality(T) <= n THEN it[T] ELSE Next(it, T)]
  <2>2. more \in [SUBSET S -> Int]
    BY <1>3
  <2>3. \A T \in SUBSET S : Cardinality(T) <= n + 1 => Next(more, T) = Next(it, T)
    BY <1>1, <1>2
  <2>4. \A T \in SUBSET S : Cardinality(T) <= n + 1 => more[T] = Next(more, T)
    <3> TAKE T \in SUBSET S
    <3> HAVE Cardinality(T) <= n + 1
    <3>1. more[T] = Next(it, T)
      BY <2>1
    <3> QED
      BY <2>3, <3>1
  <2> HIDE DEF more, Next
  <2> QED
    BY <2>2, <2>4
<1>6. Cardinality(S) \in Nat /\ Cardinality(S) \in Good
  <2> HIDE DEF Good
  <2> QED
    BY <1>1, <1>4, <1>5, EachNumber
<1>7. PICK it \in [SUBSET S -> Int] : \A T \in SUBSET S : Cardinality(T) <= Cardinality(S) => it[T] = Next(it, T)
  BY <1>6
<1>8. \A T \in SUBSET S : Cardinality(T) <= Cardinality(S)
  BY FS_Subset
<1>9. it = [T \in SUBSET S |-> Next(it, T)]
  <2> HIDE DEF Next
  <2> QED
    BY <1>7, <1>8
<1> QED
  BY <1>9 DEF Summing

AnyFirst(f, S, it) == \A T \in SUBSET S : \A x \in T : it[T] = f[x] + it[T \ {x}]

\* Any element may be taken out first.
LEMMA SummingAny ==
    ASSUME NEW f, NEW S, IsFiniteSet(S), \A x \in S : f[x] \in Int,
           NEW it \in [SUBSET S -> Int], Summing(f, S, it)
    PROVE  AnyFirst(f, S, it)
<1> DEFINE Good == {n \in Nat : \A T \in SUBSET S :
                       Cardinality(T) = n => \A x \in T : it[T] = f[x] + it[T \ {x}]}
<1>1. \A T \in SUBSET S : IsFiniteSet(T) /\ Cardinality(T) \in Nat
  BY FS_Subset, FS_CardinalityType
<1>2. 0 \in Good
  BY <1>1, FS_EmptySet
<1>3. ASSUME NEW n \in Nat, n \in Good PROVE n + 1 \in Good
  <2> SUFFICES ASSUME NEW T \in SUBSET S, Cardinality(T) = n + 1, NEW x \in T
               PROVE  it[T] = f[x] + it[T \ {x}]
    OBVIOUS
  <2> DEFINE y == Chosen(T)
  <2>1. y \in T
    BY Zenon DEF Chosen
  <2>2. it[T] = f[y] + it[T \ {y}]
    BY <2>1 DEF Summing
  <2>3. CASE x = y
    BY <2>2, <2>3
  <2>4. CASE x # y
    <3> HIDE DEF y
    <3>1. Cardinality(T \ {x}) = n /\ Cardinality(T \ {y}) = n
      <4>1. /\ Cardinality(T \ {x}) \in Nat /\ Cardinality(T \ {x}) + 1 = Cardinality(T)
            /\ Cardinality(T \ {y}) \in Nat /\ Cardinality(T \ {y}) + 1 = Cardinality(T)
        BY <1>1, <2>1, OneLess
      <4> QED
        BY <4>1
    <3>2. it[T \ {y}] = f[x] + it[(T \ {y}) \ {x}]
      BY <1>3, <3>1, <2>4
    <3>3. it[T \ {x}] = f[y] + it[(T \ {x}) \ {y}]
      BY <1>3, <3>1, <2>1, <2>4
    <3>4. it[(T \ {x}) \ {y}] = it[(T \ {y}) \ {x}]
      <4>1. (T \ {x}) \ {y} = (T \ {y}) \ {x}
        OBVIOUS
      <4> QED
        BY <4>1
    <3>5. it[(T \ {x}) \ {y}] \in Int /\ f[x] \in Int /\ f[y] \in Int
      BY <2>1
    <3>6. it[T] = f[y] + (f[x] + it[(T \ {x}) \ {y}])
      BY <2>2, <3>2, <3>4
    <3>7. it[T] = f[x] + (f[y] + it[(T \ {x}) \ {y}])
      BY <3>5, <3>6
    <3> QED
      BY <3>3, <3>7
  <2> QED
    BY <2>3, <2>4
<1>4. \A n \in Nat : n \in Good
  <2> HIDE DEF Good
  <2> QED
    BY <1>2, <1>3, EachNumber
<1> QED
  BY <1>1, <1>4 DEF AnyFirst

\* A sum depends on the values on its set only.
LEMMA SummingSame ==
    ASSUME NEW f, NEW S, NEW it, Summing(f, S, it), NEW g, NEW R, NEW jt, Summing(g, R, jt),
           R \subseteq S, IsFiniteSet(R), \A x \in R : f[x] = g[x]
    PROVE  \A T \in SUBSET R : it[T] = jt[T]
<1> DEFINE Good == {n \in Nat : \A T \in SUBSET R : Cardinality(T) = n => it[T] = jt[T]}
<1>1. \A T \in SUBSET R : IsFiniteSet(T) /\ Cardinality(T) \in Nat
  BY FS_Subset, FS_CardinalityType
<1>2. ASSUME NEW T \in SUBSET R
      PROVE  /\ it[T] = IF T = {} THEN 0 ELSE f[Chosen(T)] + it[T \ {Chosen(T)}]
             /\ jt[T] = IF T = {} THEN 0 ELSE g[Chosen(T)] + jt[T \ {Chosen(T)}]
  BY DEF Summing
<1>3. 0 \in Good
  BY <1>1, <1>2, FS_EmptySet
<1>4. ASSUME NEW n \in Nat, n \in Good PROVE n + 1 \in Good
  <2> SUFFICES ASSUME NEW T \in SUBSET R, Cardinality(T) = n + 1
               PROVE  it[T] = jt[T]
    OBVIOUS
  <2>1. T # {} /\ Chosen(T) \in T
    <3>1. T # {}
      BY FS_EmptySet
    <3> QED
      BY <3>1, Zenon DEF Chosen
  <2>2. Cardinality(T \ {Chosen(T)}) = n
    <3>1. Cardinality(T \ {Chosen(T)}) \in Nat /\ Cardinality(T \ {Chosen(T)}) + 1 = Cardinality(T)
      BY <1>1, <2>1, OneLess
    <3> QED
      BY <3>1
  <2>3. it[T \ {Chosen(T)}] = jt[T \ {Chosen(T)}]
    BY <1>4, <2>2
  <2> QED
    BY <1>2, <2>1, <2>3
<1>5. \A n \in Nat : n \in Good
  <2> HIDE DEF Good
  <2> QED
    BY <1>3, <1>4, EachNumber
<1> QED
  BY <1>1, <1>5

\* A sum over a part of a finite set by the function behind the sum over it all.
LEMMA SumBy ==
    ASSUME NEW f, NEW S, IsFiniteSet(S), \A x \in S : f[x] \in Int
    PROVE  \E it \in [SUBSET S -> Int] :
              /\ Summing(f, S, it)
              /\ \A T \in SUBSET S : SumFunctionOnSet(f, T) = it[T]
<1>1. PICK it \in [SUBSET S -> Int] : Summing(f, S, it)
  BY SummingExists
<1>2. ASSUME NEW T \in SUBSET S PROVE SumFunctionOnSet(f, T) = it[T]
  <2>1. IsFiniteSet(T)
    BY FS_Subset
  <2>2. \E g : Summing(f, T, g)
    BY <2>1, SummingExists
  <2> DEFINE jt == CHOOSE g : Summing(f, T, g)
  <2>3. Summing(f, T, jt)
    BY <2>2, Zenon
  <2> HIDE DEF jt
  <2>4. it[T] = jt[T]
    BY <1>1, <2>1, <2>3, SummingSame
  <2> QED
    BY <2>4, SumDef DEF jt
<1> QED
  BY <1>1, <1>2

\* A sum is nothing for the empty set, and otherwise any element and the rest.
LEMMA SumIs ==
    ASSUME NEW f, NEW S, IsFiniteSet(S), \A x \in S : f[x] \in Int
    PROVE  /\ SumFunctionOnSet(f, S) \in Int
           /\ S = {} => SumFunctionOnSet(f, S) = 0
           /\ \A x \in S : SumFunctionOnSet(f, S) = f[x] + SumFunctionOnSet(f, S \ {x})
<1>1. PICK it \in [SUBSET S -> Int] :
          /\ Summing(f, S, it)
          /\ \A T \in SUBSET S : SumFunctionOnSet(f, T) = it[T]
  BY SumBy
<1>2. SumFunctionOnSet(f, S) \in Int
  BY <1>1
<1>3. S = {} => SumFunctionOnSet(f, S) = 0
  BY <1>1 DEF Summing
<1>4. \A x \in S : it[S] = f[x] + it[S \ {x}]
  <2>1. AnyFirst(f, S, it)
    BY <1>1, SummingAny
  <2> QED
    BY <2>1 DEF AnyFirst
<1>5. \A x \in S : SumFunctionOnSet(f, S) = f[x] + SumFunctionOnSet(f, S \ {x})
  BY <1>1, <1>4
<1> QED
  BY <1>2, <1>3, <1>5

\* An element that joins adds its value.
LEMMA SumAdds ==
    ASSUME NEW f, NEW S, IsFiniteSet(S), NEW x, x \notin S, \A y \in S \cup {x} : f[y] \in Int
    PROVE  SumFunctionOnSet(f, S \cup {x}) = f[x] + SumFunctionOnSet(f, S)
<1>1. IsFiniteSet(S \cup {x})
  BY FS_AddElement
<1>2. (S \cup {x}) \ {x} = S
  OBVIOUS
<1>3. SumFunctionOnSet(f, S \cup {x}) = f[x] + SumFunctionOnSet(f, (S \cup {x}) \ {x})
  BY <1>1, SumIs
<1> QED
  BY <1>2, <1>3

LEMMA SumSame ==
    ASSUME NEW f, NEW g, NEW S, IsFiniteSet(S),
           \A x \in S : f[x] \in Int /\ f[x] = g[x]
    PROVE  SumFunctionOnSet(f, S) = SumFunctionOnSet(g, S)
<1>1. PICK it \in [SUBSET S -> Int] :
          /\ Summing(f, S, it)
          /\ \A T \in SUBSET S : SumFunctionOnSet(f, T) = it[T]
  BY SumBy
<1>2. PICK jt \in [SUBSET S -> Int] :
          /\ Summing(g, S, jt)
          /\ \A T \in SUBSET S : SumFunctionOnSet(g, T) = jt[T]
  <2>1. \A x \in S : g[x] \in Int
    OBVIOUS
  <2> QED
    BY <2>1, SumBy
<1>3. it[S] = jt[S]
  BY <1>1, <1>2, SummingSame
<1> QED
  BY <1>1, <1>2, <1>3

\* The size of a set is a sum of ones.
LEMMA SumOfOnes ==
    ASSUME NEW f, NEW S, IsFiniteSet(S), \A x \in S : f[x] = 1
    PROVE  SumFunctionOnSet(f, S) = Cardinality(S)
<1> DEFINE Good == {T \in SUBSET S : SumFunctionOnSet(f, T) = Cardinality(T)}
<1>1. {} \in Good
  BY FS_EmptySet, SumIs
<1>2. ASSUME NEW T \in SUBSET S, T \in Good, NEW x \in S \ T PROVE T \cup {x} \in Good
  <2>1. IsFiniteSet(T)
    BY FS_Subset
  <2>2. Cardinality(T \cup {x}) = Cardinality(T) + 1 /\ Cardinality(T) \in Nat
    BY <2>1, FS_AddElement, FS_CardinalityType
  <2>3. SumFunctionOnSet(f, T \cup {x}) = f[x] + SumFunctionOnSet(f, T)
    BY <2>1, SumAdds
  <2> QED
    BY <1>2, <2>2, <2>3
<1>3. S \in Good
  <2> HIDE DEF Good
  <2> QED
    BY <1>1, <1>2, EachPart
<1> QED
  BY <1>3

\* The key of an element says in which part it is.
Divides(key, parts, S, K) ==
    /\ key \in [S -> K]
    /\ parts \in [K -> SUBSET S]
    /\ \A k \in K : \A x \in S : x \in parts[k] <=> key[x] = k

\* The sums over the parts that a key divides a set into make up its sum.
LEMMA SumByKey ==
    ASSUME NEW f, NEW S, IsFiniteSet(S), \A x \in S : f[x] \in Int,
           NEW K, IsFiniteSet(K), NEW key, NEW parts, Divides(key, parts, S, K), NEW sums,
           \A k \in K : sums[k] = SumFunctionOnSet(f, parts[k])
    PROVE  SumFunctionOnSet(f, S) = SumFunctionOnSet(sums, K)
<1> DEFINE Part(T, k) == {x \in T : key[x] = k}
           Sums(T) == [k \in K |-> SumFunctionOnSet(f, Part(T, k))]
           Good == {T \in SUBSET S : SumFunctionOnSet(f, T) = SumFunctionOnSet(Sums(T), K)}
<1>k. key \in [S -> K]
  BY DEF Divides
<1>1. ASSUME NEW T \in SUBSET S
      PROVE  /\ IsFiniteSet(T)
             /\ \A k \in K : IsFiniteSet(Part(T, k)) /\ Sums(T)[k] \in Int
  <2>1. IsFiniteSet(T)
    BY FS_Subset
  <2>2. ASSUME NEW k \in K PROVE IsFiniteSet(Part(T, k)) /\ Sums(T)[k] \in Int
    <3>1. IsFiniteSet(Part(T, k)) /\ Part(T, k) \subseteq S
      BY FS_Subset
    <3>2. SumFunctionOnSet(f, Part(T, k)) \in Int
      BY <3>1, SumIs
    <3> QED
      BY <3>1, <3>2
  <2> QED
    BY <2>1, <2>2
<1>2. {} \in Good
  <2>1. SumFunctionOnSet(f, {}) = 0
    BY SumIs, FS_EmptySet
  <2>2. \A k \in K : Sums({})[k] = 0
    BY <2>1
  <2> DEFINE Zeros == {T \in SUBSET K : SumFunctionOnSet(Sums({}), T) = 0}
  <2> HIDE DEF Sums
  <2>3. {} \in Zeros
    BY SumIs, FS_EmptySet
  <2>4. ASSUME NEW T \in SUBSET K, T \in Zeros, NEW k \in K \ T PROVE T \cup {k} \in Zeros
    <3>1. IsFiniteSet(T)
      BY FS_Subset
    <3>2. SumFunctionOnSet(Sums({}), T \cup {k}) = Sums({})[k] + SumFunctionOnSet(Sums({}), T)
      BY <2>2, <3>1, SumAdds
    <3> QED
      BY <2>2, <2>4, <3>2
  <2>5. K \in Zeros
    <3> HIDE DEF Zeros
    <3> QED
      BY <2>3, <2>4, EachPart
  <2> QED
    BY <2>1, <2>5
<1>3. ASSUME NEW T \in SUBSET S, T \in Good, NEW x \in S \ T PROVE T \cup {x} \in Good
  <2> DEFINE U == T \cup {x}
             k == key[x]
  <2>1. k \in K /\ U \in SUBSET S /\ f[x] \in Int
    BY <1>k
  <2>2. SumFunctionOnSet(f, U) = f[x] + SumFunctionOnSet(f, T)
    BY <1>1, SumAdds
  <2>3. \A j \in K \ {k} : Sums(U)[j] = Sums(T)[j]
    <3>1. \A j \in K \ {k} : Part(U, j) = Part(T, j)
      OBVIOUS
    <3> QED
      BY <3>1
  <2>4. Sums(U)[k] = f[x] + Sums(T)[k]
    <3>1. Part(U, k) = Part(T, k) \cup {x} /\ x \notin Part(T, k) /\ Part(T, k) \subseteq S
      OBVIOUS
    <3>2. IsFiniteSet(Part(T, k)) /\ \A y \in Part(T, k) \cup {x} : f[y] \in Int
      BY <1>1, <2>1, <3>1
    <3> HIDE DEF Part
    <3>3. SumFunctionOnSet(f, Part(T, k) \cup {x}) = f[x] + SumFunctionOnSet(f, Part(T, k))
      BY <3>1, <3>2, SumAdds
    <3> QED
      BY <2>1, <3>1, <3>3
  <2>5. /\ IsFiniteSet(K \ {k})
        /\ \A j \in K : Sums(T)[j] \in Int /\ Sums(U)[j] \in Int
    BY <1>1, <2>1, FS_RemoveElement
  <2> HIDE DEF Sums, k, U
  <2>6. SumFunctionOnSet(Sums(U), K) = Sums(U)[k] + SumFunctionOnSet(Sums(U), K \ {k})
    BY <2>1, <2>5, SumIs
  <2>7. SumFunctionOnSet(Sums(T), K) = Sums(T)[k] + SumFunctionOnSet(Sums(T), K \ {k})
    BY <2>1, <2>5, SumIs
  <2>8. SumFunctionOnSet(Sums(U), K \ {k}) = SumFunctionOnSet(Sums(T), K \ {k})
    BY <2>3, <2>5, SumSame
  <2>9. SumFunctionOnSet(Sums(T), K \ {k}) \in Int
    BY <2>5, SumIs
  <2>10. SumFunctionOnSet(f, T) = SumFunctionOnSet(Sums(T), K)
    BY <1>3
  <2>11. SumFunctionOnSet(f, U) = SumFunctionOnSet(Sums(U), K)
    BY <2>1, <2>2, <2>4, <2>5, <2>6, <2>7, <2>8, <2>9, <2>10
  <2> QED
    BY <2>1, <2>11 DEF U
<1>4. S \in Good
  <2> HIDE DEF Good
  <2> QED
    BY <1>2, <1>3, EachPart
<1>5. SumFunctionOnSet(Sums(S), K) = SumFunctionOnSet(sums, K)
  <2>1. \A k \in K : Part(S, k) = parts[k]
    BY DEF Divides
  <2>2. \A k \in K : Sums(S)[k] = sums[k]
    <3> HIDE DEF Part
    <3> QED
      BY <2>1
  <2>3. \A k \in K : Sums(S)[k] \in Int
    BY <1>1
  <2> HIDE DEF Sums
  <2> QED
    BY <2>2, <2>3, SumSame
<1> QED
  BY <1>4, <1>5

-----------------------------------------------------------------------------
(* Sequences. *)

\* The function behind the first n parts put one after the other.
Flattening(parts, n, flat) ==
    flat = [i \in 1..n |-> IF i = 1 THEN parts[i] ELSE flat[i - 1] \o parts[i]]

LEMMA FlattenDef ==
    ASSUME NEW parts, Len(parts) # 0
    PROVE  FlattenSeq(parts) = (CHOOSE flat : Flattening(parts, Len(parts), flat))[Len(parts)]
BY Zenon DEF FlattenSeq, Flattening

LEMMA FlatteningAt ==
    ASSUME NEW parts, NEW n \in Nat, NEW flat, Flattening(parts, n, flat), NEW i \in 1..n
    PROVE  flat[i] = IF i = 1 THEN parts[i] ELSE flat[i - 1] \o parts[i]
<1> DEFINE Value(j) == IF j = 1 THEN parts[j] ELSE flat[j - 1] \o parts[j]
<1>1. flat = [j \in 1..n |-> Value(j)]
  BY DEF Flattening
<1> HIDE DEF Value
<1>2. flat[i] = Value(i)
  BY <1>1, Zenon
<1> QED
  BY <1>2 DEF Value

LEMMA FlatteningExists ==
    ASSUME NEW parts, NEW n \in Nat
    PROVE  \E flat : Flattening(parts, n, flat)
<1> DEFINE Good == {m \in Nat : \E flat : Flattening(parts, m, flat)}
<1>1. 0 \in Good
  <2> DEFINE none == [i \in 1..0 |-> parts]
  <2>1. Flattening(parts, 0, none)
    BY DEF Flattening
  <2> QED
    BY <2>1
<1>2. ASSUME NEW m \in Nat, m \in Good PROVE m + 1 \in Good
  <2>1. PICK flat : Flattening(parts, m, flat)
    BY <1>2
  <2> DEFINE more == [i \in 1..(m + 1) |->
                         IF i <= m THEN flat[i]
                         ELSE IF i = 1 THEN parts[i] ELSE flat[i - 1] \o parts[i]]
  <2>2. \A i \in 1..(m + 1) : i <= m => flat[i] = IF i = 1 THEN parts[i] ELSE flat[i - 1] \o parts[i]
    <3> TAKE i \in 1..(m + 1)
    <3> HAVE i <= m
    <3>1. i \in 1..m
      OBVIOUS
    <3> QED
      BY <2>1, <3>1, FlatteningAt
  <2>3. \A i \in 1..(m + 1) : i # 1 => more[i - 1] = flat[i - 1]
    OBVIOUS
  <2>4. \A i \in 1..(m + 1) : more[i] = IF i = 1 THEN parts[i] ELSE more[i - 1] \o parts[i]
    <3> TAKE i \in 1..(m + 1)
    <3>1. more[i] = IF i = 1 THEN parts[i] ELSE flat[i - 1] \o parts[i]
      BY <2>2
    <3> HIDE DEF more
    <3> QED
      BY <2>3, <3>1
  <2>5. more = [i \in 1..(m + 1) |-> IF i = 1 THEN parts[i] ELSE more[i - 1] \o parts[i]]
    <3>1. more = [i \in 1..(m + 1) |-> more[i]]
      OBVIOUS
    <3> HIDE DEF more
    <3> QED
      BY <2>4, <3>1
  <2> HIDE DEF more
  <2>6. Flattening(parts, m + 1, more)
    BY <2>5 DEF Flattening
  <2> QED
    BY <2>6
<1>3. n \in Good
  <2> HIDE DEF Good
  <2> QED
    BY <1>1, <1>2, EachNumber
<1> QED
  BY <1>3

\* x stands in w after the first o elements.
Stands(w, o, x) ==
    /\ o \in Nat /\ o + Len(x) <= Len(w)
    /\ \A j \in 1..Len(x) : w[o + j] = x[j]

LEMMA StandsIn ==
    ASSUME NEW C, NEW w \in Seq(C), NEW x \in Seq(C), NEW y \in Seq(C), NEW o, NEW p,
           Stands(w, o, x), Stands(x, p, y)
    PROVE  Stands(w, o + p, y)
<1>1. /\ o \in Nat /\ p \in Nat /\ Len(x) \in Nat /\ Len(y) \in Nat /\ Len(w) \in Nat
      /\ o + Len(x) <= Len(w) /\ p + Len(y) <= Len(x)
  BY DEF Stands
<1>2. ASSUME NEW j \in 1..Len(y) PROVE w[(o + p) + j] = y[j]
  <2>1. p + j \in 1..Len(x) /\ x[p + j] = y[j]
    BY <1>1 DEF Stands
  <2>2. w[o + (p + j)] = x[p + j]
    BY <2>1 DEF Stands
  <2>3. o + (p + j) = (o + p) + j
    BY <1>1
  <2> QED
    BY <2>1, <2>2, <2>3
<1> QED
  BY <1>1, <1>2 DEF Stands

LEMMA StandsConcat ==
    ASSUME NEW C, NEW x \in Seq(C), NEW y \in Seq(C)
    PROVE  /\ x \o y \in Seq(C) /\ Len(x \o y) = Len(x) + Len(y)
           /\ Stands(x \o y, 0, x) /\ Stands(x \o y, Len(x), y)
<1> DEFINE w == x \o y
<1>1. /\ w \in Seq(C) /\ Len(w) = Len(x) + Len(y)
      /\ \A i \in 1..Len(x) + Len(y) : w[i] = IF i <= Len(x) THEN x[i] ELSE y[i - Len(x)]
  BY ConcatProperties
<1>2. Len(x) \in Nat /\ Len(y) \in Nat
  OBVIOUS
<1> HIDE DEF w
<1>3. Stands(w, 0, x)
  BY <1>1, <1>2 DEF Stands
<1>4. Stands(w, Len(x), y)
  <2>1. \A j \in 1..Len(y) : Len(x) + j \in 1..Len(x) + Len(y) /\ ~ (Len(x) + j <= Len(x)) /\ (Len(x) + j) - Len(x) = j
    BY <1>2
  <2>2. \A j \in 1..Len(y) : w[Len(x) + j] = y[j]
    BY <1>1, <2>1
  <2> QED
    BY <1>1, <1>2, <2>2 DEF Stands
<1> QED
  BY <1>1, <1>3, <1>4 DEF w

\* Where each part stands in the parts put one after the other.
LEMMA FlattenIs ==
    ASSUME NEW C, NEW parts \in Seq(Seq(C))
    PROVE  /\ FlattenSeq(parts) \in Seq(C)
           /\ \E off \in [0..Len(parts) -> Nat] :
                 /\ off[0] = 0 /\ off[Len(parts)] = Len(FlattenSeq(parts))
                 /\ \A i \in 1..Len(parts) :
                       /\ off[i] = off[i - 1] + Len(parts[i])
                       /\ Stands(FlattenSeq(parts), off[i - 1], parts[i])
<1>n. /\ Len(parts) \in Nat /\ \A i \in 1..Len(parts) : parts[i] \in Seq(C)
      /\ Len(parts) # 0 => 1 \in 1..Len(parts) /\ Len(parts) \in 1..Len(parts)
  OBVIOUS
<1>1. CASE Len(parts) = 0
  <2>1. parts = <<>> /\ FlattenSeq(parts) = <<>>
    BY <1>1 DEF FlattenSeq
  <2> DEFINE off == [i \in 0..0 |-> 0]
  <2>2. /\ off \in [0..Len(parts) -> Nat] /\ off[0] = 0 /\ off[Len(parts)] = Len(FlattenSeq(parts))
        /\ 1..Len(parts) = {}
    BY <1>1, <2>1
  <2> HIDE DEF off
  <2> QED
    BY <2>1, <2>2
<1>2. CASE Len(parts) # 0
  <2> DEFINE N == Len(parts)
             flat == CHOOSE f : Flattening(parts, N, f)
  <2>1. Flattening(parts, N, flat)
    BY <1>n, FlatteningExists, Zenon
  <2>2. FlattenSeq(parts) = flat[N]
    BY <1>2, FlattenDef
  <2> HIDE DEF flat
  <2>a. N \in Nat /\ 1 \in 1..N /\ N \in 1..N
    BY <1>n, <1>2
  <2> HIDE DEF N
  <2>3. /\ N \in Nat /\ 1 \in 1..N /\ N \in 1..N /\ flat[1] = parts[1]
        /\ \A i \in 1..N : i # 1 => i - 1 \in 1..N /\ flat[i] = flat[i - 1] \o parts[i]
    <3>1. \A i \in 1..N : flat[i] = IF i = 1 THEN parts[i] ELSE flat[i - 1] \o parts[i]
      BY <2>1, <2>a, FlatteningAt
    <3>2. ASSUME NEW i \in 1..N, i # 1 PROVE i - 1 \in 1..N /\ flat[i] = flat[i - 1] \o parts[i]
      <4>1. i - 1 \in 1..N
        BY <2>a, <3>2
      <4>2. flat[i] = flat[i - 1] \o parts[i]
        BY <3>1, <3>2, Zenon
      <4> QED
        BY <4>1, <4>2, Zenon
    <3>3. flat[1] = parts[1]
      BY <2>a, <3>1
    <3> QED
      BY <2>a, <3>2, <3>3, Zenon
  <2>4. \A n \in Nat : n \in 1..N => flat[n] \in Seq(C)
    <3> DEFINE Good == {n \in Nat : n \in 1..N => flat[n] \in Seq(C)}
    <3>1. 0 \in Good
      OBVIOUS
    <3>2. ASSUME NEW n \in Nat, n \in Good PROVE n + 1 \in Good
      <4> SUFFICES ASSUME n + 1 \in 1..N PROVE flat[n + 1] \in Seq(C)
        OBVIOUS
      <4>1. parts[n + 1] \in Seq(C)
        BY <1>n DEF N
      <4>2. CASE n = 0
        BY <2>3, <4>1, <4>2
      <4>3. CASE n # 0
        <5>1. n \in 1..N /\ (n + 1) # 1 /\ (n + 1) - 1 = n
          BY <2>3, <4>3
        <5>2. flat[n] \in Seq(C) /\ flat[n + 1] = flat[n] \o parts[n + 1]
          BY <2>3, <3>2, <5>1
        <5> QED
          BY <4>1, <5>2
      <4> QED
        BY <4>2, <4>3
    <3> HIDE DEF Good
    <3>3. \A n \in Nat : n \in Good
      BY <3>1, <3>2, EachNumber
    <3> QED
      BY <3>3 DEF Good
  <2> DEFINE off == [i \in 0..N |-> IF i = 0 THEN 0 ELSE Len(flat[i])]
  <2>5. off \in [0..N -> Nat] /\ off[0] = 0 /\ \A i \in 1..N : off[i] = Len(flat[i])
    <3>1. \A i \in 1..N : Len(flat[i]) \in Nat
      BY <2>3, <2>4
    <3> QED
      BY <2>3, <3>1
  <2>6. ASSUME NEW i \in 1..N
        PROVE  /\ off[i] = off[i - 1] + Len(parts[i])
               /\ Stands(flat[i], off[i - 1], parts[i])
    <3>1. parts[i] \in Seq(C) /\ flat[i] \in Seq(C)
      BY <1>n, <2>4 DEF N
    <3>a. off[i] = Len(flat[i]) /\ (i # 1 => i - 1 \in 1..N /\ off[i - 1] = Len(flat[i - 1])) /\ off[0] = 0
      BY <2>3, <2>5
    <3> HIDE DEF off
    <3>2. CASE i = 1
      BY <2>3, <3>1, <3>2, <3>a DEF Stands
    <3>3. CASE i # 1
      <4>1. i - 1 \in 1..N /\ flat[i] = flat[i - 1] \o parts[i]
        BY <2>3, <3>3
      <4>2. flat[i - 1] \in Seq(C)
        BY <2>4, <4>1
      <4>3. /\ Len(flat[i]) = Len(flat[i - 1]) + Len(parts[i])
            /\ Stands(flat[i], Len(flat[i - 1]), parts[i])
        <5> DEFINE x == flat[i - 1]
                   y == parts[i]
        <5>1. x \in Seq(C) /\ y \in Seq(C) /\ flat[i] = x \o y
          BY <3>1, <4>1, <4>2, Zenon
        <5> HIDE DEF x, y
        <5>2. Len(x \o y) = Len(x) + Len(y) /\ Stands(x \o y, Len(x), y)
          BY <5>1, StandsConcat
        <5>3. Len(flat[i]) = Len(x) + Len(y) /\ Stands(flat[i], Len(x), y)
          BY <5>1, <5>2, Zenon
        <5> QED
          BY <5>3 DEF x, y
      <4> QED
        BY <3>3, <3>a, <4>3
    <3> QED
      BY <3>2, <3>3
  <2>7. \A n \in Nat : n \in 1..N => \A i \in 1..n : Stands(flat[n], 0, flat[i])
    <3> DEFINE Good == {n \in Nat : n \in 1..N => \A i \in 1..n : Stands(flat[n], 0, flat[i])}
    <3>1. 0 \in Good
      OBVIOUS
    <3>2. ASSUME NEW n \in Nat, n \in Good PROVE n + 1 \in Good
      <4> SUFFICES ASSUME n + 1 \in 1..N, NEW i \in 1..(n + 1) PROVE Stands(flat[n + 1], 0, flat[i])
        OBVIOUS
      <4>0. i \in 1..N /\ flat[i] \in Seq(C) /\ flat[n + 1] \in Seq(C) /\ parts[n + 1] \in Seq(C)
        BY <1>n, <2>3, <2>4 DEF N
      <4>1. CASE i = n + 1
        BY <4>0, <4>1 DEF Stands
      <4>2. CASE i # n + 1
        <5>1. n \in 1..N /\ i \in 1..n /\ (n + 1) # 1 /\ (n + 1) - 1 = n
          BY <2>3, <4>2
        <5>2. flat[n] \in Seq(C) /\ flat[n + 1] = flat[n] \o parts[n + 1]
          BY <2>3, <2>4, <5>1
        <5>3. Stands(flat[n], 0, flat[i])
          BY <3>2, <5>1
        <5>4. Stands(flat[n + 1], 0, flat[n])
          <6> DEFINE x == flat[n]
                     y == parts[n + 1]
          <6>1. x \in Seq(C) /\ y \in Seq(C) /\ flat[n + 1] = x \o y
            BY <4>0, <5>2, Zenon
          <6> HIDE DEF x, y
          <6>2. Stands(x \o y, 0, x)
            BY <6>1, StandsConcat
          <6>3. Stands(flat[n + 1], 0, x)
            BY <6>1, <6>2, Zenon
          <6> QED
            BY <6>3 DEF x
        <5>5. Stands(flat[n + 1], 0 + 0, flat[i])
          BY <4>0, <5>2, <5>3, <5>4, StandsIn
        <5> QED
          BY <5>5
      <4> QED
        BY <4>1, <4>2
    <3> HIDE DEF Good
    <3>3. \A n \in Nat : n \in Good
      BY <3>1, <3>2, EachNumber
    <3> QED
      BY <3>3 DEF Good
  <2>8. ASSUME NEW i \in 1..N PROVE Stands(flat[N], off[i - 1], parts[i])
    <3>1. Stands(flat[N], 0, flat[i]) /\ i \in Nat
      BY <2>3, <2>7
    <3>2. flat[N] \in Seq(C) /\ flat[i] \in Seq(C) /\ parts[i] \in Seq(C)
      BY <1>n, <2>3, <2>4 DEF N
    <3> HIDE DEF off
    <3>3. Stands(flat[i], off[i - 1], parts[i]) /\ off[i - 1] \in Nat
      BY <2>6 DEF Stands
    <3>4. Stands(flat[N], 0 + off[i - 1], parts[i])
      BY <3>1, <3>2, <3>3, StandsIn
    <3> QED
      BY <3>3, <3>4
  <2> HIDE DEF off
  <2> QED
    BY <2>2, <2>3, <2>4, <2>5, <2>6, <2>8 DEF N
<1> QED
  BY <1>1, <1>2

=============================================================================
