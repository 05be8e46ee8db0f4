---------------------------- MODULE SetInduction -----------------------------
(***************************************************************************)
(* Induction over numbers and finite sets, stated with the set of what has *)
(* a property in place of the property, and what it gives for sums.        *)
(*                                                                         *)
(* A recursive function is a CHOOSE of a function that meets its equation. *)
(* That there is one is proved by induction over what the recursion        *)
(* descends on.                                                            *)
(***************************************************************************)
EXTENDS Integers, Functions, FiniteSetTheorems, WellFoundedInduction,
        NaturalsInduction, TLAPS

LEMMA LeastNat ==
  ASSUME NEW S \in SUBSET Nat, S # {}
  PROVE  \E i \in S : \A j \in S : i <= j
<1> DEFINE R == {ij \in Nat \X Nat : ij[1] < ij[2]}
<1>1. R = OpToRel(<, Nat)
  BY DEF OpToRel
<1>2. IsWellFoundedOn(R, Nat)
  BY <1>1, NatLessThanWellFounded
<1>3. PICK i \in S : \A j \in S : ~(<<j, i>> \in R)
  BY <1>2, WFMin
<1>4. ASSUME NEW j \in S PROVE i <= j
  <2>1. <<j, i>> \in Nat \X Nat /\ ~(j < i)
    BY <1>3
  <2> QED  BY <2>1, SMT
<1> QED  BY <1>4

(* What 0 has and each number hands on to the next, every number has.      *)
LEMMA NatSetInduction ==
  ASSUME NEW S, 0 \in S, \A n \in Nat : n \in S => n + 1 \in S
  PROVE  Nat \subseteq S
<1> DEFINE Bad == Nat \ S
<1> SUFFICES ASSUME Bad # {} PROVE FALSE
  OBVIOUS
<1>1. PICK i \in Bad : \A j \in Bad : i <= j
  BY LeastNat
<1>2. i # 0 /\ i - 1 \in Nat
  BY <1>1
<1>3. i - 1 \in S
  BY <1>1, <1>2
<1> QED  BY <1>2, <1>3

(* What the empty set has and passes on with every element, S has.         *)
LEMMA FiniteSetInduction ==
  ASSUME NEW S, IsFiniteSet(S), NEW C, {} \in C,
         \A T \in SUBSET S : \A x \in S \ T : T \in C => T \cup {x} \in C
  PROVE  S \in C
<1> DEFINE N == {n \in Nat : \A T \in SUBSET S : Cardinality(T) = n => T \in C}
<1>1. \A T \in SUBSET S : IsFiniteSet(T) /\ Cardinality(T) \in Nat
  BY FS_Subset, FS_CardinalityType
<1>2. 0 \in N
  BY <1>1, FS_EmptySet
<1>3. ASSUME NEW n \in Nat, n \in N PROVE n + 1 \in N
  <2> SUFFICES ASSUME NEW T \in SUBSET S, Cardinality(T) = n + 1 PROVE T \in C
    OBVIOUS
  <2>1. PICK x \in T : TRUE
    BY <1>1, FS_EmptySet
  <2>2. Cardinality(T \ {x}) = n
    <3>1. Cardinality(T \ {x}) = Cardinality(T) - 1
      BY <1>1, <2>1, FS_RemoveElement
    <3> QED  BY <3>1
  <2>3. T \ {x} \in SUBSET S /\ x \in S \ (T \ {x}) /\ T = (T \ {x}) \cup {x}
    BY <2>1
  <2>4. T \ {x} \in C
    BY <1>3, <2>2, <2>3
  <2> HIDE DEF N
  <2> QED  BY <2>3, <2>4
<1>4. Nat \subseteq N
  BY <1>2, <1>3, NatSetInduction
<1>5. Cardinality(S) \in N
  BY <1>1, <1>4
<1> QED  BY <1>5

(* A finite set of integers has a largest and a smallest element.          *)
LEMMA Extremes ==
  ASSUME NEW S \in SUBSET Int, IsFiniteSet(S), S # {}
  PROVE  /\ \E i \in S : \A j \in S : i <= j
         /\ \E i \in S : \A j \in S : i >= j
<1> DEFINE C == {T \in SUBSET S : T # {} => /\ \E i \in T : \A j \in T : i <= j
                                            /\ \E i \in T : \A j \in T : i >= j}
<1>1. {} \in C
  OBVIOUS
<1>2. ASSUME NEW T \in SUBSET S, NEW x \in S \ T, T \in C
      PROVE  T \cup {x} \in C
  <2>1. CASE T = {}
    <3>1. T \cup {x} = {x} /\ x <= x /\ x >= x
      BY <2>1
    <3> QED  BY <3>1
  <2>2. CASE T # {}
    <3>1. PICK l \in T : \A j \in T : l <= j
      BY <1>2, <2>2
    <3>2. PICK h \in T : \A j \in T : h >= j
      BY <1>2, <2>2
    <3>3. \E i \in T \cup {x} : \A j \in T \cup {x} : i <= j
      BY <3>1
    <3>4. \E i \in T \cup {x} : \A j \in T \cup {x} : i >= j
      BY <3>2
    <3> QED  BY <3>3, <3>4
  <2> QED  BY <2>1, <2>2
<1> HIDE DEF C
<1>3. S \in C
  BY <1>1, <1>2, FiniteSetInduction
<1> QED  BY <1>3 DEF C

(* What a function takes on a finite set is a finite set.                  *)
LEMMA FiniteImage ==
  ASSUME NEW D, IsFiniteSet(D), NEW f
  PROVE  IsFiniteSet({f[x] : x \in D})
<1> DEFINE T == {f[x] : x \in D}
           g == [x \in D |-> f[x]]
<1>1. g \in Surjection(D, T)
  BY DEF Surjection
<1> HIDE DEF g, T
<1>2. IsFiniteSet(T)
  BY <1>1, FS_Surjection
<1> QED  BY <1>2 DEF T

-----------------------------------------------------------------------------
(***************************************************************************)
(* SumFunctionOnSet of the community modules.                              *)
(***************************************************************************)
Some(S) == CHOOSE x \in S : TRUE

Sums(f, S, g) ==
  g = [T \in SUBSET S |-> IF T = {} THEN 0 ELSE f[Some(T)] + g[T \ {Some(T)}]]

LEMMA SomeIn == \A S : S # {} => Some(S) \in S
  BY DEF Some

LEMMA SumsExist ==
  ASSUME NEW f, NEW S, IsFiniteSet(S)
  PROVE  \E g : Sums(f, S, g)
<1> DEFINE Small(n) == {T \in SUBSET S : Cardinality(T) <= n}
           P(n, g) == g = [T \in Small(n) |->
                             IF T = {} THEN 0 ELSE f[Some(T)] + g[T \ {Some(T)}]]
           N == {n \in Nat : \E g : P(n, g)}
<1>1. \A T \in SUBSET S : IsFiniteSet(T) /\ Cardinality(T) \in Nat
  BY FS_Subset, FS_CardinalityType
<1>2. ASSUME NEW n \in Nat, NEW T \in Small(n + 1), T # {}
      PROVE  T \ {Some(T)} \in Small(n)
  <2>1. Cardinality(T \ {Some(T)}) = Cardinality(T) - 1
    BY <1>1, <1>2, SomeIn, FS_RemoveElement
  <2> QED  BY <1>1, <2>1
<1>3. 0 \in N
  <2> DEFINE g0 == [T \in Small(0) |-> 0]
  <2>1. \A T \in Small(0) : T = {}
    BY <1>1, FS_EmptySet
  <2>2. P(0, g0)
    BY <2>1
  <2> QED  BY <2>2
<1>4. ASSUME NEW n \in Nat, n \in N PROVE n + 1 \in N
  <2>1. PICK g : P(n, g)
    BY <1>4
  <2> DEFINE h == [T \in Small(n + 1) |->
                     IF T = {} THEN 0 ELSE f[Some(T)] + g[T \ {Some(T)}]]
  <2>2. \A T \in Small(n) : T \in Small(n + 1)
    BY <1>1
  <2>3. \A T \in Small(n) : h[T] = g[T]
    <3> TAKE T \in Small(n)
    <3>1. h[T] = IF T = {} THEN 0 ELSE f[Some(T)] + g[T \ {Some(T)}]
      BY <2>2
    <3>2. g[T] = IF T = {} THEN 0 ELSE f[Some(T)] + g[T \ {Some(T)}]
      BY <2>1
    <3> QED  BY <3>1, <3>2
  <2>4. \A T \in Small(n + 1) : T # {} => h[T \ {Some(T)}] = g[T \ {Some(T)}]
    BY <1>2, <2>3
  <2>5. P(n + 1, h)
    <3> HIDE DEF Small
    <3> QED  BY <2>4
  <2> HIDE DEF h, P
  <2> QED  BY <2>5
<1> HIDE DEF P
<1>5. Cardinality(S) \in N
  BY <1>1, <1>3, <1>4, NatSetInduction
<1>6. Small(Cardinality(S)) = SUBSET S
  BY FS_Subset
<1> QED  BY <1>5, <1>6 DEF P, Sums

LEMMA SumIs ==
  ASSUME NEW f, NEW S, IsFiniteSet(S)
  PROVE  \E g : Sums(f, S, g) /\ SumFunctionOnSet(f, S) = g[S]
<1> DEFINE g == CHOOSE g : Sums(f, S, g)
<1>1. SumFunctionOnSet(f, S) = g[S]
  BY DEF SumFunctionOnSet, FoldFunctionOnSet, MapThenFoldSet, Sums, Some
<1>2. Sums(f, S, g)
  BY SumsExist
<1> QED  BY <1>1, <1>2

(* The sum over a subset is the same within whatever set it is defined.    *)
LEMMA SumsAgree ==
  ASSUME NEW f, NEW S, IsFiniteSet(S), NEW g, Sums(f, S, g),
         NEW R \in SUBSET S, NEW h, Sums(f, R, h)
  PROVE  \A T \in SUBSET R : g[T] = h[T]
<1> DEFINE N == {n \in Nat : \A T \in SUBSET R : Cardinality(T) <= n => g[T] = h[T]}
<1>1. \A T \in SUBSET S : IsFiniteSet(T) /\ Cardinality(T) \in Nat
  BY FS_Subset, FS_CardinalityType
<1>2. \A T \in SUBSET R :
        /\ T \in SUBSET S
        /\ g[T] = IF T = {} THEN 0 ELSE f[Some(T)] + g[T \ {Some(T)}]
        /\ h[T] = IF T = {} THEN 0 ELSE f[Some(T)] + h[T \ {Some(T)}]
  BY DEF Sums
<1>3. 0 \in N
  <2> SUFFICES ASSUME NEW T \in SUBSET R, Cardinality(T) <= 0 PROVE g[T] = h[T]
    OBVIOUS
  <2>1. IsFiniteSet(T) /\ Cardinality(T) = 0
    BY <1>1
  <2>2. T = {}
    BY <2>1, FS_EmptySet
  <2> QED  BY <1>2, <2>2
<1>4. ASSUME NEW n \in Nat, n \in N PROVE n + 1 \in N
  <2> SUFFICES ASSUME NEW T \in SUBSET R, Cardinality(T) <= n + 1 PROVE g[T] = h[T]
    OBVIOUS
  <2>1. CASE T = {}
    BY <1>2, <2>1
  <2>2. CASE T # {}
    <3>1. Cardinality(T \ {Some(T)}) = Cardinality(T) - 1
      BY <1>1, <2>2, SomeIn, FS_RemoveElement
    <3>2. g[T \ {Some(T)}] = h[T \ {Some(T)}]
      BY <1>1, <1>4, <3>1
    <3> QED  BY <1>2, <2>2, <3>2
  <2> QED  BY <2>1, <2>2
<1>5. Nat \subseteq N
  BY <1>3, <1>4, NatSetInduction
<1> QED  BY <1>1, <1>5

LEMMA SumStep ==
  ASSUME NEW f, NEW S, IsFiniteSet(S)
  PROVE  SumFunctionOnSet(f, S) =
           IF S = {} THEN 0
           ELSE f[Some(S)] + SumFunctionOnSet(f, S \ {Some(S)})
<1>1. PICK g : Sums(f, S, g) /\ SumFunctionOnSet(f, S) = g[S]
  BY SumIs
<1> DEFINE R == S \ {Some(S)}
<1>2. IsFiniteSet(R) /\ R \in SUBSET S
  BY FS_Subset
<1>3. PICK h : Sums(f, R, h) /\ SumFunctionOnSet(f, R) = h[R]
  BY <1>2, SumIs
<1>4. g[R] = h[R]
  BY <1>1, <1>2, <1>3, SumsAgree
<1>5. g[S] = IF S = {} THEN 0 ELSE f[Some(S)] + g[R]
  BY <1>1 DEF Sums
<1> QED  BY <1>1, <1>3, <1>4, <1>5

LEMMA SumType ==
  ASSUME NEW D, NEW f \in [D -> Int], NEW S \in SUBSET D, IsFiniteSet(S)
  PROVE  SumFunctionOnSet(f, S) \in Int
<1> DEFINE N == {n \in Nat : \A T \in SUBSET S :
                    Cardinality(T) = n => SumFunctionOnSet(f, T) \in Int}
<1>1. \A T \in SUBSET S : IsFiniteSet(T) /\ Cardinality(T) \in Nat
  BY FS_Subset, FS_CardinalityType
<1>2. 0 \in N
  BY <1>1, FS_EmptySet, SumStep
<1>3. ASSUME NEW n \in Nat, n \in N PROVE n + 1 \in N
  <2> SUFFICES ASSUME NEW T \in SUBSET S, Cardinality(T) = n + 1
               PROVE  SumFunctionOnSet(f, T) \in Int
    OBVIOUS
  <2>1. T # {}
    BY FS_EmptySet
  <2>2. Cardinality(T \ {Some(T)}) = n
    <3>1. Cardinality(T \ {Some(T)}) = Cardinality(T) - 1
      BY <1>1, <2>1, SomeIn, FS_RemoveElement
    <3> QED  BY <3>1
  <2>3. SumFunctionOnSet(f, T \ {Some(T)}) \in Int
    BY <1>3, <2>2
  <2>4. f[Some(T)] \in Int
    BY <2>1, SomeIn
  <2> QED  BY <1>1, <2>1, <2>3, <2>4, SumStep
<1> HIDE DEF N
<1>4. Nat \subseteq N
  BY <1>2, <1>3, NatSetInduction
<1>5. Cardinality(S) \in N
  BY <1>1, <1>4
<1> QED  BY <1>5 DEF N

(* The order of the summands does not matter.                              *)
LEMMA SumRemove ==
  ASSUME NEW D, NEW f \in [D -> Int], NEW S \in SUBSET D, IsFiniteSet(S), NEW x \in S
  PROVE  SumFunctionOnSet(f, S) = f[x] + SumFunctionOnSet(f, S \ {x})
<1> DEFINE Sum(T) == SumFunctionOnSet(f, T)
           N == {n \in Nat : \A T \in SUBSET S : \A y \in T :
                    Cardinality(T) = n => Sum(T) = f[y] + Sum(T \ {y})}
<1>1. \A T \in SUBSET S : IsFiniteSet(T) /\ Cardinality(T) \in Nat /\ Sum(T) \in Int
  BY FS_Subset, FS_CardinalityType, SumType
<1>2. \A T \in SUBSET S : T # {} =>
        Some(T) \in T /\ Sum(T) = f[Some(T)] + Sum(T \ {Some(T)})
  BY <1>1, SomeIn, SumStep
<1>3. \A y \in S : f[y] \in Int
  OBVIOUS
<1> HIDE DEF Sum
<1>4. 0 \in N
  BY <1>1, FS_EmptySet
<1>5. ASSUME NEW n \in Nat, n \in N PROVE n + 1 \in N
  <2> SUFFICES ASSUME NEW T \in SUBSET S, NEW y \in T, Cardinality(T) = n + 1
               PROVE  Sum(T) = f[y] + Sum(T \ {y})
    OBVIOUS
  <2> DEFINE z == Some(T)
  <2>1. z \in T /\ Sum(T) = f[z] + Sum(T \ {z})
    BY <1>2
  <2> HIDE DEF z
  <2>2. CASE z = y
    BY <2>1, <2>2
  <2>3. CASE z # y
    <3>1. Cardinality(T \ {y}) = n /\ Cardinality(T \ {z}) = n
      <4>1. /\ Cardinality(T \ {y}) = Cardinality(T) - 1
            /\ Cardinality(T \ {z}) = Cardinality(T) - 1
        BY <1>1, <2>1, FS_RemoveElement
      <4> QED  BY <4>1
    <3>2. Sum(T \ {y}) = f[z] + Sum((T \ {y}) \ {z})
      BY <1>5, <2>1, <2>3, <3>1
    <3>3. Sum(T \ {z}) = f[y] + Sum((T \ {z}) \ {y})
      BY <1>5, <2>1, <2>3, <3>1
    <3>4. (T \ {y}) \ {z} = (T \ {z}) \ {y}
      OBVIOUS
    <3>5. Sum((T \ {y}) \ {z}) \in Int /\ f[y] \in Int /\ f[z] \in Int
      BY <1>1, <1>3, <2>1
    <3>6. \A i, j, m \in Int : i + (j + m) = j + (i + m)
      OBVIOUS
    <3>7. f[z] + (f[y] + Sum((T \ {y}) \ {z})) = f[y] + (f[z] + Sum((T \ {y}) \ {z}))
      BY <3>5, <3>6
    <3> QED  BY <2>1, <3>2, <3>3, <3>4, <3>7, Zenon
  <2> QED  BY <2>2, <2>3
<1> HIDE DEF N
<1>6. Nat \subseteq N
  BY <1>4, <1>5, NatSetInduction
<1>7. Cardinality(S) \in N
  BY <1>1, <1>6
<1> QED  BY <1>7 DEF N, Sum

LEMMA SumEmpty == \A f : SumFunctionOnSet(f, {}) = 0
  BY SumStep, FS_EmptySet

LEMMA SumAdd ==
  ASSUME NEW D, NEW f \in [D -> Int], NEW S \in SUBSET D, IsFiniteSet(S),
         NEW x \in D \ S
  PROVE  SumFunctionOnSet(f, S \cup {x}) = f[x] + SumFunctionOnSet(f, S)
<1>1. IsFiniteSet(S \cup {x}) /\ (S \cup {x}) \ {x} = S
  BY FS_AddElement
<1> QED  BY <1>1, SumRemove

(* Sums over sets that share nothing add up.                               *)
LEMMA SumSplit ==
  ASSUME NEW D, NEW f \in [D -> Int], NEW A \in SUBSET D, IsFiniteSet(A),
         NEW B \in SUBSET D, IsFiniteSet(B), A \cap B = {}
  PROVE  SumFunctionOnSet(f, A \cup B) = SumFunctionOnSet(f, A) + SumFunctionOnSet(f, B)
<1> DEFINE Sum(T) == SumFunctionOnSet(f, T)
           C == {T \in SUBSET B : Sum(A \cup T) = Sum(A) + Sum(T)}
<1>1. \A T \in SUBSET B : /\ IsFiniteSet(T) /\ IsFiniteSet(A \cup T)
                          /\ Sum(T) \in Int /\ Sum(A \cup T) \in Int
  <2> TAKE T \in SUBSET B
  <2>1. IsFiniteSet(T) /\ IsFiniteSet(A \cup T)
    BY FS_Subset, FS_Union
  <2> QED  BY <2>1, SumType
<1>2. Sum(A) \in Int
  BY SumType
<1>3. {} \in C
  <2>1. A \cup {} = A /\ Sum({}) = 0
    BY SumEmpty
  <2> HIDE DEF Sum
  <2> QED  BY <1>2, <2>1
<1>4. ASSUME NEW T \in SUBSET B, NEW x \in B \ T, T \in C PROVE T \cup {x} \in C
  <2>1. Sum(T \cup {x}) = f[x] + Sum(T)
    <3>1. x \in D \ T /\ T \in SUBSET D /\ IsFiniteSet(T)
      BY <1>1
    <3> QED  BY <3>1, SumAdd
  <2>2. Sum((A \cup T) \cup {x}) = f[x] + Sum(A \cup T)
    <3> DEFINE U == A \cup T
    <3>1. x \in D \ U /\ U \in SUBSET D /\ IsFiniteSet(U)
      BY <1>1
    <3> HIDE DEF U
    <3>2. Sum(U \cup {x}) = f[x] + Sum(U)
      BY <3>1, SumAdd
    <3> QED  BY <3>2 DEF U
  <2>3. (A \cup T) \cup {x} = A \cup (T \cup {x})
    OBVIOUS
  <2>4. f[x] \in Int /\ Sum(T) \in Int
    BY <1>1
  <2>5. Sum(A \cup T) = Sum(A) + Sum(T)
    BY <1>4
  <2> HIDE DEF Sum
  <2>6. \A i, j, k \in Int : k + (i + j) = i + (k + j)
    OBVIOUS
  <2>7. f[x] + (Sum(A) + Sum(T)) = Sum(A) + (f[x] + Sum(T))
    BY <1>2, <2>4, <2>6
  <2>8. Sum(A \cup (T \cup {x})) = Sum(A) + Sum(T \cup {x})
    BY <2>1, <2>2, <2>3, <2>5, <2>7, Zenon
  <2> QED  BY <2>8
<1> HIDE DEF C
<1>5. B \in C
  BY <1>3, <1>4, FiniteSetInduction
<1> QED  BY <1>5 DEF C

(* Only the values on the set count.                                       *)
LEMMA SumSame ==
  ASSUME NEW D, NEW f \in [D -> Int], NEW E, NEW g \in [E -> Int],
         NEW S, IsFiniteSet(S), S \subseteq D, S \subseteq E, \A x \in S : f[x] = g[x]
  PROVE  SumFunctionOnSet(f, S) = SumFunctionOnSet(g, S)
<1> DEFINE C == {T \in SUBSET S : SumFunctionOnSet(f, T) = SumFunctionOnSet(g, T)}
<1>1. {} \in C
  BY SumEmpty
<1>2. ASSUME NEW T \in SUBSET S, NEW x \in S \ T, T \in C PROVE T \cup {x} \in C
  <2>1. IsFiniteSet(T)
    BY FS_Subset
  <2>2. T \in SUBSET D /\ x \in D \ T /\ T \in SUBSET E /\ x \in E \ T
    OBVIOUS
  <2>3. /\ SumFunctionOnSet(f, T \cup {x}) = f[x] + SumFunctionOnSet(f, T)
        /\ SumFunctionOnSet(g, T \cup {x}) = g[x] + SumFunctionOnSet(g, T)
    BY <2>1, <2>2, SumAdd
  <2>4. f[x] = g[x] /\ SumFunctionOnSet(f, T) = SumFunctionOnSet(g, T)
    BY <1>2
  <2> QED  BY <2>3, <2>4
<1> HIDE DEF C
<1>3. S \in C
  BY <1>1, <1>2, FiniteSetInduction
<1> QED  BY <1>3 DEF C

(* A sum is bounded by its largest summand, as often as there are some.    *)
LEMMA SumBounded ==
  ASSUME NEW D, NEW f \in [D -> Int], NEW S \in SUBSET D, IsFiniteSet(S),
         NEW c \in Int, NEW d \in Int, \A x \in S : c <= f[x] /\ f[x] <= d
  PROVE  /\ c * Cardinality(S) <= SumFunctionOnSet(f, S)
         /\ SumFunctionOnSet(f, S) <= d * Cardinality(S)
<1> DEFINE Sum(T) == SumFunctionOnSet(f, T)
           C == {T \in SUBSET S : /\ c * Cardinality(T) <= Sum(T)
                                  /\ Sum(T) <= d * Cardinality(T)}
<1>1. \A T \in SUBSET S : IsFiniteSet(T) /\ Cardinality(T) \in Nat /\ Sum(T) \in Int
  BY FS_Subset, FS_CardinalityType, SumType
<1>2. {} \in C
  <2>1. Sum({}) = 0 /\ Cardinality({}) = 0
    BY SumEmpty, FS_EmptySet
  <2> HIDE DEF Sum
  <2> QED  BY <2>1
<1>3. ASSUME NEW T \in SUBSET S, NEW x \in S \ T, T \in C PROVE T \cup {x} \in C
  <2>1. Sum(T \cup {x}) = f[x] + Sum(T)
    BY <1>1, SumAdd
  <2>2. Cardinality(T \cup {x}) = Cardinality(T) + 1
    BY <1>1, FS_AddElement
  <2>3. f[x] \in Int /\ c <= f[x] /\ f[x] <= d
    OBVIOUS
  <2>4. c * Cardinality(T) <= Sum(T) /\ Sum(T) <= d * Cardinality(T)
    BY <1>3
  <2> HIDE DEF Sum
  <2>5. \A i \in Int, n \in Nat : i * (n + 1) = i * n + i /\ i * n \in Int
    OBVIOUS
  <2>6. /\ c * (Cardinality(T) + 1) <= f[x] + Sum(T)
        /\ f[x] + Sum(T) <= d * (Cardinality(T) + 1)
    <3> DEFINE m == c * Cardinality(T)
               M == d * Cardinality(T)
    <3>1. m \in Int /\ M \in Int /\ c * (Cardinality(T) + 1) = m + c
          /\ d * (Cardinality(T) + 1) = M + d
      BY <1>1, <2>5
    <3>2. m <= Sum(T) /\ Sum(T) <= M
      BY <2>4
    <3> HIDE DEF m, M
    <3> QED  BY <1>1, <2>3, <3>1, <3>2
  <2> QED  BY <2>1, <2>2, <2>6
<1> HIDE DEF C
<1>4. S \in C
  BY <1>2, <1>3, FiniteSetInduction
<1> QED  BY <1>4 DEF C

LEMMA SumNonnegative ==
  ASSUME NEW D, NEW f \in [D -> Int], NEW S \in SUBSET D, IsFiniteSet(S),
         \A x \in S : f[x] >= 0
  PROVE  SumFunctionOnSet(f, S) \in Nat
<1> DEFINE C == {T \in SUBSET S : SumFunctionOnSet(f, T) \in Nat}
<1>1. {} \in C
  BY SumEmpty
<1>2. ASSUME NEW T \in SUBSET S, NEW x \in S \ T, T \in C PROVE T \cup {x} \in C
  <2>1. IsFiniteSet(T) /\ T \in SUBSET D /\ x \in D \ T
    BY FS_Subset
  <2>2. SumFunctionOnSet(f, T \cup {x}) = f[x] + SumFunctionOnSet(f, T)
    BY <2>1, SumAdd
  <2>3. f[x] \in Nat /\ SumFunctionOnSet(f, T) \in Nat
    BY <1>2
  <2> QED  BY <2>2, <2>3
<1> HIDE DEF C
<1>3. S \in C
  BY <1>1, <1>2, FiniteSetInduction
<1> QED  BY <1>3 DEF C

LEMMA TimesMonotone ==
  ASSUME NEW a \in Nat, NEW b \in Nat, NEW c \in Nat, b <= c
  PROVE  a * b <= a * c
<1> DEFINE N == {d \in Nat : a * b <= a * (b + d)}
<1>1. 0 \in N
  OBVIOUS
<1>2. ASSUME NEW d \in Nat, d \in N PROVE d + 1 \in N
  <2>1. a * (b + (d + 1)) = a * (b + d) + a /\ a * (b + d) \in Nat /\ a * b \in Nat
    OBVIOUS
  <2> QED  BY <1>2, <2>1
<1> HIDE DEF N
<1>3. c - b \in N
  BY <1>1, <1>2, NatSetInduction
<1>4. b + (c - b) = c
  OBVIOUS
<1> QED  BY <1>3, <1>4 DEF N

=============================================================================
