-------------------------------- MODULE Sums --------------------------------
(***************************************************************************)
(* Sums over finite sets.  The models add up with the folds of the         *)
(* community modules, which take the elements of a set one by one in some  *)
(* order; the lemmas say that the order does not matter, and what sums are *)
(* that are split, mapped, compared or taken over differences.             *)
(*                                                                         *)
(* They are proved by induction, over numbers and over finite sets.  The   *)
(* sets for which a statement holds stand for the statement: a set of      *)
(* numbers is not empty only if it has a least number, which comes from    *)
(* < being well-founded.                                                   *)
(***************************************************************************)
EXTENDS Integers, FiniteSetsExt, FiniteSetTheorems, WellFoundedInduction, TLAPS

SumOver(f, S) == SumFunctionOnSet(f, S)

\* What a fold takes out of s, and what a function does that adds up f over S.
Pick(s) == CHOOSE x \in s : TRUE
IsFold(g, f, S) ==
  g = [s \in SUBSET S |-> IF s = {} THEN 0 ELSE f[Pick(s)] + g[s \ {Pick(s)}]]
Adds(g, f, S) ==
  \A s \in SUBSET S : g[s] = IF s = {} THEN 0 ELSE f[Pick(s)] + g[s \ {Pick(s)}]

-----------------------------------------------------------------------------
(***************************************************************************)
(* Induction.                                                              *)
(***************************************************************************)

LEMMA LeastNumber ==
  ASSUME NEW S, S \subseteq Nat, S # {}
  PROVE  \E n \in S : \A m \in S : n <= m
<1>1. PICK n \in S : \A m \in S : <<m, n>> \notin OpToRel(<, Nat)
  BY NatLessThanWellFounded, WFMin
<1>2. ASSUME NEW m \in S PROVE n <= m
  <2>1. <<m, n>> \notin {ss \in Nat \X Nat : ss[1] < ss[2]}
    BY <1>1 DEF OpToRel
  <2> QED BY <2>1
<1> QED BY <1>2

\* Induction over the numbers from 0.
LEMMA NumberInduction ==
  ASSUME NEW S, 0 \in S, \A n \in Nat : n \in S => n + 1 \in S
  PROVE  Nat \subseteq S
<1> SUFFICES ASSUME Nat \ S # {} PROVE FALSE
  OBVIOUS
<1>1. PICK n \in Nat \ S : \A m \in Nat \ S : n <= m
  BY LeastNumber
<1>2. n - 1 \in Nat /\ n - 1 \in S
  BY <1>1
<1> QED BY <1>1, <1>2

\* Of a set of finite sets there is one without another one in it.
LEMMA SmallestSet ==
  ASSUME NEW S, IsFiniteSet(S), NEW T, T \subseteq SUBSET S, T # {}
  PROVE  \E s \in T : \A r \in T : r \subseteq s => r = s
<1> DEFINE C == {Cardinality(s) : s \in T}
<1>1. \A s \in T : IsFiniteSet(s) /\ Cardinality(s) \in Nat
  BY FS_Subset, FS_CardinalityType
<1>2. C \subseteq Nat /\ C # {}
  BY <1>1
<1>3. PICK n \in C : \A m \in C : n <= m
  <2> HIDE DEF C
  <2> QED BY <1>2, LeastNumber
<1>4. PICK s \in T : Cardinality(s) = n
  BY <1>3
<1>5. ASSUME NEW r \in T, r \subseteq s, r # s PROVE FALSE
  <2>1. Cardinality(r) < Cardinality(s)
    BY <1>1, <1>5, FS_Subset
  <2>2. n <= Cardinality(r)
    BY <1>3
  <2> QED BY <2>1, <2>2, <1>4, <1>1
<1> QED BY <1>5

\* Induction over finite sets, an element at a time.
LEMMA SetInduction ==
  ASSUME NEW S, IsFiniteSet(S), NEW T, {} \in T,
         \A s \in SUBSET S : \A x \in S \ s : s \in T => s \cup {x} \in T
  PROVE  S \in T
<1> SUFFICES ASSUME S \notin T PROVE FALSE
  OBVIOUS
<1> DEFINE B == {s \in SUBSET S : s \notin T}
<1>1. PICK s \in B : \A r \in B : r \subseteq s => r = s
  <2>1. B \subseteq SUBSET S /\ B # {}
    OBVIOUS
  <2> HIDE DEF B
  <2> QED BY <2>1, SmallestSet
<1>2. PICK x : x \in s
  BY <1>1
<1>3. s \ {x} \in T
  BY <1>1, <1>2
<1>4. (s \ {x}) \cup {x} = s
  BY <1>2
<1>5. s \ {x} \in SUBSET S /\ x \in S \ (s \ {x})
  BY <1>1, <1>2
<1>6. s \in T
  BY <1>3, <1>4, <1>5
<1> QED BY <1>1, <1>6

-----------------------------------------------------------------------------
(***************************************************************************)
(* A fold that adds is what it is meant to be.                             *)
(***************************************************************************)

LEMMA Picked == ASSUME NEW s, s # {} PROVE Pick(s) \in s
BY DEF Pick

LEMMA AddsUnique ==
  ASSUME NEW S, IsFiniteSet(S), NEW f, NEW g, NEW h, Adds(g, f, S), Adds(h, f, S)
  PROVE  \A s \in SUBSET S : g[s] = h[s]
<1> DEFINE B == {s \in SUBSET S : g[s] # h[s]}
<1> SUFFICES ASSUME B # {} PROVE FALSE
  OBVIOUS
<1>1. PICK s \in B : \A r \in B : r \subseteq s => r = s
  <2>1. B \subseteq SUBSET S
    OBVIOUS
  <2> HIDE DEF B
  <2> QED BY <2>1, SmallestSet
<1>2. s # {}
  BY <1>1 DEF Adds
<1>3. Pick(s) \in s
  BY <1>2, Picked
<1>4. g[s \ {Pick(s)}] = h[s \ {Pick(s)}]
  BY <1>1, <1>3
<1> QED BY <1>1, <1>2, <1>4 DEF Adds

LEMMA AddsOnSubset ==
  ASSUME NEW S, NEW f, NEW g, Adds(g, f, S), NEW R, R \subseteq S
  PROVE  Adds(g, f, R)
BY DEF Adds

LEMMA FoldAdds ==
  ASSUME NEW S, NEW f, NEW g, IsFold(g, f, S)
  PROVE  Adds(g, f, S)
<1>1. ASSUME NEW s \in SUBSET S
      PROVE  g[s] = IF s = {} THEN 0 ELSE f[Pick(s)] + g[s \ {Pick(s)}]
  BY DEF IsFold
<1> QED BY <1>1 DEF Adds

\* The recursive function of a fold exists.
LEMMA AddsExists ==
  ASSUME NEW S, IsFiniteSet(S), NEW f
  PROVE  \E g : IsFold(g, f, S)
<1> DEFINE B == {R \in SUBSET S : ~ \E g : IsFold(g, f, R)}
           G(R) == CHOOSE g : IsFold(g, f, R)
           V(R) == G(R)[R]
<1> SUFFICES ASSUME B # {} PROVE FALSE
  OBVIOUS
<1>1. PICK t \in B : \A r \in B : r \subseteq t => r = t
  <2>1. B \subseteq SUBSET S
    OBVIOUS
  <2> HIDE DEF B
  <2> QED BY <2>1, SmallestSet
<1>2. ASSUME NEW r \in SUBSET t, r # t PROVE Adds(G(r), f, r)
  <2>1. \E g : IsFold(g, f, r)
    BY <1>1, <1>2
  <2>2. IsFold(G(r), f, r)
    BY <2>1
  <2> HIDE DEF G
  <2> QED BY <2>2, FoldAdds
<1> HIDE DEF G
<1>3. ASSUME NEW r \in SUBSET t, r # t
      PROVE  V(r) = IF r = {} THEN 0 ELSE f[Pick(r)] + V(r \ {Pick(r)})
  <2>1. Adds(G(r), f, r)
    BY <1>2, <1>3
  <2>2. CASE r = {}
    BY <2>1, <2>2 DEF Adds
  <2>3. CASE r # {}
    <3> DEFINE q == r \ {Pick(r)}
    <3>1. Pick(r) \in r
      BY <2>3, Picked
    <3>2. q \in SUBSET t /\ q # t /\ q \in SUBSET r
      BY <3>1
    <3>3. Adds(G(q), f, q) /\ Adds(G(r), f, q)
      BY <1>2, <2>1, <3>2, AddsOnSubset
    <3>4. IsFiniteSet(q)
      BY <1>1, <3>2, FS_Subset
    <3>5. G(q)[q] = G(r)[q]
      BY <3>3, <3>4, AddsUnique
    <3>6. G(r)[r] = f[Pick(r)] + G(r)[q]
      BY <2>1, <2>3 DEF Adds
    <3> QED BY <2>3, <3>5, <3>6
  <2> QED BY <2>2, <2>3
<1> HIDE DEF V
<1> DEFINE g == [s \in SUBSET t |-> IF s = {} THEN 0 ELSE f[Pick(s)] + V(s \ {Pick(s)})]
<1>4. ASSUME NEW s \in SUBSET t, s # {} PROVE g[s \ {Pick(s)}] = V(s \ {Pick(s)})
  <2>1. Pick(s) \in s
    BY <1>4, Picked
  <2>2. s \ {Pick(s)} \in SUBSET t /\ s \ {Pick(s)} # t
    BY <2>1
  <2> QED BY <1>3, <2>2
<1>5. g = [s \in SUBSET t |-> IF s = {} THEN 0 ELSE f[Pick(s)] + g[s \ {Pick(s)}]]
  <2> HIDE DEF g
  <2>1. g = [s \in SUBSET t |-> IF s = {} THEN 0 ELSE f[Pick(s)] + V(s \ {Pick(s)})]
    BY DEF g
  <2> QED BY <1>4, <2>1
<1>6. IsFold(g, f, t)
  <2> HIDE DEF g
  <2> QED BY <1>5 DEF IsFold
<1> QED BY <1>1, <1>6

LEMMA SumUnfolds ==
  ASSUME NEW S, IsFiniteSet(S), NEW f
  PROVE  \E g : Adds(g, f, S) /\ SumOver(f, S) = g[S]
<1> DEFINE g == CHOOSE g : IsFold(g, f, S)
<1>1. IsFold(g, f, S)
  BY AddsExists
<1>2. SumOver(f, S) = g[S]
  BY DEF SumOver, SumFunctionOnSet, FoldFunctionOnSet, MapThenFoldSet, Pick, IsFold
<1> HIDE DEF g
<1> QED BY <1>1, <1>2, FoldAdds

\* Whatever adds up f over S has the sum at S.
LEMMA AddsSum ==
  ASSUME NEW S, IsFiniteSet(S), NEW f, NEW g, Adds(g, f, S)
  PROVE  SumOver(f, S) = g[S]
BY SumUnfolds, AddsUnique

-----------------------------------------------------------------------------
(***************************************************************************)
(* Elements, one at a time.                                                *)
(***************************************************************************)

LEMMA SumOfNone == ASSUME NEW f PROVE SumOver(f, {}) = 0
<1>1. IsFiniteSet({})
  BY FS_EmptySet
<1>2. PICK g : Adds(g, f, {}) /\ SumOver(f, {}) = g[{}]
  BY <1>1, SumUnfolds
<1> QED BY <1>2 DEF Adds

LEMMA SumPicks ==
  ASSUME NEW S, IsFiniteSet(S), S # {}, NEW f
  PROVE  SumOver(f, S) = f[Pick(S)] + SumOver(f, S \ {Pick(S)})
<1> DEFINE R == S \ {Pick(S)}
<1>1. PICK g : Adds(g, f, S) /\ SumOver(f, S) = g[S]
  BY SumUnfolds
<1>2. Adds(g, f, R) /\ IsFiniteSet(R)
  BY <1>1, AddsOnSubset, FS_Subset
<1>3. SumOver(f, R) = g[R]
  BY <1>2, AddsSum
<1>4. g[S] = f[Pick(S)] + g[R]
  BY <1>1 DEF Adds
<1> QED BY <1>1, <1>3, <1>4

\* Any element may be the one that is taken out.
LEMMA SumRemoves ==
  ASSUME NEW S, IsFiniteSet(S), NEW f, \A x \in S : f[x] \in Int
  PROVE  /\ SumOver(f, S) \in Int
         /\ \A x \in S : SumOver(f, S) = f[x] + SumOver(f, S \ {x})
<1> DEFINE Good(s) == /\ SumOver(f, s) \in Int
                      /\ \A x \in s : SumOver(f, s) = f[x] + SumOver(f, s \ {x})
           B == {s \in SUBSET S : ~ Good(s)}
<1> SUFFICES ASSUME B # {} PROVE FALSE
  OBVIOUS
<1>1. PICK s \in B : \A r \in B : r \subseteq s => r = s
  <2>1. B \subseteq SUBSET S
    OBVIOUS
  <2> HIDE DEF B
  <2> QED BY <2>1, SmallestSet
<1>2. \A r \in SUBSET s : r # s => Good(r)
  BY <1>1
<1>3. s # {}
  <2>1. Good({})
    BY SumOfNone
  <2> QED BY <1>1, <2>1
<1> DEFINE y == Pick(s)
<1>4. y \in s
  BY <1>3, Picked
<1>5. SumOver(f, s) = f[y] + SumOver(f, s \ {y})
  BY <1>1, <1>3, SumPicks, FS_Subset
<1> HIDE DEF y
<1>6. Good(s \ {y})
  BY <1>2, <1>4
<1>7. ASSUME NEW x \in s PROVE SumOver(f, s) = f[x] + SumOver(f, s \ {x})
  <2>1. CASE x = y
    BY <2>1, <1>5
  <2>2. CASE x # y
    <3>1. SumOver(f, s \ {y}) = f[x] + SumOver(f, (s \ {y}) \ {x})
      BY <1>6, <2>2
    <3>2. Good(s \ {x})
      BY <1>2
    <3>3. SumOver(f, s \ {x}) = f[y] + SumOver(f, (s \ {x}) \ {y})
      BY <3>2, <2>2, <1>4
    <3> DEFINE r == (s \ {x}) \ {y}
    <3>4. r = (s \ {y}) \ {x} /\ r \in SUBSET s /\ r # s
      BY <1>4
    <3>5. Good(r)
      BY <1>2, <3>4
    <3>6. SumOver(f, s \ {y}) = f[x] + SumOver(f, r)
      BY <3>1, <3>4
    <3>7. f[x] \in Int /\ f[y] \in Int /\ SumOver(f, r) \in Int
      BY <1>1, <1>4, <3>5
    <3> HIDE DEF r, Good, B
    <3> QED BY <1>5, <3>3, <3>6, <3>7 DEF r
  <2> QED BY <2>1, <2>2
<1>8. SumOver(f, s) \in Int
  BY <1>1, <1>4, <1>5, <1>6
<1> QED BY <1>1, <1>7, <1>8

LEMMA SumIsInt ==
  ASSUME NEW S, IsFiniteSet(S), NEW f, \A x \in S : f[x] \in Int
  PROVE  SumOver(f, S) \in Int
BY SumRemoves

LEMMA SumAdds ==
  ASSUME NEW S, IsFiniteSet(S), NEW x, x \notin S,
         NEW f, \A y \in S \cup {x} : f[y] \in Int
  PROVE  SumOver(f, S \cup {x}) = f[x] + SumOver(f, S)
<1>1. IsFiniteSet(S \cup {x})
  BY FS_AddElement
<1>2. (S \cup {x}) \ {x} = S
  OBVIOUS
<1> QED BY <1>1, <1>2, SumRemoves

-----------------------------------------------------------------------------
(***************************************************************************)
(* Sums of the same, of more, and of sums.                                 *)
(***************************************************************************)

LEMMA SumSame ==
  ASSUME NEW S, IsFiniteSet(S), NEW f, NEW g, \A x \in S : f[x] = g[x]
  PROVE  SumOver(f, S) = SumOver(g, S)
<1>1. PICK h : Adds(h, f, S) /\ SumOver(f, S) = h[S]
  BY SumUnfolds
<1>2. Adds(h, g, S)
  <2>1. ASSUME NEW s \in SUBSET S
        PROVE  h[s] = IF s = {} THEN 0 ELSE g[Pick(s)] + h[s \ {Pick(s)}]
    <3>1. s # {} => f[Pick(s)] = g[Pick(s)]
      BY Picked
    <3> QED BY <1>1, <3>1 DEF Adds
  <2> QED BY <2>1 DEF Adds
<1> QED BY <1>1, <1>2, AddsSum

LEMMA SumMonotone ==
  ASSUME NEW S, IsFiniteSet(S), NEW f, NEW g,
         \A x \in S : f[x] \in Int /\ g[x] \in Int /\ f[x] <= g[x]
  PROVE  SumOver(f, S) <= SumOver(g, S)
<1> DEFINE T == {s \in SUBSET S : SumOver(f, s) <= SumOver(g, s)}
<1>1. {} \in T
  BY SumOfNone
<1>2. ASSUME NEW s \in SUBSET S, NEW x \in S \ s, s \in T PROVE s \cup {x} \in T
  <2>1. IsFiniteSet(s)
    BY FS_Subset
  <2>2. /\ SumOver(f, s \cup {x}) = f[x] + SumOver(f, s)
        /\ SumOver(g, s \cup {x}) = g[x] + SumOver(g, s)
    BY <2>1, SumAdds
  <2>3. SumOver(f, s) \in Int /\ SumOver(g, s) \in Int
    BY <2>1, SumIsInt
  <2> QED BY <1>2, <2>2, <2>3
<1> HIDE DEF T
<1>3. S \in T
  BY <1>1, <1>2, SetInduction
<1> QED BY <1>3 DEF T

LEMMA SumIsNat ==
  ASSUME NEW S, IsFiniteSet(S), NEW f, \A x \in S : f[x] \in Nat
  PROVE  SumOver(f, S) \in Nat
<1> DEFINE T == {s \in SUBSET S : SumOver(f, s) \in Nat}
<1>1. {} \in T
  BY SumOfNone
<1>2. ASSUME NEW s \in SUBSET S, NEW x \in S \ s, s \in T PROVE s \cup {x} \in T
  <2>1. IsFiniteSet(s) /\ \A y \in s \cup {x} : f[y] \in Int
    BY FS_Subset
  <2>2. SumOver(f, s \cup {x}) = f[x] + SumOver(f, s)
    BY <2>1, SumAdds
  <2> QED BY <1>2, <2>2
<1> HIDE DEF T
<1>3. S \in T
  BY <1>1, <1>2, SetInduction
<1> QED BY <1>3 DEF T

LEMMA SumOfSums ==
  ASSUME NEW S, IsFiniteSet(S), NEW f, NEW g, NEW h,
         \A x \in S : f[x] \in Int /\ g[x] \in Int /\ h[x] = f[x] + g[x]
  PROVE  SumOver(h, S) = SumOver(f, S) + SumOver(g, S)
<1> DEFINE T == {s \in SUBSET S : SumOver(h, s) = SumOver(f, s) + SumOver(g, s)}
<1>1. {} \in T
  BY SumOfNone
<1>2. ASSUME NEW s \in SUBSET S, NEW x \in S \ s, s \in T PROVE s \cup {x} \in T
  <2>1. IsFiniteSet(s)
    BY FS_Subset
  <2>2. \A y \in S : h[y] \in Int
    OBVIOUS
  <2>3. /\ SumOver(f, s \cup {x}) = f[x] + SumOver(f, s)
        /\ SumOver(g, s \cup {x}) = g[x] + SumOver(g, s)
        /\ SumOver(h, s \cup {x}) = h[x] + SumOver(h, s)
    BY <2>1, <2>2, SumAdds
  <2>4. SumOver(f, s) \in Int /\ SumOver(g, s) \in Int
    BY <2>1, SumIsInt
  <2> QED BY <1>2, <2>3, <2>4
<1> HIDE DEF T
<1>3. S \in T
  BY <1>1, <1>2, SetInduction
<1> QED BY <1>3 DEF T

LEMMA SumScaled ==
  ASSUME NEW S, IsFiniteSet(S), NEW c \in Int, NEW f, NEW g,
         \A x \in S : f[x] \in Int /\ g[x] = c * f[x]
  PROVE  SumOver(g, S) = c * SumOver(f, S)
<1> DEFINE T == {s \in SUBSET S : SumOver(g, s) = c * SumOver(f, s)}
<1>1. {} \in T
  BY SumOfNone
<1>2. ASSUME NEW s \in SUBSET S, NEW x \in S \ s, s \in T PROVE s \cup {x} \in T
  <2>1. IsFiniteSet(s)
    BY FS_Subset
  <2>2. \A y \in S : g[y] \in Int
    OBVIOUS
  <2>3. /\ SumOver(f, s \cup {x}) = f[x] + SumOver(f, s)
        /\ SumOver(g, s \cup {x}) = g[x] + SumOver(g, s)
    BY <2>1, <2>2, SumAdds
  <2>4. SumOver(f, s) \in Int /\ f[x] \in Int
    BY <2>1, SumIsInt
  <2>5. c * (f[x] + SumOver(f, s)) = c * f[x] + c * SumOver(f, s)
    BY <2>4
  <2> QED BY <1>2, <2>3, <2>4, <2>5
<1> HIDE DEF T
<1>3. S \in T
  BY <1>1, <1>2, SetInduction
<1> QED BY <1>3 DEF T

\* How many there are is a sum of ones.
LEMMA SumOfOnes ==
  ASSUME NEW S, IsFiniteSet(S), NEW f, \A x \in S : f[x] = 1
  PROVE  SumOver(f, S) = Cardinality(S)
<1> DEFINE T == {s \in SUBSET S : SumOver(f, s) = Cardinality(s)}
<1>1. {} \in T
  BY SumOfNone, FS_EmptySet
<1>2. ASSUME NEW s \in SUBSET S, NEW x \in S \ s, s \in T PROVE s \cup {x} \in T
  <2>1. IsFiniteSet(s)
    BY FS_Subset
  <2>2. SumOver(f, s \cup {x}) = 1 + SumOver(f, s)
    <3>1. f[x] = 1 /\ \A y \in s \cup {x} : f[y] \in Int
      OBVIOUS
    <3> QED BY <2>1, <3>1, SumAdds
  <2>3. Cardinality(s \cup {x}) = Cardinality(s) + 1 /\ Cardinality(s) \in Nat
    BY <2>1, FS_AddElement, FS_CardinalityType
  <2> QED BY <1>2, <2>2, <2>3
<1> HIDE DEF T
<1>3. S \in T
  BY <1>1, <1>2, SetInduction
<1> QED BY <1>3 DEF T

-----------------------------------------------------------------------------
(***************************************************************************)
(* Sums that are split, mapped, or taken over differences.                 *)
(***************************************************************************)

LEMMA SumOfUnion ==
  ASSUME NEW A, IsFiniteSet(A), NEW B, IsFiniteSet(B), A \cap B = {},
         NEW f, \A x \in A \cup B : f[x] \in Int
  PROVE  SumOver(f, A \cup B) = SumOver(f, A) + SumOver(f, B)
<1> DEFINE T == {R \in SUBSET B : SumOver(f, A \cup R) = SumOver(f, A) + SumOver(f, R)}
<1>1. {} \in T
  <2>1. SumOver(f, A) \in Int /\ A \cup {} = A
    BY SumIsInt
  <2> QED BY <2>1, SumOfNone
<1>2. ASSUME NEW R \in SUBSET B, NEW x \in B \ R, R \in T PROVE R \cup {x} \in T
  <2>1. IsFiniteSet(R) /\ IsFiniteSet(A \cup R)
    BY FS_Subset, FS_Union
  <2>2. SumOver(f, R \cup {x}) = f[x] + SumOver(f, R)
    BY <2>1, SumAdds
  <2>3. x \notin A \cup R /\ (A \cup R) \cup {x} = A \cup (R \cup {x})
    OBVIOUS
  <2>4. SumOver(f, (A \cup R) \cup {x}) = f[x] + SumOver(f, A \cup R)
    <3>1. \A y \in (A \cup R) \cup {x} : f[y] \in Int
      OBVIOUS
    <3> QED BY <2>1, <2>3, <3>1, SumAdds
  <2>5. SumOver(f, A) \in Int /\ SumOver(f, R) \in Int /\ f[x] \in Int
    BY <2>1, SumIsInt
  <2>6. SumOver(f, A \cup R) = SumOver(f, A) + SumOver(f, R) /\ R \cup {x} \in SUBSET B
    BY <1>2
  <2>7. SumOver(f, A \cup (R \cup {x})) = f[x] + SumOver(f, A \cup R)
    BY <2>3, <2>4
  <2>8. SumOver(f, A \cup (R \cup {x})) = SumOver(f, A) + SumOver(f, R \cup {x})
    BY <2>2, <2>5, <2>6, <2>7
  <2> QED BY <2>6, <2>8
<1> HIDE DEF T
<1>3. B \in T
  BY <1>1, <1>2, SetInduction
<1> QED BY <1>3 DEF T

\* The elements of S of class p.
ClassOf(class, S, p) == {x \in S : class[x] = p}

\* What is added up class by class is added up.
LEMMA SumByClass ==
  ASSUME NEW S, IsFiniteSet(S), NEW P, IsFiniteSet(P), NEW class, NEW f, NEW g,
         \A x \in S : f[x] \in Int /\ class[x] \in P,
         \A p \in P : g[p] = SumOver(f, ClassOf(class, S, p))
  PROVE  SumOver(g, P) = SumOver(f, S)
<1> DEFINE Of(Q) == {x \in S : class[x] \in Q}
           Class(q) == ClassOf(class, S, q)
           T == {Q \in SUBSET P : SumOver(g, Q) = SumOver(f, Of(Q))}
<1>1. \A Q : Of(Q) \subseteq S /\ IsFiniteSet(Of(Q))
  <2>1. \A Q : Of(Q) \subseteq S
    OBVIOUS
  <2> QED BY <2>1, FS_Subset
<1>2. \A q : Class(q) \subseteq S /\ IsFiniteSet(Class(q))
  <2>1. \A q : Class(q) \subseteq S
    BY DEF ClassOf
  <2> QED BY <2>1, FS_Subset
<1>3. {} \in T
  <2>1. Of({}) = {}
    OBVIOUS
  <2> QED BY <2>1, SumOfNone
<1>4. ASSUME NEW q \in P PROVE g[q] = SumOver(f, Class(q)) /\ g[q] \in Int
  <2>1. g[q] = SumOver(f, Class(q))
    OBVIOUS
  <2>2. \A x \in Class(q) : f[x] \in Int
    BY DEF ClassOf
  <2> HIDE DEF Class
  <2> QED BY <2>1, <2>2, <1>2, SumIsInt
<1>5. ASSUME NEW Q \in SUBSET P, NEW q \in P \ Q, Q \in T PROVE Q \cup {q} \in T
  <2>1. SumOver(g, Q \cup {q}) = g[q] + SumOver(g, Q)
    BY <1>4, SumAdds, FS_Subset
  <2> DEFINE A == Class(q)
             B == Of(Q)
  <2>2. Of(Q \cup {q}) = A \cup B /\ A \cap B = {}
    BY DEF ClassOf
  <2>3. SumOver(g, Q) = SumOver(f, Of(Q)) /\ Q \cup {q} \in SUBSET P
    BY <1>5
  <2>4. (\A x \in A \cup B : f[x] \in Int) /\ IsFiniteSet(A) /\ IsFiniteSet(B)
    BY <1>1, <1>2 DEF ClassOf
  <2> HIDE DEF A, B
  <2>5. SumOver(f, A \cup B) = SumOver(f, A) + SumOver(f, B)
    BY <2>2, <2>4, SumOfUnion
  <2>6. SumOver(g, Q \cup {q}) = SumOver(f, Of(Q \cup {q}))
    BY <1>4, <2>1, <2>2, <2>3, <2>5 DEF A, B
  <2> QED BY <2>3, <2>6
<1> HIDE DEF T
<1>6. P \in T
  BY <1>3, <1>5, SetInduction
<1>7. Of(P) = S
  OBVIOUS
<1> HIDE DEF Of
<1> QED BY <1>6, <1>7 DEF T

\* The sum over S is found in R, where each x of S has the place b[x] and all
\* other places hold 0.
LEMMA SumElsewhere ==
  ASSUME NEW S, IsFiniteSet(S), NEW R, IsFiniteSet(R), NEW b, NEW f, NEW g,
         \A x \in S : f[x] \in Int /\ b[x] \in R /\ g[b[x]] = f[x],
         \A x, y \in S : b[x] = b[y] => x = y,
         \A p \in R : (\A x \in S : b[x] # p) => g[p] = 0
  PROVE  SumOver(f, S) = SumOver(g, R)
<1>1. ASSUME NEW p \in R PROVE g[p] = SumOver(f, ClassOf(b, S, p))
  <2> DEFINE A == ClassOf(b, S, p)
  <2>1. CASE \A x \in S : b[x] # p
    <3>1. A = {}
      BY <2>1 DEF ClassOf
    <3> QED BY <2>1, <3>1, SumOfNone
  <2>2. CASE \E x \in S : b[x] = p
    <3>1. PICK x \in S : b[x] = p
      BY <2>2
    <3>2. A = {} \cup {x} /\ g[p] = f[x]
      BY <3>1 DEF ClassOf
    <3>3. SumOver(f, {} \cup {x}) = f[x] + SumOver(f, {})
      BY FS_EmptySet, SumAdds
    <3> HIDE DEF A
    <3>4. SumOver(f, A) = f[x]
      BY <3>2, <3>3, SumOfNone
    <3> QED BY <3>2, <3>4 DEF A
  <2> QED BY <2>1, <2>2
<1> QED BY <1>1, SumByClass

\* Differences add up to the difference of the ends.
LEMMA SumOfDifferences ==
  ASSUME NEW n \in Nat \ {0}, NEW t, \A i \in 1 .. n : t[i] \in Int,
         NEW f, \A h \in 2 .. n : f[h] = t[h] - t[h - 1]
  PROVE  SumOver(f, 2 .. n) = t[n] - t[1]
<1> DEFINE T == {k \in Nat : k + 1 <= n => SumOver(f, 2 .. k + 1) = t[k + 1] - t[1]}
<1>1. 0 \in T
  <2>1. 2 .. 0 + 1 = {} /\ t[0 + 1] - t[1] = 0
    OBVIOUS
  <2> QED BY <2>1, SumOfNone
<1>2. ASSUME NEW k \in Nat, k \in T PROVE k + 1 \in T
  <2> SUFFICES ASSUME k + 2 <= n PROVE SumOver(f, 2 .. k + 2) = t[k + 2] - t[1]
    OBVIOUS
  <2>1. SumOver(f, 2 .. k + 1) = t[k + 1] - t[1]
    BY <1>2
  <2>2. 2 .. k + 2 = (2 .. k + 1) \cup {k + 2} /\ k + 2 \notin 2 .. k + 1
    OBVIOUS
  <2>3. \A h \in (2 .. k + 1) \cup {k + 2} : f[h] \in Int
    <3> SUFFICES ASSUME NEW h \in 2 .. k + 2 PROVE f[h] \in Int
      BY <2>2
    <3>1. h \in 2 .. n /\ h \in 1 .. n /\ h - 1 \in 1 .. n
      OBVIOUS
    <3>2. f[h] = t[h] - t[h - 1] /\ t[h] \in Int /\ t[h - 1] \in Int
      BY <3>1
    <3> QED BY <3>2
  <2>4. IsFiniteSet(2 .. k + 1)
    BY FS_Interval
  <2>5. SumOver(f, (2 .. k + 1) \cup {k + 2}) = f[k + 2] + SumOver(f, 2 .. k + 1)
    BY <2>2, <2>3, <2>4, SumAdds
  <2>6. k + 2 \in 2 .. n /\ k + 2 \in 1 .. n /\ k + 1 \in 1 .. n /\ 1 \in 1 .. n
    OBVIOUS
  <2>7. f[k + 2] = t[k + 2] - t[(k + 2) - 1]
    BY <2>6
  <2>8. (k + 2) - 1 = k + 1
    OBVIOUS
  <2>9. t[k + 2] \in Int /\ t[k + 1] \in Int /\ t[1] \in Int
    BY <2>6
  <2>10. SumOver(f, 2 .. k + 2) = (t[k + 2] - t[k + 1]) + (t[k + 1] - t[1])
    BY <2>1, <2>2, <2>5, <2>7, <2>8
  <2> QED BY <2>9, <2>10
<1> HIDE DEF T
<1>3. n - 1 \in T
  BY <1>1, <1>2, NumberInduction
<1> QED BY <1>3 DEF T
=============================================================================
