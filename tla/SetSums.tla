------------------------------- MODULE SetSums -------------------------------
(***************************************************************************)
(* Sums and maxima of numbers over finite sets, as the community modules   *)
(* define them, and what a proof needs to know of them.  Budgets, counters *)
(* and traffic of the simulator are such sums, synced clocks such maxima.  *)
(* Facts about products and quotients that several proofs use are at the   *)
(* end.                                                                    *)
(*                                                                         *)
(* The induction behind the lemmas is the choice of a smallest             *)
(* counterexample: the sets of subsets on which a claim fails are sets, so *)
(* that well-foundedness of strict inclusion applies to them as it stands. *)
(***************************************************************************)
EXTENDS FiniteSetsExt, FiniteSetTheorems, TLAPS

SumOver(f, S) == MapThenSumSet(LAMBDA x : f[x], S)

(* The element that the fold takes first, and the equation of the fold.    *)
Pick(s) == CHOOSE x \in s : TRUE

FoldsTo(f, S, g) ==
  g = [s \in SUBSET S |-> IF s = {} THEN 0
                          ELSE f[Pick(s)] + g[s \ {Pick(s)}]]

LEMMA SumUnfolds ==
  ASSUME NEW f, NEW S
  PROVE  SumOver(f, S) = (CHOOSE g : FoldsTo(f, S, g))[S]
BY DEF SumOver, MapThenSumSet, MapThenFoldSet, FoldsTo, Pick
-----------------------------------------------------------------------------
(* Induction over finite sets, in two forms.                               *)

LEMMA SmallestSubset ==
  ASSUME NEW S, IsFiniteSet(S), NEW Bad, Bad \subseteq SUBSET S, Bad # {}
  PROVE  \E V \in Bad : \A W \in Bad : W \subseteq V => W = V
<1>1. IsWellFoundedOn(StrictSubsetOrdering(S), SUBSET S)
  BY FS_StrictSubsetOrderingWellFounded, FS_FiniteSubsetsOfFinite
<1>2. PICK V \in Bad : \A W \in Bad : ~(<<W, V>> \in StrictSubsetOrdering(S))
  BY <1>1, WFMin
<1>3. ASSUME NEW W \in Bad, W \subseteq V
      PROVE  W = V
  BY <1>2, <1>3 DEF StrictSubsetOrdering
<1>. QED  BY <1>3

LEMMA FiniteInduction ==
  ASSUME NEW S, IsFiniteSet(S), NEW Good, {} \in Good,
         \A T \in SUBSET S, x \in S :
           x \notin T /\ T \in Good => T \cup {x} \in Good
  PROVE  S \in Good
<1>. SUFFICES ASSUME S \notin Good
              PROVE  FALSE
  OBVIOUS
<1>. DEFINE Bad == {T \in SUBSET S : T \notin Good}
<1>1. PICK V \in Bad : \A W \in Bad : W \subseteq V => W = V
  <2>1. Bad \subseteq SUBSET S /\ Bad # {}
    OBVIOUS
  <2>. HIDE DEF Bad
  <2>. QED  BY <2>1, SmallestSubset
<1>2. PICK x \in V : TRUE
  OBVIOUS
<1>3. V \ {x} \in Good
  BY <1>1, <1>2
<1>4. (V \ {x}) \cup {x} = V
  BY <1>2
<1>. QED  BY <1>2, <1>3, <1>4
-----------------------------------------------------------------------------
(* The fold exists, and two folds agree where both are defined.            *)

LEMMA FoldsAgree ==
  ASSUME NEW f, NEW S, IsFiniteSet(S), NEW T \in SUBSET S, NEW g, NEW h,
         FoldsTo(f, S, g), FoldsTo(f, T, h), NEW V \in SUBSET T
  PROVE  g[V] = h[V]
<1>. SUFFICES ASSUME g[V] # h[V]
              PROVE  FALSE
  OBVIOUS
<1>. DEFINE Bad == {U \in SUBSET T : g[U] # h[U]}
<1>1. PICK U \in Bad : \A W \in Bad : W \subseteq U => W = U
  <2>1. Bad \subseteq SUBSET T /\ Bad # {}
    OBVIOUS
  <2>2. IsFiniteSet(T)
    BY FS_Subset
  <2>. HIDE DEF Bad
  <2>. QED  BY <2>1, <2>2, SmallestSubset
<1>2. \A s \in SUBSET T :
        /\ g[s] = IF s = {} THEN 0 ELSE f[Pick(s)] + g[s \ {Pick(s)}]
        /\ h[s] = IF s = {} THEN 0 ELSE f[Pick(s)] + h[s \ {Pick(s)}]
  BY DEF FoldsTo
<1>3. U # {}
  BY <1>2
<1>4. Pick(U) \in U
  BY <1>3 DEF Pick
<1>5. g[U \ {Pick(U)}] = h[U \ {Pick(U)}]
  BY <1>1, <1>4
<1>. QED  BY <1>2, <1>3, <1>5

LEMMA FoldExists ==
  ASSUME NEW f, NEW S, IsFiniteSet(S)
  PROVE  \E g : FoldsTo(f, S, g)
<1>. SUFFICES ASSUME ~ \E g : FoldsTo(f, S, g)
              PROVE  FALSE
  OBVIOUS
<1>. DEFINE Bad == {T \in SUBSET S : ~ \E g : FoldsTo(f, T, g)}
            Sol(T) == CHOOSE g : FoldsTo(f, T, g)
<1>1. PICK T \in Bad : \A W \in Bad : W \subseteq T => W = T
  <2>1. Bad \subseteq SUBSET S /\ Bad # {}
    OBVIOUS
  <2>. HIDE DEF Bad
  <2>. QED  BY <2>1, SmallestSubset
<1>2. ASSUME NEW U \in SUBSET T, U # T
      PROVE  FoldsTo(f, U, Sol(U))
  <2>1. U \notin Bad
    BY <1>1, <1>2
  <2>2. \E g : FoldsTo(f, U, g)
    BY <2>1
  <2>. QED  BY <2>2
<1>. DEFINE rest(s) == s \ {Pick(s)}
            G == [s \in SUBSET T |-> IF s = {} THEN 0
                                     ELSE f[Pick(s)] + Sol(rest(s))[rest(s)]]
<1>3. ASSUME NEW s \in SUBSET T, s # {}
      PROVE  rest(s) \in SUBSET T /\ rest(s) # T /\ rest(s) # s
  BY <1>3 DEF Pick
<1>4. ASSUME NEW s \in SUBSET T, s # T
      PROVE  G[s] = Sol(s)[s]
  <2>. HIDE DEF Sol
  <2>1. FoldsTo(f, s, Sol(s))
    BY <1>2, <1>4
  <2>2. CASE s = {}
    BY <2>1, <2>2 DEF FoldsTo
  <2>3. CASE s # {}
    <3>1. rest(s) \in SUBSET s /\ rest(s) \in SUBSET T /\ rest(s) # T
      BY <1>3, <2>3
    <3>2. FoldsTo(f, rest(s), Sol(rest(s)))
      BY <1>2, <3>1
    <3>3. IsFiniteSet(s)
      BY FS_Subset
    <3>4. Sol(s)[rest(s)] = Sol(rest(s))[rest(s)]
      BY <2>1, <3>1, <3>2, <3>3, FoldsAgree
    <3>5. Sol(s)[s] = f[Pick(s)] + Sol(s)[rest(s)]
      BY <2>1, <2>3 DEF FoldsTo
    <3>. QED  BY <2>3, <3>4, <3>5
  <2>. QED  BY <2>2, <2>3
<1>5. G = [s \in SUBSET T |-> IF s = {} THEN 0 ELSE f[Pick(s)] + G[rest(s)]]
  <2>. HIDE DEF Sol
  <2>1. ASSUME NEW s \in SUBSET T, s # {}
        PROVE  G[rest(s)] = Sol(rest(s))[rest(s)]
    BY <1>3, <1>4, <2>1
  <2>. QED  BY <2>1
<1>6. FoldsTo(f, T, G)
  BY <1>5 DEF FoldsTo
<1>. QED  BY <1>1, <1>6
-----------------------------------------------------------------------------
(* The sum of no numbers, and of one more.                                 *)

LEMMA SumEmpty ==
  ASSUME NEW f
  PROVE  SumOver(f, {}) = 0
<1>1. IsFiniteSet({})
  BY FS_EmptySet
<1>2. \E g : FoldsTo(f, {}, g)
  BY <1>1, FoldExists
<1>. QED  BY <1>2, SumUnfolds DEF FoldsTo

LEMMA SumPick ==
  ASSUME NEW f, NEW S, IsFiniteSet(S), S # {}
  PROVE  /\ Pick(S) \in S
         /\ SumOver(f, S) = f[Pick(S)] + SumOver(f, S \ {Pick(S)})
<1>. DEFINE rest == S \ {Pick(S)}
            g == CHOOSE h : FoldsTo(f, S, h)
            k == CHOOSE h : FoldsTo(f, rest, h)
<1>1. Pick(S) \in S
  BY DEF Pick
<1>2. rest \in SUBSET S /\ IsFiniteSet(rest)
  BY FS_Subset
<1>3. FoldsTo(f, S, g) /\ FoldsTo(f, rest, k)
  BY <1>2, FoldExists
<1>4. SumOver(f, S) = g[S] /\ SumOver(f, rest) = k[rest]
  BY SumUnfolds
<1>. HIDE DEF g, k, rest
<1>5. g[rest] = k[rest]
  BY <1>2, <1>3, FoldsAgree
<1>6. g[S] = f[Pick(S)] + g[rest]
  BY <1>3 DEF FoldsTo, rest
<1>7. SumOver(f, S) = f[Pick(S)] + SumOver(f, rest)
  BY <1>4, <1>5, <1>6
<1>. QED  BY <1>1, <1>7 DEF rest

LEMMA SumNat ==
  ASSUME NEW f, NEW S, IsFiniteSet(S), \A x \in S : f[x] \in Nat
  PROVE  SumOver(f, S) \in Nat
<1>. SUFFICES ASSUME SumOver(f, S) \notin Nat
              PROVE  FALSE
  OBVIOUS
<1>. DEFINE Bad == {T \in SUBSET S : SumOver(f, T) \notin Nat}
<1>1. PICK V \in Bad : \A W \in Bad : W \subseteq V => W = V
  <2>1. Bad \subseteq SUBSET S /\ Bad # {}
    OBVIOUS
  <2>. HIDE DEF Bad
  <2>. QED  BY <2>1, SmallestSubset
<1>2. V # {}
  BY SumEmpty
<1>3. /\ Pick(V) \in V
      /\ SumOver(f, V) = f[Pick(V)] + SumOver(f, V \ {Pick(V)})
  BY <1>2, SumPick, FS_Subset
<1>4. SumOver(f, V \ {Pick(V)}) \in Nat
  BY <1>1, <1>3
<1>. QED  BY <1>3, <1>4

(* Any element may be taken first: addition commutes.                      *)
LEMMA SumRemove ==
  ASSUME NEW f, NEW S, IsFiniteSet(S), \A x \in S : f[x] \in Nat, NEW z \in S
  PROVE  SumOver(f, S) = f[z] + SumOver(f, S \ {z})
<1>. DEFINE Takes(T) == \A x \in T : SumOver(f, T) = f[x] + SumOver(f, T \ {x})
            Bad == {T \in SUBSET S : ~Takes(T)}
<1>. SUFFICES ASSUME ~Takes(S)
              PROVE  FALSE
  OBVIOUS
<1>1. PICK V \in Bad : \A W \in Bad : W \subseteq V => W = V
  <2>1. Bad \subseteq SUBSET S /\ Bad # {}
    OBVIOUS
  <2>. HIDE DEF Bad
  <2>. QED  BY <2>1, SmallestSubset
<1>2. PICK x \in V : SumOver(f, V) # f[x] + SumOver(f, V \ {x})
  OBVIOUS
<1>. DEFINE y == Pick(V)
<1>3. y \in V /\ SumOver(f, V) = f[y] + SumOver(f, V \ {y})
  BY <1>2, SumPick, FS_Subset
<1>. HIDE DEF y
<1>4. x # y
  BY <1>2, <1>3
<1>5. V \ {y} \notin Bad /\ V \ {x} \notin Bad
  BY <1>1, <1>3
<1>6. /\ SumOver(f, V \ {y}) = f[x] + SumOver(f, (V \ {y}) \ {x})
      /\ SumOver(f, V \ {x}) = f[y] + SumOver(f, (V \ {x}) \ {y})
  BY <1>3, <1>4, <1>5
<1>7. (V \ {y}) \ {x} = (V \ {x}) \ {y}
  OBVIOUS
<1>8. SumOver(f, (V \ {x}) \ {y}) \in Nat
  <2>1. IsFiniteSet((V \ {x}) \ {y})
    BY FS_Subset
  <2>. QED  BY <2>1, SumNat
<1>9. f[x] \in Nat /\ f[y] \in Nat
  BY <1>3
<1>10. SumOver(f, V \ {y}) = f[x] + SumOver(f, (V \ {x}) \ {y})
  BY <1>6, <1>7
<1>. QED  BY <1>2, <1>3, <1>6, <1>8, <1>9, <1>10

LEMMA SumAdd ==
  ASSUME NEW f, NEW S, IsFiniteSet(S), NEW z, z \notin S,
         \A x \in S \cup {z} : f[x] \in Nat
  PROVE  SumOver(f, S \cup {z}) = f[z] + SumOver(f, S)
<1>1. IsFiniteSet(S \cup {z})
  BY FS_AddElement
<1>2. (S \cup {z}) \ {z} = S
  OBVIOUS
<1>. QED  BY <1>1, <1>2, SumRemove
-----------------------------------------------------------------------------
(* What the sum depends on, and bounds for it.                             *)

LEMMA SumSame ==
  ASSUME NEW f, NEW g, NEW S, IsFiniteSet(S), \A x \in S : f[x] \in Nat,
         \A x \in S : f[x] = g[x]
  PROVE  SumOver(f, S) = SumOver(g, S)
<1>. DEFINE Good == {T \in SUBSET S : SumOver(f, T) = SumOver(g, T)}
<1>1. {} \in Good
  BY SumEmpty
<1>2. ASSUME NEW T \in SUBSET S, NEW x \in S, x \notin T, T \in Good
      PROVE  T \cup {x} \in Good
  <2>1. IsFiniteSet(T)
    BY FS_Subset
  <2>2. /\ SumOver(f, T \cup {x}) = f[x] + SumOver(f, T)
        /\ SumOver(g, T \cup {x}) = g[x] + SumOver(g, T)
    BY <1>2, <2>1, SumAdd
  <2>. QED  BY <1>2, <2>2
<1>. HIDE DEF Good
<1>3. S \in Good
  BY <1>1, <1>2, FiniteInduction
<1>. QED  BY <1>3 DEF Good

LEMMA SumBound ==
  ASSUME NEW f, NEW S, IsFiniteSet(S), NEW k \in Nat,
         \A x \in S : f[x] \in 0 .. k
  PROVE  SumOver(f, S) <= k * Cardinality(S)
<1>. DEFINE Good == {T \in SUBSET S : SumOver(f, T) <= k * Cardinality(T)}
<1>1. {} \in Good
  BY SumEmpty, FS_EmptySet
<1>2. ASSUME NEW T \in SUBSET S, NEW x \in S, x \notin T, T \in Good
      PROVE  T \cup {x} \in Good
  <2>1. IsFiniteSet(T)
    BY FS_Subset
  <2>2. SumOver(f, T \cup {x}) = f[x] + SumOver(f, T) /\ SumOver(f, T) \in Nat
    BY <1>2, <2>1, SumAdd, SumNat
  <2>3. Cardinality(T) \in Nat /\ Cardinality(T \cup {x}) = Cardinality(T) + 1
    BY <1>2, <2>1, FS_AddElement, FS_CardinalityType
  <2>4. k * (Cardinality(T) + 1) = k * Cardinality(T) + k
    BY <2>3
  <2>. QED  BY <1>2, <2>2, <2>3, <2>4
<1>. HIDE DEF Good
<1>3. S \in Good
  BY <1>1, <1>2, FiniteInduction
<1>. QED  BY <1>3 DEF Good

LEMMA SumMonotone ==
  ASSUME NEW f, NEW g, NEW S, IsFiniteSet(S),
         \A x \in S : f[x] \in Nat /\ g[x] \in Nat /\ f[x] <= g[x]
  PROVE  SumOver(f, S) <= SumOver(g, S)
<1>. DEFINE Good == {T \in SUBSET S : SumOver(f, T) <= SumOver(g, T)}
<1>1. {} \in Good
  BY SumEmpty
<1>2. ASSUME NEW T \in SUBSET S, NEW x \in S, x \notin T, T \in Good
      PROVE  T \cup {x} \in Good
  <2>1. IsFiniteSet(T)
    BY FS_Subset
  <2>2. /\ SumOver(f, T \cup {x}) = f[x] + SumOver(f, T) /\ SumOver(f, T) \in Nat
        /\ SumOver(g, T \cup {x}) = g[x] + SumOver(g, T) /\ SumOver(g, T) \in Nat
    BY <1>2, <2>1, SumAdd, SumNat
  <2>. QED  BY <1>2, <2>2
<1>. HIDE DEF Good
<1>3. S \in Good
  BY <1>1, <1>2, FiniteInduction
<1>. QED  BY <1>3 DEF Good

LEMMA SumUnion ==
  ASSUME NEW f, NEW S, NEW U, IsFiniteSet(S), IsFiniteSet(U), S \cap U = {},
         \A x \in S \cup U : f[x] \in Nat
  PROVE  SumOver(f, S \cup U) = SumOver(f, S) + SumOver(f, U)
<1>. DEFINE Good == {T \in SUBSET U :
                       SumOver(f, S \cup T) = SumOver(f, S) + SumOver(f, T)}
<1>1. {} \in Good
  <2>1. SumOver(f, S) \in Nat /\ S \cup {} = S
    BY SumNat
  <2>. QED  BY <2>1, SumEmpty
<1>2. ASSUME NEW T \in SUBSET U, NEW x \in U, x \notin T, T \in Good
      PROVE  T \cup {x} \in Good
  <2>1. /\ IsFiniteSet(T) /\ IsFiniteSet(S \cup T)
        /\ S \cup (T \cup {x}) = (S \cup T) \cup {x} /\ x \notin S \cup T
    BY <1>2, FS_Subset, FS_Union
  <2>2. /\ SumOver(f, T \cup {x}) = f[x] + SumOver(f, T) /\ SumOver(f, T) \in Nat
        /\ SumOver(f, (S \cup T) \cup {x}) = f[x] + SumOver(f, S \cup T)
        /\ SumOver(f, S) \in Nat
    BY <1>2, <2>1, SumAdd, SumNat
  <2>3. SumOver(f, S \cup T) = SumOver(f, S) + SumOver(f, T) /\ f[x] \in Nat
    BY <1>2
  <2>4. SumOver(f, (S \cup T) \cup {x}) = SumOver(f, S) + SumOver(f, T \cup {x})
    BY <2>2, <2>3
  <2>5. SumOver(f, S \cup (T \cup {x})) = SumOver(f, S) + SumOver(f, T \cup {x})
    BY <2>1, <2>4
  <2>. QED  BY <2>5
<1>. HIDE DEF Good
<1>3. U \in Good
  BY <1>1, <1>2, FiniteInduction
<1>. QED  BY <1>3 DEF Good

LEMMA SumPlus ==
  ASSUME NEW f, NEW g, NEW h, NEW S, IsFiniteSet(S),
         \A x \in S : f[x] \in Nat /\ g[x] \in Nat /\ h[x] = f[x] + g[x]
  PROVE  SumOver(h, S) = SumOver(f, S) + SumOver(g, S)
<1>. DEFINE Good == {T \in SUBSET S :
                       SumOver(h, T) = SumOver(f, T) + SumOver(g, T)}
<1>1. {} \in Good
  BY SumEmpty
<1>2. ASSUME NEW T \in SUBSET S, NEW x \in S, x \notin T, T \in Good
      PROVE  T \cup {x} \in Good
  <2>1. IsFiniteSet(T)
    BY FS_Subset
  <2>2. /\ SumOver(f, T \cup {x}) = f[x] + SumOver(f, T) /\ SumOver(f, T) \in Nat
        /\ SumOver(g, T \cup {x}) = g[x] + SumOver(g, T) /\ SumOver(g, T) \in Nat
        /\ SumOver(h, T \cup {x}) = h[x] + SumOver(h, T)
    BY <1>2, <2>1, SumAdd, SumNat
  <2>. QED  BY <1>2, <2>2
<1>. HIDE DEF Good
<1>3. S \in Good
  BY <1>1, <1>2, FiniteInduction
<1>. QED  BY <1>3 DEF Good
-----------------------------------------------------------------------------
(* Finitely many elements have finitely many values.                       *)
LEMMA ImageFinite ==
  ASSUME NEW f, NEW S, IsFiniteSet(S)
  PROVE  IsFiniteSet({f[x] : x \in S})
<1>. DEFINE g == [x \in S |-> f[x]]
            T == {f[x] : x \in S}
<1>1. g \in Surjection(S, T)
  BY DEF Surjection
<1>. QED  BY <1>1, FS_Surjection

(* A finite set of numbers has a greatest one, and Max is it.              *)
LEMMA MaxIsGreatest ==
  ASSUME NEW S, IsFiniteSet(S), S \subseteq Int, S # {}
  PROVE  Max(S) \in S /\ \A x \in S : x <= Max(S)
<1>. DEFINE Good == {T \in SUBSET S : T = {} \/ \E m \in T : \A x \in T : x <= m}
<1>1. {} \in Good
  OBVIOUS
<1>2. ASSUME NEW T \in SUBSET S, NEW z \in S, z \notin T, T \in Good
      PROVE  T \cup {z} \in Good
  <2>1. CASE T = {}
    BY <2>1
  <2>2. CASE T # {}
    <3>1. PICK m \in T : \A x \in T : x <= m
      BY <1>2, <2>2
    <3>2. CASE z <= m
      BY <3>1, <3>2
    <3>3. CASE m <= z
      <4>1. \A x \in T \cup {z} : x <= z
        BY <3>1, <3>3
      <4>. QED  BY <4>1
    <3>. QED  BY <3>2, <3>3
  <2>. QED  BY <2>1, <2>2
<1>. HIDE DEF Good
<1>3. S \in Good
  BY <1>1, <1>2, FiniteInduction
<1>4. \E m \in S : \A x \in S : m >= x
  BY <1>3 DEF Good
<1>5. Max(S) \in S /\ \A x \in S : Max(S) >= x
  BY <1>4 DEF Max
<1>. QED  BY <1>5

(* Induction up to a number, said with a set.                              *)
LEMMA CountUp ==
  ASSUME NEW N \in Nat, NEW Good, 0 \in Good,
         \A m \in 0 .. N - 1 : m \in Good => m + 1 \in Good
  PROVE  \A m \in 0 .. N : m \in Good
<1>. DEFINE T == {m \in 0 .. N : \A k \in 0 .. m : k \in Good}
<1>1. IsFiniteSet(T)
  <2>1. IsFiniteSet(0 .. N) /\ T \subseteq 0 .. N
    BY FS_Interval
  <2>. QED  BY <2>1, FS_Subset
<1>2. T \subseteq Int /\ 0 \in T
  OBVIOUS
<1>. DEFINE M == Max(T)
<1>3. M \in T /\ \A x \in T : x <= M
  <2>. HIDE DEF T
  <2>. QED  BY <1>1, <1>2, MaxIsGreatest
<1>. HIDE DEF M
<1>4. M = N
  <2>. SUFFICES ASSUME M # N
                PROVE  FALSE
    OBVIOUS
  <2>1. M \in 0 .. N - 1 /\ \A k \in 0 .. M : k \in Good
    BY <1>3
  <2>2. M \in Good
    BY <2>1
  <2>3. M + 1 \in T
    BY <2>1, <2>2
  <2>. QED  BY <1>3, <2>1, <2>3
<1>. QED  BY <1>3, <1>4
-----------------------------------------------------------------------------
(* Equal numbers, part of a set, membership, and sums in two directions.   *)

LEMMA SumConstant ==
  ASSUME NEW f, NEW S, IsFiniteSet(S), NEW k \in Nat, \A x \in S : f[x] = k
  PROVE  SumOver(f, S) = Cardinality(S) * k
<1>. DEFINE Good == {T \in SUBSET S : SumOver(f, T) = Cardinality(T) * k}
<1>1. {} \in Good
  BY SumEmpty, FS_EmptySet
<1>2. ASSUME NEW T \in SUBSET S, NEW x \in S, x \notin T, T \in Good
      PROVE  T \cup {x} \in Good
  <2>1. IsFiniteSet(T)
    BY FS_Subset
  <2>2. SumOver(f, T \cup {x}) = f[x] + SumOver(f, T)
    BY <1>2, <2>1, SumAdd
  <2>3. Cardinality(T) \in Nat /\ Cardinality(T \cup {x}) = Cardinality(T) + 1
    BY <1>2, <2>1, FS_AddElement, FS_CardinalityType
  <2>4. (Cardinality(T) + 1) * k = k + Cardinality(T) * k
    BY <2>3
  <2>. QED  BY <1>2, <2>2, <2>3, <2>4
<1>. HIDE DEF Good
<1>3. S \in Good
  BY <1>1, <1>2, FiniteInduction
<1>. QED  BY <1>3 DEF Good

LEMMA SumPart ==
  ASSUME NEW f, NEW S, IsFiniteSet(S), \A x \in S : f[x] \in Nat,
         NEW T \in SUBSET S
  PROVE  SumOver(f, S) = SumOver(f, T) + SumOver(f, S \ T)
<1>1. /\ IsFiniteSet(T) /\ IsFiniteSet(S \ T) /\ T \cap (S \ T) = {}
      /\ T \cup (S \ T) = S
  BY FS_Subset
<1>. QED  BY <1>1, SumUnion

LEMMA SumZero ==
  ASSUME NEW f, NEW S, IsFiniteSet(S), \A x \in S : f[x] \in Nat,
         SumOver(f, S) = 0, NEW z \in S
  PROVE  f[z] = 0
<1>1. SumOver(f, S) = f[z] + SumOver(f, S \ {z})
  BY SumRemove
<1>2. IsFiniteSet(S \ {z}) /\ f[z] \in Nat
  BY FS_Subset
<1>3. SumOver(f, S \ {z}) \in Nat
  BY <1>2, SumNat
<1>. QED  BY <1>1, <1>2, <1>3

(* Every element of T counts one.                                          *)
LEMMA SumMembers ==
  ASSUME NEW f, NEW S, IsFiniteSet(S), NEW T \in SUBSET S,
         \A x \in S : f[x] = IF x \in T THEN 1 ELSE 0
  PROVE  SumOver(f, S) = Cardinality(T)
<1>1. IsFiniteSet(T) /\ IsFiniteSet(S \ T)
  BY FS_Subset
<1>2. SumOver(f, S) = SumOver(f, T) + SumOver(f, S \ T)
  BY SumPart
<1>3. /\ Cardinality(T) \in Nat /\ Cardinality(S \ T) \in Nat
  BY <1>1, FS_CardinalityType
<1>4. SumOver(f, T) = Cardinality(T) * 1
  BY <1>1, SumConstant
<1>5. SumOver(f, S \ T) = Cardinality(S \ T) * 0
  BY <1>1, SumConstant
<1>. QED  BY <1>2, <1>3, <1>4, <1>5

(* The numbers of f by row, those of g by column, and their sums.          *)
BothWays(S, T, f, g, rows, cols) ==
  /\ IsFiniteSet(S) /\ IsFiniteSet(T) /\ f \in [S -> [T -> Nat]]
  /\ \A x \in S : rows[x] = SumOver(f[x], T)
  /\ \A y \in T : g[y] = [x \in S |-> f[x][y]] /\ cols[y] = SumOver(g[y], S)

LEMMA SumSwap ==
  ASSUME NEW S, NEW T, NEW f, NEW g, NEW rows, NEW cols,
         BothWays(S, T, f, g, rows, cols)
  PROVE  SumOver(rows, S) = SumOver(cols, T)
<1>. USE DEF BothWays
<1>. DEFINE col(y) == [x \in S |-> f[x][y]]
            part(U) == [y \in T |-> SumOver(col(y), U)]
            Good == {U \in SUBSET S : SumOver(rows, U) = SumOver(part(U), T)}
<1>1. \A y \in T : \A x \in S : col(y)[x] = f[x][y] /\ col(y)[x] \in Nat
  OBVIOUS
<1>2. \A x \in S : rows[x] \in Nat
  BY SumNat
<1>. HIDE DEF col
<1>3. {} \in Good
  <2>1. \A y \in T : part({})[y] = 0
    BY SumEmpty
  <2>2. SumOver(part({}), T) = Cardinality(T) * 0 /\ Cardinality(T) \in Nat
    <3>. HIDE DEF part
    <3>. QED  BY <2>1, SumConstant, FS_CardinalityType
  <2>3. SumOver(rows, {}) = 0
    BY SumEmpty
  <2>. HIDE DEF part
  <2>. QED  BY <2>2, <2>3
<1>4. ASSUME NEW U \in SUBSET S, NEW z \in S, z \notin U, U \in Good
      PROVE  U \cup {z} \in Good
  <2>1. IsFiniteSet(U)
    BY FS_Subset
  <2>2. SumOver(rows, U \cup {z}) = rows[z] + SumOver(rows, U)
    BY <1>2, <1>4, <2>1, SumAdd
  <2>3. ASSUME NEW y \in T
        PROVE  /\ SumOver(col(y), U) \in Nat
               /\ SumOver(col(y), U \cup {z}) = f[z][y] + SumOver(col(y), U)
    BY <1>1, <1>4, <2>1, SumAdd, SumNat
  <2>4. \A y \in T : /\ f[z][y] \in Nat /\ part(U)[y] \in Nat
                     /\ part(U \cup {z})[y] = f[z][y] + part(U)[y]
    BY <2>3
  <2>. HIDE DEF part
  <2>5. SumOver(part(U \cup {z}), T) = SumOver(f[z], T) + SumOver(part(U), T)
    <3>1. PICK a, b, c : a = f[z] /\ b = part(U) /\ c = part(U \cup {z})
      OBVIOUS
    <3>2. \A y \in T : a[y] \in Nat /\ b[y] \in Nat /\ c[y] = a[y] + b[y]
      BY <2>4, <3>1
    <3>3. SumOver(c, T) = SumOver(a, T) + SumOver(b, T)
      BY <3>2, SumPlus
    <3>. QED  BY <3>1, <3>3
  <2>. QED  BY <1>4, <2>2, <2>5
<1>. HIDE DEF Good
<1>5. S \in Good
  BY <1>3, <1>4, FiniteInduction
<1>6. SumOver(rows, S) = SumOver(part(S), T)
  BY <1>5 DEF Good
<1>7. \A y \in T : part(S)[y] = cols[y] /\ part(S)[y] \in Nat
  BY <1>1, SumNat DEF col
<1>. HIDE DEF part
<1>. QED  BY <1>6, <1>7, SumSame

LEMMA SumTimes ==
  ASSUME NEW f, NEW g, NEW S, IsFiniteSet(S), NEW k \in Nat,
         \A x \in S : f[x] \in Nat /\ g[x] = f[x] * k
  PROVE  SumOver(g, S) = SumOver(f, S) * k
<1>. DEFINE Good == {T \in SUBSET S : SumOver(g, T) = SumOver(f, T) * k}
<1>1. {} \in Good
  BY SumEmpty
<1>2. ASSUME NEW T \in SUBSET S, NEW x \in S, x \notin T, T \in Good
      PROVE  T \cup {x} \in Good
  <2>1. IsFiniteSet(T)
    BY FS_Subset
  <2>2. /\ SumOver(f, T \cup {x}) = f[x] + SumOver(f, T) /\ SumOver(f, T) \in Nat
        /\ SumOver(g, T \cup {x}) = g[x] + SumOver(g, T)
    BY <1>2, <2>1, SumAdd, SumNat
  <2>3. (f[x] + SumOver(f, T)) * k = f[x] * k + SumOver(f, T) * k
    BY <2>2
  <2>. QED  BY <1>2, <2>2, <2>3
<1>. HIDE DEF Good
<1>3. S \in Good
  BY <1>1, <1>2, FiniteInduction
<1>. QED  BY <1>3 DEF Good

(* A sum in which some elements do not count.                              *)
LEMMA SumWhere ==
  ASSUME NEW f, NEW g, NEW S, IsFiniteSet(S), NEW T \in SUBSET S,
         \A x \in T : f[x] \in Nat,
         \A x \in S : g[x] = IF x \in T THEN f[x] ELSE 0
  PROVE  SumOver(g, S) = SumOver(f, T)
<1>1. IsFiniteSet(T) /\ IsFiniteSet(S \ T)
  BY FS_Subset
<1>2. SumOver(g, S) = SumOver(g, T) + SumOver(g, S \ T)
  BY SumPart
<1>3. SumOver(g, T) = SumOver(f, T)
  BY <1>1, SumSame
<1>4. SumOver(g, S \ T) = Cardinality(S \ T) * 0 /\ Cardinality(S \ T) \in Nat
  BY <1>1, SumConstant, FS_CardinalityType
<1>5. SumOver(f, T) \in Nat
  BY <1>1, SumNat
<1>. QED  BY <1>2, <1>3, <1>4, <1>5

(* The members of S fall into groups of n, and those of a group count the  *)
(* same.                                                                   *)
InGroups(S, T, at, n, f, h) ==
  /\ IsFiniteSet(S) /\ IsFiniteSet(T) /\ at \in [S -> T] /\ n \in Nat
  /\ \A y \in T : h[y] \in Nat /\ Cardinality({x \in S : at[x] = y}) = n
  /\ \A x \in S : f[x] = h[at[x]]

LEMMA SumByGroup ==
  ASSUME NEW S, NEW T, NEW at, NEW n, NEW f, NEW h, InGroups(S, T, at, n, f, h)
  PROVE  SumOver(f, S) = SumOver(h, T) * n
<1>1. /\ IsFiniteSet(S) /\ IsFiniteSet(T) /\ n \in Nat
      /\ \A x \in S : at[x] \in T /\ f[x] = h[at[x]]
      /\ \A y \in T : h[y] \in Nat /\ Cardinality({x \in S : at[x] = y}) = n
  BY DEF InGroups
<1>2. PICK q : q = [x \in S |-> [y \in T |-> IF at[x] = y THEN h[y] ELSE 0]]
  OBVIOUS
<1>3. PICK p : p = [y \in T |-> [x \in S |-> q[x][y]]]
  OBVIOUS
<1>4. PICK cols : cols = [y \in T |-> h[y] * n]
  OBVIOUS
<1>5. /\ q \in [S -> [T -> Nat]]
      /\ \A x \in S, y \in T : q[x][y] = IF at[x] = y THEN h[y] ELSE 0
      /\ \A y \in T : \A x \in S : p[y][x] = IF at[x] = y THEN h[y] ELSE 0
  BY <1>1, <1>2, <1>3
<1>6. ASSUME NEW x \in S
      PROVE  f[x] = SumOver(q[x], T)
  <2>1. PICK g, a : g = q[x] /\ a = at[x]
    OBVIOUS
  <2>2. a \in T /\ {a} \in SUBSET T /\ h[a] \in Nat
    BY <1>1, <2>1
  <2>3. \A y \in T : g[y] = IF y \in {a} THEN h[y] ELSE 0
    BY <1>5, <2>1
  <2>4. SumOver(g, T) = SumOver(h, {a})
    BY <1>1, <2>2, <2>3, SumWhere
  <2>5. SumOver(h, {a}) = Cardinality({a}) * h[a] /\ Cardinality({a}) = 1
    BY <2>2, FS_Singleton, SumConstant
  <2>. QED  BY <1>1, <2>1, <2>2, <2>4, <2>5
<1>7. ASSUME NEW y \in T
      PROVE  cols[y] = SumOver(p[y], S)
  <2>1. PICK g, U : g = p[y] /\ U = {x \in S : at[x] = y}
    OBVIOUS
  <2>2. PICK c : c = [x \in S |-> h[y]]
    OBVIOUS
  <2>3. U \in SUBSET S /\ \A x \in U : c[x] = h[y] /\ c[x] \in Nat
    BY <1>1, <2>1, <2>2
  <2>4. \A x \in S : g[x] = IF x \in U THEN c[x] ELSE 0
    BY <1>5, <2>1, <2>2
  <2>5. SumOver(g, S) = SumOver(c, U)
    BY <1>1, <2>3, <2>4, SumWhere
  <2>6. IsFiniteSet(U) /\ Cardinality(U) = n /\ h[y] \in Nat
    BY <1>1, <2>1, FS_Subset
  <2>7. SumOver(c, U) = Cardinality(U) * h[y]
    BY <2>3, <2>6, SumConstant
  <2>8. n * h[y] = h[y] * n
    BY <1>1, <2>6
  <2>. QED  BY <1>4, <2>1, <2>5, <2>6, <2>7, <2>8
<1>8. BothWays(S, T, q, p, f, cols)
  BY <1>1, <1>3, <1>5, <1>6, <1>7 DEF BothWays
<1>9. SumOver(f, S) = SumOver(cols, T)
  BY <1>8, SumSwap
<1>10. \A y \in T : h[y] \in Nat /\ cols[y] = h[y] * n
  BY <1>1, <1>4
<1>. QED  BY <1>1, <1>9, <1>10, SumTimes
-----------------------------------------------------------------------------
(* Arithmetic.                                                             *)

LEMMA MaxOfTwo ==
  ASSUME NEW a \in Nat, NEW b \in Nat
  PROVE  Max({a, b}) = IF a >= b THEN a ELSE b
<1>1. IsFiniteSet({a, b}) /\ {a, b} \subseteq Int /\ {a, b} # {}
  <2>1. IsFiniteSet({a}) /\ {a, b} = {a} \cup {b}
    BY FS_Singleton
  <2>2. IsFiniteSet({a} \cup {b})
    BY <2>1, FS_AddElement
  <2>. QED  BY <2>1, <2>2
<1>2. Max({a, b}) \in {a, b} /\ \A x \in {a, b} : x <= Max({a, b})
  BY <1>1, MaxIsGreatest
<1>. QED  BY <1>2

LEMMA TimesMonotone ==
  ASSUME NEW a \in Nat, NEW b \in Nat, NEW c \in Nat, a <= b
  PROVE  a * c <= b * c
<1>1. PICK d \in Nat : b = a + d
  <2>1. b - a \in Nat /\ b = a + (b - a)
    OBVIOUS
  <2>. QED  BY <2>1
<1>2. b * c = a * c + d * c /\ d * c \in Nat /\ a * c \in Nat
  BY <1>1
<1>. QED  BY <1>2

(* Division.                                                               *)
LEMMA Divides ==
  ASSUME NEW a \in Nat, NEW n \in Nat \ {0}
  PROVE  a \div n \in Nat /\ (a \div n) * n <= a /\ a < (a \div n) * n + n
<1>1. PICK q, r : q = a \div n /\ r = a % n
  OBVIOUS
<1>2. q \in Nat /\ r \in 0 .. n - 1
  BY <1>1
<1>3. a = n * q + r
  BY <1>1
<1>4. n * q = q * n
  BY <1>2
<1>. QED  BY <1>1, <1>2, <1>3, <1>4

LEMMA QuotientIs ==
  ASSUME NEW a \in Nat, NEW n \in Nat \ {0}, NEW q \in Nat, q * n <= a, a < q * n + n
  PROVE  a \div n = q
<1>1. PICK p \in Nat : p = a \div n /\ p * n <= a /\ a < p * n + n
  BY Divides
<1>2. ASSUME NEW x \in Nat, NEW y \in Nat, x < y
      PROVE  x * n + n <= y * n
  <2>1. (x + 1) * n <= y * n /\ (x + 1) * n = x * n + n
    BY <1>2, TimesMonotone
  <2>. QED  BY <2>1
<1>3. p * n \in Nat /\ q * n \in Nat
  BY <1>1
<1>4. ~(p < q) /\ ~(q < p)
  BY <1>1, <1>2, <1>3
<1>. QED  BY <1>1, <1>4

LEMMA QuotientMonotone ==
  ASSUME NEW a \in Nat, NEW b \in Nat, NEW n \in Nat \ {0}, a <= b
  PROVE  a \div n <= b \div n
<1>1. PICK p \in Nat, q \in Nat : /\ p = a \div n /\ p * n <= a
                                  /\ q = b \div n /\ b < q * n + n
  BY Divides
<1>2. ASSUME q + 1 <= p
      PROVE  FALSE
  <2>1. (q + 1) * n <= p * n /\ (q + 1) * n = q * n + n
    BY <1>2, TimesMonotone
  <2>2. p * n \in Nat /\ q * n \in Nat
    BY <1>1
  <2>. QED  BY <1>1, <2>1, <2>2
<1>. QED  BY <1>1, <1>2

(* A quotient is at least what fits.                                       *)
LEMMA QuotientAtLeast ==
  ASSUME NEW a \in Nat, NEW n \in Nat \ {0}, NEW k \in Nat, k * n <= a
  PROVE  k <= a \div n
<1>1. PICK p \in Nat : p = a \div n /\ a < p * n + n
  BY Divides
<1>2. ASSUME p + 1 <= k
      PROVE  FALSE
  <2>1. (p + 1) * n <= k * n /\ (p + 1) * n = p * n + n
    BY <1>2, TimesMonotone
  <2>2. p * n \in Nat /\ k * n \in Nat
    BY <1>1
  <2>. QED  BY <1>1, <2>1, <2>2
<1>. QED  BY <1>1, <1>2

LEMMA ExactQuotient ==
  ASSUME NEW x \in Nat, NEW n \in Nat \ {0}
  PROVE  (x * n) \div n = x
<1>1. x * n \in Nat /\ x * n <= x * n /\ x * n < x * n + n
  OBVIOUS
<1>. QED  BY <1>1, QuotientIs
=============================================================================
