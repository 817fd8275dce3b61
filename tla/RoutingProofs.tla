---------------------------- MODULE RoutingProofs ----------------------------
(***************************************************************************)
(* Theorems about the choice of experts, for any number of experts,        *)
(* batches, devices and layers, any top_k and any times of the two units.  *)
(*                                                                         *)
(* That the counts add up rests on what each batch has counted so far      *)
(* while it draws (DrawOK), and on sums that may be taken by expert or by  *)
(* batch.  That the loop of getIdxHigh stops at the best place rests on    *)
(* the order of the groups: the load of the high unit only grows along it, *)
(* that of the low unit only shrinks, and once it stops shrinking nothing  *)
(* is left to move.                                                        *)
(*                                                                         *)
(* The second part is about the clocks of the two units that the choice    *)
(* keeps busy (TimeBoard), for any configuration, number of experts and    *)
(* times: a device loses no time when it sets its clock back, and its      *)
(* stamps nest.                                                            *)
(***************************************************************************)
EXTENDS ExpertRouting, TimeBoard, SetSums, SequenceTheorems

LEMMA TotalIsSum ==
  ASSUME NEW f, NEW S
  PROVE  Total(f, S) = SumOver(f, S)
BY DEF Total, FoldFunctionOnSet, MapThenFoldSet, SumOver, MapThenSumSet

(* The numbers of a configuration.                                         *)
LEMMA Shape ==
  ASSUME model \in Models
  PROVE  /\ num_routed_expert \in Nat \ {0} /\ top_k \in Nat \ {0}
         /\ num_expert_per_device \in Nat \ {0} /\ num_layers \in Nat \ {0}
         /\ dp_degree \in Nat \ {0} /\ num_layer \in Nat \ {0}
         /\ IsFiniteSet(Experts) /\ IsFiniteSet(Batches)
         /\ Cardinality(Batches) = dp_degree
         /\ model.expert_freq \in Nat \ {0} /\ model.first_k_dense \in Nat
         /\ model.MaxTokens \in Nat
<1>1. model \in ModelType /\ model.expert_freq <= model.num_layers
  BY RoutingAssumption
<1>2. /\ model.num_routed_expert \in Nat \ {0} /\ model.top_k \in Nat \ {0}
      /\ model.num_expert_per_device \in Nat \ {0} /\ model.num_layers \in Nat \ {0}
      /\ model.dp_degree \in Nat \ {0} /\ model.expert_freq \in Nat \ {0}
      /\ model.first_k_dense \in Nat /\ model.MaxTokens \in Nat
  BY <1>1 DEF ModelType
<1>3. model.num_layers \div model.expert_freq \in Nat \ {0}
  BY <1>1, <1>2
<1>4. IsFiniteSet(Experts)
  <2>1. PICK n \in Int : n = model.num_routed_expert - 1
    BY <1>2
  <2>2. IsFiniteSet(0 .. n)
    BY FS_Interval
  <2>. QED  BY <2>1, <2>2 DEF Experts, num_routed_expert
<1>5. IsFiniteSet(Batches) /\ Cardinality(Batches) = dp_degree
  <2>1. PICK n \in Nat \ {0} : n = model.dp_degree
    BY <1>2
  <2>2. IsFiniteSet(1 .. n) /\ Cardinality(1 .. n) = n
    BY FS_Interval
  <2>. QED  BY <2>1, <2>2 DEF Batches, dp_degree
<1>. QED  BY <1>2, <1>3, <1>4, <1>5 DEF num_routed_expert, top_k, num_layers,
               num_expert_per_device, dp_degree, num_layer
-----------------------------------------------------------------------------
(* Where a loop stops that goes on while the larger of two numbers falls.  *)

(* Of two loads the one grows and the other shrinks, for good once it      *)
(* stands still; the loop has gone on as far as K.                         *)
FallsUpTo(m, h, l, B, K) ==
  /\ m \in Nat /\ K \in 0 .. m
  /\ h \in [0 .. m -> Nat] /\ l \in [0 .. m -> Nat] /\ B \in [0 .. m -> Nat]
  /\ \A k \in 0 .. m : h[k] <= B[k] /\ l[k] <= B[k] /\ (B[k] = h[k] \/ B[k] = l[k])
  /\ \A i, j \in 0 .. m : i <= j => h[i] <= h[j] /\ l[j] <= l[i]
  /\ \A i, j \in 0 .. m : i < j /\ l[i] = l[i + 1] => l[j] = l[i]
  /\ \A j \in 1 .. K : B[j] < B[j - 1]
  /\ K < m => B[K] <= B[K + 1]

LEMMA FirstLossEnds ==
  ASSUME NEW m, NEW h, NEW l, NEW B, NEW K, FallsUpTo(m, h, l, B, K), NEW n \in 0 .. m
  PROVE  B[K] <= B[n]
<1>. USE DEF FallsUpTo
<1>1. \A i \in 0 .. K : B[K] <= B[K - i]
  <2>. DEFINE Good == {i \in 0 .. K : B[K] <= B[K - i]}
  <2>1. 0 \in Good
    OBVIOUS
  <2>2. ASSUME NEW i \in 0 .. K - 1, i \in Good
        PROVE  i + 1 \in Good
    <3>1. K - i \in 1 .. K /\ K - i \in 0 .. m /\ K - (i + 1) = (K - i) - 1
          /\ K - (i + 1) \in 0 .. m
      OBVIOUS
    <3>2. B[K - i] < B[(K - i) - 1] /\ B[K] <= B[K - i]
      BY <2>2, <3>1
    <3>3. B[K] \in Nat /\ B[K - i] \in Nat /\ B[K - (i + 1)] \in Nat
      BY <3>1
    <3>. QED  BY <3>1, <3>2, <3>3
  <2>. HIDE DEF Good
  <2>3. K \in Nat /\ \A i \in 0 .. K - 1 : i \in Good => i + 1 \in Good
    BY <2>2
  <2>4. \A i \in 0 .. K : i \in Good
    BY <2>1, <2>3, CountUp
  <2>. QED  BY <2>4 DEF Good
<1>2. CASE n <= K
  <2>1. K - n \in 0 .. K /\ K - (K - n) = n
    BY <1>2
  <2>. QED  BY <1>1, <2>1
<1>3. CASE n > K
  <2>1. K + 1 \in 0 .. m /\ K < m /\ K + 1 <= n
    BY <1>3
  <2>2. B[K] <= B[K + 1] /\ l[K + 1] <= l[K] /\ h[K + 1] <= h[n]
    BY <2>1
  <2>3. /\ B[K] \in Nat /\ B[K + 1] \in Nat /\ B[n] \in Nat /\ l[K] \in Nat
        /\ l[K + 1] \in Nat /\ h[K + 1] \in Nat /\ h[n] \in Nat /\ l[n] \in Nat
    BY <2>1
  <2>4. /\ h[n] <= B[n] /\ l[n] <= B[n] /\ l[K] <= B[K]
        /\ B[K + 1] = h[K + 1] \/ B[K + 1] = l[K + 1]
    BY <2>1, <2>3
  <2>5. CASE B[K + 1] = h[K + 1]
    BY <2>2, <2>3, <2>4, <2>5, SMTT(60)
  <2>6. CASE B[K + 1] = l[K + 1]
    <3>1. l[K] = l[K + 1]
      <4>1. PICK x, y \in Nat : x = l[K] /\ y = l[K + 1]
        BY <2>3
      <4>2. x <= B[K] /\ B[K] <= y /\ y <= x
        BY <2>2, <2>4, <2>6, <4>1
      <4>3. x = y
        BY <2>3, <4>2
      <4>. QED  BY <4>1, <4>3
    <3>2. l[n] = l[K]
      BY <1>3, <2>1, <3>1
    <3>. QED  BY <2>2, <2>3, <2>4, <2>6, <3>1, <3>2
  <2>. QED  BY <2>4, <2>5, <2>6
<1>. QED  BY <1>2, <1>3
-----------------------------------------------------------------------------
(* The groups of experts that are moved together.                          *)

LEMMA GroupsAreApart ==
  ASSUME model \in Models
  PROVE  /\ IsFiniteSet(Groups)
         /\ \A G \in Groups : G # {} /\ G \subseteq 0 .. num_expert_per_device - 1
         /\ \A G, H \in Groups : G # H => G \cap H = {}
<1>1. PICK n \in Nat \ {0} : n = num_expert_per_device
  BY Shape
<1>2. PICK size \in Nat \ {0} : size = IF n <= 4 THEN 1 ELSE n \div 4
  OBVIOUS
<1>3. PICK q \in Nat : q = n \div size /\ q * size <= n
  OBVIOUS
<1>. DEFINE group(g) == {g * size + i : i \in 0 .. size - 1}
<1>4. Groups = {group(g) : g \in 0 .. q - 1}
  BY <1>1, <1>2, <1>3 DEF Groups
<1>5. IsFiniteSet(Groups)
  <2>1. PICK f : f = [g \in 0 .. q - 1 |-> group(g)]
    OBVIOUS
  <2>2. Groups = {f[g] : g \in 0 .. q - 1}
    <3>. HIDE DEF group
    <3>. QED  BY <1>4, <2>1
  <2>3. PICK k \in Int : k = q - 1
    OBVIOUS
  <2>4. IsFiniteSet(0 .. k)
    BY FS_Interval
  <2>. QED  BY <2>2, <2>3, <2>4, ImageFinite
<1>6. ASSUME NEW g \in 0 .. q - 1, NEW x \in group(g)
      PROVE  x \in Nat /\ g * size <= x /\ x < (g + 1) * size /\ x <= n - 1
  <2>1. PICK i \in 0 .. size - 1 : x = g * size + i
    OBVIOUS
  <2>2. (g + 1) * size = g * size + size /\ g * size \in Nat
    OBVIOUS
  <2>3. g + 1 \in Nat /\ g + 1 <= q
    OBVIOUS
  <2>4. (g + 1) * size <= q * size /\ q * size \in Nat
    BY <2>3, TimesMonotone
  <2>. QED  BY <1>3, <2>1, <2>2, <2>4
<1>7. ASSUME NEW g \in 0 .. q - 1, NEW h \in 0 .. q - 1, g < h
      PROVE  group(g) \cap group(h) = {}
  <2>1. g + 1 \in Nat /\ h \in Nat /\ g + 1 <= h
    BY <1>7
  <2>2. (g + 1) * size <= h * size /\ (g + 1) * size \in Nat /\ h * size \in Nat
    BY <2>1, TimesMonotone
  <2>3. ASSUME NEW x \in group(g), x \in group(h)
        PROVE  FALSE
    <3>1. x \in Nat /\ x < (g + 1) * size /\ h * size <= x
      BY <1>6, <2>3
    <3>. QED  BY <2>2, <3>1
  <2>. QED  BY <2>3
<1>8. ASSUME NEW g \in 0 .. q - 1
      PROVE  group(g) # {}
  <2>1. 0 \in 0 .. size - 1
    OBVIOUS
  <2>. QED  BY <2>1
<1>. HIDE DEF group
<1>9. ASSUME NEW G \in Groups, NEW H \in Groups, G # H
      PROVE  G \cap H = {}
  <2>1. PICK g \in 0 .. q - 1, h \in 0 .. q - 1 : G = group(g) /\ H = group(h)
    BY <1>4
  <2>2. g < h \/ h < g
    BY <1>9, <2>1
  <2>. QED  BY <1>7, <2>1, <2>2
<1>10. ASSUME NEW G \in Groups, NEW x \in G
      PROVE  x \in 0 .. n - 1
  <2>1. PICK g \in 0 .. q - 1 : G = group(g)
    BY <1>4
  <2>. QED  BY <1>6, <2>1
<1>. QED  BY <1>1, <1>4, <1>5, <1>8, <1>9, <1>10
-----------------------------------------------------------------------------
(* The loads of the two units.                                             *)

Slots == 0 .. num_expert_per_device - 1

LEMMA UnitTimes ==
  ASSUME NEW x \in Nat
  PROVE  /\ HighTime(x) \in Nat /\ LowTime(x) \in Nat
         /\ LowTime(x) = 0 <=> LowFloor = 0 /\ x * LowToken = 0
<1>1. /\ HighFloor \in Nat /\ LowFloor \in Nat
      /\ x * HighToken \in Nat /\ x * LowToken \in Nat
  BY RoutingAssumption
<1>2. PICK y, z \in Nat : y = x * HighToken /\ z = x * LowToken
  BY <1>1
<1>3. /\ Max({HighFloor, y}) = IF HighFloor >= y THEN HighFloor ELSE y
      /\ Max({LowFloor, z}) = IF LowFloor >= z THEN LowFloor ELSE z
  BY <1>1, MaxOfTwo
<1>4. HighTime(x) = Max({HighFloor, y}) /\ LowTime(x) = Max({LowFloor, z})
  BY <1>2 DEF HighTime, LowTime
<1>. QED  BY <1>1, <1>2, <1>3, <1>4

LEMMA Loads ==
  ASSUME model \in Models, NEW list \in [Slots -> Nat],
         NEW H, H = [e \in Slots |-> HighTime(list[e])],
         NEW L, L = [e \in Slots |-> LowTime(list[e])],
         NEW S \in SUBSET Slots
  PROVE  /\ IsFiniteSet(S) /\ \A e \in Slots : H[e] \in Nat /\ L[e] \in Nat
         /\ HighLoad(list, S) = SumOver(H, S) /\ HighLoad(list, S) \in Nat
         /\ LowLoad(list, S) = SumOver(L, S) /\ LowLoad(list, S) \in Nat
<1>1. IsFiniteSet(S)
  <2>1. PICK n \in Int : n = num_expert_per_device - 1
    BY Shape
  <2>2. IsFiniteSet(0 .. n)
    BY FS_Interval
  <2>. QED  BY <2>1, <2>2, FS_Subset DEF Slots
<1>2. \A e \in Slots : /\ H[e] = HighTime(list[e]) /\ L[e] = LowTime(list[e])
                       /\ H[e] \in Nat /\ L[e] \in Nat
  BY UnitTimes
<1>3. PICK f, g : /\ f = [e \in S |-> HighTime(list[e])]
                  /\ g = [e \in S |-> LowTime(list[e])]
  OBVIOUS
<1>4. HighLoad(list, S) = SumOver(f, S) /\ LowLoad(list, S) = SumOver(g, S)
  BY <1>3, TotalIsSum DEF HighLoad, LowLoad
<1>5. \A e \in S : f[e] = H[e] /\ f[e] \in Nat /\ g[e] = L[e] /\ g[e] \in Nat
  BY <1>2, <1>3
<1>6. SumOver(f, S) = SumOver(H, S) /\ SumOver(g, S) = SumOver(L, S)
  <2>1. PICK h, l : h = H /\ l = L
    OBVIOUS
  <2>2. \A e \in S : f[e] \in Nat /\ f[e] = h[e] /\ g[e] \in Nat /\ g[e] = l[e]
    BY <1>5, <2>1
  <2>3. SumOver(f, S) = SumOver(h, S)
    BY <1>1, <2>2, SumSame
  <2>4. SumOver(g, S) = SumOver(l, S)
    BY <1>1, <2>2, SumSame
  <2>. QED  BY <2>1, <2>3, <2>4
<1>7. SumOver(f, S) \in Nat /\ SumOver(g, S) \in Nat
  BY <1>1, <1>5, SumNat
<1>. QED  BY <1>1, <1>2, <1>4, <1>6, <1>7

LEMMA BottleneckIsOne ==
  ASSUME model \in Models, NEW list \in [Slots -> Nat], NEW S \in SUBSET Slots,
         NEW B, B = Bottleneck(list, S),
         NEW h, h = HighLoad(list, S), NEW l, l = LowLoad(list, Slots \ S)
  PROVE  B \in Nat /\ h <= B /\ l <= B /\ (B = h \/ B = l)
<1>1. h \in Nat /\ l \in Nat
  <2>1. S \subseteq Slots /\ Slots \ S \subseteq Slots
    OBVIOUS
  <2>. QED  BY <2>1, Loads
<1>2. B = IF h >= l THEN h ELSE l
  <2>1. B = Max({h, l})
    BY DEF Bottleneck, Slots
  <2>. QED  BY <1>1, <2>1, MaxOfTwo
<1>. QED  BY <1>1, <1>2

(* The groups in the order of sort.                                        *)
InOrder(list, o, m) ==
  /\ m \in Nat /\ DOMAIN o = 1 .. m
  /\ \A i \in 1 .. m : o[i] \in Groups /\ o[i] # {} /\ o[i] \subseteq Slots
  /\ \A i, j \in 1 .. m : i < j => Total(list, o[i]) >= Total(list, o[j])
  /\ \A k \in 0 .. m : Prefix(o, k) \subseteq Slots
  /\ \A i, j \in 0 .. m : i <= j => Prefix(o, i) \subseteq Prefix(o, j)
  /\ \A i \in 1 .. m : o[i] \cap Prefix(o, i - 1) = {}

LEMMA SortedInOrder ==
  ASSUME model \in Models, NEW list, NEW o, o \in Sorted(list)
  PROVE  InOrder(list, o, Len(o))
<1>1. PICK c \in Nat : c = Cardinality(Groups)
  BY GroupsAreApart, FS_CardinalityType
<1>2. /\ o \in [1 .. c -> Groups]
      /\ \A i, j \in 1 .. c : i # j => o[i] # o[j]
      /\ \A i, j \in 1 .. c : i < j => Total(list, o[i]) >= Total(list, o[j])
  BY <1>1 DEF Sorted, SetToSeqs
<1>3. Len(o) = c /\ DOMAIN o = 1 .. c
  BY <1>2
<1>4. \A i \in 1 .. c : o[i] \in Groups /\ o[i] # {} /\ o[i] \subseteq Slots
  BY <1>2, GroupsAreApart DEF Slots
<1>5. \A i, j \in 1 .. c : i # j => o[i] \cap o[j] = {}
  BY <1>2, <1>4, GroupsAreApart
<1>6. \A k \in 0 .. c : Prefix(o, k) \subseteq Slots
  <2>1. \A k \in 0 .. c : 1 .. k \subseteq 1 .. c
    OBVIOUS
  <2>. QED  BY <1>4, <2>1 DEF Prefix
<1>7. \A i, j \in 0 .. c : i <= j => Prefix(o, i) \subseteq Prefix(o, j)
  <2>1. \A i, j \in 0 .. c : i <= j => 1 .. i \subseteq 1 .. j
    OBVIOUS
  <2>. QED  BY <2>1 DEF Prefix
<1>8. ASSUME NEW i \in 1 .. c, NEW x \in o[i], x \in Prefix(o, i - 1)
      PROVE  FALSE
  <2>1. PICK j \in 1 .. i - 1 : x \in o[j]
    BY <1>8 DEF Prefix
  <2>2. j \in 1 .. c /\ j # i
    BY <2>1
  <2>. QED  BY <1>5, <1>8, <2>1, <2>2
<1>9. \A i \in 1 .. c : o[i] \cap Prefix(o, i - 1) = {}
  BY <1>8
<1>. QED  BY <1>2, <1>3, <1>4, <1>6, <1>7, <1>9 DEF InOrder

(* Once a group takes nothing from the low unit no later one does: either  *)
(* tokens take it no time, or the group has none and so have the later     *)
(* ones.                                                                   *)
LEMMA NothingLeft ==
  ASSUME model \in Models, NEW list \in [Slots -> Nat], NEW o, NEW m,
         InOrder(list, o, m), NEW k \in 1 .. m,
         \A e \in o[k] : LowTime(list[e]) = 0,
         NEW j \in k .. m, NEW e \in o[j]
  PROVE  LowTime(list[e]) = 0
<1>1. PICK x \in o[k] : TRUE
  BY DEF InOrder
<1>2. /\ m \in Nat /\ k \in 1 .. m /\ j \in 1 .. m
      /\ o[k] \subseteq Slots /\ o[j] \subseteq Slots
  BY DEF InOrder
<1>3. list[x] \in Nat /\ list[e] \in Nat /\ \A y \in o[k] : list[y] \in Nat
  BY <1>1, <1>2
<1>4. LowFloor = 0 /\ \A y \in o[k] : list[y] * LowToken = 0
  BY <1>1, <1>3, UnitTimes
<1>5. LowToken \in Nat
  BY RoutingAssumption
<1>6. CASE LowToken = 0
  <2>1. list[e] * LowToken = 0
    BY <1>3, <1>6
  <2>. QED  BY <1>3, <1>4, <2>1, UnitTimes
<1>7. CASE LowToken # 0
  <2>1. \A y \in o[k] : list[y] = 0
    BY <1>3, <1>4, <1>5, <1>7
  <2>2. CASE j = k
    BY <2>2
  <2>3. CASE j # k
    <3>1. Total(list, o[k]) >= Total(list, o[j])
      BY <1>2, <2>3 DEF InOrder
    <3>2. Total(list, o[k]) = SumOver(list, o[k]) /\ Total(list, o[j]) = SumOver(list, o[j])
      BY TotalIsSum
    <3>3. IsFiniteSet(o[k]) /\ IsFiniteSet(o[j])
      BY <1>2, Loads
    <3>4. SumOver(list, o[k]) = Cardinality(o[k]) * 0 /\ Cardinality(o[k]) \in Nat
      BY <2>1, <3>3, SumConstant, FS_CardinalityType
    <3>5. \A y \in o[j] : list[y] \in Nat
      BY <1>2
    <3>6. SumOver(list, o[j]) \in Nat
      BY <3>3, <3>5, SumNat
    <3>7. SumOver(list, o[j]) = 0
      BY <3>1, <3>2, <3>4, <3>6
    <3>8. list[e] = 0
      BY <3>3, <3>5, <3>7, SumZero
    <3>9. list[e] * LowToken = 0
      BY <1>5, <3>8
    <3>. QED  BY <1>3, <1>4, <3>9, UnitTimes
  <2>. QED  BY <2>2, <2>3
<1>. QED  BY <1>6, <1>7

(* Where getIdxHigh stops: every move up to there pays, the next does not. *)
LEMMA WhereItStops ==
  ASSUME NEW list, NEW o, NEW m \in Nat, DOMAIN o = 1 .. m,
         NEW B, B = [k \in 0 .. m |-> Bottleneck(list, Prefix(o, k))],
         \A k \in 0 .. m : B[k] \in Nat
  PROVE  \E K \in 0 .. m : /\ getIdxHigh(list, o) = Prefix(o, K)
                           /\ \A j \in 1 .. K : B[j] < B[j - 1]
                           /\ K < m => B[K] <= B[K + 1]
<1>. DEFINE S == {0} \cup {k \in 1 .. m : \A j \in 1 .. k : B[j] < B[j - 1]}
            K == Max(S)
<1>1. getIdxHigh(list, o) = Prefix(o, K)
  <2>1. \A j \in 1 .. m : /\ B[j] = Bottleneck(list, Prefix(o, j))
                          /\ B[j - 1] = Bottleneck(list, Prefix(o, j - 1))
    OBVIOUS
  <2>2. \A k \in 1 .. m : \A j \in 1 .. k : j \in 1 .. m
    OBVIOUS
  <2>3. S = {0} \cup {k \in DOMAIN o : \A j \in 1 .. k :
              Bottleneck(list, Prefix(o, j)) < Bottleneck(list, Prefix(o, j - 1))}
    BY <2>1, <2>2
  <2>. HIDE DEF S
  <2>. QED  BY <2>3 DEF getIdxHigh
<1>2. K \in S /\ \A k \in S : k <= K
  <2>1. IsFiniteSet(S)
    <3>1. S \subseteq 0 .. m
      OBVIOUS
    <3>2. IsFiniteSet(0 .. m)
      BY FS_Interval
    <3>. QED  BY <3>1, <3>2, FS_Subset
  <2>2. S \subseteq Int /\ S # {}
    OBVIOUS
  <2>. HIDE DEF S
  <2>. QED  BY <2>1, <2>2, MaxIsGreatest
<1>. HIDE DEF K
<1>3. K \in 0 .. m /\ \A j \in 1 .. K : B[j] < B[j - 1]
  BY <1>2
<1>4. ASSUME K < m
      PROVE  B[K] <= B[K + 1]
  <2>1. K + 1 \in 1 .. m /\ K + 1 \notin S
    <3>1. K + 1 \in 1 .. m /\ ~(K + 1 <= K)
      BY <1>3, <1>4
    <3>. HIDE DEF S
    <3>. QED  BY <1>2, <3>1
  <2>2. PICK j \in 1 .. K + 1 : ~(B[j] < B[j - 1])
    BY <2>1
  <2>3. j = K + 1
    BY <1>3, <2>2
  <2>4. ~(B[K + 1] < B[(K + 1) - 1]) /\ (K + 1) - 1 = K
    BY <1>3, <2>2, <2>3
  <2>5. B[K] \in Nat /\ B[K + 1] \in Nat
    BY <1>3, <2>1
  <2>. QED  BY <2>4, <2>5
<1>. QED  BY <1>1, <1>3, <1>4

LEMMA SplitIsBest ==
  ASSUME model \in Models, NEW list \in [Slots -> Nat], NEW o, o \in Sorted(list),
         NEW n \in 0 .. Len(o)
  PROVE  Bottleneck(list, getIdxHigh(list, o)) <= Bottleneck(list, Prefix(o, n))
<1>1. PICK m : m = Len(o)
  OBVIOUS
<1>2. InOrder(list, o, m) /\ m \in Nat /\ DOMAIN o = 1 .. m /\ n \in 0 .. m
  BY <1>1, SortedInOrder DEF InOrder
<1>3. PICK P : P = [k \in 0 .. m |-> Prefix(o, k)]
  OBVIOUS
<1>4. /\ \A k \in 0 .. m : P[k] \in SUBSET Slots
      /\ \A i, j \in 0 .. m : i <= j => P[i] \subseteq P[j]
      /\ \A i \in 1 .. m : /\ o[i] \cap P[i - 1] = {} /\ P[i] = P[i - 1] \cup o[i]
                           /\ o[i] \subseteq Slots
  <2>1. ASSUME NEW i \in 1 .. m
        PROVE  P[i] = P[i - 1] \cup o[i] /\ P[i - 1] = Prefix(o, i - 1)
    <3>1. 1 .. i = (1 .. i - 1) \cup {i} /\ i \in 0 .. m /\ i - 1 \in 0 .. m
      BY <1>2
    <3>2. Prefix(o, i) = Prefix(o, i - 1) \cup o[i]
      BY <3>1 DEF Prefix
    <3>3. P[i] = Prefix(o, i)
      BY <1>3, <3>1
    <3>4. P[i - 1] = Prefix(o, i - 1)
      BY <1>3, <3>1
    <3>. QED  BY <3>2, <3>3, <3>4
  <2>. QED  BY <1>2, <1>3, <2>1 DEF InOrder
<1>5. PICK H, L : /\ H = [e \in Slots |-> HighTime(list[e])]
                  /\ L = [e \in Slots |-> LowTime(list[e])]
  OBVIOUS
<1>6. /\ IsFiniteSet(Slots)
      /\ \A e \in Slots : H[e] \in Nat /\ L[e] \in Nat /\ L[e] = LowTime(list[e])
  BY <1>5, Loads
<1>7. PICK B, h, l : /\ B = [k \in 0 .. m |-> Bottleneck(list, Prefix(o, k))]
                     /\ h = [k \in 0 .. m |-> HighLoad(list, P[k])]
                     /\ l = [k \in 0 .. m |-> LowLoad(list, Slots \ P[k])]
  OBVIOUS
<1>8. ASSUME NEW k \in 0 .. m
      PROVE  /\ h[k] = SumOver(H, P[k]) /\ h[k] \in Nat
             /\ l[k] = SumOver(L, Slots \ P[k]) /\ l[k] \in Nat
             /\ B[k] \in Nat /\ h[k] <= B[k] /\ l[k] <= B[k]
             /\ B[k] = h[k] \/ B[k] = l[k]
  <2>1. P[k] \in SUBSET Slots /\ Slots \ P[k] \in SUBSET Slots
    BY <1>4
  <2>2. HighLoad(list, P[k]) = SumOver(H, P[k]) /\ HighLoad(list, P[k]) \in Nat
    BY <1>5, <2>1, Loads
  <2>3. LowLoad(list, Slots \ P[k]) = SumOver(L, Slots \ P[k])
        /\ LowLoad(list, Slots \ P[k]) \in Nat
    BY <1>5, <2>1, Loads
  <2>4. B[k] = Bottleneck(list, P[k]) /\ h[k] = HighLoad(list, P[k])
        /\ l[k] = LowLoad(list, Slots \ P[k])
    BY <1>3, <1>7
  <2>5. B[k] \in Nat /\ h[k] <= B[k] /\ l[k] <= B[k] /\ (B[k] = h[k] \/ B[k] = l[k])
    BY <2>1, <2>4, BottleneckIsOne
  <2>. QED  BY <2>2, <2>3, <2>4, <2>5
<1>9. ASSUME NEW i \in 0 .. m, NEW j \in 0 .. m, i <= j
      PROVE  h[i] <= h[j] /\ l[j] <= l[i]
  <2>1. PICK a, b, f, g : a = P[i] /\ b = P[j] /\ f = H /\ g = L
    OBVIOUS
  <2>2. a \subseteq b /\ b \subseteq Slots /\ IsFiniteSet(b) /\ IsFiniteSet(Slots \ a)
    BY <1>4, <1>6, <1>9, <2>1, FS_Subset
  <2>3. \A e \in Slots : f[e] \in Nat /\ g[e] \in Nat
    BY <1>6, <2>1
  <2>4. SumOver(f, b) = SumOver(f, a) + SumOver(f, b \ a)
    BY <2>2, <2>3, SumPart
  <2>5. Slots \ b \subseteq Slots \ a
    BY <2>2
  <2>6. SumOver(g, Slots \ a)
          = SumOver(g, Slots \ b) + SumOver(g, (Slots \ a) \ (Slots \ b))
    BY <2>2, <2>3, <2>5, SumPart
  <2>7. SumOver(f, b \ a) \in Nat /\ SumOver(g, (Slots \ a) \ (Slots \ b)) \in Nat
    <3>1. IsFiniteSet(b \ a) /\ IsFiniteSet((Slots \ a) \ (Slots \ b))
      BY <2>2, FS_Subset
    <3>. QED  BY <2>2, <2>3, <3>1, SumNat
  <2>8. /\ h[i] = SumOver(f, a) /\ h[j] = SumOver(f, b) /\ h[i] \in Nat /\ h[j] \in Nat
        /\ l[i] = SumOver(g, Slots \ a) /\ l[j] = SumOver(g, Slots \ b)
        /\ l[i] \in Nat /\ l[j] \in Nat
    BY <1>8, <2>1
  <2>. QED  BY <2>4, <2>6, <2>7, <2>8
<1>10. ASSUME NEW i \in 0 .. m, NEW j \in 0 .. m, i < j, l[i] = l[i + 1]
       PROVE  l[j] = l[i]
  <2>1. i + 1 \in 0 .. m /\ i + 1 \in 1 .. m /\ (i + 1) - 1 = i
    BY <1>2, <1>10
  <2>2. \A e \in o[i + 1] : LowTime(list[e]) = 0
    <3>1. PICK T, U, V, g : /\ T = Slots \ P[i] /\ V = Slots \ P[i + 1] /\ U = o[i + 1]
                            /\ g = L
      OBVIOUS
    <3>2. U \subseteq T /\ T \ U = V /\ T \subseteq Slots
      BY <1>4, <2>1, <3>1
    <3>3. IsFiniteSet(T) /\ IsFiniteSet(U) /\ \A e \in T : g[e] \in Nat
      BY <1>6, <3>1, <3>2, FS_Subset
    <3>4. SumOver(g, T) = SumOver(g, U) + SumOver(g, V)
      BY <3>2, <3>3, SumPart
    <3>5. SumOver(g, T) = l[i] /\ SumOver(g, V) = l[i + 1] /\ l[i] \in Nat
      BY <1>8, <2>1, <3>1
    <3>6. SumOver(g, U) = 0
      <4>1. SumOver(g, U) \in Nat
        BY <3>2, <3>3, SumNat
      <4>. QED  BY <1>10, <3>4, <3>5, <4>1
    <3>7. \A e \in U : g[e] = 0
      BY <3>2, <3>3, <3>6, SumZero
    <3>. QED  BY <1>6, <3>1, <3>2, <3>7
  <2>3. PICK T, V, W, g : /\ T = Slots \ P[i] /\ V = Slots \ P[j] /\ W = P[j] \ P[i]
                          /\ g = L
    OBVIOUS
  <2>4. V \subseteq T /\ T \ V = W /\ T \subseteq Slots /\ W \subseteq Slots
    BY <1>4, <1>10, <2>3
  <2>5. IsFiniteSet(T) /\ IsFiniteSet(W) /\ \A e \in T : g[e] \in Nat
    BY <1>6, <2>3, <2>4, FS_Subset
  <2>6. SumOver(g, T) = SumOver(g, V) + SumOver(g, W)
    BY <2>4, <2>5, SumPart
  <2>7. ASSUME NEW e \in W
        PROVE  g[e] = 0
    <3>1. PICK k \in 1 .. j : e \in o[k]
      BY <1>3, <2>3 DEF Prefix
    <3>2. ~(k \in 1 .. i)
      BY <1>3, <2>3, <3>1 DEF Prefix
    <3>3. k \in i + 1 .. m
      BY <1>2, <3>1, <3>2
    <3>4. LowTime(list[e]) = 0
      BY <1>2, <2>1, <2>2, <3>1, <3>3, NothingLeft
    <3>. QED  BY <1>6, <2>3, <2>4, <3>4
  <2>8. SumOver(g, W) = Cardinality(W) * 0 /\ Cardinality(W) \in Nat
    BY <2>5, <2>7, SumConstant, FS_CardinalityType
  <2>9. SumOver(g, T) = l[i] /\ SumOver(g, V) = l[j] /\ l[i] \in Nat /\ l[j] \in Nat
    BY <1>8, <2>3
  <2>. QED  BY <2>6, <2>8, <2>9
<1>11. /\ B \in [0 .. m -> Nat] /\ h \in [0 .. m -> Nat] /\ l \in [0 .. m -> Nat]
       /\ \A k \in 0 .. m : h[k] <= B[k] /\ l[k] <= B[k] /\ (B[k] = h[k] \/ B[k] = l[k])
  BY <1>7, <1>8
<1>12. PICK K \in 0 .. m : /\ getIdxHigh(list, o) = Prefix(o, K)
                           /\ \A j \in 1 .. K : B[j] < B[j - 1]
                           /\ K < m => B[K] <= B[K + 1]
  <2>1. \A k \in 0 .. m : B[k] \in Nat
    BY <1>8
  <2>2. m \in Nat /\ DOMAIN o = 1 .. m
    BY <1>2
  <2>3. B = [k \in 0 .. m |-> Bottleneck(list, Prefix(o, k))]
    BY <1>7
  <2>. QED  BY <2>1, <2>2, <2>3, WhereItStops, ZenonT(60)
<1>13. B[K] <= B[n]
  <2>1. \A i, j \in 0 .. m : i <= j => h[i] <= h[j] /\ l[j] <= l[i]
    BY <1>9
  <2>2. \A i, j \in 0 .. m : i < j /\ l[i] = l[i + 1] => l[j] = l[i]
    BY <1>10
  <2>3. FallsUpTo(m, h, l, B, K)
    BY <1>2, <1>11, <1>12, <2>1, <2>2 DEF FallsUpTo
  <2>. QED  BY <1>2, <2>3, FirstLossEnds
<1>. QED  BY <1>2, <1>7, <1>12, <1>13
-----------------------------------------------------------------------------
(* The parts of the invariant.                                             *)

LayerOK == phase \in {"draw", "route"} => layer < num_layers /\ MoE(layer)

(* n tokens are counted, each with top_k experts and no expert twice.      *)
Has(counts, n) ==
  /\ Total(counts, Experts) = n * top_k
  /\ \A e \in Experts : counts[e] <= n

(* While experts are drawn the batches before this one are complete, and   *)
(* this one has its tokens but those left.                                 *)
DrawOK ==
  phase = "draw" =>
    /\ left <= tokens[batch] /\ Cardinality(route) < top_k
    /\ left = 0 \/ model.from_list => route = {}
    /\ \A b \in Batches : b < batch => Has(num_token_in_expert[b], tokens[b])
    /\ Has(num_token_in_expert[batch], tokens[batch] - left)

(* The marks are those that getIdxHigh found for the counts in place.      *)
SplitOK ==
  phase = "decode" /\ layer > 0 /\ MoE(layer - 1) =>
    \A d \in Devices : /\ order[d] \in Sorted(OwnList(d))
                       /\ high[d] = getIdxHigh(OwnList(d), order[d])

RoutingInv == ERTypeOK /\ LayerOK /\ DrawOK /\ CountsAddUp /\ SplitOK

(* The row that cur_layer of a batch has to be at: the layers before this  *)
(* one, and this one when its experts are chosen for the batch.            *)
Row(b) ==
  IF phase = "schedule" THEN 0
  ELSE IF phase = "decode" \/ (phase = "draw" /\ b >= batch)
       THEN MoEBefore(layer) % num_layer
  ELSE (MoEBefore(layer) + 1) % num_layer

RowsOK == EveryRound => \A b \in Batches : cur_layer[b] = Row(b)
-----------------------------------------------------------------------------
(* Types.                                                                  *)

LEMMA SameShape ==
  ASSUME [Next]_vars
  PROVE  /\ model' = model
         /\ Experts' = Experts /\ Batches' = Batches /\ Devices' = Devices
         /\ Groups' = Groups /\ CountType' = CountType
         /\ num_layer' = num_layer /\ num_layers' = num_layers /\ top_k' = top_k
         /\ num_expert_per_device' = num_expert_per_device
<1>1. model' = model
  BY DEF Next, vars, Schedule, Dense, EndIteration, GateUpdate, DrawExpert,
         ExpertFromList, EndBatch, Aggregate, Route
<1>2. /\ num_routed_expert' = num_routed_expert /\ dp_degree' = dp_degree
      /\ num_expert_per_device' = num_expert_per_device /\ num_layers' = num_layers
      /\ top_k' = top_k /\ num_layer' = num_layer
  BY <1>1 DEF num_routed_expert, dp_degree, num_expert_per_device, num_layers,
     top_k,
              num_layer
<1>3. Experts' = Experts /\ Batches' = Batches /\ Devices' = Devices
  BY <1>2 DEF Experts, Batches, Devices
<1>4. Groups' = Groups
  BY <1>2 DEF Groups
<1>5. CountType' = CountType
  BY <1>3 DEF CountType
<1>. QED  BY <1>1, <1>2, <1>3, <1>4, <1>5

LEMMA OwnListType ==
  ASSUME model \in Models, num_token_in_expert \in CountType, NEW d \in Devices
  PROVE  OwnList(d) \in [Slots -> Nat]
<1>1. PICK n, E \in Nat \ {0} : n = num_expert_per_device /\ E = num_routed_expert
  BY Shape
<1>2. PICK q \in Nat : q = E \div n /\ q * n <= E
  OBVIOUS
<1>3. d \in Nat /\ d + 1 <= q
  BY <1>1, <1>2 DEF Devices
<1>4. (d + 1) * n <= q * n /\ (d + 1) * n = d * n + n /\ d * n \in Nat /\ q * n \in Nat
  BY <1>3, TimesMonotone
<1>5. \A i \in 0 .. n - 1 : d * n + i \in 0 .. E - 1
  BY <1>2, <1>4
<1>6. 1 \in Batches
  BY Shape DEF Batches
<1>7. num_token_in_expert[1] \in [0 .. E - 1 -> Nat]
  BY <1>1, <1>6 DEF CountType, Experts
<1>. QED  BY <1>1, <1>5, <1>7 DEF OwnList, Slots

LEMMA SplitWithin ==
  ASSUME model \in Models, NEW list \in [Slots -> Nat], NEW o, o \in Sorted(list)
  PROVE  getIdxHigh(list, o) \subseteq Slots
<1>1. PICK m : m = Len(o)
  OBVIOUS
<1>2. InOrder(list, o, m) /\ m \in Nat /\ DOMAIN o = 1 .. m
      /\ \A k \in 0 .. m : Prefix(o, k) \subseteq Slots
  BY <1>1, SortedInOrder DEF InOrder
<1>3. PICK B : B = [k \in 0 .. m |-> Bottleneck(list, Prefix(o, k))]
  OBVIOUS
<1>4. \A k \in 0 .. m : B[k] \in Nat
  <2>1. \A k \in 0 .. m : Bottleneck(list, Prefix(o, k)) \in Nat
    BY <1>2, BottleneckIsOne
  <2>. QED  BY <1>3, <2>1
<1>5. \E K \in 0 .. m : getIdxHigh(list, o) = Prefix(o, K)
  <2>1. m \in Nat /\ DOMAIN o = 1 .. m
    BY <1>2
  <2>. QED  BY <1>3, <1>4, <2>1, WhereItStops, ZenonT(60)
<1>. QED  BY <1>2, <1>5

LEMMA InitRouting == Init => RoutingInv
<1>. SUFFICES ASSUME Init
              PROVE  RoutingInv
  OBVIOUS
<1>1. phase = "schedule" /\ model \in Models
  BY DEF Init
<1>2. ERTypeOK
  <2>1. /\ tokens \in [Batches -> Nat] /\ iteration \in 0 .. MaxIterations
        /\ layer \in 0 .. num_layers /\ cur_layer \in [Batches -> 0 .. num_layer - 1]
        /\ batch \in Batches /\ left \in Nat
    BY Shape, RoutingAssumption DEF Init, Batches
  <2>2. NoCounts \in [Experts -> Nat]
    BY DEF NoCounts
  <2>. QED  BY <1>1, <2>1, <2>2 DEF Init, ERTypeOK, CountType
<1>. QED  BY <1>1, <1>2 DEF RoutingInv, LayerOK, DrawOK, CountsAddUp, SplitOK

(* The sum over the batches that aggregate_expert gives to all of them.    *)
SumFor(e) == Total([b \in Batches |-> num_token_in_expert[b][e]], Batches)

LEMMA SumsAreNat ==
  ASSUME model \in Models, num_token_in_expert \in CountType, NEW e \in Experts
  PROVE  SumFor(e) \in Nat
<1>1. PICK f : f = [b \in Batches |-> num_token_in_expert[b][e]]
  OBVIOUS
<1>2. \A b \in Batches : f[b] \in Nat
  BY <1>1 DEF CountType
<1>3. SumOver(f, Batches) \in Nat
  BY <1>2, Shape, SumNat
<1>. QED  BY <1>1, <1>3, TotalIsSum DEF SumFor

LEMMA NextTypes == ERTypeOK /\ LayerOK /\ [Next]_vars => ERTypeOK'
<1>. SUFFICES ASSUME ERTypeOK, LayerOK, [Next]_vars
              PROVE  ERTypeOK'
  OBVIOUS
<1>1. /\ model \in Models /\ model' = model
      /\ Experts' = Experts /\ Batches' = Batches /\ Devices' = Devices
      /\ Groups' = Groups /\ CountType' = CountType
      /\ num_layer' = num_layer /\ num_layers' = num_layers
      /\ num_expert_per_device' = num_expert_per_device
  BY SameShape DEF ERTypeOK
<1>2. /\ num_layers \in Nat \ {0} /\ num_layer \in Nat \ {0} /\ dp_degree \in Nat \ {0}
      /\ model.MaxTokens \in Nat
  BY <1>1, Shape
<1>3. /\ batch \in Nat /\ 1 <= batch /\ batch <= dp_degree
      /\ \A b : b \in Batches <=> b \in 1 .. dp_degree
  BY DEF ERTypeOK, Batches
<1>4. ASSUME NEW b \in Batches
      PROVE  NextLayer(b) \in [Batches -> 0 .. num_layer - 1]
  BY <1>2 DEF ERTypeOK, NextLayer
<1>5. ASSUME NEW S
      PROVE  Counted(S) \in CountType
  BY DEF ERTypeOK, CountType, Counted
<1>6. ASSUME NEW b \in Batches
      PROVE  Cleared(num_token_in_expert, b) \in CountType
  BY DEF ERTypeOK, CountType, Cleared, NoCounts
<1>. USE DEF ERTypeOK
<1>7. CASE Schedule
  <2>1. tokens' \in [Batches -> Nat]
    BY <1>2, <1>7 DEF Schedule
  <2>2. iteration' \in 0 .. MaxIterations
    BY <1>7, RoutingAssumption DEF Schedule
  <2>. QED  BY <1>1, <1>2, <1>7, <2>1, <2>2 DEF Schedule
<1>8. CASE Dense
  <2>1. layer' \in 0 .. num_layers
    BY <1>2, <1>8 DEF Dense
  <2>. QED  BY <1>1, <1>8, <2>1 DEF Dense
<1>9. CASE EndIteration
  BY <1>1, <1>9 DEF EndIteration
<1>10. CASE GateUpdate
  <2>1. 1 \in Batches
    BY <1>2 DEF Batches
  <2>2. batch' \in Batches /\ left' \in Nat /\ num_token_in_expert' \in CountType
    BY <1>6, <1>10, <2>1 DEF GateUpdate, StartBatch
  <2>. QED  BY <1>1, <1>10, <2>2 DEF GateUpdate, StartBatch
<1>11. ASSUME NEW e \in Experts, DrawExpert(e)
       PROVE  ERTypeOK'
  <2>1. left' \in Nat /\ route' \subseteq Experts /\ num_token_in_expert' \in CountType
    BY <1>5, <1>11 DEF DrawExpert
  <2>. QED  BY <1>1, <1>11, <2>1 DEF DrawExpert
<1>12. CASE ExpertFromList
  <2>1. left' \in Nat /\ num_token_in_expert' \in CountType
    BY <1>5, <1>12 DEF ExpertFromList
  <2>. QED  BY <1>1, <1>12, <2>1 DEF ExpertFromList
<1>13. CASE EndBatch
  <2>1. batch + 1 \in Batches
    BY <1>2, <1>3, <1>13 DEF EndBatch
  <2>2. /\ batch' \in Batches /\ left' \in Nat /\ num_token_in_expert' \in CountType
        /\ cur_layer' \in [Batches -> 0 .. num_layer - 1]
    BY <1>4, <1>6, <1>13, <2>1 DEF EndBatch, StartBatch
  <2>. QED  BY <1>1, <1>13, <2>2 DEF EndBatch, StartBatch
<1>14. CASE Aggregate
  <2>1. num_token_in_expert' = [b \in Batches |-> [e \in Experts |-> SumFor(e)]]
    BY <1>14 DEF Aggregate, SumFor
  <2>2. num_token_in_expert' \in CountType
    BY <1>1, <2>1, SumsAreNat DEF CountType
  <2>3. cur_layer' \in [Batches -> 0 .. num_layer - 1]
    BY <1>4, <1>14 DEF Aggregate
  <2>. QED  BY <1>1, <1>14, <2>2, <2>3 DEF Aggregate
<1>15. CASE Route
  <2>1. layer' \in 0 .. num_layers
    BY <1>2, <1>15 DEF Route, LayerOK
  <2>2. order' \in [Devices -> SetToSeqs(Groups)]
        /\ \A d \in Devices : order'[d] \in Sorted(OwnList(d))
    BY <1>15 DEF Route
  <2>3. \A d \in Devices : getIdxHigh(OwnList(d), order'[d]) \subseteq Slots
    BY <1>1, <2>2, OwnListType, SplitWithin
  <2>4. high' \in [Devices -> SUBSET (0 .. num_expert_per_device - 1)]
    BY <1>15, <2>3 DEF Route, Slots
  <2>5. SetToSeqs(Groups)' = SetToSeqs(Groups)
    BY <1>1
  <2>. QED  BY <1>1, <1>15, <2>1, <2>2, <2>4 DEF Route
<1>16. CASE UNCHANGED vars
  BY <1>1, <1>16 DEF vars
<1>. QED  BY <1>7, <1>8, <1>9, <1>10, <1>11, <1>12, <1>13, <1>14, <1>15, <1>16 DEF
             Next
-----------------------------------------------------------------------------
(* The counts.                                                             *)

LEMMA HasNothing ==
  ASSUME model \in Models
  PROVE  Has(NoCounts, 0)
<1>1. PICK f : f = NoCounts
  OBVIOUS
<1>2. \A e \in Experts : f[e] = 0
  BY <1>1 DEF NoCounts
<1>3. SumOver(f, Experts) = Cardinality(Experts) * 0 /\ Cardinality(Experts) \in Nat
  BY <1>2, Shape, SumConstant, FS_CardinalityType
<1>4. top_k \in Nat
  BY Shape
<1>. QED  BY <1>1, <1>2, <1>3, <1>4, TotalIsSum DEF Has

LEMMA HasMore ==
  ASSUME model \in Models, NEW counts \in [Experts -> Nat], NEW n \in Nat,
         Has(counts, n), NEW S \in SUBSET Experts, Cardinality(S) = top_k,
         NEW new, new = [e \in Experts |-> counts[e] + IF e \in S THEN 1 ELSE 0]
  PROVE  Has(new, n + 1)
<1>1. PICK g : g = [e \in Experts |-> IF e \in S THEN 1 ELSE 0]
  OBVIOUS
<1>2. /\ \A e \in Experts : g[e] = IF e \in S THEN 1 ELSE 0
      /\ \A e \in Experts : counts[e] \in Nat /\ g[e] \in Nat /\ new[e] = counts[e] + g[e]
  BY <1>1
<1>3. IsFiniteSet(Experts) /\ top_k \in Nat
  BY Shape
<1>4. SumOver(g, Experts) = top_k
  BY <1>2, <1>3, SumMembers
<1>5. PICK h : h = new
  OBVIOUS
<1>6. SumOver(h, Experts) = SumOver(counts, Experts) + SumOver(g, Experts)
  BY <1>2, <1>3, <1>5, SumPlus
<1>7. SumOver(counts, Experts) = n * top_k
  BY TotalIsSum DEF Has
<1>8. (n + 1) * top_k = n * top_k + top_k
  BY <1>3
<1>9. Total(new, Experts) = (n + 1) * top_k
  BY <1>4, <1>5, <1>6, <1>7, <1>8, TotalIsSum
<1>10. \A e \in Experts : new[e] <= n + 1
  BY <1>2 DEF Has
<1>. QED  BY <1>9, <1>10 DEF Has

(* All batches together, by expert and by batch.                           *)
LEMMA SumsAddUp ==
  ASSUME ERTypeOK, \A b \in Batches : Has(num_token_in_expert[b], tokens[b]),
         NEW sum, sum = [e \in Experts |-> SumFor(e)]
  PROVE  Total([b \in Batches |-> Total(sum, Experts)], Batches)
           = Total(tokens, Batches) * top_k * dp_degree
<1>1. /\ model \in Models /\ top_k \in Nat /\ dp_degree \in Nat /\ IsFiniteSet(Experts)
      /\ IsFiniteSet(Batches) /\ Cardinality(Batches) = dp_degree
  BY Shape DEF ERTypeOK
<1>2. PICK f : f = num_token_in_expert
  OBVIOUS
<1>3. f \in [Batches -> [Experts -> Nat]]
  BY <1>2 DEF ERTypeOK, CountType
<1>4. PICK rows : rows = [b \in Batches |-> SumOver(f[b], Experts)]
  OBVIOUS
<1>5. \A e \in Experts : sum[e] = SumOver([b \in Batches |-> f[b][e]], Batches)
  <2>1. ASSUME NEW e \in Experts
        PROVE  SumFor(e) = SumOver([b \in Batches |-> f[b][e]], Batches)
    BY <1>2, TotalIsSum DEF SumFor
  <2>. QED  BY <2>1
<1>6. PICK cols : cols = sum
  OBVIOUS
<1>7. SumOver(rows, Batches) = SumOver(cols, Experts)
  <2>1. PICK S, T : S = Batches /\ T = Experts
    OBVIOUS
  <2>2. IsFiniteSet(S) /\ IsFiniteSet(T) /\ f \in [S -> [T -> Nat]]
    BY <1>1, <1>3, <2>1
  <2>3. \A b \in S : rows[b] = SumOver(f[b], T)
    BY <1>4, <2>1
  <2>4. PICK g : g = [e \in T |-> [b \in S |-> f[b][e]]]
    OBVIOUS
  <2>5. \A e \in T : g[e] = [b \in S |-> f[b][e]]
    BY <2>4
  <2>6. \A e \in T : cols[e] = SumOver(g[e], S)
    BY <1>5, <1>6, <2>1, <2>5
  <2>7. BothWays(S, T, f, g, rows, cols)
    BY <2>2, <2>3, <2>5, <2>6 DEF BothWays
  <2>8. SumOver(rows, S) = SumOver(cols, T)
    BY <2>7, SumSwap
  <2>. QED  BY <2>1, <2>8
<1>8. \A b \in Batches : rows[b] = tokens[b] * top_k /\ tokens[b] \in Nat
  BY <1>2, <1>4, TotalIsSum DEF Has, ERTypeOK
<1>9. SumOver(rows, Batches) = SumOver(tokens, Batches) * top_k
  BY <1>1, <1>8, SumTimes
<1>10. SumOver(tokens, Batches) \in Nat
  BY <1>1, <1>8, SumNat
<1>11. PICK k : k = SumOver(tokens, Batches) * top_k
  OBVIOUS
<1>12. k \in Nat /\ Total(sum, Experts) = k
  <2>1. k \in Nat
    BY <1>1, <1>10, <1>11
  <2>2. Total(cols, Experts) = SumOver(cols, Experts)
    BY TotalIsSum
  <2>. QED  BY <1>6, <1>7, <1>9, <1>11, <2>1, <2>2
<1>13. PICK all : all = [b \in Batches |-> Total(sum, Experts)]
  OBVIOUS
<1>14. \A b \in Batches : all[b] = k
  BY <1>12, <1>13
<1>15. SumOver(all, Batches) = dp_degree * k
  BY <1>1, <1>12, <1>14, SumConstant
<1>16. dp_degree * k = k * dp_degree
  BY <1>1, <1>12
<1>. QED  BY <1>11, <1>13, <1>15, <1>16, TotalIsSum

LEMMA NextLayers == LayerOK /\ [Next]_vars => LayerOK'
<1>. SUFFICES ASSUME LayerOK, [Next]_vars
              PROVE  LayerOK'
  OBVIOUS
<1>1. model' = model /\ num_layers' = num_layers
  BY SameShape
<1>2. layer' = layer => (MoE(layer) <=> MoE(layer)')
  BY <1>1 DEF MoE
<1>. QED  BY <1>1, <1>2 DEF LayerOK, Next, vars, Schedule, Dense, EndIteration,
           GateUpdate, DrawExpert, ExpertFromList, EndBatch, Aggregate, Route, StartBatch

LEMMA NextCounts ==
  ERTypeOK /\ DrawOK /\ CountsAddUp /\ [Next]_vars => DrawOK' /\ CountsAddUp'
<1>. SUFFICES ASSUME ERTypeOK, DrawOK, CountsAddUp, [Next]_vars
              PROVE  DrawOK' /\ CountsAddUp'
  OBVIOUS
<1>1. /\ model \in Models /\ Experts' = Experts /\ Batches' = Batches /\ top_k' = top_k
      /\ dp_degree' = dp_degree /\ model' = model
  BY SameShape DEF ERTypeOK, dp_degree
<1>2. /\ top_k \in Nat \ {0} /\ dp_degree \in Nat \ {0} /\ IsFiniteSet(Experts)
      /\ Batches = 1 .. dp_degree /\ batch \in Batches /\ left \in Nat
      /\ route \subseteq Experts /\ IsFiniteSet(route)
      /\ \A b \in Batches : /\ tokens[b] \in Nat
                            /\ num_token_in_expert[b] \in [Experts -> Nat]
      /\ num_token_in_expert \in [Batches -> [Experts -> Nat]]
  <2>1. IsFiniteSet(route)
    BY <1>1, Shape, FS_Subset DEF ERTypeOK
  <2>. QED  BY <1>1, <2>1, Shape DEF ERTypeOK, CountType, Batches
<1>3. \A c, n : Has(c, n)' <=> /\ Total(c, Experts) = n * top_k
                               /\ \A e \in Experts : c[e] <= n
  BY <1>1 DEF Has
<1>4. Cardinality({}) = 0
  BY FS_EmptySet
(* A batch begins: its counts are cleared, none of its tokens is counted.  *)
<1>5. ASSUME NEW b \in Batches, StartBatch(b, num_token_in_expert), phase' = "draw",
             tokens' = tokens,
             \A c \in Batches : c < b => Has(num_token_in_expert[c], tokens[c])
      PROVE  DrawOK' /\ CountsAddUp'
  <2>1. /\ batch' = b /\ left' = tokens[b] /\ route' = {}
        /\ num_token_in_expert' = [num_token_in_expert EXCEPT ![b] = NoCounts]
    BY <1>5 DEF StartBatch, Cleared
  <2>2. num_token_in_expert'[b] = NoCounts /\ Has(NoCounts, 0) /\ tokens[b] - left' = 0
    BY <1>1, <1>2, <2>1, HasNothing
  <2>3. \A c \in Batches : c < b => num_token_in_expert'[c] = num_token_in_expert[c]
    BY <1>2, <2>1
  <2>4. Has(num_token_in_expert'[b], tokens[b] - left')
    BY <2>2
  <2>5. \A c \in Batches : c < b => Has(num_token_in_expert'[c], tokens[c])
    BY <1>5, <2>3
  <2>. QED  BY <1>1, <1>2, <1>4, <1>5, <2>1, <2>4, <2>5 DEF DrawOK, Has, CountsAddUp
(* A token more is counted.                                                *)
<1>6. ASSUME NEW S \in SUBSET Experts, Cardinality(S) = top_k, phase = "draw", left > 0,
             phase' = phase, batch' = batch, tokens' = tokens, left' = left - 1,
             route' = {}, num_token_in_expert' = Counted(S)
      PROVE  DrawOK' /\ CountsAddUp'
  <2>1. PICK c, d : /\ c = num_token_in_expert[batch]
                    /\ d = [e \in Experts |-> c[e] + IF e \in S THEN 1 ELSE 0]
    OBVIOUS
  <2>2. PICK n \in Nat : n = tokens[batch] - left
    BY <1>2, <1>6 DEF DrawOK
  <2>3. Has(c, n) /\ c \in [Experts -> Nat]
    BY <1>2, <1>6, <2>1, <2>2 DEF DrawOK
  <2>4. Has(d, n + 1)
    BY <1>1, <1>6, <2>1, <2>3, HasMore
  <2>5. num_token_in_expert' = [num_token_in_expert EXCEPT ![batch] = d]
    BY <1>6, <2>1 DEF Counted
  <2>6. num_token_in_expert'[batch] = d
        /\ \A b \in Batches : b < batch => num_token_in_expert'[b] = num_token_in_expert[b]
    BY <1>2, <2>5
  <2>7. tokens[batch] - left' = n + 1 /\ left' <= tokens[batch]
    BY <1>2, <1>6, <2>2 DEF DrawOK
  <2>8. \A b \in Batches : b < batch => Has(num_token_in_expert'[b], tokens[b])
    BY <1>6, <2>6 DEF DrawOK
  <2>9. Has(num_token_in_expert'[batch], tokens[batch] - left')
    BY <2>4, <2>6, <2>7
  <2>. QED  BY <1>1, <1>2, <1>4, <1>6, <2>7, <2>8, <2>9 DEF DrawOK, Has, CountsAddUp
<1>7. CASE Schedule
  BY <1>7 DEF Schedule, DrawOK, CountsAddUp
<1>8. CASE Dense
  BY <1>8 DEF Dense, DrawOK, CountsAddUp
<1>9. CASE EndIteration
  BY <1>9 DEF EndIteration, DrawOK, CountsAddUp
<1>10. CASE GateUpdate
  <2>1. 1 \in Batches /\ \A c \in Batches : ~(c < 1)
    BY <1>2
  <2>. QED  BY <1>5, <1>10, <2>1 DEF GateUpdate
<1>11. ASSUME NEW e \in Experts, DrawExpert(e)
       PROVE  DrawOK' /\ CountsAddUp'
  <2>1. PICK S : S = route \cup {e}
    OBVIOUS
  <2>2. /\ S \in SUBSET Experts /\ Cardinality(S) \in Nat /\ Cardinality(route) \in Nat
        /\ Cardinality(S) <= Cardinality(route) + 1
    <3>1. PICK r : r = route
      OBVIOUS
    <3>2. IsFiniteSet(r) /\ S = r \cup {e} /\ Cardinality(r) \in Nat
      BY <1>2, <2>1, <3>1, FS_CardinalityType
    <3>3. Cardinality(r \cup {e}) = IF e \in r THEN Cardinality(r) ELSE Cardinality(r) + 1
      BY <3>2, FS_AddElement, Zenon
    <3>. QED  BY <1>2, <2>1, <3>1, <3>2, <3>3
  <2>3. phase = "draw" /\ left > 0 /\ phase' = phase /\ batch' = batch /\ tokens' = tokens
    BY <1>11 DEF DrawExpert
  <2>4. CASE Cardinality(S) >= top_k
    <3>1. left' = left - 1 /\ route' = {} /\ num_token_in_expert' = Counted(S)
      BY <1>11, <2>1, <2>4 DEF DrawExpert, Enough
    <3>2. Cardinality(S) = top_k
      BY <1>2, <2>2, <2>3, <2>4 DEF DrawOK
    <3>. QED  BY <1>6, <2>2, <2>3, <3>1, <3>2
  <2>5. CASE ~(Cardinality(S) >= top_k)
    <3>1. /\ left' = left /\ route' = S /\ num_token_in_expert' = num_token_in_expert
          /\ ~model.from_list
      BY <1>11, <2>1, <2>5 DEF DrawExpert, Enough
    <3>2. Cardinality(S) < top_k
      BY <1>2, <2>2, <2>5
    <3>. QED  BY <1>1, <1>2, <2>3, <3>1, <3>2 DEF DrawOK, Has, CountsAddUp
  <2>. QED  BY <2>4, <2>5
<1>12. CASE ExpertFromList
  <2>1. PICK S \in kSubset(top_k, Experts) : num_token_in_expert' = Counted(S)
    BY <1>12 DEF ExpertFromList
  <2>2. S \in SUBSET Experts /\ Cardinality(S) = top_k
    BY <2>1 DEF kSubset
  <2>3. /\ phase = "draw" /\ left > 0 /\ phase' = phase /\ batch' = batch
        /\ tokens' = tokens /\ left' = left - 1 /\ route' = {}
    BY <1>12 DEF ExpertFromList, DrawOK
  <2>. QED  BY <1>6, <2>1, <2>2, <2>3
<1>13. CASE EndBatch
  <2>1. /\ phase = "draw" /\ left = 0 /\ batch < dp_degree /\ phase' = "draw"
        /\ tokens' = tokens /\ StartBatch(batch + 1, num_token_in_expert)
    BY <1>13 DEF EndBatch
  <2>2. batch + 1 \in Batches /\ \A c \in Batches : c < batch + 1 => c < batch \/ c = batch
    BY <1>2, <2>1
  <2>3. tokens[batch] - left = tokens[batch]
    BY <1>2, <2>1
  <2>4. \A c \in Batches : c < batch + 1 => Has(num_token_in_expert[c], tokens[c])
    BY <2>1, <2>2, <2>3 DEF DrawOK
  <2>. QED  BY <1>5, <2>1, <2>2, <2>4
<1>14. CASE Aggregate
  <2>1. /\ phase = "draw" /\ left = 0 /\ batch = dp_degree /\ phase' = "route"
        /\ tokens' = tokens /\ local_num_token_in_expert' = num_token_in_expert
    BY <1>14 DEF Aggregate
  <2>2. \A c \in Batches : /\ c < batch \/ c = batch
                           /\ c = batch => tokens[c] - left = tokens[c]
    BY <1>2, <2>1
  <2>3. \A c \in Batches : Has(num_token_in_expert[c], tokens[c])
    BY <2>1, <2>2 DEF DrawOK
  <2>4. PICK sum : sum = [e \in Experts |-> SumFor(e)]
    OBVIOUS
  <2>5. num_token_in_expert' = [b \in Batches |-> sum]
    BY <1>14, <2>4 DEF Aggregate, SumFor
  <2>6. Total([b \in Batches |-> Total(sum, Experts)], Batches)
          = Total(tokens, Batches) * top_k * dp_degree
    BY <2>3, <2>4, SumsAddUp
  <2>7. [b \in Batches |-> Total(num_token_in_expert'[b], Experts)]
          = [b \in Batches |-> Total(sum, Experts)]
    BY <2>5
  <2>. QED  BY <1>1, <2>1, <2>3, <2>6, <2>7 DEF CountsAddUp, DrawOK, Has
<1>15. CASE Route
  BY <1>15 DEF Route, DrawOK, CountsAddUp
<1>16. CASE UNCHANGED vars
  BY <1>1, <1>16 DEF vars, DrawOK, CountsAddUp, Has
<1>. QED  BY <1>7, <1>8, <1>9, <1>10, <1>11, <1>12, <1>13, <1>14, <1>15, <1>16 DEF
             Next
-----------------------------------------------------------------------------
(* The marks.                                                              *)

LEMMA NextSplit == ERTypeOK /\ SplitOK /\ [Next]_vars => SplitOK'
<1>. SUFFICES ASSUME ERTypeOK, SplitOK, [Next]_vars
              PROVE  SplitOK'
  OBVIOUS
<1>1. /\ model' = model /\ Devices' = Devices /\ Groups' = Groups
      /\ num_expert_per_device' = num_expert_per_device
  BY SameShape
<1>2. layer \in Nat /\ \A l : MoE(l)' <=> MoE(l)
  BY <1>1 DEF ERTypeOK, num_layers, MoE
<1>3. CASE phase' # "decode" \/ layer' = 0
  BY <1>2, <1>3 DEF SplitOK
<1>4. CASE num_token_in_expert' # num_token_in_expert
  <2>1. phase' # "decode"
    BY <1>4 DEF Next, vars, Schedule, Dense, EndIteration, GateUpdate, DrawExpert,
                ExpertFromList, EndBatch, Aggregate, Route
  <2>. QED  BY <1>3, <2>1
<1>5. CASE phase' = "decode" /\ layer' # 0 /\ num_token_in_expert' = num_token_in_expert
  <2>. SUFFICES ASSUME MoE(layer - 1)', NEW d \in Devices
                PROVE  /\ order'[d] \in Sorted(OwnList(d))'
                       /\ high'[d] = getIdxHigh(OwnList(d), order[d])'
    BY <1>1, Zenon DEF SplitOK
  <2>1. PICK o : o = order'[d]
    OBVIOUS
  <2>2. o \in Sorted(OwnList(d)) /\ high'[d] = getIdxHigh(OwnList(d), o)
    <3>1. MoE(layer' - 1)
      BY <1>1 DEF MoE
    <3>2. CASE Route
      BY <2>1, <3>2 DEF Route
    <3>3. CASE phase = "decode" /\ layer' = layer /\ order' = order /\ high' = high
      BY <1>2, <1>5, <2>1, <3>1, <3>3 DEF SplitOK
    <3>4. CASE Dense
      <4>1. layer' - 1 = layer
        BY <1>2, <3>4 DEF Dense
      <4>. QED  BY <3>1, <3>4, <4>1 DEF Dense
    <3>. QED  BY <1>5, <3>2, <3>3, <3>4 DEF Next, vars, Schedule, EndIteration,
                 GateUpdate,
                DrawExpert, ExpertFromList, EndBatch, Aggregate
  <2>3. OwnList(d)' = OwnList(d)
    BY <1>1, <1>5 DEF OwnList
  <2>4. Sorted(OwnList(d))' = Sorted(OwnList(d))
    BY <1>1, <2>3 DEF Sorted
  <2>5. getIdxHigh(OwnList(d), order[d])' = getIdxHigh(OwnList(d), o)
    BY <1>1, <2>1, <2>3 DEF getIdxHigh, Bottleneck, HighLoad, LowLoad, Prefix
  <2>. QED  BY <2>1, <2>2, <2>4, <2>5
<1>. QED  BY <1>3, <1>4, <1>5
-----------------------------------------------------------------------------
(* The rows of the traces.                                                 *)

LEMMA LayersBefore ==
  ASSUME NEW l \in Nat
  PROVE  /\ MoEBefore(l) \in Nat
         /\ MoEBefore(l + 1) = MoEBefore(l) + IF MoE(l) THEN 1 ELSE 0
<1>1. PICK S, T : S = {i \in 0 .. l - 1 : MoE(i)} /\ T = {i \in 0 .. (l + 1) - 1 : MoE(i)}
  OBVIOUS
<1>2. IsFiniteSet(S) /\ l \notin S
  <2>1. IsFiniteSet(0 .. l - 1)
    BY FS_Interval
  <2>2. S \subseteq 0 .. l - 1 /\ l \notin S
    BY <1>1
  <2>. QED  BY <2>1, <2>2, FS_Subset
<1>3. T = IF MoE(l) THEN S \cup {l} ELSE S
  <2>1. 0 .. (l + 1) - 1 = (0 .. l - 1) \cup {l}
    OBVIOUS
  <2>. QED  BY <1>1, <2>1
<1>4. Cardinality(S) \in Nat
  BY <1>2, FS_CardinalityType
<1>5. Cardinality(S \cup {l}) = Cardinality(S) + 1
  BY <1>2, FS_AddElement
<1>6. MoEBefore(l) = Cardinality(S) /\ MoEBefore(l + 1) = Cardinality(T)
  BY <1>1 DEF MoEBefore
<1>. QED  BY <1>3, <1>4, <1>5, <1>6

(* A layer with experts is one of those of the whole model.                *)
LEMMA LayersWithin ==
  ASSUME NEW l \in Nat, NEW m \in Nat, l < m, MoE(l)
  PROVE  MoEBefore(l) + 1 <= MoEBefore(m)
<1>1. PICK S, T : S = {i \in 0 .. (l + 1) - 1 : MoE(i)} /\ T = {i \in 0 .. m - 1 : MoE(i)}
  OBVIOUS
<1>2. S \subseteq T /\ T \subseteq 0 .. m - 1
  BY <1>1
<1>3. IsFiniteSet(T)
  <2>1. IsFiniteSet(0 .. m - 1)
    BY FS_Interval
  <2>. QED  BY <1>2, <2>1, FS_Subset
<1>4. Cardinality(S) <= Cardinality(T)
  BY <1>2, <1>3, FS_Subset
<1>5. MoEBefore(l + 1) = Cardinality(S) /\ MoEBefore(m) = Cardinality(T)
  BY <1>1 DEF MoEBefore
<1>. QED  BY <1>4, <1>5, LayersBefore

LEMMA InitRows == Init => RowsOK
<1>. SUFFICES ASSUME Init, NEW b \in Batches
              PROVE  cur_layer[b] = Row(b)
  BY DEF RowsOK
<1>. QED  BY DEF Init, Row

LEMMA NextRows == ERTypeOK /\ LayerOK /\ RowsOK /\ [Next]_vars => RowsOK'
<1>. SUFFICES ASSUME ERTypeOK, LayerOK, RowsOK, [Next]_vars, EveryRound'
              PROVE  (\A b \in Batches : cur_layer[b] = Row(b))'
  BY DEF RowsOK
<1>1. /\ model \in Models /\ model' = model /\ Batches' = Batches
      /\ num_layer' = num_layer /\ num_layers' = num_layers
  BY SameShape DEF ERTypeOK
<1>2. \A l : (MoE(l)' <=> MoE(l)) /\ MoEBefore(l)' = MoEBefore(l)
  BY <1>1 DEF MoE, MoEBefore
<1>3. PICK N \in Nat \ {0} : N = num_layer /\ MoEBefore(num_layers) = N
  BY <1>1, <1>2, Shape DEF EveryRound
<1>4. PICK at \in Nat : at = MoEBefore(layer)
  BY LayersBefore DEF ERTypeOK, num_layers
<1>5. layer \in Nat /\ layer <= num_layers /\ num_layers \in Nat /\ batch \in Batches
      /\ Batches = 1 .. dp_degree /\ dp_degree \in Nat \ {0}
  BY <1>1, Shape DEF ERTypeOK, Batches
<1>6. ASSUME NEW b \in Batches
      PROVE  cur_layer[b] = IF phase = "schedule" THEN 0
                            ELSE IF phase = "decode" \/ (phase = "draw" /\ b >= batch)
                                 THEN at % N ELSE (at + 1) % N
  BY <1>1, <1>2, <1>3, <1>4, <1>6 DEF RowsOK, EveryRound, Row
<1>7. PICK l, then : l = layer' /\ then = MoEBefore(l)
  OBVIOUS
<1>8. ASSUME NEW b \in Batches
      PROVE  Row(b)' = IF phase' = "schedule" THEN 0
                       ELSE IF phase' = "decode" \/ (phase' = "draw" /\ b >= batch')
                            THEN then % N ELSE (then + 1) % N
  <2>1. MoEBefore(layer)' = then
    BY <1>1, <1>7 DEF MoEBefore, MoE
  <2>. QED  BY <1>1, <1>3, <2>1 DEF Row
<1>9. layer' = layer => then = at
  BY <1>4, <1>7
<1>. SUFFICES ASSUME NEW b \in Batches
              PROVE  cur_layer'[b] = Row(b)'
  BY <1>1
<1>10. phase = "draw" => at % N = at /\ (at + 1) % N = ((at % N) + 1) % N
  <2>. SUFFICES ASSUME phase = "draw"
                PROVE  at % N = at
    BY <1>3
  <2>1. at + 1 <= N
    BY <1>3, <1>4, <1>5, LayersWithin DEF LayerOK
  <2>. QED  BY <1>3, <2>1
<1>11. CASE Schedule
  <2>1. l = 0 /\ phase' = "decode" /\ cur_layer'[b] = 0
    BY <1>6, <1>7, <1>11 DEF Schedule
  <2>2. then = 0
    <3>1. {i \in 0 .. 0 - 1 : MoE(i)} = {}
      OBVIOUS
    <3>. QED  BY <1>7, <2>1, <3>1, FS_EmptySet DEF MoEBefore
  <2>. QED  BY <1>3, <1>8, <2>1, <2>2
<1>12. CASE Dense
  <2>1. then = at
    BY <1>4, <1>5, <1>7, <1>12, LayersBefore DEF Dense
  <2>. QED  BY <1>6, <1>8, <1>12, <2>1 DEF Dense
<1>13. CASE EndIteration
  <2>1. at = N
    BY <1>3, <1>4, <1>13 DEF EndIteration
  <2>2. N % N = 0
    BY <1>3
  <2>. QED  BY <1>6, <1>8, <1>13, <2>1, <2>2 DEF EndIteration
<1>14. CASE GateUpdate
  BY <1>5, <1>6, <1>8, <1>9, <1>14 DEF GateUpdate, StartBatch
<1>15. ASSUME NEW e \in Experts, DrawExpert(e)
       PROVE  cur_layer'[b] = Row(b)'
  BY <1>6, <1>8, <1>9, <1>15 DEF DrawExpert
<1>16. CASE ExpertFromList
  BY <1>6, <1>8, <1>9, <1>16 DEF ExpertFromList
(* A batch ends, which is then at the row of the next layer.               *)
<1>17. ASSUME phase = "draw", cur_layer' = NextLayer(batch), layer' = layer,
              \/ phase' = "draw" /\ batch' = batch + 1
              \/ phase' = "route" /\ batch = dp_degree
       PROVE  cur_layer'[b] = Row(b)'
  <2>1. cur_layer' = [cur_layer EXCEPT ![batch] = (cur_layer[batch] + 1) % N]
    BY <1>3, <1>17 DEF NextLayer
  <2>2. cur_layer[batch] = at
    BY <1>5, <1>6, <1>10, <1>17
  <2>3. DOMAIN cur_layer = Batches
    BY DEF ERTypeOK
  <2>4. CASE b = batch
    <3>1. cur_layer'[b] = (at + 1) % N
      BY <2>1, <2>2, <2>3, <2>4
    <3>2. Row(b)' = (at + 1) % N
      BY <1>5, <1>8, <1>9, <1>17, <2>4
    <3>. QED  BY <3>1, <3>2
  <2>5. CASE b # batch
    <3>1. cur_layer'[b] = cur_layer[b]
      BY <2>1, <2>3, <2>5
    <3>. QED  BY <1>5, <1>6, <1>8, <1>9, <1>17, <2>5, <3>1
  <2>. QED  BY <2>4, <2>5
<1>18. CASE EndBatch
  BY <1>17, <1>18 DEF EndBatch, StartBatch
<1>19. CASE Aggregate
  BY <1>17, <1>19 DEF Aggregate
<1>20. CASE Route
  <2>1. then = at + 1
    BY <1>4, <1>5, <1>7, <1>20, LayersBefore DEF Route, LayerOK
  <2>. QED  BY <1>6, <1>8, <1>20, <2>1 DEF Route
<1>21. CASE UNCHANGED vars
  BY <1>6, <1>8, <1>9, <1>21 DEF vars
<1>. QED  BY <1>11, <1>12, <1>13, <1>14, <1>15, <1>16, <1>18, <1>19, <1>20, <1>21
             DEF Next
-----------------------------------------------------------------------------
(* What holds of the routing, whatever the model, the number of ranks and  *)
(* the prices.                                                             *)

LEMMA Kept == Spec => [](RoutingInv /\ RowsOK)
<1>1. Init => RoutingInv /\ RowsOK
  BY InitRouting, InitRows
<1>2. RoutingInv /\ RowsOK /\ [Next]_vars => (RoutingInv /\ RowsOK)'
  <2>. SUFFICES ASSUME RoutingInv, RowsOK, [Next]_vars
                PROVE  RoutingInv' /\ RowsOK'
    OBVIOUS
  <2>1. ERTypeOK' /\ LayerOK' /\ DrawOK' /\ CountsAddUp' /\ SplitOK'
    BY NextTypes, NextLayers, NextCounts, NextSplit DEF RoutingInv
  <2>2. RowsOK'
    BY NextRows DEF RoutingInv
  <2>. QED  BY <2>1, <2>2 DEF RoutingInv
<1>. QED  BY <1>1, <1>2, PTL DEF Spec

(* Every count, layer, row, order and mark is of its kind: update_expert   *)
(* counts only experts there are, cur_layer stays a row of the trace, and  *)
(* getIdxHigh marks only experts of the device.                            *)
THEOREM TypeCorrect == Spec => []ERTypeOK
<1>1. RoutingInv => ERTypeOK
  BY DEF RoutingInv
<1>. QED  BY <1>1, Kept, PTL

(* The assertion of aggregate_expert: when the experts of a layer are      *)
(* chosen the batches together hold top_k experts for every token, once    *)
(* per batch, and each batch has kept for itself the counts of its own     *)
(* tokens, however the draws of the batches fall.                          *)
THEOREM CountsAreRight == Spec => []CountsAddUp
<1>1. RoutingInv => CountsAddUp
  BY DEF RoutingInv
<1>. QED  BY <1>1, Kept, PTL

(* The loop of getIdxHigh stops at the first group whose move does not     *)
(* make the slower unit faster; with its groups sorted by their tokens it  *)
(* has then found the best of all prefixes, for every list of counts and   *)
(* every floor and price of the two units.                                 *)
THEOREM SplitIsTheBest == Spec => []SplitBestOfPrefixes
<1>1. RoutingInv => SplitBestOfPrefixes
  <2>. SUFFICES ASSUME RoutingInv, phase = "decode", layer > 0, MoE(layer - 1),
                       NEW d \in Devices, NEW n \in 0 .. Len(order[d])
                PROVE  Bottleneck(OwnList(d), high[d])
                         <= Bottleneck(OwnList(d), Prefix(order[d], n))
    BY DEF SplitBestOfPrefixes
  <2>1. PICK list, o : list = OwnList(d) /\ o = order[d]
    OBVIOUS
  <2>2. model \in Models /\ num_token_in_expert \in CountType
    BY DEF RoutingInv, ERTypeOK
  <2>3. list \in [Slots -> Nat]
    BY <2>1, <2>2, OwnListType
  <2>4. o \in Sorted(list) /\ high[d] = getIdxHigh(list, o) /\ n \in 0 .. Len(o)
    BY <2>1 DEF RoutingInv, SplitOK
  <2>5. Bottleneck(list, getIdxHigh(list, o)) <= Bottleneck(list, Prefix(o, n))
    BY <2>2, <2>3, <2>4, SplitIsBest
  <2>. QED  BY <2>1, <2>4, <2>5
<1>. QED  BY <1>1, Kept, PTL

(* cur_layer of update_expert is the layer whose experts are chosen, where *)
(* the layers with experts are as many as num_layer says.                  *)
THEOREM RowsAreLayers == Spec => []CurLayerIsLayer
<1>1. RoutingInv /\ RowsOK => CurLayerIsLayer
  <2>. SUFFICES ASSUME ERTypeOK, LayerOK, RowsOK, EveryRound, phase = "draw"
                PROVE  cur_layer[batch] = MoEBefore(layer)
    BY DEF RoutingInv, CurLayerIsLayer
  <2>1. PICK N \in Nat \ {0}, at \in Nat : N = num_layer /\ at = MoEBefore(layer)
    <3>1. num_layer \in Nat \ {0} /\ layer \in Nat
      BY Shape DEF ERTypeOK
    <3>2. MoEBefore(layer) \in Nat
      BY <3>1, LayersBefore
    <3>. QED  BY <3>1, <3>2
  <2>2. cur_layer[batch] = at % N
    BY <2>1 DEF RowsOK, Row, ERTypeOK, Batches
  <2>3. at + 1 <= N
    BY <2>1, LayersWithin, Shape DEF ERTypeOK, LayerOK, EveryRound
  <2>. QED  BY <2>1, <2>2, <2>3
<1>. QED  BY <1>1, Kept, PTL

LEMMA MultiplesInRange ==
  ASSUME NEW f \in Nat \ {0}, NEW q \in Nat, NEW n \in Nat, n = q * f,
         NEW S, S = {i \in 0 .. n - 1 : i % f = 0}
  PROVE  IsFiniteSet(S) /\ Cardinality(S) = q
<1>1. PICK g : g = [j \in 0 .. q - 1 |-> j * f]
  OBVIOUS
<1>2. ASSUME NEW j \in 0 .. q - 1
      PROVE  j * f \in S
  <2>1. j * f \in Nat /\ (j + 1) * f <= q * f /\ (j + 1) * f = j * f + f
    BY TimesMonotone
  <2>2. (j * f) % f = 0
    OBVIOUS
  <2>. QED  BY <2>1, <2>2
<1>3. ASSUME NEW i \in S
      PROVE  \E j \in 0 .. q - 1 : i = j * f
  <2>1. PICK j \in Nat : i = j * f
    <3>1. i \in Nat /\ i % f = 0
      OBVIOUS
    <3>2. PICK k \in Nat : k = i \div f
      BY <3>1
    <3>3. i = f * k + (i % f)
      BY <3>1, <3>2
    <3>4. f * k = k * f
      OBVIOUS
    <3>. QED  BY <3>1, <3>3, <3>4
  <2>2. j < q
    <3>1. ~(q <= j)
      BY <2>1, TimesMonotone
    <3>. QED  BY <3>1
  <2>. QED  BY <2>1, <2>2
<1>4. ASSUME NEW i \in 0 .. q - 1, NEW j \in 0 .. q - 1, i * f = j * f
      PROVE  i = j
  <2>1. ASSUME NEW a \in Nat, NEW b \in Nat, a < b
        PROVE  a * f # b * f
    <3>1. (a + 1) * f <= b * f /\ (a + 1) * f = a * f + f /\ a * f \in Nat
      BY <2>1, TimesMonotone
    <3>. QED  BY <3>1
  <2>2. ~(i < j) /\ ~(j < i)
    BY <1>4, <2>1
  <2>. QED  BY <2>2
<1>5. g \in Bijection(0 .. q - 1, S)
  BY <1>1, <1>2, <1>3, <1>4 DEF Bijection, Injection, Surjection, IsInjective
<1>6. IsFiniteSet(0 .. q - 1) /\ Cardinality(0 .. q - 1) = q
  BY FS_Interval
<1>. QED  BY <1>5, <1>6, FS_Bijection DEF ExistsBijection

(* So it is for the models other than deepseekV3 when expert_freq divides  *)
(* the number of layers.                                                   *)
THEOREM FullRounds ==
  ASSUME model \in Models, ~model.deepseekV3, num_layers % model.expert_freq = 0
  PROVE  EveryRound
<1>1. PICK f \in Nat \ {0}, n \in Nat : f = model.expert_freq /\ n = num_layers
  BY Shape
<1>2. PICK q \in Nat : q = n \div f
  OBVIOUS
<1>3. n = q * f
  <2>1. n = f * q + (n % f)
    BY <1>2
  <2>2. f * q = q * f /\ n % f = 0
    BY <1>1
  <2>. QED  BY <2>1, <2>2
<1>4. PICK S : S = {i \in 0 .. n - 1 : i % f = 0}
  OBVIOUS
<1>5. Cardinality(S) = q
  BY <1>3, <1>4, MultiplesInRange
<1>6. {i \in 0 .. num_layers - 1 : MoE(i)} = S
  BY <1>1, <1>4 DEF MoE
<1>. QED  BY <1>1, <1>2, <1>5, <1>6 DEF EveryRound, MoEBefore, num_layer
-----------------------------------------------------------------------------
(* The clocks of the two units (set_push_status, set_pop_status and         *)
(* set_stamp).                                                             *)
(*                                                                         *)
(* A device may set its clock back to the time of a unit, and only the     *)
(* graph keeps it from losing time by that.  A walk labels every place     *)
(* between two entries of a graph with a stage: how the clocks stand to    *)
(* each other there, whether an execution waits to be added to them, and   *)
(* the marks of the open stamps.                                           *)
(*                                                                         *)
(*  joined   both units have the time of the device and all work is done   *)
(*  serial   all work is done at device_time, the units may be behind      *)
(*  two      each unit has its own time, and the device that of one        *)
(*  high     so, and the device has the time of the high unit              *)
(*  low      so, and the device has the time of the low unit               *)
(*  ahead    as high, and the low unit is not ahead of the high one        *)

Modes == {"joined", "serial", "two", "high", "low", "ahead"}
Marks == {"plain", "high", "low", "vec"}
Works == [kind : {"none", "execute", "pass", "join"}, units : SUBSET Units]
Entries == [push : BOOLEAN, mark : Marks, does : Works, sync : BOOLEAN]
Stages == [mode : Modes, pending : BOOLEAN, open : Seq(Marks)]

Stage(m, p, o) == [mode |-> m, pending |-> p, open |-> o]
Begin == Stage("joined", FALSE, <<>>)

Under(open, outer) == open = <<>> \/ open[Len(open)] \in outer
Whole == {"plain", "vec"}

(* What a push leads to, by the mark of its tensor.                        *)
WholePush(e, y) ==
  /\ e.mark \in Whole
  /\ \/ e.does.kind \in {"none", "join"} /\ ~e.sync /\ y.mode = "joined" /\ ~y.pending
     \/ e.does.kind \in {"none", "pass"} /\ y.mode = "serial" /\ ~y.pending
     \/ e.does.kind = "execute" /\ ~e.sync /\ y.mode = "serial" /\ y.pending

Even(x) == x.mode \in {"joined", "ahead"}

HighPush(c, x, e, y) ==
  /\ e.mark = "high" /\ ~e.sync /\ x.mode # "serial" /\ Under(x.open, Whole \cup {"high"})
  /\ \/ e.does.kind = "none" /\ y.mode = "two" /\ ~y.pending
     \/ e.does = Execute({c.high}) /\ y.pending /\ (y.mode = "high" \/ (y.mode = "ahead" /\ Even(x)))

LowPush(c, x, e, y) ==
  /\ e.mark = "low" /\ ~e.sync /\ x.mode # "serial" /\ Under(x.open, Whole \cup {"low"})
  /\ \/ e.does.kind = "none" /\ y.mode = "two" /\ ~y.pending
     \/ e.does = Execute({c.low}) /\ y.pending /\ y.mode = "low"
     \/ e.does = Execute({c.high}) /\ y.pending /\ y.mode = "ahead" /\ Even(x)

(* What a pop leads to, when an execution is to be added to a clock, and   *)
(* when it only ends a module around others.                               *)
PendingPop(x, m, rest, e, y) ==
  \/ x.mode = "serial" /\ m \in Whole /\ e.mark \in {"plain", "high"} /\ y.mode = "serial"
     /\ Under(rest, Whole)
  \/ x.mode = "high" /\ m = "high" /\ e.mark = "high" /\ y.mode = "high"
     /\ Under(rest, Whole \cup {"high"})
  \/ x.mode = "low" /\ m = "low" /\ e.mark = "low" /\ y.mode = "low"
     /\ Under(rest, Whole \cup {"low"})
  \/ x.mode = "ahead" /\ m \in {"high", "low"} /\ e.mark = "high" /\ y.mode = "ahead"
     /\ Under(rest, Whole)

WrapPop(x, m, rest, e, y) ==
  /\ Under(rest, Whole)
  /\ \/ x.mode = "joined" /\ m \in Whole /\ e.mark \in Whole /\ y.mode \in {"joined", "serial", "two"}
     \/ x.mode = "serial" /\ m \in Whole /\ e.mark \in Whole /\ y.mode = "serial"
     \/ x.mode = "high" /\ m = "high" /\ e.mark = "high" /\ y.mode = "two"
     \/ x.mode = "low" /\ m = "low" /\ e.mark = "low" /\ y.mode = "two"

PushStep(c, x, e, y) ==
  /\ e.push /\ ~x.pending /\ y.open = Append(x.open, e.mark)
  /\ WholePush(e, y) \/ HighPush(c, x, e, y) \/ LowPush(c, x, e, y)

PopStep(x, e, y) ==
  /\ ~e.push /\ ~y.pending /\ x.open = Append(y.open, x.open[Len(x.open)])
  /\ IF x.pending THEN PendingPop(x, x.open[Len(x.open)], y.open, e, y)
     ELSE WrapPop(x, x.open[Len(x.open)], y.open, e, y)

StageStep(c, x, e, y) == PushStep(c, x, e, y) \/ PopStep(x, e, y)

Walk(c, g, h) ==
  /\ h \in [0 .. Len(g) -> Stages]
  /\ \A i \in 1 .. Len(g) : StageStep(c, h[i - 1], g[i], h[i])

Flow(c, g, x, y) == g \in Seq(Entries) /\ \E h : Walk(c, g, h) /\ h[0] = x /\ h[Len(g)] = y

LEMMA FlowNothing ==
  ASSUME NEW c, NEW x \in Stages
  PROVE  Flow(c, <<>>, x, x)
<1>1. PICK h : h = [i \in 0 .. 0 |-> x]
  OBVIOUS
<1>2. Len(<<>>) = 0 /\ <<>> \in Seq(Entries)
  OBVIOUS
<1>3. h \in [0 .. 0 -> Stages] /\ h[0] = x
  BY <1>1
<1>4. \A i \in 1 .. 0 : FALSE
  OBVIOUS
<1>5. Walk(c, <<>>, h)
  BY <1>2, <1>3, <1>4 DEF Walk
<1>. QED  BY <1>2, <1>3, <1>5 DEF Flow

LEMMA FlowOne ==
  ASSUME NEW c, NEW x \in Stages, NEW y \in Stages, NEW e \in Entries, StageStep(c, x, e, y)
  PROVE  Flow(c, <<e>>, x, y)
<1>1. PICK h : h = [i \in 0 .. 1 |-> IF i = 0 THEN x ELSE y]
  OBVIOUS
<1>2. h \in [0 .. 1 -> Stages] /\ h[0] = x /\ h[1] = y
  BY <1>1
<1>3. Len(<<e>>) = 1 /\ <<e>>[1] = e /\ <<e>> \in Seq(Entries)
  OBVIOUS
<1>4. \A i \in 1 .. 1 : StageStep(c, h[i - 1], <<e>>[i], h[i])
  <2>1. \A i \in 1 .. 1 : i = 1 /\ i - 1 = 0
    OBVIOUS
  <2>2. StageStep(c, h[0], <<e>>[1], h[1])
    BY <1>2, <1>3
  <2>. QED  BY <2>1, <2>2, Zenon
<1>5. Walk(c, <<e>>, h)
  BY <1>2, <1>3, <1>4, Zenon DEF Walk
<1>. QED  BY <1>2, <1>3, <1>5 DEF Flow

LEMMA FlowJoin ==
  ASSUME NEW c, NEW f, NEW g, NEW x, NEW y, NEW z, Flow(c, f, x, y), Flow(c, g, y, z)
  PROVE  Flow(c, f \o g, x, z)
<1>1. PICK a : Walk(c, f, a) /\ a[0] = x /\ a[Len(f)] = y
  BY DEF Flow
<1>2. PICK b : Walk(c, g, b) /\ b[0] = y /\ b[Len(g)] = z
  BY DEF Flow
<1>3. f \in Seq(Entries) /\ g \in Seq(Entries)
  BY DEF Flow
<1>4. PICK m, n : m = Len(f) /\ n = Len(g) /\ m \in Nat /\ n \in Nat
  BY <1>3, LenProperties
<1>5. PICK t : t = f \o g /\ t \in Seq(Entries) /\ Len(t) = m + n
               /\ \A i \in 1 .. m + n : t[i] = IF i <= m THEN f[i] ELSE g[i - m]
  <2>1. /\ f \o g \in Seq(Entries) /\ Len(f \o g) = Len(f) + Len(g)
        /\ \A i \in 1 .. Len(f) + Len(g) :
             (f \o g)[i] = IF i <= Len(f) THEN f[i] ELSE g[i - Len(f)]
    BY <1>3, ConcatProperties, Zenon
  <2>2. PICK t : t = f \o g
    OBVIOUS
  <2>3. t \in Seq(Entries) /\ Len(t) = m + n
        /\ \A i \in 1 .. m + n : t[i] = IF i <= m THEN f[i] ELSE g[i - m]
    BY <1>4, <2>1, <2>2, Zenon
  <2>. QED  BY <2>2, <2>3, Zenon
<1>6. PICK h : h = [i \in 0 .. m + n |-> IF i <= m THEN a[i] ELSE b[i - m]]
  OBVIOUS
<1>7. a \in [0 .. m -> Stages] /\ b \in [0 .. n -> Stages]
  BY <1>1, <1>2, <1>4 DEF Walk
<1>8. h \in [0 .. m + n -> Stages]
  <2>1. ASSUME NEW i \in 0 .. m + n
        PROVE  h[i] \in Stages
    <3>1. CASE i <= m
      BY <1>4, <1>6, <1>7, <3>1
    <3>2. CASE ~(i <= m)
      <4>1. i - m \in 0 .. n
        BY <1>4, <3>2
      <4>. QED  BY <1>6, <1>7, <3>2, <4>1
    <3>. QED  BY <3>1, <3>2
  <2>. QED  BY <1>6, <2>1
<1>9. \A i \in m .. m + n : h[i] = b[i - m]
  <2>1. ASSUME NEW i \in m .. m + n
        PROVE  h[i] = b[i - m]
    <3>1. CASE i = m
      BY <1>1, <1>2, <1>4, <1>6, <3>1
    <3>2. CASE i # m
      BY <1>4, <1>6, <3>2
    <3>. QED  BY <3>1, <3>2
  <2>. QED  BY <2>1
<1>10. ASSUME NEW i \in 1 .. m + n
       PROVE  StageStep(c, h[i - 1], t[i], h[i])
  <2>1. CASE i <= m
    <3>1. i \in 1 .. m /\ h[i] = a[i] /\ h[i - 1] = a[i - 1] /\ t[i] = f[i]
      BY <1>4, <1>5, <1>6, <2>1
    <3>2. StageStep(c, a[i - 1], f[i], a[i])
      BY <1>1, <1>4, <3>1, Zenon DEF Walk
    <3>. QED  BY <3>1, <3>2, Zenon
  <2>2. CASE ~(i <= m)
    <3>1. i - m \in 1 .. n /\ (i - 1) - m = (i - m) - 1
      BY <1>4, <2>2
    <3>2. i \in m .. m + n /\ i - 1 \in m .. m + n
      BY <1>4, <2>2
    <3>3. h[i] = b[i - m] /\ h[i - 1] = b[(i - m) - 1] /\ t[i] = g[i - m]
      <4>1. t[i] = g[i - m]
        BY <1>5, <2>2
      <4>. QED  BY <1>9, <3>1, <3>2, <4>1
    <3>4. StageStep(c, b[(i - m) - 1], g[i - m], b[i - m])
      BY <1>2, <1>4, <3>1, Zenon DEF Walk
    <3>. QED  BY <3>3, <3>4, Zenon
  <2>. QED  BY <2>1, <2>2
<1>11. Walk(c, t, h)
  BY <1>5, <1>8, <1>10 DEF Walk
<1>12. h[0] = x /\ h[Len(t)] = z
  <2>1. h[0] = a[0]
    BY <1>4, <1>6
  <2>2. h[m + n] = b[(m + n) - m] /\ (m + n) - m = n
    BY <1>4, <1>9
  <2>. QED  BY <1>1, <1>2, <1>4, <1>5, <2>1, <2>2
<1>. QED  BY <1>5, <1>11, <1>12 DEF Flow

-----------------------------------------------------------------------------
(* The walks of modules.                                                   *)

LEMMA Opened ==
  ASSUME NEW o \in Seq(Marks), NEW k \in Marks
  PROVE  /\ Append(o, k) \in Seq(Marks) /\ Append(o, k) # <<>>
         /\ Append(o, k)[Len(Append(o, k))] = k
<1>1. Append(o, k) \in Seq(Marks) /\ Len(Append(o, k)) = Len(o) + 1
  BY AppendProperties
<1>2. Append(o, k)[Len(o) + 1] = k
  BY AppendProperties
<1>3. Append(o, k) # <<>>
  BY <1>1, LenProperties, EmptySeq
<1>. QED  BY <1>1, <1>2, <1>3, Zenon

LEMMA StageIs ==
  ASSUME NEW m, NEW p, NEW o
  PROVE  /\ Stage(m, p, o).mode = m /\ Stage(m, p, o).pending = p /\ Stage(m, p, o).open = o
         /\ (m \in Modes /\ p \in BOOLEAN /\ o \in Seq(Marks) => Stage(m, p, o) \in Stages)
BY DEF Stage, Stages

LEMMA EntryIs ==
  ASSUME NEW b \in BOOLEAN, NEW k \in Marks, NEW d \in Works
  PROVE  /\ Entry(b, k, d) \in Entries
         /\ Entry(b, k, d).push = b /\ Entry(b, k, d).mark = k /\ Entry(b, k, d).does = d
         /\ Entry(b, k, d).sync = FALSE
BY DEF Entry, Entries

LEMMA WorkIs ==
  ASSUME NEW S \in SUBSET Units
  PROVE  /\ {None, Pass, Join, Execute(S)} \subseteq Works
         /\ None.kind = "none" /\ Pass.kind = "pass" /\ Join.kind = "join"
         /\ Execute(S).kind = "execute"
BY DEF None, Pass, Join, Execute, Works

(* A module around a body, and a module alone.                             *)
LEMMA WrapFlow ==
  ASSUME NEW c, NEW x \in Stages, NEW y \in Stages, NEW z \in Stages, NEW w \in Stages,
         NEW i \in Marks, NEW k \in Marks, NEW d \in Works, NEW body,
         PushStep(c, x, Entry(TRUE, i, d), y), Flow(c, body, y, z),
         PopStep(z, Entry(FALSE, k, None), w)
  PROVE  Flow(c, Wrap(i, k, d, body), x, w)
<1>1. Entry(TRUE, i, d) \in Entries /\ Entry(FALSE, k, None) \in Entries
  BY EntryIs, WorkIs
<1>2. Flow(c, <<Entry(TRUE, i, d)>>, x, y)
  BY <1>1, FlowOne DEF StageStep
<1>3. Flow(c, <<Entry(FALSE, k, None)>>, z, w)
  BY <1>1, FlowOne DEF StageStep
<1>4. Flow(c, <<Entry(TRUE, i, d)>> \o body, x, z)
  BY <1>2, FlowJoin
<1>5. Flow(c, (<<Entry(TRUE, i, d)>> \o body) \o <<Entry(FALSE, k, None)>>, x, w)
  BY <1>3, <1>4, FlowJoin
<1>. QED  BY <1>5 DEF Wrap

LEMMA ModuleFlow ==
  ASSUME NEW c, NEW x \in Stages, NEW y \in Stages, NEW w \in Stages,
         NEW i \in Marks, NEW k \in Marks, NEW d \in Works,
         PushStep(c, x, Entry(TRUE, i, d), y), PopStep(y, Entry(FALSE, k, None), w)
  PROVE  Flow(c, Module(i, k, d), x, w)
<1>1. Flow(c, <<>>, y, y)
  BY FlowNothing
<1>. QED  BY <1>1, WrapFlow, Zenon DEF Module

LEMMA WholeRun ==
  ASSUME NEW c, NEW o \in Seq(Marks), Under(o, Whole), NEW m \in Modes,
         NEW i \in Whole, NEW k \in {"plain", "high"}, NEW S \in SUBSET Units
  PROVE  Flow(c, Module(i, k, Execute(S)), Stage(m, FALSE, o), Stage("serial", FALSE, o))
<1>. DEFINE x == Stage(m, FALSE, o)
            y == Stage("serial", TRUE, Append(o, i))
            z == Stage("serial", FALSE, o)
            d == Execute(S)
            e == Entry(TRUE, i, d)
            p == Entry(FALSE, k, None)
<1>1. i \in Marks /\ k \in Marks /\ d \in Works /\ None \in Works /\ d.kind = "execute"
  BY WorkIs DEF Marks, Whole
<1>2. /\ Append(o, i) \in Seq(Marks) /\ Append(o, i)[Len(Append(o, i))] = i
  BY <1>1, Opened
<1>3. "serial" \in Modes
  BY DEF Modes
<1>4. /\ x.mode = m /\ x.pending = FALSE /\ x.open = o /\ x \in Stages
      /\ y.mode = "serial" /\ y.pending = TRUE /\ y.open = Append(o, i) /\ y \in Stages
      /\ z.mode = "serial" /\ z.pending = FALSE /\ z.open = o /\ z \in Stages
  BY <1>2, <1>3 DEF Stage, Stages
<1>5. /\ e.push = TRUE /\ e.mark = i /\ e.does = d /\ e.sync = FALSE
      /\ p.push = FALSE /\ p.mark = k
  BY DEF Entry
<1>. HIDE DEF x, y, z, d, e, p
<1>6. PushStep(c, x, e, y)
  BY <1>1, <1>4, <1>5 DEF PushStep, WholePush
<1>7. PopStep(y, p, z)
  BY <1>2, <1>4, <1>5 DEF PopStep, PendingPop
<1>8. Flow(c, Module(i, k, d), x, z)
  BY <1>1, <1>4, <1>6, <1>7, ModuleFlow, Zenon DEF e, p
<1>. QED  BY <1>8 DEF x, z, d

(* A module on vectors, or on plain tensors, that executes nothing.        *)
LEMMA WholeModule ==
  ASSUME NEW c, NEW o \in Seq(Marks), Under(o, Whole), NEW m \in Modes,
         NEW i \in Whole, NEW d \in {None, Join}, NEW n \in {"joined", "serial", "two"}
  PROVE  Flow(c, Module(i, i, d), Stage(m, FALSE, o), Stage(n, FALSE, o))
<1>. DEFINE x == Stage(m, FALSE, o)
            y == Stage("joined", FALSE, Append(o, i))
            z == Stage(n, FALSE, o)
            e == Entry(TRUE, i, d)
            p == Entry(FALSE, i, None)
<1>1. i \in Marks /\ d \in Works /\ None \in Works /\ d.kind \in {"none", "join"}
  BY WorkIs DEF Marks, Whole
<1>2. /\ Append(o, i) \in Seq(Marks) /\ Append(o, i)[Len(Append(o, i))] = i
  BY <1>1, Opened
<1>3. "joined" \in Modes /\ n \in Modes
  BY DEF Modes
<1>4. /\ x.mode = m /\ x.pending = FALSE /\ x.open = o /\ x \in Stages
      /\ y.mode = "joined" /\ y.pending = FALSE /\ y.open = Append(o, i) /\ y \in Stages
      /\ z.mode = n /\ z.pending = FALSE /\ z.open = o /\ z \in Stages
  BY <1>2, <1>3 DEF Stage, Stages
<1>5. /\ e.push = TRUE /\ e.mark = i /\ e.does = d /\ e.sync = FALSE
      /\ p.push = FALSE /\ p.mark = i
  BY DEF Entry
<1>. HIDE DEF x, y, z, e, p
<1>6. PushStep(c, x, e, y)
  BY <1>1, <1>4, <1>5 DEF PushStep, WholePush
<1>7. PopStep(y, p, z)
  BY <1>2, <1>4, <1>5 DEF PopStep, WrapPop
<1>8. Flow(c, Module(i, i, d), x, z)
  BY <1>1, <1>4, <1>6, <1>7, ModuleFlow, Zenon DEF e, p
<1>. QED  BY <1>8 DEF x, z

LEMMA PassModule ==
  ASSUME NEW c, NEW o \in Seq(Marks), Under(o, Whole), NEW m \in Modes, NEW i \in Whole
  PROVE  Flow(c, Module(i, i, Pass), Stage(m, FALSE, o), Stage("serial", FALSE, o))
<1>. DEFINE x == Stage(m, FALSE, o)
            y == Stage("serial", FALSE, Append(o, i))
            z == Stage("serial", FALSE, o)
            e == Entry(TRUE, i, Pass)
            p == Entry(FALSE, i, None)
<1>1. i \in Marks /\ Pass \in Works /\ None \in Works /\ Pass.kind = "pass"
  BY WorkIs DEF Marks, Whole
<1>2. /\ Append(o, i) \in Seq(Marks) /\ Append(o, i)[Len(Append(o, i))] = i
  BY <1>1, Opened
<1>3. "serial" \in Modes
  BY DEF Modes
<1>4. /\ x.mode = m /\ x.pending = FALSE /\ x.open = o /\ x \in Stages
      /\ y.mode = "serial" /\ y.pending = FALSE /\ y.open = Append(o, i) /\ y \in Stages
      /\ z.mode = "serial" /\ z.pending = FALSE /\ z.open = o /\ z \in Stages
  BY <1>2, <1>3 DEF Stage, Stages
<1>5. /\ e.push = TRUE /\ e.mark = i /\ e.does = Pass /\ e.sync = FALSE
      /\ p.push = FALSE /\ p.mark = i
  BY DEF Entry
<1>. HIDE DEF x, y, z, e, p
<1>6. PushStep(c, x, e, y)
  BY <1>1, <1>4, <1>5 DEF PushStep, WholePush
<1>7. PopStep(y, p, z)
  BY <1>2, <1>4, <1>5 DEF PopStep, WrapPop
<1>8. Flow(c, Module(i, i, Pass), x, z)
  BY <1>1, <1>4, <1>6, <1>7, ModuleFlow, Zenon DEF e, p
<1>. QED  BY <1>8 DEF x, z

LEMMA PairJoins ==
  ASSUME NEW S, NEW a \in S, NEW b \in S
  PROVE  <<a>> \o <<b>> = <<a, b>>
<1>1. /\ <<a>> \in Seq(S) /\ <<b>> \in Seq(S) /\ <<a, b>> \in Seq(S)
      /\ Len(<<a>>) = 1 /\ Len(<<b>>) = 1 /\ Len(<<a, b>>) = 2
  OBVIOUS
<1>2. PICK t : t = <<a>> \o <<b>>
  OBVIOUS
<1>3. t \in Seq(S) /\ Len(t) = 2 /\ t[1] = a /\ t[2] = b
  <2>1. /\ t \in Seq(S) /\ Len(t) = 1 + 1
        /\ \A i \in 1 .. 1 + 1 : t[i] = IF i <= 1 THEN <<a>>[i] ELSE <<b>>[i - 1]
    BY <1>1, <1>2, ConcatProperties
  <2>. QED  BY <2>1
<1>4. \A i \in 1 .. 2 : t[i] = <<a, b>>[i]
  BY <1>3
<1>5. t = <<a, b>>
  BY <1>1, <1>3, <1>4, SeqEqual
<1>. QED  BY <1>2, <1>5

LEMMA SyncFlow ==
  ASSUME NEW c, NEW o \in Seq(Marks), Under(o, Whole), NEW m \in Modes, NEW d \in {None, Pass}
  PROVE  Flow(c, SyncModule(d), Stage(m, FALSE, o), Stage("serial", FALSE, o))
<1>. DEFINE x == Stage(m, FALSE, o)
            y == Stage("serial", FALSE, Append(o, "plain"))
            z == Stage("serial", FALSE, o)
            e == [Entry(TRUE, "plain", d) EXCEPT !.sync = TRUE]
            p == Entry(FALSE, "plain", None)
<1>1. "plain" \in Marks /\ "plain" \in Whole /\ d \in Works /\ None \in Works
      /\ d.kind \in {"none", "pass"}
  BY WorkIs DEF Marks, Whole
<1>2. /\ Append(o, "plain") \in Seq(Marks)
      /\ Append(o, "plain")[Len(Append(o, "plain"))] = "plain"
  BY <1>1, Opened
<1>3. "serial" \in Modes
  BY DEF Modes
<1>4. /\ x.mode = m /\ x.pending = FALSE /\ x.open = o /\ x \in Stages
      /\ y.mode = "serial" /\ y.pending = FALSE /\ y.open = Append(o, "plain") /\ y \in Stages
      /\ z.mode = "serial" /\ z.pending = FALSE /\ z.open = o /\ z \in Stages
  BY <1>2, <1>3 DEF Stage, Stages
<1>5. p.push = FALSE /\ p.mark = "plain" /\ p \in Entries
  BY <1>1 DEF Entry, Entries
<1>6. e \in Entries /\ e.push = TRUE /\ e.mark = "plain" /\ e.does = d
  BY <1>1 DEF Entry, Entries
<1>. HIDE DEF x, y, z, e, p
<1>7. PushStep(c, x, e, y)
  BY <1>1, <1>4, <1>6 DEF PushStep, WholePush
<1>8. PopStep(y, p, z)
  BY <1>1, <1>2, <1>4, <1>5 DEF PopStep, WrapPop
<1>9. Flow(c, <<e>>, x, y) /\ Flow(c, <<p>>, y, z)
  BY <1>4, <1>5, <1>6, <1>7, <1>8, FlowOne, Zenon DEF StageStep
<1>10. Flow(c, <<e>> \o <<p>>, x, z)
  BY <1>9, FlowJoin
<1>11. SyncModule(d) = <<e>> \o <<p>>
  <2>1. <<e>> \o <<p>> = <<e, p>>
    BY <1>5, <1>6, PairJoins
  <2>. QED  BY <2>1 DEF SyncModule, e, p
<1>. QED  BY <1>10, <1>11 DEF x, z

(* A module on the unit of its mark.                                       *)
LEMMA UnitRun ==
  ASSUME NEW c, c.high \in Units, c.low \in Units,
         NEW k \in {"high", "low"}, NEW u \in {c.high, c.low},
         k = "high" => u = c.high, k = "low" => u = c.low,
         NEW o \in Seq(Marks), Under(o, Whole \cup {k}), NEW m \in Modes \ {"serial"}
  PROVE  Flow(c, Module(k, k, Execute({u})), Stage(m, FALSE, o), Stage(k, FALSE, o))
<1>. DEFINE x == Stage(m, FALSE, o)
            y == Stage(k, TRUE, Append(o, k))
            z == Stage(k, FALSE, o)
            d == Execute({u})
            e == Entry(TRUE, k, d)
            p == Entry(FALSE, k, None)
<1>1. k \in Marks /\ d \in Works /\ None \in Works
  BY WorkIs DEF Marks
<1>2. /\ Append(o, k) \in Seq(Marks) /\ Append(o, k)[Len(Append(o, k))] = k
  BY <1>1, Opened
<1>3. k \in Modes
  BY DEF Modes
<1>4. /\ x.mode = m /\ x.pending = FALSE /\ x.open = o /\ x \in Stages
      /\ y.mode = k /\ y.pending = TRUE /\ y.open = Append(o, k) /\ y \in Stages
      /\ z.mode = k /\ z.pending = FALSE /\ z.open = o /\ z \in Stages
  BY <1>2, <1>3 DEF Stage, Stages
<1>5. /\ e.push = TRUE /\ e.mark = k /\ e.does = d /\ e.sync = FALSE
      /\ p.push = FALSE /\ p.mark = k
  BY DEF Entry
<1>6. k = "high" => d = Execute({c.high})
  OBVIOUS
<1>7. k = "low" => d = Execute({c.low})
  OBVIOUS
<1>. HIDE DEF x, y, z, d, e, p
<1>8. PushStep(c, x, e, y)
  <2>1. CASE k = "high"
    <3>1. Under(o, Whole \cup {"high"})
      BY <2>1
    <3>2. HighPush(c, x, e, y)
      <4>1. y.mode = "high" /\ y.pending = TRUE /\ e.does = Execute({c.high})
        BY <1>4, <1>5, <1>6, <2>1
      <4>2. e.mark = "high" /\ e.sync = FALSE /\ x.mode # "serial" /\ x.open = o
        BY <1>4, <1>5, <2>1
      <4>. QED  BY <3>1, <4>1, <4>2 DEF HighPush
    <3>. QED  BY <1>4, <1>5, <3>2 DEF PushStep
  <2>2. CASE k = "low"
    <3>1. Under(o, Whole \cup {"low"})
      BY <2>2
    <3>2. LowPush(c, x, e, y)
      BY <1>4, <1>5, <1>7, <2>2, <3>1 DEF LowPush
    <3>. QED  BY <1>4, <1>5, <3>2 DEF PushStep
  <2>. QED  BY <2>1, <2>2
<1>9. PopStep(y, p, z)
  BY <1>2, <1>4, <1>5 DEF PopStep, PendingPop
<1>10. Flow(c, Module(k, k, d), x, z)
  BY <1>1, <1>4, <1>8, <1>9, ModuleFlow, Zenon DEF e, p
<1>. QED  BY <1>10 DEF x, z, d

(* Only the high unit works: the low one does not get ahead.               *)
LEMMA AheadRun ==
  ASSUME NEW c, c.high \in Units, NEW k \in {"high", "low"},
         NEW o \in Seq(Marks), Under(o, Whole), NEW m \in {"joined", "ahead"}
  PROVE  Flow(c, Module(k, "high", Execute({c.high})), Stage(m, FALSE, o), Stage("ahead", FALSE, o))
<1>. DEFINE x == Stage(m, FALSE, o)
            y == Stage("ahead", TRUE, Append(o, k))
            z == Stage("ahead", FALSE, o)
            d == Execute({c.high})
            e == Entry(TRUE, k, d)
            p == Entry(FALSE, "high", None)
<1>1. k \in Marks /\ "high" \in Marks /\ d \in Works /\ None \in Works
  BY WorkIs DEF Marks
<1>2. /\ Append(o, k) \in Seq(Marks) /\ Append(o, k)[Len(Append(o, k))] = k
  BY <1>1, Opened
<1>3. m \in Modes /\ "ahead" \in Modes /\ m # "serial"
  BY DEF Modes
<1>4. /\ x.mode = m /\ x.pending = FALSE /\ x.open = o /\ x \in Stages
      /\ y.mode = "ahead" /\ y.pending = TRUE /\ y.open = Append(o, k) /\ y \in Stages
      /\ z.mode = "ahead" /\ z.pending = FALSE /\ z.open = o /\ z \in Stages
  BY <1>2, <1>3 DEF Stage, Stages
<1>5. /\ e.push = TRUE /\ e.mark = k /\ e.does = d /\ e.sync = FALSE
      /\ p.push = FALSE /\ p.mark = "high"
  BY DEF Entry
<1>6. d = Execute({c.high}) /\ Under(o, Whole \cup {k})
  BY DEF Under
<1>. HIDE DEF x, y, z, d, e, p
<1>7. PushStep(c, x, e, y)
  BY <1>3, <1>4, <1>5, <1>6 DEF PushStep, HighPush, LowPush, Even
<1>8. PopStep(y, p, z)
  BY <1>2, <1>4, <1>5 DEF PopStep, PendingPop
<1>9. Flow(c, Module(k, "high", d), x, z)
  BY <1>1, <1>4, <1>7, <1>8, ModuleFlow, Zenon DEF e, p
<1>. QED  BY <1>9 DEF x, z, d
-----------------------------------------------------------------------------
(* The graphs of the configurations.                                       *)

LEMMA ConfigIs ==
  ASSUME NEW c \in Configs
  PROVE  /\ c.high \in Units /\ c.low \in Units /\ Range(c.list) \subseteq Units
         /\ c.parallel \in BOOLEAN /\ c.experts \in BOOLEAN
         /\ c.attention \in {"self", "mla", "absorb"}
<1>1. /\ c.parallel \in BOOLEAN /\ c.experts \in BOOLEAN
      /\ c.attention \in {"self", "mla", "absorb"}
      /\ \/ c.high = c.low /\ c.high \in {"GPU", "LOGIC"} /\ c.list = <<c.high>>
         \/ c.high = "GPU" /\ c.low \in {"LOGIC", "PIM"} /\ c.list = <<c.high, c.low>>
  BY TimeBoardAssumption
<1>2. c.high \in Units /\ c.low \in Units
  BY <1>1 DEF Units
<1>3. \A u : Range(<<u>>) = {u}
  BY DEF Range
<1>4. \A u, v : Range(<<u, v>>) = {u, v}
  BY DEF Range
<1>. QED  BY <1>1, <1>2, <1>3, <1>4

LEMMA LinearFlow ==
  ASSUME NEW c \in Configs, NEW o \in Seq(Marks), Under(o, Whole), NEW m \in Modes
  PROVE  Flow(c, Linear(c, "plain"), Stage(m, FALSE, o), Stage("serial", FALSE, o))
<1>1. Marked(c, "plain") = Range(c.list)
  BY DEF Marked
<1>2. "plain" \in Whole
  BY DEF Whole
<1>3. Range(c.list) \in SUBSET Units
  BY ConfigIs
<1>4. Flow(c, Module("plain", "plain", Execute(Range(c.list))), Stage(m, FALSE, o),
           Stage("serial", FALSE, o))
  BY <1>2, <1>3, WholeRun
<1>. QED  BY <1>1, <1>4, Zenon DEF Linear

LEMMA MarkedFlow ==
  ASSUME NEW c \in Configs, NEW k \in {"high", "low"}, NEW o \in Seq(Marks),
         Under(o, Whole \cup {k}), NEW m \in Modes \ {"serial"}
  PROVE  /\ Flow(c, Linear(c, k), Stage(m, FALSE, o), Stage(k, FALSE, o))
         /\ Flow(c, Activation(c, k), Stage(m, FALSE, o), Stage(k, FALSE, o))
<1>1. PICK u : u = IF k = "high" THEN c.high ELSE c.low
  OBVIOUS
<1>2. Marked(c, k) = {u}
  BY <1>1 DEF Marked
<1>3. u \in {c.high, c.low} /\ (k = "high" => u = c.high) /\ (k = "low" => u = c.low)
      /\ c.high \in Units /\ c.low \in Units
  BY <1>1, ConfigIs
<1>4. Flow(c, Module(k, k, Execute({u})), Stage(m, FALSE, o), Stage(k, FALSE, o))
  BY <1>3, UnitRun
<1>. QED  BY <1>2, <1>4, Zenon DEF Linear, Activation

LEMMA ActivationFlow ==
  ASSUME NEW c \in Configs, NEW o \in Seq(Marks), Under(o, Whole), NEW m \in Modes
  PROVE  Flow(c, Activation(c, "plain"), Stage(m, FALSE, o), Stage("serial", FALSE, o))
BY LinearFlow, Zenon DEF Linear, Activation

(* An expert, on the unit it is marked for or on any.                      *)
LEMMA ExpertFlow ==
  ASSUME NEW c \in Configs, NEW k \in {"high", "low"}, NEW o \in Seq(Marks), Under(o, Whole),
         NEW m \in Modes \ {"serial"}
  PROVE  Flow(c, FeedForward3Way(c, k), Stage(m, FALSE, o), Stage("two", FALSE, o))
<1>. DEFINE x == Stage(m, FALSE, o)
            i == Append(o, k)
            y == Stage("two", FALSE, i)
            v == Stage(k, FALSE, i)
            z == Stage("two", FALSE, o)
            e == Entry(TRUE, k, None)
            p == Entry(FALSE, k, None)
            body == Linear(c, k) \o Activation(c, k) \o Linear(c, k) \o Linear(c, k)
<1>1. k \in Marks /\ None \in Works /\ None.kind = "none"
  BY WorkIs DEF Marks
<1>2. i \in Seq(Marks) /\ i[Len(i)] = k /\ Under(i, Whole \cup {k})
  BY <1>1, Opened DEF Under
<1>3. k \in Modes \ {"serial"} /\ "two" \in Modes \ {"serial"} /\ "two" \in Modes /\ k \in Modes
      /\ m \in Modes /\ m # "serial"
  BY DEF Modes
<1>4. Flow(c, body, y, v)
  <2>1. Flow(c, Linear(c, k), y, v)
    BY <1>2, <1>3, MarkedFlow
  <2>2. Flow(c, Activation(c, k), v, v) /\ Flow(c, Linear(c, k), v, v)
    BY <1>2, <1>3, MarkedFlow
  <2>. QED  BY <2>1, <2>2, FlowJoin
<1>5. /\ x.mode = m /\ x.pending = FALSE /\ x.open = o /\ x \in Stages
      /\ y.mode = "two" /\ y.pending = FALSE /\ y.open = i /\ y \in Stages
      /\ v.mode = k /\ v.pending = FALSE /\ v.open = i /\ v \in Stages
      /\ z.mode = "two" /\ z.pending = FALSE /\ z.open = o /\ z \in Stages
  BY <1>2, <1>3 DEF Stage, Stages
<1>6. /\ e.push = TRUE /\ e.mark = k /\ e.does = None /\ e.sync = FALSE
      /\ p.push = FALSE /\ p.mark = k
  BY DEF Entry
<1>7. Under(o, Whole \cup {k})
  BY DEF Under
<1>8. FeedForward3Way(c, k) = Wrap(k, k, None, body)
  BY DEF FeedForward3Way
<1>9. i = Append(o, k)
  OBVIOUS
<1>. HIDE DEF x, y, z, v, e, p, body, i
<1>10. PushStep(c, x, e, y)
  BY <1>1, <1>3, <1>5, <1>6, <1>7, <1>9 DEF PushStep, HighPush, LowPush
<1>11. PopStep(v, p, z)
  BY <1>2, <1>5, <1>6, <1>9 DEF PopStep, WrapPop
<1>12. Flow(c, Wrap(k, k, None, body), x, z)
  BY <1>1, <1>4, <1>5, <1>10, <1>11, WrapFlow, Zenon DEF e, p
<1>. QED  BY <1>8, <1>12 DEF x, z

LEMMA PlainExpertFlow ==
  ASSUME NEW c \in Configs, NEW o \in Seq(Marks), Under(o, Whole), NEW m \in Modes
  PROVE  Flow(c, FeedForward3Way(c, "plain"), Stage(m, FALSE, o), Stage("serial", FALSE, o))
<1>. DEFINE x == Stage(m, FALSE, o)
            i == Append(o, "plain")
            y == Stage("joined", FALSE, i)
            z == Stage("serial", FALSE, i)
            w == Stage("serial", FALSE, o)
            e == Entry(TRUE, "plain", None)
            p == Entry(FALSE, "plain", None)
            body == Linear(c, "plain") \o Activation(c, "plain") \o Linear(c, "plain")
                    \o Linear(c, "plain")
<1>1. "plain" \in Marks /\ "plain" \in Whole /\ None \in Works /\ None.kind = "none"
  BY WorkIs DEF Marks, Whole
<1>2. i \in Seq(Marks) /\ i[Len(i)] = "plain" /\ Under(i, Whole)
  BY <1>1, Opened DEF Under
<1>3. "joined" \in Modes /\ "serial" \in Modes
  BY DEF Modes
<1>4. Flow(c, body, y, z)
  <2>1. Flow(c, Linear(c, "plain"), y, z) /\ Flow(c, Linear(c, "plain"), z, z)
    BY <1>2, <1>3, LinearFlow
  <2>2. Flow(c, Activation(c, "plain"), z, z)
    BY <1>2, <1>3, ActivationFlow
  <2>. QED  BY <2>1, <2>2, FlowJoin
<1>5. /\ x.mode = m /\ x.pending = FALSE /\ x.open = o /\ x \in Stages
      /\ y.mode = "joined" /\ y.pending = FALSE /\ y.open = i /\ y \in Stages
      /\ z.mode = "serial" /\ z.pending = FALSE /\ z.open = i /\ z \in Stages
      /\ w.mode = "serial" /\ w.pending = FALSE /\ w.open = o /\ w \in Stages
  BY <1>2, <1>3 DEF Stage, Stages
<1>6. /\ e.push = TRUE /\ e.mark = "plain" /\ e.does = None /\ e.sync = FALSE
      /\ p.push = FALSE /\ p.mark = "plain"
  BY DEF Entry
<1>7. FeedForward3Way(c, "plain") = Wrap("plain", "plain", None, body)
  BY DEF FeedForward3Way
<1>8. i = Append(o, "plain")
  OBVIOUS
<1>. HIDE DEF x, y, z, w, e, p, body, i
<1>9. PushStep(c, x, e, y)
  BY <1>1, <1>5, <1>6, <1>8 DEF PushStep, WholePush
<1>10. PopStep(z, p, w)
  BY <1>1, <1>2, <1>5, <1>6, <1>8 DEF PopStep, WrapPop
<1>11. Flow(c, Wrap("plain", "plain", None, body), x, w)
  BY <1>1, <1>4, <1>5, <1>9, <1>10, WrapFlow, Zenon DEF e, p
<1>. QED  BY <1>7, <1>11 DEF x, w

(* The definition of ExpertRuns is that of a function.                     *)
LEMMA ExpertRunsUnfold ==
  ASSUME NEW c, NEW m
  PROVE  \A n \in 0 .. num_expert :
           ExpertRuns(c, m)[n] = IF n = 0 THEN << >>
                                 ELSE ExpertRuns(c, m)[n - 1] \o FeedForward3Way(c, m[n])
<1>. DEFINE N == num_expert
            F(n) == FeedForward3Way(c, m[n])
            Made(f, k) == f = [n \in 0 .. k |-> IF n = 0 THEN << >> ELSE f[n - 1] \o F(n)]
            Good == {k \in 0 .. N : \E f : Made(f, k)}
<1>1. N \in Nat
  BY TimeBoardAssumption
<1>. HIDE DEF F
<1>2. 0 \in Good
  <2>1. PICK f : f = [n \in 0 .. 0 |-> << >>]
    OBVIOUS
  <2>2. Made(f, 0)
    <3>1. \A n \in 0 .. 0 : n = 0
      OBVIOUS
    <3>. QED  BY <2>1, <3>1
  <2>. QED  BY <1>1, <2>2
<1>3. ASSUME NEW k \in 0 .. N - 1, k \in Good
      PROVE  k + 1 \in Good
  <2>1. PICK f : Made(f, k)
    BY <1>3
  <2>2. PICK g : g = [n \in 0 .. k + 1 |-> IF n = k + 1 THEN f[k] \o F(k + 1) ELSE f[n]]
    OBVIOUS
  <2>3. \A n \in 0 .. k : g[n] = f[n]
    BY <2>2
  <2>4. ASSUME NEW n \in 0 .. k + 1
        PROVE  g[n] = IF n = 0 THEN << >> ELSE g[n - 1] \o F(n)
    <3>1. CASE n = k + 1
      <4>1. n # 0 /\ n - 1 = k /\ k \in 0 .. k
        BY <1>1, <3>1
      <4>2. g[n] = f[k] \o F(k + 1)
        BY <2>2, <3>1
      <4>3. g[k] = f[k]
        BY <2>3, <4>1
      <4>. QED  BY <3>1, <4>1, <4>2, <4>3
    <3>2. CASE n # k + 1
      <4>1. n \in 0 .. k /\ g[n] = f[n]
        BY <2>3, <3>2
      <4>2. f[n] = IF n = 0 THEN << >> ELSE f[n - 1] \o F(n)
        BY <2>1, <4>1
      <4>3. n # 0 => g[n - 1] = f[n - 1]
        BY <2>3, <4>1
      <4>. QED  BY <4>1, <4>2, <4>3
    <3>. QED  BY <3>1, <3>2
  <2>5. Made(g, k + 1)
    <3>1. g = [n \in 0 .. k + 1 |-> g[n]]
      BY <2>2
    <3>. QED  BY <2>4, <3>1
  <2>6. k + 1 \in 0 .. N
    BY <1>1
  <2>. QED  BY <2>5, <2>6
<1>4. N \in Good
  <2>1. N \in 0 .. N
    BY <1>1
  <2>. HIDE DEF Good, N
  <2>. QED  BY <1>1, <1>2, <1>3, <2>1, CountUp
<1>5. \E f : Made(f, N)
  BY <1>4
<1>6. Made(ExpertRuns(c, m), N)
  BY <1>5 DEF ExpertRuns, F
<1>7. ASSUME NEW n \in 0 .. N
      PROVE  ExpertRuns(c, m)[n] = IF n = 0 THEN << >> ELSE ExpertRuns(c, m)[n - 1] \o F(n)
  BY <1>6
<1>. QED  BY <1>7 DEF F

(* Prompts and decodes: in parallel, each on its unit or both on the high  *)
(* one; otherwise one after the other.                                     *)
LEMMA PromptsThenDecodes ==
  ASSUME NEW c \in Configs, NEW o \in Seq(Marks), Under(o, Whole)
  PROVE  \E m \in Modes, n \in Modes :
           /\ Flow(c, AttentionSum(c), Stage("joined", FALSE, o), Stage(m, FALSE, o))
           /\ Flow(c, AttentionGen(c), Stage(m, FALSE, o), Stage(n, FALSE, o))
<1>1. {"joined", "serial", "high", "low", "ahead"} \subseteq Modes
  BY DEF Modes
<1>2. /\ c.high \in Units /\ c.low \in Units /\ Range(c.list) \in SUBSET Units
      /\ {c.high} \in SUBSET Units
  BY ConfigIs
<1>3. CASE c.parallel /\ c.attention = "absorb"
  <2>1. Flow(c, Module("high", "high", Execute({c.high})), Stage("joined", FALSE, o),
             Stage("ahead", FALSE, o))
    BY <1>2, AheadRun
  <2>2. Flow(c, Module("low", "high", Execute({c.high})), Stage("ahead", FALSE, o),
             Stage("ahead", FALSE, o))
    BY <1>2, AheadRun
  <2>. QED  BY <1>1, <1>3, <2>1, <2>2 DEF AttentionSum, AttentionGen
<1>4. CASE c.parallel /\ c.attention # "absorb"
  <2>1. Under(o, Whole \cup {"high"}) /\ Under(o, Whole \cup {"low"})
    BY DEF Under
  <2>2. "joined" \in Modes \ {"serial"} /\ "high" \in Modes \ {"serial"}
    BY <1>1
  <2>3. Flow(c, Module("high", "high", Execute({c.high})), Stage("joined", FALSE, o),
             Stage("high", FALSE, o))
    BY <1>2, <2>1, <2>2, UnitRun
  <2>4. Flow(c, Module("low", "low", Execute({c.low})), Stage("high", FALSE, o),
             Stage("low", FALSE, o))
    BY <1>2, <2>1, <2>2, UnitRun
  <2>. QED  BY <1>1, <1>4, <2>3, <2>4 DEF AttentionSum, AttentionGen
<1>5. CASE ~c.parallel
  <2>1. "plain" \in Whole /\ "plain" \in {"plain", "high"} /\ "high" \in {"plain", "high"}
    BY DEF Whole
  <2>2. ASSUME NEW m \in {"joined", "serial"}
        PROVE  /\ Flow(c, AttentionSum(c), Stage(m, FALSE, o), Stage("serial", FALSE, o))
               /\ Flow(c, AttentionGen(c), Stage(m, FALSE, o), Stage("serial", FALSE, o))
    <3>1. m \in Modes
      BY <1>1
    <3>2. Flow(c, Module("plain", "high", Execute({c.high})), Stage(m, FALSE, o),
               Stage("serial", FALSE, o))
      BY <1>2, <2>1, <3>1, WholeRun
    <3>3. Flow(c, Module("plain", "plain", Execute(Range(c.list))), Stage(m, FALSE, o),
               Stage("serial", FALSE, o))
      BY <1>2, <2>1, <3>1, WholeRun
    <3>. QED  BY <1>5, <3>2, <3>3, Zenon DEF AttentionSum, AttentionGen
  <2>3. /\ Flow(c, AttentionSum(c), Stage("joined", FALSE, o), Stage("serial", FALSE, o))
        /\ Flow(c, AttentionGen(c), Stage("serial", FALSE, o), Stage("serial", FALSE, o))
    BY <2>2
  <2>. QED  BY <1>1, <2>3
<1>. QED  BY <1>3, <1>4, <1>5

LEMMA SelfAttentionFlow ==
  ASSUME NEW c \in Configs, NEW o \in Seq(Marks), Under(o, Whole), NEW m \in Modes
  PROVE  Flow(c, SelfAttentionParallel(c), Stage(m, FALSE, o), Stage("serial", FALSE, o))
<1>. DEFINE k == IF c.attention = "self" THEN "plain" ELSE "vec"
            x == Stage(m, FALSE, o)
            i == Append(o, k)
            y == Stage("joined", FALSE, i)
            w == Stage("serial", FALSE, o)
            e == Entry(TRUE, k, None)
            p == Entry(FALSE, k, None)
            body == AttentionSplit \o AttentionSum(c) \o AttentionGen(c) \o AttentionMerge
<1>1. k \in Marks /\ k \in Whole /\ None \in Works /\ None.kind = "none"
  BY WorkIs DEF Marks, Whole
<1>2. i \in Seq(Marks) /\ i[Len(i)] = k /\ Under(i, Whole)
  <2>. HIDE DEF k
  <2>. QED  BY <1>1, Opened DEF Under
<1>3. "joined" \in Modes /\ "serial" \in Modes
  BY DEF Modes
<1>4. Flow(c, body, y, y)
  <2>1. "vec" \in Whole /\ Join \in {None, Join}
    BY DEF Whole
  <2>2. \A n \in Modes : /\ Flow(c, AttentionSplit, Stage(n, FALSE, i), y)
                         /\ Flow(c, AttentionMerge, Stage(n, FALSE, i), y)
    BY <1>2, <2>1, WholeModule DEF AttentionSplit, AttentionMerge
  <2>3. PICK n1 \in Modes, n2 \in Modes :
          /\ Flow(c, AttentionSum(c), y, Stage(n1, FALSE, i))
          /\ Flow(c, AttentionGen(c), Stage(n1, FALSE, i), Stage(n2, FALSE, i))
    BY <1>2, PromptsThenDecodes
  <2>4. Flow(c, AttentionSplit, y, y) /\ Flow(c, AttentionMerge, Stage(n2, FALSE, i), y)
    BY <1>3, <2>2
  <2>. QED  BY <2>3, <2>4, FlowJoin
<1>5. SelfAttentionParallel(c) = Wrap(k, k, None, body)
  BY DEF SelfAttentionParallel
<1>6. i = Append(o, k)
  OBVIOUS
<1>. HIDE DEF k
<1>7. /\ x.mode = m /\ x.pending = FALSE /\ x.open = o /\ x \in Stages
      /\ y.mode = "joined" /\ y.pending = FALSE /\ y.open = i /\ y \in Stages
      /\ w.mode = "serial" /\ w.pending = FALSE /\ w.open = o /\ w \in Stages
  BY <1>2, <1>3 DEF Stage, Stages
<1>8. /\ e.push = TRUE /\ e.mark = k /\ e.does = None /\ e.sync = FALSE
      /\ p.push = FALSE /\ p.mark = k
  BY DEF Entry
<1>. HIDE DEF x, y, w, e, p, body, i
<1>9. PushStep(c, x, e, y)
  BY <1>1, <1>6, <1>7, <1>8 DEF PushStep, WholePush
<1>10. PopStep(y, p, w)
  BY <1>1, <1>2, <1>6, <1>7, <1>8 DEF PopStep, WrapPop
<1>11. Flow(c, Wrap(k, k, None, body), x, w)
  BY <1>1, <1>4, <1>7, <1>9, <1>10, WrapFlow, Zenon DEF e, p
<1>. QED  BY <1>5, <1>11 DEF x, w

LEMMA NoneOpen == <<>> \in Seq(Marks) /\ Under(<<>>, Whole)
BY DEF Under

LEMMA AttentionFlow ==
  ASSUME NEW c \in Configs
  PROVE  Flow(c, Attention(c), Begin, Stage("serial", FALSE, <<>>))
<1>. DEFINE z == Stage("serial", FALSE, <<>>)
<1>1. "joined" \in Modes /\ "serial" \in Modes
  BY DEF Modes
<1>2. Flow(c, Linear(c, "plain"), Begin, z) /\ Flow(c, Linear(c, "plain"), z, z)
  BY <1>1, NoneOpen, LinearFlow DEF Begin
<1>3. Flow(c, SelfAttentionParallel(c), z, z)
  BY <1>1, NoneOpen, SelfAttentionFlow
<1>4. Flow(c, AllReduce, z, z)
  BY <1>1, NoneOpen, SyncFlow DEF AllReduce
<1>. HIDE DEF z
<1>. QED  BY <1>2, <1>3, <1>4, FlowJoin DEF Attention, z

(* The experts of a device: a mode that each of them keeps.                *)
LEMMA ExpertsFlow ==
  ASSUME NEW c \in Configs, NEW m \in RouteMarks(c), NEW o \in Seq(Marks), Under(o, Whole)
  PROVE  LET x == Stage(IF c.parallel THEN "two" ELSE "serial", FALSE, o)
         IN  Flow(c, ExpertRuns(c, m)[num_expert], x, x)
<1>. DEFINE k == IF c.parallel THEN "two" ELSE "serial"
            x == Stage(k, FALSE, o)
            Good == {n \in 0 .. num_expert : Flow(c, ExpertRuns(c, m)[n], x, x)}
<1>1. num_expert \in Nat
  BY TimeBoardAssumption
<1>2. k \in Modes /\ (c.parallel => k = "two") /\ (~c.parallel => k = "serial")
  BY DEF Modes
<1>3. x \in Stages
  <2>. HIDE DEF k
  <2>. QED  BY <1>2 DEF Stage, Stages
<1>4. 0 \in Good
  <2>1. ExpertRuns(c, m)[0] = <<>>
    BY <1>1, ExpertRunsUnfold
  <2>. HIDE DEF x
  <2>2. Flow(c, <<>>, x, x)
    BY <1>3, FlowNothing
  <2>3. 0 \in 0 .. num_expert
    BY <1>1
  <2>. QED  BY <2>1, <2>2, <2>3, Zenon
<1>5. ASSUME NEW n \in 0 .. num_expert - 1, n \in Good
      PROVE  n + 1 \in Good
  <2>1. n + 1 \in 0 .. num_expert /\ n + 1 # 0 /\ (n + 1) - 1 = n /\ n + 1 \in 1 .. num_expert
    BY <1>1
  <2>2. ExpertRuns(c, m)[n + 1] = ExpertRuns(c, m)[n] \o FeedForward3Way(c, m[n + 1])
    BY <2>1, ExpertRunsUnfold, Zenon
  <2>3. m[n + 1] \in IF c.parallel THEN {"high", "low"} ELSE {"plain"}
    BY <2>1 DEF RouteMarks
  <2>4. Flow(c, FeedForward3Way(c, m[n + 1]), x, x)
    <3>1. CASE c.parallel
      <4>1. k = "two" /\ m[n + 1] \in {"high", "low"} /\ "two" \in Modes \ {"serial"}
        BY <1>2, <2>3, <3>1
      <4>. HIDE DEF k
      <4>2. Flow(c, FeedForward3Way(c, m[n + 1]), Stage("two", FALSE, o), Stage("two", FALSE, o))
        BY <4>1, ExpertFlow
      <4>. QED  BY <4>1, <4>2
    <3>2. CASE ~c.parallel
      <4>1. k = "serial" /\ m[n + 1] = "plain" /\ "serial" \in Modes
        BY <1>2, <2>3, <3>2
      <4>. HIDE DEF k
      <4>2. Flow(c, FeedForward3Way(c, "plain"), Stage("serial", FALSE, o), Stage("serial", FALSE, o))
        BY <4>1, PlainExpertFlow
      <4>. QED  BY <4>1, <4>2
    <3>. QED  BY <3>1, <3>2
  <2>5. Flow(c, ExpertRuns(c, m)[n], x, x)
    BY <1>5
  <2>. HIDE DEF x
  <2>6. Flow(c, ExpertRuns(c, m)[n] \o FeedForward3Way(c, m[n + 1]), x, x)
    BY <2>4, <2>5, FlowJoin
  <2>. QED  BY <2>1, <2>2, <2>6
<1>6. num_expert \in Good
  <2>. HIDE DEF Good
  <2>1. \A n \in 0 .. num_expert : n \in Good
    BY <1>1, <1>4, <1>5, CountUp
  <2>. QED  BY <1>1, <2>1
<1>. QED  BY <1>6

LEMMA ExpertFFNFlow ==
  ASSUME NEW c \in Configs, NEW m \in RouteMarks(c)
  PROVE  Flow(c, ExpertFFN(c, m), Stage("serial", FALSE, <<>>), Stage("serial", FALSE, <<>>))
<1>. DEFINE k == IF c.parallel THEN "two" ELSE "serial"
            w == Stage("serial", FALSE, <<>>)
            i == Append(<<>>, "plain")
            y == Stage("joined", FALSE, i)
            v == Stage(k, FALSE, i)
            z == Stage("serial", FALSE, i)
            e == Entry(TRUE, "plain", None)
            p == Entry(FALSE, "plain", None)
            runs == ExpertRuns(c, m)[num_expert]
            body == RouteModule \o runs \o Sync \o MoEGather
<1>1. /\ "plain" \in Marks /\ "plain" \in Whole /\ "vec" \in Whole
      /\ None \in Works /\ None.kind = "none"
  BY WorkIs DEF Marks, Whole
<1>2. i \in Seq(Marks) /\ i[Len(i)] = "plain" /\ Under(i, Whole)
  BY <1>1, NoneOpen, Opened DEF Under
<1>3. "joined" \in Modes /\ "serial" \in Modes /\ k \in Modes /\ k \in {"joined", "serial", "two"}
  BY DEF Modes
<1>4. Flow(c, runs, v, v)
  BY <1>2, ExpertsFlow
<1>. HIDE DEF runs, k
<1>5. Flow(c, body, y, z)
  <2>1. Flow(c, RouteModule, y, v)
    BY <1>1, <1>2, <1>3, WholeModule DEF RouteModule
  <2>2. Flow(c, Sync, v, z)
    BY <1>2, <1>3, SyncFlow DEF Sync
  <2>3. Flow(c, MoEGather, z, z)
    BY <1>1, <1>2, <1>3, PassModule DEF MoEGather
  <2>. HIDE DEF y, v, z
  <2>. QED  BY <1>4, <2>1, <2>2, <2>3, FlowJoin
<1>6. ExpertFFN(c, m) = Wrap("plain", "plain", None, body)
  BY DEF ExpertFFN, runs
<1>7. i = Append(<<>>, "plain")
  OBVIOUS
<1>8. /\ w.mode = "serial" /\ w.pending = FALSE /\ w.open = <<>> /\ w \in Stages
      /\ y.mode = "joined" /\ y.pending = FALSE /\ y.open = i /\ y \in Stages
      /\ z.mode = "serial" /\ z.pending = FALSE /\ z.open = i /\ z \in Stages
  BY <1>2, <1>3 DEF Stage, Stages
<1>9. /\ e.push = TRUE /\ e.mark = "plain" /\ e.does = None /\ e.sync = FALSE
      /\ p.push = FALSE /\ p.mark = "plain"
  BY DEF Entry
<1>. HIDE DEF w, y, z, e, p, body, i
<1>10. PushStep(c, w, e, y)
  BY <1>1, <1>7, <1>8, <1>9 DEF PushStep, WholePush
<1>11. PopStep(z, p, w)
  BY <1>1, <1>2, <1>7, <1>8, <1>9, NoneOpen DEF PopStep, WrapPop
<1>12. Flow(c, Wrap("plain", "plain", None, body), w, w)
  BY <1>1, <1>5, <1>8, <1>10, <1>11, WrapFlow, Zenon DEF e, p
<1>. QED  BY <1>6, <1>12 DEF w

LEMMA GraphFlow ==
  ASSUME config \in Configs, marks \in RouteMarks(config)
  PROVE  Flow(config, Graph, Begin, Stage("serial", FALSE, <<>>))
<1>1. CASE ~config.experts
  BY <1>1, AttentionFlow DEF Graph
<1>2. CASE config.experts
  <2>1. "joined" \in Modes /\ "plain" \in Whole
    BY DEF Modes, Whole
  <2>2. Flow(config, LayerNorm, Begin, Stage("serial", FALSE, <<>>))
    BY <2>1, NoneOpen, PassModule DEF LayerNorm, Begin
  <2>3. Flow(config, LayerNorm \o ExpertFFN(config, marks), Begin, Stage("serial", FALSE, <<>>))
    BY <2>2, ExpertFFNFlow, FlowJoin
  <2>. QED  BY <1>2, <2>3 DEF Graph
<1>. QED  BY <1>1, <1>2
-----------------------------------------------------------------------------
(* The clocks at a stage.                                                  *)

UnitTime(u, ht, lt) == IF u = "GPU" THEN ht ELSE lt

(* The clocks with the execution that is still to be added.                *)
HighDone(ht, ex) == ht + IF ex.unit = "GPU" THEN ex.time ELSE 0
LowDone(lt, ex) == lt + IF ex.unit \in {"LOGIC", "PIM"} THEN ex.time ELSE 0

(* Each unit has done its work by its clock; with one unit only, the clock *)
(* of the other stands still.                                              *)
Spread(c, ht, lt, dn) ==
  /\ dn[c.high] = UnitTime(c.high, ht, lt) /\ dn[c.low] = UnitTime(c.low, ht, lt)
  /\ \A u \in Units : dn[u] <= ht \/ dn[u] <= lt
  /\ c.high = c.low => UnitTime(c.high, lt, ht) <= UnitTime(c.high, ht, lt)

LowBehind(c, ht, lt) == UnitTime(c.low, ht, lt) <= UnitTime(c.high, ht, lt)

Lone(x) == x.mode \in {"two", "high", "low", "ahead"}

AtStage(c, x, dt, ht, lt, ex, dn) ==
  /\ IF x.pending THEN ex \in [unit : Units, time : Nat] ELSE ex = NoExec
  /\ x.mode = "joined" => ~x.pending /\ dt = ht /\ dt = lt /\ \A u \in Units : dn[u] = dt
  /\ x.mode = "serial" => /\ ht <= dt /\ lt <= dt /\ \A u \in Units : dn[u] = dt + ex.time
                          /\ x.pending => dt = ht /\ dt = lt
  /\ Lone(x) => dt \in {ht, lt} /\ Spread(c, HighDone(ht, ex), LowDone(lt, ex), dn)
  /\ x.mode \in {"high", "ahead"} => IF x.pending THEN ex.unit = c.high
                                     ELSE dt = UnitTime(c.high, ht, lt)
  /\ x.mode = "low" => IF x.pending THEN ex.unit = c.low ELSE dt = UnitTime(c.low, ht, lt)
  /\ x.mode = "ahead" => LowBehind(c, HighDone(ht, ex), LowDone(lt, ex))

(* Behind a push whose module has not run.                                 *)
Pushed(c, x, e, dt, ht, lt, ex, dn) ==
  /\ ex = NoExec
  /\ e.mark \in Whole => /\ ht <= dt /\ lt <= dt /\ \A u \in Units : dn[u] = dt
                         /\ ~e.sync => dt = ht /\ dt = lt
  /\ e.mark = "high" => dt = ht
  /\ e.mark = "low" => dt = lt
  /\ e.mark \in {"high", "low"} => /\ Spread(c, ht, lt, dn)
                                   /\ Even(x) => LowBehind(c, ht, lt)

(* The open stamps: none starts after a clock it will be closed with, or   *)
(* before the one around it, and what ended inside one has been done.      *)
OpenTo(c, open, st, ht, lt, dn) ==
  /\ Len(st) = Len(open)
  /\ \A i \in 1 .. Len(open) :
       /\ open[i] # "low" => st[i].start <= ht
       /\ open[i] # "high" => st[i].start <= lt
       /\ open[i] = "high" => st[i].inner <= UnitTime(c.high, ht, lt)
       /\ open[i] = "low" => st[i].inner <= UnitTime(c.low, ht, lt)
       /\ open[i] \in Whole => \E u \in Units : st[i].inner <= dn[u]
  /\ \A i \in 1 .. Len(open) - 1 : st[i].start <= st[i + 1].start

StampType == [start : Nat, inner : Nat]

LEMMA OpenGrows ==
  ASSUME NEW c, NEW o \in Seq(Marks), NEW st \in Seq(StampType),
         NEW ht \in Nat, NEW lt \in Nat, NEW dn \in [Units -> Nat],
         NEW ht2 \in Nat, NEW lt2 \in Nat, NEW dn2 \in [Units -> Nat],
         ht <= ht2, lt <= lt2, \A u \in Units : dn[u] <= dn2[u],
         OpenTo(c, o, st, ht, lt, dn)
  PROVE  OpenTo(c, o, st, ht2, lt2, dn2)
<1>1. Len(st) = Len(o) /\ Len(o) \in Nat
  BY DEF OpenTo
<1>2. ASSUME NEW i \in 1 .. Len(o)
      PROVE  st[i] \in StampType /\ st[i].start \in Nat /\ st[i].inner \in Nat
  <2>1. st[i] \in StampType
    BY <1>1, <1>2, ElementOfSeq
  <2>. QED  BY <2>1 DEF StampType
<1>3. ASSUME NEW i \in 1 .. Len(o)
      PROVE  /\ o[i] # "low" => st[i].start <= ht2
             /\ o[i] # "high" => st[i].start <= lt2
             /\ o[i] = "high" => st[i].inner <= UnitTime(c.high, ht2, lt2)
             /\ o[i] = "low" => st[i].inner <= UnitTime(c.low, ht2, lt2)
             /\ o[i] \in Whole => \E u \in Units : st[i].inner <= dn2[u]
  <2>1. /\ o[i] # "low" => st[i].start <= ht
        /\ o[i] # "high" => st[i].start <= lt
        /\ o[i] = "high" => st[i].inner <= UnitTime(c.high, ht, lt)
        /\ o[i] = "low" => st[i].inner <= UnitTime(c.low, ht, lt)
        /\ o[i] \in Whole => \E u \in Units : st[i].inner <= dn[u]
    BY <1>3 DEF OpenTo
  <2>2. \A u : UnitTime(u, ht, lt) \in Nat /\ UnitTime(u, ht2, lt2) \in Nat
               /\ UnitTime(u, ht, lt) <= UnitTime(u, ht2, lt2)
    BY DEF UnitTime
  <2>3. o[i] # "low" => st[i].start <= ht2
    BY <1>2, <2>1
  <2>4. o[i] # "high" => st[i].start <= lt2
    BY <1>2, <2>1
  <2>5. o[i] = "high" => st[i].inner <= UnitTime(c.high, ht2, lt2)
    BY <1>2, <2>1, <2>2
  <2>6. o[i] = "low" => st[i].inner <= UnitTime(c.low, ht2, lt2)
    BY <1>2, <2>1, <2>2
  <2>7. ASSUME o[i] \in Whole
        PROVE  \E u \in Units : st[i].inner <= dn2[u]
    <3>1. PICK u \in Units : st[i].inner <= dn[u]
      BY <2>1, <2>7
    <3>2. dn[u] \in Nat /\ dn2[u] \in Nat /\ dn[u] <= dn2[u]
      OBVIOUS
    <3>3. st[i].inner <= dn2[u]
      BY <1>2, <3>1, <3>2
    <3>. QED  BY <3>3
  <2>. QED  BY <2>3, <2>4, <2>5, <2>6, <2>7
<1>. QED  BY <1>3 DEF OpenTo

LEMMA OpenPush ==
  ASSUME NEW c, NEW o \in Seq(Marks), NEW st \in Seq(StampType), NEW k \in Marks,
         NEW ht \in Nat, NEW lt \in Nat, NEW dn \in [Units -> Nat],
         OpenTo(c, o, st, ht, lt, dn), NEW s \in Nat,
         k # "low" => s <= ht, k # "high" => s <= lt,
         o # <<>> => st[Len(o)].start <= s
  PROVE  LET q == Append(st, [start |-> s, inner |-> 0])
         IN  q \in Seq(StampType) /\ OpenTo(c, Append(o, k), q, ht, lt, dn)
<1>. DEFINE z == [start |-> s, inner |-> 0]
            q == Append(st, z)
            a == Append(o, k)
<1>1. PICK n \in Nat : n = Len(o) /\ n = Len(st)
  BY DEF OpenTo
<1>2. z \in StampType /\ z.start = s /\ z.inner = 0
  BY DEF StampType
<1>. HIDE DEF z
<1>3. q \in Seq(StampType) /\ Len(q) = n + 1 /\ q[n + 1] = z /\ \A i \in 1 .. n : q[i] = st[i]
  BY <1>1, <1>2, AppendProperties
<1>4. a \in Seq(Marks) /\ Len(a) = n + 1 /\ a[n + 1] = k /\ \A i \in 1 .. n : a[i] = o[i]
  <2>1. /\ Append(o, k) \in Seq(Marks) /\ Len(Append(o, k)) = Len(o) + 1
        /\ Append(o, k)[Len(o) + 1] = k
        /\ \A i \in 1 .. Len(o) : Append(o, k)[i] = o[i]
    BY AppendProperties
  <2>. QED  BY <1>1, <2>1
<1>. HIDE DEF q, a
<1>5. ASSUME NEW i \in 1 .. n + 1
      PROVE  /\ a[i] # "low" => q[i].start <= ht
             /\ a[i] # "high" => q[i].start <= lt
             /\ a[i] = "high" => q[i].inner <= UnitTime(c.high, ht, lt)
             /\ a[i] = "low" => q[i].inner <= UnitTime(c.low, ht, lt)
             /\ a[i] \in Whole => \E u \in Units : q[i].inner <= dn[u]
  <2>1. CASE i \in 1 .. n
    BY <1>1, <1>3, <1>4, <2>1 DEF OpenTo
  <2>2. CASE i \notin 1 .. n
    <3>1. i = n + 1 /\ a[i] = k /\ q[i] = z
      BY <1>3, <1>4, <2>2
    <3>2. \A u : UnitTime(u, ht, lt) \in Nat
      BY DEF UnitTime
    <3>3. "GPU" \in Units /\ dn["GPU"] \in Nat
      BY DEF Units
    <3>4. 0 <= UnitTime(c.high, ht, lt) /\ 0 <= UnitTime(c.low, ht, lt) /\ 0 <= dn["GPU"]
      BY <3>2, <3>3
    <3>. QED  BY <1>2, <3>1, <3>3, <3>4
  <2>. QED  BY <2>1, <2>2
<1>6. ASSUME NEW i \in 1 .. (n + 1) - 1
      PROVE  q[i].start <= q[i + 1].start
  <2>1. CASE i = n
    <3>1. o # <<>>
      <4>1. Len(o) # 0
        BY <1>1, <1>6, <2>1
      <4>2. Len(<<>>) = 0
        OBVIOUS
      <4>. QED  BY <4>1, <4>2
    <3>2. q[i] = st[Len(o)] /\ q[i + 1] = z
      BY <1>1, <1>3, <1>6, <2>1
    <3>. QED  BY <1>2, <3>1, <3>2
  <2>2. CASE i # n
    <3>1. i \in 1 .. n /\ i + 1 \in 1 .. n /\ i \in 1 .. Len(o) - 1
      BY <1>1, <1>6, <2>2
    <3>2. st[i].start <= st[i + 1].start
      BY <3>1 DEF OpenTo
    <3>. QED  BY <1>3, <3>1, <3>2
  <2>. QED  BY <2>1, <2>2
<1>7. OpenTo(c, a, q, ht, lt, dn)
  BY <1>3, <1>4, <1>5, <1>6 DEF OpenTo
<1>. QED  BY <1>3, <1>7 DEF q, a, z

LEMMA MaxOfThree ==
  ASSUME NEW a \in Nat, NEW b \in Nat, NEW d \in Nat
  PROVE  /\ Max({a, b, d}) \in Nat /\ Max({a, b, d}) \in {a, b, d}
         /\ a <= Max({a, b, d}) /\ b <= Max({a, b, d}) /\ d <= Max({a, b, d})
<1>1. IsFiniteSet({a, b, d}) /\ {a, b, d} \subseteq Int /\ {a, b, d} # {}
  <2>1. IsFiniteSet({a}) /\ IsFiniteSet({a} \cup {b})
    BY FS_EmptySet, FS_AddElement
  <2>2. IsFiniteSet(({a} \cup {b}) \cup {d})
    BY <2>1, FS_AddElement
  <2>3. ({a} \cup {b}) \cup {d} = {a, b, d}
    OBVIOUS
  <2>. QED  BY <2>2, <2>3
<1>2. Max({a, b, d}) \in {a, b, d} /\ \A x \in {a, b, d} : x <= Max({a, b, d})
  BY <1>1, MaxIsGreatest
<1>. QED  BY <1>2

LEMMA FrontIs ==
  ASSUME NEW S, NEW s \in Seq(S), NEW n \in Nat, Len(s) = n + 1
  PROVE  /\ Front(s) \in Seq(S) /\ Len(Front(s)) = n /\ \A i \in 1 .. n : Front(s)[i] = s[i]
         /\ Last(s) = s[n + 1] /\ Last(s) \in S
<1>1. Front(s) = SubSeq(s, 1, n)
  BY DEF Front
<1>2. \A i \in 1 .. n + 1 : s[i] \in S
  BY ElementOfSeq
<1>3. /\ SubSeq(s, 1, n) \in Seq(S)
      /\ Len(SubSeq(s, 1, n)) = IF 1 <= n THEN n - 1 + 1 ELSE 0
      /\ \A i \in 1 .. n - 1 + 1 : SubSeq(s, 1, n)[i] = s[1 + i - 1]
  <2>1. 1 \in Int /\ n \in Int /\ \A i \in 1 .. n : s[i] \in S
    BY <1>2
  <2>. QED  BY <2>1, SubSeqProperties
<1>4. Len(SubSeq(s, 1, n)) = n
  BY <1>3
<1>5. \A i \in 1 .. n : SubSeq(s, 1, n)[i] = s[i]
  <2>1. \A i \in 1 .. n : i \in 1 .. n - 1 + 1 /\ 1 + i - 1 = i
    OBVIOUS
  <2>. QED  BY <1>3, <2>1
<1>6. Last(s) = s[n + 1] /\ n + 1 \in 1 .. n + 1
  BY DEF Last
<1>. QED  BY <1>1, <1>2, <1>3, <1>4, <1>5, <1>6, Zenon

(* What a stamp that closes at t leaves to the one around it.              *)
Ends(c, o, t, ht, lt, dn) ==
  o # <<>> => \/ o[Len(o)] \in Whole /\ \E u \in Units : t <= dn[u]
              \/ o[Len(o)] = "high" /\ t <= UnitTime(c.high, ht, lt)
              \/ o[Len(o)] = "low" /\ t <= UnitTime(c.low, ht, lt)

LEMMA OpenPop ==
  ASSUME NEW c, NEW o \in Seq(Marks), NEW k \in Marks, NEW st \in Seq(StampType),
         NEW ht \in Nat, NEW lt \in Nat, NEW dn \in [Units -> Nat], NEW t \in Nat,
         OpenTo(c, Append(o, k), st, ht, lt, dn), Ends(c, o, t, ht, lt, dn)
  PROVE  LET rest == Front(st)
             r    == IF rest = <<>> THEN rest
                     ELSE [rest EXCEPT ![Len(rest)].inner = Max({@, t})]
         IN  /\ r \in Seq(StampType) /\ OpenTo(c, o, r, ht, lt, dn)
             /\ Last(st) \in StampType
             /\ (IF rest = <<>> THEN 0 ELSE Last(rest).start) <= Last(st).start
<1>1. PICK n, a : n = Len(o) /\ a = Append(o, k) /\ n \in Nat
  BY LenProperties
<1>2. a \in Seq(Marks) /\ Len(a) = n + 1 /\ a[n + 1] = k /\ \A i \in 1 .. n : a[i] = o[i]
  <2>1. /\ Append(o, k) \in Seq(Marks) /\ Len(Append(o, k)) = Len(o) + 1
        /\ Append(o, k)[Len(o) + 1] = k
        /\ \A i \in 1 .. Len(o) : Append(o, k)[i] = o[i]
    BY AppendProperties
  <2>. QED  BY <1>1, <2>1
<1>3. OpenTo(c, a, st, ht, lt, dn) /\ Len(st) = n + 1
  BY <1>1, <1>2 DEF OpenTo
<1>4. PICK rest : rest = Front(st)
  OBVIOUS
<1>5. /\ rest \in Seq(StampType) /\ Len(rest) = n /\ \A i \in 1 .. n : rest[i] = st[i]
      /\ Last(st) = st[n + 1] /\ Last(st) \in StampType
  BY <1>1, <1>3, <1>4, FrontIs
<1>6. ASSUME NEW i \in 1 .. n
      PROVE  /\ rest[i] \in StampType /\ rest[i].start \in Nat /\ rest[i].inner \in Nat
             /\ o[i] # "low" => rest[i].start <= ht
             /\ o[i] # "high" => rest[i].start <= lt
             /\ o[i] = "high" => rest[i].inner <= UnitTime(c.high, ht, lt)
             /\ o[i] = "low" => rest[i].inner <= UnitTime(c.low, ht, lt)
             /\ o[i] \in Whole => \E u \in Units : rest[i].inner <= dn[u]
             /\ rest[i].start <= st[i + 1].start
  <2>1. rest[i] \in StampType /\ rest[i].start \in Nat /\ rest[i].inner \in Nat
    <3>1. rest[i] \in StampType
      BY <1>5, <1>6, ElementOfSeq
    <3>. QED  BY <3>1 DEF StampType
  <2>2. i \in 1 .. Len(a) /\ i \in 1 .. Len(a) - 1 /\ a[i] = o[i] /\ st[i] = rest[i]
    BY <1>2, <1>5
  <2>. QED  BY <1>3, <2>1, <2>2 DEF OpenTo
<1>7. CASE n = 0
  <2>1. rest = <<>> /\ Last(st).start \in Nat
    BY <1>5, <1>7, EmptySeq DEF StampType
  <2>2. OpenTo(c, o, rest, ht, lt, dn)
    BY <1>1, <1>5, <1>7 DEF OpenTo
  <2>. QED  BY <1>4, <1>5, <2>1, <2>2
<1>8. CASE n # 0
  <2>1. rest # <<>> /\ o # <<>> /\ n \in 1 .. n
    <3>1. Len(<<>>) = 0
      OBVIOUS
    <3>. QED  BY <1>1, <1>5, <1>8, <3>1
  <2>2. PICK w : w = Max({rest[n].inner, t})
    OBVIOUS
  <2>3. w \in Nat /\ w \in {rest[n].inner, t}
    <3>1. PICK d \in Nat : d = rest[n].inner
      BY <1>6, <2>1
    <3>2. Max({d, t}) \in Nat /\ Max({d, t}) \in {d, t}
      BY MaxOfTwo
    <3>. QED  BY <2>2, <3>1, <3>2
  <2>4. PICK r : r = [rest EXCEPT ![Len(rest)].inner = Max({@, t})]
    OBVIOUS
  <2>5. PICK z : z = [rest[n] EXCEPT !.inner = w]
    OBVIOUS
  <2>6. z \in StampType /\ z.start = rest[n].start /\ z.inner = w
    BY <1>6, <2>1, <2>3, <2>5 DEF StampType
  <2>7. r = [rest EXCEPT ![n] = z]
    BY <1>5, <2>2, <2>4, <2>5
  <2>8. r \in Seq(StampType) /\ Len(r) = n /\ \A i \in 1 .. n : r[i] = IF i = n THEN z ELSE rest[i]
    BY <1>5, <2>1, <2>6, <2>7, ExceptSeq
  <2>9. ASSUME NEW i \in 1 .. n
        PROVE  /\ r[i].start = rest[i].start
               /\ o[i] = "high" => r[i].inner <= UnitTime(c.high, ht, lt)
               /\ o[i] = "low" => r[i].inner <= UnitTime(c.low, ht, lt)
               /\ o[i] \in Whole => \E u \in Units : r[i].inner <= dn[u]
    <3>1. CASE i # n
      BY <1>6, <2>8, <3>1
    <3>2. CASE i = n
      <4>1. r[i] = z
        BY <2>8, <3>2
      <4>2. CASE w = rest[n].inner
        BY <1>6, <2>6, <3>2, <4>1, <4>2
      <4>3. CASE w = t
        <5>1. /\ o[i] = "high" => t <= UnitTime(c.high, ht, lt)
              /\ o[i] = "low" => t <= UnitTime(c.low, ht, lt)
              /\ o[i] \in Whole => \E u \in Units : t <= dn[u]
          BY <1>1, <2>1, <3>2 DEF Ends, Whole
        <5>. QED  BY <2>6, <3>2, <4>1, <4>3, <5>1
      <4>. QED  BY <2>3, <4>2, <4>3
    <3>. QED  BY <3>1, <3>2
  <2>10. ASSUME NEW i \in 1 .. n - 1
         PROVE  r[i].start <= r[i + 1].start
    <3>1. i \in 1 .. n /\ i + 1 \in 1 .. n
      BY <1>1
    <3>2. r[i].start = rest[i].start /\ r[i + 1].start = rest[i + 1].start
      BY <2>9, <3>1
    <3>. QED  BY <1>5, <1>6, <3>1, <3>2
  <2>11. OpenTo(c, o, r, ht, lt, dn)
    <3>1. \A i \in 1 .. n :
            /\ o[i] # "low" => r[i].start <= ht
            /\ o[i] # "high" => r[i].start <= lt
      BY <1>6, <2>9
    <3>2. Len(o) = n /\ Len(r) = n
      BY <1>1, <2>8
    <3>3. \A i \in 1 .. n - 1 : r[i].start <= r[i + 1].start
      BY <2>10
    <3>4. \A i \in 1 .. n :
            /\ o[i] # "low" => r[i].start <= ht
            /\ o[i] # "high" => r[i].start <= lt
            /\ o[i] = "high" => r[i].inner <= UnitTime(c.high, ht, lt)
            /\ o[i] = "low" => r[i].inner <= UnitTime(c.low, ht, lt)
            /\ o[i] \in Whole => \E u \in Units : r[i].inner <= dn[u]
      BY <2>9, <3>1, Zenon
    <3>. QED  BY <3>2, <3>3, <3>4, Zenon DEF OpenTo
  <2>12. Last(rest).start <= Last(st).start
    <3>1. Last(rest) = rest[n]
      BY <1>5 DEF Last
    <3>2. rest[n].start <= st[n + 1].start
      BY <1>6, <2>1
    <3>. QED  BY <1>5, <3>1, <3>2
  <2>. QED  BY <1>4, <1>5, <2>1, <2>4, <2>8, <2>11, <2>12
<1>. QED  BY <1>7, <1>8
-----------------------------------------------------------------------------
(* The clocks meet at a join.                                              *)

LEMMA MostDone ==
  ASSUME NEW dn \in [Units -> Nat]
  PROVE  /\ Max(Range(dn)) \in Nat /\ \E u \in Units : Max(Range(dn)) = dn[u]
         /\ \A u \in Units : dn[u] <= Max(Range(dn))
<1>1. Range(dn) = {dn["GPU"], dn["LOGIC"], dn["PIM"]}
  BY DEF Range, Units
<1>2. dn["GPU"] \in Nat /\ dn["LOGIC"] \in Nat /\ dn["PIM"] \in Nat
  BY DEF Units
<1>3. /\ Max(Range(dn)) \in Nat /\ Max(Range(dn)) \in {dn["GPU"], dn["LOGIC"], dn["PIM"]}
      /\ dn["GPU"] <= Max(Range(dn)) /\ dn["LOGIC"] <= Max(Range(dn))
      /\ dn["PIM"] <= Max(Range(dn))
  BY <1>1, <1>2, MaxOfThree
<1>. QED  BY <1>3 DEF Units

UnitsApart(c) ==
  \/ c.high = c.low /\ c.high \in {"GPU", "LOGIC"}
  \/ c.high = "GPU" /\ c.low \in {"LOGIC", "PIM"}

LEMMA UnitsAreApart ==
  ASSUME NEW c \in Configs
  PROVE  UnitsApart(c) /\ c.high \in Units /\ c.low \in Units
BY TimeBoardAssumption, ConfigIs DEF UnitsApart

(* The clocks between two entries, and behind a push before its module.    *)
Timed(c, x, dt, ht, lt, ex, dn) ==
  /\ c \in Configs /\ x \in Stages /\ dt \in Nat /\ ht \in Nat /\ lt \in Nat
  /\ dn \in [Units -> Nat] /\ AtStage(c, x, dt, ht, lt, ex, dn)

Ready(c, x, e, y, dt, ht, lt, ex, dn) ==
  /\ c \in Configs /\ x \in Stages /\ e \in Entries /\ y \in Stages
  /\ PushStep(c, x, e, y) /\ dt \in Nat /\ ht \in Nat /\ lt \in Nat
  /\ dn \in [Units -> Nat] /\ Pushed(c, x, e, dt, ht, lt, ex, dn)

(* The latest of the clocks is when the last work is done.                 *)
LEMMA JoinMeets ==
  ASSUME NEW c, NEW x, NEW dt, NEW ht, NEW lt, NEW ex, NEW dn,
         Timed(c, x, dt, ht, lt, ex, dn), ~x.pending
  PROVE  Max({dt, lt, ht}) = Max(Range(dn))
<1>0. /\ c \in Configs /\ x \in Stages /\ dt \in Nat /\ ht \in Nat /\ lt \in Nat
      /\ dn \in [Units -> Nat] /\ AtStage(c, x, dt, ht, lt, ex, dn)
  BY DEF Timed
<1>. USE <1>0
<1>1. PICK m \in Nat, n \in Nat : m = Max({dt, lt, ht}) /\ n = Max(Range(dn))
  BY MaxOfThree, MostDone
<1>2. m \in {dt, lt, ht} /\ dt <= m /\ lt <= m /\ ht <= m
  BY <1>1, MaxOfThree
<1>3. PICK v \in Units : n = dn[v] /\ \A u \in Units : dn[u] <= n
  BY <1>1, MostDone
<1>4. ex = NoExec /\ NoExec.unit = "NONE" /\ NoExec.time = 0
  BY DEF AtStage, NoExec
<1>5. HighDone(ht, ex) = ht /\ LowDone(lt, ex) = lt
  BY <1>4 DEF HighDone, LowDone
<1>6. x.mode \in Modes
  BY DEF Stages
<1>7. CASE x.mode \in {"joined", "serial"}
  <2>1. dn[v] = dt /\ ht <= dt /\ lt <= dt
    BY <1>4, <1>7 DEF AtStage
  <2>. QED  BY <1>1, <1>2, <1>3, <2>1
<1>8. CASE Lone(x)
  <2>1. dt \in {ht, lt} /\ Spread(c, ht, lt, dn)
    BY <1>5, <1>8 DEF AtStage
  <2>2. dn[v] <= ht \/ dn[v] <= lt
    BY <2>1 DEF Spread
  <2>3. n <= m
    BY <1>2, <1>3, <2>2
  <2>4. ht <= n /\ lt <= n
    <3>1. UnitsApart(c) /\ dn[c.high] <= n /\ dn[c.low] <= n /\ dn[c.high] \in Nat /\ dn[c.low] \in Nat
      BY <1>3, UnitsAreApart
    <3>. QED  BY <2>1, <3>1 DEF Spread, UnitTime, UnitsApart
  <2>. QED  BY <1>1, <1>2, <2>1, <2>3, <2>4
<1>. QED  BY <1>6, <1>7, <1>8 DEF Modes, Lone
-----------------------------------------------------------------------------
(* What a push does to the clocks.                                         *)

LEMMA EvenUnits ==
  ASSUME NEW t \in Nat
  PROVE  AllUnits(t) \in [Units -> Nat] /\ \A u \in Units : AllUnits(t)[u] = t
BY DEF AllUnits

(* The stamp around a new one, which starts at a clock.                    *)
LEMMA OuterStarts ==
  ASSUME NEW c, NEW o \in Seq(Marks), o # <<>>, NEW st \in Seq(StampType),
         NEW ht \in Nat, NEW lt \in Nat, NEW dn \in [Units -> Nat],
         OpenTo(c, o, st, ht, lt, dn)
  PROVE  /\ st[Len(o)].start \in Nat /\ st[Len(o)].inner \in Nat
         /\ o[Len(o)] \in Marks
         /\ o[Len(o)] # "low" => st[Len(o)].start <= ht
         /\ o[Len(o)] # "high" => st[Len(o)].start <= lt
<1>1. Len(o) \in 1 .. Len(o) /\ Len(st) = Len(o)
  <2>1. Len(o) \in Nat /\ Len(o) # 0
    BY LenProperties, EmptySeq
  <2>. QED  BY <2>1 DEF OpenTo
<1>2. st[Len(o)] \in StampType /\ o[Len(o)] \in Marks
  BY <1>1, ElementOfSeq
<1>3. st[Len(o)].start \in Nat /\ st[Len(o)].inner \in Nat
  BY <1>2 DEF StampType
<1>. QED  BY <1>1, <1>2, <1>3 DEF OpenTo

Clocked(c, x, dt, ht, lt, ex, dn, st) ==
  /\ Timed(c, x, dt, ht, lt, ex, dn)
  /\ st \in Seq(StampType) /\ OpenTo(c, x.open, st, ht, lt, dn)

ReadyTo(c, x, e, y, dt, ht, lt, ex, dn, st) ==
  /\ Ready(c, x, e, y, dt, ht, lt, ex, dn)
  /\ st \in Seq(StampType) /\ OpenTo(c, Append(x.open, e.mark), st, ht, lt, dn)

Pushing(c, x, e, y) == e \in Entries /\ y \in Stages /\ PushStep(c, x, e, y)

LEMMA PushWhole ==
  ASSUME NEW c, NEW x, NEW e, NEW y, NEW dt, NEW ht, NEW lt, NEW ex, NEW dn, NEW st,
         Clocked(c, x, dt, ht, lt, ex, dn, st), Pushing(c, x, e, y), e.mark \in Whole,
         NEW m, m = Max({dt, lt, ht})
  PROVE  ReadyTo(c, x, e, y, m, m, m, ex, AllUnits(Max(Range(dn))),
                 Append(st, [start |-> m, inner |-> 0]))
<1>. DEFINE q == Append(st, [start |-> m, inner |-> 0])
<1>0. /\ Timed(c, x, dt, ht, lt, ex, dn)
      /\ c \in Configs /\ x \in Stages /\ dt \in Nat /\ ht \in Nat /\ lt \in Nat
      /\ dn \in [Units -> Nat] /\ st \in Seq(StampType)
      /\ AtStage(c, x, dt, ht, lt, ex, dn) /\ OpenTo(c, x.open, st, ht, lt, dn)
      /\ e \in Entries /\ y \in Stages /\ PushStep(c, x, e, y) /\ ~x.pending
  BY DEF Clocked, Timed, Pushing, PushStep
<1>. USE <1>0
<1>1. m \in Nat /\ ht <= m /\ lt <= m /\ dt <= m
  BY MaxOfThree
<1>2. Max(Range(dn)) = m
  <2>1. Max({dt, lt, ht}) = Max(Range(dn))
    BY ONLY <1>0, JoinMeets
  <2>. QED  BY <2>1
<1>3. PICK dn2 : dn2 = AllUnits(m)
  OBVIOUS
<1>4. dn2 \in [Units -> Nat] /\ \A u \in Units : dn2[u] = m
  BY <1>1, <1>3, EvenUnits
<1>5. \A u \in Units : dn[u] <= dn2[u]
  BY <1>2, <1>4, MostDone
<1>6. x.open \in Seq(Marks) /\ e.mark \in Marks
  BY DEF Stages, Whole, Marks
<1>7. OpenTo(c, x.open, st, m, m, dn2)
  BY <1>1, <1>4, <1>5, <1>6, OpenGrows
<1>8. ASSUME x.open # <<>>
      PROVE  st[Len(x.open)].start <= m
  <2>1. /\ x.open[Len(x.open)] # "low" => st[Len(x.open)].start <= m
        /\ x.open[Len(x.open)] # "high" => st[Len(x.open)].start <= m
    BY <1>1, <1>4, <1>6, <1>7, <1>8, OuterStarts
  <2>. QED  BY <2>1
<1>9. q \in Seq(StampType) /\ OpenTo(c, Append(x.open, e.mark), q, m, m, dn2)
  <2>1. m <= m
    BY <1>1
  <2>. QED  BY <1>1, <1>4, <1>6, <1>7, <1>8, <2>1, OpenPush
<1>10. Pushed(c, x, e, m, m, m, ex, dn2)
  <2>1. ex = NoExec
    BY DEF AtStage
  <2>2. e.mark # "high" /\ e.mark # "low" /\ m <= m
    BY <1>1 DEF Whole
  <2>. QED  BY <1>4, <2>1, <2>2, Zenon DEF Pushed
<1>11. Ready(c, x, e, y, m, m, m, ex, dn2)
  BY <1>1, <1>4, <1>10 DEF Ready
<1>. QED  BY <1>2, <1>3, <1>9, <1>11 DEF ReadyTo

LEMMA PushMarked ==
  ASSUME NEW c, NEW x, NEW e, NEW y, NEW dt, NEW ht, NEW lt, NEW ex, NEW dn, NEW st,
         Clocked(c, x, dt, ht, lt, ex, dn, st), Pushing(c, x, e, y), e.mark \notin Whole,
         NEW s, s = IF e.mark = "high" THEN ht ELSE lt
  PROVE  /\ e.mark \in {"high", "low"}
         /\ ReadyTo(c, x, e, y, s, ht, lt, ex, dn, Append(st, [start |-> s, inner |-> 0]))
<1>. DEFINE q == Append(st, [start |-> s, inner |-> 0])
<1>0. /\ c \in Configs /\ x \in Stages /\ dt \in Nat /\ ht \in Nat /\ lt \in Nat
      /\ dn \in [Units -> Nat] /\ st \in Seq(StampType)
      /\ AtStage(c, x, dt, ht, lt, ex, dn) /\ OpenTo(c, x.open, st, ht, lt, dn)
      /\ e \in Entries /\ y \in Stages /\ PushStep(c, x, e, y) /\ ~x.pending
  BY DEF Clocked, Timed, Pushing, PushStep
<1>0a. /\ e.mark \in {"high", "low"} /\ x.mode # "serial"
       /\ Under(x.open, Whole \cup {e.mark})
  BY <1>0 DEF PushStep, WholePush, HighPush, LowPush
<1>. USE <1>0, <1>0a
<1>1. s \in Nat /\ (e.mark = "high" => s = ht) /\ (e.mark = "low" => s = lt)
  OBVIOUS
<1>2. x.open \in Seq(Marks) /\ e.mark \in Marks /\ x.mode \in Modes
  BY DEF Stages, Marks
<1>3. ASSUME x.open # <<>>
      PROVE  st[Len(x.open)].start <= s
  <2>1. x.open[Len(x.open)] \in Whole \cup {e.mark}
    BY <1>3 DEF Under
  <2>2. /\ x.open[Len(x.open)] # "low" => st[Len(x.open)].start <= ht
        /\ x.open[Len(x.open)] # "high" => st[Len(x.open)].start <= lt
    BY <1>2, <1>3, OuterStarts
  <2>. QED  BY <1>1, <2>1, <2>2 DEF Whole
<1>4. q \in Seq(StampType) /\ OpenTo(c, Append(x.open, e.mark), q, ht, lt, dn)
  <2>1. (e.mark # "low" => s <= ht) /\ (e.mark # "high" => s <= lt)
    BY <1>1
  <2>. QED  BY <1>1, <1>2, <1>3, <2>1, OpenPush
<1>5. ex = NoExec /\ HighDone(ht, ex) = ht /\ LowDone(lt, ex) = lt
  <2>1. ex = NoExec
    BY DEF AtStage
  <2>. QED  BY <2>1 DEF HighDone, LowDone, NoExec
<1>6. Spread(c, ht, lt, dn)
  <2>1. CASE x.mode = "joined"
    <3>1. dt = ht /\ dt = lt /\ \A u \in Units : dn[u] = dt
      BY <2>1 DEF AtStage
    <3>. QED  BY <3>1, UnitsAreApart DEF Spread, UnitTime
  <2>2. CASE x.mode # "joined"
    <3>1. Lone(x)
      BY <1>2, <2>2 DEF Modes, Lone
    <3>. QED  BY <1>5, <3>1 DEF AtStage
  <2>. QED  BY <2>1, <2>2
<1>7. Even(x) => LowBehind(c, ht, lt)
  <2>1. CASE x.mode = "joined"
    <3>1. dt = ht /\ dt = lt
      BY <2>1 DEF AtStage
    <3>. QED  BY <3>1 DEF LowBehind, UnitTime
  <2>2. CASE x.mode = "ahead"
    BY <1>5, <2>2 DEF AtStage
  <2>. QED  BY <2>1, <2>2 DEF Even
<1>8. Pushed(c, x, e, s, ht, lt, ex, dn)
  BY <1>1, <1>5, <1>6, <1>7 DEF Pushed, Whole
<1>9. Ready(c, x, e, y, s, ht, lt, ex, dn)
  BY <1>1, <1>8 DEF Ready
<1>. QED  BY <1>4, <1>9 DEF ReadyTo
-----------------------------------------------------------------------------
(* What the module of a push does to the clocks.                           *)

LEMMA TimeAdded ==
  ASSUME NEW dn \in [Units -> Nat], NEW u \in Units, NEW d \in Nat
  PROVE  /\ [dn EXCEPT ![u] = @ + d] \in [Units -> Nat]
         /\ [dn EXCEPT ![u] = @ + d][u] = dn[u] + d
         /\ \A v \in Units : v # u => [dn EXCEPT ![u] = @ + d][v] = dn[v]
         /\ \A v \in Units : dn[v] <= [dn EXCEPT ![u] = @ + d][v]
<1>1. PICK e : e = [dn EXCEPT ![u] = @ + d]
  OBVIOUS
<1>2. e \in [Units -> Nat] /\ e[u] = dn[u] + d
  BY <1>1
<1>3. \A v \in Units : v # u => e[v] = dn[v]
  BY <1>1
<1>4. ASSUME NEW v \in Units
      PROVE  dn[v] <= e[v]
  <2>1. dn[v] \in Nat /\ dn[u] \in Nat
    OBVIOUS
  <2>. QED  BY <1>2, <1>3, <2>1
<1>. QED  BY <1>1, <1>2, <1>3, <1>4, Zenon

(* The credited clocks of a unit that gets an execution.                   *)
LEMMA SpreadAdds ==
  ASSUME NEW c \in Configs, NEW u \in {c.high, c.low}, NEW d \in Nat,
         NEW ht \in Nat, NEW lt \in Nat, NEW dn \in [Units -> Nat], Spread(c, ht, lt, dn)
  PROVE  LET ex == [unit |-> u, time |-> d]
         IN  /\ Spread(c, HighDone(ht, ex), LowDone(lt, ex), [dn EXCEPT ![u] = @ + d])
             /\ u = c.high /\ LowBehind(c, ht, lt)
                  => LowBehind(c, HighDone(ht, ex), LowDone(lt, ex))
<1>. DEFINE ex == [unit |-> u, time |-> d]
<1>1. UnitsApart(c) /\ c.high \in Units /\ c.low \in Units /\ u \in Units
  BY UnitsAreApart
<1>2. PICK dn2 : dn2 = [dn EXCEPT ![u] = @ + d]
  OBVIOUS
<1>3. /\ dn2 \in [Units -> Nat] /\ dn2[u] = dn[u] + d
      /\ \A v \in Units : v # u => dn2[v] = dn[v]
  BY <1>1, <1>2, TimeAdded, Zenon
<1>4. PICK h, l : h = HighDone(ht, ex) /\ l = LowDone(lt, ex)
  OBVIOUS
<1>5. /\ h = ht + (IF u = "GPU" THEN d ELSE 0)
      /\ l = lt + (IF u \in {"LOGIC", "PIM"} THEN d ELSE 0)
  BY <1>4 DEF HighDone, LowDone
<1>6. /\ u = "GPU" => h = ht + d /\ l = lt
      /\ u # "GPU" => h = ht /\ l = lt + d
  BY <1>1, <1>5 DEF Units
<1>7. h \in Nat /\ l \in Nat /\ ht <= h /\ lt <= l
  BY <1>1, <1>6
<1>8. /\ dn[c.high] = UnitTime(c.high, ht, lt) /\ dn[c.low] = UnitTime(c.low, ht, lt)
      /\ \A v \in Units : dn[v] <= ht \/ dn[v] <= lt
      /\ c.high = c.low => UnitTime(c.high, lt, ht) <= UnitTime(c.high, ht, lt)
  BY DEF Spread
<1>9. dn2[c.high] = UnitTime(c.high, h, l) /\ dn2[c.low] = UnitTime(c.low, h, l)
  BY <1>1, <1>3, <1>6, <1>8 DEF UnitTime, UnitsApart
<1>10. ASSUME NEW v \in Units
       PROVE  dn2[v] <= h \/ dn2[v] <= l
  <2>1. CASE v = u
    BY <1>1, <1>7, <1>9, <2>1 DEF UnitTime
  <2>2. CASE v # u
    <3>1. dn2[v] = dn[v] /\ dn[v] \in Nat
      BY <1>3, <2>2
    <3>. QED  BY <1>7, <1>8, <3>1
  <2>. QED  BY <2>1, <2>2
<1>11. c.high = c.low => UnitTime(c.high, l, h) <= UnitTime(c.high, h, l)
  BY <1>1, <1>6, <1>7, <1>8 DEF UnitTime, UnitsApart
<1>12. u = c.high /\ LowBehind(c, ht, lt) => LowBehind(c, h, l)
  BY <1>1, <1>6, <1>7 DEF LowBehind, UnitTime, UnitsApart
<1>13. Spread(c, h, l, dn2)
  BY <1>9, <1>10, <1>11 DEF Spread
<1>. QED  BY <1>2, <1>4, <1>12, <1>13

LEMMA NothingRuns ==
  ASSUME NEW c, NEW x, NEW e, NEW y, NEW dt, NEW ht, NEW lt, NEW ex, NEW dn,
         Ready(c, x, e, y, dt, ht, lt, ex, dn), e.does.kind = "none"
  PROVE  AtStage(c, y, dt, ht, lt, ex, dn)
<1>0. /\ c \in Configs /\ x \in Stages /\ e \in Entries /\ y \in Stages
      /\ PushStep(c, x, e, y) /\ dt \in Nat /\ ht \in Nat /\ lt \in Nat
      /\ dn \in [Units -> Nat] /\ Pushed(c, x, e, dt, ht, lt, ex, dn)
  BY DEF Ready
<1>. USE <1>0
<1>1. ex = NoExec /\ NoExec.time = 0 /\ HighDone(ht, ex) = ht /\ LowDone(lt, ex) = lt
  <2>1. ex = NoExec
    BY DEF Pushed
  <2>. QED  BY <2>1 DEF HighDone, LowDone, NoExec
<1>2. \A S : Execute(S).kind # "none"
  BY DEF Execute
<1>3. CASE WholePush(e, y)
  <2>1. e.mark \in Whole /\ ~y.pending
        /\ (y.mode = "serial" \/ (y.mode = "joined" /\ ~e.sync))
    BY <1>3 DEF WholePush
  <2>2. ht <= dt /\ lt <= dt /\ (\A u \in Units : dn[u] = dt) /\ (~e.sync => dt = ht /\ dt = lt)
    BY <2>1 DEF Pushed
  <2>3. \A u \in Units : dn[u] = dt + ex.time
    BY <1>1, <2>2
  <2>. QED  BY <1>1, <2>1, <2>2, <2>3 DEF AtStage, Lone
<1>4. CASE HighPush(c, x, e, y) \/ LowPush(c, x, e, y)
  <2>1. e.mark \in {"high", "low"} /\ y.mode = "two" /\ ~y.pending
    BY <1>2, <1>4 DEF HighPush, LowPush
  <2>2. dt \in {ht, lt} /\ Spread(c, ht, lt, dn)
    BY <2>1 DEF Pushed
  <2>. QED  BY <1>1, <2>1, <2>2 DEF AtStage
<1>. QED  BY <1>3, <1>4 DEF PushStep

LEMMA ExecutesWhole ==
  ASSUME NEW c, NEW x, NEW e, NEW y, NEW dt, NEW ht, NEW lt, NEW ex, NEW dn,
         Ready(c, x, e, y, dt, ht, lt, ex, dn), e.does.kind = "execute", e.mark \in Whole,
         NEW u \in Units, NEW d \in Nat
  PROVE  LET dn2 == AllUnits(dn[u] + d)
         IN  /\ dn2 \in [Units -> Nat] /\ \A v \in Units : dn[v] <= dn2[v]
             /\ AtStage(c, y, dt, ht, lt, [unit |-> u, time |-> d], dn2)
<1>0. /\ c \in Configs /\ x \in Stages /\ e \in Entries /\ y \in Stages
      /\ PushStep(c, x, e, y) /\ dt \in Nat /\ ht \in Nat /\ lt \in Nat
      /\ dn \in [Units -> Nat] /\ Pushed(c, x, e, dt, ht, lt, ex, dn)
  BY DEF Ready
<1>. USE <1>0
<1>1. PICK z, n : z = [unit |-> u, time |-> d] /\ n = dn[u] + d
  OBVIOUS
<1>2. z.unit = u /\ z.time = d /\ z \in [unit : Units, time : Nat] /\ n \in Nat
  BY <1>1
<1>3. WholePush(e, y)
  BY DEF PushStep, HighPush, LowPush, Whole
<1>4. y.mode = "serial" /\ y.pending /\ ~e.sync
  BY <1>3 DEF WholePush
<1>5. dt = ht /\ dt = lt /\ \A v \in Units : dn[v] = dt
  BY <1>4 DEF Pushed
<1>6. n = dt + d
  BY <1>1, <1>5
<1>7. PICK dn2 : dn2 = AllUnits(n)
  OBVIOUS
<1>8. dn2 \in [Units -> Nat] /\ \A v \in Units : dn2[v] = n
  BY <1>2, <1>7, EvenUnits
<1>9. \A v \in Units : dn[v] <= dn2[v]
  BY <1>5, <1>6, <1>8
<1>10. AtStage(c, y, dt, ht, lt, z, dn2)
  <2>1. \A v \in Units : dn2[v] = dt + z.time
    BY <1>2, <1>6, <1>8
  <2>2. ht <= dt /\ lt <= dt
    BY <1>5
  <2>. QED  BY <1>2, <1>4, <1>5, <2>1, <2>2 DEF AtStage, Lone
<1>. QED  BY <1>1, <1>7, <1>8, <1>9, <1>10

LEMMA ExecutesMarked ==
  ASSUME NEW c, NEW x, NEW e, NEW y, NEW dt, NEW ht, NEW lt, NEW ex, NEW dn,
         Ready(c, x, e, y, dt, ht, lt, ex, dn), e.does.kind = "execute", e.mark \notin Whole,
         NEW u \in e.does.units, NEW d \in Nat
  PROVE  AtStage(c, y, dt, ht, lt, [unit |-> u, time |-> d], [dn EXCEPT ![u] = @ + d])
<1>0. /\ c \in Configs /\ x \in Stages /\ e \in Entries /\ y \in Stages
      /\ PushStep(c, x, e, y) /\ dt \in Nat /\ ht \in Nat /\ lt \in Nat
      /\ dn \in [Units -> Nat] /\ Pushed(c, x, e, dt, ht, lt, ex, dn)
  BY DEF Ready
<1>. USE <1>0
<1>1. PICK z, dn2 : z = [unit |-> u, time |-> d] /\ dn2 = [dn EXCEPT ![u] = @ + d]
  OBVIOUS
<1>2. /\ None.kind # "execute"
      /\ \A S : Execute(S).units = S
  BY DEF None, Execute
<1>3. HighPush(c, x, e, y) \/ LowPush(c, x, e, y)
  BY DEF PushStep, WholePush
<1>4. /\ y.pending /\ e.mark \in {"high", "low"}
      /\ \/ u = c.high /\ y.mode = "high"
         \/ u = c.high /\ y.mode = "ahead" /\ Even(x)
         \/ u = c.low /\ y.mode = "low"
  <2>1. CASE HighPush(c, x, e, y)
    BY <1>2, <2>1 DEF HighPush
  <2>2. CASE LowPush(c, x, e, y)
    BY <1>2, <2>2 DEF LowPush
  <2>. QED  BY <1>3, <2>1, <2>2
<1>5. dt \in {ht, lt} /\ Spread(c, ht, lt, dn) /\ (Even(x) => LowBehind(c, ht, lt))
  BY <1>4 DEF Pushed
<1>6. u \in {c.high, c.low} /\ u \in Units
  BY <1>4, UnitsAreApart
<1>7. z.unit = u /\ z.time = d /\ z \in [unit : Units, time : Nat]
  BY <1>1, <1>6
<1>8. /\ Spread(c, HighDone(ht, z), LowDone(lt, z), dn2)
      /\ u = c.high /\ LowBehind(c, ht, lt) => LowBehind(c, HighDone(ht, z), LowDone(lt, z))
  BY <1>1, <1>5, <1>6, SpreadAdds
<1>9. AtStage(c, y, dt, ht, lt, z, dn2)
  BY <1>4, <1>5, <1>7, <1>8 DEF AtStage, Lone
<1>. QED  BY <1>1, <1>9

LEMMA Passes ==
  ASSUME NEW c, NEW x, NEW e, NEW y, NEW dt, NEW ht, NEW lt, NEW ex, NEW dn,
         Ready(c, x, e, y, dt, ht, lt, ex, dn), e.does.kind = "pass", NEW d \in Nat
  PROVE  LET dn2 == AllUnits(Max(Range(dn)) + d)
         IN  /\ dn2 \in [Units -> Nat] /\ \A v \in Units : dn[v] <= dn2[v]
             /\ AtStage(c, y, dt + d, ht, lt, ex, dn2)
<1>0. /\ c \in Configs /\ x \in Stages /\ e \in Entries /\ y \in Stages
      /\ PushStep(c, x, e, y) /\ dt \in Nat /\ ht \in Nat /\ lt \in Nat
      /\ dn \in [Units -> Nat] /\ Pushed(c, x, e, dt, ht, lt, ex, dn)
  BY DEF Ready
<1>. USE <1>0
<1>1. \A S : Execute(S).kind # "pass"
  BY DEF Execute
<1>2. WholePush(e, y)
  BY <1>1 DEF PushStep, HighPush, LowPush
<1>3. y.mode = "serial" /\ ~y.pending /\ e.mark \in Whole
  BY <1>2 DEF WholePush
<1>4. ex = NoExec /\ ht <= dt /\ lt <= dt /\ \A v \in Units : dn[v] = dt
  BY <1>3 DEF Pushed
<1>5. Max(Range(dn)) = dt
  BY <1>4, MostDone
<1>6. PICK dn2 : dn2 = AllUnits(dt + d)
  OBVIOUS
<1>7. dn2 \in [Units -> Nat] /\ \A v \in Units : dn2[v] = dt + d
  <2>1. dt + d \in Nat
    OBVIOUS
  <2>. QED  BY <1>6, <2>1, EvenUnits
<1>8. \A v \in Units : dn[v] <= dn2[v]
  BY <1>4, <1>7
<1>9. AtStage(c, y, dt + d, ht, lt, ex, dn2)
  <2>1. ex.time = 0
    BY <1>4 DEF NoExec
  <2>2. ht <= dt + d /\ lt <= dt + d /\ \A v \in Units : dn2[v] = (dt + d) + ex.time
    BY <1>4, <1>7, <2>1
  <2>. QED  BY <1>3, <1>4, <2>2 DEF AtStage, Lone
<1>. QED  BY <1>5, <1>6, <1>7, <1>8, <1>9

LEMMA Joins ==
  ASSUME NEW c, NEW x, NEW e, NEW y, NEW dt, NEW ht, NEW lt, NEW ex, NEW dn,
         Ready(c, x, e, y, dt, ht, lt, ex, dn), e.does.kind = "join"
  PROVE  /\ dt = ht /\ dt = lt /\ Max({dt, lt, ht}) = dt
         /\ AtStage(c, y, dt, ht, lt, ex, dn)
<1>0. /\ c \in Configs /\ x \in Stages /\ e \in Entries /\ y \in Stages
      /\ PushStep(c, x, e, y) /\ dt \in Nat /\ ht \in Nat /\ lt \in Nat
      /\ dn \in [Units -> Nat] /\ Pushed(c, x, e, dt, ht, lt, ex, dn)
  BY DEF Ready
<1>. USE <1>0
<1>1. \A S : Execute(S).kind # "join"
  BY DEF Execute
<1>2. WholePush(e, y)
  BY <1>1 DEF PushStep, HighPush, LowPush
<1>3. y.mode = "joined" /\ ~y.pending /\ ~e.sync /\ e.mark \in Whole
  BY <1>2 DEF WholePush
<1>4. ex = NoExec /\ dt = ht /\ dt = lt /\ \A v \in Units : dn[v] = dt
  BY <1>3 DEF Pushed
<1>5. Max({dt, lt, ht}) \in {dt, lt, ht}
  BY MaxOfThree
<1>6. AtStage(c, y, dt, ht, lt, ex, dn)
  BY <1>3, <1>4 DEF AtStage, Lone
<1>. QED  BY <1>4, <1>5, <1>6

(* Waiting for the other devices.                                          *)
LEMMA Waits ==
  ASSUME NEW c, NEW x, NEW e, NEW y, NEW dt, NEW ht, NEW lt, NEW ex, NEW dn,
         Ready(c, x, e, y, dt, ht, lt, ex, dn), e.sync, NEW w \in Nat
  PROVE  LET dn2 == AllUnits(Max(Range(dn)) + w)
         IN  /\ dn2 \in [Units -> Nat] /\ \A v \in Units : dn[v] <= dn2[v]
             /\ Pushed(c, x, e, dt + w, ht, lt, ex, dn2)
<1>0. /\ c \in Configs /\ x \in Stages /\ e \in Entries /\ y \in Stages
      /\ PushStep(c, x, e, y) /\ dt \in Nat /\ ht \in Nat /\ lt \in Nat
      /\ dn \in [Units -> Nat] /\ Pushed(c, x, e, dt, ht, lt, ex, dn)
  BY DEF Ready
<1>. USE <1>0
<1>1. e.mark \in Whole
  BY DEF PushStep, WholePush, HighPush, LowPush
<1>2. ex = NoExec /\ ht <= dt /\ lt <= dt /\ \A v \in Units : dn[v] = dt
  BY <1>1 DEF Pushed
<1>3. Max(Range(dn)) = dt
  BY <1>2, MostDone
<1>4. PICK dn2 : dn2 = AllUnits(dt + w)
  OBVIOUS
<1>5. dn2 \in [Units -> Nat] /\ \A v \in Units : dn2[v] = dt + w
  <2>1. dt + w \in Nat
    OBVIOUS
  <2>. QED  BY <1>4, <2>1, EvenUnits
<1>6. \A v \in Units : dn[v] <= dn2[v]
  BY <1>2, <1>5
<1>7. Pushed(c, x, e, dt + w, ht, lt, ex, dn2)
  <2>1. ht <= dt + w /\ lt <= dt + w /\ e.mark # "high" /\ e.mark # "low"
    BY <1>1, <1>2 DEF Whole
  <2>. QED  BY <1>2, <1>5, <2>1 DEF Pushed
<1>. QED  BY <1>3, <1>4, <1>5, <1>6, <1>7
(* With the stamps.                                                        *)
LEMMA ReadyIs ==
  ASSUME NEW c, NEW x, NEW e, NEW y, NEW dt, NEW ht, NEW lt, NEW ex, NEW dn, NEW st,
         ReadyTo(c, x, e, y, dt, ht, lt, ex, dn, st)
  PROVE  /\ Ready(c, x, e, y, dt, ht, lt, ex, dn) /\ c \in Configs /\ y \in Stages
         /\ dt \in Nat /\ ht \in Nat /\ lt \in Nat /\ dn \in [Units -> Nat]
         /\ st \in Seq(StampType) /\ y.open = Append(x.open, e.mark) /\ y.open \in Seq(Marks)
         /\ e.does.units \subseteq Units
         /\ OpenTo(c, y.open, st, ht, lt, dn)
<1>1. /\ Ready(c, x, e, y, dt, ht, lt, ex, dn) /\ c \in Configs /\ y \in Stages
      /\ dt \in Nat /\ ht \in Nat /\ lt \in Nat /\ dn \in [Units -> Nat]
      /\ st \in Seq(StampType) /\ y.open = Append(x.open, e.mark) /\ e \in Entries
      /\ OpenTo(c, Append(x.open, e.mark), st, ht, lt, dn)
  BY DEF ReadyTo, Ready, PushStep
<1>2. y.open \in Seq(Marks) /\ e.does.units \subseteq Units
  <2>1. e.does \in Works
    BY <1>1 DEF Entries
  <2>. QED  BY <1>1, <2>1 DEF Stages, Works
<1>. QED  BY <1>1, <1>2

(* The open stamps stand while more work is done.                          *)
LEMMA MoreDone ==
  ASSUME NEW c, NEW o \in Seq(Marks), NEW st \in Seq(StampType), NEW ht \in Nat, NEW lt \in Nat,
         NEW dn \in [Units -> Nat], NEW dn2 \in [Units -> Nat], \A u \in Units : dn[u] <= dn2[u],
         OpenTo(c, o, st, ht, lt, dn)
  PROVE  OpenTo(c, o, st, ht, lt, dn2)
<1>1. ht <= ht /\ lt <= lt
  OBVIOUS
<1>. QED  BY <1>1, OpenGrows

LEMMA RestsLeft ==
  ASSUME NEW c, NEW x, NEW e, NEW y, NEW dt, NEW ht, NEW lt, NEW ex, NEW dn, NEW st,
         ReadyTo(c, x, e, y, dt, ht, lt, ex, dn, st), e.does.kind = "none"
  PROVE  Clocked(c, y, dt, ht, lt, ex, dn, st)
<1>1. AtStage(c, y, dt, ht, lt, ex, dn)
  BY ReadyIs, NothingRuns
<1>. QED  BY <1>1, ReadyIs DEF Clocked, Timed

LEMMA ExecutesLeft ==
  ASSUME NEW c, NEW x, NEW e, NEW y, NEW dt, NEW ht, NEW lt, NEW ex, NEW dn, NEW st,
         ReadyTo(c, x, e, y, dt, ht, lt, ex, dn, st), e.does.kind = "execute",
         NEW u \in e.does.units, NEW d \in Nat
  PROVE  Clocked(c, y, dt, ht, lt, [unit |-> u, time |-> d],
                 IF e.mark \in Whole THEN AllUnits(dn[u] + d) ELSE [dn EXCEPT ![u] = @ + d], st)
<1>1. PICK z, n : /\ z = [unit |-> u, time |-> d]
                  /\ n = IF e.mark \in Whole THEN AllUnits(dn[u] + d)
                         ELSE [dn EXCEPT ![u] = @ + d]
  OBVIOUS
<1>2. u \in Units /\ dn \in [Units -> Nat] /\ Ready(c, x, e, y, dt, ht, lt, ex, dn)
  BY ReadyIs
<1>3. n \in [Units -> Nat] /\ (\A v \in Units : dn[v] <= n[v]) /\ AtStage(c, y, dt, ht, lt, z, n)
  <2>1. CASE e.mark \in Whole
    <3>1. LET m == AllUnits(dn[u] + d)
          IN  /\ m \in [Units -> Nat] /\ \A v \in Units : dn[v] <= m[v]
              /\ AtStage(c, y, dt, ht, lt, [unit |-> u, time |-> d], m)
      BY <1>2, <2>1, ExecutesWhole
    <3>. QED  BY <1>1, <2>1, <3>1
  <2>2. CASE e.mark \notin Whole
    <3>1. AtStage(c, y, dt, ht, lt, [unit |-> u, time |-> d], [dn EXCEPT ![u] = @ + d])
      BY <1>2, <2>2, ExecutesMarked
    <3>2. /\ [dn EXCEPT ![u] = @ + d] \in [Units -> Nat]
          /\ \A v \in Units : dn[v] <= [dn EXCEPT ![u] = @ + d][v]
      BY <1>2, TimeAdded
    <3>. QED  BY <1>1, <2>2, <3>1, <3>2
  <2>. QED  BY <2>1, <2>2
<1>4. OpenTo(c, y.open, st, ht, lt, n)
  BY <1>3, ReadyIs, MoreDone
<1>5. Clocked(c, y, dt, ht, lt, z, n, st)
  BY <1>3, <1>4, ReadyIs DEF Clocked, Timed
<1>. QED  BY <1>1, <1>5

LEMMA PassesLeft ==
  ASSUME NEW c, NEW x, NEW e, NEW y, NEW dt, NEW ht, NEW lt, NEW ex, NEW dn, NEW st,
         ReadyTo(c, x, e, y, dt, ht, lt, ex, dn, st), e.does.kind = "pass", NEW d \in Nat
  PROVE  Clocked(c, y, dt + d, ht, lt, ex, AllUnits(Max(Range(dn)) + d), st)
<1>1. PICK n : n = AllUnits(Max(Range(dn)) + d)
  OBVIOUS
<1>2. n \in [Units -> Nat] /\ (\A v \in Units : dn[v] <= n[v])
      /\ AtStage(c, y, dt + d, ht, lt, ex, n)
  BY <1>1, ReadyIs, Passes
<1>3. OpenTo(c, y.open, st, ht, lt, n)
  BY <1>2, ReadyIs, MoreDone
<1>4. dt + d \in Nat
  BY ReadyIs
<1>. QED  BY <1>1, <1>2, <1>3, <1>4, ReadyIs DEF Clocked, Timed

LEMMA JoinsLeft ==
  ASSUME NEW c, NEW x, NEW e, NEW y, NEW dt, NEW ht, NEW lt, NEW ex, NEW dn, NEW st,
         ReadyTo(c, x, e, y, dt, ht, lt, ex, dn, st), e.does.kind = "join"
  PROVE  /\ dt = ht /\ dt = lt /\ Max({dt, lt, ht}) = dt
         /\ Clocked(c, y, dt, ht, lt, ex, dn, st)
<1>1. /\ dt = ht /\ dt = lt /\ Max({dt, lt, ht}) = dt
      /\ AtStage(c, y, dt, ht, lt, ex, dn)
  <2>1. Ready(c, x, e, y, dt, ht, lt, ex, dn)
    BY ReadyIs
  <2>. QED  BY ONLY <2>1, e.does.kind = "join", Joins
<1>. QED  BY <1>1, ReadyIs DEF Clocked, Timed

LEMMA WaitsReady ==
  ASSUME NEW c, NEW x, NEW e, NEW y, NEW dt, NEW ht, NEW lt, NEW ex, NEW dn, NEW st,
         ReadyTo(c, x, e, y, dt, ht, lt, ex, dn, st), e.sync, NEW w \in Nat
  PROVE  ReadyTo(c, x, e, y, dt + w, ht, lt, ex, AllUnits(Max(Range(dn)) + w), st)
<1>1. PICK n : n = AllUnits(Max(Range(dn)) + w)
  OBVIOUS
<1>2. n \in [Units -> Nat] /\ (\A v \in Units : dn[v] <= n[v])
      /\ Pushed(c, x, e, dt + w, ht, lt, ex, n)
  BY <1>1, ReadyIs, Waits
<1>3. OpenTo(c, y.open, st, ht, lt, n)
  BY <1>2, ReadyIs, MoreDone
<1>4. dt + w \in Nat
  BY ReadyIs
<1>5. Ready(c, x, e, y, dt + w, ht, lt, ex, n)
  BY <1>2, <1>4, ReadyIs DEF Ready
<1>6. y.open = Append(x.open, e.mark) /\ st \in Seq(StampType)
  BY ReadyIs
<1>7. ReadyTo(c, x, e, y, dt + w, ht, lt, ex, n, st)
  BY <1>3, <1>5, <1>6 DEF ReadyTo
<1>. QED  BY <1>1, <1>7
-----------------------------------------------------------------------------
(* What a pop does to the clocks.                                          *)

PopTo(par, ex, dt, ht, lt, dt2, ht2, lt2) ==
  IF ~par THEN dt2 = dt + ex.time /\ ht2 = ht /\ lt2 = lt
  ELSE /\ ht2 = HighDone(ht, ex) /\ lt2 = LowDone(lt, ex)
       /\ dt2 = IF ex.unit = "NONE" THEN dt ELSE UnitTime(ex.unit, ht2, lt2)

(* What the clock of a pop is, by the mark of the stamp that it closes.    *)
Closing(c, k, o, dt, ht, lt, dn) ==
  \/ /\ k \in Whole /\ Under(o, Whole)
     /\ ht <= dt /\ lt <= dt /\ \A u \in Units : dn[u] = dt
  \/ /\ k = "high" /\ Under(o, Whole \cup {"high"})
     /\ dt = UnitTime(c.high, ht, lt) /\ Spread(c, ht, lt, dn)
  \/ /\ k = "low" /\ Under(o, Whole \cup {"low"})
     /\ dt = UnitTime(c.low, ht, lt) /\ Spread(c, ht, lt, dn)
  \/ /\ k \in {"high", "low"} /\ Under(o, Whole)
     /\ dt = UnitTime(c.high, ht, lt) /\ Spread(c, ht, lt, dn) /\ LowBehind(c, ht, lt)

LEMMA UnitIs ==
  ASSUME NEW c \in Configs, NEW ht \in Nat, NEW lt \in Nat
  PROVE  /\ UnitTime(c.high, ht, lt) \in {ht, lt} /\ UnitTime(c.low, ht, lt) \in {ht, lt}
         /\ UnitTime(c.high, ht, lt) \in Nat /\ UnitTime(c.low, ht, lt) \in Nat
         /\ UnitTime(c.high, lt, ht) \in {ht, lt}
BY DEF UnitTime

(* An execution is added to its clock.                                     *)
LEMMA PopPending ==
  ASSUME NEW c \in Configs, NEW x \in Stages, x.pending, NEW y \in Stages, ~y.pending,
         NEW e, NEW k, PendingPop(x, k, y.open, e, y),
         NEW par, par = (e.mark # "plain"),
         NEW dt \in Nat, NEW ht \in Nat, NEW lt \in Nat, NEW ex,
         NEW dn \in [Units -> Nat], AtStage(c, x, dt, ht, lt, ex, dn),
         NEW dt2, NEW ht2, NEW lt2, PopTo(par, ex, dt, ht, lt, dt2, ht2, lt2)
  PROVE  /\ dt2 \in Nat /\ ht2 \in Nat /\ lt2 \in Nat /\ ht <= ht2 /\ lt <= lt2
         /\ AtStage(c, y, dt2, ht2, lt2, NoExec, dn)
         /\ Closing(c, k, y.open, dt2, ht2, lt2, dn)
<1>1. ex \in [unit : Units, time : Nat]
  BY DEF AtStage
<1>2. ex.unit \in Units /\ ex.time \in Nat /\ ex.unit # "NONE"
  BY <1>1 DEF Units
<1>3. HighDone(ht, ex) \in Nat /\ LowDone(lt, ex) \in Nat
      /\ ht <= HighDone(ht, ex) /\ lt <= LowDone(lt, ex)
  BY <1>2 DEF HighDone, LowDone
<1>4. \A h \in Nat, l \in Nat : HighDone(h, NoExec) = h /\ LowDone(l, NoExec) = l
  BY DEF HighDone, LowDone, NoExec
<1>5. NoExec.time = 0
  BY DEF NoExec
<1>6. CASE x.mode = "serial"
  <2>1. k \in Whole /\ e.mark \in {"plain", "high"} /\ y.mode = "serial" /\ Under(y.open, Whole)
    BY <1>6 DEF PendingPop
  <2>2. dt = ht /\ dt = lt /\ \A u \in Units : dn[u] = dt + ex.time
    BY <1>6 DEF AtStage
  <2>3. dt2 = dt + ex.time /\ ht2 \in Nat /\ lt2 \in Nat
        /\ ht <= ht2 /\ lt <= lt2 /\ ht2 <= dt2 /\ lt2 <= dt2
    <3>1. CASE ~par
      BY <1>2, <2>2, <3>1 DEF PopTo
    <3>2. CASE par
      <4>1. ht2 = HighDone(ht, ex) /\ lt2 = LowDone(lt, ex) /\ dt2 = UnitTime(ex.unit, ht2, lt2)
        BY <1>2, <3>2 DEF PopTo
      <4>2. CASE ex.unit = "GPU"
        <5>1. PICK t \in Nat : t = ex.time
          BY <1>2
        <5>2. ht2 = ht + t /\ lt2 = lt /\ dt2 = ht2
          BY <4>1, <4>2, <5>1 DEF HighDone, LowDone, UnitTime
        <5>3. dt = ht /\ dt = lt
          BY <2>2
        <5>. QED  BY <5>1, <5>2, <5>3
      <4>3. CASE ex.unit # "GPU"
        <5>1. PICK t \in Nat : t = ex.time
          BY <1>2
        <5>2. ht2 = ht /\ lt2 = lt + t /\ dt2 = lt2
          BY <1>2, <4>1, <4>3, <5>1 DEF HighDone, LowDone, UnitTime, Units
        <5>3. dt = ht /\ dt = lt
          BY <2>2
        <5>. QED  BY <5>1, <5>2, <5>3
      <4>. QED  BY <4>2, <4>3
    <3>. QED  BY <3>1, <3>2
  <2>4. dt2 \in Nat /\ \A u \in Units : dn[u] = dt2
    BY <1>2, <2>2, <2>3
  <2>5. AtStage(c, y, dt2, ht2, lt2, NoExec, dn)
    <3>1. \A u \in Units : dn[u] = dt2 + NoExec.time
      BY <1>5, <2>4
    <3>. QED  BY <2>1, <2>3, <3>1 DEF AtStage, Lone
  <2>. QED  BY <2>1, <2>3, <2>4, <2>5 DEF Closing
<1>7. CASE x.mode # "serial"
  <2>1. /\ x.mode \in {"high", "low", "ahead"} /\ y.mode = x.mode /\ par
        /\ x.mode = "high" => k = "high" /\ Under(y.open, Whole \cup {"high"})
        /\ x.mode = "low" => k = "low" /\ Under(y.open, Whole \cup {"low"})
        /\ x.mode = "ahead" => k \in {"high", "low"} /\ Under(y.open, Whole)
    BY <1>7 DEF PendingPop
  <2>2. ht2 = HighDone(ht, ex) /\ lt2 = LowDone(lt, ex) /\ dt2 = UnitTime(ex.unit, ht2, lt2)
    BY <1>2, <2>1 DEF PopTo
  <2>3. ht2 \in Nat /\ lt2 \in Nat /\ ht <= ht2 /\ lt <= lt2 /\ dt2 \in {ht2, lt2}
    BY <1>3, <2>2 DEF UnitTime
  <2>4. /\ Spread(c, ht2, lt2, dn)
        /\ x.mode \in {"high", "ahead"} => ex.unit = c.high
        /\ x.mode = "low" => ex.unit = c.low
        /\ x.mode = "ahead" => LowBehind(c, ht2, lt2)
    BY <2>1, <2>2 DEF AtStage, Lone
  <2>5. AtStage(c, y, dt2, ht2, lt2, NoExec, dn)
    <3>1. HighDone(ht2, NoExec) = ht2 /\ LowDone(lt2, NoExec) = lt2
      BY <1>4, <2>3
    <3>. QED  BY <2>1, <2>2, <2>3, <2>4, <3>1 DEF AtStage
  <2>6. Closing(c, k, y.open, dt2, ht2, lt2, dn)
    BY <2>1, <2>2, <2>4 DEF Closing
  <2>. QED  BY <2>3, <2>5, <2>6
<1>. QED  BY <1>6, <1>7

(* The end of a module around others leaves the clocks.                    *)
LEMMA PopWrap ==
  ASSUME NEW c \in Configs, NEW x \in Stages, ~x.pending, NEW y \in Stages, ~y.pending,
         NEW e, NEW k, WrapPop(x, k, y.open, e, y), NEW par,
         NEW dt \in Nat, NEW ht \in Nat, NEW lt \in Nat, NEW ex,
         NEW dn \in [Units -> Nat], AtStage(c, x, dt, ht, lt, ex, dn),
         NEW dt2, NEW ht2, NEW lt2, PopTo(par, ex, dt, ht, lt, dt2, ht2, lt2)
  PROVE  /\ dt2 \in Nat /\ ht2 \in Nat /\ lt2 \in Nat /\ ht <= ht2 /\ lt <= lt2
         /\ AtStage(c, y, dt2, ht2, lt2, NoExec, dn)
         /\ Closing(c, k, y.open, dt2, ht2, lt2, dn)
<1>1. ex = NoExec /\ NoExec.unit = "NONE" /\ NoExec.time = 0
  BY DEF AtStage, NoExec
<1>2. HighDone(ht, NoExec) = ht /\ LowDone(lt, NoExec) = lt
  BY <1>1 DEF HighDone, LowDone
<1>3. dt2 = dt /\ ht2 = ht /\ lt2 = lt
  BY <1>1, <1>2 DEF PopTo
<1>4. ht <= ht /\ lt <= lt /\ Under(y.open, Whole)
  BY DEF WrapPop
<1>5. CASE x.mode = "joined"
  <2>1. k \in Whole /\ y.mode \in {"joined", "serial", "two"}
    BY <1>5 DEF WrapPop
  <2>2. dt = ht /\ dt = lt /\ \A u \in Units : dn[u] = dt
    BY <1>5 DEF AtStage
  <2>3. Spread(c, ht, lt, dn)
    BY <2>2, UnitsAreApart DEF Spread, UnitTime
  <2>4. AtStage(c, y, dt, ht, lt, NoExec, dn)
    <3>1. \A u \in Units : dn[u] = dt + NoExec.time
      BY <1>1, <2>2
    <3>. QED  BY <1>2, <2>1, <2>2, <2>3, <3>1 DEF AtStage, Lone
  <2>5. Closing(c, k, y.open, dt, ht, lt, dn)
    BY <1>4, <2>1, <2>2 DEF Closing
  <2>. QED  BY <1>3, <1>4, <2>4, <2>5
<1>6. CASE x.mode = "serial"
  <2>1. k \in Whole /\ y.mode = "serial"
    BY <1>6 DEF WrapPop
  <2>2. ht <= dt /\ lt <= dt /\ \A u \in Units : dn[u] = dt + NoExec.time
    BY <1>1, <1>6 DEF AtStage
  <2>3. \A u \in Units : dn[u] = dt
    BY <1>1, <2>2
  <2>4. AtStage(c, y, dt, ht, lt, NoExec, dn)
    BY <2>1, <2>2 DEF AtStage, Lone
  <2>5. Closing(c, k, y.open, dt, ht, lt, dn)
    BY <1>4, <2>1, <2>2, <2>3 DEF Closing
  <2>. QED  BY <1>3, <1>4, <2>4, <2>5
<1>7. CASE x.mode \notin {"joined", "serial"}
  <2>1. /\ x.mode \in {"high", "low"} /\ k = x.mode /\ y.mode = "two"
    BY <1>7 DEF WrapPop
  <2>2. dt \in {ht, lt} /\ Spread(c, ht, lt, dn)
        /\ (x.mode = "high" => dt = UnitTime(c.high, ht, lt))
        /\ (x.mode = "low" => dt = UnitTime(c.low, ht, lt))
    BY <1>1, <1>2, <2>1 DEF AtStage, Lone
  <2>3. AtStage(c, y, dt, ht, lt, NoExec, dn)
    BY <1>2, <2>1, <2>2 DEF AtStage
  <2>4. Closing(c, k, y.open, dt, ht, lt, dn)
    <3>1. \A S : Under(y.open, Whole \cup S)
      BY <1>4 DEF Under
    <3>. QED  BY <2>1, <2>2, <3>1 DEF Closing
  <2>. QED  BY <1>3, <1>4, <2>3, <2>4
<1>. QED  BY <1>5, <1>6, <1>7

(* A stamp closes after its start and after what ended inside it.          *)
LEMMA CloseFits ==
  ASSUME NEW c \in Configs, NEW o \in Seq(Marks), NEW k \in Marks, NEW st \in Seq(StampType),
         NEW ht \in Nat, NEW lt \in Nat, NEW dn \in [Units -> Nat], NEW t \in Nat,
         OpenTo(c, Append(o, k), st, ht, lt, dn), Closing(c, k, o, t, ht, lt, dn)
  PROVE  /\ Last(st).start <= t /\ Last(st).inner <= t
         /\ Ends(c, o, t, ht, lt, dn)
<1>1. PICK n \in Nat : n = Len(o)
  BY LenProperties
<1>2. PICK a : a = Append(o, k)
  OBVIOUS
<1>3. a \in Seq(Marks) /\ Len(a) = n + 1 /\ a[n + 1] = k
  BY <1>1, <1>2, AppendProperties
<1>4. Len(st) = n + 1 /\ n + 1 \in 1 .. n + 1
  BY <1>1, <1>2, <1>3 DEF OpenTo
<1>5. PICK z : z = Last(st)
  OBVIOUS
<1>6. z = st[n + 1] /\ z \in StampType
  BY <1>1, <1>4, <1>5, FrontIs
<1>7. z.start \in Nat /\ z.inner \in Nat
  BY <1>6 DEF StampType
<1>8. /\ k # "low" => z.start <= ht
      /\ k # "high" => z.start <= lt
      /\ k = "high" => z.inner <= UnitTime(c.high, ht, lt)
      /\ k = "low" => z.inner <= UnitTime(c.low, ht, lt)
      /\ k \in Whole => \E u \in Units : z.inner <= dn[u]
  BY <1>2, <1>3, <1>4, <1>6 DEF OpenTo
<1>9. UnitsApart(c) /\ c.high \in Units /\ c.low \in Units
  BY UnitsAreApart
<1>10. ASSUME Spread(c, ht, lt, dn)
       PROVE  /\ dn[c.high] = UnitTime(c.high, ht, lt) /\ dn[c.low] = UnitTime(c.low, ht, lt)
              /\ c.high = c.low => UnitTime(c.high, lt, ht) <= UnitTime(c.high, ht, lt)
  BY <1>10 DEF Spread
<1>11. CASE k \in Whole /\ Under(o, Whole) /\ ht <= t /\ lt <= t /\ \A u \in Units : dn[u] = t
  <2>1. z.start <= ht /\ \E u \in Units : z.inner <= dn[u]
    BY <1>8, <1>11 DEF Whole
  <2>2. z.start <= t /\ z.inner <= t
    BY <1>7, <1>11, <2>1
  <2>3. o # <<>> => o[Len(o)] \in Whole /\ t <= dn[c.high]
    BY <1>9, <1>11 DEF Under
  <2>. QED  BY <1>5, <1>9, <2>2, <2>3 DEF Ends
<1>12. CASE /\ k = "high" /\ Under(o, Whole \cup {"high"})
            /\ t = UnitTime(c.high, ht, lt) /\ Spread(c, ht, lt, dn)
  <2>1. z.start <= ht /\ z.inner <= t
    BY <1>8, <1>12
  <2>2. z.start <= t
    BY <1>7, <1>9, <1>10, <1>12, <2>1 DEF UnitsApart, UnitTime
  <2>3. t <= t /\ t = dn[c.high]
    BY <1>10, <1>12
  <2>4. Ends(c, o, t, ht, lt, dn)
    BY <1>9, <1>12, <2>3 DEF Ends, Under
  <2>. QED  BY <1>5, <2>1, <2>2, <2>4
<1>13. CASE /\ k = "low" /\ Under(o, Whole \cup {"low"})
            /\ t = UnitTime(c.low, ht, lt) /\ Spread(c, ht, lt, dn)
  <2>1. z.start <= lt /\ z.inner <= t
    BY <1>8, <1>13
  <2>2. z.start <= t
    BY <1>7, <1>9, <1>10, <1>13, <2>1 DEF UnitsApart, UnitTime
  <2>3. t <= t /\ t = dn[c.low]
    BY <1>10, <1>13
  <2>4. Ends(c, o, t, ht, lt, dn)
    BY <1>9, <1>13, <2>3 DEF Ends, Under
  <2>. QED  BY <1>5, <2>1, <2>2, <2>4
<1>14. CASE /\ k \in {"high", "low"} /\ Under(o, Whole)
            /\ t = UnitTime(c.high, ht, lt) /\ Spread(c, ht, lt, dn) /\ LowBehind(c, ht, lt)
  <2>1. UnitTime(c.low, ht, lt) <= t
    BY <1>14 DEF LowBehind
  <2>2. z.start <= t
    <3>1. (k = "high" => z.start <= ht) /\ (k = "low" => z.start <= lt)
      BY <1>8
    <3>. QED  BY <1>7, <1>9, <1>10, <1>14, <2>1, <3>1 DEF UnitsApart, UnitTime
  <2>3. z.inner <= t
    <3>1. UnitTime(c.low, ht, lt) \in Nat
      BY UnitIs
    <3>. QED  BY <1>7, <1>8, <1>14, <2>1, <3>1
  <2>4. t <= t /\ t = dn[c.high]
    BY <1>10, <1>14
  <2>5. Ends(c, o, t, ht, lt, dn)
    BY <1>9, <1>14, <2>4 DEF Ends, Under
  <2>. QED  BY <1>5, <2>2, <2>3, <2>5
<1>. QED  BY <1>11, <1>12, <1>13, <1>14, Zenon DEF Closing

(* What is left of the stamps when the last one has been closed at t.      *)
Rest(st, t) ==
  IF Front(st) = <<>> THEN Front(st)
  ELSE [Front(st) EXCEPT ![Len(Front(st))].inner = Max({@, t})]

Popping(x, e, y) == e \in Entries /\ y \in Stages /\ PopStep(x, e, y)

LEMMA Pops ==
  ASSUME NEW c, NEW x, NEW e, NEW y, NEW dt, NEW ht, NEW lt, NEW ex, NEW dn, NEW st,
         Clocked(c, x, dt, ht, lt, ex, dn, st), Popping(x, e, y),
         NEW par \in BOOLEAN, e.mark # "vec" => par = (e.mark # "plain"),
         NEW dt2, NEW ht2, NEW lt2, PopTo(par, ex, dt, ht, lt, dt2, ht2, lt2)
  PROVE  /\ Clocked(c, y, dt2, ht2, lt2, NoExec, dn, Rest(st, dt2))
         /\ (IF Front(st) = <<>> THEN 0 ELSE Last(Front(st)).start) <= Last(st).start
         /\ Last(st).start <= dt2 /\ Last(st).inner <= dt2
<1>0. /\ c \in Configs /\ x \in Stages /\ dt \in Nat /\ ht \in Nat /\ lt \in Nat
      /\ dn \in [Units -> Nat] /\ st \in Seq(StampType)
      /\ AtStage(c, x, dt, ht, lt, ex, dn) /\ OpenTo(c, x.open, st, ht, lt, dn)
      /\ e \in Entries /\ y \in Stages /\ PopStep(x, e, y)
  BY DEF Clocked, Timed, Popping
<1>. USE <1>0
<1>1. PICK k, o : k = x.open[Len(x.open)] /\ o = y.open
  OBVIOUS
<1>2. o \in Seq(Marks) /\ x.open \in Seq(Marks) /\ x.pending \in BOOLEAN /\ ~y.pending
  BY <1>1 DEF PopStep, Stages
<1>3. x.open = Append(o, k)
  BY <1>1 DEF PopStep
<1>4. k \in Marks
  BY <1>1 DEF PopStep, PendingPop, WrapPop, Whole, Marks
<1>5. /\ dt2 \in Nat /\ ht2 \in Nat /\ lt2 \in Nat /\ ht <= ht2 /\ lt <= lt2
      /\ AtStage(c, y, dt2, ht2, lt2, NoExec, dn)
      /\ Closing(c, k, y.open, dt2, ht2, lt2, dn)
  <2>1. CASE x.pending
    <3>1. PendingPop(x, k, y.open, e, y)
      BY <1>1, <2>1 DEF PopStep
    <3>2. e.mark # "vec"
      BY <3>1 DEF PendingPop
    <3>. QED  BY <1>2, <2>1, <3>1, <3>2, PopPending
  <2>2. CASE ~x.pending
    <3>1. WrapPop(x, k, y.open, e, y)
      BY <1>1, <2>2 DEF PopStep
    <3>. QED  BY <1>2, <2>2, <3>1, PopWrap
  <2>. QED  BY <2>1, <2>2
<1>6. OpenTo(c, x.open, st, ht2, lt2, dn)
  <2>1. \A u \in Units : dn[u] <= dn[u]
    OBVIOUS
  <2>. QED  BY <1>2, <1>5, <2>1, OpenGrows
<1>7. /\ Last(st).start <= dt2 /\ Last(st).inner <= dt2
      /\ Ends(c, o, dt2, ht2, lt2, dn)
  BY <1>1, <1>2, <1>3, <1>4, <1>5, <1>6, CloseFits
<1>8. LET rest == Front(st)
          r    == IF rest = <<>> THEN rest
                  ELSE [rest EXCEPT ![Len(rest)].inner = Max({@, dt2})]
      IN  /\ r \in Seq(StampType) /\ OpenTo(c, o, r, ht2, lt2, dn)
          /\ (IF rest = <<>> THEN 0 ELSE Last(rest).start) <= Last(st).start
  BY <1>2, <1>3, <1>4, <1>5, <1>6, <1>7, OpenPop
<1>9. Timed(c, y, dt2, ht2, lt2, NoExec, dn)
  BY <1>5 DEF Timed
<1>. QED  BY <1>1, <1>7, <1>8, <1>9 DEF Clocked, Rest
-----------------------------------------------------------------------------
(* The walk of a graph, and the clocks at the place the device has come to.*)

Fits(h) ==
  IF stamped
  THEN AtPush /\ ReadyTo(config, h[pos - 1], Here, h[pos], device_time, high_time, low_time,
                         exec, done, stamps)
  ELSE Clocked(config, h[pos - 1], device_time, high_time, low_time, exec, done, stamps)

Walked == \E h : Walk(config, Graph, h) /\ h[0] = Begin /\ Fits(h)

BoardInv == TBTypeOK /\ StampsNest /\ Walked

LEMMA HereIs ==
  ASSUME config \in Configs, marks \in RouteMarks(config), pos \in 1 .. Len(Graph) + 1,
         NEW h, Walk(config, Graph, h)
  PROVE  /\ Len(Graph) \in Nat /\ h[pos - 1] \in Stages
         /\ pos <= Len(Graph) =>
              /\ pos \in 1 .. Len(Graph) /\ pos + 1 \in 1 .. Len(Graph) + 1 /\ (pos + 1) - 1 = pos
              /\ Here \in Entries /\ h[pos] \in Stages
              /\ StageStep(config, h[pos - 1], Here, h[pos])
<1>1. PICK g : g = Graph /\ g \in Seq(Entries)
  BY GraphFlow DEF Flow
<1>2. PICK n \in Nat : n = Len(g)
  BY <1>1, LenProperties
<1>3. /\ h \in [0 .. n -> Stages]
      /\ \A i \in 1 .. n : StageStep(config, h[i - 1], g[i], h[i])
  BY <1>1, <1>2, Zenon DEF Walk
<1>4. pos \in 1 .. n + 1
  BY <1>1, <1>2
<1>5. h[pos - 1] \in Stages
  BY <1>3, <1>4
<1>6. ASSUME pos <= n
      PROVE  /\ pos \in 1 .. n /\ pos + 1 \in 1 .. n + 1 /\ (pos + 1) - 1 = pos
             /\ Here \in Entries /\ h[pos] \in Stages
             /\ StageStep(config, h[pos - 1], Here, h[pos])
  <2>1. pos \in 1 .. n /\ pos + 1 \in 1 .. n + 1 /\ (pos + 1) - 1 = pos
    BY <1>4, <1>6
  <2>2. Here = g[pos] /\ g[pos] \in Entries
    BY <1>1, <1>2, <2>1, ElementOfSeq DEF Here
  <2>3. h[pos] \in Stages
    BY <1>3, <2>1
  <2>4. StageStep(config, h[pos - 1], g[pos], h[pos])
    BY <1>3, <2>1
  <2>. QED  BY <2>1, <2>2, <2>3, <2>4
<1>. QED  BY <1>1, <1>2, <1>5, <1>6

Fresh ==
  /\ config \in Configs /\ marks \in RouteMarks(config) /\ StampsNest
  /\ pos = 1 /\ stamped = FALSE /\ device_time = 0 /\ high_time = 0 /\ low_time = 0
  /\ parallel = FALSE /\ exec = NoExec /\ stamps = <<>> /\ done = AllUnits(0)

LEMMA AtStart == Fresh => BoardInv
<1>. SUFFICES ASSUME Fresh
              PROVE  BoardInv
  OBVIOUS
<1>0. /\ config \in Configs /\ marks \in RouteMarks(config) /\ StampsNest
      /\ pos = 1 /\ stamped = FALSE /\ device_time = 0 /\ high_time = 0 /\ low_time = 0
      /\ parallel = FALSE /\ exec = NoExec /\ stamps = <<>> /\ done = AllUnits(0)
  BY DEF Fresh
<1>. USE <1>0
<1>1. PICK h : Walk(config, Graph, h) /\ h[0] = Begin
  BY GraphFlow DEF Flow
<1>2. Len(Graph) \in Nat
  <2>1. Graph \in Seq(Entries)
    BY GraphFlow DEF Flow
  <2>. QED  BY <2>1, LenProperties
<1>3. done \in [Units -> Nat] /\ \A u \in Units : done[u] = 0
  BY EvenUnits
<1>4. TBTypeOK
  <2>1. pos \in 1 .. Len(Graph) + 1
    BY <1>2
  <2>2. exec \in ExecType
    BY DEF ExecType, NoExec
  <2>3. stamps \in Seq([start : Nat, inner : Nat])
    OBVIOUS
  <2>4. {stamped, parallel} \subseteq BOOLEAN
    OBVIOUS
  <2>5. {device_time, high_time, low_time} \subseteq Nat
    OBVIOUS
  <2>. QED  BY <1>3, <2>1, <2>2, <2>3, <2>4, <2>5, Zenon DEF TBTypeOK
<1>5. Begin.mode = "joined" /\ Begin.pending = FALSE /\ Begin.open = <<>>
  BY DEF Begin, Stage
<1>6. AtStage(config, Begin, device_time, high_time, low_time, exec, done)
  BY <1>3, <1>5 DEF AtStage, Lone
<1>7. OpenTo(config, <<>>, stamps, high_time, low_time, done)
  <2>1. Len(<<>>) = 0 /\ \A i \in 1 .. 0 : FALSE
    OBVIOUS
  <2>. QED  BY <2>1 DEF OpenTo
<1>8. pos - 1 = 0
  OBVIOUS
<1>9. Fits(h)
  <2>1. Begin \in Stages /\ stamps \in Seq(StampType)
    BY DEF Begin, Stage, Stages, Modes
  <2>2. Clocked(config, Begin, device_time, high_time, low_time, exec, done, stamps)
    BY <1>3, <1>5, <1>6, <1>7, <2>1 DEF Clocked, Timed
  <2>. QED  BY <1>1, <1>8, <2>2 DEF Fits
<1>. QED  BY <1>1, <1>4, <1>9 DEF BoardInv, Walked

LEMMA BoardInvInit == TBInit => BoardInv
<1>1. ASSUME TBInit
      PROVE  BoardInv
  <2>1. config \in Configs /\ marks \in RouteMarks(config) /\ Start
    BY <1>1 DEF TBInit
  <2>2. StampsNest
    BY <2>1 DEF Start, StampsNest
  <2>. QED  BY <2>1, <2>2, AtStart DEF Start, AllUnits, Fresh
<1>. QED  BY <1>1

(* A place and the stages around it.                                       *)
LEMMA Placed ==
  ASSUME BoardInv
  PROVE  /\ config \in Configs /\ marks \in RouteMarks(config) /\ pos \in 1 .. Len(Graph) + 1
         /\ stamped \in BOOLEAN /\ parallel \in BOOLEAN
         /\ device_time \in Nat /\ high_time \in Nat /\ low_time \in Nat
         /\ exec \in ExecType /\ stamps \in Seq(StampType) /\ done \in [Units -> Nat]
BY DEF BoardInv, TBTypeOK, StampType

LEMMA PushStampKeeps ==
  ASSUME BoardInv, PushStamp
  PROVE  BoardInv'
<1>1. PICK h : Walk(config, Graph, h) /\ h[0] = Begin /\ Fits(h)
  BY DEF BoardInv, Walked
<1>2. PICK x, y, e : x = h[pos - 1] /\ y = h[pos] /\ e = Here
  OBVIOUS
<1>3. AtPush /\ ~stamped /\ pos <= Len(Graph) /\ e.push
  BY <1>2 DEF PushStamp, AtPush
<1>4. Pushing(config, x, e, y)
  <2>1. e \in Entries /\ y \in Stages /\ StageStep(config, x, e, y)
    BY <1>1, <1>2, <1>3, Placed, HereIs
  <2>. QED  BY <1>3, <2>1 DEF Pushing, StageStep, PopStep
<1>5. Clocked(config, x, device_time, high_time, low_time, exec, done, stamps)
  BY <1>1, <1>2, <1>3 DEF Fits
<1>6. /\ SetPushStatus(e.mark)
      /\ stamps' = Append(stamps, [start |-> device_time', inner |-> 0])
      /\ done' = IF e.mark \in Whole THEN AllUnits(Max(Range(done))) ELSE done
      /\ stamped' = TRUE
      /\ UNCHANGED <<config, marks, pos, exec, closed>>
  BY <1>2 DEF PushStamp, Whole
<1>7. /\ parallel' \in BOOLEAN
      /\ ReadyTo(config, x, e, y, device_time', high_time', low_time', exec, done', stamps')
  <2>1. CASE e.mark \in Whole
    <3>1. e.mark # "high" /\ e.mark # "low"
      BY <2>1 DEF Whole
    <3>2. /\ device_time' = Joined /\ high_time' = Joined /\ low_time' = Joined
          /\ parallel' = FALSE
      BY <1>6, <3>1 DEF SetPushStatus
    <3>3. PICK m : m = Max({device_time, low_time, high_time})
      OBVIOUS
    <3>4. device_time' = m /\ high_time' = m /\ low_time' = m
      BY <3>2, <3>3 DEF Joined
    <3>5. done' = AllUnits(Max(Range(done))) /\ stamps' = Append(stamps, [start |-> m, inner |-> 0])
      BY <1>6, <2>1, <3>4
    <3>6. ReadyTo(config, x, e, y, m, m, m, exec, AllUnits(Max(Range(done))),
                  Append(stamps, [start |-> m, inner |-> 0]))
      BY <1>4, <1>5, <2>1, <3>3, PushWhole
    <3>. QED  BY <3>2, <3>4, <3>5, <3>6
  <2>2. CASE e.mark \notin Whole
    <3>1. PICK s : s = IF e.mark = "high" THEN high_time ELSE low_time
      OBVIOUS
    <3>2. /\ e.mark \in {"high", "low"}
          /\ ReadyTo(config, x, e, y, s, high_time, low_time, exec, done,
                     Append(stamps, [start |-> s, inner |-> 0]))
      BY <1>4, <1>5, <2>2, <3>1, PushMarked
    <3>3. /\ device_time' = s /\ high_time' = high_time /\ low_time' = low_time
          /\ parallel' = TRUE
      BY <1>6, <3>1, <3>2 DEF SetPushStatus
    <3>4. done' = done /\ stamps' = Append(stamps, [start |-> s, inner |-> 0])
      BY <1>6, <2>2, <3>3
    <3>. QED  BY <3>2, <3>3, <3>4
  <2>. QED  BY <2>1, <2>2
<1>8. Graph' = Graph /\ Here' = Here
  BY <1>6 DEF Graph, Here
<1>9. TBTypeOK'
  <2>1. /\ device_time' \in Nat /\ high_time' \in Nat /\ low_time' \in Nat
        /\ done' \in [Units -> Nat] /\ stamps' \in Seq(StampType)
    BY <1>7, ReadyIs
  <2>. QED  BY <1>6, <1>7, <1>8, <2>1, Placed DEF TBTypeOK, StampType, RouteMarks
<1>10. StampsNest'
  BY <1>6 DEF BoardInv, StampsNest
<1>11. Fits(h)'
  <2>1. AtPush'
    BY <1>3, <1>6, <1>8 DEF AtPush
  <2>. QED  BY <1>2, <1>6, <1>7, <1>8, <2>1 DEF Fits
<1>12. Walked'
  <2>1. Walk(config, Graph, h)'
    BY <1>1, <1>6, <1>8 DEF Walk
  <2>. QED  BY <1>1, <1>11, <2>1 DEF Walked
<1>. QED  BY <1>9, <1>10, <1>12 DEF BoardInv

LEMMA SetTimeKeeps ==
  ASSUME BoardInv, SetTime
  PROVE  BoardInv'
<1>1. PICK h : Walk(config, Graph, h) /\ h[0] = Begin /\ Fits(h)
  BY DEF BoardInv, Walked
<1>2. PICK x, y, e : x = h[pos - 1] /\ y = h[pos] /\ e = Here
  OBVIOUS
<1>3. /\ AtPush /\ stamped /\ e.sync
      /\ UNCHANGED <<config, marks, pos, stamped, high_time, low_time, parallel, exec, stamps, closed>>
  BY <1>2 DEF SetTime
<1>4. PICK w \in Durations : /\ device_time' = device_time + w
                             /\ done' = AllUnits(Max(Range(done)) + w)
  BY DEF SetTime
<1>5. w \in Nat
  BY TimeBoardAssumption
<1>6. ReadyTo(config, x, e, y, device_time, high_time, low_time, exec, done, stamps)
  BY <1>1, <1>2, <1>3 DEF Fits
<1>7. ReadyTo(config, x, e, y, device_time', high_time', low_time', exec', done', stamps')
  BY <1>3, <1>4, <1>5, <1>6, WaitsReady
<1>8. Graph' = Graph /\ Here' = Here
  BY <1>3 DEF Graph, Here
<1>9. TBTypeOK'
  <2>1. device_time' \in Nat /\ done' \in [Units -> Nat]
    BY <1>7, ReadyIs
  <2>. QED  BY <1>3, <1>8, <2>1, Placed DEF TBTypeOK, StampType, RouteMarks
<1>10. StampsNest'
  BY <1>3 DEF BoardInv, StampsNest
<1>11. Fits(h)'
  <2>1. AtPush'
    BY <1>3, <1>8 DEF AtPush
  <2>. QED  BY <1>2, <1>3, <1>7, <1>8, <2>1 DEF Fits
<1>12. Walked'
  <2>1. Walk(config, Graph, h)'
    BY <1>1, <1>3, <1>8 DEF Walk
  <2>. QED  BY <1>1, <1>11, <2>1 DEF Walked
<1>. QED  BY <1>9, <1>10, <1>12 DEF BoardInv

LEMMA ForwardKeeps ==
  ASSUME BoardInv, Forward
  PROVE  BoardInv'
<1>1. PICK h : Walk(config, Graph, h) /\ h[0] = Begin /\ Fits(h)
  BY DEF BoardInv, Walked
<1>2. PICK x, y, e : x = h[pos - 1] /\ y = h[pos] /\ e = Here
  OBVIOUS
<1>3. /\ AtPush /\ stamped /\ pos <= Len(Graph)
      /\ pos' = pos + 1 /\ stamped' = FALSE
      /\ UNCHANGED <<config, marks, parallel, closed>>
  BY DEF Forward, AtPush
<1>4. ReadyTo(config, x, e, y, device_time, high_time, low_time, exec, done, stamps)
  BY <1>1, <1>2, <1>3 DEF Fits
<1>5. /\ exec' \in ExecType
      /\ Clocked(config, y, device_time', high_time', low_time', exec', done', stamps')
  <2>1. CASE /\ e.does.kind = "none"
             /\ UNCHANGED <<device_time, high_time, low_time, exec, stamps, done>>
    BY <1>4, <2>1, RestsLeft, Placed
  <2>2. CASE /\ e.does.kind = "execute"
             /\ \E u \in e.does.units, d \in Durations :
                  /\ exec' = [unit |-> u, time |-> d]
                  /\ done' = IF e.mark \in {"plain", "vec"} THEN AllUnits(done[u] + d)
                             ELSE [done EXCEPT ![u] = @ + d]
             /\ UNCHANGED <<device_time, high_time, low_time, stamps>>
    <3>1. PICK u \in e.does.units, d \in Durations :
            /\ exec' = [unit |-> u, time |-> d]
            /\ done' = IF e.mark \in Whole THEN AllUnits(done[u] + d)
                       ELSE [done EXCEPT ![u] = @ + d]
      BY <2>2 DEF Whole
    <3>2. d \in Nat /\ u \in Units
      BY <1>4, ReadyIs, TimeBoardAssumption
    <3>3. exec' \in ExecType
      BY <3>1, <3>2 DEF ExecType
    <3>4. Clocked(config, y, device_time, high_time, low_time, [unit |-> u, time |-> d],
                  IF e.mark \in Whole THEN AllUnits(done[u] + d) ELSE [done EXCEPT ![u] = @ + d],
                  stamps)
      BY <1>4, <2>2, <3>2, ExecutesLeft
    <3>. QED  BY <2>2, <3>1, <3>3, <3>4
  <2>3. CASE /\ e.does.kind = "pass"
             /\ \E d \in Durations :
                  /\ device_time' = device_time + d
                  /\ done' = AllUnits(Max(Range(done)) + d)
             /\ UNCHANGED <<high_time, low_time, exec, stamps>>
    <3>1. PICK d \in Nat : /\ device_time' = device_time + d
                           /\ done' = AllUnits(Max(Range(done)) + d)
      BY <2>3, TimeBoardAssumption
    <3>2. Clocked(config, y, device_time + d, high_time, low_time, exec,
                  AllUnits(Max(Range(done)) + d), stamps)
      BY <1>4, <2>3, PassesLeft
    <3>. QED  BY <2>3, <3>1, <3>2, Placed
  <2>4. CASE /\ e.does.kind = "join"
             /\ device_time' = Joined /\ high_time' = Joined /\ low_time' = Joined
             /\ UNCHANGED <<exec, stamps, done>>
    <3>1. /\ device_time = high_time /\ device_time = low_time
          /\ Max({device_time, low_time, high_time}) = device_time
          /\ Clocked(config, y, device_time, high_time, low_time, exec, done, stamps)
      BY <1>4, <2>4, JoinsLeft
    <3>2. device_time' = device_time /\ high_time' = high_time /\ low_time' = low_time
      BY <2>4, <3>1 DEF Joined
    <3>. QED  BY <2>4, <3>1, <3>2, Placed
  <2>. QED  BY <1>2, <2>1, <2>2, <2>3, <2>4 DEF Forward
<1>6. Graph' = Graph
  BY <1>3 DEF Graph
<1>7. pos + 1 \in 1 .. Len(Graph) + 1 /\ (pos + 1) - 1 = pos
  BY <1>1, <1>3, Placed, HereIs
<1>8. TBTypeOK'
  <2>1. /\ device_time' \in Nat /\ high_time' \in Nat /\ low_time' \in Nat
        /\ done' \in [Units -> Nat] /\ stamps' \in Seq(StampType)
    BY <1>5 DEF Clocked, Timed
  <2>. QED  BY <1>3, <1>5, <1>6, <1>7, <2>1, Placed DEF TBTypeOK, StampType, RouteMarks
<1>9. StampsNest'
  BY <1>3 DEF BoardInv, StampsNest
<1>10. Fits(h)'
  BY <1>2, <1>3, <1>5, <1>7 DEF Fits
<1>11. Walked'
  <2>1. Walk(config, Graph, h)'
    BY <1>1, <1>3, <1>6 DEF Walk
  <2>. QED  BY <1>1, <1>10, <2>1 DEF Walked
<1>. QED  BY <1>8, <1>9, <1>11 DEF BoardInv

(* set_pop_status in one formula.                                          *)
LEMMA PopStatus ==
  ASSUME NEW par \in BOOLEAN, SetPopStatus(par), exec \in ExecType,
         high_time \in Nat, low_time \in Nat
  PROVE  PopTo(par, exec, device_time, high_time, low_time, device_time', high_time', low_time')
<1>1. exec.unit \in {"GPU", "LOGIC", "PIM", "NONE"} /\ exec.time \in Nat
  BY DEF ExecType, Units
<1>2. CASE ~par
  BY <1>2 DEF SetPopStatus, PopTo
<1>3. CASE par /\ exec.unit \in {"LOGIC", "PIM"}
  <2>1. low_time' = low_time + exec.time /\ device_time' = low_time' /\ high_time' = high_time
    BY <1>3 DEF SetPopStatus
  <2>. QED  BY <1>1, <1>3, <2>1 DEF PopTo, HighDone, LowDone, UnitTime
<1>4. CASE par /\ exec.unit = "GPU"
  <2>1. high_time' = high_time + exec.time /\ device_time' = high_time' /\ low_time' = low_time
    BY <1>4 DEF SetPopStatus
  <2>. QED  BY <1>1, <1>4, <2>1 DEF PopTo, HighDone, LowDone, UnitTime
<1>5. CASE par /\ exec.unit = "NONE"
  <2>1. UNCHANGED <<device_time, high_time, low_time>>
    BY <1>5 DEF SetPopStatus
  <2>. QED  BY <1>1, <1>5, <2>1 DEF PopTo, HighDone, LowDone, UnitTime
<1>. QED  BY <1>1, <1>2, <1>3, <1>4, <1>5

LEMMA PopStampKeeps ==
  ASSUME BoardInv, PopStamp
  PROVE  BoardInv'
<1>1. PICK h : Walk(config, Graph, h) /\ h[0] = Begin /\ Fits(h)
  BY DEF BoardInv, Walked
<1>2. PICK x, y, e : x = h[pos - 1] /\ y = h[pos] /\ e = Here
  OBVIOUS
<1>3. /\ AtPop /\ ~AtPush /\ pos <= Len(Graph) /\ ~e.push
      /\ pos' = pos + 1
      /\ UNCHANGED <<config, marks, stamped, done>>
  BY <1>2 DEF PopStamp, AtPop, AtPush
<1>4. Popping(x, e, y)
  <2>1. e \in Entries /\ y \in Stages /\ StageStep(config, x, e, y)
    BY <1>1, <1>2, <1>3, Placed, HereIs
  <2>. QED  BY <1>3, <2>1 DEF Popping, StageStep, PushStep
<1>5. ~stamped /\ Clocked(config, x, device_time, high_time, low_time, exec, done, stamps)
  BY <1>1, <1>2, <1>3 DEF Fits
<1>6. /\ parallel' = IF e.mark = "vec" THEN parallel ELSE e.mark # "plain"
      /\ SetPopStatus(parallel')
      /\ exec' = NoExec
  BY <1>2 DEF PopStamp
<1>7. parallel' \in BOOLEAN /\ (e.mark # "vec" => parallel' = (e.mark # "plain"))
  BY <1>6, Placed
<1>8. PopTo(parallel', exec, device_time, high_time, low_time, device_time', high_time', low_time')
  BY <1>6, <1>7, Placed, PopStatus
<1>9. /\ Clocked(config, y, device_time', high_time', low_time', NoExec, done, Rest(stamps, device_time'))
      /\ (IF Front(stamps) = <<>> THEN 0 ELSE Last(Front(stamps)).start) <= Last(stamps).start
      /\ Last(stamps).start <= device_time' /\ Last(stamps).inner <= device_time'
  BY <1>4, <1>5, <1>7, <1>8, Pops
<1>10. /\ closed' = [start |-> Last(stamps).start, end |-> device_time',
                     inner |-> Last(stamps).inner,
                     outer |-> IF Front(stamps) = <<>> THEN 0 ELSE Last(Front(stamps)).start]
       /\ stamps' = Rest(stamps, device_time')
  BY DEF PopStamp, Rest
<1>11. Graph' = Graph
  BY <1>3 DEF Graph
<1>12. pos + 1 \in 1 .. Len(Graph) + 1 /\ (pos + 1) - 1 = pos
  BY <1>1, <1>3, Placed, HereIs
<1>13. TBTypeOK'
  <2>1. /\ device_time' \in Nat /\ high_time' \in Nat /\ low_time' \in Nat
        /\ stamps' \in Seq(StampType)
    BY <1>9, <1>10 DEF Clocked, Timed
  <2>2. exec' \in ExecType
    BY <1>6 DEF ExecType, NoExec
  <2>. QED  BY <1>3, <1>7, <1>11, <1>12, <2>1, <2>2, Placed DEF TBTypeOK, StampType, RouteMarks
<1>14. StampsNest'
  BY <1>9, <1>10 DEF StampsNest
<1>15. Fits(h)'
  BY <1>2, <1>3, <1>5, <1>6, <1>9, <1>10, <1>12 DEF Fits
<1>16. Walked'
  <2>1. Walk(config, Graph, h)'
    BY <1>1, <1>3, <1>11 DEF Walk
  <2>. QED  BY <1>1, <1>15, <2>1 DEF Walked
<1>. QED  BY <1>13, <1>14, <1>16 DEF BoardInv

LEMMA RestartKeeps ==
  ASSUME BoardInv, Restart
  PROVE  BoardInv'
<1>1. StampsNest'
  BY DEF BoardInv, StampsNest, Restart
<1>2. Fresh'
  BY <1>1, Placed DEF Fresh, Restart, RouteMarks, AllUnits
<1>3. Fresh' => BoardInv'
  BY AtStart, PTL
<1>. QED  BY <1>2, <1>3

LEMMA StillKeeps ==
  ASSUME BoardInv, UNCHANGED tbvars
  PROVE  BoardInv'
<1>1. UNCHANGED <<config, marks, pos, stamped, device_time, high_time, low_time, parallel, exec,
                  stamps, closed, done>>
  BY DEF tbvars
<1>2. Graph' = Graph /\ Here' = Here /\ AtPush' = AtPush
  BY <1>1 DEF Graph, Here, AtPush
<1>3. TBTypeOK' /\ StampsNest'
  BY <1>1, <1>2 DEF BoardInv, TBTypeOK, StampsNest, RouteMarks
<1>4. PICK h : Walk(config, Graph, h) /\ h[0] = Begin /\ Fits(h)
  BY DEF BoardInv, Walked
<1>5. Fits(h)'
  BY <1>1, <1>2, <1>4 DEF Fits
<1>6. Walk(config, Graph, h)'
  BY <1>1, <1>2, <1>4 DEF Walk
<1>7. Walked'
  BY <1>4, <1>5, <1>6 DEF Walked
<1>. QED  BY <1>3, <1>7 DEF BoardInv

LEMMA BoardInvHolds == TBSpec => []BoardInv
<1>1. TBInit => BoardInv
  BY BoardInvInit
<1>2. BoardInv /\ [TBNext]_tbvars => BoardInv'
  BY PushStampKeeps, SetTimeKeeps, ForwardKeeps, PopStampKeeps, RestartKeeps, StillKeeps
     DEF TBNext
<1>. QED  BY <1>1, <1>2, PTL DEF TBSpec

(* The clocks, the stamps and the place in the graph keep their types.     *)
THEOREM BoardTypeCorrect == TBSpec => []TBTypeOK
<1>1. BoardInv => TBTypeOK
  BY DEF BoardInv
<1>. QED  BY <1>1, BoardInvHolds, PTL

(* A device has all its work behind it when a module that needs both units *)
(* begins (set_push_status and join of the StatusBoard): the invariant says*)
(* so at the push, where the walk demands that the clocks have met.        *)
THEOREM NoTimeIsLost == TBSpec => []NoTimeLost
<1>1. BoardInv => NoTimeLost
  <2>1. ASSUME BoardInv, stamped, Here.mark \in Whole
        PROVE  device_time = Max(Range(done))
    <3>1. PICK h : Fits(h)
      BY <2>1 DEF BoardInv, Walked
    <3>2. ReadyTo(config, h[pos - 1], Here, h[pos], device_time, high_time, low_time,
                  exec, done, stamps)
      BY <2>1, <3>1 DEF Fits
    <3>3. \A u \in Units : done[u] = device_time
      BY <2>1, <3>2 DEF ReadyTo, Ready, Pushed
    <3>4. \E u \in Units : Max(Range(done)) = done[u]
      BY <2>1, Placed, MostDone
    <3>. QED  BY <3>3, <3>4
  <2>. QED  BY <2>1 DEF NoTimeLost, Whole
<1>. QED  BY <1>1, BoardInvHolds, PTL

(* The stamps that set_stamp opens and closes nest, whichever clock they   *)
(* read.                                                                   *)
THEOREM StampsAlwaysNest == TBSpec => []StampsNest
<1>1. BoardInv => StampsNest
  BY DEF BoardInv
<1>. QED  BY <1>1, BoardInvHolds, PTL
=============================================================================
