----------------------------- MODULE GraphProofs -----------------------------
(***************************************************************************)
(* Theorems about the devices of one iteration, for any number of devices, *)
(* any tensor-parallel degrees and any durations.                          *)
(*                                                                         *)
(* The simulator has no barrier: a sync module looks at the ready flags of *)
(* one tensor.  That it works as a barrier rests on the graph.  Most sync  *)
(* modules take a tensor that only the module just before them sets        *)
(* (Fresh).  The all-reduces of ExpertFFN take a tensor that has been      *)
(* ready for long; they come right after a Sync of all devices in which no *)
(* time passes (Stale), and a device may run ahead into them while another *)
(* still stands at that Sync.                                              *)
(*                                                                         *)
(* The first part shows for any number and kind of layers that the list is *)
(* safe to run so.  It is put together from pieces.  Orderly says of a     *)
(* piece that its syncs wait for what they should and that its readers of  *)
(* the counts come after their writer; two orderly pieces whose tensors do *)
(* not get in each other's way are orderly one behind the other.  The      *)
(* layers then follow by induction.  The second part follows the devices.  *)
(***************************************************************************)
EXTENDS ModuleGraph, SetSums, SequenceTheorems

SyncIn(g, i) == i \in 1 .. Len(g) /\ g[i].sync

(* A sync on a tensor that only the module just before it sets.            *)
FreshIn(g, i) ==
  /\ SyncIn(g, i) /\ i > 1 /\ ~g[i - 1].sync
  /\ g[i].input # g[1].input
  /\ \A j \in 1 .. i - 2 : g[j].output # g[i].input
  /\ \A j \in 1 .. Len(g) : SyncIn(g, j) /\ j # i => g[j].input # g[i].input

FreshForAllIn(g, i) == FreshIn(g, i) /\ g[i].device_list = "all"

(* A sync on a tensor that may have been ready for long, right behind one  *)
(* of all devices in which no time passes.                                 *)
StaleIn(g, i) ==
  SyncIn(g, i) /\ i > 1 /\ FreshForAllIn(g, i - 1) /\ ~g[i - 1].timed

WritesIn(g, i) == i \in 1 .. Len(g) /\ g[i].counts = "written"

(* A reader of the counts comes after the writer of its layer and after a  *)
(* sync of all devices that follows the writer; and before the next writer *)
(* there is such a sync again.                                             *)
ReadsOrderedIn(g, q) ==
  /\ \E w \in 1 .. q - 1 :
       /\ WritesIn(g, w) /\ g[w].layer = g[q].layer
       /\ \A v \in w + 1 .. q : ~WritesIn(g, v)
       /\ \E s \in w + 1 .. q : FreshForAllIn(g, s)
  /\ \A w \in 1 .. Len(g) :
       WritesIn(g, w) /\ w > q => \E s \in q + 1 .. w : FreshForAllIn(g, s)

Orderly(g) ==
  /\ \A i \in 1 .. Len(g) : g[i].layer \in Nat
  /\ \A i \in 1 .. Len(g) :
       SyncIn(g, i) => /\ g[i].device_list \in {"ne_tp", "e_tp", "all"}
                       /\ FreshIn(g, i) \/ StaleIn(g, i)
  /\ \A q \in 1 .. Len(g) : g[q].counts = "read" => ReadsOrderedIn(g, q)

(* Before a piece writes the counts all devices have synced in it.         *)
WritesGuarded(g) ==
  \A w \in 1 .. Len(g) :
    WritesIn(g, w) => \E s \in 1 .. w : FreshForAllIn(g, s)

(* Fresh syncs wait for tensors of F; T has all that are set, waited for   *)
(* or taken in at the front.                                               *)
Within(g, F, T) ==
  /\ \A i \in 1 .. Len(g) : FreshIn(g, i) => g[i].input \in F
  /\ \A i \in 1 .. Len(g) : g[i].output \in T /\ (SyncIn(g, i) => g[i].input \in T)
  /\ Len(g) > 0 => g[1].input \in T
-----------------------------------------------------------------------------
(* One piece behind another.                                               *)

Joins(g, b, h) ==
  /\ Len(g) \in Nat /\ Len(b) \in Nat /\ Len(h) = Len(g) + Len(b)
  /\ \A i \in 1 .. Len(g) : h[i] = g[i]
  /\ \A i \in 1 .. Len(b) : h[Len(g) + i] = b[i]

IsList(g) == \E S : g \in Seq(S)

LEMMA ConcatJoins ==
  ASSUME NEW g, NEW b, IsList(g), IsList(b)
  PROVE  Joins(g, b, g \o b) /\ IsList(g \o b)
<1>0. PICK S1, S2 : g \in Seq(S1) /\ b \in Seq(S2)
  BY DEF IsList
<1>. DEFINE S == S1 \cup S2
<1>1. g \in Seq(S) /\ b \in Seq(S)
  <2>1. Seq(S1) \subseteq Seq(S) /\ Seq(S2) \subseteq Seq(S)
    BY SeqMonotonic
  <2>. QED  BY <1>0, <2>1
<1>. HIDE DEF S
<1>2. /\ g \o b \in Seq(S) /\ Len(g \o b) = Len(g) + Len(b)
      /\ \A i \in 1 .. Len(g) + Len(b) :
           (g \o b)[i] = IF i <= Len(g) THEN g[i] ELSE b[i - Len(g)]
  BY <1>1, ConcatProperties
<1>3. Len(g) \in Nat /\ Len(b) \in Nat
  BY <1>1, LenProperties
<1>4. \A i \in 1 .. Len(g) : (g \o b)[i] = g[i]
  BY <1>2, <1>3
<1>5. ASSUME NEW i \in 1 .. Len(b)
      PROVE  (g \o b)[Len(g) + i] = b[i]
  <2>1. Len(g) + i \in 1 .. Len(g) + Len(b) /\ ~(Len(g) + i <= Len(g))
        /\ (Len(g) + i) - Len(g) = i
    BY <1>3
  <2>. QED  BY <1>2, <2>1
<1>. QED  BY <1>2, <1>3, <1>4, <1>5 DEF Joins, IsList

LEMMA PlaceInJoin ==
  ASSUME NEW g, NEW b, NEW h, Joins(g, b, h), NEW i \in 1 .. Len(h)
  PROVE  \/ i \in 1 .. Len(g)
         \/ /\ i > Len(g) /\ i - Len(g) \in 1 .. Len(b)
            /\ h[i] = b[i - Len(g)]
BY DEF Joins

LEMMA FreshInFront ==
  ASSUME NEW g, NEW b, NEW h, Joins(g, b, h),
         NEW F, NEW T, NEW F2, NEW T2, Within(g, F, T), Within(b, F2, T2),
         F \cap T2 = {}, NEW i \in 1 .. Len(g)
  PROVE  FreshIn(h, i) <=> FreshIn(g, i)
<1>1. /\ i \in Nat /\ Len(g) \in Nat /\ i \in 1 .. Len(h) /\ h[i] = g[i]
      /\ h[1] = g[1] /\ (i > 1 => h[i - 1] = g[i - 1])
      /\ \A j \in 1 .. i - 2 : h[j] = g[j]
      /\ \A j \in 1 .. Len(g) : j \in 1 .. Len(h) /\ h[j] = g[j]
  BY DEF Joins
<1>2. ASSUME FreshIn(h, i)
      PROVE  FreshIn(g, i)
  BY <1>1, <1>2 DEF FreshIn, SyncIn
<1>3. ASSUME FreshIn(g, i)
      PROVE  FreshIn(h, i)
  <2>1. ASSUME NEW j \in 1 .. Len(h), SyncIn(h, j), j # i
        PROVE  h[j].input # h[i].input
    <3>1. CASE j \in 1 .. Len(g)
      BY <1>1, <1>3, <2>1, <3>1 DEF FreshIn, SyncIn
    <3>2. CASE j \notin 1 .. Len(g)
      <4>1. h[j] = b[j - Len(g)] /\ j - Len(g) \in 1 .. Len(b)
        BY <3>2, PlaceInJoin
      <4>2. h[j].input \in T2
        BY <2>1, <4>1 DEF SyncIn, Within
      <4>3. h[i].input \in F
        BY <1>1, <1>3 DEF Within
      <4>. QED  BY <4>2, <4>3
    <3>. QED  BY <3>1, <3>2
  <2>. QED  BY <1>1, <1>3, <2>1 DEF FreshIn, SyncIn
<1>. QED  BY <1>2, <1>3

LEMMA FreshBehind ==
  ASSUME NEW g, NEW b, NEW h, Joins(g, b, h), Len(g) > 0,
         NEW F, NEW T, NEW F2, NEW T2, Within(g, F, T), Within(b, F2, T2),
         F2 \cap T = {}, NEW i \in 1 .. Len(b), FreshIn(b, i)
  PROVE  FreshIn(h, Len(g) + i)
<1>. DEFINE k == Len(g) + i
<1>1. /\ i \in Nat /\ Len(g) \in Nat /\ Len(b) \in Nat /\ i > 1
      /\ k \in 1 .. Len(h) /\ k \in Nat /\ h[k] = b[i] /\ h[1] = g[1]
      /\ h[k - 1] = b[i - 1]
  <2>1. /\ i \in Nat /\ Len(g) \in Nat /\ Len(b) \in Nat /\ i > 1
        /\ k \in 1 .. Len(h) /\ k \in Nat /\ h[k] = b[i] /\ h[1] = g[1]
    BY DEF Joins, FreshIn
  <2>2. k - 1 = Len(g) + (i - 1) /\ i - 1 \in 1 .. Len(b)
    BY <2>1
  <2>. QED  BY <2>1, <2>2 DEF Joins
<1>2. h[k].input \in F2 /\ h[1].input \in T
  BY <1>1 DEF Within
<1>3. SyncIn(h, k) /\ k > 1 /\ ~h[k - 1].sync /\ h[k].input # h[1].input
  BY <1>1, <1>2 DEF FreshIn, SyncIn
<1>4. ASSUME NEW j \in 1 .. k - 2
      PROVE  h[j].output # h[k].input
  <2>1. CASE j \in 1 .. Len(g)
    <3>1. h[j].output \in T
      BY <2>1 DEF Joins, Within
    <3>. QED  BY <1>2, <3>1
  <2>2. CASE j \notin 1 .. Len(g)
    <3>1. j - Len(g) \in 1 .. i - 2 /\ h[j] = b[j - Len(g)]
      <4>1. j \in 1 .. Len(h)
        BY <1>1, <1>4
      <4>2. j - Len(g) \in 1 .. Len(b) /\ h[j] = b[j - Len(g)]
        BY <2>2, <4>1, PlaceInJoin
      <4>. QED  BY <1>1, <1>4, <4>2
    <3>. QED  BY <1>1, <3>1 DEF FreshIn
  <2>. QED  BY <2>1, <2>2
<1>5. ASSUME NEW j \in 1 .. Len(h), SyncIn(h, j), j # k
      PROVE  h[j].input # h[k].input
  <2>1. CASE j \in 1 .. Len(g)
    <3>1. h[j] = g[j] /\ SyncIn(g, j)
      BY <1>5, <2>1 DEF Joins, SyncIn
    <3>2. h[j].input \in T
      BY <2>1, <3>1 DEF Within
    <3>. QED  BY <1>2, <3>2
  <2>2. CASE j \notin 1 .. Len(g)
    <3>1. j - Len(g) \in 1 .. Len(b) /\ h[j] = b[j - Len(g)] /\ j - Len(g) # i
      <4>1. j - Len(g) \in 1 .. Len(b) /\ h[j] = b[j - Len(g)]
        BY <2>2, PlaceInJoin
      <4>. QED  BY <1>1, <1>5, <4>1
    <3>2. SyncIn(b, j - Len(g))
      BY <1>5, <3>1 DEF SyncIn
    <3>3. b[j - Len(g)].input # b[i].input
      BY <3>1, <3>2 DEF FreshIn
    <3>. QED  BY <1>1, <3>1, <3>3
  <2>. QED  BY <2>1, <2>2
<1>. QED  BY <1>3, <1>4, <1>5 DEF FreshIn

(* Two orderly pieces, the second of which guards its writes, are orderly  *)
(* one behind the other.                                                   *)
LEMMA Join ==
  ASSUME NEW g, NEW b, NEW h, Joins(g, b, h), Len(g) > 0,
         NEW F, NEW T, NEW F2, NEW T2, Within(g, F, T), Within(b, F2, T2),
         F \cap T2 = {}, F2 \cap T = {},
         Orderly(g), Orderly(b), WritesGuarded(b)
  PROVE  /\ Orderly(h) /\ Within(h, F \cup F2, T \cup T2)
         /\ WritesGuarded(g) => WritesGuarded(h)
<1>1. /\ Len(g) \in Nat /\ Len(b) \in Nat /\ Len(h) = Len(g) + Len(b)
      /\ \A i \in 1 .. Len(g) : i \in 1 .. Len(h) /\ h[i] = g[i]
      /\ \A i \in 1 .. Len(b) : Len(g) + i \in 1 .. Len(h) /\ h[Len(g) + i] = b[i]
  BY DEF Joins
<1>2. \A i \in 1 .. Len(g) : /\ FreshIn(h, i) <=> FreshIn(g, i)
                             /\ FreshForAllIn(h, i) <=> FreshForAllIn(g, i)
  BY <1>1, FreshInFront DEF FreshForAllIn
<1>3. \A i \in 1 .. Len(b) : /\ FreshIn(b, i) => FreshIn(h, Len(g) + i)
                             /\ FreshForAllIn(b, i) => FreshForAllIn(h, Len(g) + i)
  BY <1>1, FreshBehind DEF FreshForAllIn
<1>4. \A i \in 1 .. Len(g) : /\ SyncIn(h, i) <=> SyncIn(g, i)
                             /\ WritesIn(h, i) <=> WritesIn(g, i)
  BY <1>1 DEF SyncIn, WritesIn
<1>5. \A i \in 1 .. Len(b) : /\ SyncIn(h, Len(g) + i) <=> SyncIn(b, i)
                             /\ WritesIn(h, Len(g) + i) <=> WritesIn(b, i)
  BY <1>1 DEF SyncIn, WritesIn
<1>6. ASSUME NEW i \in 1 .. Len(g), StaleIn(g, i)
      PROVE  StaleIn(h, i)
  <2>1. i - 1 \in 1 .. Len(g)
    BY <1>1, <1>6 DEF StaleIn
  <2>. QED  BY <1>1, <1>2, <1>4, <1>6, <2>1 DEF StaleIn
<1>7. ASSUME NEW i \in 1 .. Len(b), StaleIn(b, i)
      PROVE  StaleIn(h, Len(g) + i)
  <2>1. i - 1 \in 1 .. Len(b) /\ (Len(g) + i) - 1 = Len(g) + (i - 1) /\ Len(g) + i > 1
    BY <1>1, <1>7 DEF StaleIn
  <2>. QED  BY <1>1, <1>3, <1>5, <1>7, <2>1 DEF StaleIn
<1>8. ASSUME NEW i \in 1 .. Len(h), i \notin 1 .. Len(g)
      PROVE  \E k \in 1 .. Len(b) : i = Len(g) + k
  <2>1. i - Len(g) \in 1 .. Len(b) /\ i = Len(g) + (i - Len(g))
    BY <1>1, <1>8
  <2>. QED  BY <2>1
<1>9. ASSUME NEW i \in 1 .. Len(h)
      PROVE  h[i].layer \in Nat
  BY <1>1, <1>8, <1>9 DEF Orderly
<1>10. ASSUME NEW i \in 1 .. Len(h), SyncIn(h, i)
       PROVE  /\ h[i].device_list \in {"ne_tp", "e_tp", "all"}
              /\ FreshIn(h, i) \/ StaleIn(h, i)
  <2>1. CASE i \in 1 .. Len(g)
    BY <1>1, <1>2, <1>4, <1>6, <1>10, <2>1 DEF Orderly
  <2>2. CASE i \notin 1 .. Len(g)
    <3>1. PICK k \in 1 .. Len(b) : i = Len(g) + k
      BY <1>8, <2>2
    <3>. QED  BY <1>1, <1>3, <1>5, <1>7, <1>10, <3>1 DEF Orderly
  <2>. QED  BY <2>1, <2>2
<1>11. ASSUME WritesGuarded(g)
       PROVE  WritesGuarded(h)
  <2>1. SUFFICES ASSUME NEW w \in 1 .. Len(h), WritesIn(h, w)
                 PROVE  \E s \in 1 .. w : FreshForAllIn(h, s)
    BY DEF WritesGuarded
  <2>2. CASE w \in 1 .. Len(g)
    <3>1. PICK s \in 1 .. w : FreshForAllIn(g, s)
      BY <1>4, <1>11, <2>1, <2>2 DEF WritesGuarded
    <3>. QED  BY <1>1, <1>2, <2>2, <3>1
  <2>3. CASE w \notin 1 .. Len(g)
    <3>1. PICK k \in 1 .. Len(b) : w = Len(g) + k
      BY <1>8, <2>3
    <3>2. PICK s \in 1 .. k : FreshForAllIn(b, s)
      BY <1>5, <2>1, <3>1 DEF WritesGuarded
    <3>3. s \in 1 .. Len(b) /\ Len(g) + s \in 1 .. w
      BY <1>1, <3>1, <3>2
    <3>. QED  BY <1>3, <3>2, <3>3
  <2>. QED  BY <2>2, <2>3
<1>12. ASSUME NEW q \in 1 .. Len(g), ReadsOrderedIn(g, q)
       PROVE  ReadsOrderedIn(h, q)
  <2>1. PICK w \in 1 .. q - 1 :
          /\ WritesIn(g, w) /\ g[w].layer = g[q].layer
          /\ \A v \in w + 1 .. q : ~WritesIn(g, v)
          /\ \E s \in w + 1 .. q : FreshForAllIn(g, s)
    BY <1>12 DEF ReadsOrderedIn
  <2>2. w \in 1 .. Len(g) /\ \A v \in w + 1 .. q : v \in 1 .. Len(g)
    BY <1>1
  <2>3. /\ WritesIn(h, w) /\ h[w].layer = h[q].layer
        /\ \A v \in w + 1 .. q : ~WritesIn(h, v)
        /\ \E s \in w + 1 .. q : FreshForAllIn(h, s)
    BY <1>1, <1>2, <1>4, <2>1, <2>2
  <2>4. ASSUME NEW v \in 1 .. Len(h), WritesIn(h, v), v > q
        PROVE  \E s \in q + 1 .. v : FreshForAllIn(h, s)
    <3>1. CASE v \in 1 .. Len(g)
      <4>1. PICK s \in q + 1 .. v : FreshForAllIn(g, s)
        BY <1>4, <1>12, <2>4, <3>1 DEF ReadsOrderedIn
      <4>2. s \in 1 .. Len(g)
        BY <1>1, <3>1, <4>1
      <4>. QED  BY <1>2, <4>1, <4>2
    <3>2. CASE v \notin 1 .. Len(g)
      <4>1. PICK k \in 1 .. Len(b) : v = Len(g) + k
        BY <1>8, <3>2
      <4>2. PICK s \in 1 .. k : FreshForAllIn(b, s)
        BY <1>5, <2>4, <4>1 DEF WritesGuarded
      <4>3. s \in 1 .. Len(b) /\ Len(g) + s \in q + 1 .. v
        BY <1>1, <4>1, <4>2
      <4>. QED  BY <1>3, <4>2, <4>3
    <3>. QED  BY <3>1, <3>2
  <2>. QED  BY <2>1, <2>3, <2>4 DEF ReadsOrderedIn
<1>13. ASSUME NEW k \in 1 .. Len(b), ReadsOrderedIn(b, k)
       PROVE  ReadsOrderedIn(h, Len(g) + k)
  <2>. DEFINE q == Len(g) + k
  <2>1. PICK w \in 1 .. k - 1 :
          /\ WritesIn(b, w) /\ b[w].layer = b[k].layer
          /\ \A v \in w + 1 .. k : ~WritesIn(b, v)
          /\ \E s \in w + 1 .. k : FreshForAllIn(b, s)
    BY <1>13 DEF ReadsOrderedIn
  <2>2. w \in 1 .. Len(b) /\ Len(g) + w \in 1 .. q - 1
    BY <1>1
  <2>3. WritesIn(h, Len(g) + w) /\ h[Len(g) + w].layer = h[q].layer
    BY <1>1, <1>5, <2>1, <2>2
  <2>4. ASSUME NEW v \in Len(g) + w + 1 .. q
        PROVE  ~WritesIn(h, v)
    <3>1. v - Len(g) \in w + 1 .. k /\ v - Len(g) \in 1 .. Len(b)
          /\ v = Len(g) + (v - Len(g))
      BY <1>1, <2>2
    <3>. QED  BY <1>5, <2>1, <3>1
  <2>5. PICK s \in w + 1 .. k : FreshForAllIn(b, s)
    BY <2>1
  <2>6. s \in 1 .. Len(b) /\ Len(g) + s \in Len(g) + w + 1 .. q
    BY <1>1, <2>2
  <2>7. FreshForAllIn(h, Len(g) + s)
    BY <1>3, <2>5, <2>6
  <2>8. ASSUME NEW v \in 1 .. Len(h), WritesIn(h, v), v > q
        PROVE  \E r \in q + 1 .. v : FreshForAllIn(h, r)
    <3>1. v \notin 1 .. Len(g)
      BY <1>1, <2>8
    <3>2. PICK u \in 1 .. Len(b) : v = Len(g) + u
      BY <1>8, <3>1
    <3>3. WritesIn(b, u) /\ u > k
      BY <1>1, <1>5, <2>8, <3>2
    <3>4. PICK r \in k + 1 .. u : FreshForAllIn(b, r)
      BY <1>13, <3>2, <3>3 DEF ReadsOrderedIn
    <3>5. r \in 1 .. Len(b) /\ Len(g) + r \in q + 1 .. v
      BY <1>1, <3>2, <3>4
    <3>. QED  BY <1>3, <3>4, <3>5
  <2>. HIDE DEF q
  <2>9. /\ \E x \in 1 .. q - 1 :
             /\ WritesIn(h, x) /\ h[x].layer = h[q].layer
             /\ \A v \in x + 1 .. q : ~WritesIn(h, v)
             /\ \E y \in x + 1 .. q : FreshForAllIn(h, y)
    BY <2>2, <2>3, <2>4, <2>6, <2>7
  <2>10. ReadsOrderedIn(h, q)
    BY <2>8, <2>9 DEF ReadsOrderedIn
  <2>. QED  BY <2>10 DEF q
<1>14. ASSUME NEW q \in 1 .. Len(h), h[q].counts = "read"
       PROVE  ReadsOrderedIn(h, q)
  <2>1. CASE q \in 1 .. Len(g)
    BY <1>1, <1>12, <1>14, <2>1 DEF Orderly
  <2>2. CASE q \notin 1 .. Len(g)
    <3>1. PICK k \in 1 .. Len(b) : q = Len(g) + k
      BY <1>8, <2>2
    <3>. QED  BY <1>1, <1>13, <1>14, <3>1 DEF Orderly
  <2>. QED  BY <2>1, <2>2
<1>15. ASSUME NEW i \in 1 .. Len(h)
       PROVE  /\ h[i].output \in T \cup T2
              /\ SyncIn(h, i) => h[i].input \in T \cup T2
              /\ FreshIn(h, i) => h[i].input \in F \cup F2
  <2>1. CASE i \in 1 .. Len(g)
    BY <1>1, <1>2, <1>4, <2>1 DEF Within
  <2>2. CASE i \notin 1 .. Len(g)
    <3>1. PICK k \in 1 .. Len(b) : i = Len(g) + k
      BY <1>8, <2>2
    <3>2. h[i] = b[k] /\ (SyncIn(h, i) <=> SyncIn(b, k))
      BY <1>1, <1>5, <3>1
    <3>3. ASSUME FreshIn(h, i)
          PROVE  FreshIn(b, k)
      <4>1. SyncIn(b, k)
        BY <3>2, <3>3 DEF FreshIn
      <4>2. ~StaleIn(b, k)
        <5>1. ASSUME StaleIn(b, k)
              PROVE  FALSE
          <6>1. StaleIn(h, i)
            BY <1>7, <3>1, <5>1
          <6>. QED  BY <3>3, <6>1 DEF StaleIn, FreshForAllIn, FreshIn, SyncIn
        <5>. QED  BY <5>1
      <4>. QED  BY <4>1, <4>2 DEF Orderly
    <3>. QED  BY <3>2, <3>3 DEF Within
  <2>. QED  BY <2>1, <2>2
<1>16. h[1].input \in T \cup T2
  BY <1>1 DEF Within
<1>17. Within(h, F \cup F2, T \cup T2)
  BY <1>15, <1>16 DEF Within
<1>18. Orderly(h)
  BY <1>9, <1>10, <1>14 DEF Orderly
<1>. QED  BY <1>11, <1>17, <1>18
-----------------------------------------------------------------------------
(* The nodes.                                                              *)

(* What the proofs look at of a node.                                      *)
Is(x, layer, sync, list, timed, counts, input, output) ==
  /\ x.layer = layer /\ x.sync = sync /\ x.device_list = list
  /\ x.timed = timed /\ x.counts = counts
  /\ x.input = <<layer, input>> /\ x.output = <<layer, output>>

LEMMA NodeIs ==
  ASSUME NEW n, NEW name, NEW input, NEW output
  PROVE  Is(Node(n, name, input, output),
            n, FALSE, "own", TRUE, "unused", input, output)
BY DEF Is, Node

LEMMA SyncNodeIs ==
  ASSUME NEW n, NEW name, NEW list, NEW input, NEW output
  PROVE  Is(SyncNode(n, name, list, input, output),
            n, TRUE, list, TRUE, "unused", input, output)
BY DEF Is, Node, SyncNode

(* Lists of one and of two nodes.                                          *)
LEMMA ShortLists ==
  /\ \A x : IsList(<<x>>) /\ Len(<<x>>) = 1 /\ <<x>>[1] = x
  /\ \A x, y : /\ IsList(<<x, y>>) /\ Len(<<x, y>>) = 2
               /\ <<x, y>>[1] = x /\ <<x, y>>[2] = y
<1>1. ASSUME NEW x
      PROVE  IsList(<<x>>)
  <2>1. <<x>> \in Seq({x})
    OBVIOUS
  <2>. QED  BY <2>1 DEF IsList
<1>2. ASSUME NEW x, NEW y
      PROVE  IsList(<<x, y>>)
  <2>1. <<x, y>> \in Seq({x, y})
    OBVIOUS
  <2>. QED  BY <2>1 DEF IsList
<1>. QED  BY <1>1, <1>2

LEMMA SyncIs ==
  ASSUME NEW n, NEW name, NEW input
  PROVE  /\ Len(Sync(n, name, input)) = 2 /\ IsList(Sync(n, name, input))
         /\ Is(Sync(n, name, input)[1],
               n, FALSE, "own", FALSE, "unused", input, name)
         /\ Is(Sync(n, name, input)[2],
               n, TRUE, "all", FALSE, "unused", name, name)
<1>. DEFINE x == [Node(n, "sync__set", input, name) EXCEPT !.timed = FALSE]
            y == [SyncNode(n, "sync__", "all", name, name) EXCEPT !.timed = FALSE]
<1>1. Is(x, n, FALSE, "own", FALSE, "unused", input, name)
  BY DEF Is, Node
<1>2. Is(y, n, TRUE, "all", FALSE, "unused", name, name)
  BY DEF Is, Node, SyncNode
<1>3. Sync(n, name, input) = <<x, y>>
  BY DEF Sync
<1>. HIDE DEF x, y
<1>4. /\ Len(Sync(n, name, input)) = 2 /\ IsList(Sync(n, name, input))
      /\ Sync(n, name, input)[1] = x /\ Sync(n, name, input)[2] = y
  BY <1>3, ShortLists
<1>. QED  BY <1>1, <1>2, <1>4, Zenon

LEMMA GateIs ==
  ASSUME NEW n
  PROVE  /\ Len(Gate(n)) = 2 /\ IsList(Gate(n))
         /\ Is(Gate(n)[1], n, FALSE, "own", TRUE, "unused", "input", "gate_fn")
         /\ Is(Gate(n)[2], n, FALSE, "own", FALSE, "written", "input", "gate_update")
<1>. DEFINE x == Node(n, "gate_fn", "input", "gate_fn")
            y == [Node(n, "gate_update", "input", "gate_update")
                    EXCEPT !.timed = FALSE, !.counts = "written"]
<1>1. Is(x, n, FALSE, "own", TRUE, "unused", "input", "gate_fn")
  BY DEF Is, Node
<1>2. Is(y, n, FALSE, "own", FALSE, "written", "input", "gate_update")
  BY DEF Is, Node
<1>3. Gate(n) = <<x, y>>
  BY DEF Gate
<1>. HIDE DEF x, y
<1>4. /\ Len(Gate(n)) = 2 /\ IsList(Gate(n))
      /\ Gate(n)[1] = x /\ Gate(n)[2] = y
  BY <1>3, ShortLists
<1>. QED  BY <1>1, <1>2, <1>4, Zenon

LEMMA ReadersAre ==
  ASSUME NEW n
  PROVE  /\ Len(Scatter(n)) = 1 /\ IsList(Scatter(n))
         /\ Is(Scatter(n)[1], n, TRUE, "all", TRUE, "read", "gate_update", "moe_scatter")
         /\ Len(Route(n)) = 1 /\ IsList(Route(n))
         /\ Is(Route(n)[1], n, FALSE, "own", FALSE, "read", "moe_scatter", "expert_input")
         /\ Len(Gather(n)) = 1 /\ IsList(Gather(n))
         /\ Is(Gather(n)[1], n, FALSE, "own", TRUE, "read", "expert_FFN", "moe_gather")
<1>. DEFINE x == [SyncNode(n, "moe_scatter", "all", "gate_update", "moe_scatter")
                    EXCEPT !.counts = "read"]
            y == [Node(n, "moe_route", "moe_scatter", "expert_input")
                    EXCEPT !.vec = TRUE, !.timed = FALSE, !.counts = "read"]
            z == [Node(n, "moe_gather", "expert_FFN", "moe_gather")
                    EXCEPT !.vec = TRUE, !.counts = "read"]
<1>1. Is(x, n, TRUE, "all", TRUE, "read", "gate_update", "moe_scatter")
  BY DEF Is, Node, SyncNode
<1>2. Is(y, n, FALSE, "own", FALSE, "read", "moe_scatter", "expert_input")
  BY DEF Is, Node
<1>3. Is(z, n, FALSE, "own", TRUE, "read", "expert_FFN", "moe_gather")
  BY DEF Is, Node
<1>4. Scatter(n) = <<x>> /\ Route(n) = <<y>> /\ Gather(n) = <<z>>
  BY DEF Scatter, Route, Gather
<1>. HIDE DEF x, y, z
<1>. QED  BY <1>1, <1>2, <1>3, <1>4, ShortLists
-----------------------------------------------------------------------------
(* Piece p takes the places of c behind the first k.                       *)
At(c, k, p) ==
  /\ k \in Nat /\ Len(p) \in Nat /\ Len(c) \in Nat /\ k + Len(p) <= Len(c)
  /\ \A j \in 1 .. Len(p) : c[k + j] = p[j]

LEMMA ConcatPlaces ==
  ASSUME NEW g, NEW b, IsList(g), IsList(b)
  PROVE  /\ IsList(g \o b) /\ Len(g \o b) = Len(g) + Len(b)
         /\ At(g \o b, Len(g), b)
         /\ \A k, p : At(g, k, p) => At(g \o b, k, p)
<1>. DEFINE h == g \o b
<1>1. Joins(g, b, h) /\ IsList(h)
  BY ConcatJoins
<1>. HIDE DEF h
<1>2. Len(h) = Len(g) + Len(b) /\ At(h, Len(g), b)
  BY <1>1 DEF Joins, At
<1>3. ASSUME NEW k, NEW p, At(g, k, p)
      PROVE  At(h, k, p)
  <2>1. \A j \in 1 .. Len(p) : k + j \in 1 .. Len(g)
    BY <1>3 DEF At
  <2>. QED  BY <1>1, <1>3, <2>1 DEF At, Joins
<1>4. /\ IsList(h) /\ Len(h) = Len(g) + Len(b) /\ At(h, Len(g), b)
      /\ \A k, p : At(g, k, p) => At(h, k, p)
  BY <1>1, <1>2, <1>3
<1>. QED  BY <1>4 DEF h

LEMMA PieceBehind ==
  ASSUME NEW g, NEW b, NEW h, h = g \o b, IsList(g), IsList(b)
  PROVE  /\ IsList(h) /\ Len(h) = Len(g) + Len(b) /\ At(h, Len(g), b)
         /\ \A j, p : At(g, j, p) => At(h, j, p)
BY ConcatPlaces, Zenon

(* The experts of a layer, up to the shared ones.                          *)

RoutedExperts(n) ==
  Sync(n, "sync_0", "input")
    \o Gate(n)
    \o Scatter(n)
    \o Sync(n, "sync_for_moe_scatter", "input")
    \o Route(n)
    \o << Node(n, "expert_FFN", "expert_input", "expert_FFN") >>
    \o Sync(n, "sync_2", "input")
    \o << SyncNode(n, "all_reduce_for_e_tp", "e_tp", "input", "e_tp") >>
    \o Sync(n, "sync_3", "input")
    \o Gather(n)
    \o Sync(n, "sync_for_moe_gather", "input")
    \o << SyncNode(n, "all_reduce_for_gather", "ne_tp", "input", "gather") >>

(* The eighteen modules of the routed experts of layer n.                  *)
RoutedShape(c, n) ==
  /\ IsList(c) /\ Len(c) = 18
  /\ Is(c[1], n, FALSE, "own", FALSE, "unused", "input", "sync_0")
  /\ Is(c[2], n, TRUE, "all", FALSE, "unused", "sync_0", "sync_0")
  /\ Is(c[3], n, FALSE, "own", TRUE, "unused", "input", "gate_fn")
  /\ Is(c[4], n, FALSE, "own", FALSE, "written", "input", "gate_update")
  /\ Is(c[5], n, TRUE, "all", TRUE, "read", "gate_update", "moe_scatter")
  /\ Is(c[6], n, FALSE, "own", FALSE, "unused", "input", "sync_for_moe_scatter")
  /\ Is(c[7], n, TRUE, "all", FALSE, "unused",
        "sync_for_moe_scatter", "sync_for_moe_scatter")
  /\ Is(c[8], n, FALSE, "own", FALSE, "read", "moe_scatter", "expert_input")
  /\ Is(c[9], n, FALSE, "own", TRUE, "unused", "expert_input", "expert_FFN")
  /\ Is(c[10], n, FALSE, "own", FALSE, "unused", "input", "sync_2")
  /\ Is(c[11], n, TRUE, "all", FALSE, "unused", "sync_2", "sync_2")
  /\ Is(c[12], n, TRUE, "e_tp", TRUE, "unused", "input", "e_tp")
  /\ Is(c[13], n, FALSE, "own", FALSE, "unused", "input", "sync_3")
  /\ Is(c[14], n, TRUE, "all", FALSE, "unused", "sync_3", "sync_3")
  /\ Is(c[15], n, FALSE, "own", TRUE, "read", "expert_FFN", "moe_gather")
  /\ Is(c[16], n, FALSE, "own", FALSE, "unused", "input", "sync_for_moe_gather")
  /\ Is(c[17], n, TRUE, "all", FALSE, "unused",
        "sync_for_moe_gather", "sync_for_moe_gather")
  /\ Is(c[18], n, TRUE, "ne_tp", TRUE, "unused", "input", "gather")

LEMMA RoutedExpertsAre ==
  ASSUME NEW n, NEW c, c = RoutedExperts(n)
  PROVE  RoutedShape(c, n)
<1>. DEFINE p1 == Sync(n, "sync_0", "input")
            p2 == Gate(n)
            p3 == Scatter(n)
            p4 == Sync(n, "sync_for_moe_scatter", "input")
            p5 == Route(n)
            p6 == << Node(n, "expert_FFN", "expert_input", "expert_FFN") >>
            p7 == Sync(n, "sync_2", "input")
            p8 == << SyncNode(n, "all_reduce_for_e_tp", "e_tp", "input", "e_tp") >>
            p9 == Sync(n, "sync_3", "input")
            p10 == Gather(n)
            p11 == Sync(n, "sync_for_moe_gather", "input")
            p12 == << SyncNode(n, "all_reduce_for_gather", "ne_tp", "input", "gather") >>
<1>1. /\ IsList(p1) /\ Len(p1) = 2
      /\ Is(p1[1], n, FALSE, "own", FALSE, "unused", "input", "sync_0")
      /\ Is(p1[2], n, TRUE, "all", FALSE, "unused", "sync_0", "sync_0")
  BY SyncIs
<1>2. /\ IsList(p2) /\ Len(p2) = 2
      /\ Is(p2[1], n, FALSE, "own", TRUE, "unused", "input", "gate_fn")
      /\ Is(p2[2], n, FALSE, "own", FALSE, "written", "input", "gate_update")
  BY GateIs
<1>3. /\ IsList(p3) /\ Len(p3) = 1
      /\ Is(p3[1], n, TRUE, "all", TRUE, "read", "gate_update", "moe_scatter")
  BY ReadersAre
<1>4. /\ IsList(p4) /\ Len(p4) = 2
      /\ Is(p4[1], n, FALSE, "own", FALSE, "unused", "input", "sync_for_moe_scatter")
      /\ Is(p4[2], n, TRUE, "all", FALSE, "unused",
            "sync_for_moe_scatter", "sync_for_moe_scatter")
  BY SyncIs
<1>5. /\ IsList(p5) /\ Len(p5) = 1
      /\ Is(p5[1], n, FALSE, "own", FALSE, "read", "moe_scatter", "expert_input")
  BY ReadersAre
<1>6. /\ IsList(p6) /\ Len(p6) = 1
      /\ Is(p6[1], n, FALSE, "own", TRUE, "unused", "expert_input", "expert_FFN")
  BY ShortLists, NodeIs
<1>7. /\ IsList(p7) /\ Len(p7) = 2
      /\ Is(p7[1], n, FALSE, "own", FALSE, "unused", "input", "sync_2")
      /\ Is(p7[2], n, TRUE, "all", FALSE, "unused", "sync_2", "sync_2")
  BY SyncIs
<1>8. /\ IsList(p8) /\ Len(p8) = 1
      /\ Is(p8[1], n, TRUE, "e_tp", TRUE, "unused", "input", "e_tp")
  BY ShortLists, SyncNodeIs
<1>9. /\ IsList(p9) /\ Len(p9) = 2
      /\ Is(p9[1], n, FALSE, "own", FALSE, "unused", "input", "sync_3")
      /\ Is(p9[2], n, TRUE, "all", FALSE, "unused", "sync_3", "sync_3")
  BY SyncIs
<1>10. /\ IsList(p10) /\ Len(p10) = 1
      /\ Is(p10[1], n, FALSE, "own", TRUE, "read", "expert_FFN", "moe_gather")
  BY ReadersAre
<1>11. /\ IsList(p11) /\ Len(p11) = 2
      /\ Is(p11[1], n, FALSE, "own", FALSE, "unused", "input", "sync_for_moe_gather")
      /\ Is(p11[2], n, TRUE, "all", FALSE, "unused",
            "sync_for_moe_gather", "sync_for_moe_gather")
  BY SyncIs
<1>12. /\ IsList(p12) /\ Len(p12) = 1
      /\ Is(p12[1], n, TRUE, "ne_tp", TRUE, "unused", "input", "gather")
  BY ShortLists, SyncNodeIs
<1>. HIDE DEF p1, p2, p3, p4, p5, p6, p7, p8, p9, p10, p11, p12
<1>13. c = p1 \o p2 \o p3 \o p4 \o p5 \o p6 \o p7 \o p8 \o p9 \o p10 \o p11 \o p12
  BY DEF RoutedExperts, p1, p2, p3, p4, p5, p6, p7, p8, p9, p10, p11, p12
<1>14. PICK h2, h3, h4, h5, h6, h7, h8, h9, h10, h11, h12 :
          /\ h2 = p1 \o p2 /\ h3 = h2 \o p3 /\ h4 = h3 \o p4 /\ h5 = h4 \o p5
          /\ h6 = h5 \o p6 /\ h7 = h6 \o p7 /\ h8 = h7 \o p8 /\ h9 = h8 \o p9
          /\ h10 = h9 \o p10 /\ h11 = h10 \o p11 /\ h12 = h11 \o p12
  OBVIOUS
<1>15. c = h12
  BY <1>13, <1>14
<1>16. IsList(p1) /\ Len(p1) = 2 /\ At(p1, 0, p1)
  BY <1>1 DEF At
<1>17. /\ IsList(h2) /\ Len(h2) = 4 /\ At(h2, 2, p2)
      /\ \A k, p : At(p1, k, p) => At(h2, k, p)
  <2>1. h2 = p1 \o p2 /\ IsList(p1) /\ IsList(p2)
    BY <1>14, <1>16, <1>2
  <2>2. /\ IsList(h2) /\ Len(h2) = Len(p1) + Len(p2) /\ At(h2, Len(p1), p2)
        /\ \A k, p : At(p1, k, p) => At(h2, k, p)
    BY <2>1, PieceBehind, Zenon
  <2>. QED  BY <1>16, <1>2, <2>2
<1>18. /\ IsList(h3) /\ Len(h3) = 5 /\ At(h3, 4, p3)
      /\ \A k, p : At(h2, k, p) => At(h3, k, p)
  <2>1. h3 = h2 \o p3 /\ IsList(h2) /\ IsList(p3)
    BY <1>14, <1>17, <1>3
  <2>2. /\ IsList(h3) /\ Len(h3) = Len(h2) + Len(p3) /\ At(h3, Len(h2), p3)
        /\ \A k, p : At(h2, k, p) => At(h3, k, p)
    BY <2>1, PieceBehind, Zenon
  <2>. QED  BY <1>17, <1>3, <2>2
<1>19. /\ IsList(h4) /\ Len(h4) = 7 /\ At(h4, 5, p4)
      /\ \A k, p : At(h3, k, p) => At(h4, k, p)
  <2>1. h4 = h3 \o p4 /\ IsList(h3) /\ IsList(p4)
    BY <1>14, <1>18, <1>4
  <2>2. /\ IsList(h4) /\ Len(h4) = Len(h3) + Len(p4) /\ At(h4, Len(h3), p4)
        /\ \A k, p : At(h3, k, p) => At(h4, k, p)
    BY <2>1, PieceBehind, Zenon
  <2>. QED  BY <1>18, <1>4, <2>2
<1>20. /\ IsList(h5) /\ Len(h5) = 8 /\ At(h5, 7, p5)
      /\ \A k, p : At(h4, k, p) => At(h5, k, p)
  <2>1. h5 = h4 \o p5 /\ IsList(h4) /\ IsList(p5)
    BY <1>14, <1>19, <1>5
  <2>2. /\ IsList(h5) /\ Len(h5) = Len(h4) + Len(p5) /\ At(h5, Len(h4), p5)
        /\ \A k, p : At(h4, k, p) => At(h5, k, p)
    BY <2>1, PieceBehind, Zenon
  <2>. QED  BY <1>19, <1>5, <2>2
<1>21. /\ IsList(h6) /\ Len(h6) = 9 /\ At(h6, 8, p6)
      /\ \A k, p : At(h5, k, p) => At(h6, k, p)
  <2>1. h6 = h5 \o p6 /\ IsList(h5) /\ IsList(p6)
    BY <1>14, <1>20, <1>6
  <2>2. /\ IsList(h6) /\ Len(h6) = Len(h5) + Len(p6) /\ At(h6, Len(h5), p6)
        /\ \A k, p : At(h5, k, p) => At(h6, k, p)
    BY <2>1, PieceBehind, Zenon
  <2>. QED  BY <1>20, <1>6, <2>2
<1>22. /\ IsList(h7) /\ Len(h7) = 11 /\ At(h7, 9, p7)
      /\ \A k, p : At(h6, k, p) => At(h7, k, p)
  <2>1. h7 = h6 \o p7 /\ IsList(h6) /\ IsList(p7)
    BY <1>14, <1>21, <1>7
  <2>2. /\ IsList(h7) /\ Len(h7) = Len(h6) + Len(p7) /\ At(h7, Len(h6), p7)
        /\ \A k, p : At(h6, k, p) => At(h7, k, p)
    BY <2>1, PieceBehind, Zenon
  <2>. QED  BY <1>21, <1>7, <2>2
<1>23. /\ IsList(h8) /\ Len(h8) = 12 /\ At(h8, 11, p8)
      /\ \A k, p : At(h7, k, p) => At(h8, k, p)
  <2>1. h8 = h7 \o p8 /\ IsList(h7) /\ IsList(p8)
    BY <1>14, <1>22, <1>8
  <2>2. /\ IsList(h8) /\ Len(h8) = Len(h7) + Len(p8) /\ At(h8, Len(h7), p8)
        /\ \A k, p : At(h7, k, p) => At(h8, k, p)
    BY <2>1, PieceBehind, Zenon
  <2>. QED  BY <1>22, <1>8, <2>2
<1>24. /\ IsList(h9) /\ Len(h9) = 14 /\ At(h9, 12, p9)
      /\ \A k, p : At(h8, k, p) => At(h9, k, p)
  <2>1. h9 = h8 \o p9 /\ IsList(h8) /\ IsList(p9)
    BY <1>14, <1>23, <1>9
  <2>2. /\ IsList(h9) /\ Len(h9) = Len(h8) + Len(p9) /\ At(h9, Len(h8), p9)
        /\ \A k, p : At(h8, k, p) => At(h9, k, p)
    BY <2>1, PieceBehind, Zenon
  <2>. QED  BY <1>23, <1>9, <2>2
<1>25. /\ IsList(h10) /\ Len(h10) = 15 /\ At(h10, 14, p10)
      /\ \A k, p : At(h9, k, p) => At(h10, k, p)
  <2>1. h10 = h9 \o p10 /\ IsList(h9) /\ IsList(p10)
    BY <1>14, <1>24, <1>10
  <2>2. /\ IsList(h10) /\ Len(h10) = Len(h9) + Len(p10) /\ At(h10, Len(h9), p10)
        /\ \A k, p : At(h9, k, p) => At(h10, k, p)
    BY <2>1, PieceBehind, Zenon
  <2>. QED  BY <1>24, <1>10, <2>2
<1>26. /\ IsList(h11) /\ Len(h11) = 17 /\ At(h11, 15, p11)
      /\ \A k, p : At(h10, k, p) => At(h11, k, p)
  <2>1. h11 = h10 \o p11 /\ IsList(h10) /\ IsList(p11)
    BY <1>14, <1>25, <1>11
  <2>2. /\ IsList(h11) /\ Len(h11) = Len(h10) + Len(p11) /\ At(h11, Len(h10), p11)
        /\ \A k, p : At(h10, k, p) => At(h11, k, p)
    BY <2>1, PieceBehind, Zenon
  <2>. QED  BY <1>25, <1>11, <2>2
<1>27. /\ IsList(h12) /\ Len(h12) = 18 /\ At(h12, 17, p12)
      /\ \A k, p : At(h11, k, p) => At(h12, k, p)
  <2>1. h12 = h11 \o p12 /\ IsList(h11) /\ IsList(p12)
    BY <1>14, <1>26, <1>12
  <2>2. /\ IsList(h12) /\ Len(h12) = Len(h11) + Len(p12) /\ At(h12, Len(h11), p12)
        /\ \A k, p : At(h11, k, p) => At(h12, k, p)
    BY <2>1, PieceBehind, Zenon
  <2>. QED  BY <1>26, <1>12, <2>2
<1>28. /\ At(c, 0, p1) /\ At(c, 2, p2) /\ At(c, 4, p3) /\ At(c, 5, p4)
      /\ At(c, 7, p5) /\ At(c, 8, p6) /\ At(c, 9, p7) /\ At(c, 11, p8)
      /\ At(c, 12, p9) /\ At(c, 14, p10) /\ At(c, 15, p11) /\ At(c, 17, p12)
  BY <1>15, <1>16, <1>17, <1>18, <1>19, <1>20, <1>21, <1>22, <1>23, <1>24, <1>25,
     <1>26, <1>27, Zenon
<1>29. /\ c[1] = p1[1] /\ c[2] = p1[2]
      /\ c[3] = p2[1] /\ c[4] = p2[2]
      /\ c[5] = p3[1]
      /\ c[6] = p4[1] /\ c[7] = p4[2]
      /\ c[8] = p5[1]
      /\ c[9] = p6[1]
      /\ c[10] = p7[1] /\ c[11] = p7[2]
      /\ c[12] = p8[1]
      /\ c[13] = p9[1] /\ c[14] = p9[2]
      /\ c[15] = p10[1]
      /\ c[16] = p11[1] /\ c[17] = p11[2]
      /\ c[18] = p12[1]
  BY <1>28, <1>1, <1>2, <1>3, <1>4, <1>5, <1>6, <1>7, <1>8, <1>9, <1>10, <1>11,
     <1>12 DEF At
<1>30. IsList(c) /\ Len(c) = 18
  BY <1>15, <1>27
<1>. QED
  BY <1>29, <1>30, <1>1, <1>2, <1>3, <1>4, <1>5, <1>6, <1>7, <1>8, <1>9, <1>10,
     <1>11, <1>12, Zenon
  DEF RoutedShape

RoutedFresh == {"sync_0", "gate_update", "sync_for_moe_scatter", "sync_2", "sync_3",
                "sync_for_moe_gather"}

RoutedNames == RoutedFresh \cup
  {"input", "gate_fn", "moe_scatter", "expert_input", "expert_FFN", "e_tp",
   "moe_gather", "gather"}

(* The all-reduces right behind sync_2 and sync_for_moe_gather wait for    *)
(* `input`, ready since before the gate; all other syncs are fresh.  The   *)
(* gate writes the counts behind sync_0; scatter, route and gather read    *)
(* them, none before the scatter, which is a sync of all devices.          *)
LEMMA RoutedOrderly ==
  ASSUME NEW n \in Nat, NEW c, c = RoutedExperts(n)
  PROVE  /\ Orderly(c) /\ WritesGuarded(c) /\ IsList(c) /\ Len(c) = 18
         /\ Within(c, {n} \X RoutedFresh, {n} \X RoutedNames)
<1>1. RoutedShape(c, n) /\ IsList(c) /\ Len(c) = 18
  BY RoutedExpertsAre DEF RoutedShape
<1>2. \A i \in 1 .. 18 :
        i \in {1, 2, 3, 4, 5, 6, 7, 8, 9, 10, 11, 12, 13, 14, 15, 16, 17, 18}
  OBVIOUS
<1>3. \A i \in 1 .. 18 : SyncIn(c, i) <=> i \in {2, 5, 7, 11, 12, 14, 17, 18}
  BY <1>1, <1>2 DEF RoutedShape, SyncIn, Is
<1>4. \A i \in 1 .. 18 : WritesIn(c, i) <=> i = 4
  BY <1>1, <1>2 DEF RoutedShape, WritesIn, Is
<1>5. FreshIn(c, 2)
  <2>1. \A j \in 1 .. 0 : c[j].output # c[2].input
    BY <1>1, <1>2 DEF RoutedShape, Is
  <2>2. \A j \in {5, 7, 11, 12, 14, 17, 18} : c[j].input # c[2].input
    BY <1>1 DEF RoutedShape, Is
  <2>. QED  BY <1>1, <1>3, <2>1, <2>2 DEF RoutedShape, FreshIn, Is
<1>6. FreshIn(c, 5)
  <2>1. \A j \in 1 .. 3 : c[j].output # c[5].input
    BY <1>1, <1>2 DEF RoutedShape, Is
  <2>2. \A j \in {2, 7, 11, 12, 14, 17, 18} : c[j].input # c[5].input
    BY <1>1 DEF RoutedShape, Is
  <2>. QED  BY <1>1, <1>3, <2>1, <2>2 DEF RoutedShape, FreshIn, Is
<1>7. FreshIn(c, 7)
  <2>1. \A j \in 1 .. 5 : c[j].output # c[7].input
    BY <1>1, <1>2 DEF RoutedShape, Is
  <2>2. \A j \in {2, 5, 11, 12, 14, 17, 18} : c[j].input # c[7].input
    BY <1>1 DEF RoutedShape, Is
  <2>. QED  BY <1>1, <1>3, <2>1, <2>2 DEF RoutedShape, FreshIn, Is
<1>8. FreshIn(c, 11)
  <2>1. \A j \in 1 .. 9 : c[j].output # c[11].input
    BY <1>1, <1>2 DEF RoutedShape, Is
  <2>2. \A j \in {2, 5, 7, 12, 14, 17, 18} : c[j].input # c[11].input
    BY <1>1 DEF RoutedShape, Is
  <2>. QED  BY <1>1, <1>3, <2>1, <2>2 DEF RoutedShape, FreshIn, Is
<1>9. FreshIn(c, 14)
  <2>1. \A j \in 1 .. 12 : c[j].output # c[14].input
    BY <1>1, <1>2 DEF RoutedShape, Is
  <2>2. \A j \in {2, 5, 7, 11, 12, 17, 18} : c[j].input # c[14].input
    BY <1>1 DEF RoutedShape, Is
  <2>. QED  BY <1>1, <1>3, <2>1, <2>2 DEF RoutedShape, FreshIn, Is
<1>10. FreshIn(c, 17)
  <2>1. \A j \in 1 .. 15 : c[j].output # c[17].input
    BY <1>1, <1>2 DEF RoutedShape, Is
  <2>2. \A j \in {2, 5, 7, 11, 12, 14, 18} : c[j].input # c[17].input
    BY <1>1 DEF RoutedShape, Is
  <2>. QED  BY <1>1, <1>3, <2>1, <2>2 DEF RoutedShape, FreshIn, Is
<1>11. \A i \in {2, 5, 7, 11, 14, 17} : FreshForAllIn(c, i)
  BY <1>1, <1>5, <1>6, <1>7, <1>8, <1>9, <1>10 DEF RoutedShape, FreshForAllIn, Is
<1>12. StaleIn(c, 12) /\ StaleIn(c, 18)
  BY <1>3, <1>11, <1>1 DEF RoutedShape, StaleIn, Is
<1>13. \A i \in 1 .. 18 : c[i].layer = n
  BY <1>1, <1>2 DEF RoutedShape, Is
<1>14. \A i \in 1 .. 18 : c[i].counts = "read" => i \in {5, 8, 15}
  BY <1>1, <1>2 DEF RoutedShape, Is
<1>15. ASSUME NEW q \in {5, 8, 15}
      PROVE  ReadsOrderedIn(c, q)
  <2>1. 4 \in 1 .. q - 1 /\ WritesIn(c, 4) /\ c[4].layer = c[q].layer
    BY <1>4, <1>13
  <2>2. \A v \in 4 + 1 .. q : ~WritesIn(c, v)
    BY <1>4
  <2>3. \E s \in 4 + 1 .. q : FreshForAllIn(c, s)
    BY <1>11
  <2>4. \A w \in 1 .. Len(c) : ~(WritesIn(c, w) /\ w > q)
    BY <1>1, <1>4
  <2>. QED  BY <2>1, <2>2, <2>3, <2>4 DEF ReadsOrderedIn
<1>16. \A i \in {2, 5, 7, 11, 12, 14, 17, 18} :
         c[i].device_list \in {"ne_tp", "e_tp", "all"}
  BY <1>1 DEF RoutedShape, Is
<1>17. Orderly(c)
  BY <1>1, <1>3, <1>11, <1>12, <1>13, <1>14, <1>15, <1>16 DEF Orderly, FreshForAllIn
<1>18. WritesGuarded(c)
  BY <1>1, <1>4, <1>11 DEF WritesGuarded
<1>19. \A x \in RoutedNames : <<n, x>> \in {n} \X RoutedNames
  OBVIOUS
<1>20. \A x \in RoutedFresh : <<n, x>> \in {n} \X RoutedFresh
  OBVIOUS
<1>21. \A i \in 1 .. 18 : c[i].output \in {n} \X RoutedNames
  <2>1. /\ c[1].output = <<n, "sync_0">> /\ c[2].output = <<n, "sync_0">>
        /\ c[3].output = <<n, "gate_fn">> /\ c[4].output = <<n, "gate_update">>
        /\ c[5].output = <<n, "moe_scatter">> /\ c[6].output = <<n, "sync_for_moe_scatter">>
        /\ c[7].output = <<n, "sync_for_moe_scatter">> /\ c[8].output = <<n, "expert_input">>
        /\ c[9].output = <<n, "expert_FFN">> /\ c[10].output = <<n, "sync_2">>
        /\ c[11].output = <<n, "sync_2">> /\ c[12].output = <<n, "e_tp">>
        /\ c[13].output = <<n, "sync_3">> /\ c[14].output = <<n, "sync_3">>
        /\ c[15].output = <<n, "moe_gather">> /\ c[16].output = <<n, "sync_for_moe_gather">>
        /\ c[17].output = <<n, "sync_for_moe_gather">> /\ c[18].output = <<n, "gather">>
    BY <1>1 DEF RoutedShape, Is
  <2>2. /\ "e_tp" \in RoutedNames /\ "expert_FFN" \in RoutedNames
        /\ "expert_input" \in RoutedNames /\ "gate_fn" \in RoutedNames
        /\ "gate_update" \in RoutedNames /\ "gather" \in RoutedNames
        /\ "moe_gather" \in RoutedNames /\ "moe_scatter" \in RoutedNames
        /\ "sync_0" \in RoutedNames /\ "sync_2" \in RoutedNames
        /\ "sync_3" \in RoutedNames /\ "sync_for_moe_gather" \in RoutedNames
        /\ "sync_for_moe_scatter" \in RoutedNames
    BY DEF RoutedNames, RoutedFresh
  <2>3. /\ c[1].output \in {n} \X RoutedNames /\ c[2].output \in {n} \X RoutedNames
        /\ c[3].output \in {n} \X RoutedNames /\ c[4].output \in {n} \X RoutedNames
        /\ c[5].output \in {n} \X RoutedNames /\ c[6].output \in {n} \X RoutedNames
        /\ c[7].output \in {n} \X RoutedNames /\ c[8].output \in {n} \X RoutedNames
        /\ c[9].output \in {n} \X RoutedNames /\ c[10].output \in {n} \X RoutedNames
        /\ c[11].output \in {n} \X RoutedNames /\ c[12].output \in {n} \X RoutedNames
        /\ c[13].output \in {n} \X RoutedNames /\ c[14].output \in {n} \X RoutedNames
        /\ c[15].output \in {n} \X RoutedNames /\ c[16].output \in {n} \X RoutedNames
        /\ c[17].output \in {n} \X RoutedNames /\ c[18].output \in {n} \X RoutedNames
    BY <1>19, <2>1, <2>2
  <2>. QED  BY <1>2, <2>3
<1>22. \A i \in {1, 2, 5, 7, 11, 12, 14, 17, 18} : c[i].input \in {n} \X RoutedNames
  <2>1. /\ c[1].input = <<n, "input">> /\ c[2].input = <<n, "sync_0">>
        /\ c[5].input = <<n, "gate_update">> /\ c[7].input = <<n, "sync_for_moe_scatter">>
        /\ c[11].input = <<n, "sync_2">> /\ c[12].input = <<n, "input">>
        /\ c[14].input = <<n, "sync_3">> /\ c[17].input = <<n, "sync_for_moe_gather">>
        /\ c[18].input = <<n, "input">>
    BY <1>1 DEF RoutedShape, Is
  <2>2. /\ "gate_update" \in RoutedNames /\ "input" \in RoutedNames
        /\ "sync_0" \in RoutedNames /\ "sync_2" \in RoutedNames
        /\ "sync_3" \in RoutedNames /\ "sync_for_moe_gather" \in RoutedNames
        /\ "sync_for_moe_scatter" \in RoutedNames
    BY DEF RoutedNames, RoutedFresh
  <2>. QED  BY <1>19, <2>1, <2>2
<1>23. \A i \in 1 .. 18 : FreshIn(c, i) => i \in {2, 5, 7, 11, 14, 17}
  <2>1. ~FreshIn(c, 12) /\ ~FreshIn(c, 18)
    BY <1>12 DEF StaleIn, FreshForAllIn, FreshIn, SyncIn
  <2>2. \A i \in 1 .. 18 : FreshIn(c, i) => SyncIn(c, i)
    BY DEF FreshIn
  <2>. QED  BY <1>3, <2>1, <2>2
<1>24. \A i \in {2, 5, 7, 11, 14, 17} : c[i].input \in {n} \X RoutedFresh
  <2>1. /\ c[2].input = <<n, "sync_0">> /\ c[5].input = <<n, "gate_update">>
        /\ c[7].input = <<n, "sync_for_moe_scatter">> /\ c[11].input = <<n, "sync_2">>
        /\ c[14].input = <<n, "sync_3">> /\ c[17].input = <<n, "sync_for_moe_gather">>
    BY <1>1 DEF RoutedShape, Is
  <2>2. /\ "gate_update" \in RoutedFresh /\ "sync_0" \in RoutedFresh
        /\ "sync_2" \in RoutedFresh /\ "sync_3" \in RoutedFresh
        /\ "sync_for_moe_gather" \in RoutedFresh /\ "sync_for_moe_scatter" \in RoutedFresh
    BY DEF RoutedFresh
  <2>. QED  BY <1>20, <2>1, <2>2
<1>25. Within(c, {n} \X RoutedFresh, {n} \X RoutedNames)
  BY <1>1, <1>3, <1>21, <1>22, <1>23, <1>24 DEF Within
<1>. QED  BY <1>1, <1>17, <1>18, <1>25
-----------------------------------------------------------------------------
(* The other pieces of a layer.                                            *)

LEMMA WithinMore ==
  ASSUME NEW g, NEW F, NEW T, NEW F2, NEW T2, F \subseteq F2, T \subseteq T2,
         Within(g, F, T)
  PROVE  Within(g, F2, T2)
BY DEF Within

(* A piece of layer n that may stand behind others of the layer.           *)
Piece(g, n, A, B) ==
  /\ IsList(g) /\ Orderly(g) /\ WritesGuarded(g)
  /\ Within(g, {n} \X A, {n} \X B)

LEMMA JoinPieces ==
  ASSUME NEW n, NEW g, NEW b, NEW A, NEW B, NEW A2, NEW B2,
         Piece(g, n, A, B), Piece(b, n, A2, B2), Len(g) > 0,
         A \cap B2 = {}, A2 \cap B = {}
  PROVE  Piece(g \o b, n, A \cup A2, B \cup B2) /\ Len(g \o b) > 0
<1>1. PICK h : h = g \o b
  OBVIOUS
<1>2. Joins(g, b, h) /\ IsList(h)
  BY <1>1, ConcatJoins DEF Piece
<1>3. /\ ({n} \X A) \cap ({n} \X B2) = {} /\ ({n} \X A2) \cap ({n} \X B) = {}
      /\ ({n} \X A) \cup ({n} \X A2) = {n} \X (A \cup A2)
      /\ ({n} \X B) \cup ({n} \X B2) = {n} \X (B \cup B2)
  OBVIOUS
<1>4. /\ Orderly(h) /\ WritesGuarded(h)
      /\ Within(h, ({n} \X A) \cup ({n} \X A2), ({n} \X B) \cup ({n} \X B2))
  BY <1>2, <1>3, Join DEF Piece
<1>5. Len(h) > 0
  BY <1>2 DEF Joins
<1>. QED  BY <1>1, <1>2, <1>3, <1>4, <1>5 DEF Piece

(* Modules that neither sync nor look at the counts.                       *)
Plain(g) ==
  \A i \in 1 .. Len(g) : /\ g[i].layer \in Nat /\ g[i].sync = FALSE
                         /\ g[i].counts = "unused"

LEMMA PlainOrderly ==
  ASSUME NEW g, Plain(g), NEW T, \A i \in 1 .. Len(g) : g[i].output \in T,
         Len(g) > 0 => g[1].input \in T
  PROVE  Orderly(g) /\ WritesGuarded(g) /\ Within(g, {}, T)
<1>1. \A i \in 1 .. Len(g) : ~SyncIn(g, i) /\ ~WritesIn(g, i) /\ ~FreshIn(g, i)
  BY DEF Plain, SyncIn, WritesIn, FreshIn
<1>2. Orderly(g)
  BY <1>1 DEF Orderly, Plain
<1>3. WritesGuarded(g)
  BY <1>1 DEF WritesGuarded
<1>4. Within(g, {}, T)
  BY <1>1 DEF Within
<1>. QED  BY <1>2, <1>3, <1>4

LEMMA SyncOrderly ==
  ASSUME NEW n \in Nat, NEW name, name # "input"
  PROVE  /\ Piece(Sync(n, name, "input"), n, {name}, {"input", name})
         /\ Len(Sync(n, name, "input")) = 2
<1>. DEFINE g == Sync(n, name, "input")
<1>1. /\ Len(g) = 2 /\ IsList(g)
      /\ Is(g[1], n, FALSE, "own", FALSE, "unused", "input", name)
      /\ Is(g[2], n, TRUE, "all", FALSE, "unused", name, name)
  BY SyncIs, Zenon
<1>. HIDE DEF g
<1>2. /\ \A i \in 1 .. 2 : SyncIn(g, i) <=> i = 2
      /\ \A i \in 1 .. 2 : ~WritesIn(g, i) /\ g[i].layer = n /\ g[i].counts # "read"
  BY <1>1 DEF SyncIn, WritesIn, Is
<1>3. FreshIn(g, 2)
  BY <1>1, <1>2 DEF FreshIn, Is
<1>4. Orderly(g) /\ WritesGuarded(g)
  <2>1. g[2].device_list = "all"
    BY <1>1 DEF Is
  <2>. QED  BY <1>1, <1>2, <1>3, <2>1 DEF Orderly, WritesGuarded
<1>5. Within(g, {n} \X {name}, {n} \X {"input", name})
  <2>1. /\ g[1].input = <<n, "input">> /\ g[2].input = <<n, name>>
        /\ g[1].output = <<n, name>> /\ g[2].output = <<n, name>>
    BY <1>1 DEF Is
  <2>2. /\ <<n, name>> \in {n} \X {name} /\ <<n, name>> \in {n} \X {"input", name}
        /\ <<n, "input">> \in {n} \X {"input", name}
    OBVIOUS
  <2>3. \A i \in 1 .. 2 : FreshIn(g, i) => i = 2
    BY <1>2 DEF FreshIn
  <2>. QED  BY <1>1, <1>2, <2>1, <2>2, <2>3 DEF Within
<1>6. Piece(g, n, {name}, {"input", name})
  BY <1>1, <1>4, <1>5 DEF Piece
<1>. QED  BY <1>1, <1>6 DEF g

LEMMA SharedOrderly ==
  ASSUME NEW n \in Nat
  PROVE  Piece(SharedExperts(n), n, {}, {"input", "shared_expert_FFN"})
<1>. DEFINE x == Node(n, "shared_expert_FFN", "input", "shared_expert_FFN")
            g == SharedExperts(n)
<1>1. g = [i \in 1 .. num_shared_expert |-> x]
  BY DEF SharedExperts
<1>2. Is(x, n, FALSE, "own", TRUE, "unused", "input", "shared_expert_FFN")
  BY NodeIs, Zenon
<1>. HIDE DEF x, g
<1>3. g \in Seq({x}) /\ Len(g) = num_shared_expert /\ \A i \in 1 .. Len(g) : g[i] = x
  BY <1>1, LayersAssumption
<1>4. IsList(g)
  BY <1>3 DEF IsList
<1>5. Plain(g)
  BY <1>2, <1>3 DEF Plain, Is
<1>6. /\ \A i \in 1 .. Len(g) : g[i].output \in {n} \X {"input", "shared_expert_FFN"}
      /\ Len(g) > 0 => g[1].input \in {n} \X {"input", "shared_expert_FFN"}
  <2>1. x.output = <<n, "shared_expert_FFN">> /\ x.input = <<n, "input">>
    BY <1>2 DEF Is
  <2>2. x.output \in {n} \X {"input", "shared_expert_FFN"}
        /\ x.input \in {n} \X {"input", "shared_expert_FFN"}
    BY <2>1
  <2>3. Len(g) > 0 => 1 \in 1 .. Len(g)
    BY <1>3, LayersAssumption
  <2>. QED  BY <1>3, <2>2, <2>3
<1>7. {n} \X {} = {}
  OBVIOUS
<1>8. Piece(g, n, {}, {"input", "shared_expert_FFN"})
  BY <1>4, <1>5, <1>6, <1>7, PlainOrderly DEF Piece
<1>. QED  BY <1>8 DEF g

LEMMA ResidualOrderly ==
  ASSUME NEW n \in Nat
  PROVE  /\ Piece(Residual(n), n, {}, {"shared_expert_FFN", "gather", "decoder"})
         /\ Len(Residual(n)) = 1
<1>. DEFINE in == IF num_shared_expert > 0 THEN "shared_expert_FFN" ELSE "gather"
            x == Node(n, "residual_2", in, "decoder")
            g == Residual(n)
            N == {"shared_expert_FFN", "gather", "decoder"}
<1>1. g = <<x>>
  BY DEF Residual
<1>2. in \in {"shared_expert_FFN", "gather"}
  OBVIOUS
<1>. HIDE DEF in
<1>3. /\ x.layer = n /\ x.sync = FALSE /\ x.counts = "unused"
      /\ x.input = <<n, in>> /\ x.output = <<n, "decoder">>
  BY DEF Node
<1>. HIDE DEF x, g
<1>4. IsList(g) /\ Len(g) = 1 /\ g[1] = x
  BY <1>1, ShortLists
<1>5. Plain(g)
  BY <1>3, <1>4 DEF Plain
<1>6. g[1].output \in {n} \X N /\ g[1].input \in {n} \X N
  BY <1>2, <1>3, <1>4
<1>7. {n} \X {} = {}
  OBVIOUS
<1>. HIDE DEF N
<1>8. Orderly(g) /\ WritesGuarded(g) /\ Within(g, {}, {n} \X N)
  BY <1>4, <1>5, <1>6, PlainOrderly
<1>9. Piece(g, n, {}, N) /\ Len(g) = 1
  BY <1>4, <1>7, <1>8 DEF Piece
<1>. QED  BY <1>9 DEF g, N

(* A module, the sync on its output, and a module behind.                  *)
LEMMA ReduceOrderly ==
  ASSUME NEW n \in Nat, NEW x, NEW y, NEW z, NEW g, g = <<x, y, z>>,
         x.layer = n, y.layer = n, z.layer = n,
         x.sync = FALSE, y.sync = TRUE, z.sync = FALSE,
         x.counts = "unused", y.counts = "unused", z.counts = "unused",
         y.device_list = "ne_tp", y.input = x.output, y.input # x.input
  PROVE  /\ IsList(g) /\ Len(g) = 3 /\ Orderly(g) /\ WritesGuarded(g)
         /\ Within(g, {y.input}, {x.input, x.output, y.output, z.output})
<1>1. /\ Len(g) = 3 /\ g[1] = x /\ g[2] = y /\ g[3] = z
  OBVIOUS
<1>2. IsList(g)
  <2>1. g \in Seq({x, y, z})
    OBVIOUS
  <2>. QED  BY <2>1 DEF IsList
<1>3. \A i \in 1 .. 3 : i \in {1, 2, 3}
  OBVIOUS
<1>4. /\ \A i \in 1 .. 3 : SyncIn(g, i) <=> i = 2
      /\ \A i \in 1 .. 3 : ~WritesIn(g, i) /\ g[i].layer = n /\ g[i].counts # "read"
  BY <1>1, <1>3 DEF SyncIn, WritesIn
<1>5. FreshIn(g, 2)
  BY <1>1, <1>4 DEF FreshIn
<1>6. Orderly(g) /\ WritesGuarded(g)
  BY <1>1, <1>4, <1>5 DEF Orderly, WritesGuarded
<1>7. \A i \in 1 .. 3 : FreshIn(g, i) => i = 2
  BY <1>4 DEF FreshIn
<1>8. Within(g, {y.input}, {x.input, x.output, y.output, z.output})
  BY <1>1, <1>3, <1>4, <1>7 DEF Within
<1>. QED  BY <1>1, <1>2, <1>6, <1>8

LEMMA FeedForwardOrderly ==
  ASSUME NEW n \in Nat
  PROVE  /\ Piece(FeedForward(n), n, {"ffn_out"},
                  {"input", "ffn_out", "all_reduce", "decoder"})
         /\ Len(FeedForward(n)) = 3
<1>. DEFINE x == Node(n, "feedforward", "input", "ffn_out")
            y == SyncNode(n, "all_reduce", "ne_tp", "ffn_out", "all_reduce")
            z == Node(n, "residual_1", "all_reduce", "decoder")
            g == FeedForward(n)
            N == {"input", "ffn_out", "all_reduce", "decoder"}
<1>1. g = <<x, y, z>>
  BY DEF FeedForward
<1>2. /\ Is(x, n, FALSE, "own", TRUE, "unused", "input", "ffn_out")
      /\ Is(y, n, TRUE, "ne_tp", TRUE, "unused", "ffn_out", "all_reduce")
      /\ Is(z, n, FALSE, "own", TRUE, "unused", "all_reduce", "decoder")
  BY NodeIs, SyncNodeIs, Zenon
<1>. HIDE DEF x, y, z, g
<1>3. /\ x.layer = n /\ y.layer = n /\ z.layer = n
      /\ x.sync = FALSE /\ y.sync = TRUE /\ z.sync = FALSE
      /\ x.counts = "unused" /\ y.counts = "unused" /\ z.counts = "unused"
      /\ y.device_list = "ne_tp" /\ y.input = x.output /\ y.input # x.input
      /\ x.input = <<n, "input">> /\ x.output = <<n, "ffn_out">>
      /\ y.output = <<n, "all_reduce">> /\ z.output = <<n, "decoder">>
  BY <1>2 DEF Is
<1>4. /\ IsList(g) /\ Len(g) = 3 /\ Orderly(g) /\ WritesGuarded(g)
      /\ Within(g, {y.input}, {x.input, x.output, y.output, z.output})
  BY <1>1, <1>3, ReduceOrderly
<1>5. /\ {y.input} \subseteq {n} \X {"ffn_out"}
      /\ {x.input, x.output, y.output, z.output} \subseteq {n} \X N
  BY <1>3
<1>. HIDE DEF N
<1>6. Within(g, {n} \X {"ffn_out"}, {n} \X N)
  BY <1>4, <1>5, WithinMore
<1>7. Piece(g, n, {"ffn_out"}, N) /\ Len(g) = 3
  BY <1>4, <1>6 DEF Piece
<1>. QED  BY <1>7 DEF g, N

LEMMA AttentionOrderly ==
  ASSUME NEW n \in Nat
  PROVE  /\ IsList(Attention(n)) /\ Len(Attention(n)) = 3
         /\ Orderly(Attention(n)) /\ WritesGuarded(Attention(n))
         /\ Within(Attention(n), {n} \X {"o_proj"},
              ({n} \X {"o_proj", "attention", "input"}) \cup {<<0, "embedding">>})
<1>. DEFINE x == [Node(n, "attention", "embedding", "o_proj")
                    EXCEPT !.input = <<0, "embedding">>]
            y == SyncNode(n, "all_reduce", "ne_tp", "o_proj", "attention")
            z == Node(n, "post_attn_layer_norm", "attention", "input")
            g == Attention(n)
            T == ({n} \X {"o_proj", "attention", "input"}) \cup {<<0, "embedding">>}
<1>1. g = <<x, y, z>>
  BY DEF Attention
<1>2. /\ Is(y, n, TRUE, "ne_tp", TRUE, "unused", "o_proj", "attention")
      /\ Is(z, n, FALSE, "own", TRUE, "unused", "attention", "input")
  BY NodeIs, SyncNodeIs, Zenon
<1>3. /\ x.layer = n /\ x.sync = FALSE /\ x.counts = "unused"
      /\ x.input = <<0, "embedding">> /\ x.output = <<n, "o_proj">>
  BY DEF Node
<1>. HIDE DEF x, y, z, g
<1>4. /\ y.layer = n /\ z.layer = n /\ y.sync = TRUE /\ z.sync = FALSE
      /\ y.counts = "unused" /\ z.counts = "unused"
      /\ y.device_list = "ne_tp" /\ y.input = x.output /\ y.input # x.input
      /\ y.output = <<n, "attention">> /\ z.output = <<n, "input">>
  BY <1>2, <1>3 DEF Is
<1>5. /\ IsList(g) /\ Len(g) = 3 /\ Orderly(g) /\ WritesGuarded(g)
      /\ Within(g, {y.input}, {x.input, x.output, y.output, z.output})
  BY <1>1, <1>3, <1>4, ReduceOrderly
<1>6. /\ {y.input} \subseteq {n} \X {"o_proj"}
      /\ {x.input, x.output, y.output, z.output} \subseteq T
  BY <1>3, <1>4
<1>. HIDE DEF T
<1>7. Within(g, {n} \X {"o_proj"}, T)
  BY <1>5, <1>6, WithinMore
<1>8. /\ IsList(g) /\ Len(g) = 3 /\ Orderly(g) /\ WritesGuarded(g)
      /\ Within(g, {n} \X {"o_proj"}, T)
  BY <1>5, <1>7
<1>. QED  BY <1>8 DEF g, T
-----------------------------------------------------------------------------
(* A layer.                                                                *)

LayerFresh == RoutedFresh \cup {"o_proj", "ffn_out", "sync_5", "sync_6"}

LayerNames == RoutedNames \cup LayerFresh
                \cup {"attention", "shared_expert_FFN", "decoder", "all_reduce"}

LEMMA PieceMore ==
  ASSUME NEW g, NEW n, NEW A, NEW B, NEW A2, NEW B2, Piece(g, n, A, B),
         A \subseteq A2, B \subseteq B2
  PROVE  Piece(g, n, A2, B2)
<1>1. {n} \X A \subseteq {n} \X A2 /\ {n} \X B \subseteq {n} \X B2
  OBVIOUS
<1>. QED  BY <1>1, WithinMore DEF Piece

LEMMA ExpertsOrderly ==
  ASSUME NEW n \in Nat
  PROVE  /\ Piece(ExpertFFN(n) \o Residual(n), n,
                  RoutedFresh \cup {"sync_5", "sync_6"},
                  RoutedNames \cup {"sync_5", "sync_6", "shared_expert_FFN", "decoder"})
         /\ Len(ExpertFFN(n) \o Residual(n)) > 0
<1>. DEFINE F1 == RoutedFresh
            N1 == RoutedNames
            F2 == F1 \cup {"sync_5"}
            N2 == N1 \cup {"input", "sync_5"}
            F3 == F2 \cup {}
            N3 == N2 \cup {"input", "shared_expert_FFN"}
            F4 == F3 \cup {"sync_6"}
            N4 == N3 \cup {"input", "sync_6"}
            F5 == F4 \cup {}
            N5 == N4 \cup {"shared_expert_FFN", "gather", "decoder"}
<1>1. PICK a, b, c, d, e :
        /\ a = RoutedExperts(n) /\ b = a \o Sync(n, "sync_5", "input")
        /\ c = b \o SharedExperts(n) /\ d = c \o Sync(n, "sync_6", "input")
        /\ e = d \o Residual(n)
  OBVIOUS
<1>2. d = ExpertFFN(n)
  BY <1>1 DEF ExpertFFN, RoutedExperts
<1>3. Piece(a, n, F1, N1) /\ Len(a) > 0
  <2>1. /\ Orderly(a) /\ WritesGuarded(a) /\ IsList(a) /\ Len(a) = 18
        /\ Within(a, {n} \X RoutedFresh, {n} \X RoutedNames)
    BY <1>1, RoutedOrderly
  <2>. QED  BY <2>1 DEF Piece
<1>4. Piece(b, n, F2, N2) /\ Len(b) > 0
  <2>1. Piece(Sync(n, "sync_5", "input"), n, {"sync_5"}, {"input", "sync_5"})
    BY SyncOrderly
  <2>2. F1 \cap {"input", "sync_5"} = {} /\ {"sync_5"} \cap N1 = {}
    BY DEF RoutedFresh, RoutedNames
  <2>. HIDE DEF F1, N1
  <2>. QED  BY <1>1, <1>3, <2>1, <2>2, JoinPieces
<1>5. Piece(c, n, F3, N3) /\ Len(c) > 0
  <2>1. Piece(SharedExperts(n), n, {}, {"input", "shared_expert_FFN"})
    BY SharedOrderly
  <2>2. F2 \cap {"input", "shared_expert_FFN"} = {} /\ {} \cap N2 = {}
    BY DEF RoutedFresh
  <2>. HIDE DEF F2, N2
  <2>. QED  BY <1>1, <1>4, <2>1, <2>2, JoinPieces
<1>6. Piece(d, n, F4, N4) /\ Len(d) > 0
  <2>1. Piece(Sync(n, "sync_6", "input"), n, {"sync_6"}, {"input", "sync_6"})
    BY SyncOrderly
  <2>2. F3 \cap {"input", "sync_6"} = {} /\ {"sync_6"} \cap N3 = {}
    BY DEF RoutedFresh, RoutedNames
  <2>. HIDE DEF F3, N3
  <2>. QED  BY <1>1, <1>5, <2>1, <2>2, JoinPieces
<1>7. Piece(e, n, F5, N5) /\ Len(e) > 0
  <2>1. Piece(Residual(n), n, {}, {"shared_expert_FFN", "gather", "decoder"})
    BY ResidualOrderly
  <2>2. F4 \cap {"shared_expert_FFN", "gather", "decoder"} = {} /\ {} \cap N4 = {}
    BY DEF RoutedFresh
  <2>. HIDE DEF F4, N4
  <2>. QED  BY <1>1, <1>6, <2>1, <2>2, JoinPieces
<1>. DEFINE F == RoutedFresh \cup {"sync_5", "sync_6"}
            N == RoutedNames \cup {"sync_5", "sync_6", "shared_expert_FFN", "decoder"}
<1>8. F5 \subseteq F /\ N5 \subseteq N
  BY DEF RoutedNames
<1>9. Piece(e, n, F, N)
  <2>. HIDE DEF F5, N5, F, N
  <2>. QED  BY <1>7, <1>8, PieceMore
<1>10. e = ExpertFFN(n) \o Residual(n)
  BY <1>1, <1>2
<1>. QED  BY <1>7, <1>9, <1>10

LEMMA DecoderOrderly ==
  ASSUME NEW n \in Nat
  PROVE  /\ IsList(Decoder(n)) /\ Len(Decoder(n)) > 0
         /\ Orderly(Decoder(n)) /\ WritesGuarded(Decoder(n))
         /\ Within(Decoder(n), {n} \X LayerFresh,
                   ({n} \X LayerNames) \cup {<<0, "embedding">>})
<1>1. PICK b : b = IF Layers[n] = "moe" THEN ExpertFFN(n) \o Residual(n)
                                        ELSE FeedForward(n)
  OBVIOUS
<1>2. PICK d : d = Attention(n) \o b
  OBVIOUS
<1>3. d = Decoder(n)
  BY <1>1, <1>2 DEF Decoder
<1>. DEFINE A == LayerFresh \ {"o_proj"}
            B == LayerNames \ {"o_proj"}
            T == ({n} \X {"o_proj", "attention", "input"}) \cup {<<0, "embedding">>}
<1>4. Piece(b, n, A, B)
  <2>1. CASE Layers[n] = "moe"
    <3>1. Piece(b, n, RoutedFresh \cup {"sync_5", "sync_6"},
                RoutedNames \cup {"sync_5", "sync_6", "shared_expert_FFN", "decoder"})
      BY <1>1, <2>1, ExpertsOrderly
    <3>2. /\ RoutedFresh \cup {"sync_5", "sync_6"} \subseteq A
          /\ RoutedNames \cup {"sync_5", "sync_6", "shared_expert_FFN", "decoder"}
               \subseteq B
      BY DEF RoutedFresh, RoutedNames, LayerFresh, LayerNames
    <3>. HIDE DEF A, B
    <3>. QED  BY <3>1, <3>2, PieceMore
  <2>2. CASE Layers[n] # "moe"
    <3>1. Piece(b, n, {"ffn_out"}, {"input", "ffn_out", "all_reduce", "decoder"})
      BY <1>1, <2>2, FeedForwardOrderly
    <3>2. /\ {"ffn_out"} \subseteq A
          /\ {"input", "ffn_out", "all_reduce", "decoder"} \subseteq B
      BY DEF RoutedNames, LayerFresh, LayerNames
    <3>. HIDE DEF A, B
    <3>. QED  BY <3>1, <3>2, PieceMore
  <2>. QED  BY <2>1, <2>2
<1>5. PICK a : a = Attention(n)
  OBVIOUS
<1>6. /\ IsList(a) /\ Len(a) = 3 /\ Orderly(a) /\ WritesGuarded(a)
      /\ Within(a, {n} \X {"o_proj"}, T)
  BY <1>5, AttentionOrderly
<1>7. Joins(a, b, d) /\ IsList(d)
  BY <1>2, <1>4, <1>5, <1>6, ConcatJoins DEF Piece
<1>8. /\ ({n} \X {"o_proj"}) \cap ({n} \X B) = {}
      /\ ({n} \X A) \cap T = {}
  <2>1. "o_proj" \notin B /\ "o_proj" \notin A /\ "attention" \notin A
        /\ "input" \notin A /\ "embedding" \notin A
    BY DEF LayerFresh, RoutedFresh
  <2>. HIDE DEF A, B
  <2>. QED  BY <2>1
<1>9. /\ ({n} \X {"o_proj"}) \cup ({n} \X A) \subseteq {n} \X LayerFresh
      /\ T \cup ({n} \X B) \subseteq ({n} \X LayerNames) \cup {<<0, "embedding">>}
  <2>1. /\ "o_proj" \in LayerFresh /\ "o_proj" \in LayerNames
        /\ "attention" \in LayerNames /\ "input" \in LayerNames
    BY DEF LayerFresh, LayerNames, RoutedNames
  <2>2. A \subseteq LayerFresh /\ B \subseteq LayerNames
    OBVIOUS
  <2>. HIDE DEF A, B
  <2>. QED  BY <2>1, <2>2
<1>. HIDE DEF A, B, T
<1>10. /\ Orderly(d) /\ WritesGuarded(d)
       /\ Within(d, ({n} \X {"o_proj"}) \cup ({n} \X A), T \cup ({n} \X B))
  <2>1. Orderly(b) /\ WritesGuarded(b) /\ Within(b, {n} \X A, {n} \X B)
    BY <1>4 DEF Piece
  <2>2. PICK FA, FB, TB : FA = {n} \X {"o_proj"} /\ FB = {n} \X A /\ TB = {n} \X B
    OBVIOUS
  <2>3. /\ Within(a, FA, T) /\ Within(b, FB, TB) /\ Len(a) > 0
        /\ FA \cap TB = {} /\ FB \cap T = {}
    BY <1>6, <1>8, <2>1, <2>2
  <2>4. Orderly(d) /\ WritesGuarded(d) /\ Within(d, FA \cup FB, T \cup TB)
    BY <1>6, <1>7, <2>1, <2>3, Join
  <2>. QED  BY <2>2, <2>4
<1>11. Len(d) > 0
  BY <1>6, <1>7 DEF Joins
<1>. QED  BY <1>3, <1>7, <1>9, <1>10, <1>11, WithinMore
-----------------------------------------------------------------------------
(* All layers.                                                             *)

(* The definition of Decoders is that of a function.                       *)
LEMMA DecodersUnfold ==
  \A n \in 0 .. Len(Layers) :
    Decoders[n] = IF n = 0 THEN << >> ELSE Decoders[n - 1] \o Decoder(n)
<1>. DEFINE N == Len(Layers)
            Made(f, m) == f = [n \in 0 .. m |-> IF n = 0 THEN << >>
                                                ELSE f[n - 1] \o Decoder(n)]
            Good == {m \in 0 .. N : \E f : Made(f, m)}
<1>1. N \in Nat
  BY LayersAssumption
<1>2. 0 \in Good
  <2>1. PICK f : f = [n \in 0 .. 0 |-> << >>]
    OBVIOUS
  <2>2. Made(f, 0)
    <3>1. \A n \in 0 .. 0 : n = 0
      OBVIOUS
    <3>. QED  BY <2>1, <3>1
  <2>. QED  BY <1>1, <2>2
<1>3. ASSUME NEW m \in 0 .. N - 1, m \in Good
      PROVE  m + 1 \in Good
  <2>1. PICK f : Made(f, m)
    BY <1>3
  <2>2. PICK g : g = [n \in 0 .. m + 1 |-> IF n = m + 1 THEN f[m] \o Decoder(m + 1)
                                           ELSE f[n]]
    OBVIOUS
  <2>3. \A n \in 0 .. m : g[n] = f[n]
    BY <2>2
  <2>4. ASSUME NEW n \in 0 .. m + 1
        PROVE  g[n] = IF n = 0 THEN << >> ELSE g[n - 1] \o Decoder(n)
    <3>1. CASE n = m + 1
      <4>1. n # 0 /\ n - 1 = m /\ m \in 0 .. m
        BY <1>1, <3>1
      <4>a. g[n] = f[m] \o Decoder(m + 1)
        BY <2>2, <3>1
      <4>2. g[m] = f[m]
        BY <2>3, <4>1
      <4>. QED  BY <3>1, <4>1, <4>2, <4>a
    <3>2. CASE n # m + 1
      <4>1. n \in 0 .. m /\ g[n] = f[n]
        BY <2>3, <3>2
      <4>2. f[n] = IF n = 0 THEN << >> ELSE f[n - 1] \o Decoder(n)
        BY <2>1, <4>1
      <4>3. n # 0 => g[n - 1] = f[n - 1]
        BY <2>3, <4>1
      <4>. QED  BY <4>1, <4>2, <4>3
    <3>. QED  BY <3>1, <3>2
  <2>5. Made(g, m + 1)
    <3>1. g = [n \in 0 .. m + 1 |-> g[n]]
      BY <2>2
    <3>. QED  BY <2>4, <3>1
  <2>6. m + 1 \in 0 .. N
    BY <1>1
  <2>. QED  BY <2>5, <2>6
<1>4. N \in Good
  <2>1. N \in 0 .. N
    BY <1>1
  <2>. HIDE DEF Good, N
  <2>. QED  BY <1>1, <1>2, <1>3, <2>1, CountUp
<1>5. \E f : Made(f, N)
  BY <1>4
<1>6. Made(Decoders, N)
  BY <1>5 DEF Decoders
<1>. QED  BY <1>6

(* What stands in front of layer m + 1.                                    *)
Front(m) == << [Node(0, "Embedding_layer", "tokens", "embedding")
                  EXCEPT !.timed = FALSE] >> \o Decoders[m]

FrontOrderly(m) ==
  /\ IsList(Decoders[m]) /\ IsList(Front(m)) /\ Len(Front(m)) > 0
  /\ Orderly(Front(m))
  /\ Within(Front(m), (1 .. m) \X LayerFresh,
            ((0 .. m) \X LayerNames) \cup {<<0, "tokens">>, <<0, "embedding">>})

LEMMA ListsAssociate ==
  ASSUME NEW a, NEW b, NEW c, IsList(a), IsList(b), IsList(c)
  PROVE  (a \o b) \o c = a \o (b \o c)
<1>1. PICK S1, S2, S3 : a \in Seq(S1) /\ b \in Seq(S2) /\ c \in Seq(S3)
  BY DEF IsList
<1>2. PICK S : S = S1 \cup S2 \cup S3
  OBVIOUS
<1>3. Seq(S1) \subseteq Seq(S) /\ Seq(S2) \subseteq Seq(S) /\ Seq(S3) \subseteq Seq(S)
  BY <1>2, SeqMonotonic
<1>. QED  BY <1>1, <1>3, ConcatAssociative

(* A module that neither meets the others nor touches the counts, alone.   *)
LEMMA OneAlone ==
  ASSUME NEW g, Len(g) = 1, g[1].layer \in Nat, g[1].sync = FALSE,
         g[1].counts = "unused", NEW r, g[1].input = r, NEW w, g[1].output = w
  PROVE  Orderly(g) /\ WritesGuarded(g) /\ Within(g, {}, {r, w})
<1>1. \A i \in 1 .. Len(g) : i = 1
  OBVIOUS
<1>2. Plain(g)
  BY <1>1 DEF Plain
<1>3. PICK T : T = {r, w}
  OBVIOUS
<1>4. /\ \A i \in 1 .. Len(g) : g[i].output \in T
      /\ Len(g) > 0 => g[1].input \in T
  BY <1>1, <1>3
<1>. QED  BY <1>2, <1>3, <1>4, PlainOrderly

(* The embedding, alone.                                                   *)
LEMMA EmbeddingOrderly ==
  ASSUME NEW e, e = << [Node(0, "Embedding_layer", "tokens", "embedding")
                          EXCEPT !.timed = FALSE] >>
  PROVE  /\ IsList(e) /\ Len(e) = 1 /\ Orderly(e)
         /\ Within(e, {}, {<<0, "tokens">>, <<0, "embedding">>})
<1>1. PICK x : x = [Node(0, "Embedding_layer", "tokens", "embedding")
                      EXCEPT !.timed = FALSE]
  OBVIOUS
<1>2. /\ x.layer = 0 /\ x.sync = FALSE /\ x.counts = "unused"
      /\ x.input = <<0, "tokens">> /\ x.output = <<0, "embedding">>
  BY <1>1 DEF Node
<1>3. IsList(e) /\ Len(e) = 1 /\ e[1] = x
  BY <1>1, ShortLists
<1>4. Orderly(e) /\ Within(e, {}, {<<0, "tokens">>, <<0, "embedding">>})
  <2>1. PICK g : g = e
    OBVIOUS
  <2>2. Len(g) = 1 /\ g[1] = x
    BY <1>3, <2>1, Zenon
  <2>3. x.layer \in Nat
    BY <1>2
  <2>4. /\ g[1].layer \in Nat /\ g[1].sync = FALSE /\ g[1].counts = "unused"
        /\ g[1].input = <<0, "tokens">> /\ g[1].output = <<0, "embedding">>
    BY <1>2, <2>2, <2>3, Zenon
  <2>5. Orderly(g) /\ Within(g, {}, {<<0, "tokens">>, <<0, "embedding">>})
    BY <2>2, <2>4, OneAlone, Zenon
  <2>. QED  BY <2>1, <2>5, Zenon
<1>. QED  BY <1>3, <1>4

LEMMA LayersOrderly == \A m \in 0 .. Len(Layers) : FrontOrderly(m)
<1>. DEFINE Good == {m \in 0 .. Len(Layers) : FrontOrderly(m)}
            T(m) == ((0 .. m) \X LayerNames) \cup {<<0, "tokens">>, <<0, "embedding">>}
<1>1. Len(Layers) \in Nat
  BY LayersAssumption
<1>2. PICK e : e = << [Node(0, "Embedding_layer", "tokens", "embedding")
                         EXCEPT !.timed = FALSE] >>
  OBVIOUS
<1>3. /\ IsList(e) /\ Len(e) = 1 /\ Orderly(e)
      /\ Within(e, {}, {<<0, "tokens">>, <<0, "embedding">>})
  BY <1>2, EmbeddingOrderly
<1>4. \A m : Front(m) = e \o Decoders[m]
  BY <1>2 DEF Front
<1>5. FrontOrderly(0)
  <2>1. Decoders[0] = << >>
    BY <1>1, DecodersUnfold
  <2>2. IsList(<< >>)
    <3>1. << >> \in Seq({})
      OBVIOUS
    <3>. QED  BY <3>1 DEF IsList
  <2>3. e \o << >> = e
    BY <1>3, ConcatEmptySeq DEF IsList
  <2>4. Within(e, (1 .. 0) \X LayerFresh, T(0))
    BY <1>3, WithinMore
  <2>5. Front(0) = e
    BY <1>4, <2>1, <2>3
  <2>6. IsList(Decoders[0])
    BY <2>1, <2>2
  <2>7. /\ IsList(Front(0)) /\ Len(Front(0)) > 0 /\ Orderly(Front(0))
        /\ Within(Front(0), (1 .. 0) \X LayerFresh, T(0))
    BY <1>3, <2>4, <2>5
  <2>. QED  BY <2>6, <2>7 DEF FrontOrderly
<1>6. ASSUME NEW m \in 0 .. Len(Layers) - 1, FrontOrderly(m)
      PROVE  FrontOrderly(m + 1)
  <2>. DEFINE k == m + 1
              d == Decoder(k)
  <2>1. k \in Nat /\ k \in 0 .. Len(Layers) /\ k - 1 = m /\ k # 0
    BY <1>1
  <2>2. Decoders[k] = Decoders[m] \o d
    BY <2>1, DecodersUnfold
  <2>3. /\ IsList(d) /\ Len(d) > 0 /\ Orderly(d) /\ WritesGuarded(d)
        /\ Within(d, {k} \X LayerFresh, ({k} \X LayerNames) \cup {<<0, "embedding">>})
    BY <2>1, DecoderOrderly
  <2>. HIDE DEF d, k
  <2>4. IsList(Decoders[k]) /\ Front(k) = Front(m) \o d
    <3>1. IsList(Decoders[m]) /\ IsList(Decoders[m] \o d)
      BY <1>6, <2>3, ConcatJoins DEF FrontOrderly
    <3>2. (e \o Decoders[m]) \o d = e \o (Decoders[m] \o d)
      <4>1. PICK a, b, c : a = e /\ b = Decoders[m] /\ c = d
        OBVIOUS
      <4>2. IsList(a) /\ IsList(b) /\ IsList(c)
        BY <1>3, <2>3, <3>1, <4>1
      <4>3. (a \o b) \o c = a \o (b \o c)
        BY <4>2, ListsAssociate
      <4>. QED  BY <4>1, <4>3
    <3>3. Front(k) = e \o Decoders[k] /\ Front(m) = e \o Decoders[m]
      BY <1>4
    <3>. QED  BY <2>2, <3>1, <3>2, <3>3
  <2>5. Joins(Front(m), d, Front(k)) /\ IsList(Front(k))
    BY <1>6, <2>3, <2>4, ConcatJoins DEF FrontOrderly
  <2>6. PICK F, F2, T1, T2 :
          /\ F = (1 .. m) \X LayerFresh /\ F2 = {k} \X LayerFresh
          /\ T1 = T(m) /\ T2 = ({k} \X LayerNames) \cup {<<0, "embedding">>}
    OBVIOUS
  <2>7. F \cap T2 = {} /\ F2 \cap T1 = {}
    <3>1. m \in Nat /\ k \notin 0 .. m /\ k # 0 /\ k \notin 1 .. m
      BY <2>1
    <3>2. ASSUME NEW x \in F, x \in T2
          PROVE  FALSE
      <4>1. PICK j \in 1 .. m, w \in LayerFresh : x = <<j, w>>
        BY <2>6, <3>2
      <4>. QED  BY <2>6, <3>1, <3>2, <4>1
    <3>3. ASSUME NEW x \in F2, x \in T1
          PROVE  FALSE
      <4>1. PICK w \in LayerFresh : x = <<k, w>>
        BY <2>6, <3>3
      <4>. QED  BY <2>6, <3>1, <3>3, <4>1
    <3>. QED  BY <3>2, <3>3
  <2>8. F \cup F2 \subseteq (1 .. k) \X LayerFresh /\ T1 \cup T2 \subseteq T(k)
    <3>1. 1 .. m \subseteq 1 .. k /\ k \in 1 .. k /\ 0 .. m \subseteq 0 .. k /\ k \in 0 .. k
      BY <2>1
    <3>. QED  BY <2>6, <3>1
  <2>9. Within(Front(m), F, T1) /\ Within(d, F2, T2) /\ Len(Front(m)) > 0
        /\ Orderly(Front(m))
    BY <1>6, <2>3, <2>6 DEF FrontOrderly
  <2>10. Orderly(Front(k)) /\ Within(Front(k), F \cup F2, T1 \cup T2)
    BY <2>3, <2>5, <2>7, <2>9, Join
  <2>11. Len(Front(k)) > 0
    BY <2>5, <2>9 DEF Joins
  <2>12. Within(Front(k), (1 .. k) \X LayerFresh, T(k))
    BY <2>8, <2>10, WithinMore
  <2>13. FrontOrderly(k)
    BY <2>4, <2>5, <2>10, <2>11, <2>12 DEF FrontOrderly
  <2>. QED  BY <2>13 DEF k
<1>7. 0 \in Good /\ \A m \in 0 .. Len(Layers) - 1 : m \in Good => m + 1 \in Good
  BY <1>1, <1>5, <1>6
<1>. HIDE DEF Good
<1>8. \A m \in 0 .. Len(Layers) : m \in Good
  BY <1>1, <1>7, CountUp
<1>. QED  BY <1>8 DEF Good

(* The whole list is orderly, for any layers.                              *)
THEOREM GraphOrderly == Orderly(LLM) /\ Len(LLM) \in Nat \ {0}
<1>. DEFINE N == Len(Layers)
            x == [Node(N, "lm_head", "decoder", "lm_head") EXCEPT !.timed = FALSE]
            b == <<x>>
<1>1. N \in Nat /\ N \in 0 .. N
  BY LayersAssumption
<1>2. /\ x.layer = N /\ x.sync = FALSE /\ x.counts = "unused"
      /\ x.input = <<N, "decoder">> /\ x.output = <<N, "lm_head">>
  BY DEF Node
<1>3. LLM = Front(N) \o b
  BY DEF LLM, Front
<1>. HIDE DEF x
<1>4. IsList(b) /\ Len(b) = 1 /\ b[1] = x
  BY ShortLists
<1>5. Plain(b)
  BY <1>1, <1>2, <1>4 DEF Plain
<1>. HIDE DEF b, N
<1>6. FrontOrderly(N)
  BY <1>1, LayersOrderly DEF N
<1>7. PICK h, g, F, T, T2 :
        /\ h = LLM /\ g = Front(N) /\ F = (1 .. N) \X LayerFresh
        /\ T = ((0 .. N) \X LayerNames) \cup {<<0, "tokens">>, <<0, "embedding">>}
        /\ T2 = {<<N, "decoder">>, <<N, "lm_head">>}
  OBVIOUS
<1>8. Orderly(b) /\ WritesGuarded(b) /\ Within(b, {}, T2)
  <2>1. /\ \A i \in 1 .. Len(b) : b[i].output \in T2
        /\ Len(b) > 0 => b[1].input \in T2
    BY <1>2, <1>4, <1>7
  <2>. QED  BY <1>5, <2>1, PlainOrderly
<1>9. Joins(g, b, h)
  BY <1>3, <1>4, <1>6, <1>7, ConcatJoins DEF FrontOrderly
<1>10. Orderly(g) /\ Len(g) > 0 /\ Within(g, F, T)
  BY <1>6, <1>7 DEF FrontOrderly
<1>11. F \cap T2 = {} /\ {} \cap T = {}
  <2>1. "decoder" \notin LayerFresh /\ "lm_head" \notin LayerFresh
    BY DEF LayerFresh, RoutedFresh
  <2>. QED  BY <1>7, <2>1
<1>12. Orderly(h)
  BY <1>8, <1>9, <1>10, <1>11, Join
<1>13. Len(h) \in Nat \ {0}
  BY <1>9, <1>10 DEF Joins
<1>. QED  BY <1>7, <1>12, <1>13
-----------------------------------------------------------------------------

(* The predicates of the first part, for the graph the devices run.        *)
Places == 1 .. Len(Graph)

SyncAt(i) == i \in Places /\ Graph[i].sync

Fresh(i) ==
  /\ SyncAt(i) /\ i > 1 /\ ~Graph[i - 1].sync
  /\ Graph[i].input # FirstInput
  /\ \A j \in 1 .. i - 2 : Graph[j].output # Graph[i].input
  /\ \A j \in Places : SyncAt(j) /\ j # i => Graph[j].input # Graph[i].input

FreshForAll(i) == Fresh(i) /\ Graph[i].device_list = "all"

Stale(i) == SyncAt(i) /\ i > 1 /\ FreshForAll(i - 1) /\ ~Graph[i - 1].timed

Writes(i) == i \in Places /\ Graph[i].counts = "written"

(* A reader of the counts comes after the writer of its layer and after a  *)
(* sync of all devices that follows the writer; and before the next writer *)
(* there is such a sync again.                                             *)
ReadsOrdered(q) ==
  /\ \E w \in 1 .. q - 1 :
       /\ Writes(w) /\ Graph[w].layer = Graph[q].layer
       /\ \A v \in w + 1 .. q : ~Writes(v)
       /\ \E s \in w + 1 .. q : FreshForAll(s)
  /\ \A w \in Places : Writes(w) /\ w > q => \E s \in q + 1 .. w : FreshForAll(s)

(* What the proofs need to know of the graph.                              *)
GraphOK ==
  /\ Len(Graph) \in Nat \ {0}
  /\ \A i \in Places : Graph[i].layer \in Nat
  /\ \A i \in Places : SyncAt(i) => /\ Graph[i].device_list \in {"ne_tp", "e_tp", "all"}
                                    /\ Fresh(i) \/ Stale(i)
  /\ \A q \in Places : Graph[q].counts = "read" => ReadsOrdered(q)
-----------------------------------------------------------------------------
(* The parts of the invariant.                                             *)

(* A tensor is ready when a module that the device has run has set it.     *)
ReadyOK ==
  \A e \in Devices : \A t \in ready[e] :
    t = FirstInput \/ \E k \in 1 .. current_module[e] - 1 : Graph[k].output = t

(* No device is past a fresh sync that another of its list has not reached.*)
OrderOK ==
  \A i \in Places : \A d \in Devices : \A e \in device_list(Graph[i], d) :
    Fresh(i) /\ current_module[d] > i => current_module[e] >= i

(* Some device of d's list is past sync i.                                 *)
Passed(i, d) == \E e \in device_list(Graph[i], d) : current_module[e] > i

(* A device has a mark exactly for a sync it has before it and another of  *)
(* the list has behind it.                                                 *)
MarksOK ==
  \A e \in Devices : \A t \in Tensors :
    t \in timeboard_synced[e] <=>
      \E i \in Places : /\ SyncAt(i) /\ Graph[i].input = t
                        /\ current_module[e] <= i /\ Passed(i, e)

(* Devices that stand before a sync already set, or have it as their last, *)
(* have the same time for it: on their clock, or when they left it.        *)
LastIs(d, i) == /\ current_module[d] > i
                /\ \A k \in i + 1 .. current_module[d] - 1 : ~SyncAt(k)

TimeFor(d, i) == IF current_module[d] > i THEN left[d] ELSE device_time[d]

AgreeOK ==
  \A i \in Places : \A d \in Devices : \A e \in device_list(Graph[i], d) :
    /\ SyncAt(i) /\ Passed(i, d)
    /\ current_module[d] <= i \/ LastIs(d, i)
    /\ current_module[e] <= i \/ LastIs(e, i)
    => TimeFor(d, i) = TimeFor(e, i)

(* Right after a sync in which no time passes the clock has not moved.     *)
StillOK ==
  \A d \in Devices :
    current_module[d] > 1 /\ SyncAt(current_module[d] - 1)
      /\ ~Graph[current_module[d] - 1].timed => device_time[d] = left[d]

(* The counts in place are those of the last writer device 0 has run.      *)
CountsOK ==
  \A w \in Places :
    /\ Writes(w) /\ w < current_module[0]
    /\ \A v \in w + 1 .. current_module[0] - 1 : ~Writes(v)
    => num_token_in_expert = <<iteration, Graph[w].layer>>

GraphInv == TypeOK /\ ReadyOK /\ OrderOK /\ MarksOK /\ AgreeOK /\ StillOK /\ CountsOK
-----------------------------------------------------------------------------
(* Lists of devices.                                                       *)

LEMMA ListOf ==
  ASSUME GraphOK, NEW i, SyncAt(i), NEW d \in Devices
  PROVE  /\ device_list(Graph[i], d) \subseteq Devices
         /\ d \in device_list(Graph[i], d)
         /\ \A e \in device_list(Graph[i], d) :
              device_list(Graph[i], e) = device_list(Graph[i], d)
         /\ Graph[i].device_list = "all" => device_list(Graph[i], d) = Devices
<1>1. Graph[i].device_list \in {"ne_tp", "e_tp", "all"}
  BY DEF GraphOK, SyncAt
<1>2. CASE Graph[i].device_list = "ne_tp"
  <2>1. \A e : device_list(Graph[i], e) = GroupOf(e, ne_tp_dg)
    BY <1>2 DEF device_list
  <2>. QED  BY <1>2, <2>1 DEF GroupOf
<1>3. CASE Graph[i].device_list = "e_tp"
  <2>1. \A e : device_list(Graph[i], e) = GroupOf(e, e_tp_dg)
    BY <1>3 DEF device_list
  <2>. QED  BY <1>3, <2>1 DEF GroupOf
<1>4. CASE Graph[i].device_list = "all"
  <2>1. \A e : device_list(Graph[i], e) = Devices
    BY <1>4 DEF device_list
  <2>. QED  BY <2>1
<1>. QED  BY <1>1, <1>2, <1>3, <1>4

LEMMA DevicesFinite ==
  /\ 0 \in Devices /\ IsFiniteSet(Devices)
  /\ \A d \in Devices : d \in Int
BY DeviceAssumption, FS_Interval DEF Devices

LEMMA FreshNotStale ==
  ASSUME NEW i, Fresh(i)
  PROVE  ~Stale(i)
BY DEF Fresh, Stale, FreshForAll, SyncAt

(* A fresh tensor is ready on no device that has not come to the sync.     *)
LEMMA ReadyMeansReached ==
  ASSUME GraphOK, TypeOK, ReadyOK, NEW i, Fresh(i), NEW e \in Devices,
         Graph[i].input \in ready[e]
  PROVE  current_module[e] >= i
<1>1. /\ i \in Places /\ i \in Nat /\ Graph[i].input # FirstInput
      /\ \A j \in 1 .. i - 2 : Graph[j].output # Graph[i].input
  BY DEF Fresh, SyncAt, Places
<1>2. PICK k \in 1 .. current_module[e] - 1 : Graph[k].output = Graph[i].input
  BY <1>1 DEF ReadyOK
<1>3. k \notin 1 .. i - 2
  BY <1>1, <1>2
<1>4. current_module[e] \in Nat
  BY DEF TypeOK, GraphOK
<1>. QED  BY <1>1, <1>2, <1>3, <1>4

(* No device is more than one sync ahead of another of the list, and that  *)
(* only where the sync it has passed is stale.                             *)
LEMMA PassedOrder ==
  ASSUME GraphOK, TypeOK, OrderOK, NEW i, SyncAt(i), NEW d \in Devices,
         Passed(i, d)
  PROVE  /\ Fresh(i) => \A e \in device_list(Graph[i], d) : current_module[e] >= i
         /\ Stale(i) => \A e \in Devices : current_module[e] >= i - 1
<1>1. i \in Places /\ i \in Nat /\ current_module \in [Devices -> Nat]
  BY DEF SyncAt, Places, TypeOK, GraphOK
<1>2. PICK h \in device_list(Graph[i], d) : current_module[h] > i
  BY DEF Passed
<1>3. h \in Devices /\ device_list(Graph[i], h) = device_list(Graph[i], d)
  BY <1>2, ListOf
<1>4. ASSUME Fresh(i), NEW e \in device_list(Graph[i], d)
      PROVE  current_module[e] >= i
  BY <1>1, <1>2, <1>3, <1>4 DEF OrderOK
<1>5. ASSUME Stale(i), NEW e \in Devices
      PROVE  current_module[e] >= i - 1
  <2>1. /\ FreshForAll(i - 1) /\ SyncAt(i - 1) /\ i - 1 \in Places
    BY <1>5 DEF Stale, FreshForAll, Fresh, SyncAt
  <2>2. e \in device_list(Graph[i - 1], h)
    BY <1>3, <2>1, ListOf DEF FreshForAll
  <2>3. current_module[h] > i - 1
    BY <1>1, <1>2, <1>3
  <2>. QED  BY <1>3, <2>1, <2>2, <2>3 DEF OrderOK, FreshForAll
<1>. QED  BY <1>4, <1>5

(* Nobody has passed a sync behind the next one yet: the only one that     *)
(* others may have passed ahead is the stale sync right behind a Sync.     *)
LEMMA PassedAhead ==
  ASSUME GraphOK, TypeOK, OrderOK, NEW d \in Devices, NEW j, SyncAt(j),
         Passed(j, d), current_module[d] < j
  PROVE  /\ j = current_module[d] + 1 /\ Stale(j)
         /\ FreshForAll(current_module[d]) /\ Passed(current_module[d], d)
<1>. DEFINE i == current_module[d]
<1>1. i \in Nat /\ j \in Nat /\ j \in Places
  BY DEF TypeOK, GraphOK, SyncAt, Places
<1>2. ~Fresh(j)
  <2>1. d \in device_list(Graph[j], d)
    BY ListOf
  <2>. QED  BY <1>1, <2>1, PassedOrder
<1>3. Stale(j)
  BY <1>1, <1>2 DEF GraphOK
<1>4. i >= j - 1
  BY <1>3, PassedOrder
<1>5. j = i + 1 /\ i = j - 1
  BY <1>1, <1>4
<1>6. FreshForAll(i) /\ SyncAt(i)
  BY <1>3, <1>5 DEF Stale, FreshForAll, Fresh
<1>7. PICK h \in device_list(Graph[j], d) : current_module[h] > j
  BY DEF Passed
<1>8. h \in device_list(Graph[i], d) /\ current_module[h] > i
  <2>1. h \in Devices /\ device_list(Graph[i], d) = Devices
    BY <1>6, <1>7, ListOf DEF FreshForAll
  <2>2. current_module[h] \in Nat
    BY <2>1 DEF TypeOK, GraphOK
  <2>. QED  BY <1>1, <1>5, <1>7, <2>1, <2>2
<1>9. Passed(i, d)
  BY <1>8 DEF Passed
<1>. QED  BY <1>3, <1>5, <1>6, <1>9

(* Marks for a later sync on the same tensor are not there yet.            *)
LEMMA OneSyncPerMark ==
  ASSUME GraphOK, TypeOK, OrderOK, NEW d \in Devices,
         SyncAt(current_module[d]), NEW j, SyncAt(j), current_module[d] < j,
         Graph[j].input = Graph[current_module[d]].input
  PROVE  ~Passed(j, d)
<1>. SUFFICES ASSUME Passed(j, d)
              PROVE  FALSE
  OBVIOUS
<1>1. Fresh(current_module[d])
  BY PassedAhead DEF FreshForAll
<1>2. j \in Places /\ j # current_module[d]
  BY DEF SyncAt, TypeOK, GraphOK, Places
<1>. QED  BY <1>1, <1>2 DEF Fresh

(* A device finds the mark of the sync it stands at exactly when another   *)
(* of the list has passed it.                                              *)
LEMMA MarkIsOfThisSync ==
  ASSUME GraphOK, TypeOK, OrderOK, MarksOK, NEW d \in Devices,
         SyncAt(current_module[d])
  PROVE  IsMarked(d) <=> Passed(current_module[d], d)
<1>. DEFINE i == current_module[d]
<1>1. i \in Places /\ i \in Nat /\ Graph[i].input \in Tensors
  BY DEF SyncAt, Places, Tensors
<1>2. IsMarked(d) <=> Graph[i].input \in timeboard_synced[d]
  BY DEF IsMarked, Module
<1>3. ASSUME Passed(i, d)
      PROVE  IsMarked(d)
  BY <1>1, <1>2, <1>3 DEF MarksOK
<1>4. ASSUME IsMarked(d)
      PROVE  Passed(i, d)
  <2>1. PICK j \in Places : /\ SyncAt(j) /\ Graph[j].input = Graph[i].input
                            /\ i <= j /\ Passed(j, d)
    BY <1>1, <1>2, <1>4 DEF MarksOK
  <2>2. ~(i < j)
    BY <2>1, OneSyncPerMark
  <2>3. j = i
    BY <1>1, <2>1, <2>2 DEF Places
  <2>. QED  BY <2>1, <2>3
<1>. QED  BY <1>3, <1>4
-----------------------------------------------------------------------------
(* What a step of the graph does to the device whose turn it is.           *)

LEMMA ForwardMoves ==
  ASSUME GraphOK, TypeOK, Remains(turn), NEW clocks \in [Devices -> Nat],
         Forward(turn, clocks)
  PROVE  /\ current_module[turn] \in Places
         /\ current_module' = [current_module EXCEPT
                                 ![turn] = current_module[turn] + 1]
         /\ current_module' \in [Devices -> 1 .. Len(Graph) + 1]
         /\ ready' \in [Devices -> SUBSET Tensors]
         /\ device_time' \in [Devices -> Nat]
         /\ \A e \in Devices \ {turn} : device_time'[e] = clocks[e]
         /\ ~Module(turn).timed => device_time'[turn] = clocks[turn]
         /\ num_token_in_expert' \in {0, 1} \X Nat
<1>. USE DEF TypeOK
<1>1. current_module[turn] \in Places /\ Len(Graph) \in Nat
  BY DEF Remains, Places, GraphOK
<1>2. /\ current_module' = [current_module EXCEPT ![turn] = current_module[turn] + 1]
      /\ current_module' \in [Devices -> 1 .. Len(Graph) + 1]
  BY <1>1 DEF Forward, Places
<1>3. ready' \in [Devices -> SUBSET Tensors]
  <2>1. Module(turn).output \in Tensors
    BY <1>1 DEF Module, Tensors, Places
  <2>. QED  BY <2>1 DEF Forward
<1>4. PICK t \in (IF Module(turn).timed THEN Durations ELSE {0}) :
        device_time' = [clocks EXCEPT ![turn] = @ + t]
  BY DEF Forward
<1>5. t \in Nat /\ (~Module(turn).timed => t = 0)
  BY DeviceAssumption
<1>6. /\ device_time' \in [Devices -> Nat]
      /\ \A e \in Devices \ {turn} : device_time'[e] = clocks[e]
      /\ ~Module(turn).timed => device_time'[turn] = clocks[turn]
  BY <1>4, <1>5
<1>7. num_token_in_expert' \in {0, 1} \X Nat
  BY <1>1 DEF Forward, Module, GraphOK
<1>. QED  BY <1>1, <1>2, <1>3, <1>6, <1>7

LEMMA LatestIsNat ==
  ASSUME TypeOK, NEW d \in Devices, device_list(Module(d), d) \subseteq Devices,
         d \in device_list(Module(d), d)
  PROVE  /\ LatestTime(d) \in Nat
         /\ \A t : (\A e \in device_list(Module(d), d) : device_time[e] = t)
                      => LatestTime(d) = t
<1>. DEFINE S == {device_time[e] : e \in device_list(Module(d), d)}
<1>1. S \subseteq Nat /\ S # {}
  BY DEF TypeOK
<1>2. IsFiniteSet(S)
  <2>1. IsFiniteSet(device_list(Module(d), d))
    BY DevicesFinite, FS_Subset
  <2>. QED  BY <2>1, ImageFinite
<1>3. LatestTime(d) = Max(S)
  BY DEF LatestTime
<1>. HIDE DEF S
<1>4. LatestTime(d) \in S
  <2>1. S \subseteq Int
    BY <1>1
  <2>. QED  BY <1>1, <1>2, <1>3, <2>1, MaxIsGreatest
<1>. QED  BY <1>1, <1>4 DEF S
(* A stale sync that no device of the list has passed finds all its clocks *)
(* as the Sync before it has left them: setting them moves none.           *)
LEMMA StaleClocks ==
  ASSUME GraphOK, GraphInv, NEW d \in Devices, NEW i, i = current_module[d],
         Stale(i), ~Passed(i, d), NEW e \in device_list(Graph[i], d)
  PROVE  device_time[e] = left[d]
<1>. USE DEF GraphInv
<1>1. /\ SyncAt(i) /\ i \in Nat /\ i > 1 /\ SyncAt(i - 1) /\ FreshForAll(i - 1)
      /\ ~Graph[i - 1].timed /\ i - 1 \in Places
  BY DEF Stale, FreshForAll, Fresh, SyncAt, Places
<1>2. e \in Devices /\ device_list(Graph[i - 1], d) = Devices
  BY <1>1, ListOf DEF FreshForAll
<1>3. current_module[e] \in Nat /\ current_module[e] <= i
  <2>1. ~(current_module[e] > i)
    BY DEF Passed
  <2>. QED  BY <1>1, <1>2, <2>1, SMTT(60) DEF TypeOK, GraphOK
<1>4. Passed(i - 1, d) /\ LastIs(d, i - 1)
  BY <1>1, <1>2 DEF Passed, LastIs
<1>5. current_module[e] >= i - 1
  BY <1>1, <1>2, <1>4, PassedOrder DEF FreshForAll
<1>6. current_module[e] <= i - 1 \/ LastIs(e, i - 1)
  BY <1>1, <1>3, <1>5 DEF LastIs
<1>7. TimeFor(d, i - 1) = TimeFor(e, i - 1)
  BY <1>1, <1>2, <1>4, <1>6 DEF AgreeOK
<1>8. TimeFor(d, i - 1) = left[d]
  BY <1>1 DEF TimeFor
<1>9. CASE current_module[e] = i - 1
  BY <1>1, <1>7, <1>8, <1>9 DEF TimeFor
<1>10. CASE current_module[e] = i
  <2>1. device_time[e] = left[e]
    BY <1>1, <1>2, <1>10 DEF StillOK
  <2>. QED  BY <1>1, <1>7, <1>8, <1>10, <2>1 DEF TimeFor
<1>. QED  BY <1>1, <1>3, <1>5, <1>9, <1>10

LEMMA SyncMoves ==
  ASSUME GraphOK, GraphInv, RunSync, NEW i, i = current_module[turn],
         NEW L, L = device_list(Graph[i], turn)
  PROVE  /\ SyncAt(i) /\ i \in Nat /\ L \subseteq Devices /\ turn \in L
         /\ \A e \in L : device_list(Graph[i], e) = L
         /\ Fresh(i) => \A e \in L : current_module[e] >= i
         /\ ~Passed(i, turn) => \A e \in L : current_module[e] <= i
         /\ timeboard_synced' =
              [e \in Devices |->
                 IF e = turn THEN timeboard_synced[e] \ {Graph[i].input}
                 ELSE IF ~Passed(i, turn) /\ e \in L
                      THEN timeboard_synced[e] \cup {Graph[i].input}
                 ELSE timeboard_synced[e]]
         /\ left' = [left EXCEPT ![turn] = left'[turn]] /\ left'[turn] \in Nat
         /\ ~Graph[i].timed => device_time'[turn] = left'[turn]
         /\ \A e \in Devices \ {turn} :
              device_time'[e] = IF ~Passed(i, turn) /\ e \in L THEN left'[turn]
                                ELSE device_time[e]
         /\ Passed(i, turn) => left'[turn] = device_time[turn]
         /\ ~Passed(i, turn) /\ Stale(i) =>
              \A e \in L : device_time[e] = left'[turn]
         /\ current_module' = [current_module EXCEPT ![turn] = i + 1]
         /\ current_module' \in [Devices -> 1 .. Len(Graph) + 1]
         /\ ready' \in [Devices -> SUBSET Tensors]
         /\ device_time' \in [Devices -> Nat]
         /\ num_token_in_expert' \in {0, 1} \X Nat
<1>. USE DEF GraphInv
<1>0. turn \in Devices
  BY DEF TypeOK
<1>1. SyncAt(i) /\ i \in Nat /\ Module(turn) = Graph[i]
  BY DEF RunSync, Remains, Module, SyncAt, Places, TypeOK, GraphOK
<1>2. /\ L \subseteq Devices /\ turn \in L
      /\ \A e \in L : device_list(Graph[i], e) = L
  BY <1>0, <1>1, ListOf
<1>3. \A e \in L : Graph[i].input \in ready[e]
  BY <1>1 DEF RunSync, CheckReady, CheckListReady
<1>4. Fresh(i) => \A e \in L : current_module[e] >= i
  BY <1>2, <1>3, ReadyMeansReached
<1>5. ~Passed(i, turn) => \A e \in L : current_module[e] <= i
  <2>1. \A e \in L : current_module[e] \in Nat
    BY <1>2 DEF TypeOK, GraphOK
  <2>. QED  BY <1>1, <2>1 DEF Passed
<1>6. IsMarked(turn) <=> Passed(i, turn)
  BY <1>0, <1>1, MarkIsOfThisSync
<1>7. timeboard_synced' =
        [e \in Devices |->
           IF e = turn THEN timeboard_synced[e] \ {Graph[i].input}
           ELSE IF ~Passed(i, turn) /\ e \in L
                THEN timeboard_synced[e] \cup {Graph[i].input}
           ELSE timeboard_synced[e]]
  BY <1>1, <1>6 DEF RunSync, MarksAfter
<1>8. LatestTime(turn) \in Nat
  BY <1>0, <1>1, <1>2, LatestIsNat
<1>9. /\ ClocksAfter(turn) \in [Devices -> Nat]
      /\ \A e \in Devices : ClocksAfter(turn)[e] =
           IF ~Passed(i, turn) /\ e \in L THEN LatestTime(turn) ELSE device_time[e]
  BY <1>1, <1>6, <1>8 DEF ClocksAfter, TypeOK
<1>10. left' = [left EXCEPT ![turn] = left'[turn]] /\ left'[turn] = ClocksAfter(turn)[turn]
  BY <1>0 DEF RunSync, TypeOK
<1>11. Remains(turn) /\ Forward(turn, ClocksAfter(turn))
  BY DEF RunSync
<1>12. /\ current_module' = [current_module EXCEPT ![turn] = i + 1]
       /\ current_module' \in [Devices -> 1 .. Len(Graph) + 1]
       /\ ready' \in [Devices -> SUBSET Tensors]
       /\ device_time' \in [Devices -> Nat]
       /\ num_token_in_expert' \in {0, 1} \X Nat
       /\ \A e \in Devices \ {turn} : device_time'[e] = ClocksAfter(turn)[e]
       /\ ~Graph[i].timed => device_time'[turn] = ClocksAfter(turn)[turn]
  BY <1>1, <1>9, <1>11, ForwardMoves
<1>13. ASSUME ~Passed(i, turn)
       PROVE  left'[turn] = LatestTime(turn)
  BY <1>0, <1>2, <1>9, <1>10, <1>13
<1>14. ASSUME ~Passed(i, turn), Stale(i)
       PROVE  \A e \in L : device_time[e] = left'[turn]
  <2>1. \A e \in L : device_time[e] = left[turn]
    BY <1>0, <1>14, StaleClocks
  <2>2. LatestTime(turn) = left[turn]
    BY <1>0, <1>1, <1>2, <2>1, LatestIsNat
  <2>. QED  BY <1>13, <1>14, <2>1, <2>2
<1>15. left'[turn] \in Nat /\ (Passed(i, turn) => left'[turn] = device_time[turn])
  BY <1>0, <1>9, <1>10
<1>16. \A e \in Devices \ {turn} :
         device_time'[e] = IF ~Passed(i, turn) /\ e \in L THEN left'[turn]
                           ELSE device_time[e]
  BY <1>9, <1>12, <1>13
<1>17. ~Graph[i].timed => device_time'[turn] = left'[turn]
  BY <1>10, <1>12
<1>. QED  BY <1>1, <1>2, <1>4, <1>5, <1>7, <1>10, <1>12, <1>14, <1>15, <1>16, <1>17
LEMMA ModuleMoves ==
  ASSUME GraphOK, GraphInv, RunModule, NEW i, i = current_module[turn]
  PROVE  /\ turn \in Devices /\ i \in Places /\ i \in Nat /\ ~SyncAt(i)
         /\ current_module' = [current_module EXCEPT ![turn] = i + 1]
         /\ current_module' \in [Devices -> 1 .. Len(Graph) + 1]
         /\ ready' \in [Devices -> SUBSET Tensors]
         /\ device_time' \in [Devices -> Nat]
         /\ \A e \in Devices \ {turn} : device_time'[e] = device_time[e]
         /\ num_token_in_expert' \in {0, 1} \X Nat
         /\ UNCHANGED <<turn, timeboard_synced, left, iteration>>
<1>1. turn \in Devices /\ device_time \in [Devices -> Nat]
  BY DEF GraphInv, TypeOK
<1>2. Remains(turn) /\ Forward(turn, device_time)
  BY DEF RunModule
<1>3. /\ i \in Places
      /\ current_module' = [current_module EXCEPT ![turn] = i + 1]
      /\ current_module' \in [Devices -> 1 .. Len(Graph) + 1]
      /\ ready' \in [Devices -> SUBSET Tensors]
      /\ device_time' \in [Devices -> Nat]
      /\ \A e \in Devices \ {turn} : device_time'[e] = device_time[e]
      /\ num_token_in_expert' \in {0, 1} \X Nat
  BY <1>1, <1>2, ForwardMoves DEF GraphInv
<1>4. ~SyncAt(i)
  BY DEF RunModule, Module, SyncAt
<1>5. UNCHANGED <<turn, timeboard_synced, left, iteration>>
  BY DEF RunModule, Forward
<1>. QED  BY <1>1, <1>3, <1>4, <1>5 DEF Places

(* Who has passed what after a step.                                       *)
LEMMA PassedAfter ==
  ASSUME GraphOK, GraphInv, NEW i \in Nat, i = current_module[turn],
         current_module' = [current_module EXCEPT ![turn] = i + 1],
         NEW j, SyncAt(j), NEW d \in Devices
  PROVE  Passed(j, d)' <=> Passed(j, d) \/ (j = i /\ turn \in device_list(Graph[j], d))
<1>1. /\ j \in Nat /\ device_list(Graph[j], d) \subseteq Devices
      /\ current_module \in [Devices -> Nat] /\ turn \in Devices
  <2>1. device_list(Graph[j], d) \subseteq Devices
    BY ListOf
  <2>. QED  BY <2>1 DEF GraphInv, TypeOK, GraphOK, SyncAt, Places
<1>2. Passed(j, d)' <=> \E e \in device_list(Graph[j], d) : current_module'[e] > j
  BY DEF Passed
<1>3. \A e \in Devices : current_module'[e] = IF e = turn THEN i + 1 ELSE current_module[e]
  BY <1>1
<1>4. \A e \in device_list(Graph[j], d) :
        current_module'[e] > j <=> current_module[e] > j \/ (e = turn /\ j = i)
  BY <1>1, <1>3
<1>. QED  BY <1>2, <1>4 DEF Passed
-----------------------------------------------------------------------------
(* Each part of the invariant is kept by a module and by a sync.           *)

LEMMA NextType ==
  ASSUME GraphOK, GraphInv, [Next]_vars
  PROVE  TypeOK'
<1>. USE DEF GraphInv
<1>1. CASE RunModule
  BY <1>1, ModuleMoves DEF TypeOK
<1>2. CASE RunSync
  <2>1. timeboard_synced' \in [Devices -> SUBSET Tensors]
    <3>1. /\ SyncAt(current_module[turn])
          /\ timeboard_synced' =
              [e \in Devices |->
                 IF e = turn
                 THEN timeboard_synced[e] \ {Graph[current_module[turn]].input}
                 ELSE IF /\ ~Passed(current_module[turn], turn)
                         /\ e \in device_list(Graph[current_module[turn]], turn)
                      THEN timeboard_synced[e] \cup {Graph[current_module[turn]].input}
                 ELSE timeboard_synced[e]]
      BY <1>2, SyncMoves
    <3>2. Graph[current_module[turn]].input \in Tensors
      BY <3>1 DEF SyncAt, Places, Tensors
    <3>. QED  BY <3>1, <3>2 DEF TypeOK
  <2>2. left' \in [Devices -> Nat]
    <3>1. left' = [left EXCEPT ![turn] = left'[turn]] /\ left'[turn] \in Nat
      BY <1>2, SyncMoves
    <3>. QED  BY <3>1 DEF TypeOK
  <2>3. UNCHANGED <<turn, iteration>>
    BY <1>2 DEF RunSync, Forward
  <2>. QED  BY <1>2, <2>1, <2>2, <2>3, SyncMoves DEF TypeOK
<1>3. CASE GoOn
  <2>1. turn' \in Devices
    BY <1>3, DeviceAssumption DEF GoOn, NextDevice, Devices, TypeOK
  <2>. QED  BY <1>3, <2>1 DEF GoOn, TypeOK
<1>4. CASE Restart
  <2>1. FirstInput \in Tensors /\ 1 \in 1 .. Len(Graph) + 1
    BY DEF FirstInput, Tensors, GraphOK
  <2>2. UNCHANGED <<turn, timeboard_synced, num_token_in_expert>>
    BY <1>4 DEF Restart
  <2>3. iteration' \in {0, 1}
    BY <1>4 DEF Restart, TypeOK
  <2>4. current_module' \in [Devices -> 1 .. Len(Graph) + 1]
    BY <1>4, <2>1 DEF Restart
  <2>5. ready' \in [Devices -> SUBSET Tensors]
    BY <1>4, <2>1 DEF Restart, ReadyAfterRestart
  <2>6. device_time' \in [Devices -> Nat] /\ left' \in [Devices -> Nat]
    BY <1>4 DEF Restart
  <2>. QED  BY <2>2, <2>3, <2>4, <2>5, <2>6 DEF TypeOK
<1>5. CASE UNCHANGED vars
  BY <1>5 DEF vars, TypeOK
<1>. QED  BY <1>1, <1>2, <1>3, <1>4, <1>5 DEF Next

(* What holds of a step of the device whose turn it is, module or sync.    *)
LEMMA StepMoves ==
  ASSUME GraphOK, GraphInv, RunModule \/ RunSync, NEW i, i = current_module[turn]
  PROVE  /\ turn \in Devices /\ i \in Places /\ i \in Nat
         /\ current_module' = [current_module EXCEPT ![turn] = i + 1]
         /\ current_module \in [Devices -> Nat]
         /\ ready' = [ready EXCEPT ![turn] = @ \cup {Graph[i].output}]
         /\ num_token_in_expert' = IF Graph[i].counts = "written" /\ turn = 0
                                   THEN <<iteration, Graph[i].layer>>
                                   ELSE num_token_in_expert
         /\ UNCHANGED <<turn, iteration>>
<1>1. turn \in Devices /\ current_module \in [Devices -> Nat]
  BY DEF GraphInv, TypeOK, GraphOK
<1>2. Remains(turn) /\ \E c : Forward(turn, c)
  BY DEF RunModule, RunSync
<1>3. i \in Places
  BY <1>2 DEF Remains, Places, GraphInv, TypeOK, GraphOK
<1>. QED  BY <1>1, <1>2, <1>3 DEF Forward, Module, Places

LEMMA StepReady ==
  ASSUME GraphOK, GraphInv, RunModule \/ RunSync
  PROVE  ReadyOK'
<1>. DEFINE i == current_module[turn]
<1>1. /\ turn \in Devices /\ i \in Places /\ i \in Nat
      /\ current_module' = [current_module EXCEPT ![turn] = i + 1]
      /\ current_module \in [Devices -> Nat]
      /\ ready' = [ready EXCEPT ![turn] = @ \cup {Graph[i].output}]
  BY StepMoves
<1>2. ready \in [Devices -> SUBSET Tensors]
  BY DEF GraphInv, TypeOK
<1>3. ASSUME NEW e \in Devices, NEW t \in ready'[e]
      PROVE  t = FirstInput \/ \E k \in 1 .. current_module'[e] - 1 : Graph[k].output = t
  <2>. HIDE DEF i
  <2>1. CASE t \in ready[e]
    <3>1. current_module[e] \in Nat /\ current_module'[e] \in Nat
          /\ current_module'[e] >= current_module[e]
      BY <1>1 DEF i
    <3>. QED  BY <2>1, <3>1 DEF GraphInv, ReadyOK
  <2>2. CASE t \notin ready[e]
    <3>1. e = turn /\ t = Graph[i].output
      BY <1>1, <1>2, <1>3, <2>2
    <3>2. current_module'[e] = i + 1 /\ i \in 1 .. (i + 1) - 1
      BY <1>1, <3>1 DEF Places
    <3>. QED  BY <3>1, <3>2
  <2>. QED  BY <2>1, <2>2
<1>. QED  BY <1>3 DEF ReadyOK

LEMMA StepOrder ==
  ASSUME GraphOK, GraphInv, RunModule \/ RunSync
  PROVE  OrderOK'
<1>. USE DEF GraphInv
<1>. DEFINE i == current_module[turn]
<1>1. /\ turn \in Devices /\ i \in Places /\ i \in Nat
      /\ current_module' = [current_module EXCEPT ![turn] = i + 1]
      /\ current_module \in [Devices -> Nat]
  BY StepMoves
<1>2. SUFFICES ASSUME NEW j \in Places, NEW d \in Devices,
                      NEW e \in device_list(Graph[j], d),
                      Fresh(j), current_module'[d] > j
               PROVE  current_module'[e] >= j
  BY DEF OrderOK
<1>3. SyncAt(j) /\ j \in Nat
  BY <1>2 DEF Fresh, Places
<1>4. e \in Devices
  BY <1>3, ListOf
<1>5. current_module'[e] >= current_module[e] /\ current_module'[e] \in Nat
  BY <1>1, <1>4
<1>6. current_module[e] >= j
  <2>1. CASE current_module[d] > j
    BY <1>2, <2>1 DEF OrderOK
  <2>2. CASE ~(current_module[d] > j)
    <3>1. d = turn /\ j = i
      BY <1>1, <1>2, <1>3, <2>2
    <3>2. RunSync
      BY <1>3, <3>1, ModuleMoves
    <3>. QED  BY <1>2, <3>1, <3>2, SyncMoves
  <2>. QED  BY <2>1, <2>2
<1>. QED  BY <1>1, <1>3, <1>4, <1>5, <1>6

LEMMA StepMarks ==
  ASSUME GraphOK, GraphInv, RunModule \/ RunSync
  PROVE  MarksOK'
<1>. USE DEF GraphInv
<1>. DEFINE i == current_module[turn]
            L == device_list(Graph[i], turn)
<1>1. /\ turn \in Devices /\ i \in Places /\ i \in Nat
      /\ current_module' = [current_module EXCEPT ![turn] = i + 1]
      /\ current_module \in [Devices -> Nat]
  BY StepMoves
<1>2. SUFFICES ASSUME NEW e \in Devices, NEW t \in Tensors
               PROVE  t \in timeboard_synced'[e] <=>
                        \E j \in Places : /\ SyncAt(j) /\ Graph[j].input = t
                                          /\ current_module'[e] <= j /\ Passed(j, e)'
  BY DEF MarksOK
<1>3. \A j \in Places : j \in Nat
  BY DEF Places
<1>4. \A j \in Places : SyncAt(j) =>
        (Passed(j, e)' <=> Passed(j, e) \/ (j = i /\ turn \in device_list(Graph[j], e)))
  BY <1>1, PassedAfter
<1>5. t \in timeboard_synced[e] <=>
        \E j \in Places : /\ SyncAt(j) /\ Graph[j].input = t
                          /\ current_module[e] <= j /\ Passed(j, e)
  BY DEF MarksOK
<1>6. \A j \in Places : j # i => (current_module'[e] <= j <=> current_module[e] <= j)
  BY <1>1, <1>3
<1>7. CASE RunModule
  <2>1. ~SyncAt(i) /\ timeboard_synced' = timeboard_synced
    BY <1>7, ModuleMoves
  <2>. HIDE DEF i
  <2>. QED  BY <1>4, <1>5, <1>6, <2>1
<1>8. CASE RunSync
  <2>1. /\ SyncAt(i) /\ turn \in L /\ L \subseteq Devices
        /\ \A h \in L : device_list(Graph[i], h) = L
        /\ ~Passed(i, turn) => \A h \in L : current_module[h] <= i
        /\ timeboard_synced' =
              [h \in Devices |->
                 IF h = turn THEN timeboard_synced[h] \ {Graph[i].input}
                 ELSE IF ~Passed(i, turn) /\ h \in L
                      THEN timeboard_synced[h] \cup {Graph[i].input}
                 ELSE timeboard_synced[h]]
    BY <1>8, SyncMoves
  <2>2. CASE e = turn
    <3>1. current_module'[e] = i + 1
      BY <1>1, <2>2
    <3>2. CASE t = Graph[i].input
      <4>1. \A j \in Places : SyncAt(j) /\ Graph[j].input = t /\ i + 1 <= j
                                => ~Passed(j, e) /\ j # i
        <5>1. \A j \in Places : i + 1 <= j => i < j
          BY <1>1, <1>3
        <5>. QED  BY <1>1, <2>1, <2>2, <3>2, <5>1, OneSyncPerMark
      <4>. HIDE DEF i
      <4>. QED  BY <1>4, <2>1, <2>2, <3>1, <3>2, <4>1
    <3>3. CASE t # Graph[i].input
      <4>. HIDE DEF i
      <4>. QED  BY <1>4, <1>5, <1>6, <2>1, <2>2, <3>3
    <3>. QED  BY <3>2, <3>3
  <2>3. CASE e # turn
    <3>1. current_module'[e] = current_module[e]
      BY <1>1, <2>3
    <3>2. turn \in device_list(Graph[i], e) <=> e \in L
      <4>1. e \in device_list(Graph[i], e) /\ \A h \in device_list(Graph[i], e) :
              device_list(Graph[i], h) = device_list(Graph[i], e)
        BY <2>1, ListOf
      <4>. QED  BY <2>1, <4>1
    <3>3. e \in L => (Passed(i, e) <=> Passed(i, turn))
      BY <2>1 DEF Passed
    <3>4. e \in L /\ ~Passed(i, turn) => current_module[e] <= i
      BY <2>1
    <3>. HIDE DEF i, L
    <3>. QED  BY <1>1, <1>4, <1>5, <2>1, <2>3, <3>1, <3>2, <3>3, <3>4
  <2>. QED  BY <2>2, <2>3
<1>. QED  BY <1>7, <1>8

(* Once a sync has been passed, a device that has not gone on to another   *)
(* keeps its time for it.                                                  *)
LEMMA TimeKept ==
  ASSUME GraphOK, GraphInv, RunModule \/ RunSync,
         NEW d \in Devices, NEW j, SyncAt(j), Passed(j, d),
         current_module'[d] <= j \/ LastIs(d, j)'
  PROVE  /\ current_module[d] <= j \/ LastIs(d, j)
         /\ TimeFor(d, j)' = TimeFor(d, j)
<1>. USE DEF GraphInv
<1>. DEFINE i == current_module[turn]
            L == device_list(Graph[i], turn)
<1>1. /\ turn \in Devices /\ i \in Places /\ i \in Nat
      /\ current_module' = [current_module EXCEPT ![turn] = i + 1]
      /\ current_module \in [Devices -> Nat]
      /\ j \in Nat
  BY StepMoves DEF SyncAt, Places
<1>2. /\ LastIs(d, j)' <=> /\ current_module'[d] > j
                           /\ \A k \in j + 1 .. current_module'[d] - 1 : ~SyncAt(k)
      /\ TimeFor(d, j)' = IF current_module'[d] > j THEN left'[d] ELSE device_time'[d]
  BY DEF LastIs, TimeFor
<1>3. CASE d # turn
  <2>1. current_module'[d] = current_module[d]
    BY <1>1, <1>3
  <2>2. current_module[d] <= j \/ LastIs(d, j)
    BY <1>2, <2>1 DEF LastIs
  <2>3. left'[d] = left[d]
    <3>1. CASE RunModule
      BY <3>1, ModuleMoves
    <3>2. CASE RunSync
      <4>1. left' = [left EXCEPT ![turn] = left'[turn]] /\ left \in [Devices -> Nat]
        BY <3>2, SyncMoves DEF TypeOK
      <4>. QED  BY <1>1, <1>3, <4>1
    <3>. QED  BY <3>1, <3>2
  <2>4. ASSUME current_module[d] <= j
        PROVE  device_time'[d] = device_time[d]
    <3>1. CASE RunModule
      BY <1>3, <3>1, ModuleMoves
    <3>2. CASE RunSync
      <4>1. /\ SyncAt(i)
            /\ \A e \in L : device_list(Graph[i], e) = L
            /\ Fresh(i) => \A e \in L : current_module[e] >= i
            /\ ~Passed(i, turn) => \A e \in L : current_module[e] <= i
            /\ device_time'[d] = IF ~Passed(i, turn) /\ d \in L THEN left'[turn]
                                 ELSE device_time[d]
            /\ ~Passed(i, turn) /\ Stale(i) =>
                  \A e \in L : device_time[e] = left'[turn]
        BY <1>3, <3>2, SyncMoves
      <4>2. CASE ~Passed(i, turn) /\ d \in L /\ ~Stale(i)
        <5>1. Fresh(i)
          BY <1>1, <4>1, <4>2 DEF GraphOK
        <5>2. current_module[d] >= i /\ current_module[d] <= i
          BY <4>1, <4>2, <5>1
        <5>3. current_module[d] = i
          BY <1>1, <5>2
        <5>4. ~Passed(i, d)
          BY <4>1, <4>2 DEF Passed
        <5>5. CASE j = i
          BY <5>4, <5>5
        <5>6. CASE j # i
          <6>1. current_module[d] < j
            BY <1>1, <2>4, <5>3, <5>6
          <6>2. Passed(current_module[d], d)
            BY <6>1, PassedAhead
          <6>. QED  BY <5>3, <5>4, <6>2
        <5>. QED  BY <5>5, <5>6
      <4>. QED  BY <4>1, <4>2
    <3>. QED  BY <3>1, <3>2
  <2>. QED  BY <1>1, <1>2, <2>1, <2>2, <2>3, <2>4 DEF TimeFor
<1>4. CASE d = turn
  <2>1. current_module'[d] = i + 1 /\ current_module[d] = i
    BY <1>1, <1>4
  <2>2. CASE RunModule
    <3>1. ~SyncAt(i) /\ left' = left
      BY <2>2, ModuleMoves
    <3>2. ~(i < j)
      <4>1. i < j => FreshForAll(i)
        BY <2>1, PassedAhead
      <4>. QED  BY <3>1, <4>1 DEF FreshForAll, Fresh
    <3>3. j < i
      BY <1>1, <3>1, <3>2
    <3>4. LastIs(d, j)
      <4>1. \A k \in j + 1 .. i : ~SyncAt(k)
        BY <1>1, <1>2, <2>1, <3>3
      <4>. QED  BY <1>1, <2>1, <3>3, <4>1 DEF LastIs
    <3>. QED  BY <1>1, <1>2, <2>1, <3>1, <3>3, <3>4 DEF TimeFor
  <2>3. CASE RunSync
    <3>1. /\ SyncAt(i)
          /\ Passed(i, turn) => left'[turn] = device_time[turn]
          /\ ~Graph[i].timed => device_time'[turn] = left'[turn]
      BY <2>3, SyncMoves
    <3>2. CASE i < j
      <4>1. j = i + 1 /\ Stale(j) /\ Passed(i, d)
        BY <2>1, <3>2, PassedAhead
      <4>2. ~Graph[i].timed
        BY <1>1, <4>1 DEF Stale
      <4>. QED  BY <1>1, <1>2, <1>4, <2>1, <3>1, <4>1, <4>2 DEF TimeFor
    <3>3. CASE ~(i < j)
      <4>1. j = i
        BY <1>1, <1>2, <2>1, <3>1, <3>3
      <4>. QED  BY <1>1, <1>2, <1>4, <2>1, <3>1, <4>1 DEF TimeFor
    <3>. QED  BY <3>2, <3>3
  <2>. QED  BY <2>2, <2>3
<1>. QED  BY <1>3, <1>4

LEMMA StepAgree ==
  ASSUME GraphOK, GraphInv, RunModule \/ RunSync
  PROVE  AgreeOK'
<1>. USE DEF GraphInv
<1>. DEFINE i == current_module[turn]
            L == device_list(Graph[i], turn)
<1>1. /\ turn \in Devices /\ i \in Places /\ i \in Nat
      /\ current_module' = [current_module EXCEPT ![turn] = i + 1]
      /\ current_module \in [Devices -> Nat]
  BY StepMoves
<1>2. SUFFICES ASSUME NEW j \in Places, NEW d \in Devices,
                      NEW e \in device_list(Graph[j], d),
                      SyncAt(j), Passed(j, d)',
                      current_module'[d] <= j \/ LastIs(d, j)',
                      current_module'[e] <= j \/ LastIs(e, j)'
               PROVE  TimeFor(d, j)' = TimeFor(e, j)'
  BY DEF AgreeOK
<1>3. e \in Devices /\ device_list(Graph[j], e) = device_list(Graph[j], d)
  BY <1>2, ListOf
<1>4. CASE Passed(j, d)
  <2>1. Passed(j, e)
    BY <1>3, <1>4 DEF Passed
  <2>2. /\ current_module[d] <= j \/ LastIs(d, j)
        /\ TimeFor(d, j)' = TimeFor(d, j)
    BY <1>2, <1>4, TimeKept
  <2>3. /\ current_module[e] <= j \/ LastIs(e, j)
        /\ TimeFor(e, j)' = TimeFor(e, j)
    BY <1>2, <1>3, <2>1, TimeKept
  <2>4. TimeFor(d, j) = TimeFor(e, j)
    BY <1>2, <1>4, <2>2, <2>3 DEF AgreeOK
  <2>. QED  BY <2>2, <2>3, <2>4
<1>5. CASE ~Passed(j, d)
  <2>1. j = i /\ turn \in device_list(Graph[i], d)
    BY <1>1, <1>2, <1>5, PassedAfter
  <2>2. L = device_list(Graph[i], d) /\ d \in L /\ e \in L
    BY <1>2, <2>1, ListOf
  <2>3. ~Passed(i, turn)
    BY <1>5, <2>1, <2>2 DEF Passed
  <2>4. RunSync
    BY <1>2, <2>1, ModuleMoves
  <2>5. ASSUME NEW h \in L
        PROVE  TimeFor(h, j)' = left'[turn]
    <3>1. /\ h \in Devices /\ current_module[h] <= i
          /\ h # turn => device_time'[h] = left'[turn]
      BY <2>3, <2>4, SyncMoves
    <3>2. TimeFor(h, j)' = IF current_module'[h] > j THEN left'[h] ELSE device_time'[h]
      BY DEF TimeFor
    <3>. QED  BY <1>1, <2>1, <3>1, <3>2
  <2>. QED  BY <2>1, <2>2, <2>5
<1>. QED  BY <1>4, <1>5

LEMMA StepStill ==
  ASSUME GraphOK, GraphInv, RunModule \/ RunSync
  PROVE  StillOK'
<1>. USE DEF GraphInv
<1>. DEFINE i == current_module[turn]
            L == device_list(Graph[i], turn)
<1>1. /\ turn \in Devices /\ i \in Places /\ i \in Nat
      /\ current_module' = [current_module EXCEPT ![turn] = i + 1]
      /\ current_module \in [Devices -> Nat]
  BY StepMoves
<1>2. SUFFICES ASSUME NEW d \in Devices, current_module'[d] > 1,
                      SyncAt(current_module'[d] - 1),
                      ~Graph[current_module'[d] - 1].timed
               PROVE  device_time'[d] = left'[d]
  BY DEF StillOK
<1>3. CASE d = turn
  <2>1. current_module'[d] - 1 = i
    BY <1>1, <1>3
  <2>2. SyncAt(i) /\ ~Graph[i].timed
    BY <1>2, <2>1
  <2>3. RunSync
    BY <2>2, ModuleMoves
  <2>. QED  BY <1>3, <2>2, <2>3, SyncMoves
<1>4. CASE d # turn
  <2>1. current_module'[d] = current_module[d]
    BY <1>1, <1>4
  <2>2. device_time[d] = left[d]
    BY <1>2, <2>1 DEF StillOK
  <2>3. CASE RunModule
    BY <1>4, <2>2, <2>3, ModuleMoves
  <2>4. CASE RunSync
    <3>1. /\ SyncAt(i)
          /\ Fresh(i) => \A e \in L : current_module[e] >= i
          /\ ~Passed(i, turn) => \A e \in L : current_module[e] <= i
          /\ device_time'[d] = IF ~Passed(i, turn) /\ d \in L THEN left'[turn]
                               ELSE device_time[d]
          /\ ~Passed(i, turn) /\ Stale(i) =>
                \A e \in L : device_time[e] = left'[turn]
          /\ left' = [left EXCEPT ![turn] = left'[turn]]
      BY <1>4, <2>4, SyncMoves
    <3>2. left'[d] = left[d]
      BY <1>1, <1>4, <3>1 DEF TypeOK
    <3>3. ASSUME ~Passed(i, turn), d \in L, ~Stale(i)
          PROVE  FALSE
      <4>1. Fresh(i)
        BY <1>1, <3>1, <3>3 DEF GraphOK
      <4>2. current_module[d] >= i /\ current_module[d] <= i
        BY <3>1, <3>3, <4>1
      <4>3. current_module[d] = i
        BY <1>1, <4>2
      <4>. QED  BY <1>2, <2>1, <4>1, <4>3 DEF Fresh, SyncAt
    <3>. QED  BY <2>2, <3>1, <3>2, <3>3
  <2>. QED  BY <2>3, <2>4
<1>. QED  BY <1>3, <1>4

LEMMA StepCounts ==
  ASSUME GraphOK, GraphInv, RunModule \/ RunSync
  PROVE  CountsOK'
<1>. DEFINE i == current_module[turn]
<1>1. /\ turn \in Devices /\ i \in Places /\ i \in Nat
      /\ current_module' = [current_module EXCEPT ![turn] = i + 1]
      /\ current_module \in [Devices -> Nat]
      /\ num_token_in_expert' = IF Graph[i].counts = "written" /\ turn = 0
                                THEN <<iteration, Graph[i].layer>>
                                ELSE num_token_in_expert
      /\ iteration' = iteration
  BY StepMoves
<1>2. SUFFICES ASSUME NEW w \in Places, Writes(w), w < current_module'[0],
                      \A v \in w + 1 .. current_module'[0] - 1 : ~Writes(v)
               PROVE  num_token_in_expert' = <<iteration, Graph[w].layer>>
  BY <1>1 DEF CountsOK
<1>3. w \in Nat /\ 0 \in Devices
  BY DevicesFinite DEF Places
<1>4. CASE turn = 0 /\ Writes(i)
  <2>1. current_module'[0] = i + 1
    BY <1>1, <1>4
  <2>2. w = i
    BY <1>1, <1>2, <1>3, <1>4, <2>1
  <2>. QED  BY <1>1, <1>4, <2>2 DEF Writes
<1>5. CASE ~(turn = 0 /\ Writes(i))
  <2>1. num_token_in_expert' = num_token_in_expert
    BY <1>1, <1>5 DEF Writes
  <2>2. w < current_module[0] /\ \A v \in w + 1 .. current_module[0] - 1 : ~Writes(v)
    <3>1. CASE turn = 0
      <4>1. current_module'[0] = i + 1 /\ current_module[0] = i /\ w # i
        BY <1>1, <1>2, <1>5, <3>1
      <4>. QED  BY <1>1, <1>2, <1>3, <4>1
    <3>2. CASE turn # 0
      <4>1. current_module'[0] = current_module[0]
        BY <1>1, <1>3, <3>2
      <4>. QED  BY <1>2, <4>1
    <3>. QED  BY <3>1, <3>2
  <2>. QED  BY <1>2, <2>1, <2>2 DEF GraphInv, CountsOK
<1>. QED  BY <1>4, <1>5

(* At the end of an iteration every mark has been taken off.               *)
LEMMA NoMarkOutlives ==
  ASSUME GraphOK, GraphInv, ~ModuleGraphRemain
  PROVE  \A d \in Devices : timeboard_synced[d] = {}
<1>1. \A d \in Devices : timeboard_synced[d] \subseteq Tensors
  BY DEF GraphInv, TypeOK
<1>2. ASSUME NEW d \in Devices, NEW t \in timeboard_synced[d]
      PROVE  FALSE
  <2>1. PICK i \in Places : current_module[d] <= i
    BY <1>1, <1>2 DEF GraphInv, MarksOK
  <2>2. ~(current_module[d] <= Len(Graph))
    BY DEF ModuleGraphRemain, Remains
  <2>. QED  BY <2>1, <2>2 DEF Places, GraphInv, TypeOK, GraphOK
<1>. QED  BY <1>2

(* All devices before the first module.                                    *)
AtStart ==
  /\ GraphOK /\ TypeOK
  /\ current_module = [d \in Devices |-> 1]
  /\ ready = [d \in Devices |-> {FirstInput}]
  /\ \A d \in Devices : timeboard_synced[d] = {}

LEMMA AtTheStart == AtStart => GraphInv
<1>. SUFFICES ASSUME AtStart
              PROVE  GraphInv
  OBVIOUS
<1>. USE DEF AtStart
<1>1. \A d \in Devices : current_module[d] = 1
  OBVIOUS
<1>2. \A i \in Places : i \in Nat /\ i >= 1 /\ ~(1 > i)
  BY DEF Places
<1>3. ASSUME NEW i \in Places, NEW d \in Devices, SyncAt(i)
      PROVE  ~Passed(i, d)
  <2>1. device_list(Graph[i], d) \subseteq Devices
    BY <1>3, ListOf
  <2>. QED  BY <1>1, <1>2, <2>1 DEF Passed
<1>4. ReadyOK
  BY DEF ReadyOK
<1>5. OrderOK
  BY <1>1, <1>2 DEF OrderOK
<1>6. MarksOK
  BY <1>3 DEF MarksOK
<1>7. AgreeOK
  BY <1>3 DEF AgreeOK
<1>8. StillOK
  BY <1>1 DEF StillOK
<1>9. CountsOK
  BY <1>1, <1>2, DevicesFinite DEF CountsOK
<1>. QED  BY <1>4, <1>5, <1>6, <1>7, <1>8, <1>9 DEF GraphInv

LEMMA AtTheStartNext == (AtStart => GraphInv)'
BY AtTheStart, PTL

LEMMA InitGraphInv ==
  ASSUME GraphOK, Init
  PROVE  GraphInv
<1>1. FirstInput \in Tensors /\ 1 \in 1 .. Len(Graph) + 1 /\ 0 \in Devices
  BY DevicesFinite DEF FirstInput, Tensors, GraphOK
<1>2. TypeOK
  BY <1>1 DEF Init, TypeOK
<1>3. \A d \in Devices : timeboard_synced[d] = {}
  BY DEF Init
<1>. QED  BY <1>2, <1>3, AtTheStart DEF Init, AtStart

LEMMA NextGraphInv ==
  ASSUME GraphOK, GraphInv, [Next]_vars
  PROVE  GraphInv'
<1>0. TypeOK'
  BY NextType
<1>1. CASE RunModule \/ RunSync
  BY <1>0, <1>1, StepReady, StepOrder, StepMarks, StepAgree, StepStill, StepCounts
     DEF GraphInv
<1>2. CASE GoOn \/ UNCHANGED vars
  <2>1. UNCHANGED <<current_module, ready, timeboard_synced, device_time,
                    iteration, num_token_in_expert, left>>
    BY <1>2 DEF GoOn, vars
  <2>2. \A i, d : (Passed(i, d)' <=> Passed(i, d)) /\ (LastIs(d, i)' <=> LastIs(d, i))
                  /\ TimeFor(d, i)' = TimeFor(d, i)
    BY <2>1 DEF Passed, LastIs, TimeFor
  <2>3. ReadyOK' /\ OrderOK' /\ StillOK' /\ CountsOK'
    BY <2>1 DEF GraphInv, ReadyOK, OrderOK, StillOK, CountsOK
  <2>4. MarksOK'
    BY <2>1, <2>2 DEF GraphInv, MarksOK
  <2>5. AgreeOK'
    BY <2>1, <2>2 DEF GraphInv, AgreeOK
  <2>. QED  BY <1>0, <2>3, <2>4, <2>5 DEF GraphInv
<1>3. CASE Restart
  <2>1. \A d \in Devices : timeboard_synced[d] = {}
    BY <1>3, NoMarkOutlives DEF Restart
  <2>2. /\ current_module' = [d \in Devices |-> 1]
        /\ ready' = [d \in Devices |-> {FirstInput}]
        /\ timeboard_synced' = timeboard_synced
    BY <1>3 DEF Restart, ReadyAfterRestart
  <2>3. AtStart'
    BY <1>0, <2>1, <2>2 DEF AtStart, GraphOK, Fresh, SyncAt, Stale, FreshForAll,
       ReadsOrdered, Writes, Places
  <2>. QED  BY <2>3, AtTheStartNext
<1>. QED  BY <1>1, <1>2, <1>3 DEF Next
-----------------------------------------------------------------------------
(* The theorems, for every list of layers.                                 *)

(* The graph the constructors of the layers build has the shape the proofs *)
(* of its runs use.                                                        *)
LEMMA GraphIsOK == GraphOK
<1>1. Graph = LLM
  BY DEF Graph
<1>2. PICK g : g = LLM
  OBVIOUS
<1>3. Graph = g /\ Orderly(g) /\ Len(g) \in Nat \ {0}
  BY <1>1, <1>2, GraphOrderly
<1>4. /\ \A i : SyncAt(i) <=> SyncIn(g, i)
      /\ \A i : Writes(i) <=> WritesIn(g, i)
  BY <1>3 DEF SyncAt, SyncIn, Writes, WritesIn, Places
<1>5. \A i : Fresh(i) <=> FreshIn(g, i)
  BY <1>3, <1>4 DEF Fresh, FreshIn, FirstInput, Places
<1>6. \A i : FreshForAll(i) <=> FreshForAllIn(g, i)
  BY <1>3, <1>5 DEF FreshForAll, FreshForAllIn
<1>7. \A i : Stale(i) <=> StaleIn(g, i)
  BY <1>3, <1>4, <1>6 DEF Stale, StaleIn
<1>8. \A q : ReadsOrdered(q) <=> ReadsOrderedIn(g, q)
  BY <1>3, <1>4, <1>6 DEF ReadsOrdered, ReadsOrderedIn, Places
<1>. QED  BY <1>3, <1>4, <1>5, <1>7, <1>8 DEF Orderly, GraphOK, Places

LEMMA GraphInvariant == Spec => []GraphInv
<1>1. Init => GraphInv
  BY GraphIsOK, InitGraphInv
<1>2. GraphInv /\ [Next]_vars => GraphInv'
  BY GraphIsOK, NextGraphInv
<1>. QED  BY <1>1, <1>2, PTL DEF Spec

(* TypeOK: positions stay within the graph, clocks are natural numbers and *)
(* only tensors of the graph are ready or marked.                          *)
THEOREM TypeCorrect == Spec => []TypeOK
<1>1. GraphInv => TypeOK
  BY DEF GraphInv
<1>. QED  BY <1>1, GraphInvariant, PTL

(* LastSync is what its name says.                                         *)
LEMMA LastSyncIsLast ==
  ASSUME GraphOK, TypeOK, NEW d \in Devices, LastSync(d) > 0
  PROVE  SyncAt(LastSync(d)) /\ LastIs(d, LastSync(d))
<1>. DEFINE S == {0} \cup {i \in 1 .. current_module[d] - 1 : Graph[i].sync}
            last == LastSync(d)
<1>1. current_module[d] \in 1 .. Len(Graph) + 1 /\ Len(Graph) \in Nat
  BY DEF TypeOK, GraphOK
<1>2. last \in S /\ \A x \in S : x <= last
  <2>1. IsFiniteSet(S)
    <3>1. IsFiniteSet(0 .. current_module[d] - 1)
      BY <1>1, FS_Interval
    <3>2. S \subseteq 0 .. current_module[d] - 1
      BY <1>1
    <3>. QED  BY <3>1, <3>2, FS_Subset
  <2>2. S \subseteq Int /\ S # {} /\ last = Max(S)
    BY DEF LastSync
  <2>. HIDE DEF S, last
  <2>. QED  BY <2>1, <2>2, MaxIsGreatest
<1>3. last \in 1 .. current_module[d] - 1 /\ Graph[last].sync
  BY <1>2
<1>4. ASSUME NEW k \in last + 1 .. current_module[d] - 1, SyncAt(k)
      PROVE  FALSE
  <2>1. k \in S
    BY <1>1, <1>3, <1>4 DEF SyncAt
  <2>2. k <= last
    BY <1>2, <2>1
  <2>. QED  BY <1>1, <1>3, <2>2
<1>. QED  BY <1>1, <1>3, <1>4 DEF SyncAt, LastIs, Places

(* SyncedTogether: two devices whose last sync is the same, and that share *)
(* it, have left it at the same time, whatever order the simulator called  *)
(* them in.                                                                *)
THEOREM SyncsTogether == Spec => []SyncedTogether
<1>1. GraphInv => SyncedTogether
  <2>. SUFFICES ASSUME GraphInv, NEW d \in Devices, NEW e \in Devices,
                       LastSync(d) > 0, LastSync(d) = LastSync(e),
                       e \in device_list(Graph[LastSync(d)], d)
                PROVE  left[d] = left[e]
    BY DEF SyncedTogether
  <2>. DEFINE i == LastSync(d)
  <2>1. SyncAt(i) /\ LastIs(d, i) /\ LastIs(e, i)
    BY GraphIsOK, LastSyncIsLast DEF GraphInv
  <2>2. current_module[d] > i /\ current_module[e] > i
    BY <2>1 DEF LastIs
  <2>. HIDE DEF i
  <2>3. d \in device_list(Graph[i], d) /\ i \in Places
    BY <2>1, GraphIsOK, ListOf DEF SyncAt
  <2>4. Passed(i, d)
    BY <2>2, <2>3 DEF Passed
  <2>5. TimeFor(d, i) = TimeFor(e, i)
    BY <2>1, <2>3, <2>4 DEF GraphInv, AgreeOK, i
  <2>. QED  BY <2>2, <2>5 DEF TimeFor
<1>. QED  BY <1>1, GraphInvariant, PTL

(* MarksAreUsed: no mark of sync_devices outlives an iteration, although   *)
(* restarting the graph takes none off.                                    *)
THEOREM MarksUsedUp == Spec => []MarksAreUsed
<1>1. GraphInv => MarksAreUsed
  BY GraphIsOK, NoMarkOutlives DEF MarksAreUsed
<1>. QED  BY <1>1, GraphInvariant, PTL

(* CountsOfThisLayer: scatter, route and gather never read the counts of   *)
(* another layer or of the iteration before.                               *)
THEOREM CountsFresh == Spec => []CountsOfThisLayer
<1>1. GraphInv => CountsOfThisLayer
  <2>. SUFFICES ASSUME GraphInv, Remains(turn), Module(turn).counts = "read",
                       CheckReady(turn)
                PROVE  num_token_in_expert = <<iteration, Module(turn).layer>>
    BY DEF CountsOfThisLayer
  <2>. USE GraphIsOK DEF GraphInv
  <2>. DEFINE q == current_module[turn]
  <2>1. /\ turn \in Devices /\ q \in Places /\ q \in Nat /\ Module(turn) = Graph[q]
        /\ 0 \in Devices /\ current_module \in [Devices -> Nat]
    BY DevicesFinite DEF TypeOK, GraphOK, Remains, Module, Places
  <2>2. ReadsOrdered(q)
    BY <2>1 DEF GraphOK
  <2>3. PICK w \in 1 .. q - 1 :
          /\ Writes(w) /\ Graph[w].layer = Graph[q].layer
          /\ \A v \in w + 1 .. q : ~Writes(v)
          /\ \E s \in w + 1 .. q : FreshForAll(s)
    BY <2>2 DEF ReadsOrdered
  <2>4. PICK s \in w + 1 .. q : FreshForAll(s)
    BY <2>3
  <2>5. /\ Fresh(s) /\ s \in Places /\ SyncAt(s)
        /\ \A d \in Devices : device_list(Graph[s], d) = Devices
    BY <2>4, ListOf DEF FreshForAll, Fresh, SyncAt
  <2>6. current_module[0] >= s
    <3>1. CASE s = q
      <4>1. Graph[s].input \in ready[0]
        BY <2>1, <2>5, <3>1 DEF CheckReady, CheckListReady, SyncAt
      <4>. QED  BY <2>1, <2>5, <4>1, ReadyMeansReached
    <3>2. CASE s # q
      <4>1. current_module[turn] > s
        BY <2>1, <2>4, <3>2
      <4>. QED  BY <2>1, <2>5, <4>1 DEF OrderOK
    <3>. QED  BY <3>1, <3>2
  <2>7. w < current_module[0]
    BY <2>1, <2>3, <2>4, <2>6
  <2>8. ASSUME NEW v \in w + 1 .. current_module[0] - 1, Writes(v)
        PROVE  FALSE
    <3>1. v \in Places /\ v \in Nat /\ v > q
      BY <2>1, <2>3, <2>8 DEF Writes, Places
    <3>2. PICK r \in q + 1 .. v : FreshForAll(r)
      BY <2>2, <2>8, <3>1 DEF ReadsOrdered
    <3>3. Fresh(r) /\ r \in Places /\ turn \in device_list(Graph[r], 0)
      BY <2>1, <3>2, ListOf DEF FreshForAll, Fresh, SyncAt
    <3>4. current_module[0] > r
      BY <2>1, <2>8, <3>1, <3>2
    <3>5. current_module[turn] >= r
      BY <2>1, <3>3, <3>4 DEF OrderOK
    <3>. QED  BY <2>1, <3>1, <3>2, <3>5
  <2>9. w \in Places
    BY <2>3 DEF Writes
  <2>. QED  BY <2>1, <2>3, <2>7, <2>8, <2>9 DEF CountsOK
<1>. QED  BY <1>1, GraphInvariant, PTL

(* ClocksMoveAtSync: a device whose clock another one sets stands at that  *)
(* very sync, with no work of its own still to be added before it.         *)
THEOREM ClocksMove == Spec => ClocksMoveAtSync
<1>1. GraphInv /\ [Next]_vars =>
        [\A e \in Devices \ {turn} :
           ModuleGraphRemain /\ device_time'[e] # device_time[e] =>
             current_module[e] = current_module[turn]]_vars
  <2>. SUFFICES ASSUME GraphInv, [Next]_vars, NEW e \in Devices \ {turn},
                       ModuleGraphRemain, device_time'[e] # device_time[e]
                PROVE  current_module[e] = current_module[turn]
    OBVIOUS
  <2>. USE GraphIsOK DEF GraphInv
  <2>1. RunSync
    <3>1. ~RunModule
      BY ModuleMoves
    <3>. QED  BY <3>1 DEF Next, GoOn, Restart, vars
  <2>. DEFINE i == current_module[turn]
              L == device_list(Graph[i], turn)
  <2>2. /\ SyncAt(i) /\ i \in Nat /\ L \subseteq Devices
        /\ Fresh(i) => \A h \in L : current_module[h] >= i
        /\ ~Passed(i, turn) => \A h \in L : current_module[h] <= i
        /\ device_time'[e] = IF ~Passed(i, turn) /\ e \in L THEN left'[turn]
                             ELSE device_time[e]
        /\ ~Passed(i, turn) /\ Stale(i) =>
              \A h \in L : device_time[h] = left'[turn]
    BY <2>1, SyncMoves
  <2>3. ~Passed(i, turn) /\ e \in L /\ ~Stale(i)
    BY <2>2
  <2>4. Fresh(i)
    BY <2>2, <2>3 DEF GraphOK, SyncAt
  <2>5. current_module[e] >= i /\ current_module[e] <= i /\ current_module[e] \in Nat
    BY <2>2, <2>3, <2>4 DEF TypeOK, GraphOK
  <2>. QED  BY <2>2, <2>5
<1>. QED  BY <1>1, GraphInvariant, PTL DEF Spec, ClocksMoveAtSync
=============================================================================
