---------------------------- MODULE TransferProofs ----------------------------
(***************************************************************************)
(* Theorems about what the devices send each other around the experts, for *)
(* any number of nodes, devices, groups, experts and tokens.               *)
(*                                                                         *)
(* Sent and received bytes are sums over the same pairs of a batch and a   *)
(* device, taken by sender and by receiver.  Every device of a batch sends *)
(* a share, and TokenBytes divides into shares, so that no division loses  *)
(* a byte.                                                                 *)
(***************************************************************************)
EXTENDS MoETransfer, SetSums

LEMMA TotalIsSum ==
  ASSUME NEW f, NEW S
  PROVE  Total(f, S) = SumOver(f, S)
BY DEF Total, FoldFunctionOnSet, MapThenFoldSet, SumOver, MapThenSumSet

(* What divides a number.                                                  *)
LEMMA Multiple ==
  ASSUME NEW a \in Nat, NEW n \in Nat \ {0}, a % n = 0
  PROVE  \E k \in Nat : a = k * n /\ k = a \div n
<1>1. PICK q : q = a \div n
  OBVIOUS
<1>2. q \in Nat /\ a = n * q + (a % n)
  BY <1>1
<1>3. n * q = q * n
  BY <1>2
<1>. QED  BY <1>1, <1>2, <1>3
-----------------------------------------------------------------------------
(* The devices, batches and experts of a cluster.                          *)

LEMMA Numbers ==
  ASSUME cluster \in Clusters
  PROVE  /\ num_device \in Nat \ {0} /\ num_node \in Nat \ {0} /\ ne_tp_dg \in Nat \ {0}
         /\ e_tp_dg \in Nat \ {0} /\ cluster.num_routed_expert \in Nat
         /\ cluster.TokenBytes \in Nat \ {0}
         /\ total_num_device \in Nat \ {0} /\ fp8 \in BOOLEAN
         /\ \E m \in Nat : num_device = m * ne_tp_dg
         /\ \E m \in Nat : /\ total_num_device = m * ne_tp_dg
                          /\ m = total_num_device \div ne_tp_dg
         /\ \E m \in Nat : total_num_device = m * e_tp_dg
         /\ \E m \in Nat : cluster.TokenBytes = m * ne_tp_dg
         /\ \E m \in Nat : cluster.num_routed_expert = m * total_num_device
                           /\ m = cluster.num_routed_expert \div total_num_device
<1>1. PICK c : c = cluster
  OBVIOUS
<1>2. c \in ClusterType
  BY <1>1, TransferAssumption
<1>3. PICK d \in Nat \ {0}, n \in Nat \ {0}, ne \in Nat \ {0}, e \in Nat \ {0}, x \in Nat,
           t \in Nat \ {0} :
        /\ d = c.num_device /\ n = c.num_node /\ ne = c.ne_tp_dg /\ e = c.e_tp_dg
        /\ x = c.num_routed_expert /\ t = c.TokenBytes
  BY <1>2 DEF ClusterType
<1>4. d % ne = 0 /\ d % e = 0 /\ x % (d * n) = 0 /\ t % (ne * e) = 0
  BY <1>1, <1>3, TransferAssumption
<1>5. PICK N \in Nat \ {0} : N = d * n
  OBVIOUS
<1>6. PICK m \in Nat : d = m * ne
  BY <1>4, Multiple
<1>7. N = (m * n) * ne
  BY <1>5, <1>6
<1>8. m * n \in Nat
  OBVIOUS
<1>9. m * n = N \div ne
  BY <1>7, <1>8, ExactQuotient
<1>10. PICK k \in Nat : d = k * e
  BY <1>4, Multiple
<1>11. N = (k * n) * e /\ k * n \in Nat
  BY <1>5, <1>10
<1>12. PICK u \in Nat : u = ne * e /\ u # 0
  OBVIOUS
<1>13. PICK j \in Nat : t = j * u
  BY <1>4, <1>12, Multiple
<1>14. t = (j * e) * ne /\ j * e \in Nat
  BY <1>12, <1>13
<1>15. PICK z \in Nat : x = z * N /\ z = x \div N
  BY <1>4, <1>5, Multiple
<1>16. /\ num_device = d /\ num_node = n /\ ne_tp_dg = ne /\ e_tp_dg = e
       /\ total_num_device = N /\ cluster.num_routed_expert = x /\ cluster.TokenBytes = t
  BY <1>1, <1>3, <1>5 DEF num_device, num_node, ne_tp_dg, e_tp_dg, total_num_device
<1>17. fp8 \in BOOLEAN
  BY <1>1, <1>2 DEF ClusterType, fp8
<1>. QED  BY <1>6, <1>7, <1>8, <1>9, <1>11, <1>14, <1>15, <1>16, <1>17

LEMMA Finite ==
  ASSUME NEW n \in Nat, NEW S, S = 0 .. n - 1
  PROVE  /\ IsFiniteSet(S)
         /\ \A x \in S : x \in Nat /\ x < n
         /\ \A x \in Nat : x < n => x \in S
<1>1. PICK k \in Int : k = n - 1
  OBVIOUS
<1>2. IsFiniteSet(0 .. k)
  BY FS_Interval
<1>. QED  BY <1>1, <1>2

LEMMA Places ==
  ASSUME cluster \in Clusters
  PROVE  /\ IsFiniteSet(Devices) /\ IsFiniteSet(Batches) /\ IsFiniteSet(Experts)
         /\ Devices \subseteq Nat /\ Batches \subseteq Nat
         /\ \A d \in Devices : /\ Batch(d) \in Batches /\ NodeOf(d) \in Nat
                               /\ NodeOf(Batch(d) * ne_tp_dg) = NodeOf(d)
         /\ \A b \in Batches : Cardinality({d \in Devices : Batch(d) = b}) = ne_tp_dg
<1>1. PICK D \in Nat \ {0}, ne \in Nat \ {0}, N \in Nat \ {0}, B \in Nat, m \in Nat,
           x \in Nat :
        /\ D = num_device /\ ne = ne_tp_dg /\ N = total_num_device /\ N = B * ne
        /\ B = total_num_device \div ne_tp_dg /\ D = m * ne
        /\ x = cluster.num_routed_expert
  BY Numbers
<1>2. Devices = 0 .. N - 1 /\ Batches = 0 .. B - 1 /\ Experts = 0 .. x - 1
  BY <1>1 DEF Devices, Batches, Experts
<1>3. /\ IsFiniteSet(Devices) /\ IsFiniteSet(Batches) /\ IsFiniteSet(Experts)
      /\ \A d \in Devices : d \in Nat /\ d < N
      /\ \A d \in Nat : d < N => d \in Devices
      /\ \A b \in Batches : b \in Nat /\ b < B
      /\ \A b \in Nat : b < B => b \in Batches
  BY <1>1, <1>2, Finite
<1>4. ASSUME NEW d \in Devices
      PROVE  /\ Batch(d) \in Batches /\ NodeOf(d) \in Nat
             /\ NodeOf(Batch(d) * ne_tp_dg) = NodeOf(d)
  <2>1. d \in Nat /\ d < B * ne
    BY <1>1, <1>3
  <2>2. PICK b \in Nat : b = d \div ne /\ b * ne <= d /\ d < b * ne + ne
    BY <2>1, Divides
  <2>3. ~(B <= b)
    <3>1. B <= b => B * ne <= b * ne
      BY <2>2, TimesMonotone
    <3>. QED  BY <2>1, <2>2, <3>1
  <2>4. PICK q \in Nat : q = d \div D /\ q * D <= d /\ d < q * D + D
    BY <1>1, <2>1, Divides
  <2>5. q * D = (q * m) * ne /\ q * m \in Nat
    BY <1>1
  <2>6. q * m <= b
    BY <2>1, <2>2, <2>4, <2>5, QuotientAtLeast
  <2>7. q * D <= b * ne
    BY <1>1, <2>2, <2>5, <2>6, TimesMonotone
  <2>8. b * ne \in Nat /\ b * ne < q * D + D
    BY <2>1, <2>2, <2>4
  <2>9. (b * ne) \div D = q
    BY <2>4, <2>7, <2>8, QuotientIs
  <2>10. Batch(d) = b /\ NodeOf(d) = q /\ b < B
    BY <1>1, <2>2, <2>3, <2>4 DEF Batch, NodeOf
  <2>11. NodeOf(Batch(d) * ne_tp_dg) = q
    BY <1>1, <2>9, <2>10 DEF NodeOf
  <2>. QED  BY <1>3, <2>2, <2>4, <2>10, <2>11
<1>5. ASSUME NEW b \in Batches
      PROVE  Cardinality({d \in Devices : Batch(d) = b}) = ne_tp_dg
  <2>1. b \in Nat /\ b + 1 <= B
    BY <1>1, <1>2
  <2>2. PICK lo \in Nat : lo = b * ne
    BY <2>1
  <2>3. lo + ne <= N
    <3>1. (b + 1) * ne <= B * ne /\ (b + 1) * ne = b * ne + ne
      BY <2>1, TimesMonotone
    <3>. QED  BY <1>1, <2>2, <3>1
  <2>4. ASSUME NEW d \in Nat
        PROVE  d \div ne = b <=> lo <= d /\ d < lo + ne
    <3>1. d \div ne = b => lo <= d /\ d < lo + ne
      BY <2>2, Divides
    <3>2. lo <= d /\ d < lo + ne => d \div ne = b
      BY <2>1, <2>2, QuotientIs
    <3>. QED  BY <3>1, <3>2
  <2>5. PICK hi \in Int : hi = lo + ne - 1
    OBVIOUS
  <2>6. {d \in Devices : Batch(d) = b} = lo .. hi
    <3>1. ASSUME NEW d \in Devices, Batch(d) = b
          PROVE  d \in lo .. hi
      <4>1. d \in Nat /\ d \div ne = b
        BY <1>1, <1>3, <3>1 DEF Batch
      <4>. QED  BY <2>4, <2>5, <4>1
    <3>2. ASSUME NEW d \in lo .. hi
          PROVE  d \in Devices /\ Batch(d) = b
      <4>1. d \in Nat /\ lo <= d /\ d < lo + ne
        BY <2>2, <2>5
      <4>2. d \div ne = b
        BY <2>4, <4>1
      <4>3. d < N
        BY <2>3, <4>1
      <4>4. Batch(d) = b
        BY <1>1, <4>2 DEF Batch
      <4>. QED  BY <1>3, <4>1, <4>3, <4>4
    <3>. QED  BY <3>1, <3>2
  <2>7. Cardinality(lo .. hi) = ne
    <3>1. lo <= hi /\ (hi - lo) + 1 = ne
      BY <2>5
    <3>2. Cardinality(lo .. hi) = (hi - lo) + 1
      BY <2>5, <3>1, FS_Interval
    <3>. QED  BY <3>1, <3>2
  <2>. QED  BY <1>1, <2>6, <2>7
<1>6. Devices \subseteq Nat /\ Batches \subseteq Nat
  BY <1>3
<1>. QED  BY <1>3, <1>4, <1>5, <1>6

Counts == [Batches -> [Experts -> Nat]]

LEMMA OwnExperts ==
  ASSUME cluster \in Clusters, NEW d \in Devices
  PROVE  ExpertsOf(d) \subseteq Experts /\ IsFiniteSet(ExpertsOf(d))
<1>1. PICK N \in Nat \ {0}, e \in Nat \ {0}, k \in Nat, each \in Nat, x \in Nat :
        /\ N = total_num_device /\ e = e_tp_dg /\ N = k * e
        /\ x = cluster.num_routed_expert /\ x = each * N
        /\ each = cluster.num_routed_expert \div total_num_device
  BY Numbers
<1>2. d \in Nat /\ d < N
  BY <1>1, Finite DEF Devices
<1>3. PICK q \in Nat : q = d \div e /\ q * e <= d
  BY <1>1, <1>2, Divides
<1>4. q + 1 <= k
  <2>1. k <= q => k * e <= q * e
    BY <1>1, TimesMonotone
  <2>. QED  BY <1>1, <1>2, <1>3, <2>1
<1>5. PICK first \in Nat, size \in Nat : first = each * q * e /\ size = each * e
  BY <1>1, <1>3
<1>6. first + size <= x
  <2>1. (q + 1) * size <= k * size
    BY <1>4, <1>5, TimesMonotone
  <2>2. (q + 1) * size = q * size + size
    BY <1>5
  <2>3. q * (each * e) = each * q * e /\ k * (each * e) = each * (k * e)
    BY <1>1
  <2>4. q * size = first /\ k * size = x
    BY <1>1, <1>5, <2>3
  <2>. QED  BY <2>1, <2>2, <2>4
<1>7. ExpertsOf(d) = first .. first + size - 1
  BY <1>1, <1>3, <1>5 DEF ExpertsOf
<1>8. Experts = 0 .. x - 1
  BY <1>1 DEF Experts
<1>9. ExpertsOf(d) \subseteq Experts
  BY <1>5, <1>6, <1>7, <1>8
<1>. QED  BY <1>9, Places, FS_Subset

LEMMA TokensNat ==
  ASSUME cluster \in Clusters, local_num_token_in_expert \in Counts,
         NEW b \in Batches, NEW d \in Devices
  PROVE  Tokens(b, d) \in Nat
<1>1. PICK f, S : f = local_num_token_in_expert[b] /\ S = ExpertsOf(d)
  OBVIOUS
<1>2. IsFiniteSet(S) /\ \A e \in S : f[e] \in Nat
  BY <1>1, OwnExperts DEF Counts
<1>. QED  BY <1>1, <1>2, SumNat, TotalIsSum DEF Tokens
-----------------------------------------------------------------------------
(* Every batch sends to the devices reach[b], once from each of its own.   *)
(* The numbers of a device are those of its batch.                         *)

Exchange(reach, sent, received) ==
  /\ reach \in [Batches -> SUBSET Devices]
  /\ \A d \in Devices :
       sent[d] = Total([p \in reach[Batch(d)] |-> Tokens(Batch(d), p)], reach[Batch(d)])
  /\ \A p \in Devices :
       received[p] = Total([b \in {c \in Batches : p \in reach[c]} |-> Tokens(b, p)],
                           {c \in Batches : p \in reach[c]})

LEMMA Balance ==
  ASSUME cluster \in Clusters, local_num_token_in_expert \in Counts,
         NEW reach, NEW sent, NEW received, Exchange(reach, sent, received)
  PROVE  /\ \A d \in Devices : sent[d] \in Nat /\ received[d] \in Nat
         /\ SumOver(sent, Devices) = SumOver(received, Devices) * ne_tp_dg
<1>1. IsFiniteSet(Devices) /\ IsFiniteSet(Batches) /\ ne_tp_dg \in Nat
  BY Places, Numbers
<1>2. PICK f : f = [b \in Batches |-> [p \in Devices |->
                      IF p \in reach[b] THEN Tokens(b, p) ELSE 0]]
  OBVIOUS
<1>3. PICK g : g = [p \in Devices |-> [b \in Batches |-> f[b][p]]]
  OBVIOUS
<1>4. PICK rows : rows = [b \in Batches |-> SumOver(f[b], Devices)]
  OBVIOUS
<1>5. /\ f \in [Batches -> [Devices -> Nat]]
      /\ \A b \in Batches, p \in Devices :
           /\ f[b][p] = IF p \in reach[b] THEN Tokens(b, p) ELSE 0
           /\ g[p][b] = IF p \in reach[b] THEN Tokens(b, p) ELSE 0
  BY <1>2, <1>3, TokensNat
<1>6. ASSUME NEW b \in Batches
      PROVE  rows[b] = Total([p \in reach[b] |-> Tokens(b, p)], reach[b])
  <2>1. PICK R, h, r : R = reach[b] /\ h = [p \in R |-> Tokens(b, p)] /\ r = f[b]
    OBVIOUS
  <2>2. R \in SUBSET Devices
    BY <2>1 DEF Exchange
  <2>3. /\ \A p \in R : h[p] \in Nat
        /\ \A p \in Devices : r[p] = IF p \in R THEN h[p] ELSE 0
    BY <1>5, <2>1, <2>2, TokensNat
  <2>4. SumOver(r, Devices) = SumOver(h, R)
    BY <1>1, <2>2, <2>3, SumWhere
  <2>. QED  BY <1>4, <2>1, <2>4, TotalIsSum
<1>7. ASSUME NEW p \in Devices
      PROVE  received[p] = SumOver(g[p], Batches)
  <2>1. PICK C, h, c : /\ C = {b \in Batches : p \in reach[b]}
                       /\ h = [b \in C |-> Tokens(b, p)] /\ c = g[p]
    OBVIOUS
  <2>2. C \in SUBSET Batches /\ \A b \in Batches : b \in C <=> p \in reach[b]
    BY <2>1
  <2>3. /\ \A b \in C : h[b] \in Nat
        /\ \A b \in Batches : c[b] = IF b \in C THEN h[b] ELSE 0
    BY <1>5, <2>1, <2>2, TokensNat
  <2>4. SumOver(c, Batches) = SumOver(h, C)
    BY <1>1, <2>2, <2>3, SumWhere
  <2>. QED  BY <2>1, <2>4, TotalIsSum DEF Exchange
<1>8. SumOver(rows, Batches) = SumOver(received, Devices)
  <2>1. BothWays(Batches, Devices, f, g, rows, received)
    BY <1>1, <1>3, <1>4, <1>5, <1>7 DEF BothWays
  <2>. QED  BY <2>1, SumSwap
<1>9. \A b \in Batches : rows[b] \in Nat
  <2>1. ASSUME NEW b \in Batches
        PROVE  rows[b] \in Nat
    <3>1. PICK r : r = f[b]
      OBVIOUS
    <3>2. \A p \in Devices : r[p] \in Nat
      BY <1>5, <3>1
    <3>. QED  BY <1>1, <1>4, <3>1, <3>2, SumNat
  <2>. QED  BY <2>1
<1>10. \A p \in Devices : received[p] \in Nat
  <2>1. ASSUME NEW p \in Devices
        PROVE  received[p] \in Nat
    <3>1. PICK c : c = g[p]
      OBVIOUS
    <3>2. \A b \in Batches : c[b] \in Nat
      BY <1>5, <3>1, TokensNat
    <3>. QED  BY <1>1, <1>7, <3>1, <3>2, SumNat
  <2>. QED  BY <2>1
<1>11. \A d \in Devices : Batch(d) \in Batches /\ sent[d] = rows[Batch(d)]
  BY <1>6, Places DEF Exchange
<1>12. SumOver(sent, Devices) = SumOver(rows, Batches) * ne_tp_dg
  <2>1. PICK at : at = [d \in Devices |-> Batch(d)]
    OBVIOUS
  <2>2. \A b \in Batches : {d \in Devices : at[d] = b} = {d \in Devices : Batch(d) = b}
    BY <2>1
  <2>3. at \in [Devices -> Batches]
    BY <1>11, <2>1
  <2>4. \A b \in Batches : Cardinality({d \in Devices : at[d] = b}) = ne_tp_dg
    BY <2>2, Places
  <2>5. InGroups(Devices, Batches, at, ne_tp_dg, sent, rows)
    BY <1>1, <1>9, <1>11, <2>1, <2>3, <2>4 DEF InGroups
  <2>. QED  BY <2>5, SumByGroup
<1>. QED  BY <1>8, <1>9, <1>10, <1>11, <1>12

(* One of the two kinds of links: the bytes are the tokens times the share *)
(* of a device.                                                            *)
Shares(sent, received, out, in) ==
  \A d \in Devices : /\ out[d] = (sent[d] * cluster.TokenBytes * 1) \div ne_tp_dg
                     /\ in[d] = (received[d] * cluster.TokenBytes * 1) \div ne_tp_dg

LEMMA BytesBalance ==
  ASSUME cluster \in Clusters, local_num_token_in_expert \in Counts,
         NEW reach, NEW sent, NEW received, Exchange(reach, sent, received),
         NEW out, NEW in, Shares(sent, received, out, in)
  PROVE  Total(out, Devices) = Total(in, Devices) * ne_tp_dg
<1>1. PICK n \in Nat \ {0}, k \in Nat : n = ne_tp_dg /\ cluster.TokenBytes = k * n
  BY Numbers
<1>2. IsFiniteSet(Devices)
  BY Places
<1>3. /\ \A d \in Devices : sent[d] \in Nat /\ received[d] \in Nat
      /\ SumOver(sent, Devices) = SumOver(received, Devices) * n
  BY <1>1, Balance
<1>4. ASSUME NEW x \in Nat
      PROVE  (x * cluster.TokenBytes * 1) \div ne_tp_dg = x * k
  <2>1. x * cluster.TokenBytes * 1 = (x * k) * n /\ x * k \in Nat
    BY <1>1
  <2>. QED  BY <1>1, <2>1, ExactQuotient
<1>5. \A d \in Devices : out[d] = sent[d] * k /\ in[d] = received[d] * k
  BY <1>3, <1>4 DEF Shares
<1>6. SumOver(out, Devices) = SumOver(sent, Devices) * k
  BY <1>2, <1>3, <1>5, SumTimes
<1>7. SumOver(in, Devices) = SumOver(received, Devices) * k
  BY <1>2, <1>3, <1>5, SumTimes
<1>8. PICK r \in Nat : r = SumOver(received, Devices)
  BY <1>2, <1>3, SumNat
<1>9. (r * n) * k = (r * k) * n
  OBVIOUS
<1>. QED  BY <1>1, <1>3, <1>6, <1>7, <1>8, <1>9, TotalIsSum

(* The devices of other batches on the side of a batch or on the other.    *)
Reach(near) ==
  [b \in Batches |-> {p \in Devices : /\ Batch(p) # b
                                      /\ near = (NodeOf(p) = NodeOf(b * ne_tp_dg))}]

(* Both look at the same pairs: the sender by its own node and the node of *)
(* the receiver, the receiver by its own and that of the first device of   *)
(* the batch.                                                              *)
LEMMA SamePairs ==
  ASSUME cluster \in Clusters, num_device = 8
  PROVE  /\ \A d \in Devices :
              /\ Reach(TRUE)[Batch(d)] = {p \in Devices \ Group(d, ne_tp_dg) :
                                            NodeBy8(p) = NodeOf(d)}
              /\ Reach(FALSE)[Batch(d)] = {p \in Devices \ Group(d, ne_tp_dg) :
                                             NodeBy8(p) # NodeOf(d)}
         /\ \A d \in Devices :
              /\ {c \in Batches : d \in Reach(TRUE)[c]}
                   = {b \in Batches \ {Batch(d)} : NodeOf(b * ne_tp_dg) = NodeOf(d)}
              /\ {c \in Batches : d \in Reach(FALSE)[c]}
                   = {b \in Batches \ {Batch(d)} : NodeOf(b * ne_tp_dg) # NodeOf(d)}
<1>1. \A p \in Devices : NodeBy8(p) = NodeOf(p)
  BY DEF NodeBy8, NodeOf
<1>2. ASSUME NEW d \in Devices
      PROVE  /\ Batch(d) \in Batches /\ NodeOf(Batch(d) * ne_tp_dg) = NodeOf(d)
             /\ \A p \in Devices : p \in Group(d, ne_tp_dg) <=> Batch(p) = Batch(d)
  BY Places DEF Group, Batch
<1>3. \A b \in Batches, p \in Devices :
        /\ p \in Reach(TRUE)[b] <=> Batch(p) # b /\ NodeOf(p) = NodeOf(b * ne_tp_dg)
        /\ p \in Reach(FALSE)[b] <=> Batch(p) # b /\ NodeOf(p) # NodeOf(b * ne_tp_dg)
  BY DEF Reach
<1>4. \A b \in Batches : /\ Reach(TRUE)[b] \subseteq Devices
                         /\ Reach(FALSE)[b] \subseteq Devices
  BY DEF Reach
<1>5. ASSUME NEW d \in Devices
      PROVE  /\ Reach(TRUE)[Batch(d)] = {p \in Devices \ Group(d, ne_tp_dg) :
                                           NodeBy8(p) = NodeOf(d)}
             /\ Reach(FALSE)[Batch(d)] = {p \in Devices \ Group(d, ne_tp_dg) :
                                            NodeBy8(p) # NodeOf(d)}
  <2>1. PICK R, F : R = Reach(TRUE)[Batch(d)] /\ F = Reach(FALSE)[Batch(d)]
    OBVIOUS
  <2>2. R \subseteq Devices /\ F \subseteq Devices
    BY <1>2, <1>4, <2>1
  <2>3. ASSUME NEW p \in Devices
        PROVE  /\ p \in R <=> p \notin Group(d, ne_tp_dg) /\ NodeBy8(p) = NodeOf(d)
               /\ p \in F <=> p \notin Group(d, ne_tp_dg) /\ NodeBy8(p) # NodeOf(d)
    <3>1. PICK b \in Batches : b = Batch(d) /\ NodeOf(b * ne_tp_dg) = NodeOf(d)
      BY <1>2
    <3>2. p \in Group(d, ne_tp_dg) <=> Batch(p) = b
      BY <1>2, <3>1
    <3>. QED  BY <1>1, <1>3, <2>1, <3>1, <3>2
  <2>4. /\ R = {p \in Devices \ Group(d, ne_tp_dg) : NodeBy8(p) = NodeOf(d)}
        /\ F = {p \in Devices \ Group(d, ne_tp_dg) : NodeBy8(p) # NodeOf(d)}
    BY <2>2, <2>3
  <2>. QED  BY <2>1, <2>4
<1>6. ASSUME NEW d \in Devices
      PROVE  /\ {c \in Batches : d \in Reach(TRUE)[c]}
                  = {b \in Batches \ {Batch(d)} : NodeOf(b * ne_tp_dg) = NodeOf(d)}
             /\ {c \in Batches : d \in Reach(FALSE)[c]}
                  = {b \in Batches \ {Batch(d)} : NodeOf(b * ne_tp_dg) # NodeOf(d)}
  BY <1>2, <1>3
<1>. QED  BY <1>5, <1>6

LEMMA Balanced ==
  ASSUME cluster \in Clusters, local_num_token_in_expert \in Counts
  PROVE  SentIsReceived
<1>. SUFFICES ASSUME num_device = 8
              PROVE  Sum([d \in Devices |-> ScatterSend(d)])
                       = Times(Sum([d \in Devices |-> ScatterReceive(d)]), ne_tp_dg)
  BY DEF SentIsReceived
<1>1. PICK own, other : /\ own = [d \in Devices |-> OwnTokens(d, Group(d, ne_tp_dg))]
                        /\ other = [d \in Devices |-> OtherTokens(d)]
  OBVIOUS
<1>2. /\ Reach(TRUE) \in [Batches -> SUBSET Devices]
      /\ Reach(FALSE) \in [Batches -> SUBSET Devices]
  BY DEF Reach
<1>3. ASSUME NEW d \in Devices
      PROVE  /\ own[d].intra = Total([p \in Reach(TRUE)[Batch(d)] |-> Tokens(Batch(d), p)],
                                     Reach(TRUE)[Batch(d)])
             /\ own[d].inter = Total([p \in Reach(FALSE)[Batch(d)] |-> Tokens(Batch(d), p)],
                                     Reach(FALSE)[Batch(d)])
  <2>1. PICK R, F : /\ R = {p \in Devices \ Group(d, ne_tp_dg) : NodeBy8(p) = NodeOf(d)}
                    /\ F = {p \in Devices \ Group(d, ne_tp_dg) : NodeBy8(p) # NodeOf(d)}
    OBVIOUS
  <2>2. Reach(TRUE)[Batch(d)] = R /\ Reach(FALSE)[Batch(d)] = F
    BY <2>1, SamePairs
  <2>3. PICK A, B : /\ A = Total([p \in R |-> Tokens(Batch(d), p)], R)
                    /\ B = Total([p \in F |-> Tokens(Batch(d), p)], F)
    OBVIOUS
  <2>4. own[d] = Links(A, B)
    BY <1>1, <2>1, <2>3 DEF OwnTokens
  <2>5. own[d].intra = A /\ own[d].inter = B
    BY <2>4 DEF Links
  <2>. QED  BY <2>2, <2>3, <2>5, Zenon
<1>4. ASSUME NEW d \in Devices
      PROVE  /\ other[d].intra = Total([b \in {c \in Batches : d \in Reach(TRUE)[c]}
                                           |-> Tokens(b, d)],
                                       {c \in Batches : d \in Reach(TRUE)[c]})
             /\ other[d].inter = Total([b \in {c \in Batches : d \in Reach(FALSE)[c]}
                                           |-> Tokens(b, d)],
                                       {c \in Batches : d \in Reach(FALSE)[c]})
  <2>1. PICK R, F :
          /\ R = {b \in Batches \ {Batch(d)} : NodeOf(b * ne_tp_dg) = NodeOf(d)}
          /\ F = {b \in Batches \ {Batch(d)} : NodeOf(b * ne_tp_dg) # NodeOf(d)}
    OBVIOUS
  <2>2. /\ {c \in Batches : d \in Reach(TRUE)[c]} = R
        /\ {c \in Batches : d \in Reach(FALSE)[c]} = F
    BY <2>1, SamePairs
  <2>3. PICK A, B : /\ A = Total([b \in R |-> Tokens(b, d)], R)
                    /\ B = Total([b \in F |-> Tokens(b, d)], F)
    OBVIOUS
  <2>4. other[d] = Links(A, B)
    BY <1>1, <2>1, <2>3 DEF OtherTokens
  <2>5. other[d].intra = A /\ other[d].inter = B
    BY <2>4 DEF Links
  <2>. QED  BY <2>2, <2>3, <2>5, Zenon
<1>5. PICK s, r, o, i :
        /\ s = [d \in Devices |-> own[d].intra] /\ r = [d \in Devices |-> other[d].intra]
        /\ o = [d \in Devices |-> ScatterSend(d).intra]
        /\ i = [d \in Devices |-> ScatterReceive(d).intra]
  OBVIOUS
<1>6. Total(o, Devices) = Total(i, Devices) * ne_tp_dg
  <2>1. Exchange(Reach(TRUE), s, r)
    BY <1>2, <1>3, <1>4, <1>5 DEF Exchange
  <2>2. Shares(s, r, o, i)
    BY <1>1, <1>5 DEF ScatterSend, ScatterReceive, Scaled, Links, Shares
  <2>. QED  BY <2>1, <2>2, BytesBalance, Zenon
<1>7. PICK t, u, x, y :
        /\ t = [d \in Devices |-> own[d].inter] /\ u = [d \in Devices |-> other[d].inter]
        /\ x = [d \in Devices |-> ScatterSend(d).inter]
        /\ y = [d \in Devices |-> ScatterReceive(d).inter]
  OBVIOUS
<1>8. Total(x, Devices) = Total(y, Devices) * ne_tp_dg
  <2>1. Exchange(Reach(FALSE), t, u)
    BY <1>2, <1>3, <1>4, <1>7 DEF Exchange
  <2>2. Shares(t, u, x, y)
    BY <1>1, <1>7 DEF ScatterSend, ScatterReceive, Scaled, Links, Shares
  <2>. QED  BY <2>1, <2>2, BytesBalance, Zenon
<1>9. /\ Sum([d \in Devices |-> ScatterSend(d)])
           = Links(Total(o, Devices), Total(x, Devices))
      /\ Sum([d \in Devices |-> ScatterReceive(d)])
           = Links(Total(i, Devices), Total(y, Devices))
  <2>1. PICK a, b : /\ a = [d \in Devices |-> ScatterSend(d)]
                    /\ b = [d \in Devices |-> ScatterReceive(d)]
    OBVIOUS
  <2>2. /\ [d \in Devices |-> a[d].intra] = o /\ [d \in Devices |-> a[d].inter] = x
        /\ [d \in Devices |-> b[d].intra] = i /\ [d \in Devices |-> b[d].inter] = y
    BY <1>5, <1>7, <2>1
  <2>. QED  BY <2>1, <2>2 DEF Sum
<1>. QED  BY <1>6, <1>8, <1>9 DEF Times, Links
-----------------------------------------------------------------------------
(* More tokens take no less time.                                          *)

NatLinks == [intra : Nat, inter : Nat]
AtMost(l, m) ==
  /\ l \in NatLinks /\ m \in NatLinks
  /\ l.intra <= m.intra /\ l.inter <= m.inter

LEMMA ScaledMore ==
  ASSUME cluster \in Clusters, NEW l, NEW m, AtMost(l, m), NEW mul \in Nat,
         NEW div \in Nat \ {0}
  PROVE  AtMost(Scaled(l, mul, div), Scaled(m, mul, div))
<1>1. PICK t \in Nat : t = cluster.TokenBytes
  BY Numbers
<1>2. ASSUME NEW a \in Nat, NEW b \in Nat, a <= b
      PROVE  /\ (a * t * mul) \div div \in Nat /\ (b * t * mul) \div div \in Nat
             /\ (a * t * mul) \div div <= (b * t * mul) \div div
  <2>1. a * t <= b * t /\ a * t \in Nat /\ b * t \in Nat
    BY <1>2, TimesMonotone
  <2>2. a * t * mul <= b * t * mul /\ a * t * mul \in Nat /\ b * t * mul \in Nat
    BY <2>1, TimesMonotone
  <2>3. PICK x \in Nat, y \in Nat : x = a * t * mul /\ y = b * t * mul
    BY <2>2
  <2>4. x \div div <= y \div div /\ x \div div \in Nat /\ y \div div \in Nat
    BY <2>2, <2>3, QuotientMonotone, Divides
  <2>. QED  BY <2>3, <2>4
<1>3. l \in NatLinks /\ m \in NatLinks /\ l.intra <= m.intra /\ l.inter <= m.inter
  BY DEF AtMost
<1>4. l.intra \in Nat /\ l.inter \in Nat /\ m.intra \in Nat /\ m.inter \in Nat
  BY <1>3 DEF NatLinks
<1>. QED  BY <1>1, <1>2, <1>3, <1>4 DEF AtMost, NatLinks, Scaled, Links

LEMMA LinkMore ==
  ASSUME cluster \in Clusters, prefill \in [Batches -> BOOLEAN], NEW d \in Devices,
         NEW l, NEW m, AtMost(l, m)
  PROVE  /\ LinkTime(d, l) \in Nat /\ LinkTime(d, m) \in Nat
         /\ LinkTime(d, l) <= LinkTime(d, m)
<1>1. /\ DeviceByte \in Nat /\ DeviceLatency \in Nat
      /\ NodeByte \in Nat /\ NodeLatency \in Nat
  BY TransferAssumption
<1>2. PICK a, b, x, y \in Nat : /\ a = l.intra /\ b = l.inter /\ x = m.intra /\ y = m.inter
                                /\ a <= x /\ b <= y
  BY DEF AtMost, NatLinks
<1>3. ASSUME NEW p \in Nat, NEW q \in Nat, NEW byte \in Nat, NEW latency \in Nat, p <= q
      PROVE  /\ p * byte + latency \in Nat /\ q * byte + latency \in Nat
             /\ p * byte + latency <= q * byte + latency
  <2>1. p * byte <= q * byte /\ p * byte \in Nat /\ q * byte \in Nat
    BY <1>3, TimesMonotone
  <2>. QED  BY <2>1
<1>4. CASE prefill[Batch(d)]
  <2>1. PICK f, g, h, k :
          /\ f = a * DeviceByte + DeviceLatency /\ g = b * NodeByte + NodeLatency
          /\ h = x * DeviceByte + DeviceLatency /\ k = y * NodeByte + NodeLatency
    OBVIOUS
  <2>2. f \in Nat /\ h \in Nat /\ f <= h
    BY <1>1, <1>2, <1>3, <2>1
  <2>3. g \in Nat /\ k \in Nat /\ g <= k
    BY <1>1, <1>2, <1>3, <2>1
  <2>4. LinkTime(d, l) = Max({f, g}) /\ LinkTime(d, m) = Max({h, k})
    BY <1>2, <1>4, <2>1 DEF LinkTime
  <2>5. Max({f, g}) = (IF f >= g THEN f ELSE g) /\ Max({h, k}) = (IF h >= k THEN h ELSE k)
    BY <2>2, <2>3, MaxOfTwo
  <2>. QED  BY <2>4, <2>5, <2>2, <2>3
<1>5. CASE ~prefill[Batch(d)] /\ num_node = 1
  <2>1. /\ LinkTime(d, l) = (a + b) * DeviceByte + DeviceLatency
        /\ LinkTime(d, m) = (x + y) * DeviceByte + DeviceLatency
    BY <1>2, <1>5 DEF LinkTime
  <2>2. a + b \in Nat /\ x + y \in Nat /\ a + b <= x + y
    BY <1>2
  <2>. QED  BY <1>1, <1>3, <2>1, <2>2
<1>6. CASE ~prefill[Batch(d)] /\ num_node # 1
  <2>1. /\ LinkTime(d, l) = (a + b) * NodeByte + NodeLatency
        /\ LinkTime(d, m) = (x + y) * NodeByte + NodeLatency
    BY <1>2, <1>6 DEF LinkTime
  <2>2. a + b \in Nat /\ x + y \in Nat /\ a + b <= x + y
    BY <1>2
  <2>. QED  BY <1>1, <1>3, <2>1, <2>2
<1>. QED  BY <1>4, <1>5, <1>6

LEMMA TransferMore ==
  ASSUME cluster \in Clusters, prefill \in [Batches -> BOOLEAN], NEW d \in Devices,
         NEW l, NEW m, AtMost(l, m), NEW k, NEW n, AtMost(k, n)
  PROVE  /\ TransferTime(d, l, k) \in Nat /\ TransferTime(d, m, n) \in Nat
         /\ TransferTime(d, l, k) <= TransferTime(d, m, n)
<1>1. PICK f, g, h, j \in Nat : /\ f = LinkTime(d, l) /\ g = LinkTime(d, k)
                                /\ h = LinkTime(d, m) /\ j = LinkTime(d, n)
                                /\ f <= h /\ g <= j
  BY LinkMore
<1>2. Max({f, g}) = (IF f >= g THEN f ELSE g) /\ Max({h, j}) = (IF h >= j THEN h ELSE j)
  BY MaxOfTwo
<1>3. (Nothing(m) => Nothing(l)) /\ (Nothing(n) => Nothing(k))
  BY DEF AtMost, NatLinks, Nothing
<1>4. /\ TransferTime(d, l, k) = IF Nothing(l) \/ Nothing(k) THEN 0 ELSE Max({f, g})
      /\ TransferTime(d, m, n) = IF Nothing(m) \/ Nothing(n) THEN 0 ELSE Max({h, j})
  BY <1>1 DEF TransferTime
<1>. QED  BY <1>1, <1>2, <1>3, <1>4

(* The times as functions of a table of tokens by batch and device.        *)
Table == [b \in Batches |-> [p \in Devices |-> Tokens(b, p)]]
Tables == [Batches -> [Devices -> Nat]]

OwnOf(T, d, S) ==
  LET others == Devices \ S
      for(side) == Total([p \in side |-> T[Batch(d)][p]], side)
  IN  Links(for({p \in others : NodeBy8(p) = NodeOf(d)}),
            for({p \in others : NodeBy8(p) # NodeOf(d)}))

OtherOf(T, d) ==
  LET others == Batches \ {Batch(d)}
      node(b) == NodeOf(b * ne_tp_dg)
      from(side) == Total([b \in side |-> T[b][d]], side)
  IN  Links(from({b \in others : node(b) = NodeOf(d)}),
            from({b \in others : node(b) # NodeOf(d)}))

ScatterOf(T, d) ==
  TransferTime(d, Scaled(OwnOf(T, d, Group(d, ne_tp_dg)), 1, ne_tp_dg),
                  Scaled(OtherOf(T, d), 1, ne_tp_dg))

GatherOf(T, d) ==
  TransferTime(d, Scaled(OwnOf(T, d, Group(d, e_tp_dg)), IF fp8 THEN 2 ELSE 1,
                         e_tp_dg * ne_tp_dg),
                  Scaled(OtherOf(T, d), 1, ne_tp_dg))

LEMMA SumsMore ==
  ASSUME NEW S, IsFiniteSet(S), NEW f, NEW g,
         \A x \in S : f[x] \in Nat /\ g[x] \in Nat /\ f[x] <= g[x]
  PROVE  Total(f, S) \in Nat /\ Total(g, S) \in Nat /\ Total(f, S) <= Total(g, S)
BY SumNat, SumMonotone, TotalIsSum

LEMMA OwnMore ==
  ASSUME cluster \in Clusters, NEW T \in Tables, NEW U \in Tables,
         \A b \in Batches, p \in Devices : T[b][p] <= U[b][p], NEW d \in Devices, NEW S
  PROVE  AtMost(OwnOf(T, d, S), OwnOf(U, d, S))
<1>1. ASSUME NEW side \in SUBSET Devices
      PROVE  /\ Total([p \in side |-> T[Batch(d)][p]], side) \in Nat
             /\ Total([p \in side |-> U[Batch(d)][p]], side) \in Nat
             /\ Total([p \in side |-> T[Batch(d)][p]], side)
                  <= Total([p \in side |-> U[Batch(d)][p]], side)
  <2>1. PICK f, g : /\ f = [p \in side |-> T[Batch(d)][p]]
                    /\ g = [p \in side |-> U[Batch(d)][p]]
    OBVIOUS
  <2>2. IsFiniteSet(side) /\ Batch(d) \in Batches
    BY Places, FS_Subset
  <2>3. \A p \in side : f[p] \in Nat /\ g[p] \in Nat /\ f[p] <= g[p]
    BY <2>1, <2>2 DEF Tables
  <2>. QED  BY <2>1, <2>2, <2>3, SumsMore
<1>2. PICK A, B : /\ A = {p \in Devices \ S : NodeBy8(p) = NodeOf(d)}
                  /\ B = {p \in Devices \ S : NodeBy8(p) # NodeOf(d)}
  OBVIOUS
<1>3. A \in SUBSET Devices /\ B \in SUBSET Devices
  BY <1>2
<1>4. PICK a, b, x, y : /\ a = Total([p \in A |-> T[Batch(d)][p]], A)
                        /\ b = Total([p \in B |-> T[Batch(d)][p]], B)
                        /\ x = Total([p \in A |-> U[Batch(d)][p]], A)
                        /\ y = Total([p \in B |-> U[Batch(d)][p]], B)
  OBVIOUS
<1>5. /\ a \in Nat /\ b \in Nat /\ x \in Nat /\ y \in Nat /\ a <= x /\ b <= y
  BY <1>1, <1>3, <1>4
<1>6. OwnOf(T, d, S) = Links(a, b) /\ OwnOf(U, d, S) = Links(x, y)
  BY <1>2, <1>4 DEF OwnOf
<1>. QED  BY <1>5, <1>6 DEF AtMost, NatLinks, Links

LEMMA OtherMore ==
  ASSUME cluster \in Clusters, NEW T \in Tables, NEW U \in Tables,
         \A b \in Batches, p \in Devices : T[b][p] <= U[b][p], NEW d \in Devices
  PROVE  AtMost(OtherOf(T, d), OtherOf(U, d))
<1>1. ASSUME NEW side \in SUBSET Batches
      PROVE  /\ Total([b \in side |-> T[b][d]], side) \in Nat
             /\ Total([b \in side |-> U[b][d]], side) \in Nat
             /\ Total([b \in side |-> T[b][d]], side)
                  <= Total([b \in side |-> U[b][d]], side)
  <2>1. PICK f, g : f = [b \in side |-> T[b][d]] /\ g = [b \in side |-> U[b][d]]
    OBVIOUS
  <2>2. IsFiniteSet(side)
    BY Places, FS_Subset
  <2>3. \A b \in side : f[b] \in Nat /\ g[b] \in Nat /\ f[b] <= g[b]
    BY <2>1 DEF Tables
  <2>. QED  BY <2>1, <2>2, <2>3, SumsMore
<1>2. PICK A, B : /\ A = {b \in Batches \ {Batch(d)} : NodeOf(b * ne_tp_dg) = NodeOf(d)}
                  /\ B = {b \in Batches \ {Batch(d)} : NodeOf(b * ne_tp_dg) # NodeOf(d)}
  OBVIOUS
<1>3. A \in SUBSET Batches /\ B \in SUBSET Batches
  BY <1>2
<1>4. PICK a, b, x, y : /\ a = Total([c \in A |-> T[c][d]], A)
                        /\ b = Total([c \in B |-> T[c][d]], B)
                        /\ x = Total([c \in A |-> U[c][d]], A)
                        /\ y = Total([c \in B |-> U[c][d]], B)
  OBVIOUS
<1>5. /\ a \in Nat /\ b \in Nat /\ x \in Nat /\ y \in Nat /\ a <= x /\ b <= y
  BY <1>1, <1>3, <1>4
<1>6. OtherOf(T, d) = Links(a, b) /\ OtherOf(U, d) = Links(x, y)
  BY <1>2, <1>4 DEF OtherOf
<1>. QED  BY <1>5, <1>6 DEF AtMost, NatLinks, Links

LEMMA TimesMore ==
  ASSUME cluster \in Clusters, prefill \in [Batches -> BOOLEAN],
         NEW T \in Tables, NEW U \in Tables,
         \A b \in Batches, p \in Devices : T[b][p] <= U[b][p], NEW d \in Devices
  PROVE  /\ ScatterOf(T, d) \in Nat /\ ScatterOf(U, d) \in Nat
         /\ ScatterOf(T, d) <= ScatterOf(U, d)
         /\ GatherOf(T, d) \in Nat /\ GatherOf(U, d) \in Nat
         /\ GatherOf(T, d) <= GatherOf(U, d)
<1>1. /\ ne_tp_dg \in Nat \ {0} /\ e_tp_dg \in Nat \ {0}
      /\ (IF fp8 THEN 2 ELSE 1) \in Nat
  BY Numbers
<1>2. e_tp_dg * ne_tp_dg \in Nat \ {0}
  BY <1>1
<1>3. AtMost(Scaled(OtherOf(T, d), 1, ne_tp_dg), Scaled(OtherOf(U, d), 1, ne_tp_dg))
  BY <1>1, OtherMore, ScaledMore
<1>4. ASSUME NEW S, NEW mul \in Nat, NEW div \in Nat \ {0}
      PROVE  AtMost(Scaled(OwnOf(T, d, S), mul, div), Scaled(OwnOf(U, d, S), mul, div))
  BY OwnMore, ScaledMore
<1>5. /\ ScatterOf(T, d) \in Nat /\ ScatterOf(U, d) \in Nat
      /\ ScatterOf(T, d) <= ScatterOf(U, d)
  <2>1. PICK l, m, k, n :
          /\ l = Scaled(OwnOf(T, d, Group(d, ne_tp_dg)), 1, ne_tp_dg)
          /\ m = Scaled(OwnOf(U, d, Group(d, ne_tp_dg)), 1, ne_tp_dg)
          /\ k = Scaled(OtherOf(T, d), 1, ne_tp_dg)
          /\ n = Scaled(OtherOf(U, d), 1, ne_tp_dg)
    OBVIOUS
  <2>2. AtMost(l, m) /\ AtMost(k, n)
    BY <1>1, <1>3, <1>4, <2>1
  <2>3. ScatterOf(T, d) = TransferTime(d, l, k) /\ ScatterOf(U, d) = TransferTime(d, m, n)
    BY <2>1 DEF ScatterOf
  <2>. QED  BY <2>2, <2>3, TransferMore
<1>6. /\ GatherOf(T, d) \in Nat /\ GatherOf(U, d) \in Nat
      /\ GatherOf(T, d) <= GatherOf(U, d)
  <2>1. PICK mul \in Nat, div \in Nat \ {0} :
          mul = (IF fp8 THEN 2 ELSE 1) /\ div = e_tp_dg * ne_tp_dg
    BY <1>1, <1>2
  <2>2. PICK l, m, k, n :
          /\ l = Scaled(OwnOf(T, d, Group(d, e_tp_dg)), mul, div)
          /\ m = Scaled(OwnOf(U, d, Group(d, e_tp_dg)), mul, div)
          /\ k = Scaled(OtherOf(T, d), 1, ne_tp_dg)
          /\ n = Scaled(OtherOf(U, d), 1, ne_tp_dg)
    OBVIOUS
  <2>3. AtMost(l, m) /\ AtMost(k, n)
    BY <1>3, <1>4, <2>2
  <2>4. GatherOf(T, d) = TransferTime(d, l, k) /\ GatherOf(U, d) = TransferTime(d, m, n)
    BY <2>1, <2>2 DEF GatherOf
  <2>. QED  BY <2>3, <2>4, TransferMore
<1>. QED  BY <1>5, <1>6

(* The state enters the times only through its table of tokens.            *)
TableDecides ==
  (cluster \in Clusters /\ local_num_token_in_expert \in Counts) =>
    /\ Table \in Tables
    /\ \A d \in Devices : /\ ScatterTime(d) = ScatterOf(Table, d)
                           /\ GatherTime(d) = GatherOf(Table, d)

LEMMA TimesOf == TableDecides
<1>. SUFFICES ASSUME cluster \in Clusters, local_num_token_in_expert \in Counts
              PROVE  /\ Table \in Tables
                     /\ \A d \in Devices : /\ ScatterTime(d) = ScatterOf(Table, d)
                                           /\ GatherTime(d) = GatherOf(Table, d)
  BY DEF TableDecides
<1>1. Table \in Tables /\ \A b \in Batches, p \in Devices : Table[b][p] = Tokens(b, p)
  BY TokensNat DEF Table, Tables
<1>2. ASSUME NEW d \in Devices, NEW S
      PROVE  OwnTokens(d, S) = OwnOf(Table, d, S)
  <2>1. Batch(d) \in Batches
    BY Places
  <2>2. ASSUME NEW side \in SUBSET Devices
        PROVE  [p \in side |-> Tokens(Batch(d), p)] = [p \in side |-> Table[Batch(d)][p]]
    BY <1>1, <2>1
  <2>3. PICK A, B : /\ A = {p \in Devices \ S : NodeBy8(p) = NodeOf(d)}
                    /\ B = {p \in Devices \ S : NodeBy8(p) # NodeOf(d)}
    OBVIOUS
  <2>4. A \in SUBSET Devices /\ B \in SUBSET Devices
    BY <2>3
  <2>5. /\ OwnTokens(d, S) = Links(Total([p \in A |-> Tokens(Batch(d), p)], A),
                                   Total([p \in B |-> Tokens(Batch(d), p)], B))
        /\ OwnOf(Table, d, S) = Links(Total([p \in A |-> Table[Batch(d)][p]], A),
                                      Total([p \in B |-> Table[Batch(d)][p]], B))
    BY <2>3 DEF OwnTokens, OwnOf
  <2>. QED  BY <2>2, <2>4, <2>5
<1>3. ASSUME NEW d \in Devices
      PROVE  OtherTokens(d) = OtherOf(Table, d)
  <2>1. ASSUME NEW side \in SUBSET Batches
        PROVE  [b \in side |-> Tokens(b, d)] = [b \in side |-> Table[b][d]]
    BY <1>1
  <2>2. PICK A, B :
          /\ A = {b \in Batches \ {Batch(d)} : NodeOf(b * ne_tp_dg) = NodeOf(d)}
          /\ B = {b \in Batches \ {Batch(d)} : NodeOf(b * ne_tp_dg) # NodeOf(d)}
    OBVIOUS
  <2>3. A \in SUBSET Batches /\ B \in SUBSET Batches
    BY <2>2
  <2>4. /\ OtherTokens(d) = Links(Total([b \in A |-> Tokens(b, d)], A),
                                  Total([b \in B |-> Tokens(b, d)], B))
        /\ OtherOf(Table, d) = Links(Total([b \in A |-> Table[b][d]], A),
                                     Total([b \in B |-> Table[b][d]], B))
    BY <2>2 DEF OtherTokens, OtherOf
  <2>. QED  BY <2>1, <2>3, <2>4
<1>4. ASSUME NEW d \in Devices
      PROVE  ScatterTime(d) = ScatterOf(Table, d) /\ GatherTime(d) = GatherOf(Table, d)
  BY <1>2, <1>3 DEF ScatterTime, ScatterSend, ScatterReceive, ScatterOf,
                    GatherTime, GatherReceive, GatherSend, GatherOf
<1>. QED  BY <1>1, <1>4
-----------------------------------------------------------------------------
StatusType == [device_time : Nat, high_time : Nat, low_time : Nat]

MTTypeOK ==
  /\ cluster \in Clusters /\ local_num_token_in_expert \in Counts
  /\ prefill \in [Batches -> BOOLEAN]
  /\ phase \in {"gate", "experts", "combined"} /\ mark \in {"none", "high", "low"}
  /\ status \in [Devices -> StatusType]

LEMMA ChargedType ==
  ASSUME NEW st \in StatusType, NEW t \in Nat
  PROVE  Charged(st, t) \in StatusType
BY DEF Charged, StatusType

LEMMA SameCluster ==
  ASSUME cluster' = cluster
  PROVE  Devices' = Devices /\ Batches' = Batches /\ Experts' = Experts /\ Counts' = Counts
BY DEF Devices, Batches, Experts, Counts, total_num_device, num_device, num_node,
   ne_tp_dg

(* Every step keeps the tokens counts of experts there are and the times   *)
(* numbers, and the configuration.                                         *)
LEMMA NextTypes == MTTypeOK /\ [Next]_vars => MTTypeOK'
<1>. SUFFICES ASSUME MTTypeOK, [Next]_vars
              PROVE  MTTypeOK'
  OBVIOUS
<1>1. cluster' = cluster /\ prefill' = prefill /\ mark' = mark
  BY DEF Next, vars, Gate, MoEScatter, MoEGather
<1>2. Devices' = Devices /\ Batches' = Batches /\ Experts' = Experts /\ Counts' = Counts
  BY <1>1, SameCluster
<1>3. /\ cluster \in Clusters /\ local_num_token_in_expert \in Counts
      /\ prefill \in [Batches -> BOOLEAN]
  BY DEF MTTypeOK
<1>4. ASSUME NEW d \in Devices
      PROVE  ScatterTime(d) \in Nat /\ GatherTime(d) \in Nat
  <2>1. PICK T : T = Table
    OBVIOUS
  <2>2. T \in Tables /\ ScatterTime(d) = ScatterOf(T, d) /\ GatherTime(d) = GatherOf(T, d)
    BY <1>3, <2>1, TimesOf DEF TableDecides
  <2>3. \A b \in Batches, p \in Devices : T[b][p] <= T[b][p]
    BY <2>2 DEF Tables
  <2>. QED  BY <1>3, <2>2, <2>3, TimesMore
<1>. USE DEF MTTypeOK
<1>5. ASSUME NEW b \in Batches, NEW e \in Experts, Gate(b, e)
      PROVE  MTTypeOK'
  <2>1. local_num_token_in_expert' \in Counts
    BY <1>5 DEF Gate, Counts
  <2>. QED  BY <1>1, <1>2, <1>5, <2>1 DEF Gate
<1>6. CASE MoEScatter
  <2>1. status' \in [Devices -> StatusType]
    BY <1>4, <1>6, ChargedType DEF MoEScatter
  <2>. QED  BY <1>1, <1>2, <1>6, <2>1 DEF MoEScatter
<1>7. CASE MoEGather
  <2>1. status' \in [Devices -> StatusType]
    BY <1>4, <1>7, ChargedType DEF MoEGather
  <2>. QED  BY <1>1, <1>2, <1>7, <2>1 DEF MoEGather
<1>8. CASE UNCHANGED vars
  BY <1>1, <1>2, <1>8 DEF vars
<1>. QED  BY <1>5, <1>6, <1>7, <1>8 DEF Next

LEMMA InitTypes == Init => MTTypeOK
<1>. SUFFICES ASSUME Init
              PROVE  MTTypeOK
  OBVIOUS
<1>1. /\ cluster.Prefills \in SUBSET BOOLEAN
      /\ cluster.Marks \in SUBSET {"none", "high", "low"}
  BY TransferAssumption DEF Init, ClusterType
<1>2. prefill \in [Batches -> BOOLEAN] /\ mark \in {"none", "high", "low"}
  BY <1>1 DEF Init
<1>. QED  BY <1>2 DEF Init, MTTypeOK, Counts, StatusType

LEMMA GateMore ==
  ASSUME MTTypeOK, MTTypeOK', NEW b \in Batches, NEW e \in Experts, Gate(b, e),
         NEW d \in Devices
  PROVE  ScatterTime(d)' >= ScatterTime(d) /\ GatherTime(d)' >= GatherTime(d)
<1>1. /\ cluster' = cluster /\ prefill' = prefill /\ cluster \in Clusters
      /\ prefill \in [Batches -> BOOLEAN] /\ local_num_token_in_expert \in Counts
      /\ local_num_token_in_expert' \in Counts
      /\ local_num_token_in_expert'
           = [local_num_token_in_expert EXCEPT ![b][e] =
                local_num_token_in_expert[b][e] + 1]
  <2>1. cluster' = cluster
    BY DEF Gate
  <2>. QED  BY <2>1, SameCluster DEF Gate, MTTypeOK
<1>2. Devices' = Devices /\ Batches' = Batches
  BY <1>1, SameCluster
<1>3. PICK T, U : T = Table /\ U = Table'
  OBVIOUS
<1>4. /\ T \in Tables /\ ScatterTime(d) = ScatterOf(T, d) /\ GatherTime(d) = GatherOf(T, d)
  BY <1>1, <1>3, TimesOf DEF TableDecides
<1>5. /\ U \in Tables /\ ScatterTime(d)' = ScatterOf(Table, d)'
      /\ GatherTime(d)' = GatherOf(Table, d)'
  <2>1. TableDecides'
    BY TimesOf, PTL
  <2>2. /\ (cluster \in Clusters)'
        /\ (local_num_token_in_expert \in Counts)'
        /\ Tables' = Tables
    BY <1>2 DEF MTTypeOK, Tables
  <2>. QED  BY <1>2, <1>3, <2>1, <2>2 DEF TableDecides
<1>6. ScatterOf(Table, d)' = ScatterOf(U, d) /\ GatherOf(Table, d)' = GatherOf(U, d)
  <2>1. \A l, m : TransferTime(d, l, m)' = TransferTime(d, l, m)
    BY <1>1 DEF TransferTime, LinkTime, Nothing, Batch, ne_tp_dg, num_node
  <2>2. \A l, mul, div : Scaled(l, mul, div)' = Scaled(l, mul, div)
    BY <1>1 DEF Scaled, Links
  <2>3. \A n : Group(d, n)' = Group(d, n)
    BY <1>2 DEF Group
  <2>4. \A S : OwnOf(U, d, S)' = OwnOf(U, d, S)
    BY <1>1, <1>2 DEF OwnOf, Links, Batch, NodeOf, NodeBy8, num_device, ne_tp_dg
  <2>5. OtherOf(U, d)' = OtherOf(U, d)
    BY <1>1, <1>2 DEF OtherOf, Links, Batch, NodeOf, num_device, ne_tp_dg
  <2>6. ne_tp_dg' = ne_tp_dg /\ e_tp_dg' = e_tp_dg /\ fp8' = fp8
    BY <1>1 DEF ne_tp_dg, e_tp_dg, fp8
  <2>7. ScatterOf(U, d)' = ScatterOf(U, d) /\ GatherOf(U, d)' = GatherOf(U, d)
    BY <2>1, <2>2, <2>3, <2>4, <2>5, <2>6 DEF ScatterOf, GatherOf
  <2>8. ScatterOf(Table, d)' = ScatterOf(U, d)' /\ GatherOf(Table, d)' = GatherOf(U, d)'
    BY <1>3 DEF ScatterOf, GatherOf, OwnOf, OtherOf
  <2>. QED  BY <2>7, <2>8
<1>7. \A c \in Batches, p \in Devices : T[c][p] <= U[c][p]
  <2>1. SUFFICES ASSUME NEW c \in Batches, NEW p \in Devices
                 PROVE  T[c][p] <= U[c][p]
    OBVIOUS
  <2>2. PICK f, g, S : /\ f = local_num_token_in_expert[c]
                       /\ g = local_num_token_in_expert'[c]
                       /\ S = ExpertsOf(p)
    OBVIOUS
  <2>3. ExpertsOf(p)' = S
    BY <1>1, <2>2 DEF ExpertsOf, total_num_device, num_device, num_node, e_tp_dg
  <2>4. T[c][p] = Total(f, S) /\ U[c][p] = Total(g, S)
    BY <1>2, <1>3, <2>2, <2>3 DEF Table, Tokens
  <2>5. S \subseteq Experts /\ IsFiniteSet(S)
    BY <1>1, <2>2, OwnExperts, Finite, FS_Subset
  <2>6. f \in [Experts -> Nat] /\ \A x \in Experts : g[x] = f[x] \/ g[x] = f[x] + 1
    BY <1>1, <2>2 DEF Counts
  <2>7. \A x \in S : f[x] \in Nat /\ g[x] \in Nat /\ f[x] <= g[x]
    BY <2>5, <2>6
  <2>. QED  BY <2>4, <2>5, <2>7, SumsMore
<1>8. /\ ScatterOf(T, d) \in Nat /\ ScatterOf(U, d) \in Nat
      /\ ScatterOf(T, d) <= ScatterOf(U, d)
      /\ GatherOf(T, d) \in Nat /\ GatherOf(U, d) \in Nat
      /\ GatherOf(T, d) <= GatherOf(U, d)
  BY <1>1, <1>4, <1>5, <1>7, TimesMore
<1>. QED  BY <1>4, <1>5, <1>6, <1>8

(* Whatever is configured and routed, the configuration is one of those    *)
(* given, the counts are of experts and batches there are, and the times   *)
(* that communication.cpp charges are numbers.                             *)
THEOREM TypeCorrect == Spec => []MTTypeOK
BY InitTypes, NextTypes, PTL DEF Spec

(* For every number of nodes, of experts, of devices in a group and for    *)
(* every routing: on nodes of eight devices, all that the devices send in  *)
(* MoEScatter is received, per link, although sender and receiver compute  *)
(* it from different sides of the table.                                   *)
THEOREM SentReachesReceivers == Spec => []SentIsReceived
<1>1. MTTypeOK => SentIsReceived
  BY Balanced DEF MTTypeOK
<1>. QED  BY <1>1, TypeCorrect, PTL

(* One more token for any expert makes neither transfer of any device      *)
(* faster, although each of them returns early when one side has nothing   *)
(* and takes the slower of two links.                                      *)
THEOREM MoreTokensNoFaster == Spec => TokensNeverSpeedUp
<1>1. ASSUME MTTypeOK, MTTypeOK', Next
      PROVE  (\E b \in Batches, e \in Experts : Gate(b, e)) =>
               \A d \in Devices : /\ ScatterTime(d)' >= ScatterTime(d)
                                  /\ GatherTime(d)' >= GatherTime(d)
  BY <1>1, GateMore
<1>2. MTTypeOK /\ MTTypeOK' /\ [Next]_vars =>
        [(\E b \in Batches, e \in Experts : Gate(b, e)) =>
           \A d \in Devices :
             ScatterTime(d)' >= ScatterTime(d) /\ GatherTime(d)' >= GatherTime(d)]_vars
  BY <1>1
<1>. QED  BY <1>2, TypeCorrect, PTL DEF Spec, TokensNeverSpeedUp
=============================================================================
