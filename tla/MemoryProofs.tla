----------------------------- MODULE MemoryProofs -----------------------------
(***************************************************************************)
(* Theorems about the memory of a device, for any geometry of the DRAM and *)
(* any tensors.                                                            *)
(*                                                                         *)
(* A place in the DRAM is a number written in a mixed radix.  The digits   *)
(* are quotients of quotients, so that equal digits come from equal        *)
(* numbers, and the bundles that a kernel keeps are those with one of a    *)
(* few remainders by the length of a round.                                *)
(*                                                                         *)
(* The estimate of checkMemorySize, read without the width of an int, only *)
(* grows with the batch, and the batch it is reduced to is a quotient of   *)
(* what is left of the capacity.                                           *)
(***************************************************************************)
EXTENDS MMapController, MemoryCheck, SetSums, SequenceTheorems

-----------------------------------------------------------------------------
(* Quotients of quotients.                                                 *)

LEMMA Division ==
  ASSUME NEW x \in Nat, NEW n \in Nat \ {0}
  PROVE  /\ x \div n \in Nat /\ x % n \in Nat /\ x % n < n
         /\ x = (x \div n) * n + (x % n)
<1>1. PICK q, r : q = x \div n /\ r = x % n
  OBVIOUS
<1>2. q \in Nat /\ r \in 0 .. n - 1
  BY <1>1
<1>3. x = n * q + r
  BY <1>1
<1>4. n * q = q * n
  BY <1>2
<1>. QED  BY <1>1, <1>2, <1>3, <1>4

(* A number is known by its quotient and its remainder.                    *)
LEMMA DivisionIs ==
  ASSUME NEW n \in Nat \ {0}, NEW q \in Nat, NEW r \in Nat, r < n
  PROVE  /\ q * n + r \in Nat
         /\ (q * n + r) \div n = q /\ (q * n + r) % n = r
<1>1. PICK x \in Nat, m \in Nat : m = q * n /\ x = m + r
  OBVIOUS
<1>2. x \div n = q
  BY <1>1, QuotientIs
<1>3. x = (x \div n) * n + (x % n) /\ x % n \in Nat
  BY Division
<1>4. x = m + (x % n)
  BY <1>1, <1>2, <1>3
<1>. QED  BY <1>1, <1>2, <1>3, <1>4

LEMMA QuotientOfQuotient ==
  ASSUME NEW x \in Nat, NEW m \in Nat \ {0}, NEW n \in Nat \ {0}
  PROVE  x \div (m * n) = (x \div m) \div n
<1>1. PICK q \in Nat, r \in Nat : q = x \div m /\ r < m /\ x = q * m + r
  BY Division
<1>2. PICK p \in Nat, s \in Nat : p = q \div n /\ s < n /\ q = p * n + s
  BY Division
<1>3. PICK k \in Nat \ {0}, t \in Nat : k = m * n /\ t = s * m + r /\ t < k
  <2>1. (s + 1) * m <= n * m
    BY <1>2, TimesMonotone
  <2>2. (s + 1) * m = s * m + m /\ n * m = m * n /\ s * m \in Nat /\ m * n \in Nat
    BY <1>2
  <2>. QED  BY <1>1, <2>1, <2>2
<1>4. x = p * k + t
  <2>1. q * m = (p * n) * m + s * m /\ (p * n) * m = p * (m * n)
    BY <1>2
  <2>2. q * m \in Nat /\ (p * n) * m \in Nat /\ s * m \in Nat
    BY <1>1, <1>2
  <2>. QED  BY <1>1, <1>3, <2>1, <2>2
<1>5. x \div k = p
  BY <1>3, <1>4, DivisionIs
<1>. QED  BY <1>1, <1>2, <1>3, <1>5

LEMMA RemainderOfProduct ==
  ASSUME NEW x \in Nat, NEW m \in Nat \ {0}, NEW n \in Nat \ {0}
  PROVE  x % (m * n) = ((x \div m) % n) * m + (x % m)
<1>1. PICK q \in Nat, r \in Nat : q = x \div m /\ r = x % m /\ x = q * m + r
  BY Division
<1>2. PICK p \in Nat, s \in Nat : p = q \div n /\ s = q % n /\ q = p * n + s
  BY Division
<1>3. PICK k \in Nat \ {0} : k = m * n
  OBVIOUS
<1>4. x \div k = p
  BY <1>1, <1>2, <1>3, QuotientOfQuotient
<1>5. x = p * k + (x % k) /\ x % k \in Nat
  BY <1>4, Division
<1>6. q * m = p * k + s * m
  <2>1. q * m = (p * n) * m + s * m /\ (p * n) * m = p * (m * n)
    BY <1>2
  <2>. QED  BY <1>3, <2>1
<1>7. PICK t \in Nat : t = x % k
  BY <1>5
<1>8. t = s * m + r
  <2>1. p * k \in Nat /\ s * m \in Nat
    OBVIOUS
  <2>2. x = p * k + t
    BY <1>5, <1>7
  <2>. QED  BY <1>1, <1>6, <2>1, <2>2
<1>. QED  BY <1>1, <1>2, <1>3, <1>7, <1>8

(* Whole multiples of the divisor pass through.                            *)
LEMMA QuotientPlus ==
  ASSUME NEW x \in Nat, NEW n \in Nat \ {0}, NEW k \in Nat
  PROVE  (x + k * n) \div n = (x \div n) + k
<1>1. PICK q \in Nat, r \in Nat : /\ q = x \div n /\ r < n /\ x = q * n + r
  BY Division
<1>2. x + k * n = (q + k) * n + r
  <2>1. (q + k) * n = q * n + k * n /\ q * n \in Nat /\ k * n \in Nat
    BY <1>1
  <2>. QED  BY <1>1, <2>1
<1>3. ((q + k) * n + r) \div n = q + k
  BY <1>1, DivisionIs
<1>. QED  BY <1>1, <1>2, <1>3
-----------------------------------------------------------------------------
(* The digits of a number.                                                 *)

Bases == Seq(Nat \ {0})

(* The recursive function of Digits: the products of the lower bases.      *)
Below(bases) ==
  CHOOSE f : f = [i \in 0 .. Len(bases) |-> IF i = 0 THEN 1 ELSE f[i - 1] * bases[i]]

LEMMA BelowIs ==
  ASSUME NEW bases \in Bases
  PROVE  /\ Below(bases) \in [0 .. Len(bases) -> Nat \ {0}]
         /\ Below(bases)[0] = 1
         /\ \A i \in 1 .. Len(bases) : Below(bases)[i] = Below(bases)[i - 1] * bases[i]
<1>. DEFINE n == Len(bases)
            Products(k, f) == /\ f \in [0 .. k -> Nat \ {0}] /\ f[0] = 1
                              /\ \A i \in 1 .. k : f[i] = f[i - 1] * bases[i]
            Good == {k \in 0 .. n : \E f : Products(k, f)}
<1>1. n \in Nat /\ \A i \in 1 .. n : bases[i] \in Nat \ {0}
  BY DEF Bases
<1>2. 0 \in Good
  <2>1. Products(0, [i \in 0 .. 0 |-> 1]) /\ 0 \in 0 .. n
    BY <1>1
  <2>. HIDE DEF Products, n
  <2>. QED  BY <2>1
<1>3. ASSUME NEW k \in 0 .. n - 1, k \in Good
      PROVE  k + 1 \in Good
  <2>1. PICK f : Products(k, f)
    BY <1>3
  <2>. DEFINE g == [i \in 0 .. k + 1 |-> IF i <= k THEN f[i] ELSE f[k] * bases[k + 1]]
  <2>2. f[k] \in Nat \ {0} /\ bases[k + 1] \in Nat \ {0}
    BY <1>1, <2>1
  <2>3. f[k] * bases[k + 1] \in Nat \ {0}
    BY <2>2
  <2>4. g \in [0 .. k + 1 -> Nat \ {0}] /\ g[0] = 1
    BY <2>1, <2>3
  <2>5. ASSUME NEW i \in 1 .. k + 1
        PROVE  g[i] = g[i - 1] * bases[i]
    <3>1. CASE i \in 1 .. k
      <4>1. g[i] = f[i] /\ g[i - 1] = f[i - 1]
        BY <3>1
      <4>. QED  BY <2>1, <3>1, <4>1
    <3>2. CASE i = k + 1
      BY <3>2
    <3>. QED  BY <3>1, <3>2
  <2>6. Products(k + 1, g)
    BY <2>4, <2>5
  <2>7. k + 1 \in 0 .. n
    BY <1>1
  <2>. HIDE DEF Products, g
  <2>. QED  BY <2>6, <2>7
<1>4. n \in Good
  <2>. HIDE DEF Good
  <2>1. \A k \in 0 .. n : k \in Good
    BY <1>1, <1>2, <1>3, CountUp
  <2>. QED  BY <1>1, <2>1
<1>5. PICK f : Products(n, f)
  BY <1>4
<1>6. f = [i \in 0 .. n |-> IF i = 0 THEN 1 ELSE f[i - 1] * bases[i]]
  <2>1. \A i \in 0 .. n : f[i] = IF i = 0 THEN 1 ELSE f[i - 1] * bases[i]
    BY <1>1, <1>5
  <2>. QED  BY <1>5, <2>1
<1>7. Below(bases) = [i \in 0 .. n |-> IF i = 0 THEN 1
                                         ELSE Below(bases)[i - 1] * bases[i]]
  BY <1>6 DEF Below
<1>8. PICK h : h = Below(bases)
  OBVIOUS
<1>9. /\ DOMAIN h = 0 .. n /\ h[0] = 1 /\ h = [i \in 0 .. n |-> h[i]]
      /\ \A i \in 1 .. n : h[i] = h[i - 1] * bases[i]
  BY <1>1, <1>7, <1>8
<1>. DEFINE Typed == {i \in 0 .. n : h[i] \in Nat \ {0}}
<1>10. 0 \in Typed /\ \A k \in 0 .. n - 1 : k \in Typed => k + 1 \in Typed
  <2>1. ASSUME NEW k \in 0 .. n - 1, h[k] \in Nat \ {0}
        PROVE  h[k + 1] \in Nat \ {0}
    <3>1. h[k + 1] = h[k] * bases[k + 1] /\ bases[k + 1] \in Nat \ {0}
      BY <1>1, <1>9
    <3>. QED  BY <2>1, <3>1
  <2>2. 0 \in Typed /\ \A k \in 0 .. n - 1 : k \in 0 .. n /\ k + 1 \in 0 .. n
    BY <1>1, <1>9
  <2>. HIDE DEF n
  <2>. QED  BY <2>1, <2>2
<1>11. \A k \in 0 .. n : h[k] \in Nat \ {0}
  <2>. HIDE DEF Typed
  <2>1. \A k \in 0 .. n : k \in Typed
    BY <1>1, <1>10, CountUp
  <2>. QED  BY <2>1 DEF Typed
<1>. QED  BY <1>8, <1>9, <1>11

(* What is left of x above the lowest i digits.                            *)
Above(x, bases) == [i \in 0 .. Len(bases) |-> x \div Below(bases)[i]]

LEMMA DigitsAre ==
  ASSUME NEW x \in Nat, NEW bases \in Bases
  PROVE  LET a == Above(x, bases)
         IN  /\ a \in [0 .. Len(bases) -> Nat] /\ a[0] = x
             /\ \A i \in 1 .. Len(bases) : a[i] = a[i - 1] \div bases[i]
             /\ DOMAIN Digits(x, bases) = 1 .. Len(bases) + 1
             /\ \A i \in 1 .. Len(bases) : Digits(x, bases)[i] = a[i - 1] % bases[i]
             /\ Digits(x, bases)[Len(bases) + 1] = a[Len(bases)]
<1>. DEFINE n == Len(bases)
<1>1. n \in Nat /\ \A i \in 1 .. n : bases[i] \in Nat \ {0}
  BY DEF Bases
<1>2. PICK p, a : p = Below(bases) /\ a = Above(x, bases)
  OBVIOUS
<1>3. /\ p \in [0 .. n -> Nat \ {0}] /\ p[0] = 1
      /\ \A i \in 1 .. n : p[i] = p[i - 1] * bases[i]
  BY <1>2, BelowIs
<1>4. DOMAIN a = 0 .. n /\ \A i \in 0 .. n : a[i] = x \div p[i]
  BY <1>2 DEF Above
<1>5. \A i \in 0 .. n : a[i] \in Nat
  BY <1>3, <1>4, Division
<1>6. a \in [0 .. n -> Nat]
  <2>1. a = [i \in 0 .. n |-> a[i]]
    BY <1>2 DEF Above
  <2>. QED  BY <1>5, <2>1
<1>7. a[0] = x
  BY <1>1, <1>3, <1>4
<1>8. ASSUME NEW i \in 1 .. n
      PROVE  a[i] = a[i - 1] \div bases[i]
  <2>1. PICK m \in Nat \ {0}, b \in Nat \ {0} : m = p[i - 1] /\ b = bases[i]
    <3>1. i - 1 \in 0 .. n
      BY <1>1
    <3>2. p[i - 1] \in Nat \ {0}
      BY <1>3, <3>1
    <3>3. bases[i] \in Nat \ {0}
      BY <1>1
    <3>. QED  BY <3>2, <3>3, Zenon
  <2>2. a[i] = x \div (m * b) /\ a[i - 1] = x \div m
    <3>1. i - 1 \in 0 .. n /\ i \in 0 .. n
      BY <1>1
    <3>. QED  BY <1>3, <1>4, <2>1, <3>1
  <2>3. x \div (m * b) = (x \div m) \div b
    BY QuotientOfQuotient
  <2>. QED  BY <2>1, <2>2, <2>3
<1>9. Digits(x, bases) = [i \in 1 .. n + 1 |-> IF i <= n THEN (x \div p[i - 1]) % bases[i]
                                               ELSE x \div p[i - 1]]
  BY <1>2 DEF Digits, Below
<1>10. \A i \in 1 .. n : Digits(x, bases)[i] = a[i - 1] % bases[i]
  BY <1>1, <1>4, <1>9
<1>11. Digits(x, bases)[n + 1] = a[n]
  BY <1>1, <1>4, <1>9
<1>12. DOMAIN Digits(x, bases) = 1 .. n + 1
  BY <1>9
<1>. QED  BY <1>2, <1>6, <1>7, <1>8, <1>10, <1>11, <1>12

(* Numbers with the same digits are the same.                              *)
LEMMA DigitsDetermine ==
  ASSUME NEW x \in Nat, NEW y \in Nat, NEW bases \in Bases,
         \A i \in 1 .. Len(bases) + 1 : Digits(x, bases)[i] = Digits(y, bases)[i]
  PROVE  x = y
<1>. DEFINE n == Len(bases)
<1>1. n \in Nat /\ \A i \in 1 .. n : bases[i] \in Nat \ {0}
  BY DEF Bases
<1>2. PICK a, b : a = Above(x, bases) /\ b = Above(y, bases)
  OBVIOUS
<1>3. /\ a \in [0 .. n -> Nat] /\ b \in [0 .. n -> Nat] /\ a[0] = x /\ b[0] = y
      /\ a[n] = b[n]
      /\ \A i \in 1 .. n : /\ a[i] = a[i - 1] \div bases[i]
                           /\ b[i] = b[i - 1] \div bases[i]
                           /\ a[i - 1] % bases[i] = b[i - 1] % bases[i]
  <2>1. /\ a \in [0 .. n -> Nat] /\ a[0] = x
        /\ \A i \in 1 .. n : /\ a[i] = a[i - 1] \div bases[i]
                             /\ Digits(x, bases)[i] = a[i - 1] % bases[i]
        /\ Digits(x, bases)[n + 1] = a[n]
    BY <1>2, DigitsAre
  <2>2. /\ b \in [0 .. n -> Nat] /\ b[0] = y
        /\ \A i \in 1 .. n : /\ b[i] = b[i - 1] \div bases[i]
                             /\ Digits(y, bases)[i] = b[i - 1] % bases[i]
        /\ Digits(y, bases)[n + 1] = b[n]
    BY <1>2, DigitsAre
  <2>. HIDE DEF n
  <2>3. n + 1 \in 1 .. n + 1 /\ \A i \in 1 .. n : i \in 1 .. n + 1
    BY <1>1
  <2>. QED  BY <2>1, <2>2, <2>3 DEF n
<1>. HIDE DEF n
<1>. DEFINE Same == {k \in 0 .. n : a[n - k] = b[n - k]}
<1>4. 0 \in Same
  BY <1>1, <1>3
<1>5. ASSUME NEW k \in 0 .. n - 1, k \in Same
      PROVE  k + 1 \in Same
  <2>1. PICK i \in 1 .. n : i = n - k
    BY <1>1
  <2>2. n - (k + 1) = i - 1 /\ k + 1 \in 0 .. n /\ i - 1 \in 0 .. n /\ a[i] = b[i]
    BY <1>1, <1>5, <2>1
  <2>3. PICK u \in Nat, v \in Nat, m \in Nat \ {0} :
          u = a[i - 1] /\ v = b[i - 1] /\ m = bases[i]
    BY <1>1, <1>3, <2>2
  <2>4. u \div m = v \div m /\ u % m = v % m
    BY <1>3, <2>2, <2>3
  <2>5. u = (u \div m) * m + (u % m) /\ v = (v \div m) * m + (v % m)
    BY Division
  <2>6. u = v
    BY <2>4, <2>5
  <2>. QED  BY <2>2, <2>3, <2>6
<1>6. \A k \in 0 .. n : k \in Same
  <2>. HIDE DEF Same
  <2>. QED  BY <1>1, <1>4, <1>5, CountUp
<1>7. n \in Same /\ n - n = 0
  BY <1>1, <1>6
<1>. QED  BY <1>3, <1>7
-----------------------------------------------------------------------------
(* Places in the DRAM.                                                     *)

LEMMA Geometry ==
  /\ granul \in Nat \ {0} /\ num_cube \in Nat \ {0} /\ num_logic_cube = num_cube
  /\ num_channel \in Nat \ {0} /\ num_channel % 2 = 0 /\ num_rank \in Nat \ {0}
  /\ num_bankgroup \in Nat \ {0} /\ num_row \in Nat \ {0} /\ num_col \in Nat \ {0}
  /\ num_bank \in Nat \ {0}
BY GeometryAssumption DEF num_bank

NormalBases == <<num_cube, num_channel, num_rank, num_bankgroup, num_bank, num_col>>
LogicBases ==
  <<num_logic_cube, num_channel, num_bankgroup, 2, num_col, num_row, 2, num_rank>>

LEMMA BasesAre ==
  /\ NormalBases \in Bases /\ Len(NormalBases) = 6
  /\ LogicBases \in Bases /\ Len(LogicBases) = 8
BY Geometry DEF NormalBases, LogicBases, Bases

(* Equal places agree in every part.                                       *)
LEMMA SameParts ==
  ASSUME NEW a1, NEW a2, NEW a3, NEW a4, NEW a5, NEW a6, NEW a7,
         NEW b1, NEW b2, NEW b3, NEW b4, NEW b5, NEW b6, NEW b7,
         [cube |-> a1, channel |-> a2, rank |-> a3, bankgroup |-> a4, bank |-> a5,
          col |-> a6, row |-> a7]
         = [cube |-> b1, channel |-> b2, rank |-> b3, bankgroup |-> b4, bank |-> b5,
            col |-> b6, row |-> b7]
  PROVE  /\ a1 = b1 /\ a2 = b2 /\ a3 = b3 /\ a4 = b4 /\ a5 = b5 /\ a6 = b6
         /\ a7 = b7
<1>1. PICK u, v : /\ u = v
                  /\ u = [cube |-> a1, channel |-> a2, rank |-> a3, bankgroup |-> a4,
                         bank |-> a5, col |-> a6, row |-> a7]
                  /\ v = [cube |-> b1, channel |-> b2, rank |-> b3, bankgroup |-> b4,
                         bank |-> b5, col |-> b6, row |-> b7]
  OBVIOUS
<1>2. /\ u.cube = a1 /\ u.channel = a2 /\ u.rank = a3 /\ u.bankgroup = a4
      /\ u.bank = a5 /\ u.col = a6 /\ u.row = a7
  BY <1>1
<1>3. /\ v.cube = b1 /\ v.channel = b2 /\ v.rank = b3 /\ v.bankgroup = b4
      /\ v.bank = b5 /\ v.col = b6 /\ v.row = b7
  BY <1>1
<1>. QED  BY <1>1, <1>2, <1>3

LEMMA NormalPlace ==
  ASSUME NEW x \in Nat, NEW y \in Nat, addrToVec(x) = addrToVec(y)
  PROVE  x \div granul = y \div granul
<1>1. PICK a \in Nat, b \in Nat : a = x \div granul /\ b = y \div granul
  BY Geometry, Division
<1>2. PICK c, d : c = Digits(a, NormalBases) /\ d = Digits(b, NormalBases)
  OBVIOUS
<1>3. /\ addrToVec(x) = [cube |-> c[1], channel |-> c[2], rank |-> c[3],
                         bankgroup |-> c[4], bank |-> c[5], col |-> c[6], row |-> c[7]]
      /\ addrToVec(y) = [cube |-> d[1], channel |-> d[2], rank |-> d[3],
                         bankgroup |-> d[4], bank |-> d[5], col |-> d[6], row |-> d[7]]
  BY <1>1, <1>2 DEF addrToVec, NormalBases
<1>4. /\ c[1] = d[1] /\ c[2] = d[2] /\ c[3] = d[3] /\ c[4] = d[4] /\ c[5] = d[5]
      /\ c[6] = d[6] /\ c[7] = d[7]
  <2>1. PICK c1, c2, c3, c4, c5, c6, c7, d1, d2, d3, d4, d5, d6, d7 :
          /\ c1 = c[1] /\ c2 = c[2] /\ c3 = c[3] /\ c4 = c[4] /\ c5 = c[5]
          /\ c6 = c[6] /\ c7 = c[7]
          /\ d1 = d[1] /\ d2 = d[2] /\ d3 = d[3] /\ d4 = d[4] /\ d5 = d[5]
          /\ d6 = d[6] /\ d7 = d[7]
    OBVIOUS
  <2>2. [cube |-> c1, channel |-> c2, rank |-> c3, bankgroup |-> c4, bank |-> c5,
         col |-> c6, row |-> c7]
        = [cube |-> d1, channel |-> d2, rank |-> d3, bankgroup |-> d4, bank |-> d5,
           col |-> d6, row |-> d7]
    BY <1>3, <2>1, Zenon
  <2>3. c1 = d1 /\ c2 = d2 /\ c3 = d3 /\ c4 = d4 /\ c5 = d5 /\ c6 = d6 /\ c7 = d7
    BY <2>2, SameParts, Zenon
  <2>. QED  BY <2>1, <2>3, Zenon
<1>5. \A i \in 1 .. Len(NormalBases) + 1 : c[i] = d[i]
  BY <1>4, BasesAre
<1>. QED  BY <1>1, <1>2, <1>5, BasesAre, DigitsDetermine

(* Both mappings have as many places: what fits the normal one has no      *)
(* digit above those of the other one.                                     *)
LEMMA LogicFits ==
  ASSUME NEW x \in Nat, ValidAddress(x)
  PROVE  Digits(x \div granul, LogicBases)[9] = 0
<1>1. PICK a \in Nat : a = x \div granul
  BY Geometry, Division
<1>2. PICK p, q : p = Below(NormalBases) /\ q = Below(LogicBases)
  OBVIOUS
<1>3. /\ p \in [0 .. 6 -> Nat \ {0}] /\ p[0] = 1 /\ p[1] = p[0] * num_cube
      /\ p[2] = p[1] * num_channel /\ p[3] = p[2] * num_rank
      /\ p[4] = p[3] * num_bankgroup /\ p[5] = p[4] * num_bank /\ p[6] = p[5] * num_col
  <2>1. /\ p \in [0 .. 6 -> Nat \ {0}] /\ p[0] = 1
        /\ \A i \in 1 .. 6 : p[i] = p[i - 1] * NormalBases[i]
    BY <1>2, BasesAre, BelowIs
  <2>2. /\ NormalBases[1] = num_cube /\ NormalBases[2] = num_channel
        /\ NormalBases[3] = num_rank /\ NormalBases[4] = num_bankgroup
        /\ NormalBases[5] = num_bank /\ NormalBases[6] = num_col
    BY DEF NormalBases
  <2>. QED  BY <2>1, <2>2
<1>4. /\ q \in [0 .. 8 -> Nat \ {0}] /\ q[0] = 1 /\ q[1] = q[0] * num_cube
      /\ q[2] = q[1] * num_channel /\ q[3] = q[2] * num_bankgroup /\ q[4] = q[3] * 2
      /\ q[5] = q[4] * num_col /\ q[6] = q[5] * num_row /\ q[7] = q[6] * 2
      /\ q[8] = q[7] * num_rank
  <2>1. /\ q \in [0 .. 8 -> Nat \ {0}] /\ q[0] = 1
        /\ \A i \in 1 .. 8 : q[i] = q[i - 1] * LogicBases[i]
    BY <1>2, BasesAre, BelowIs
  <2>2. /\ LogicBases[1] = num_cube /\ LogicBases[2] = num_channel
        /\ LogicBases[3] = num_bankgroup /\ LogicBases[4] = 2
        /\ LogicBases[5] = num_col /\ LogicBases[6] = num_row /\ LogicBases[7] = 2
        /\ LogicBases[8] = num_rank
    BY Geometry DEF LogicBases
  <2>. QED  BY <2>1, <2>2
<1>5. q[8] = p[6] * num_row
  <2>1. PICK c \in Nat, h \in Nat, r \in Nat, g \in Nat, w \in Nat, l \in Nat :
          /\ c = num_cube /\ h = num_channel /\ r = num_rank /\ g = num_bankgroup
          /\ w = num_row /\ l = num_col
    BY Geometry
  <2>2. p[6] = c * h * r * g * 4 * l
    BY <1>3, <2>1 DEF num_bank
  <2>3. q[8] = c * h * g * 2 * l * w * 2 * r
    BY <1>4, <2>1
  <2>. QED  BY <2>1, <2>2, <2>3
<1>6. a \div p[6] < num_row
  <2>1. Digits(a, NormalBases)[7] < num_row
    BY <1>1 DEF ValidAddress, addrToVec, NormalBases
  <2>2. Digits(a, NormalBases)[7] = Above(a, NormalBases)[6]
    <3>1. NormalBases \in Bases
      BY BasesAre
    <3>2. Digits(a, NormalBases)[Len(NormalBases) + 1]
            = Above(a, NormalBases)[Len(NormalBases)]
      BY <3>1, DigitsAre, Zenon
    <3>3. Len(NormalBases) + 1 = 7
      BY BasesAre
    <3>. QED  BY <3>2, <3>3, BasesAre
  <2>3. Above(a, NormalBases)[6] = a \div p[6]
    BY <1>2, BasesAre DEF Above
  <2>. QED  BY <2>1, <2>2, <2>3
<1>7. a \div q[8] = 0
  <2>1. PICK m \in Nat \ {0}, w \in Nat \ {0} : m = p[6] /\ w = num_row
    BY <1>3, Geometry
  <2>2. q[8] = m * w
    BY <1>5, <2>1
  <2>3. a \div (m * w) = (a \div m) \div w
    BY QuotientOfQuotient
  <2>4. PICK b \in Nat : b = a \div m
    BY Division
  <2>5. b < w
    BY <1>6, <2>1, <2>4
  <2>6. b \div w = 0
    BY <2>5, QuotientIs
  <2>. QED  BY <2>2, <2>3, <2>4, <2>6
<1>8. Digits(a, LogicBases)[9] = Above(a, LogicBases)[8]
  <2>1. Digits(a, LogicBases)[Len(LogicBases) + 1] = Above(a, LogicBases)[Len(LogicBases)]
    <3>1. LogicBases \in Bases
      BY BasesAre
    <3>. QED  BY <3>1, DigitsAre, Zenon
  <2>2. Len(LogicBases) + 1 = 9
    BY BasesAre
  <2>. QED  BY <2>1, <2>2, BasesAre
<1>9. Above(a, LogicBases)[8] = a \div q[8]
  BY <1>2, BasesAre DEF Above
<1>. QED  BY <1>1, <1>7, <1>8, <1>9

(* The fourth digit of the LOGIC mapping is a bit of the bank number, the  *)
(* seventh the other one.                                                  *)
LEMMA LogicPlace ==
  ASSUME NEW x \in Nat, NEW y \in Nat, ValidAddress(x), ValidAddress(y),
         addrToVecLOGIC(x) = addrToVecLOGIC(y)
  PROVE  x \div granul = y \div granul
<1>1. PICK a \in Nat, b \in Nat : a = x \div granul /\ b = y \div granul
  BY Geometry, Division
<1>2. PICK c, d : c = Digits(a, LogicBases) /\ d = Digits(b, LogicBases)
  OBVIOUS
<1>3. /\ addrToVecLOGIC(x) =
           [cube |-> c[1], channel |-> c[2], rank |-> c[8], bankgroup |-> c[3],
            bank |-> c[7] * 2 + c[4], col |-> c[5], row |-> c[6]]
      /\ addrToVecLOGIC(y) =
           [cube |-> d[1], channel |-> d[2], rank |-> d[8], bankgroup |-> d[3],
            bank |-> d[7] * 2 + d[4], col |-> d[5], row |-> d[6]]
  BY <1>1, <1>2 DEF addrToVecLOGIC, LogicBases
<1>4. /\ c[1] = d[1] /\ c[2] = d[2] /\ c[3] = d[3] /\ c[7] * 2 + c[4] = d[7] * 2 + d[4]
      /\ c[5] = d[5] /\ c[6] = d[6] /\ c[8] = d[8]
  <2>1. PICK c1, c2, c3, c4, c5, c6, c8, d1, d2, d3, d4, d5, d6, d8 :
          /\ c1 = c[1] /\ c2 = c[2] /\ c3 = c[3] /\ c4 = c[7] * 2 + c[4]
          /\ c5 = c[5] /\ c6 = c[6] /\ c8 = c[8]
          /\ d1 = d[1] /\ d2 = d[2] /\ d3 = d[3] /\ d4 = d[7] * 2 + d[4]
          /\ d5 = d[5] /\ d6 = d[6] /\ d8 = d[8]
    OBVIOUS
  <2>2. [cube |-> c1, channel |-> c2, rank |-> c8, bankgroup |-> c3, bank |-> c4,
         col |-> c5, row |-> c6]
        = [cube |-> d1, channel |-> d2, rank |-> d8, bankgroup |-> d3, bank |-> d4,
           col |-> d5, row |-> d6]
    BY <1>3, <2>1, Zenon
  <2>3. c1 = d1 /\ c2 = d2 /\ c3 = d3 /\ c4 = d4 /\ c5 = d5 /\ c6 = d6 /\ c8 = d8
    BY <2>2, SameParts, Zenon
  <2>. QED  BY <2>1, <2>3, Zenon
<1>5. c[9] = d[9]
  BY <1>1, <1>2, LogicFits
<1>6. c[4] = d[4] /\ c[7] = d[7]
  <2>1. LogicBases[4] = 2 /\ LogicBases[7] = 2
    BY DEF LogicBases
  <2>2. ASSUME NEW z \in Nat, NEW i \in {4, 7}
        PROVE  Digits(z, LogicBases)[i] \in {0, 1}
    <3>1. i \in 1 .. Len(LogicBases)
      BY BasesAre
    <3>2. /\ Digits(z, LogicBases)[i] = Above(z, LogicBases)[i - 1] % LogicBases[i]
          /\ Above(z, LogicBases) \in [0 .. Len(LogicBases) -> Nat]
      BY <3>1, BasesAre, DigitsAre
    <3>3. PICK n \in Nat : n = Above(z, LogicBases)[i - 1]
      BY <3>1, <3>2, BasesAre
    <3>. QED  BY <2>1, <3>2, <3>3
  <2>3. c[4] \in {0, 1} /\ c[7] \in {0, 1} /\ d[4] \in {0, 1} /\ d[7] \in {0, 1}
    BY <1>2, <2>2
  <2>. QED  BY <1>4, <2>3
<1>7. \A i \in 1 .. Len(LogicBases) + 1 : c[i] = d[i]
  BY <1>4, <1>5, <1>6, BasesAre
<1>. QED  BY <1>1, <1>2, <1>7, BasesAre, DigitsDetermine
-----------------------------------------------------------------------------
(* The memory objects.                                                     *)

Tensor == [tag : Tags, address : Nat, size : Nat]

(* Weights lie one behind the other, all below start_addr_normal.          *)
RangesOK ==
  /\ \A i \in DOMAIN objects :
       objects[i].tag = "weight" => objects[i].address + objects[i].size <= start_addr_normal
  /\ \A i, j \in DOMAIN objects :
       i < j /\ objects[i].tag = "weight" /\ objects[j].tag = "weight" =>
         objects[i].address + objects[i].size <= objects[j].address

MMInv == MMTypeOK /\ RangesOK

LEMMA NewObject ==
  ASSUME MMInv, NEW tag \in Tags, NEW size \in Sizes, setNormal(tag, size)
  PROVE  MMInv'
<1>. DEFINE o == [tag |-> tag, size |-> size,
                  address |-> IF tag = "weight" THEN start_addr_normal ELSE 0]
            n == Len(objects)
<1>1. /\ objects \in Seq(Tensor) /\ start_addr_normal \in Nat /\ size \in Nat
      /\ n \in Nat /\ DOMAIN objects = 1 .. n
  BY TensorAssumption, LenProperties DEF MMInv, MMTypeOK, Tensor
<1>2. o \in Tensor
  BY <1>1 DEF Tensor
<1>3. objects' = Append(objects, o)
      /\ start_addr_normal' = start_addr_normal + (IF tag = "weight" THEN size ELSE 0)
  BY DEF setNormal
<1>4. /\ objects' \in Seq(Tensor) /\ DOMAIN objects' = 1 .. n + 1
      /\ \A i \in 1 .. n : objects'[i] = objects[i]
      /\ objects'[n + 1] = o
  <2>. HIDE DEF o
  <2>. QED  BY <1>1, <1>2, <1>3, AppendProperties
<1>5. start_addr_normal' \in Nat /\ start_addr_normal <= start_addr_normal'
      /\ (tag = "weight" => start_addr_normal' = start_addr_normal + size)
  BY <1>1, <1>3
<1>6. /\ o.tag = tag /\ o.size = size
      /\ (tag = "weight" => o.address = start_addr_normal)
  OBVIOUS
<1>. HIDE DEF o, n
<1>7. \A i \in 1 .. n : /\ objects[i] \in Tensor /\ objects[i].address \in Nat
                        /\ objects[i].size \in Nat
  <2>1. \A i \in 1 .. n : objects[i] \in Tensor
    BY <1>1, ElementOfSeq
  <2>. QED  BY <2>1 DEF Tensor
<1>8. ASSUME NEW i \in 1 .. n + 1, objects'[i].tag = "weight"
      PROVE  objects'[i].address + objects'[i].size <= start_addr_normal'
  <2>1. CASE i \in 1 .. n
    <3>1. objects[i].address + objects[i].size <= start_addr_normal
      BY <1>1, <1>4, <1>8, <2>1 DEF MMInv, RangesOK
    <3>2. objects[i].address + objects[i].size \in Nat
      BY <1>7, <2>1
    <3>. QED  BY <1>1, <1>4, <1>5, <2>1, <3>1, <3>2
  <2>2. CASE i = n + 1
    BY <1>4, <1>5, <1>6, <1>8, <2>2, <1>1
  <2>. QED  BY <1>1, <2>1, <2>2
<1>9. ASSUME NEW i \in 1 .. n + 1, NEW j \in 1 .. n + 1, i < j,
             objects'[i].tag = "weight", objects'[j].tag = "weight"
      PROVE  objects'[i].address + objects'[i].size <= objects'[j].address
  <2>1. i \in 1 .. n
    BY <1>1, <1>9
  <2>2. CASE j \in 1 .. n
    BY <1>1, <1>4, <1>9, <2>1, <2>2 DEF MMInv, RangesOK
  <2>3. CASE j = n + 1
    <3>1. objects[i].address + objects[i].size <= start_addr_normal
      BY <1>1, <1>4, <1>9, <2>1 DEF MMInv, RangesOK
    <3>. QED  BY <1>4, <1>6, <1>9, <2>1, <2>3, <3>1
  <2>. QED  BY <1>1, <2>2, <2>3
<1>10. MMTypeOK'
  BY <1>4, <1>5 DEF MMTypeOK, Tensor
<1>11. RangesOK'
  BY <1>4, <1>8, <1>9 DEF RangesOK
<1>. QED  BY <1>10, <1>11 DEF MMInv

LEMMA NewSize ==
  ASSUME MMInv, NEW k \in DOMAIN objects, NEW size \in Sizes, setSize(k, size)
  PROVE  MMInv'
<1>1. /\ objects \in Seq(Tensor) /\ start_addr_normal \in Nat /\ size \in Nat
      /\ objects[k].tag # "weight" /\ start_addr_normal' = start_addr_normal
      /\ objects' = [objects EXCEPT ![k].size = size]
  BY TensorAssumption DEF MMInv, MMTypeOK, Tensor, setSize
<1>2. objects[k] \in Tensor
  BY <1>1, ElementOfSeq
<1>3. PICK o : o = [objects[k] EXCEPT !.size = size]
  OBVIOUS
<1>4. o \in Tensor /\ o.tag # "weight"
  BY <1>1, <1>2, <1>3 DEF Tensor
<1>5. objects' = [objects EXCEPT ![k] = o]
  BY <1>1, <1>3
<1>6. /\ objects' \in Seq(Tensor) /\ DOMAIN objects' = DOMAIN objects
      /\ \A i \in DOMAIN objects : objects'[i] = IF i = k THEN o ELSE objects[i]
  BY <1>1, <1>4, <1>5, ExceptSeq
<1>7. MMTypeOK'
  BY <1>1, <1>6 DEF MMTypeOK, Tensor
<1>8. RangesOK'
  BY <1>1, <1>4, <1>6 DEF RangesOK, MMInv
<1>. QED  BY <1>7, <1>8 DEF MMInv

LEMMA MemoryInvariant == MMSpec => []MMInv
<1>1. MMInit => MMInv
  BY DEF MMInit, MMInv, MMTypeOK, RangesOK
<1>2. MMInv /\ [MMNext]_mvars => MMInv'
  <2>1. ASSUME MMInv, UNCHANGED mvars
        PROVE  MMInv'
    BY <2>1 DEF MMInv, MMTypeOK, RangesOK, mvars
  <2>. QED  BY <2>1, NewObject, NewSize DEF MMNext
<1>. QED  BY <1>1, <1>2, PTL DEF MMSpec

(* Bundles of ranges that are apart are different, though the ranges need  *)
(* not begin or end at a bundle.                                           *)
LEMMA BundlesApart ==
  ASSUME NEW a \in Nat, NEW s \in Nat, NEW b \in Nat, NEW c \in Nat, NEW d \in Nat,
         a + s <= d, b <= NumBundles(s) - 1
  PROVE  (a + b * granul) \div granul # (d + c * granul) \div granul
<1>1. PICK g \in Nat \ {0} : g = granul
  BY Geometry
<1>2. PICK q \in Nat : q = s \div g /\ q * g <= s
  BY Divides
<1>3. b + 1 <= q
  BY <1>1, <1>2 DEF NumBundles
<1>4. (b + 1) * g <= q * g
  BY <1>2, <1>3, TimesMonotone
<1>5. /\ (b + 1) * g = b * g + g /\ b * g \in Nat /\ q * g \in Nat
  OBVIOUS
<1>6. a + (b + 1) * g <= d
  BY <1>2, <1>4, <1>5
<1>7. (a \div g) + (b + 1) <= d \div g
  <2>1. (a + (b + 1) * g) \div g = (a \div g) + (b + 1)
    <3>1. PICK k \in Nat : k = b + 1
      OBVIOUS
    <3>2. (a + k * g) \div g = (a \div g) + k
      BY QuotientPlus
    <3>. QED  BY <3>1, <3>2
  <2>2. a + (b + 1) * g \in Nat
    BY <1>5
  <2>3. (a + (b + 1) * g) \div g <= d \div g
    BY <1>6, <2>2, QuotientMonotone
  <2>. QED  BY <2>1, <2>3
<1>8. (a + b * g) \div g = (a \div g) + b /\ (d + c * g) \div g = (d \div g) + c
  BY QuotientPlus
<1>9. PICK u \in Nat, v \in Nat : u = a \div g /\ v = d \div g
  BY Divides
<1>. QED  BY <1>1, <1>7, <1>8, <1>9

(* No two weights share a place, under either mapping: setNormal gives     *)
(* them ranges that are apart, and addrToVec and addrToVecLOGIC give       *)
(* different bundles different places.                                     *)
THEOREM WeightsApart == MMSpec => []WeightsDisjoint
<1>1. ASSUME MMInv, NEW i \in DOMAIN objects, NEW j \in DOMAIN objects, i < j,
             objects[i].tag = "weight", objects[j].tag = "weight",
             Fits(objects[i]), Fits(objects[j]),
             NEW b \in Bundles(objects[i]), NEW c \in Bundles(objects[j]),
             NEW type \in {"GPU", "LOGIC"}
      PROVE  getAddrVec(type, objects[i].address, b) # getAddrVec(type, objects[j].address, c)
  <2>1. objects \in Seq(Tensor) /\ objects[i] \in Tensor /\ objects[j] \in Tensor
    <3>1. objects \in Seq(Tensor)
      BY <1>1 DEF MMInv, MMTypeOK, Tensor
    <3>. QED  BY <3>1, ElementOfSeq
  <2>2. PICK a \in Nat, s \in Nat, d \in Nat, t \in Nat :
             /\ a = objects[i].address /\ s = objects[i].size
             /\ d = objects[j].address /\ t = objects[j].size
    BY <2>1 DEF Tensor
  <2>3. a + s <= d
    BY <1>1, <2>2 DEF MMInv, RangesOK
  <2>4. NumBundles(s) \in Nat /\ NumBundles(t) \in Nat
    BY Geometry, Division DEF NumBundles
  <2>5. b \in Nat /\ c \in Nat /\ b <= NumBundles(s) - 1
    BY <2>2, <2>4 DEF Bundles
  <2>6. PICK x \in Nat, y \in Nat : x = a + b * granul /\ y = d + c * granul
    BY <2>5, Geometry
  <2>7. x \div granul # y \div granul
    BY <2>3, <2>5, <2>6, BundlesApart
  <2>8. ValidAddress(x) /\ ValidAddress(y)
    BY <1>1, <2>2, <2>6 DEF Fits
  <2>9. addrToVec(x) # addrToVec(y) /\ addrToVecLOGIC(x) # addrToVecLOGIC(y)
    BY <2>7, <2>8, NormalPlace, LogicPlace
  <2>. QED  BY <2>2, <2>6, <2>9 DEF getAddrVec
<1>2. MMInv => WeightsDisjoint
  BY <1>1 DEF WeightsDisjoint
<1>. QED  BY <1>2, MemoryInvariant, PTL
-----------------------------------------------------------------------------
(* The bundles with a given remainder.                                     *)

(* Up to which quotient the numbers with remainder r lie below a.          *)
Quotients(a, R, r) == (a + (R - 1 - r)) \div R

LEMMA QuotientsAre ==
  ASSUME NEW a \in Nat, NEW R \in Nat \ {0}, NEW r \in 0 .. R - 1, NEW j \in Nat
  PROVE  Quotients(a, R, r) \in Nat /\ (j < Quotients(a, R, r) <=> j * R + r < a)
<1>1. PICK x \in Nat : x = a + (R - 1 - r)
  OBVIOUS
<1>2. PICK L \in Nat : L = x \div R /\ L * R <= x /\ x < L * R + R
  BY Divides
<1>3. ASSUME NEW i \in Nat, NEW k \in Nat, i < k
      PROVE  i * R + R <= k * R
  <2>1. (i + 1) * R <= k * R /\ (i + 1) * R = i * R + R
    BY <1>3, TimesMonotone
  <2>. QED  BY <2>1
<1>4. L * R \in Nat /\ j * R \in Nat
  OBVIOUS
<1>5. j < L => j * R + r < a
  BY <1>1, <1>2, <1>3, <1>4
<1>6. L <= j => ~(j * R + r < a)
  <2>1. L <= j => L * R <= j * R
    BY TimesMonotone
  <2>. QED  BY <1>1, <1>2, <1>4, <2>1
<1>7. Quotients(a, R, r) = L
  BY <1>1, <1>2 DEF Quotients
<1>. QED  BY <1>5, <1>6, <1>7

(* Those of the first n bundles behind A with remainder r.                 *)
WithRemainder(A, n, R, r) == {b \in 0 .. n - 1 : (A + b) % R = r}

LEMMA CountRemainder ==
  ASSUME NEW A \in Nat, NEW n \in Nat, NEW R \in Nat \ {0}, NEW r \in 0 .. R - 1
  PROVE  /\ IsFiniteSet(WithRemainder(A, n, R, r))
         /\ Quotients(A, R, r) <= Quotients(A + n, R, r)
         /\ Cardinality(WithRemainder(A, n, R, r))
              = Quotients(A + n, R, r) - Quotients(A, R, r)
<1>. DEFINE S == WithRemainder(A, n, R, r)
<1>1. PICK L \in Nat, U \in Nat : L = Quotients(A, R, r) /\ U = Quotients(A + n, R, r)
  BY QuotientsAre
<1>2. ASSUME NEW j \in Nat
      PROVE  (j < L <=> j * R + r < A) /\ (j < U <=> j * R + r < A + n)
  <2>1. PICK B \in Nat : B = A + n
    OBVIOUS
  <2>2. (j < L <=> j * R + r < A) /\ (j < U <=> j * R + r < B)
    BY <1>1, <2>1, QuotientsAre
  <2>. QED  BY <2>1, <2>2
<1>3. \A j \in Nat : j * R + r \in Nat /\ (j * R + r) \div R = j /\ (j * R + r) % R = r
  BY DivisionIs
<1>4. L <= U
  <2>1. ASSUME U < L
        PROVE  FALSE
    BY <1>2, <1>3, <2>1
  <2>. QED  BY <2>1
<1>. DEFINE f == [j \in L .. U - 1 |-> j * R + r - A]
<1>5. ASSUME NEW j \in L .. U - 1
      PROVE  f[j] \in S /\ A + f[j] = j * R + r
  <2>1. PICK y \in Nat : y = j * R + r /\ ~(y < A) /\ y < A + n /\ y % R = r
    BY <1>1, <1>2, <1>3
  <2>2. f[j] = y - A /\ A + (y - A) = y /\ y - A \in 0 .. n - 1
    BY <2>1
  <2>. QED  BY <1>1, <2>1, <2>2 DEF WithRemainder
<1>6. ASSUME NEW b \in S
      PROVE  \E j \in L .. U - 1 : f[j] = b
  <2>1. b \in 0 .. n - 1 /\ (A + b) % R = r
    BY <1>1 DEF WithRemainder
  <2>2. PICK j \in Nat : A + b = j * R + r
    <3>1. PICK x \in Nat : x = A + b
      BY <2>1
    <3>2. x \div R \in Nat /\ x = (x \div R) * R + (x % R)
      BY Division
    <3>. QED  BY <2>1, <3>1, <3>2
  <2>3. j * R \in Nat /\ ~(j * R + r < A) /\ j * R + r < A + n
    BY <2>1, <2>2
  <2>4. j \in L .. U - 1
    BY <1>1, <1>2, <2>3
  <2>5. j * R + r - A = b
    BY <2>1, <2>2, <2>3
  <2>. QED  BY <2>4, <2>5
<1>7. f \in Bijection(L .. U - 1, S)
  <2>1. f \in [L .. U - 1 -> S]
    BY <1>5
  <2>2. ASSUME NEW j \in L .. U - 1, NEW k \in L .. U - 1, f[j] = f[k]
        PROVE  j = k
    <3>1. j * R + r = k * R + r /\ j \in Nat /\ k \in Nat
      BY <1>1, <1>5, <2>2
    <3>. QED  BY <1>3, <3>1
  <2>. HIDE DEF f
  <2>. QED  BY <1>6, <2>1, <2>2 DEF Bijection, Injection, Surjection, IsInjective
<1>8. ExistsBijection(L .. U - 1, S)
  BY <1>7 DEF ExistsBijection
<1>9. IsFiniteSet(L .. U - 1) /\ Cardinality(L .. U - 1) = U - L
  <2>1. PICK z \in Int : z = U - 1
    OBVIOUS
  <2>2. IsFiniteSet(L .. z) /\ Cardinality(L .. z) = IF L > z THEN 0 ELSE z - L + 1
    BY FS_Interval
  <2>. QED  BY <1>4, <2>1, <2>2
<1>. QED  BY <1>1, <1>4, <1>8, <1>9, FS_Bijection

(* They are one in R, up to less than one round.                           *)
LEMMA ShareOfOne ==
  ASSUME NEW A \in Nat, NEW n \in Nat, NEW R \in Nat \ {0}, NEW r \in 0 .. R - 1
  PROVE  LET c == Cardinality(WithRemainder(A, n, R, r))
         IN  c \in Nat /\ n - R < c * R /\ c * R < n + R
<1>1. PICK L \in Nat, U \in Nat : L = Quotients(A, R, r) /\ U = Quotients(A + n, R, r)
  BY QuotientsAre
<1>2. PICK c \in Nat : c = Cardinality(WithRemainder(A, n, R, r)) /\ c = U - L
  <2>1. PICK S : S = WithRemainder(A, n, R, r)
    OBVIOUS
  <2>2. IsFiniteSet(S) /\ L <= U /\ Cardinality(S) = U - L
    BY <1>1, <2>1, CountRemainder
  <2>3. U - L \in Nat
    BY <2>2
  <2>. QED  BY <2>1, <2>2, <2>3
<1>3. ASSUME NEW a \in Nat, NEW Q \in Nat, Q = Quotients(a, R, r)
      PROVE  a <= Q * R + r /\ Q * R + r < a + R
  <2>1. Q * R \in Nat /\ ~(Q * R + r < a)
    BY <1>3, QuotientsAre
  <2>2. CASE Q = 0
    BY <2>1, <2>2
  <2>3. CASE Q > 0
    <3>1. PICK p \in Nat : Q = p + 1
      <4>1. Q - 1 \in Nat /\ Q = (Q - 1) + 1
        BY <2>3
      <4>. QED  BY <4>1
    <3>2. p * R + r < a
      <4>1. p < Q
        BY <3>1
      <4>2. p < Quotients(a, R, r) <=> p * R + r < a
        BY QuotientsAre
      <4>. QED  BY <1>3, <4>1, <4>2, Zenon
    <3>3. Q * R = p * R + R /\ p * R \in Nat
      BY <3>1
    <3>. QED  BY <2>1, <3>2, <3>3
  <2>. QED  BY <2>2, <2>3
<1>4. A <= L * R + r /\ L * R + r < A + R
  BY <1>1, <1>3
<1>5. A + n <= U * R + r /\ U * R + r < (A + n) + R
  BY <1>1, <1>3
<1>6. U = L + c
  BY <1>2
<1>7. U * R = L * R + c * R /\ L * R \in Nat /\ c * R \in Nat
  BY <1>6
<1>8. n - R < c * R /\ c * R < n + R
  BY <1>4, <1>5, <1>7
<1>. QED  BY <1>2, <1>8

LEMMA ShareOfTwo ==
  ASSUME NEW A \in Nat, NEW n \in Nat, NEW R \in Nat \ {0},
         NEW r \in 0 .. R - 1, NEW s \in 0 .. R - 1, r # s
  PROVE  LET S == WithRemainder(A, n, R, r) \cup WithRemainder(A, n, R, s)
             c == Cardinality(S)
         IN  /\ IsFiniteSet(S) /\ c \in Nat
             /\ c = Cardinality(WithRemainder(A, n, R, r))
                    + Cardinality(WithRemainder(A, n, R, s))
             /\ n * 2 - R * 2 < c * R /\ c * R < n * 2 + R * 2
<1>1. PICK T, V : T = WithRemainder(A, n, R, r) /\ V = WithRemainder(A, n, R, s)
  OBVIOUS
<1>2. PICK c \in Nat, d \in Nat : /\ c = Cardinality(T) /\ n - R < c * R /\ c * R < n + R
                                  /\ d = Cardinality(V) /\ n - R < d * R /\ d * R < n + R
  BY <1>1, ShareOfOne
<1>3. IsFiniteSet(T) /\ IsFiniteSet(V)
  BY <1>1, CountRemainder
<1>4. T \cap V = {}
  BY <1>1 DEF WithRemainder
<1>5. IsFiniteSet(T \cup V) /\ Cardinality(T \cup V) = c + d
  <2>1. /\ IsFiniteSet(T \cup V)
        /\ Cardinality(T \cup V) = Cardinality(T) + Cardinality(V) - Cardinality(T \cap V)
    BY <1>3, FS_Union
  <2>2. Cardinality(T \cap V) = 0
    BY <1>4, FS_EmptySet
  <2>. QED  BY <1>2, <2>1, <2>2
<1>6. (c + d) * R = c * R + d * R /\ c * R \in Nat /\ d * R \in Nat
  OBVIOUS
<1>7. n * 2 - R * 2 < (c + d) * R /\ (c + d) * R < n * 2 + R * 2
  BY <1>2, <1>6
<1>. QED  BY <1>1, <1>2, <1>5, <1>7

LEMMA ShareOfFour ==
  ASSUME NEW A \in Nat, NEW n \in Nat, NEW R \in Nat \ {0},
         NEW r \in 0 .. R - 1, NEW s \in 0 .. R - 1, NEW t \in 0 .. R - 1,
         NEW u \in 0 .. R - 1,
         r # s, r # t, r # u, s # t, s # u, t # u
  PROVE  LET c == Cardinality(   (WithRemainder(A, n, R, r) \cup WithRemainder(A, n, R, s))
                            \cup (WithRemainder(A, n, R, t) \cup WithRemainder(A, n, R, u)))
         IN  c \in Nat /\ n * 4 - R * 4 < c * R /\ c * R < n * 4 + R * 4
<1>1. PICK T, V : /\ T = WithRemainder(A, n, R, r) \cup WithRemainder(A, n, R, s)
                  /\ V = WithRemainder(A, n, R, t) \cup WithRemainder(A, n, R, u)
  OBVIOUS
<1>2. PICK c \in Nat, d \in Nat :
        /\ c = Cardinality(T) /\ n * 2 - R * 2 < c * R /\ c * R < n * 2 + R * 2
        /\ d = Cardinality(V) /\ n * 2 - R * 2 < d * R /\ d * R < n * 2 + R * 2
  BY <1>1, ShareOfTwo
<1>3. IsFiniteSet(T) /\ IsFiniteSet(V)
  BY <1>1, ShareOfTwo
<1>4. T \cap V = {}
  BY <1>1 DEF WithRemainder
<1>5. Cardinality(T \cup V) = c + d
  <2>1. Cardinality(T \cup V) = Cardinality(T) + Cardinality(V) - Cardinality(T \cap V)
    BY <1>3, FS_Union
  <2>2. Cardinality(T \cap V) = 0
    BY <1>4, FS_EmptySet
  <2>. QED  BY <1>2, <2>1, <2>2
<1>6. (c + d) * R = c * R + d * R /\ c * R \in Nat /\ d * R \in Nat
  OBVIOUS
<1>7. n * 4 - R * 4 < (c + d) * R /\ (c + d) * R < n * 4 + R * 4
  BY <1>2, <1>6
<1>. QED  BY <1>1, <1>2, <1>5, <1>7
-----------------------------------------------------------------------------
(* The bundles that a kernel keeps.                                        *)

(* The remainder by a product is a multiple of the first factor when the   *)
(* lower digit is 0: then it tells the digit above.                        *)
TellsDigit(x, m, n, k) ==
  x % (m * n) = k * m <=> (x % m = 0 /\ (x \div m) % n = k)

LEMMA RemainderTellsDigit ==
  ASSUME NEW x \in Nat, NEW m \in Nat \ {0}, NEW n \in Nat \ {0}, NEW k \in Nat
  PROVE  TellsDigit(x, m, n, k)
<1>1. PICK y \in Nat : y = x \div m
  BY Division
<1>2. PICK q \in Nat, r \in Nat : q = y % n /\ r = x % m /\ r < m
  BY Division
<1>3. x % (m * n) = q * m + r
  BY <1>1, <1>2, RemainderOfProduct
<1>4. (q * m + r) \div m = q /\ (q * m + r) % m = r
  BY <1>2, DivisionIs
<1>5. (k * m + 0) \div m = k /\ (k * m + 0) % m = 0
  BY DivisionIs
<1>6. k * m + 0 = k * m
  OBVIOUS
<1>7. q * m + r = k * m => r = 0 /\ q = k
  BY <1>4, <1>5, <1>6
<1>8. r = 0 /\ q = k => q * m + r = k * m
  OBVIOUS
<1>. QED  BY <1>1, <1>2, <1>3, <1>7, <1>8, Zenon DEF TellsDigit

(* In particular, another digit is 0.                                      *)
LEMMA OneMoreZero ==
  ASSUME NEW x \in Nat, NEW m \in Nat \ {0}, NEW n \in Nat \ {0}
  PROVE  TellsDigit(x, m, n, 0) /\ 0 * m = 0
BY RemainderTellsDigit

LEMMA NormalDigits ==
  ASSUME NEW x \in Nat, NEW a \in Nat, a = x \div granul
  PROVE  LET v == addrToVec(x)
         IN  /\ v.cube = a % num_cube
             /\ v.channel = (a \div num_cube) % num_channel
             /\ v.rank = ((a \div num_cube) \div num_channel) % num_rank
             /\ v.bankgroup = (((a \div num_cube) \div num_channel) \div num_rank)
                                % num_bankgroup
             /\ v.bank = ((((a \div num_cube) \div num_channel) \div num_rank)
                            \div num_bankgroup) % num_bank
<1>1. PICK d, h : d = Digits(a, NormalBases) /\ h = Above(a, NormalBases)
  OBVIOUS
<1>2. /\ h[0] = a
      /\ \A i \in 1 .. 6 : h[i] = h[i - 1] \div NormalBases[i]
      /\ \A i \in 1 .. 6 : d[i] = h[i - 1] % NormalBases[i]
  <2>1. PICK bases \in Bases : bases = NormalBases /\ Len(bases) = 6
    BY BasesAre
  <2>2. PICK n \in Nat : n = 6 /\ Len(bases) = n /\ d = Digits(a, bases) /\ h = Above(a, bases)
    BY <1>1, <2>1
  <2>3. h[0] = a
    BY <2>2, DigitsAre
  <2>4. \A i \in 1 .. n : h[i] = h[i - 1] \div bases[i]
    <3>1. \A i \in 1 .. Len(bases) :
            Above(a, bases)[i] = Above(a, bases)[i - 1] \div bases[i]
      BY DigitsAre, Zenon
    <3>. QED  BY <2>2, <3>1, Zenon
  <2>5. \A i \in 1 .. n : d[i] = h[i - 1] % bases[i]
    <3>1. \A i \in 1 .. Len(bases) :
            Digits(a, bases)[i] = Above(a, bases)[i - 1] % bases[i]
      BY DigitsAre, Zenon
    <3>. QED  BY <2>2, <3>1, Zenon
  <2>. QED  BY <2>1, <2>2, <2>3, <2>4, <2>5
<1>3. /\ NormalBases[1] = num_cube /\ NormalBases[2] = num_channel
      /\ NormalBases[3] = num_rank /\ NormalBases[4] = num_bankgroup
      /\ NormalBases[5] = num_bank
  BY DEF NormalBases
<1>4. /\ h[1] = h[0] \div num_cube /\ h[2] = h[1] \div num_channel
      /\ h[3] = h[2] \div num_rank /\ h[4] = h[3] \div num_bankgroup
  BY <1>2, <1>3
<1>5. /\ d[1] = h[0] % num_cube /\ d[2] = h[1] % num_channel /\ d[3] = h[2] % num_rank
      /\ d[4] = h[3] % num_bankgroup /\ d[5] = h[4] % num_bank
  BY <1>2, <1>3
<1>6. /\ addrToVec(x).cube = d[1] /\ addrToVec(x).channel = d[2]
      /\ addrToVec(x).rank = d[3] /\ addrToVec(x).bankgroup = d[4]
      /\ addrToVec(x).bank = d[5]
  BY <1>1 DEF addrToVec, NormalBases
<1>7. /\ h[0] = a /\ h[1] = a \div num_cube /\ h[2] = (a \div num_cube) \div num_channel
      /\ h[3] = ((a \div num_cube) \div num_channel) \div num_rank
  BY <1>2, <1>4
<1>8. h[4] = (((a \div num_cube) \div num_channel) \div num_rank) \div num_bankgroup
  BY <1>4, <1>7
<1>9. addrToVec(x).cube = a % num_cube
  BY <1>5, <1>6, <1>7
<1>10. addrToVec(x).channel = (a \div num_cube) % num_channel
  BY <1>5, <1>6, <1>7
<1>11. addrToVec(x).rank = ((a \div num_cube) \div num_channel) % num_rank
  BY <1>5, <1>6, <1>7
<1>12. addrToVec(x).bankgroup
         = (((a \div num_cube) \div num_channel) \div num_rank) % num_bankgroup
  BY <1>5, <1>6, <1>7
<1>13. addrToVec(x).bank
         = ((((a \div num_cube) \div num_channel) \div num_rank)
              \div num_bankgroup) % num_bank
  BY <1>5, <1>6, <1>8
<1>. QED  BY <1>9, <1>10, <1>11, <1>12, <1>13, Zenon

LEMMA LogicDigits ==
  ASSUME NEW x \in Nat, NEW a \in Nat, a = x \div granul
  PROVE  LET v == addrToVecLOGIC(x)
         IN  /\ v.cube = a % num_cube
             /\ v.channel = (a \div num_cube) % num_channel
             /\ v.bankgroup = ((a \div num_cube) \div num_channel) % num_bankgroup
             /\ v.bank % 2 = (((a \div num_cube) \div num_channel) \div num_bankgroup) % 2
<1>1. PICK d, h : d = Digits(a, LogicBases) /\ h = Above(a, LogicBases)
  OBVIOUS
<1>2. /\ h \in [0 .. 8 -> Nat] /\ h[0] = a
      /\ \A i \in 1 .. 8 : h[i] = h[i - 1] \div LogicBases[i]
      /\ \A i \in 1 .. 8 : d[i] = h[i - 1] % LogicBases[i]
  <2>1. PICK bases \in Bases : bases = LogicBases /\ Len(bases) = 8
    BY BasesAre
  <2>2. PICK n \in Nat : n = 8 /\ Len(bases) = n /\ d = Digits(a, bases) /\ h = Above(a, bases)
    BY <1>1, <2>1
  <2>3. h \in [0 .. n -> Nat] /\ h[0] = a
    <3>1. /\ Above(a, bases) \in [0 .. Len(bases) -> Nat]
          /\ Above(a, bases)[0] = a
      BY DigitsAre, Zenon
    <3>. QED  BY <2>2, <3>1, Zenon
  <2>4. \A i \in 1 .. n : h[i] = h[i - 1] \div bases[i]
    <3>1. \A i \in 1 .. Len(bases) :
            Above(a, bases)[i] = Above(a, bases)[i - 1] \div bases[i]
      BY DigitsAre, Zenon
    <3>. QED  BY <2>2, <3>1, Zenon
  <2>5. \A i \in 1 .. n : d[i] = h[i - 1] % bases[i]
    <3>1. \A i \in 1 .. Len(bases) :
            Digits(a, bases)[i] = Above(a, bases)[i - 1] % bases[i]
      BY DigitsAre, Zenon
    <3>. QED  BY <2>2, <3>1, Zenon
  <2>. QED  BY <2>1, <2>2, <2>3, <2>4, <2>5
<1>3. /\ LogicBases[1] = num_cube /\ LogicBases[2] = num_channel
      /\ LogicBases[3] = num_bankgroup /\ LogicBases[4] = 2 /\ LogicBases[7] = 2
  BY Geometry DEF LogicBases
<1>4. /\ h[1] = h[0] \div num_cube /\ h[2] = h[1] \div num_channel
      /\ h[3] = h[2] \div num_bankgroup
  BY <1>2, <1>3
<1>5. /\ d[1] = h[0] % num_cube /\ d[2] = h[1] % num_channel
      /\ d[3] = h[2] % num_bankgroup /\ d[4] = h[3] % 2 /\ d[7] = h[6] % 2
  BY <1>2, <1>3
<1>6. /\ addrToVecLOGIC(x).cube = d[1] /\ addrToVecLOGIC(x).channel = d[2]
      /\ addrToVecLOGIC(x).bankgroup = d[3]
      /\ addrToVecLOGIC(x).bank = d[7] * 2 + d[4]
  BY <1>1 DEF addrToVecLOGIC, LogicBases
<1>7. (d[7] * 2 + d[4]) % 2 = d[4]
  <2>1. PICK u \in Nat, w \in Nat : u = h[6] /\ w = h[3]
    BY <1>2
  <2>2. d[7] \in {0, 1} /\ d[4] \in {0, 1}
    BY <1>5, <2>1
  <2>. QED  BY <2>2
<1>. QED  BY <1>2, <1>4, <1>5, <1>6, <1>7


LEMMA FirstChannels ==
  ASSUME NEW a \in Nat, NEW v,
         v.cube = a % num_cube, v.channel = (a \div num_cube) % num_channel
  PROVE  /\ PseudoChannel(v) = 0 <=> a % (num_cube * num_channel) = 0
         /\ RamulatorChannel(v) = 0 <=> \/ a % (num_cube * num_channel) = 0
                                        \/ a % (num_cube * num_channel) = num_cube
<1>1. PICK C \in Nat \ {0}, H \in Nat \ {0} : C = num_cube /\ H = num_channel /\ H >= 2
  <2>1. PICK H \in Nat \ {0} : H = num_channel /\ H % 2 = 0
    BY Geometry
  <2>2. H >= 2
    BY <2>1
  <2>. QED  BY <2>1, <2>2, Geometry
<1>2. PICK b \in Nat : b = a \div C
  BY Division
<1>3. PICK c \in Nat, h \in Nat : c = a % C /\ h = b % H /\ h < H
  BY Division
<1>4. v.cube = c /\ v.channel = h
  BY <1>1, <1>2, <1>3
<1>5. PICK p \in Nat : p = H * c + h /\ PseudoChannel(v) = p
  <2>1. PseudoChannel(v) = H * c + h
    BY <1>1, <1>4, Zenon DEF PseudoChannel
  <2>2. H * c + h \in Nat
    OBVIOUS
  <2>. QED  BY <2>1, <2>2, Zenon
<1>6. \/ c = 0 /\ p = h
      \/ c # 0 /\ p >= 2
  <2>1. c # 0 => 1 * H <= c * H
    BY TimesMonotone
  <2>2. c * H \in Nat /\ c * H = H * c /\ 1 * H = H
    OBVIOUS
  <2>3. CASE c = 0
    BY <1>5, <2>3
  <2>4. CASE c # 0
    BY <1>1, <1>5, <2>1, <2>2, <2>4
  <2>. QED  BY <2>3, <2>4
<1>7. a % (C * H) = 0 <=> (c = 0 /\ h = 0)
  <2>1. TellsDigit(a, C, H, 0) /\ 0 * C = 0
    BY OneMoreZero
  <2>. QED  BY <1>2, <1>3, <2>1, Zenon DEF TellsDigit
<1>8. a % (C * H) = C <=> (c = 0 /\ h = 1)
  <2>1. TellsDigit(a, C, H, 1) /\ 1 * C = C
    BY RemainderTellsDigit
  <2>. QED  BY <1>2, <1>3, <2>1, Zenon DEF TellsDigit
<1>9. RamulatorChannel(v) = 0 <=> p = 0 \/ p = 1
  BY <1>5 DEF RamulatorChannel
<1>10. p = 0 <=> (c = 0 /\ h = 0)
  BY <1>6
<1>11. p = 1 <=> (c = 0 /\ h = 1)
  BY <1>6
<1>. QED  BY <1>1, <1>5, <1>7, <1>8, <1>9, <1>10, <1>11, Zenon

BanksOf == num_cube * num_channel * num_rank * num_bankgroup

TellsBank(a, v, k) ==
  (PseudoChannel(v) = 0 /\ v.rank = 0 /\ v.bankgroup = 0 /\ v.bank = k)
    <=> a % (BanksOf * num_bank) = k * BanksOf

LEMMA FirstBanks ==
  ASSUME NEW a \in Nat, NEW x \in Nat, a = x \div granul, NEW v, v = addrToVec(x),
         NEW k \in Nat
  PROVE  TellsBank(a, v, k)
<1>1. PICK c \in Nat \ {0}, h \in Nat \ {0}, r \in Nat \ {0}, g \in Nat \ {0},
           d \in Nat \ {0} :
        c = num_cube /\ h = num_channel /\ r = num_rank /\ g = num_bankgroup /\ d = num_bank
  BY Geometry
<1>2. PICK m2 \in Nat \ {0}, m3 \in Nat \ {0}, m4 \in Nat \ {0} :
        m2 = c * h /\ m3 = m2 * r /\ m4 = m3 * g
  OBVIOUS
<1>3. /\ v.cube = a % c /\ v.channel = (a \div c) % h
      /\ v.rank = ((a \div c) \div h) % r
      /\ v.bankgroup = (((a \div c) \div h) \div r) % g
      /\ v.bank = ((((a \div c) \div h) \div r) \div g) % d
  BY <1>1, NormalDigits, Zenon
<1>4. (a \div c) \div h = a \div m2
  BY <1>2, QuotientOfQuotient
<1>5. (a \div m2) \div r = a \div m3
  BY <1>2, QuotientOfQuotient
<1>6. (a \div m3) \div g = a \div m4
  BY <1>2, QuotientOfQuotient
<1>7. PseudoChannel(v) = 0 <=> a % m2 = 0
  <2>1. v.cube = a % num_cube /\ v.channel = (a \div num_cube) % num_channel
    BY <1>1, <1>3, Zenon
  <2>2. PseudoChannel(v) = 0 <=> a % (num_cube * num_channel) = 0
    BY <2>1, FirstChannels, Zenon
  <2>. QED  BY <1>1, <1>2, <2>2, Zenon
<1>8. v.rank = 0 <=> (a \div m2) % r = 0
  BY <1>3, <1>4, Zenon
<1>9. v.bankgroup = 0 <=> (a \div m3) % g = 0
  BY <1>3, <1>4, <1>5, Zenon
<1>10. v.bank = k <=> (a \div m4) % d = k
  BY <1>3, <1>4, <1>5, <1>6, Zenon
<1>11. TellsDigit(a, m2, r, 0) /\ 0 * m2 = 0
  BY OneMoreZero
<1>12. TellsDigit(a, m3, g, 0) /\ 0 * m3 = 0
  BY OneMoreZero
<1>13. TellsDigit(a, m4, d, k)
  BY RemainderTellsDigit
<1>14. BanksOf = m4
  BY <1>1, <1>2 DEF BanksOf
<1>15. a % m3 = 0 <=> (a % m2 = 0 /\ v.rank = 0)
  BY <1>2, <1>8, <1>11, Zenon DEF TellsDigit
<1>16. a % m4 = 0 <=> (a % m3 = 0 /\ v.bankgroup = 0)
  BY <1>2, <1>9, <1>12, Zenon DEF TellsDigit
<1>17. a % (m4 * d) = k * m4 <=> (a % m4 = 0 /\ v.bank = k)
  BY <1>10, <1>13, Zenon DEF TellsDigit
<1>. QED  BY <1>1, <1>7, <1>14, <1>15, <1>16, <1>17, Zenon DEF TellsBank

LogicBanksOf == num_cube * num_channel * num_bankgroup * 2

LEMMA FirstLogicBanks ==
  ASSUME NEW a \in Nat, NEW x \in Nat, a = x \div granul, NEW v, v = addrToVecLOGIC(x)
  PROVE  PseudoChannel(v) = 0 /\ v.bankgroup = 0 /\ v.bank % 2 = 0
           <=> a % LogicBanksOf = 0
<1>1. PICK c \in Nat \ {0}, h \in Nat \ {0}, g \in Nat \ {0}, d \in Nat \ {0} :
        c = num_cube /\ h = num_channel /\ g = num_bankgroup /\ d = 2
  BY Geometry
<1>2. PICK m2 \in Nat \ {0}, m3 \in Nat \ {0} : m2 = c * h /\ m3 = m2 * g
  OBVIOUS
<1>3. /\ v.cube = a % c /\ v.channel = (a \div c) % h
      /\ v.bankgroup = ((a \div c) \div h) % g
      /\ v.bank % 2 = (((a \div c) \div h) \div g) % d
  BY <1>1, LogicDigits, Zenon
<1>4. (a \div c) \div h = a \div m2
  BY <1>2, QuotientOfQuotient
<1>5. (a \div m2) \div g = a \div m3
  BY <1>2, QuotientOfQuotient
<1>6. PseudoChannel(v) = 0 <=> a % m2 = 0
  <2>1. v.cube = a % num_cube /\ v.channel = (a \div num_cube) % num_channel
    BY <1>1, <1>3, Zenon
  <2>2. PseudoChannel(v) = 0 <=> a % (num_cube * num_channel) = 0
    BY <2>1, FirstChannels, Zenon
  <2>. QED  BY <1>1, <1>2, <2>2, Zenon
<1>7. v.bankgroup = 0 <=> (a \div m2) % g = 0
  BY <1>3, <1>4, Zenon
<1>8. v.bank % 2 = 0 <=> (a \div m3) % d = 0
  BY <1>3, <1>4, <1>5, Zenon
<1>9. TellsDigit(a, m2, g, 0) /\ 0 * m2 = 0
  BY OneMoreZero
<1>10. TellsDigit(a, m3, d, 0) /\ 0 * m3 = 0
  BY OneMoreZero
<1>11. LogicBanksOf = m3 * d
  BY <1>1, <1>2 DEF LogicBanksOf
<1>12. a % m3 = 0 <=> (a % m2 = 0 /\ v.bankgroup = 0)
  BY <1>2, <1>7, <1>9, Zenon DEF TellsDigit
<1>13. a % (m3 * d) = 0 <=> (a % m3 = 0 /\ v.bank % 2 = 0)
  BY <1>8, <1>10, Zenon DEF TellsDigit
<1>. QED  BY <1>6, <1>11, <1>12, <1>13, Zenon


BundleAt(base, A, b, y, a) == y = base + b * granul /\ a = A + b /\ a = y \div granul

LEMMA BundleNumber ==
  ASSUME NEW base \in Nat, NEW A \in Nat, A = base \div granul, NEW b \in Nat
  PROVE  \E y \in Nat, a \in Nat : BundleAt(base, A, b, y, a)
<1>1. PICK g \in Nat \ {0} : g = granul
  BY Geometry
<1>2. b * g \in Nat /\ base + b * g \in Nat /\ A + b \in Nat
  <2>1. PICK m \in Nat : m = b * g
    OBVIOUS
  <2>. QED  BY <2>1
<1>3. (base + b * g) \div g = (base \div g) + b
  BY QuotientPlus
<1>. QED  BY <1>1, <1>2, <1>3, Zenon DEF BundleAt

IssuedBundles(req, type, x, base, n) ==
  {b \in 0 .. n - 1 : Issues(req, type, x, getAddrVec(type, base, b))}

LEMMA IssuedOfRead ==
  ASSUME NEW base \in Nat, NEW A \in Nat, A = base \div granul, NEW n \in Nat,
         NEW req \in {"kRead", "kWrite"}, NEW type \in {"GPU", "LOGIC", "PIM"}, NEW x
  PROVE  IssuedBundles(req, type, x, base, n)
           = WithRemainder(A, n, num_cube * num_channel, 0)
             \cup WithRemainder(A, n, num_cube * num_channel, num_cube)
<1>1. ASSUME NEW b \in 0 .. n - 1
      PROVE  Issues(req, type, x, getAddrVec(type, base, b))
               <=> \/ (A + b) % (num_cube * num_channel) = 0
                   \/ (A + b) % (num_cube * num_channel) = num_cube
  <2>1. PICK y \in Nat, a \in Nat : y = base + b * granul /\ a = A + b /\ a = y \div granul
    <3>1. b \in Nat
      OBVIOUS
    <3>2. \E y \in Nat, a \in Nat : BundleAt(base, A, b, y, a)
      BY <3>1, BundleNumber
    <3>. QED  BY <3>2, Zenon DEF BundleAt
  <2>2. PICK v : v = getAddrVec(type, base, b)
    OBVIOUS
  <2>3. v.cube = a % num_cube /\ v.channel = (a \div num_cube) % num_channel
    <3>1. CASE type = "LOGIC"
      <4>1. v = addrToVecLOGIC(y)
        BY <2>1, <2>2, <3>1 DEF getAddrVec
      <4>. QED  BY <2>1, <4>1, LogicDigits, Zenon
    <3>2. CASE type # "LOGIC"
      <4>1. v = addrToVec(y)
        BY <2>1, <2>2, <3>2 DEF getAddrVec
      <4>. QED  BY <2>1, <4>1, NormalDigits, Zenon
    <3>. QED  BY <3>1, <3>2
  <2>4. RamulatorChannel(v) = 0 <=> \/ a % (num_cube * num_channel) = 0
                                    \/ a % (num_cube * num_channel) = num_cube
    BY <2>3, FirstChannels, Zenon
  <2>5. Issues(req, type, x, v) <=> RamulatorChannel(v) = 0
    BY DEF Issues, ReadKernel, WriteKernel
  <2>. QED  BY <2>1, <2>2, <2>4, <2>5, Zenon
<1>. QED  BY <1>1 DEF IssuedBundles, WithRemainder

(* The banks a MAC command of bandwidth x stands for, one each.            *)
BanksKept(x) == IF x = 16 THEN {0} ELSE IF x = 8 THEN {0, 2} ELSE {0, 1, 2, 3}

LEMMA IssuedOfPIM ==
  ASSUME NEW base \in Nat, NEW A \in Nat, A = base \div granul, NEW n \in Nat,
         NEW x \in {4, 8, 16}
  PROVE  IssuedBundles("kGEMV", "PIM", x, base, n)
           = UNION {WithRemainder(A, n, BanksOf * num_bank, k * BanksOf) : k \in BanksKept(x)}
<1>. DEFINE R == BanksOf * num_bank
            banks == BanksKept(x)
<1>1. ASSUME NEW b \in 0 .. n - 1
      PROVE  Issues("kGEMV", "PIM", x, getAddrVec("PIM", base, b))
               <=> \E k \in banks : (A + b) % R = k * BanksOf
  <2>1. PICK y \in Nat, a \in Nat : y = base + b * granul /\ a = A + b /\ a = y \div granul
    <3>1. b \in Nat
      OBVIOUS
    <3>2. \E y \in Nat, a \in Nat : BundleAt(base, A, b, y, a)
      BY <3>1, BundleNumber
    <3>. QED  BY <3>2, Zenon DEF BundleAt
  <2>2. PICK v : v = getAddrVec("PIM", base, b) /\ v = addrToVec(y)
    BY <2>1 DEF getAddrVec
  <2>3. v.bank \in 0 .. 3
    <3>1. PICK h : h = (((a \div num_cube) \div num_channel) \div num_rank) \div num_bankgroup
      OBVIOUS
    <3>2. v.bank = h % num_bank
      <4>1. addrToVec(y).bank
              = ((((a \div num_cube) \div num_channel) \div num_rank)
                   \div num_bankgroup) % num_bank
        BY <2>1, NormalDigits, Zenon
      <4>. QED  BY <2>2, <3>1, <4>1, Zenon
    <3>3. h \in Nat
      <4>1. PICK h1 \in Nat : h1 = a \div num_cube
        BY Geometry, Division
      <4>2. PICK h2 \in Nat : h2 = h1 \div num_channel
        BY Geometry, Division
      <4>3. PICK h3 \in Nat : h3 = h2 \div num_rank
        BY Geometry, Division
      <4>4. h = h3 \div num_bankgroup
        BY <3>1, <4>1, <4>2, <4>3, Zenon
      <4>. QED  BY <4>4, Geometry, Division
    <3>. QED  BY <3>2, <3>3 DEF num_bank
  <2>4. ASSUME NEW k \in Nat
        PROVE  (PseudoChannel(v) = 0 /\ v.rank = 0 /\ v.bankgroup = 0 /\ v.bank = k)
                 <=> a % R = k * BanksOf
    <3>1. TellsBank(a, v, k)
      BY <2>1, <2>2, FirstBanks
    <3>. QED  BY <3>1 DEF TellsBank
  <2>5. Issues("kGEMV", "PIM", x, v)
          <=> PseudoChannel(v) = 0 /\ v.rank = 0 /\ v.bankgroup = 0 /\ v.bank \in banks
    <3>1. PICK d \in 0 .. 3 : d = v.bank
      BY <2>3
    <3>2. (x = 16 /\ d = 0) \/ (x = 8 /\ d % 2 = 0) \/ x = 4 <=> d \in banks
      BY <3>1 DEF BanksKept
    <3>. HIDE DEF banks
    <3>. QED  BY <3>1, <3>2 DEF Issues, GEMV
  <2>6. banks \subseteq Nat
    BY DEF BanksKept
  <2>. HIDE DEF banks, R
  <2>7. Issues("kGEMV", "PIM", x, v) <=> \E k \in banks : a % R = k * BanksOf
    BY <2>4, <2>5, <2>6, Zenon
  <2>. QED  BY <2>1, <2>2, <2>7, Zenon
<1>. HIDE DEF R, banks
<1>2. IssuedBundles("kGEMV", "PIM", x, base, n)
        = UNION {WithRemainder(A, n, R, k * BanksOf) : k \in banks}
  BY <1>1 DEF IssuedBundles, WithRemainder
<1>. QED  BY <1>2 DEF R, banks

LEMMA IssuedOfLogic ==
  ASSUME NEW base \in Nat, NEW A \in Nat, A = base \div granul, NEW n \in Nat
  PROVE  IssuedBundles("kGEMV", "LOGIC", 4, base, n) = WithRemainder(A, n, LogicBanksOf, 0)
<1>1. ASSUME NEW b \in 0 .. n - 1
      PROVE  Issues("kGEMV", "LOGIC", 4, getAddrVec("LOGIC", base, b))
               <=> (A + b) % LogicBanksOf = 0
  <2>1. PICK y \in Nat, a \in Nat : y = base + b * granul /\ a = A + b /\ a = y \div granul
    <3>1. b \in Nat
      OBVIOUS
    <3>2. \E y \in Nat, a \in Nat : BundleAt(base, A, b, y, a)
      BY <3>1, BundleNumber
    <3>. QED  BY <3>2, Zenon DEF BundleAt
  <2>2. PICK v : v = getAddrVec("LOGIC", base, b) /\ v = addrToVecLOGIC(y)
    BY <2>1 DEF getAddrVec
  <2>3. (PseudoChannel(v) = 0 /\ v.bankgroup = 0 /\ v.bank % 2 = 0) <=> a % LogicBanksOf = 0
    BY <2>1, <2>2, FirstLogicBanks, Zenon
  <2>4. Issues("kGEMV", "LOGIC", 4, v)
          <=> (PseudoChannel(v) = 0 /\ v.bankgroup = 0 /\ v.bank % 2 = 0)
    BY DEF Issues, GEMV
  <2>. QED  BY <2>1, <2>2, <2>3, <2>4, Zenon
<1>. QED  BY <1>1 DEF IssuedBundles, WithRemainder


(* A share of the n bundles up to a round, for a kernel that keeps m       *)
(* remainders of R.                                                        *)
Share(c, n, R, m) == c \in Nat /\ n * m - R * m < c * R /\ c * R < n * m + R * m

LEMMA ShareOfRead ==
  ASSUME NEW base \in Nat, NEW n \in Nat,
         NEW req \in {"kRead", "kWrite"}, NEW type \in {"GPU", "LOGIC", "PIM"}, NEW x
  PROVE  Share(Cardinality(IssuedBundles(req, type, x, base, n)),
               n, num_cube * num_channel, 2)
<1>1. PICK A \in Nat : A = base \div granul
  BY Geometry, Division
<1>2. PICK R \in Nat \ {0}, c \in Nat \ {0} :
        R = num_cube * num_channel /\ c = num_cube /\ c \in 0 .. R - 1
  <2>1. PICK c \in Nat \ {0}, h \in Nat \ {0} : c = num_cube /\ h = num_channel /\ h >= 2
    <3>1. PICK h \in Nat \ {0} : h = num_channel /\ h % 2 = 0
      BY Geometry
    <3>2. h >= 2
      BY <3>1
    <3>. QED  BY <3>1, <3>2, Geometry
  <2>2. 2 * c <= h * c /\ h * c = c * h /\ c * h \in Nat \ {0}
    BY <2>1, TimesMonotone
  <2>. QED  BY <2>1, <2>2
<1>3. IssuedBundles(req, type, x, base, n)
        = WithRemainder(A, n, R, 0) \cup WithRemainder(A, n, R, c)
  BY <1>1, <1>2, IssuedOfRead
<1>4. 0 \in 0 .. R - 1 /\ 0 # c
  BY <1>2
<1>. HIDE DEF Share
<1>5. Share(Cardinality(WithRemainder(A, n, R, 0) \cup WithRemainder(A, n, R, c)), n, R, 2)
  BY <1>2, <1>4, ShareOfTwo DEF Share
<1>. QED  BY <1>2, <1>3, <1>5

LEMMA ShareOfPIM ==
  ASSUME NEW base \in Nat, NEW n \in Nat, NEW x \in {4, 8, 16}
  PROVE  Share(Cardinality(IssuedBundles("kGEMV", "PIM", x, base, n)),
               n, BanksOf * num_bank, 16 \div x)
<1>1. PICK A \in Nat : A = base \div granul
  BY Geometry, Division
<1>2. PICK B \in Nat \ {0}, R \in Nat \ {0} : B = BanksOf /\ R = BanksOf * num_bank /\ R = B * 4
  <2>1. PICK c \in Nat \ {0}, h \in Nat \ {0}, r \in Nat \ {0}, g \in Nat \ {0} :
          c = num_cube /\ h = num_channel /\ r = num_rank /\ g = num_bankgroup
    BY Geometry
  <2>2. c * h * r * g \in Nat \ {0}
    OBVIOUS
  <2>. QED  BY <2>1, <2>2 DEF BanksOf, num_bank
<1>. DEFINE W(k) == WithRemainder(A, n, R, k * B)
<1>3. /\ 0 * B \in 0 .. R - 1 /\ 1 * B \in 0 .. R - 1
      /\ 2 * B \in 0 .. R - 1 /\ 3 * B \in 0 .. R - 1
      /\ 0 * B # 1 * B /\ 0 * B # 2 * B /\ 0 * B # 3 * B
      /\ 1 * B # 2 * B /\ 1 * B # 3 * B /\ 2 * B # 3 * B
  BY <1>2
<1>4. IssuedBundles("kGEMV", "PIM", x, base, n) = UNION {W(k) : k \in BanksKept(x)}
  BY <1>1, <1>2, IssuedOfPIM
<1>5. PICK b0 \in 0 .. R - 1, b1 \in 0 .. R - 1, b2 \in 0 .. R - 1, b3 \in 0 .. R - 1 :
        b0 = 0 * B /\ b1 = 1 * B /\ b2 = 2 * B /\ b3 = 3 * B
  BY <1>3
<1>6. CASE x = 16
  <2>1. IssuedBundles("kGEMV", "PIM", x, base, n) = W(0)
    <3>. HIDE DEF W
    <3>. QED  BY <1>4, <1>6 DEF BanksKept
  <2>2. PICK c \in Nat : /\ c = Cardinality(WithRemainder(A, n, R, b0))
                         /\ n - R < c * R /\ c * R < n + R
    BY ShareOfOne
  <2>3. 16 \div x = 1 /\ n * 1 - R * 1 = n - R /\ n * 1 + R * 1 = n + R
    BY <1>6
  <2>4. Share(c, n, R, 1)
    BY <2>2, <2>3 DEF Share
  <2>. QED  BY <1>2, <1>5, <2>1, <2>2, <2>3, <2>4
<1>7. CASE x = 8
  <2>1. IssuedBundles("kGEMV", "PIM", x, base, n) = W(0) \cup W(2)
    <3>. HIDE DEF W
    <3>. QED  BY <1>4, <1>7 DEF BanksKept
  <2>2. 16 \div x = 2
    BY <1>7
  <2>3. b0 # b2
    BY <1>3, <1>5
  <2>4. Share(Cardinality(WithRemainder(A, n, R, b0) \cup WithRemainder(A, n, R, b2)), n, R, 2)
    BY <2>3, ShareOfTwo DEF Share
  <2>. QED  BY <1>2, <1>5, <2>1, <2>2, <2>4
<1>8. CASE x = 4
  <2>1. IssuedBundles("kGEMV", "PIM", x, base, n) = (W(0) \cup W(1)) \cup (W(2) \cup W(3))
    <3>. HIDE DEF W
    <3>. QED  BY <1>4, <1>8 DEF BanksKept
  <2>2. 16 \div x = 4
    BY <1>8
  <2>3. b0 # b1 /\ b0 # b2 /\ b0 # b3 /\ b1 # b2 /\ b1 # b3 /\ b2 # b3
    BY <1>3, <1>5
  <2>4. Share(Cardinality(   (WithRemainder(A, n, R, b0) \cup WithRemainder(A, n, R, b1))
                        \cup (WithRemainder(A, n, R, b2) \cup WithRemainder(A, n, R, b3))),
              n, R, 4)
    BY <2>3, ShareOfFour DEF Share
  <2>. QED  BY <1>2, <1>5, <2>1, <2>2, <2>4
<1>. QED  BY <1>6, <1>7, <1>8

LEMMA ShareOfLogic ==
  ASSUME NEW base \in Nat, NEW n \in Nat
  PROVE  Share(Cardinality(IssuedBundles("kGEMV", "LOGIC", 4, base, n)), n, LogicBanksOf, 1)
<1>1. PICK A \in Nat : A = base \div granul
  BY Geometry, Division
<1>2. PICK R \in Nat \ {0} : R = LogicBanksOf
  <2>1. PICK c \in Nat \ {0}, h \in Nat \ {0}, g \in Nat \ {0} :
          c = num_cube /\ h = num_channel /\ g = num_bankgroup
    BY Geometry
  <2>2. c * h * g * 2 \in Nat \ {0}
    OBVIOUS
  <2>. QED  BY <2>1, <2>2 DEF LogicBanksOf
<1>3. 0 \in 0 .. R - 1
  BY <1>2
<1>4. PICK c \in Nat : /\ c = Cardinality(WithRemainder(A, n, R, 0))
                       /\ n - R < c * R /\ c * R < n + R
  BY <1>3, ShareOfOne
<1>5. n * 1 - R * 1 = n - R /\ n * 1 + R * 1 = n + R
  OBVIOUS
<1>6. Share(c, n, R, 1)
  BY <1>4, <1>5 DEF Share
<1>. QED  BY <1>1, <1>2, <1>4, <1>6, IssuedOfLogic

(* The commands that a kernel keeps stand for the whole tensor, up to less *)
(* than one round of the places, whatever the geometry and the address:    *)
(* ReadKernel, WriteKernel and GEMV of every processor.                    *)
THEOREM SamplesStandForTensors == MMSpec => []SampleStandsForTensor
<1>1. ASSUME MMInv, NEW i \in DOMAIN objects, NEW k \in Kernels
      PROVE  LET o == objects[i]
                 n == Commands(k[1], k[2], k[3], o.address, o.size) * Round(k[1], k[2])
                 all == NumBundles(o.size) * Kept(k[1], k[2], k[3])
                 slack == Round(k[1], k[2]) * Kept(k[1], k[2], k[3])
             IN  all - slack < n /\ n < all + slack
  <2>1. objects \in Seq(Tensor) /\ objects[i] \in Tensor
    <3>1. objects \in Seq(Tensor)
      BY <1>1 DEF MMInv, MMTypeOK, Tensor
    <3>. QED  BY <3>1, ElementOfSeq
  <2>2. PICK a \in Nat, s \in Nat : a = objects[i].address /\ s = objects[i].size
    BY <2>1 DEF Tensor
  <2>3. PICK n \in Nat : n = NumBundles(s)
    BY Geometry, Division DEF NumBundles
  <2>4. Commands(k[1], k[2], k[3], a, s) = Cardinality(IssuedBundles(k[1], k[2], k[3], a, n))
    BY <2>3 DEF Commands, IssuedBundles
  <2>5. \/ k[1] \in {"kRead", "kWrite"} /\ k[2] \in {"GPU", "LOGIC", "PIM"}
        \/ k[1] = "kGEMV" /\ k[2] = "PIM" /\ k[3] \in {4, 8, 16}
        \/ k[1] = "kGEMV" /\ k[2] = "LOGIC" /\ k[3] = 4
    BY <1>1 DEF Kernels
  <2>6. Share(Cardinality(IssuedBundles(k[1], k[2], k[3], a, n)), n,
              Round(k[1], k[2]), Kept(k[1], k[2], k[3]))
    <3>1. CASE k[1] \in {"kRead", "kWrite"} /\ k[2] \in {"GPU", "LOGIC", "PIM"}
      <4>1. Round(k[1], k[2]) = num_cube * num_channel /\ Kept(k[1], k[2], k[3]) = 2
        BY <3>1 DEF Round, Kept
      <4>. QED  BY <3>1, <4>1, ShareOfRead
    <3>2. CASE k[1] = "kGEMV" /\ k[2] = "PIM" /\ k[3] \in {4, 8, 16}
      <4>1. Round(k[1], k[2]) = BanksOf * num_bank /\ Kept(k[1], k[2], k[3]) = 16 \div k[3]
        BY <3>2 DEF Round, Kept, BanksOf
      <4>. QED  BY <3>2, <4>1, ShareOfPIM
    <3>3. CASE k[1] = "kGEMV" /\ k[2] = "LOGIC" /\ k[3] = 4
      <4>1. Round(k[1], k[2]) = LogicBanksOf /\ Kept(k[1], k[2], k[3]) = 1
        BY <3>3 DEF Round, Kept, LogicBanksOf
      <4>. QED  BY <3>3, <4>1, ShareOfLogic
    <3>. QED  BY <2>5, <3>1, <3>2, <3>3
  <2>. QED  BY <2>2, <2>3, <2>4, <2>6 DEF Share
<1>2. MMInv => SampleStandsForTensor
  BY <1>1 DEF SampleStandsForTensor
<1>. QED  BY <1>2, MemoryInvariant, PTL
-----------------------------------------------------------------------------
(* The formula of run_ideal.                                               *)

LEMMA CountOfRead ==
  ASSUME NEW n \in Nat
  PROVE  LET R == num_cube * num_channel
         IN  Cardinality(IssuedBundles("kRead", "GPU", 0, 0, n))
               = Quotients(n, R, 0) + Quotients(n, R, num_cube)
<1>1. PICK R \in Nat \ {0}, c \in Nat \ {0} :
        R = num_cube * num_channel /\ c = num_cube /\ c \in 0 .. R - 1 /\ 0 \in 0 .. R - 1
  <2>1. PICK c \in Nat \ {0}, h \in Nat \ {0} : c = num_cube /\ h = num_channel /\ h >= 2
    <3>1. PICK h \in Nat \ {0} : h = num_channel /\ h % 2 = 0
      BY Geometry
    <3>2. h >= 2
      BY <3>1
    <3>. QED  BY <3>1, <3>2, Geometry
  <2>2. 2 * c <= h * c /\ h * c = c * h /\ c * h \in Nat \ {0}
    BY <2>1, TimesMonotone
  <2>. QED  BY <2>1, <2>2
<1>2. 0 = 0 \div granul
  BY Geometry, QuotientIs
<1>3. IssuedBundles("kRead", "GPU", 0, 0, n)
        = WithRemainder(0, n, R, 0) \cup WithRemainder(0, n, R, c)
  BY <1>1, <1>2, IssuedOfRead
<1>4. ASSUME NEW r \in 0 .. R - 1
      PROVE  Cardinality(WithRemainder(0, n, R, r)) = Quotients(n, R, r)
  <2>1. PICK L \in Nat, U \in Nat : L = Quotients(0, R, r) /\ U = Quotients(n, R, r)
    BY QuotientsAre
  <2>2. Cardinality(WithRemainder(0, n, R, r)) = Quotients(0 + n, R, r) - Quotients(0, R, r)
    BY CountRemainder
  <2>3. 0 + n = n
    OBVIOUS
  <2>4. L = 0
    <3>1. PICK x \in Nat : x = 0 + (R - 1 - r) /\ x < R
      OBVIOUS
    <3>2. x \div R = 0
      BY <3>1, QuotientIs
    <3>. QED  BY <2>1, <3>1, <3>2 DEF Quotients
  <2>. QED  BY <2>1, <2>2, <2>3, <2>4
<1>5. PICK x \in Nat, y \in Nat : x = Quotients(n, R, 0) /\ y = Quotients(n, R, c)
  BY <1>1, QuotientsAre
<1>6. Cardinality(WithRemainder(0, n, R, 0) \cup WithRemainder(0, n, R, c)) = x + y
  <2>1. 0 # c
    BY <1>1
  <2>2. Cardinality(WithRemainder(0, n, R, 0) \cup WithRemainder(0, n, R, c))
          = Cardinality(WithRemainder(0, n, R, 0)) + Cardinality(WithRemainder(0, n, R, c))
    BY <1>1, <2>1, ShareOfTwo
  <2>. QED  BY <1>1, <1>4, <1>5, <2>2
<1>. QED  BY <1>1, <1>3, <1>5, <1>6

(* Rounding up twice is rounding up once.                                  *)
LEMMA CeilOfCeil ==
  ASSUME NEW n \in Nat, NEW C \in Nat \ {0}, NEW H \in Nat \ {0}, H >= 2, NEW q \in Nat,
         q = CeilDiv(n, C)
  PROVE  /\ Quotients(n, C * H, 0) = (q + (H - 1)) \div H
         /\ Quotients(n, C * H, C) = (q + (H - 2)) \div H
<1>1. PICK a \in Nat : a = n + C - 1 /\ q = a \div C
  <2>1. n + C - 1 \in Nat
    OBVIOUS
  <2>. QED  BY <2>1 DEF CeilDiv
<1>2. ASSUME NEW r \in {0, 1}, NEW k \in Nat, k = H - 1 - r
      PROVE  Quotients(n, C * H, r * C) = (q + k) \div H
  <2>1. n + (C * H - 1 - r * C) = a + k * C
    <3>1. k * C = C * H - C - r * C
      BY <1>2
    <3>2. C * H \in Nat /\ r * C \in Nat
      BY <1>2
    <3>. QED  BY <1>1, <3>1, <3>2
  <2>2. PICK x \in Nat : x = a + k * C
    <3>1. k * C \in Nat
      OBVIOUS
    <3>. QED  BY <3>1
  <2>3. x \div C = q + k
    <3>1. (a + k * C) \div C = (a \div C) + k
      BY QuotientPlus
    <3>. QED  BY <1>1, <2>2, <3>1, Zenon
  <2>4. x \div (C * H) = (x \div C) \div H
    BY QuotientOfQuotient
  <2>. QED  BY <2>1, <2>2, <2>3, <2>4 DEF Quotients
<1>3. 0 * C = 0 /\ 1 * C = C /\ H - 1 \in Nat /\ H - 2 \in Nat
      /\ H - 1 = H - 1 - 0 /\ H - 2 = H - 1 - 1
  OBVIOUS
<1>4. Quotients(n, C * H, 0 * C) = (q + (H - 1)) \div H
  BY <1>2, <1>3
<1>5. Quotients(n, C * H, 1 * C) = (q + (H - 2)) \div H
  BY <1>2, <1>3
<1>. QED  BY <1>3, <1>4, <1>5, Zenon

LEMMA IdealIsOneMore ==
  ASSUME NEW s \in Nat
  PROVE  IdealCommands(s) - Commands("kRead", "GPU", 0, 0, s)
           = IF CeilDiv(NumBundles(s), num_cube) % num_channel = 0 THEN 1 ELSE 0
<1>1. PICK n \in Nat, C \in Nat \ {0}, H \in Nat \ {0} :
        n = NumBundles(s) /\ C = num_cube /\ H = num_channel /\ H >= 2
  <2>1. PICK H \in Nat \ {0} : H = num_channel /\ H % 2 = 0
    BY Geometry
  <2>2. H >= 2
    BY <2>1
  <2>3. NumBundles(s) \in Nat
    BY Geometry, Division DEF NumBundles
  <2>. QED  BY <2>1, <2>2, <2>3, Geometry
<1>2. PICK q \in Nat : q = CeilDiv(n, C)
  <2>1. n + C - 1 \in Nat
    OBVIOUS
  <2>. QED  BY <2>1, Division DEF CeilDiv
<1>3. PICK x, y : x = (q + (H - 1)) \div H /\ y = (q + (H - 2)) \div H
  OBVIOUS
<1>4. Commands("kRead", "GPU", 0, 0, s) = x + y
  <2>1. Commands("kRead", "GPU", 0, 0, s) = Cardinality(IssuedBundles("kRead", "GPU", 0, 0, n))
    BY <1>1 DEF Commands, IssuedBundles
  <2>2. Cardinality(IssuedBundles("kRead", "GPU", 0, 0, n))
          = Quotients(n, C * H, 0) + Quotients(n, C * H, C)
    BY <1>1, CountOfRead, Zenon
  <2>3. Quotients(n, C * H, 0) = x
    BY <1>1, <1>2, <1>3, CeilOfCeil
  <2>4. Quotients(n, C * H, C) = y
    BY <1>1, <1>2, <1>3, CeilOfCeil
  <2>. QED  BY <2>1, <2>2, <2>3, <2>4, Zenon
<1>5. PICK k \in Nat, m \in Nat : k = q \div H /\ m = q % H /\ m < H /\ q = k * H + m
  BY Division
<1>6. IdealCommands(s) = x + IF m = 1 THEN k ELSE k + 1
  <2>1. CeilDiv(q, H) = x
    <3>1. q + H - 1 = q + (H - 1)
      OBVIOUS
    <3>. QED  BY <1>3, <3>1 DEF CeilDiv
  <2>2. CeilDiv(NumBundles(s), num_cube) = q
    BY <1>1, <1>2
  <2>. QED  BY <1>1, <1>5, <2>1, <2>2, Zenon DEF IdealCommands
<1>7. x \in Nat
  BY <1>1, <1>3, Division
<1>8. y = IF m <= 1 THEN k ELSE k + 1
  <2>1. PICK z \in Nat : z = q + (H - 2) /\ z \div H = y
    BY <1>1, <1>3
  <2>2. CASE m <= 1
    <3>1. k * H \in Nat /\ k * H <= z /\ z < k * H + H
      BY <1>1, <1>5, <2>1, <2>2
    <3>2. z \div H = k
      BY <3>1, QuotientIs
    <3>. QED  BY <2>1, <2>2, <3>2
  <2>3. CASE ~(m <= 1)
    <3>1. k * H \in Nat /\ (k + 1) * H = k * H + H
      OBVIOUS
    <3>2. (k + 1) * H <= z /\ z < (k + 1) * H + H
      BY <1>1, <1>5, <2>1, <2>3, <3>1
    <3>3. z \div H = k + 1
      BY <3>2, QuotientIs
    <3>. QED  BY <2>1, <2>3, <3>3
  <2>. QED  BY <2>2, <2>3
<1>9. CeilDiv(NumBundles(s), num_cube) % num_channel = m
  BY <1>1, <1>2, <1>5, Zenon
<1>10. (x + IF m = 1 THEN k ELSE k + 1) - (x + y) = IF m = 0 THEN 1 ELSE 0
  BY <1>5, <1>7, <1>8
<1>. QED  BY <1>4, <1>6, <1>9, <1>10, Zenon

(* run_ideal counts what the simulation of an activation would issue, and  *)
(* one command more when the commands of a cube divide evenly.             *)
THEOREM IdealIsAlmostExact == MMSpec => []IdealCountsSimulated
<1>1. ASSUME MMInv, NEW i \in DOMAIN objects
      PROVE  objects[i].size \in Nat
  <2>1. objects \in Seq(Tensor)
    BY <1>1 DEF MMInv, MMTypeOK, Tensor
  <2>2. objects[i] \in Tensor
    BY <1>1, <2>1, ElementOfSeq
  <2>. QED  BY <2>2 DEF Tensor
<1>2. MMInv => IdealCountsSimulated
  BY <1>1, IdealIsOneMore, Zenon DEF IdealCountsSimulated
<1>. QED  BY <1>2, MemoryInvariant, PTL
-----------------------------------------------------------------------------
(* The activations of a batch grow with it.                                *)

LEMMA SystemFields ==
  ASSUME NEW M \in Systems
  PROVE  /\ M.num_device \in Nat \ {0} /\ M.ne_tp_dg \in Nat \ {0} /\ M.e_tp_dg \in Nat
         /\ M.num_layers \in Nat \ {0} /\ M.precision_byte \in Nat \ {0}
         /\ M.input_len \in Nat \ {0} /\ M.output_len \in Nat /\ M.hidden_dim \in Nat
         /\ M.head_dim \in Nat \ {0} /\ M.num_heads \in Nat /\ M.num_kv_heads \in Nat \ {0}
         /\ M.q_lora_rank \in Nat /\ M.kv_lora_rank \in Nat /\ M.qk_rope_head_dim \in Nat
         /\ M.expert_intermediate_dim \in Nat /\ M.expert_freq \in Nat /\ M.top_k \in Nat
         /\ M.num_routed_expert \in Nat /\ M.num_shared_expert \in Nat
         /\ M.weight \in Nat /\ M.act \in Nat
         /\ (M.expert_freq # 0 => M.num_routed_expert \in Nat \ {0})
<1>1. M \in SystemRecord
  BY MemoryAssumption
<1>2. M.expert_freq # 0 => M.num_routed_expert > 0
  BY MemoryAssumption
<1>. QED  BY <1>1, <1>2 DEF SystemRecord

LEMMA QuotientGrows ==
  ASSUME NEW a \in Nat, NEW b \in Nat, NEW n \in Nat \ {0}, a <= b
  PROVE  Quotient(a, n) \in Nat /\ Quotient(b, n) \in Nat /\ Quotient(a, n) <= Quotient(b, n)
<1>1. a \div n <= b \div n
  BY QuotientMonotone
<1>2. Quotient(a, n) = a \div n /\ Quotient(b, n) = b \div n
  BY DEF Quotient
<1>3. PICK p \in Nat, q \in Nat : p = a \div n /\ q = b \div n
  BY Divides
<1>. QED  BY <1>1, <1>2, <1>3

Tokens(M) == IF M.decode_mode THEN 1 ELSE M.input_len

(* The terms of activation_size, without the width of an int.              *)
LatentTerm(M, b) ==
  (b * Tokens(M)) * (M.hidden_dim + M.q_lora_rank + M.kv_lora_rank + M.qk_rope_head_dim)
QueryTerm(M, b) ==
  Quotient((b * Tokens(M)) * (3 * M.qk_rope_head_dim + M.head_dim) * M.num_heads, M.ne_tp_dg)
KVTerm(M, b) ==
  IF M.use_absorb
  THEN 2 * Quotient((b * Tokens(M)) * M.num_heads * M.kv_lora_rank, M.ne_tp_dg)
  ELSE Quotient(2 * M.head_dim * M.num_heads
                * IF M.decode_mode /\ M.compressed_kv THEN b * total_len(M) ELSE b * Tokens(M),
                M.ne_tp_dg)
ScoreTerm(M, b) ==
  IF M.decode_mode THEN Quotient(2 * b * M.num_heads * total_len(M), M.ne_tp_dg)
  ELSE 2 * Quotient((b * Tokens(M)) * M.input_len * M.num_heads, M.ne_tp_dg)
ContextTerm(M, b) ==
  Quotient((b * Tokens(M)) * M.num_heads * M.head_dim, M.ne_tp_dg)
OutTerm(M, b) == (b * Tokens(M)) * M.hidden_dim

LEMMA ActivationTerms ==
  ASSUME NEW M, NEW b, NEW t
  PROVE  activation_size(M, b, t, TRUE)
           = (LatentTerm(M, b) + QueryTerm(M, b) + KVTerm(M, b) + ScoreTerm(M, b)
              + ContextTerm(M, b) + OutTerm(M, b) + ExpertActivation(M, t, Tokens(M), TRUE))
             * M.precision_byte
BY Zenon DEF activation_size, LatentTerm, QueryTerm, KVTerm, ScoreTerm, ContextTerm,
       OutTerm, Tokens

Grows(x, y) == x \in Nat /\ y \in Nat /\ x <= y

LEMMA ScaledGrows ==
  ASSUME NEW x, NEW y, Grows(x, y), NEW c \in Nat
  PROVE  Grows(x * c, y * c) /\ Grows(c * x, c * y)
<1>1. PICK a \in Nat, b \in Nat : a = x /\ b = y /\ a <= b
  BY DEF Grows
<1>2. a * c <= b * c
  BY <1>1, TimesMonotone
<1>3. a * c = c * a /\ b * c = c * b /\ a * c \in Nat /\ b * c \in Nat
  OBVIOUS
<1>. QED  BY <1>1, <1>2, <1>3 DEF Grows

LEMMA SumGrows ==
  ASSUME NEW x, NEW y, Grows(x, y), NEW v, NEW w, Grows(v, w)
  PROVE  Grows(x + v, y + w)
BY DEF Grows

LEMMA SharedGrows ==
  ASSUME NEW x, NEW y, Grows(x, y), NEW n \in Nat \ {0}
  PROVE  Grows(Quotient(x, n), Quotient(y, n))
BY QuotientGrows DEF Grows

LEMMA TermsGrow ==
  ASSUME NEW M \in Systems, NEW b \in Nat, NEW d \in Nat, b <= d
  PROVE  /\ Grows(LatentTerm(M, b), LatentTerm(M, d))
         /\ Grows(QueryTerm(M, b), QueryTerm(M, d))
         /\ Grows(KVTerm(M, b), KVTerm(M, d))
         /\ Grows(ScoreTerm(M, b), ScoreTerm(M, d))
         /\ Grows(ContextTerm(M, b), ContextTerm(M, d))
         /\ Grows(OutTerm(M, b), OutTerm(M, d))
<1>1. /\ M.ne_tp_dg \in Nat \ {0} /\ M.input_len \in Nat /\ M.hidden_dim \in Nat
      /\ M.num_heads \in Nat /\ M.kv_lora_rank \in Nat /\ M.head_dim \in Nat
      /\ Tokens(M) \in Nat /\ total_len(M) \in Nat
  BY SystemFields DEF Tokens, total_len
<1>2. Grows(b, d)
  BY DEF Grows
<1>3. Grows(b * Tokens(M), d * Tokens(M))
  BY <1>1, <1>2, ScaledGrows
<1>4. Grows(LatentTerm(M, b), LatentTerm(M, d))
  <2>1. PICK c \in Nat : c = M.hidden_dim + M.q_lora_rank + M.kv_lora_rank + M.qk_rope_head_dim
    BY SystemFields
  <2>2. Grows((b * Tokens(M)) * c, (d * Tokens(M)) * c)
    BY <1>3, ScaledGrows
  <2>. QED  BY <2>1, <2>2, Zenon DEF LatentTerm
<1>5. Grows(QueryTerm(M, b), QueryTerm(M, d))
  <2>1. PICK c \in Nat : c = 3 * M.qk_rope_head_dim + M.head_dim
    BY SystemFields
  <2>2. Grows((b * Tokens(M)) * c, (d * Tokens(M)) * c)
    BY <1>3, ScaledGrows
  <2>3. Grows((b * Tokens(M)) * c * M.num_heads, (d * Tokens(M)) * c * M.num_heads)
    BY <1>1, <2>2, ScaledGrows
  <2>. QED  BY <1>1, <2>1, <2>3, SharedGrows, Zenon DEF QueryTerm
<1>6. Grows(KVTerm(M, b), KVTerm(M, d))
  <2>1. CASE M.use_absorb
    <3>1. Grows((b * Tokens(M)) * M.num_heads, (d * Tokens(M)) * M.num_heads)
      BY <1>1, <1>3, ScaledGrows
    <3>2. Grows((b * Tokens(M)) * M.num_heads * M.kv_lora_rank,
                (d * Tokens(M)) * M.num_heads * M.kv_lora_rank)
      BY <1>1, <3>1, ScaledGrows
    <3>3. Grows(Quotient((b * Tokens(M)) * M.num_heads * M.kv_lora_rank, M.ne_tp_dg),
                Quotient((d * Tokens(M)) * M.num_heads * M.kv_lora_rank, M.ne_tp_dg))
      BY <1>1, <3>2, SharedGrows
    <3>4. 2 \in Nat
      OBVIOUS
    <3>5. Grows(KVTerm(M, b), KVTerm(M, d)) <=>
            Grows(2 * Quotient((b * Tokens(M)) * M.num_heads * M.kv_lora_rank, M.ne_tp_dg),
                  2 * Quotient((d * Tokens(M)) * M.num_heads * M.kv_lora_rank, M.ne_tp_dg))
      BY <2>1, Zenon DEF KVTerm
    <3>. QED  BY <3>3, <3>4, <3>5, ScaledGrows
  <2>2. CASE ~M.use_absorb
    <3>1. PICK c \in Nat : c = 2 * M.head_dim * M.num_heads
      BY <1>1
    <3>2. PICK x, y : /\ x = IF M.decode_mode /\ M.compressed_kv
                             THEN b * total_len(M) ELSE b * Tokens(M)
                      /\ y = IF M.decode_mode /\ M.compressed_kv
                             THEN d * total_len(M) ELSE d * Tokens(M)
      OBVIOUS
    <3>3. Grows(b * total_len(M), d * total_len(M))
      BY <1>1, <1>2, ScaledGrows
    <3>4. Grows(x, y)
      BY <1>3, <3>2, <3>3
    <3>5. Grows(c * x, c * y)
      BY <3>4, ScaledGrows
    <3>6. Grows(Quotient(c * x, M.ne_tp_dg), Quotient(c * y, M.ne_tp_dg))
      BY <1>1, <3>5, SharedGrows
    <3>. QED  BY <2>2, <3>1, <3>2, <3>6, Zenon DEF KVTerm
  <2>. QED  BY <2>1, <2>2
<1>7. Grows(ScoreTerm(M, b), ScoreTerm(M, d))
  <2>1. CASE M.decode_mode
    <3>1. Grows(2 * b, 2 * d)
      BY <1>2, ScaledGrows
    <3>2. Grows(2 * b * M.num_heads, 2 * d * M.num_heads)
      BY <1>1, <3>1, ScaledGrows
    <3>3. Grows(2 * b * M.num_heads * total_len(M), 2 * d * M.num_heads * total_len(M))
      BY <1>1, <3>2, ScaledGrows
    <3>4. Grows(Quotient(2 * b * M.num_heads * total_len(M), M.ne_tp_dg),
                Quotient(2 * d * M.num_heads * total_len(M), M.ne_tp_dg))
      BY <1>1, <3>3, SharedGrows
    <3>. QED  BY <2>1, <3>4, Zenon DEF ScoreTerm
  <2>2. CASE ~M.decode_mode
    <3>1. Grows((b * Tokens(M)) * M.input_len, (d * Tokens(M)) * M.input_len)
      BY <1>1, <1>3, ScaledGrows
    <3>2. Grows((b * Tokens(M)) * M.input_len * M.num_heads,
                (d * Tokens(M)) * M.input_len * M.num_heads)
      BY <1>1, <3>1, ScaledGrows
    <3>3. Grows(Quotient((b * Tokens(M)) * M.input_len * M.num_heads, M.ne_tp_dg),
                Quotient((d * Tokens(M)) * M.input_len * M.num_heads, M.ne_tp_dg))
      BY <1>1, <3>2, SharedGrows
    <3>4. 2 \in Nat
      OBVIOUS
    <3>5. Grows(ScoreTerm(M, b), ScoreTerm(M, d)) <=>
            Grows(2 * Quotient((b * Tokens(M)) * M.input_len * M.num_heads, M.ne_tp_dg),
                  2 * Quotient((d * Tokens(M)) * M.input_len * M.num_heads, M.ne_tp_dg))
      BY <2>2, Zenon DEF ScoreTerm
    <3>. QED  BY <3>3, <3>4, <3>5, ScaledGrows
  <2>. QED  BY <2>1, <2>2
<1>8. Grows(ContextTerm(M, b), ContextTerm(M, d))
  <2>1. Grows((b * Tokens(M)) * M.num_heads, (d * Tokens(M)) * M.num_heads)
    BY <1>1, <1>3, ScaledGrows
  <2>2. Grows((b * Tokens(M)) * M.num_heads * M.head_dim,
              (d * Tokens(M)) * M.num_heads * M.head_dim)
    BY <1>1, <2>1, ScaledGrows
  <2>. QED  BY <1>1, <2>2, SharedGrows DEF ContextTerm
<1>9. Grows(OutTerm(M, b), OutTerm(M, d))
  BY <1>1, <1>3, ScaledGrows DEF OutTerm
<1>. QED  BY <1>4, <1>5, <1>6, <1>7, <1>8, <1>9, Zenon


LEMMA ExpertsGrow ==
  ASSUME NEW M \in Systems, NEW t \in Nat, NEW u \in Nat, t <= u
  PROVE  Grows(ExpertActivation(M, t, Tokens(M), TRUE), ExpertActivation(M, u, Tokens(M), TRUE))
<1>. DEFINE ebs(v) == IF M.expert_freq = 0 THEN 0 ELSE (v * M.top_k) \div M.num_routed_expert
            rows(v) == ebs(v) * Tokens(M)
            E == ((M.num_routed_expert * M.e_tp_dg) \div M.num_device) + M.num_shared_expert
            F(v) == 3 * (rows(v) * M.expert_intermediate_dim) + rows(v) * M.hidden_dim
<1>1. /\ M.num_device \in Nat \ {0} /\ M.hidden_dim \in Nat /\ M.top_k \in Nat
      /\ M.expert_intermediate_dim \in Nat /\ Tokens(M) \in Nat
      /\ M.num_routed_expert * M.e_tp_dg \in Nat /\ M.num_shared_expert \in Nat
      /\ (M.expert_freq # 0 => M.num_routed_expert \in Nat \ {0})
  BY SystemFields DEF Tokens
<1>2. Grows(ebs(t), ebs(u))
  <2>1. CASE M.expert_freq = 0
    BY <2>1 DEF Grows
  <2>2. CASE M.expert_freq # 0
    <3>1. PICK n \in Nat \ {0} : n = M.num_routed_expert
      BY <1>1, <2>2
    <3>2. PICK x \in Nat, y \in Nat : x = t * M.top_k /\ y = u * M.top_k /\ x <= y
      <4>1. Grows(t, u)
        BY DEF Grows
      <4>2. Grows(t * M.top_k, u * M.top_k)
        BY <1>1, <4>1, ScaledGrows
      <4>. QED  BY <4>2 DEF Grows
    <3>3. x \div n <= y \div n /\ x \div n \in Nat /\ y \div n \in Nat
      BY <3>2, QuotientMonotone, Divides
    <3>. QED  BY <2>2, <3>1, <3>2, <3>3 DEF Grows
  <2>. QED  BY <2>1, <2>2
<1>. HIDE DEF ebs
<1>3. Grows(rows(t), rows(u))
  BY <1>1, <1>2, ScaledGrows
<1>. HIDE DEF rows
<1>4. Grows(F(t), F(u))
  <2>1. Grows(rows(t) * M.expert_intermediate_dim, rows(u) * M.expert_intermediate_dim)
    BY <1>1, <1>3, ScaledGrows
  <2>2. Grows(rows(t) * M.hidden_dim, rows(u) * M.hidden_dim)
    BY <1>1, <1>3, ScaledGrows
  <2>. QED  BY <2>1, <2>2 DEF Grows
<1>. HIDE DEF F
<1>5. E \in Nat
  <2>1. PICK m \in Nat : m = M.num_routed_expert * M.e_tp_dg
    BY <1>1
  <2>2. m \div M.num_device \in Nat
    BY <1>1, Divides
  <2>. QED  BY <1>1, <2>1, <2>2
<1>. HIDE DEF E
<1>6. Grows(E * F(t), E * F(u))
  BY <1>4, <1>5, ScaledGrows
<1>7. /\ ExpertActivation(M, t, Tokens(M), TRUE) = E * F(t)
      /\ ExpertActivation(M, u, Tokens(M), TRUE) = E * F(u)
  BY Zenon DEF ExpertActivation, E, F, rows, ebs
<1>. QED  BY <1>6, <1>7

LEMMA ActivationGrows ==
  ASSUME NEW M \in Systems, NEW b \in Nat, NEW d \in Nat, b <= d,
         NEW t \in Nat, NEW u \in Nat, t <= u
  PROVE  Grows(Activation(M, b, t, TRUE), Activation(M, d, u, TRUE))
<1>1. Grows(activation_size(M, b, t, TRUE), activation_size(M, d, u, TRUE))
  <2>. DEFINE S2(c) == LatentTerm(M, c) + QueryTerm(M, c)
              S4(c) == S2(c) + KVTerm(M, c) + ScoreTerm(M, c)
              S6(c) == S4(c) + ContextTerm(M, c) + OutTerm(M, c)
              S(c, v) == S6(c) + ExpertActivation(M, v, Tokens(M), TRUE)
  <2>1. Grows(S(b, t), S(d, u))
    <3>1. Grows(S2(b), S2(d))
      BY TermsGrow, SumGrows
    <3>. HIDE DEF S2
    <3>2. Grows(S2(b) + KVTerm(M, b), S2(d) + KVTerm(M, d))
      BY <3>1, TermsGrow, SumGrows
    <3>3. Grows(S4(b), S4(d))
      BY <3>2, TermsGrow, SumGrows
    <3>. HIDE DEF S4
    <3>4. Grows(S4(b) + ContextTerm(M, b), S4(d) + ContextTerm(M, d))
      BY <3>3, TermsGrow, SumGrows
    <3>5. Grows(S6(b), S6(d))
      BY <3>4, TermsGrow, SumGrows
    <3>. HIDE DEF S6
    <3>. QED  BY <3>5, ExpertsGrow, SumGrows
  <2>. HIDE DEF S
  <2>2. M.precision_byte \in Nat
    BY SystemFields
  <2>3. Grows(S(b, t) * M.precision_byte, S(d, u) * M.precision_byte)
    BY <2>1, <2>2, ScaledGrows
  <2>4. /\ activation_size(M, b, t, TRUE) = S(b, t) * M.precision_byte
        /\ activation_size(M, d, u, TRUE) = S(d, u) * M.precision_byte
    BY ActivationTerms, Zenon DEF S, S6, S4, S2
  <2>. QED  BY <2>3, <2>4
<1>2. Grows(M.act \div M.num_layers, M.act \div M.num_layers)
  <2>1. PICK a \in Nat, n \in Nat \ {0} : a = M.act /\ n = M.num_layers
    BY SystemFields
  <2>2. PICK q \in Nat : q = a \div n
    BY Divides
  <2>. QED  BY <2>1, <2>2 DEF Grows
<1>. QED  BY <1>1, <1>2 DEF Activation
-----------------------------------------------------------------------------
(* The cache of a request.                                                 *)

(* The reduction divides by what the tensors of a request take, where the  *)
(* tensors of the latent cache come with compressed_kv.                    *)
LEMMA SameCache ==
  ASSUME NEW M \in Systems, M.use_absorb => M.compressed_kv
  PROVE  kv_cache_size_per_seq(M) = CacheTensors(M) /\ CacheTensors(M) \in Nat \ {0}
<1>1. PICK t \in Nat \ {0}, l \in Nat \ {0}, p \in Nat \ {0}, h \in Nat \ {0},
           n \in Nat \ {0}, g \in Nat \ {0} :
        /\ t = total_len(M) /\ l = M.num_layers /\ p = M.precision_byte /\ h = M.head_dim
        /\ n = M.num_kv_heads /\ g = M.ne_tp_dg
  <2>1. M.input_len + M.output_len \in Nat \ {0}
    BY SystemFields
  <2>. QED  BY <2>1, SystemFields DEF total_len
<1>2. CASE M.compressed_kv
  <2>1. M.qk_rope_head_dim > 0
    BY <1>2, MemoryAssumption
  <2>2. PICK w \in Nat \ {0} : w = M.kv_lora_rank + M.qk_rope_head_dim
    BY <2>1, SystemFields
  <2>3. kv_cache_size_per_seq(M) = t * w * l * p
    BY <1>1, <1>2, <2>1, <2>2 DEF kv_cache_size_per_seq
  <2>4. CacheTensors(M) = l * p * t * w
    BY <1>1, <1>2, <2>2, Zenon DEF CacheTensors
  <2>5. t * w * l * p = l * p * t * w
    OBVIOUS
  <2>6. l * p * t * w \in Nat \ {0}
    OBVIOUS
  <2>. QED  BY <2>3, <2>4, <2>5, <2>6
<1>3. CASE ~M.compressed_kv
  <2>1. PICK m \in Nat : m = n \div g /\ n = m * g
    <3>1. n % g = 0
      BY <1>1, MemoryAssumption
    <3>2. n \div g \in Nat /\ n = (n \div g) * g + (n % g)
      BY Division
    <3>3. PICK q \in Nat : q = n \div g
      BY <3>2
    <3>4. q * g \in Nat /\ n = q * g + 0
      BY <3>1, <3>2, <3>3
    <3>. QED  BY <3>3, <3>4
  <2>2. m # 0
    BY <2>1
  <2>3. PICK x \in Nat : x = 2 * t * l * h * m
    OBVIOUS
  <2>4. 2 * t * l * h * n = x * g
    BY <2>1, <2>3
  <2>5. (x * g) \div g = x
    BY ExactQuotient
  <2>6. kv_cache_size_per_seq(M) = x * p
    <3>1. kv_cache_size_per_seq(M) = ((2 * t * l * h * n) \div g) * p
      BY <1>1, <1>3, Zenon DEF kv_cache_size_per_seq
    <3>. QED  BY <2>4, <2>5, <3>1, Zenon
  <2>7. CacheTensors(M) = l * p * t * (2 * h * m)
    BY <1>1, <1>3, <2>1, Zenon DEF CacheTensors
  <2>8. l * p * t * (2 * h * m) = x * p
    BY <2>3
  <2>9. x * p \in Nat \ {0}
    BY <2>2, <2>3
  <2>. QED  BY <2>6, <2>7, <2>8, <2>9
<1>. QED  BY <1>2, <1>3

LEMMA Ranks ==
  ASSUME NEW M \in Systems
  PROVE  dp_degree(M) \in Nat \ {0}
<1>1. PICK n \in Nat \ {0}, g \in Nat \ {0} : n = M.num_device /\ g = M.ne_tp_dg /\ n % g = 0
  BY SystemFields, MemoryAssumption
<1>2. PICK q \in Nat : q = n \div g /\ n = q * g + 0
  <2>1. n \div g \in Nat /\ n = (n \div g) * g + (n % g)
    BY Division
  <2>. QED  BY <1>1, <2>1
<1>3. q # 0
  BY <1>2
<1>. QED  BY <1>1, <1>2, <1>3 DEF dp_degree
-----------------------------------------------------------------------------
(* The reduced batch.                                                      *)

(* t requests do not fit beside what is left, a; m of them do on a device. *)
LEMMA Reduced ==
  ASSUME NEW a \in Nat, NEW K \in Nat \ {0}, NEW D \in Nat \ {0}, NEW t \in Nat,
         NEW b \in Nat, b = t \div D, a < b * K, NEW m \in Nat, m = a \div K
  PROVE  LET nt == m * D - 1
             nb == Quotient(m * D - 1, D)
         IN  /\ nt \in Int /\ nb \in Int
             /\ nb > 0 => nt \in Nat /\ nt <= t /\ nb <= b /\ nb * K <= a
             /\ a < (nb + 2) * K
<1>1. m * K <= a /\ a < m * K + K
  BY Divides
<1>2. b * D <= t
  BY Divides
<1>3. CASE m = 0
  <2>1. m * D - 1 = -1 /\ a < K
    BY <1>1, <1>3
  <2>2. PICK q \in Nat : q = 1 \div D /\ q <= 1
    <3>1. PICK q \in Nat : q = 1 \div D /\ q * D <= 1
      BY Divides
    <3>2. q <= 1
      BY <3>1
    <3>. QED  BY <3>1, <3>2
  <2>3. Quotient(-1, D) = -q
    BY <2>2 DEF Quotient
  <2>4. K <= (-q + 2) * K
    <3>1. PICK c \in Nat : c = -q + 2 /\ 1 <= c
      BY <2>2
    <3>2. 1 * K <= c * K /\ 1 * K = K
      BY <3>1, TimesMonotone
    <3>. QED  BY <3>1, <3>2
  <2>5. -q \in Int /\ -q <= 0 /\ (-q + 2) * K \in Int
    BY <2>2
  <2>. QED  BY <2>1, <2>3, <2>4, <2>5
<1>4. CASE m # 0
  <2>1. PICK k \in Nat : m = k + 1
    <3>1. m - 1 \in Nat /\ m = (m - 1) + 1
      BY <1>4
    <3>. QED  BY <3>1
  <2>2. m * D - 1 = k * D + (D - 1) /\ k * D \in Nat
    BY <2>1
  <2>3. PICK r \in Nat : r = D - 1 /\ r < D
    OBVIOUS
  <2>4. (k * D + r) \div D = k /\ k * D + r \in Nat
    BY <2>3, DivisionIs
  <2>5. PICK y \in Nat : y = m * D - 1 /\ y \div D = k
    BY <2>2, <2>3, <2>4
  <2>6. Quotient(m * D - 1, D) = k
    BY <2>5 DEF Quotient
  <2>7. k * K \in Nat /\ m * K = k * K + K /\ (k + 2) * K = k * K + 2 * K
    BY <2>1
  <2>8. m < b
    <3>1. b <= m => b * K <= m * K
      BY TimesMonotone
    <3>2. b * K \in Nat /\ m * K \in Nat
      OBVIOUS
    <3>. QED  BY <1>1, <3>1, <3>2
  <2>9. m * D <= t
    <3>1. m * D <= b * D /\ m * D \in Nat /\ b * D \in Nat
      BY <2>8, TimesMonotone
    <3>. QED  BY <1>2, <3>1
  <2>10. y <= t
    <3>1. m * D \in Nat
      OBVIOUS
    <3>. QED  BY <2>5, <2>9, <3>1
  <2>11. k <= b /\ k * K <= a /\ a < (k + 2) * K
    BY <1>1, <2>1, <2>7, <2>8
  <2>. QED  BY <2>5, <2>6, <2>10, <2>11
<1>. QED  BY <1>3, <1>4
-----------------------------------------------------------------------------
(* The memory check.                                                       *)

Limited == system.mem_cap_limit \/ system.exit_out_of_memory
CacheKnown == system.use_absorb => system.compressed_kv

(* What is left of the check while the simulation runs: a batch that fits, *)
(* one that was not reduced by more than a request, and no device with     *)
(* more requests than it.                                                  *)
CheckedOK ==
  /\ batch_size_per_dp \in Int
  /\ \A r \in DOMAIN resident : resident[r] > 0 => resident[r] <= batch_size_per_dp
  /\ status = "run" /\ Limited /\ batch_size_per_dp > 0 =>
       /\ total_batch_size \in Nat
       /\ system.weight + batch_size_per_dp * CacheTensors(system)
          + Activation(system, batch_size_per_dp, total_batch_size, TRUE) <= capacity
  /\ NotOverCautious

CheckInv ==
  /\ system \in Systems /\ capacity \in Nat /\ configured \in Nat
  /\ resident \in [1 .. dp_degree(system) -> Nat]
  /\ status = "built" =>
       /\ total_batch_size = configured
       /\ batch_size_per_dp = configured \div dp_degree(system)
       /\ \A r \in DOMAIN resident : resident[r] = 0
  /\ ActivationExact(system, configured) /\ CacheKnown => CheckedOK

LEMMA CheckInit == Init => CheckInv
<1>1. SUFFICES ASSUME Init PROVE CheckInv
  OBVIOUS
<1>2. /\ system \in Systems /\ capacity \in Nat /\ configured \in Nat /\ status = "built"
      /\ total_batch_size = configured
      /\ batch_size_per_dp = configured \div dp_degree(system)
      /\ resident = [r \in 1 .. dp_degree(system) |-> 0]
  BY <1>1, MemoryAssumption DEF Init
<1>3. batch_size_per_dp \in Nat
  BY <1>2, Ranks, Divides
<1>. QED  BY <1>2, <1>3 DEF CheckInv, CheckedOK, NotOverCautious

LEMMA CheckAdmit ==
  ASSUME CheckInv, NEW q \in DOMAIN resident, Admit(q)
  PROVE  CheckInv'
<1>1. /\ status = "run" /\ resident[q] < batch_size_per_dp
      /\ resident' = [resident EXCEPT ![q] = @ + 1]
      /\ UNCHANGED <<system, capacity, configured, total_batch_size, batch_size_per_dp,
                     status>>
  BY DEF Admit
<1>2. resident \in [1 .. dp_degree(system) -> Nat]
  BY DEF CheckInv
<1>3. /\ resident' \in [1 .. dp_degree(system) -> Nat] /\ DOMAIN resident' = DOMAIN resident
      /\ \A r \in DOMAIN resident : resident'[r] = IF r = q THEN resident[q] + 1 ELSE resident[r]
  BY <1>1, <1>2
<1>4. ASSUME CheckedOK
      PROVE  CheckedOK'
  <2>1. \A r \in DOMAIN resident' : resident'[r] > 0 => resident'[r] <= batch_size_per_dp'
    <3>1. batch_size_per_dp \in Int
      BY <1>4 DEF CheckedOK
    <3>. QED  BY <1>1, <1>2, <1>3, <1>4, <3>1 DEF CheckedOK
  <2>2. NotOverCautious'
    BY <1>1, <1>4 DEF CheckedOK, NotOverCautious
  <2>. QED  BY <1>1, <1>4, <2>1, <2>2 DEF CheckedOK, Limited
<1>. QED  BY <1>1, <1>3, <1>4 DEF CheckInv, CacheKnown

LEMMA CheckReduce ==
  ASSUME CheckInv, checkMemorySize
  PROVE  CheckInv'
<1>1. PICK t \in Nat, D \in Nat \ {0}, b \in Nat :
        /\ t = configured /\ D = dp_degree(system) /\ b = t \div D
        /\ total_batch_size = t /\ batch_size_per_dp = b
  <2>1. status = "built" /\ system \in Systems /\ configured \in Nat
    BY DEF checkMemorySize, CheckInv
  <2>2. dp_degree(system) \in Nat \ {0}
    BY <2>1, Ranks
  <2>3. configured \div dp_degree(system) \in Nat
    BY <2>1, <2>2, Divides
  <2>. QED  BY <2>1, <2>2, <2>3 DEF CheckInv
<1>2. /\ system \in Systems /\ capacity \in Nat /\ configured \in Nat
      /\ resident \in [1 .. dp_degree(system) -> Nat]
      /\ \A r \in DOMAIN resident : resident[r] = 0
      /\ status' # "built"
      /\ UNCHANGED <<system, capacity, configured, resident>>
  BY DEF checkMemorySize, CheckInv
<1>3. SUFFICES ASSUME ActivationExact(system, configured), CacheKnown
               PROVE  CheckedOK'
  BY <1>2 DEF CheckInv, ActivationExact, CacheKnown
<1>4. PICK F \in Nat : /\ F = Activation(system, b, t, TRUE)
                       /\ F = Activation(system, b, t, FALSE)
  <2>1. Activation(system, b, t, TRUE) \in Nat
    <3>1. b <= b /\ t <= t
      OBVIOUS
    <3>. QED  BY <1>2, <3>1, ActivationGrows DEF Grows
  <2>. QED  BY <1>1, <1>3, <2>1 DEF ActivationExact
<1>5. PICK w \in Nat, c \in Nat, K \in Nat \ {0} :
        w = system.weight /\ c = capacity /\ K = CacheTensors(system)
  BY <1>2, <1>3, SystemFields, SameCache DEF CacheKnown
<1>6. Needed = F + w + b * K
  BY <1>1, <1>4, <1>5, Zenon DEF Needed
<1>7. \/ /\ UNCHANGED <<total_batch_size, batch_size_per_dp>>
         /\ \/ ~(Needed > capacity)
            \/ status' # "run"
            \/ ~system.mem_cap_limit /\ ~system.exit_out_of_memory
      \/ Needed > capacity /\ ~(avail_capacity(system) < 0) /\ ReduceBatch
  BY DEF checkMemorySize
<1>8. CASE /\ UNCHANGED <<total_batch_size, batch_size_per_dp>>
           /\ \/ ~(Needed > capacity)
              \/ status' # "run"
              \/ ~system.mem_cap_limit /\ ~system.exit_out_of_memory
  <2>1. batch_size_per_dp' = b /\ total_batch_size' = t
    BY <1>1, <1>8
  <2>2. NotOverCautious'
    BY <1>1, <1>2, <2>1 DEF NotOverCautious
  <2>3. ASSUME status' = "run", Limited'
        PROVE  w + b * K + F <= c
    <3>1. ~(Needed > capacity)
      BY <1>2, <1>8, <2>3 DEF Limited
    <3>2. b * K \in Nat
      OBVIOUS
    <3>. QED  BY <1>5, <1>6, <3>1, <3>2
  <2>4. /\ \A r \in DOMAIN resident' : resident'[r] > 0 => resident'[r] <= batch_size_per_dp'
        /\ batch_size_per_dp' \in Int
    BY <1>2, <2>1
  <2>5. status' = "run" /\ Limited' =>
          system'.weight + batch_size_per_dp' * CacheTensors(system')
          + Activation(system', batch_size_per_dp', total_batch_size', TRUE) <= capacity'
    BY <1>2, <1>4, <1>5, <2>1, <2>3, Zenon
  <2>. QED  BY <2>1, <2>2, <2>4, <2>5 DEF CheckedOK
<1>9. CASE Needed > capacity /\ ~(avail_capacity(system) < 0) /\ ReduceBatch
  <2>1. PICK a \in Nat : a = avail_capacity(system) /\ a = c - w - F
    <3>1. avail_capacity(system) = c - w - F
      BY <1>1, <1>4, <1>5, Zenon DEF avail_capacity
    <3>2. c - w - F \in Int
      OBVIOUS
    <3>. QED  BY <1>9, <3>1, <3>2
  <2>2. a < b * K
    <3>1. b * K \in Nat
      OBVIOUS
    <3>. QED  BY <1>5, <1>6, <1>9, <2>1, <3>1
  <2>3. PICK m \in Nat : m = a \div K
    BY Divides
  <2>4. max_batch_size(system) = m * D
    BY <1>1, <1>5, <2>1, <2>3, SameCache, <1>2, <1>3 DEF max_batch_size, CacheKnown
  <2>5. PICK nt \in Int, nb \in Int : nt = m * D - 1 /\ nb = Quotient(m * D - 1, D)
    BY <1>1, <2>2, <2>3, Reduced
  <2>6. total_batch_size' = nt /\ batch_size_per_dp' = nb
    BY <1>1, <1>9, <2>4, <2>5 DEF ReduceBatch
  <2>7. /\ nb > 0 => nt \in Nat /\ nt <= t /\ nb <= b /\ nb * K <= a
        /\ a < (nb + 2) * K
    BY <1>1, <2>2, <2>3, <2>5, Reduced
  <2>8. ASSUME nb > 0
        PROVE  nt \in Nat /\ w + nb * K + Activation(system, nb, nt, TRUE) <= c
    <3>1. nb \in Nat /\ nt \in Nat /\ nt <= t /\ nb <= b /\ nb * K <= a
      BY <2>7, <2>8
    <3>2. Grows(Activation(system, nb, nt, TRUE), F)
      <4>1. Grows(Activation(system, nb, nt, TRUE), Activation(system, b, t, TRUE))
        BY <1>2, <3>1, ActivationGrows
      <4>. QED  BY <1>4, <4>1, Zenon
    <3>3. PICK f \in Nat : f = Activation(system, nb, nt, TRUE) /\ f <= F
      BY <3>2 DEF Grows
    <3>4. PICK z \in Nat : z = nb * K
      <4>1. nb * K \in Nat
        BY <3>1
      <4>. QED  BY <4>1
    <3>5. z <= a
      BY <3>1, <3>4, Zenon
    <3>6. f <= F
      BY <3>3
    <3>7. w + z + f <= c
      BY <2>1, <3>5, <3>6
    <3>. QED  BY <3>1, <3>3, <3>4, <3>7, Zenon
  <2>9. (nb + 2) * K + w + F > c
    <3>1. (nb + 2) * K \in Int
      OBVIOUS
    <3>. QED  BY <2>1, <2>7, <3>1
  <2>10. NotOverCautious'
    <3>1. (batch_size_per_dp' + 2) * CacheTensors(system') + system'.weight
          + Activation(system', configured' \div dp_degree(system'), configured', TRUE) > capacity'
      BY <1>1, <1>2, <1>4, <1>5, <2>6, <2>9, Zenon
    <3>. QED  BY <3>1 DEF NotOverCautious
  <2>11. batch_size_per_dp' > 0 =>
           /\ total_batch_size' \in Nat
           /\ system'.weight + batch_size_per_dp' * CacheTensors(system')
              + Activation(system', batch_size_per_dp', total_batch_size', TRUE) <= capacity'
    BY <1>2, <1>5, <2>6, <2>8
  <2>12. /\ \A r \in DOMAIN resident' : resident'[r] > 0 => resident'[r] <= batch_size_per_dp'
         /\ batch_size_per_dp' \in Int
    BY <1>2, <2>6
  <2>. QED  BY <2>10, <2>11, <2>12 DEF CheckedOK
<1>. QED  BY <1>7, <1>8, <1>9

LEMMA CheckInvariant == Spec => []CheckInv
<1>1. CheckInv /\ [Next]_vars => CheckInv'
  <2>1. ASSUME CheckInv, UNCHANGED vars
        PROVE  CheckInv'
    BY <2>1 DEF CheckInv, CheckedOK, NotOverCautious, ActivationExact, CacheKnown, Limited, vars
  <2>. QED  BY <2>1, CheckReduce, CheckAdmit DEF Next
<1>. QED  BY <1>1, CheckInit, PTL DEF Spec

(* What was admitted fits: with mem_cap_limit or exit_out_of_memory, the   *)
(* weights, the activations and the caches of the requests on a device fit *)
(* in its memory while checkMemorySize's ints do not overflow for the      *)
(* batch that was configured.                                              *)
THEOREM ResidentsFit == Spec => [](ActivationExact(system, configured) => ResidentFits)
<1>1. ASSUME CheckInv, ActivationExact(system, configured), status = "run", Limited,
             CacheKnown, NEW r \in DOMAIN resident, resident[r] > 0
      PROVE  system.weight + resident[r] * CacheTensors(system)
             + Activation(system, batch_size_per_dp, total_batch_size, TRUE) <= capacity
  <2>1. CheckedOK /\ system \in Systems /\ capacity \in Nat /\ resident[r] \in Nat
    BY <1>1 DEF CheckInv
  <2>2. PICK b \in Nat, p \in Nat : b = batch_size_per_dp /\ p = resident[r] /\ p <= b /\ b > 0
    BY <1>1, <2>1 DEF CheckedOK
  <2>3. PICK t \in Nat : t = total_batch_size
    BY <1>1, <2>1, <2>2 DEF CheckedOK
  <2>4. PICK w \in Nat, K \in Nat : w = system.weight /\ K = CacheTensors(system)
    BY <1>1, <2>1, SystemFields, SameCache DEF CacheKnown
  <2>5. PICK F \in Nat : F = Activation(system, b, t, TRUE)
    <3>1. b <= b /\ t <= t
      OBVIOUS
    <3>. QED  BY <2>1, <3>1, ActivationGrows DEF Grows
  <2>6. w + b * K + F <= capacity
    BY <1>1, <2>1, <2>2, <2>3, <2>4, <2>5 DEF CheckedOK
  <2>7. p * K <= b * K /\ p * K \in Nat /\ b * K \in Nat
    BY <2>2, TimesMonotone
  <2>8. w + p * K + F <= capacity
    BY <2>1, <2>6, <2>7
  <2>. QED  BY <2>2, <2>3, <2>4, <2>5, <2>8
<1>2. CheckInv => (ActivationExact(system, configured) => ResidentFits)
  BY <1>1 DEF ResidentFits, Limited, CacheKnown
<1>. QED  BY <1>2, CheckInvariant, PTL

(* The reduction of checkMemorySize gives up at most one request of a rank *)
(* beyond need.                                                            *)
THEOREM ReductionIsTight == Spec => [](ActivationExact(system, configured) => NotOverCautious)
<1>1. CheckInv => (ActivationExact(system, configured) => NotOverCautious)
  BY DEF CheckInv, CheckedOK, NotOverCautious, CacheKnown
<1>. QED  BY <1>1, CheckInvariant, PTL
=============================================================================
