-------------------------- MODULE Pokemon100Proofs --------------------------
(***************************************************************************)
(* What Pokemon100 reads out of a record is what the game wrote, for every *)
(* personality, trainer id and content; and any damage to one halfword of  *)
(* the secure part is noticed.                                             *)
(***************************************************************************)
EXTENDS Pokemon100, TLAPS

----------------------------------------------------------------------------
(***************************************************************************)
(* Exclusive or, for each width.  Every one of them stays within its       *)
(* width, does not care for the order, undoes itself and is 0 only for     *)
(* equal numbers.                                                          *)
(***************************************************************************)

LEMMA Xor1Laws ==
    ASSUME NEW x \in Nat, NEW y \in Nat, x < 2, y < 2
    PROVE  /\ Xor1(x, y) \in Nat /\ Xor1(x, y) < 2
           /\ Xor1(x, y) = Xor1(y, x)
           /\ Xor1(Xor1(x, y), y) = x
           /\ Xor1(x, x) = 0
BY DEF Xor1

LEMMA Xor2Laws ==
    ASSUME NEW x \in Nat, NEW y \in Nat, x < 4, y < 4
    PROVE  /\ Xor2(x, y) \in Nat /\ Xor2(x, y) < 4
           /\ Xor2(x, y) = Xor2(y, x)
           /\ Xor2(Xor2(x, y), y) = x
           /\ Xor2(x, x) = 0
<1> DEFINE r == Xor2(x, y)
           high == Xor1(x \div 2, y \div 2)
           low == Xor1(x % 2, y % 2)
<1>1. /\ x \div 2 \in Nat /\ x \div 2 < 2 /\ x % 2 \in Nat /\ x % 2 < 2
      /\ x = 2 * (x \div 2) + (x % 2)
  OBVIOUS
<1>2. y \div 2 \in Nat /\ y \div 2 < 2 /\ y % 2 \in Nat /\ y % 2 < 2
  OBVIOUS
<1>3. /\ high \in Nat /\ high < 2 /\ low \in Nat /\ low < 2
      /\ high = Xor1(y \div 2, x \div 2) /\ low = Xor1(y % 2, x % 2)
      /\ Xor1(high, y \div 2) = x \div 2 /\ Xor1(low, y % 2) = x % 2
      /\ Xor1(x \div 2, x \div 2) = 0 /\ Xor1(x % 2, x % 2) = 0
  BY <1>1, <1>2, Xor1Laws
<1>4. r = 2 * high + low /\ Xor2(y, x) = r /\ Xor2(x, x) = 0
  BY <1>3 DEF Xor2
<1> HIDE DEF high, low
<1>5. r \in Nat /\ r < 4 /\ r \div 2 = high /\ r % 2 = low
  BY <1>3, <1>4
<1>6. Xor2(r, y) = x
  <2>1. Xor2(r, y) = 2 * Xor1(r \div 2, y \div 2) + Xor1(r % 2, y % 2)
    BY DEF Xor2
  <2> HIDE DEF r
  <2> QED
    BY <1>1, <1>3, <1>5, <2>1
<1> QED
  BY <1>4, <1>5, <1>6

LEMMA Xor4Laws ==
    ASSUME NEW x \in Nat, NEW y \in Nat, x < 16, y < 16
    PROVE  /\ Xor4(x, y) \in Nat /\ Xor4(x, y) < 16
           /\ Xor4(x, y) = Xor4(y, x)
           /\ Xor4(Xor4(x, y), y) = x
           /\ Xor4(x, x) = 0
<1> DEFINE r == Xor4(x, y)
           high == Xor2(x \div 4, y \div 4)
           low == Xor2(x % 4, y % 4)
<1>1. /\ x \div 4 \in Nat /\ x \div 4 < 4 /\ x % 4 \in Nat /\ x % 4 < 4
      /\ x = 4 * (x \div 4) + (x % 4)
  OBVIOUS
<1>2. y \div 4 \in Nat /\ y \div 4 < 4 /\ y % 4 \in Nat /\ y % 4 < 4
  OBVIOUS
<1>3. /\ high \in Nat /\ high < 4 /\ low \in Nat /\ low < 4
      /\ high = Xor2(y \div 4, x \div 4) /\ low = Xor2(y % 4, x % 4)
      /\ Xor2(high, y \div 4) = x \div 4 /\ Xor2(low, y % 4) = x % 4
      /\ Xor2(x \div 4, x \div 4) = 0 /\ Xor2(x % 4, x % 4) = 0
  BY <1>1, <1>2, Xor2Laws
<1>4. r = 4 * high + low /\ Xor4(y, x) = r /\ Xor4(x, x) = 0
  BY <1>3 DEF Xor4
<1> HIDE DEF high, low
<1>5. r \in Nat /\ r < 16 /\ r \div 4 = high /\ r % 4 = low
  BY <1>3, <1>4
<1>6. Xor4(r, y) = x
  <2>1. Xor4(r, y) = 4 * Xor2(r \div 4, y \div 4) + Xor2(r % 4, y % 4)
    BY DEF Xor4
  <2> HIDE DEF r
  <2> QED
    BY <1>1, <1>3, <1>5, <2>1
<1> QED
  BY <1>4, <1>5, <1>6

LEMMA Xor8Laws ==
    ASSUME NEW x \in Nat, NEW y \in Nat, x < 256, y < 256
    PROVE  /\ Xor8(x, y) \in Nat /\ Xor8(x, y) < 256
           /\ Xor8(x, y) = Xor8(y, x)
           /\ Xor8(Xor8(x, y), y) = x
           /\ Xor8(x, x) = 0
<1> DEFINE r == Xor8(x, y)
           high == Xor4(x \div 16, y \div 16)
           low == Xor4(x % 16, y % 16)
<1>1. /\ x \div 16 \in Nat /\ x \div 16 < 16 /\ x % 16 \in Nat /\ x % 16 < 16
      /\ x = 16 * (x \div 16) + (x % 16)
  OBVIOUS
<1>2. y \div 16 \in Nat /\ y \div 16 < 16 /\ y % 16 \in Nat /\ y % 16 < 16
  OBVIOUS
<1>3. /\ high \in Nat /\ high < 16 /\ low \in Nat /\ low < 16
      /\ high = Xor4(y \div 16, x \div 16) /\ low = Xor4(y % 16, x % 16)
      /\ Xor4(high, y \div 16) = x \div 16 /\ Xor4(low, y % 16) = x % 16
      /\ Xor4(x \div 16, x \div 16) = 0 /\ Xor4(x % 16, x % 16) = 0
  BY <1>1, <1>2, Xor4Laws
<1>4. r = 16 * high + low /\ Xor8(y, x) = r /\ Xor8(x, x) = 0
  BY <1>3 DEF Xor8
<1> HIDE DEF high, low
<1>5. r \in Nat /\ r < 256 /\ r \div 16 = high /\ r % 16 = low
  BY <1>3, <1>4
<1>6. Xor8(r, y) = x
  <2>1. Xor8(r, y) = 16 * Xor4(r \div 16, y \div 16) + Xor4(r % 16, y % 16)
    BY DEF Xor8
  <2> HIDE DEF r
  <2> QED
    BY <1>1, <1>3, <1>5, <2>1
<1> QED
  BY <1>4, <1>5, <1>6

LEMMA XorLaws ==
    ASSUME NEW x \in Nat, NEW y \in Nat, x < 65536, y < 65536
    PROVE  /\ Xor(x, y) \in Nat /\ Xor(x, y) < 65536
           /\ Xor(x, y) = Xor(y, x)
           /\ Xor(Xor(x, y), y) = x
           /\ Xor(x, x) = 0
<1> DEFINE r == Xor(x, y)
           high == Xor8(x \div 256, y \div 256)
           low == Xor8(x % 256, y % 256)
<1>1. /\ x \div 256 \in Nat /\ x \div 256 < 256 /\ x % 256 \in Nat /\ x % 256 < 256
      /\ x = 256 * (x \div 256) + (x % 256)
  OBVIOUS
<1>2. y \div 256 \in Nat /\ y \div 256 < 256 /\ y % 256 \in Nat /\ y % 256 < 256
  OBVIOUS
<1>3. /\ high \in Nat /\ high < 256 /\ low \in Nat /\ low < 256
      /\ high = Xor8(y \div 256, x \div 256) /\ low = Xor8(y % 256, x % 256)
      /\ Xor8(high, y \div 256) = x \div 256 /\ Xor8(low, y % 256) = x % 256
      /\ Xor8(x \div 256, x \div 256) = 0 /\ Xor8(x % 256, x % 256) = 0
  BY <1>1, <1>2, Xor8Laws
<1>4. r = 256 * high + low /\ Xor(y, x) = r /\ Xor(x, x) = 0
  BY <1>3 DEF Xor
<1> HIDE DEF high, low
<1>5. r \in Nat /\ r < 65536 /\ r \div 256 = high /\ r % 256 = low
  BY <1>3, <1>4
<1>6. Xor(r, y) = x
  <2>1. Xor(r, y) = 256 * Xor8(r \div 256, y \div 256) + Xor8(r % 256, y % 256)
    BY DEF Xor
  <2> HIDE DEF r
  <2> QED
    BY <1>1, <1>3, <1>5, <2>1
<1> QED
  BY <1>4, <1>5, <1>6

----------------------------------------------------------------------------
(***************************************************************************)
(* Halfwords.                                                              *)
(***************************************************************************)

LEMMA BelowIs ==
    ASSUME NEW n \in Nat, NEW x
    PROVE  x \in 0..(n - 1) <=> x \in Nat /\ x < n
OBVIOUS

LEMMA HalfwordsAre ==
    ASSUME NEW x
    PROVE  x \in Halfwords <=> x \in Nat /\ x < 65536
<1>1. HALF \in Nat
  BY DEF HALF
<1>2. x \in Halfwords <=> x \in Nat /\ x < HALF
  BY <1>1, BelowIs DEF Halfwords
<1> QED
  BY <1>2 DEF HALF

LEMMA XorHalfwords ==
    ASSUME NEW x \in Halfwords, NEW y \in Halfwords
    PROVE  /\ Xor(x, y) \in Halfwords /\ Xor(x, y) = Xor(y, x)
           /\ Xor(Xor(x, y), y) = x /\ Xor(x, x) = 0
BY HalfwordsAre, XorLaws

\* A bit that is turned over stays so under any key.
LEMMA DamageShows ==
    ASSUME NEW x \in Halfwords, NEW k \in Halfwords, NEW mask \in Halfwords \ {0}
    PROVE  Xor(Xor(Xor(x, k), mask), k) \in Halfwords \ {x}
<1> DEFINE c == Xor(x, k)
           d == Xor(c, mask)
<1>1. c \in Halfwords /\ d \in Halfwords /\ Xor(d, k) \in Halfwords
  BY XorHalfwords
<1>2. ASSUME Xor(d, k) = x PROVE FALSE
  <2>1. d = c
    BY <1>1, <1>2, XorHalfwords
  <2>2. Xor(mask, c) = c
    BY <1>1, <2>1, XorHalfwords
  <2>3. Xor(Xor(mask, c), c) = mask /\ Xor(c, c) = 0
    BY <1>1, XorHalfwords
  <2> QED
    BY <2>2, <2>3
<1> QED
  BY <1>1, <1>2

----------------------------------------------------------------------------
(***************************************************************************)
(* The order of the substructures.                                         *)
(***************************************************************************)

\* The index is the 32-bit personality modulo 24.
LEMMA OrderIndexIs ==
    ASSUME NEW p \in Halfwords \X Halfwords
    PROVE  /\ OrderIndex(p) \in Nat /\ OrderIndex(p) < 24
           /\ OrderIndex(p) = (p[1] + HALF * p[2]) % 24
           /\ OrderIndex(p) = (p[1] + p[2] * (HALF % 24)) % 24
<1>1. p[1] \in Nat /\ p[2] \in Nat /\ HALF % 24 = 16
  BY HalfwordsAre DEF HALF
<1>2. OrderIndex(p) = ((p[2] % 24) * 16 + p[1]) % 24
  BY <1>1 DEF OrderIndex
<1>3. PICK q \in Nat, r \in Nat : r < 24 /\ r = p[2] % 24 /\ p[2] = (24 * q) + r
  <2>1. \A n \in Nat : n \div 24 \in Nat /\ n % 24 \in Nat /\ n % 24 < 24 /\ n = (24 * (n \div 24)) + (n % 24)
    OBVIOUS
  <2> QED
    BY <1>1, <2>1
<1>4. p[1] + HALF * p[2] = (24 * (65536 * q + 2730 * r)) + (16 * r + p[1])
  BY <1>1, <1>3 DEF HALF
<1>5. p[1] + p[2] * 16 = (24 * (16 * q)) + (16 * r + p[1])
  BY <1>1, <1>3
<1>6. \A k \in Nat, n \in Nat : ((24 * k) + n) % 24 = n % 24 /\ n % 24 \in Nat /\ n % 24 < 24
  OBVIOUS
<1>7. 65536 * q + 2730 * r \in Nat /\ 16 * q \in Nat /\ 16 * r + p[1] \in Nat
  BY <1>1, <1>3
<1>8. OrderIndex(p) = (16 * r + p[1]) % 24
  BY <1>1, <1>2, <1>3
<1>9. (p[1] + HALF * p[2]) % 24 = (16 * r + p[1]) % 24
  BY <1>4, <1>6, <1>7
<1>10. (p[1] + p[2] * 16) % 24 = (16 * r + p[1]) % 24
  BY <1>5, <1>6, <1>7
<1> QED
  BY <1>1, <1>6, <1>7, <1>8, <1>9, <1>10

\* Where G is in the n-th order, whatever the others are.
GrowthAt(n) ==
    IF n < 6 THEN 1 ELSE IF n % 6 < 2 THEN 2 ELSE IF n % 2 = 0 THEN 3 ELSE 4

\* The table of the code has it there.
LEMMA TableGrowth ==
    ASSUME NEW n \in Nat, n < 24
    PROVE  \A i \in 1..4 : SUBSTRUCT_ORDERS[n + 1][i] = "G" <=> i = GrowthAt(n)
<1>1. CASE n \in 0..5
  BY <1>1 DEF SUBSTRUCT_ORDERS, GrowthAt
<1>2. CASE n \in 6..11
  BY <1>2 DEF SUBSTRUCT_ORDERS, GrowthAt
<1>3. CASE n \in 12..17
  BY <1>3 DEF SUBSTRUCT_ORDERS, GrowthAt
<1>4. CASE n \in 18..23
  BY <1>4 DEF SUBSTRUCT_ORDERS, GrowthAt
<1> QED
  BY <1>1, <1>2, <1>3, <1>4

LEMMA WithoutIs ==
    ASSUME NEW S, NEW k \in Nat, NEW s \in Seq(S), Len(s) = k + 1,
           NEW i \in 1..(k + 1)
    PROVE  /\ Without(s, i) \in Seq(S) /\ Len(Without(s, i)) = k
           /\ \A j \in 1..k : /\ j < i => Without(s, i)[j] = s[j]
                              /\ j >= i => Without(s, i)[j] = s[j + 1]
<1>1. \A j \in 1..k : s[IF j < i THEN j ELSE j + 1] \in S
  OBVIOUS
<1>2. Len(s) - 1 = k
  OBVIOUS
<1>3. Without(s, i) = [j \in 1..k |-> s[IF j < i THEN j ELSE j + 1]]
  BY <1>2, Zenon DEF Without
<1>4. Without(s, i) \in [1..k -> S]
  BY <1>1, <1>3
<1>5. Without(s, i) \in Seq(S) /\ Len(Without(s, i)) = k
  BY <1>4
<1> QED
  BY <1>3, <1>5

LEMMA ConcatIs ==
    ASSUME NEW S, NEW u \in Seq(S), NEW s \in Seq(S)
    PROVE  /\ \A i \in 1..Len(u) : (u \o s)[i] = u[i]
           /\ \A i \in 1..Len(s) : (u \o s)[i + Len(u)] = s[i]
OBVIOUS

LEMMA ThreeAndOne ==
    ASSUME NEW S, NEW u \in Seq(S), NEW s \in Seq(S)
    PROVE  LET t == u \o s
           IN  Len(u) = 3 /\ Len(s) = 1 =>
                   t[1] = u[1] /\ t[2] = u[2] /\ t[3] = u[3] /\ t[4] = s[1]
<1> DEFINE t == u \o s
<1>1. /\ \A i \in 1..Len(u) : t[i] = u[i]
      /\ \A i \in 1..Len(s) : t[i + Len(u)] = s[i]
  BY ConcatIs
<1> HIDE DEF t
<1>2. Len(u) = 3 /\ Len(s) = 1 =>
          t[1] = u[1] /\ t[2] = u[2] /\ t[3] = u[3] /\ t[4] = s[1]
  BY <1>1
<1> QED
  BY <1>2 DEF t

\* The reference has it there: G is the first letter of those that are left,
\* until it is taken.
LEMMA ReferenceGrowth ==
    ASSUME NEW n \in Nat, n < 24
    PROVE  \A i \in 1..4 : NthOrder(n)[i] = "G" <=> i = GrowthAt(n)
<1> DEFINE S  == {"G", "A", "E", "M"}
           s1 == <<"G", "A", "E", "M">>  i1 == (n \div 6) + 1
           s2 == Without(s1, i1)         i2 == ((n % 6) \div 2) + 1
           s3 == Without(s2, i2)         i3 == (n % 2) + 1
           s4 == Without(s3, i3)
           order == <<s1[i1], s2[i2], s3[i3]>> \o s4
<1>1. NthOrder(n) = order
  BY DEF NthOrder
<1>2. s1 \in Seq(S) /\ Len(s1) = 4 /\ s1[1] = "G" /\ \A j \in 2..4 : s1[j] # "G"
  OBVIOUS
<1>3. i1 \in 1..4 /\ (i1 = 1 <=> n < 6)
  OBVIOUS
<1>4. i2 \in 1..3 /\ (i2 = 1 <=> n % 6 < 2)
  <2>1. \A m \in Nat : m < 6 => (m \div 2) + 1 \in 1..3 /\ ((m \div 2) + 1 = 1 <=> m < 2)
    OBVIOUS
  <2>2. n % 6 \in Nat /\ n % 6 < 6
    OBVIOUS
  <2> QED
    BY <2>1, <2>2
<1>5. i3 \in 1..2 /\ (i3 = 1 <=> n % 2 = 0)
  OBVIOUS
<1> HIDE DEF S, s1, i1, i2, i3
<1>6. /\ s2 \in Seq(S) /\ Len(s2) = 3
      /\ \A j \in 1..3 : (j < i1 => s2[j] = s1[j]) /\ (j >= i1 => s2[j] = s1[j + 1])
  <2>0. s1 \in Seq(S)
    BY <1>2
  <2> DEFINE k == 3
  <2>1. k \in Nat /\ Len(s1) = k + 1 /\ i1 \in 1..(k + 1)
    BY <1>3, <1>2
  <2> HIDE DEF k
  <2>2. /\ Without(s1, i1) \in Seq(S) /\ Len(Without(s1, i1)) = k
        /\ \A j \in 1..k : /\ j < i1 => Without(s1, i1)[j] = s1[j]
                           /\ j >= i1 => Without(s1, i1)[j] = s1[j + 1]
    BY <2>0, <2>1, WithoutIs
  <2> QED
    BY <2>2 DEF k
<1>7. \A j \in 1..3 : s2[j] = "G" <=> i1 # 1 /\ j = 1
  BY <1>2, <1>3, <1>6
<1> HIDE DEF s2
<1>8. /\ s3 \in Seq(S) /\ Len(s3) = 2
      /\ \A j \in 1..2 : (j < i2 => s3[j] = s2[j]) /\ (j >= i2 => s3[j] = s2[j + 1])
  <2>0. s2 \in Seq(S)
    BY <1>6
  <2> DEFINE k == 2
  <2>1. k \in Nat /\ Len(s2) = k + 1 /\ i2 \in 1..(k + 1)
    BY <1>4, <1>6
  <2> HIDE DEF k
  <2>2. /\ Without(s2, i2) \in Seq(S) /\ Len(Without(s2, i2)) = k
        /\ \A j \in 1..k : /\ j < i2 => Without(s2, i2)[j] = s2[j]
                           /\ j >= i2 => Without(s2, i2)[j] = s2[j + 1]
    BY <2>0, <2>1, WithoutIs
  <2> QED
    BY <2>2 DEF k
<1>9. \A j \in 1..2 : s3[j] = "G" <=> i1 # 1 /\ i2 # 1 /\ j = 1
  BY <1>4, <1>7, <1>8
<1> HIDE DEF s3
<1>10. s4 \in Seq(S) /\ Len(s4) = 1 /\ s4[1] = s3[IF 1 < i3 THEN 1 ELSE 2]
  <2>0. s3 \in Seq(S)
    BY <1>8
  <2> DEFINE k == 1
  <2>1. k \in Nat /\ Len(s3) = k + 1 /\ i3 \in 1..(k + 1)
    BY <1>5, <1>8
  <2> HIDE DEF k
  <2>2. /\ Without(s3, i3) \in Seq(S) /\ Len(Without(s3, i3)) = k
        /\ \A j \in 1..k : /\ j < i3 => Without(s3, i3)[j] = s3[j]
                           /\ j >= i3 => Without(s3, i3)[j] = s3[j + 1]
    BY <2>0, <2>1, WithoutIs
  <2> QED
    BY <1>5, <2>2 DEF k
<1>11. s4[1] = "G" <=> i1 # 1 /\ i2 # 1 /\ i3 # 1
  BY <1>5, <1>9, <1>10
<1> HIDE DEF s4
<1>12. /\ order[1] = s1[i1] /\ order[2] = s2[i2] /\ order[3] = s3[i3] /\ order[4] = s4[1]
  <2>1. s1[i1] \in S
    BY <1>2, <1>3
  <2>2. s2[i2] \in S
    <3>1. s2 \in Seq(S) /\ i2 \in 1..Len(s2)
      BY <1>4, <1>6
    <3> QED
      BY <3>1
  <2>3. s3[i3] \in S
    BY <1>5, <1>8
  <2> DEFINE u == <<s1[i1], s2[i2], s3[i3]>>
  <2>4. /\ u \in Seq(S) /\ Len(u) = 3
        /\ u[1] = s1[i1] /\ u[2] = s2[i2] /\ u[3] = s3[i3]
    BY <2>1, <2>2, <2>3
  <2> HIDE DEF u
  <2>5. LET t == u \o s4
        IN  t[1] = u[1] /\ t[2] = u[2] /\ t[3] = u[3] /\ t[4] = s4[1]
    BY <1>10, <2>4, ThreeAndOne
  <2> QED
    BY <2>4, <2>5 DEF u
<1> HIDE DEF order
<1>13. /\ order[1] = "G" <=> i1 = 1
       /\ order[2] = "G" <=> i1 # 1 /\ i2 = 1
       /\ order[3] = "G" <=> i1 # 1 /\ i2 # 1 /\ i3 = 1
       /\ order[4] = "G" <=> i1 # 1 /\ i2 # 1 /\ i3 # 1
  BY <1>2, <1>3, <1>4, <1>5, <1>7, <1>9, <1>11, <1>12
<1> QED
  BY <1>1, <1>3, <1>4, <1>5, <1>13 DEF GrowthAt

----------------------------------------------------------------------------
(***************************************************************************)
(* The checksum.                                                           *)
(***************************************************************************)

Total(s) == SumOf(s, 0) + SumOf(s, 1) + SumOf(s, 2) + SumOf(s, 3)

LEMMA SumOfIs ==
    ASSUME NEW s, NEW n \in 0..3, \A j \in 1..24 : s[j] \in Nat
    PROVE  SumOf(s, n) \in Nat
<1> DEFINE at == 6 * n
<1>1. /\ at + 1 \in 1..24 /\ at + 2 \in 1..24 /\ at + 3 \in 1..24
      /\ at + 4 \in 1..24 /\ at + 5 \in 1..24 /\ at + 6 \in 1..24
  OBVIOUS
<1>2. SumOf(s, n) = s[at + 1] + s[at + 2] + s[at + 3] + s[at + 4] + s[at + 5] + s[at + 6]
  BY DEF SumOf
<1> HIDE DEF at
<1> QED
  BY <1>1, <1>2

\* A sum changes by as much as one of its halfwords, or not at all.
LEMMA SumOfChanges ==
    ASSUME NEW s, NEW t, NEW i \in 1..24, NEW n \in 0..3,
           \A j \in 1..24 : s[j] \in Nat /\ t[j] \in Nat,
           \A j \in 1..24 : j # i => t[j] = s[j]
    PROVE  SumOf(t, n) = SumOf(s, n) + (IF i > 6 * n /\ i <= 6 * n + 6 THEN t[i] - s[i] ELSE 0)
<1> DEFINE at == 6 * n
<1>1. /\ at + 1 \in 1..24 /\ at + 2 \in 1..24 /\ at + 3 \in 1..24
      /\ at + 4 \in 1..24 /\ at + 5 \in 1..24 /\ at + 6 \in 1..24 /\ at \in Nat
  OBVIOUS
<1>2. /\ SumOf(s, n) = s[at + 1] + s[at + 2] + s[at + 3] + s[at + 4] + s[at + 5] + s[at + 6]
      /\ SumOf(t, n) = t[at + 1] + t[at + 2] + t[at + 3] + t[at + 4] + t[at + 5] + t[at + 6]
  BY DEF SumOf
<1> HIDE DEF at
<1>4. SumOf(t, n) = SumOf(s, n) + (IF i > at /\ i <= at + 6 THEN t[i] - s[i] ELSE 0)
  <2>1. CASE i > at /\ i <= at + 6
    <3>0. /\ s[at + 1] \in Nat /\ s[at + 2] \in Nat /\ s[at + 3] \in Nat
          /\ s[at + 4] \in Nat /\ s[at + 5] \in Nat /\ s[at + 6] \in Nat
      BY <1>1
    <3>1. i = at + 1 \/ i = at + 2 \/ i = at + 3 \/ i = at + 4 \/ i = at + 5 \/ i = at + 6
      BY <1>1, <2>1
    <3>2. i \in Nat /\ s[i] \in Nat /\ t[i] \in Nat
      OBVIOUS
    <3>3. CASE i = at + 1
      <4>1. /\ t[at + 2] = s[at + 2] /\ t[at + 3] = s[at + 3] /\ t[at + 4] = s[at + 4]
            /\ t[at + 5] = s[at + 5] /\ t[at + 6] = s[at + 6]
        BY <1>1, <3>2, <3>3
      <4> QED
        BY <1>2, <2>1, <3>2, <3>3, <3>0, <4>1
    <3>4. CASE i = at + 2
      <4>1. /\ t[at + 1] = s[at + 1] /\ t[at + 3] = s[at + 3] /\ t[at + 4] = s[at + 4]
            /\ t[at + 5] = s[at + 5] /\ t[at + 6] = s[at + 6]
        BY <1>1, <3>2, <3>4
      <4> QED
        BY <1>2, <2>1, <3>2, <3>4, <3>0, <4>1
    <3>5. CASE i = at + 3
      <4>1. /\ t[at + 1] = s[at + 1] /\ t[at + 2] = s[at + 2] /\ t[at + 4] = s[at + 4]
            /\ t[at + 5] = s[at + 5] /\ t[at + 6] = s[at + 6]
        BY <1>1, <3>2, <3>5
      <4> QED
        BY <1>2, <2>1, <3>2, <3>5, <3>0, <4>1
    <3>6. CASE i = at + 4
      <4>1. /\ t[at + 1] = s[at + 1] /\ t[at + 2] = s[at + 2] /\ t[at + 3] = s[at + 3]
            /\ t[at + 5] = s[at + 5] /\ t[at + 6] = s[at + 6]
        BY <1>1, <3>2, <3>6
      <4> QED
        BY <1>2, <2>1, <3>2, <3>6, <3>0, <4>1
    <3>7. CASE i = at + 5
      <4>1. /\ t[at + 1] = s[at + 1] /\ t[at + 2] = s[at + 2] /\ t[at + 3] = s[at + 3]
            /\ t[at + 4] = s[at + 4] /\ t[at + 6] = s[at + 6]
        BY <1>1, <3>2, <3>7
      <4> QED
        BY <1>2, <2>1, <3>2, <3>7, <3>0, <4>1
    <3>8. CASE i = at + 6
      <4>1. /\ t[at + 1] = s[at + 1] /\ t[at + 2] = s[at + 2] /\ t[at + 3] = s[at + 3]
            /\ t[at + 4] = s[at + 4] /\ t[at + 5] = s[at + 5]
        BY <1>1, <3>2, <3>8
      <4> QED
        BY <1>2, <2>1, <3>2, <3>8, <3>0, <4>1
    <3> QED
      BY <3>1, <3>3, <3>4, <3>5, <3>6, <3>7, <3>8
  <2>2. CASE ~(i > at /\ i <= at + 6)
    BY <1>1, <1>2, <2>2
  <2> QED
    BY <2>1, <2>2
<1> QED
  BY <1>4 DEF at

LEMMA TotalChanges ==
    ASSUME NEW s, NEW t, NEW i \in 1..24,
           \A j \in 1..24 : s[j] \in Nat /\ t[j] \in Nat,
           \A j \in 1..24 : j # i => t[j] = s[j]
    PROVE  /\ Total(s) \in Nat /\ Total(t) \in Nat
           /\ Total(t) = Total(s) + (t[i] - s[i])
<1>1. \A n \in 0..3 : SumOf(s, n) \in Nat /\ SumOf(t, n) \in Nat
  BY SumOfIs
<1>2. \A n \in 0..3 : SumOf(t, n) = SumOf(s, n)
                          + (IF i > 6 * n /\ i <= 6 * n + 6 THEN t[i] - s[i] ELSE 0)
  BY SumOfChanges
<1>3. s[i] \in Nat /\ t[i] \in Nat
  OBVIOUS
<1> QED
  BY <1>1, <1>2, <1>3 DEF Total

\* The code adds the halfwords one by one, and the games by substructure.
LEMMA ChecksumIs ==
    ASSUME NEW s, \A j \in 1..24 : s[j] \in Nat
    PROVE  Checksum(s) = Total(s) % HALF
<1>1. s[1] \in Nat /\ s[2] \in Nat /\ s[3] \in Nat /\ s[4] \in Nat /\ s[5] \in Nat /\ s[6] \in Nat
  OBVIOUS
<1>2. s[7] \in Nat /\ s[8] \in Nat /\ s[9] \in Nat /\ s[10] \in Nat /\ s[11] \in Nat /\ s[12] \in Nat
  OBVIOUS
<1>3. s[13] \in Nat /\ s[14] \in Nat /\ s[15] \in Nat /\ s[16] \in Nat /\ s[17] \in Nat /\ s[18] \in Nat
  OBVIOUS
<1>4. s[19] \in Nat /\ s[20] \in Nat /\ s[21] \in Nat /\ s[22] \in Nat /\ s[23] \in Nat /\ s[24] \in Nat
  OBVIOUS
<1>5. /\ SumOf(s, 0) = s[1] + s[2] + s[3] + s[4] + s[5] + s[6]
      /\ SumOf(s, 1) = s[7] + s[8] + s[9] + s[10] + s[11] + s[12]
      /\ SumOf(s, 2) = s[13] + s[14] + s[15] + s[16] + s[17] + s[18]
      /\ SumOf(s, 3) = s[19] + s[20] + s[21] + s[22] + s[23] + s[24]
  BY DEF SumOf
<1>6. Total(s) =
    s[1] + s[2] + s[3] + s[4] + s[5] + s[6] + s[7] + s[8] + s[9] + s[10] + s[11] + s[12] + s[13]
    + s[14] + s[15] + s[16] + s[17] + s[18] + s[19] + s[20] + s[21] + s[22] + s[23] + s[24]
  <2>1. SumOf(s, 0) \in Nat
    BY <1>1, <1>5
  <2>2. SumOf(s, 0) + SumOf(s, 1) \in Nat
    BY <1>2, <1>5, <2>1
  <2>3. SumOf(s, 0) + SumOf(s, 1) + SumOf(s, 2) \in Nat
    BY <1>3, <1>5, <2>2
  <2>4. \A a \in Nat, b1, b2, b3, b4, b5, b6 \in Nat :
            a + (b1 + b2 + b3 + b4 + b5 + b6) = a + b1 + b2 + b3 + b4 + b5 + b6
    OBVIOUS
  <2>5. SumOf(s, 0) + SumOf(s, 1) = SumOf(s, 0) + s[7] + s[8] + s[9] + s[10] + s[11] + s[12]
    BY <1>2, <1>5, <2>1, <2>4
  <2>6. SumOf(s, 0) + SumOf(s, 1) + SumOf(s, 2)
            = SumOf(s, 0) + SumOf(s, 1) + s[13] + s[14] + s[15] + s[16] + s[17] + s[18]
    BY <1>3, <1>5, <2>2, <2>4
  <2>7. SumOf(s, 0) + SumOf(s, 1) + SumOf(s, 2) + SumOf(s, 3)
            = SumOf(s, 0) + SumOf(s, 1) + SumOf(s, 2) + s[19] + s[20] + s[21] + s[22] + s[23] + s[24]
    BY <1>4, <1>5, <2>3, <2>4
  <2> QED
    BY <1>5, <2>5, <2>6, <2>7, Zenon DEF Total
<1> QED
  BY <1>6, Zenon DEF Checksum

\* A sum modulo 65536 shows the change of one halfword.
LEMMA ModuloShows ==
    ASSUME NEW a \in Nat, NEW b \in Nat, NEW x \in Nat, NEW y \in Nat,
           x < 65536, y < 65536, x # y, b = a + (y - x)
    PROVE  b % 65536 # a % 65536
<1>1. \A n \in Nat : n \div 65536 \in Nat /\ n % 65536 \in Nat /\ n % 65536 < 65536
                     /\ n = (65536 * (n \div 65536)) + (n % 65536)
  OBVIOUS
<1>2. PICK p \in Nat, u \in Nat : u = a % 65536 /\ a = (65536 * p) + u
  BY <1>1
<1>3. PICK q \in Nat, v \in Nat : v = b % 65536 /\ b = (65536 * q) + v
  BY <1>1
<1>4. u # v
  BY <1>2, <1>3
<1> QED
  BY <1>2, <1>3, <1>4

LEMMA ChecksumShows ==
    ASSUME NEW s, NEW t, NEW i \in 1..24,
           \A j \in 1..24 : s[j] \in Halfwords /\ t[j] \in Halfwords,
           \A j \in 1..24 : j # i => t[j] = s[j],
           t[i] # s[i]
    PROVE  Checksum(t) # Checksum(s)
<1>1. \A j \in 1..24 : s[j] \in Nat /\ t[j] \in Nat
  BY HalfwordsAre
<1>2. s[i] < 65536 /\ t[i] < 65536
  BY HalfwordsAre
<1>3. Total(s) \in Nat /\ Total(t) \in Nat /\ Total(t) = Total(s) + (t[i] - s[i])
  BY <1>1, TotalChanges
<1>4. Checksum(s) = Total(s) % 65536 /\ Checksum(t) = Total(t) % 65536
  BY <1>1, ChecksumIs DEF HALF
<1> HIDE DEF Checksum, Total
<1>5. s[i] \in Nat /\ t[i] \in Nat
  BY <1>1
<1>6. Total(t) % 65536 # Total(s) % 65536
  BY ONLY <1>2, <1>3, <1>5, t[i] # s[i], ModuloShows
<1> QED
  BY <1>4, <1>6

----------------------------------------------------------------------------
(***************************************************************************)
(* A record as it was written.                                             *)
(***************************************************************************)

Words == Halfwords \X Halfwords

\* Where the held item is, in halfwords.
HeldAt(p) == (GrowthAt(OrderIndex(p)) - 1) * 6 + 2

LEMMA HeldAtIs ==
    ASSUME NEW p \in Words
    PROVE  /\ HeldAt(p) \in 1..24 /\ HeldAt(p) % 6 = 2
           /\ ((HeldAt(p) - 1) \div 6) + 1 = GrowthAt(OrderIndex(p))
<1>1. GrowthAt(OrderIndex(p)) \in {1, 2, 3, 4}
  BY DEF GrowthAt
<1> QED
  BY <1>1 DEF HeldAt

LEMMA PlainIs ==
    ASSUME NEW p \in Words, NEW held \in Halfwords, NEW filler \in Halfwords
    PROVE  /\ \A i \in 1..24 : Plain(p, held, filler)[i] \in Halfwords
           /\ Plain(p, held, filler)[HeldAt(p)] = held
<1> DEFINE n == (p[1] + p[2] * (HALF % 24)) % 24
           order == NthOrder(n)
<1>1. n = OrderIndex(p) /\ n \in Nat /\ n < 24
  BY OrderIndexIs DEF Words
<1>2. \A i \in 1..4 : order[i] = "G" <=> i = GrowthAt(n)
  BY <1>1, ReferenceGrowth
<1>3. \A i \in 1..24 : Plain(p, held, filler)[i] =
          IF order[((i - 1) \div 6) + 1] = "G" /\ i % 6 = 2 THEN held ELSE (filler + i) % HALF
  BY DEF Plain
<1> HIDE DEF n, order
<1>4. \A i \in 1..24 : (filler + i) % HALF \in Halfwords
  <2> TAKE i \in 1..24
  <2>1. filler + i \in Nat
    BY HalfwordsAre
  <2>2. (filler + i) % 65536 \in Nat /\ (filler + i) % 65536 < 65536
    BY <2>1
  <2> QED
    BY <2>2, HalfwordsAre DEF HALF
<1>5. GrowthAt(n) \in 1..4
  BY DEF GrowthAt
<1>6. order[((HeldAt(p) - 1) \div 6) + 1] = "G"
  BY <1>1, <1>2, <1>5, HeldAtIs
<1> QED
  BY <1>3, <1>4, <1>6, HeldAtIs

LEMMA EncodeFields ==
    ASSUME NEW p, NEW t, NEW held, NEW filler
    PROVE  /\ Encode(p, t, held, filler).personality = p
           /\ Encode(p, t, held, filler).trainer_id = t
           /\ Encode(p, t, held, filler).checksum = Total(Plain(p, held, filler)) % HALF
BY DEF Encode, Total

LEMMA KeyIs ==
    ASSUME NEW p \in Words, NEW t \in Words, NEW held, NEW filler, NEW i \in 1..24
    PROVE  LET k == <<Xor(p[1], t[1]), Xor(p[2], t[2])>>[IF i % 2 = 1 THEN 1 ELSE 2]
           IN  k = Key(Encode(p, t, held, filler), i) /\ k \in Halfwords
<1> DEFINE r == Encode(p, t, held, filler)
           key == <<Xor(p[1], t[1]), Xor(p[2], t[2])>>
<1>1. /\ p[1] \in Halfwords /\ p[2] \in Halfwords /\ t[1] \in Halfwords /\ t[2] \in Halfwords
  BY DEF Words
<1>2. key[1] = Xor(p[1], t[1]) /\ key[2] = Xor(p[2], t[2]) /\ key[1] \in Halfwords /\ key[2] \in Halfwords
  BY <1>1, XorHalfwords
<1>3. Key(r, i) = Xor(p[2 - (i % 2)], t[2 - (i % 2)])
  BY EncodeFields DEF Key
<1>4. (i % 2 = 1 /\ 2 - (i % 2) = 1) \/ (i % 2 = 0 /\ 2 - (i % 2) = 2)
  OBVIOUS
<1> QED
  BY <1>2, <1>3, <1>4

LEMMA EncodeSecure ==
    ASSUME NEW p \in Words, NEW t \in Words, NEW held, NEW filler, NEW i \in 1..24
    PROVE  /\ Key(Encode(p, t, held, filler), i) \in Halfwords
           /\ Encode(p, t, held, filler).secure[i]
                  = Xor(Plain(p, held, filler)[i], Key(Encode(p, t, held, filler), i))
<1> DEFINE key == <<Xor(p[1], t[1]), Xor(p[2], t[2])>>[IF i % 2 = 1 THEN 1 ELSE 2]
<1>1. Encode(p, t, held, filler).secure[i] = Xor(Plain(p, held, filler)[i], key)
  BY DEF Encode
<1>2. key = Key(Encode(p, t, held, filler), i) /\ key \in Halfwords
  BY KeyIs
<1> HIDE DEF key
<1> QED
  BY <1>1, <1>2

\* The key undoes itself, so the class reads what was written.
LEMMA DecryptsWhatWasWritten ==
    ASSUME NEW p \in Words, NEW t \in Words, NEW held \in Halfwords, NEW filler \in Halfwords
    PROVE  \A i \in 1..24 : DecryptedSecure(Encode(p, t, held, filler))[i] = Plain(p, held, filler)[i]
<1> TAKE i \in 1..24
<1> DEFINE r == Encode(p, t, held, filler)
           x == Plain(p, held, filler)[i]
<1>1. Key(r, i) \in Halfwords /\ r.secure[i] = Xor(x, Key(r, i))
  BY EncodeSecure
<1>2. x \in Halfwords
  BY PlainIs
<1>3. DecryptedSecure(r)[i] = Xor(r.secure[i], Key(r, i))
  BY DEF DecryptedSecure
<1> HIDE DEF r, x
<1>4. Xor(Xor(x, Key(r, i)), Key(r, i)) = x
  BY <1>1, <1>2, XorHalfwords
<1>5. DecryptedSecure(r)[i] = x
  BY <1>1, <1>3, <1>4
<1> QED
  BY <1>5 DEF r, x

LEMMA HeldItemIsWhatWasWritten ==
    ASSUME NEW p \in Words, NEW t \in Words, NEW held \in Halfwords, NEW filler \in Halfwords
    PROVE  HeldItem(Encode(p, t, held, filler)) = held
<1> DEFINE r == Encode(p, t, held, filler)
           n == OrderIndex(p)
           growth == CHOOSE i \in 1..4 : SUBSTRUCT_ORDERS[n + 1][i] = "G"
<1>1. r.personality = p
  BY EncodeFields
<1>2. HeldItem(r) = DecryptedSecure(r)[(growth - 1) * 6 + 2]
  BY <1>1 DEF HeldItem
<1>3. n \in Nat /\ n < 24
  BY OrderIndexIs DEF Words
<1>4. \A i \in 1..4 : SUBSTRUCT_ORDERS[n + 1][i] = "G" <=> i = GrowthAt(n)
  BY <1>3, TableGrowth
<1>5. GrowthAt(n) \in 1..4
  BY DEF GrowthAt
<1>6. growth = GrowthAt(n)
  BY <1>4, <1>5
<1>7. (growth - 1) * 6 + 2 = HeldAt(p)
  BY <1>6 DEF HeldAt
<1>8. DecryptedSecure(r)[HeldAt(p)] = Plain(p, held, filler)[HeldAt(p)]
  BY HeldAtIs, DecryptsWhatWasWritten
<1>9. Plain(p, held, filler)[HeldAt(p)] = held
  BY PlainIs
<1> QED
  BY <1>2, <1>7, <1>8, <1>9

LEMMA WrittenIsValid ==
    ASSUME NEW p \in Words, NEW t \in Words, NEW held \in Halfwords, NEW filler \in Halfwords
    PROVE  ChecksumValid(Encode(p, t, held, filler))
<1> DEFINE r == Encode(p, t, held, filler)
           plain == Plain(p, held, filler)
           read == DecryptedSecure(r)
<1>1. r.checksum = Total(plain) % HALF
  BY EncodeFields
<1>2. \A i \in 1..24 : plain[i] \in Nat
  BY PlainIs, HalfwordsAre
<1>3. read = [i \in 1..24 |-> plain[i]]
  <2>1. \A i \in 1..24 : read[i] = plain[i]
    BY DecryptsWhatWasWritten
  <2>2. read = [i \in 1..24 |-> read[i]]
    BY DEF DecryptedSecure
  <2> HIDE DEF read, plain
  <2> QED
    BY <2>1, <2>2
<1>4. plain = [i \in 1..24 |-> plain[i]]
  BY DEF Plain
<1>5. Checksum(plain) = Total(plain) % HALF
  BY <1>2, ChecksumIs
<1> QED
  BY <1>1, <1>3, <1>4, <1>5, Zenon DEF ChecksumValid

LEMMA DamagedIsNotValid ==
    ASSUME NEW p \in Words, NEW t \in Words, NEW held \in Halfwords, NEW filler \in Halfwords,
           NEW i \in 1..24, NEW mask \in Halfwords \ {0}
    PROVE  ~ChecksumValid([Encode(p, t, held, filler) EXCEPT !.secure[i] = Xor(@, mask)])
<1> DEFINE r == Encode(p, t, held, filler)
           d == [r EXCEPT !.secure[i] = Xor(@, mask)]
           plain == Plain(p, held, filler)
           was == DecryptedSecure(r)
           read == DecryptedSecure(d)
<1>1. \A j \in 1..24 : Key(r, j) \in Halfwords /\ r.secure[j] = Xor(plain[j], Key(r, j))
  BY EncodeSecure
<1>2. \A j \in 1..24 : was[j] = plain[j] /\ plain[j] \in Halfwords
  <2>1. \A j \in 1..24 : was[j] = plain[j]
    BY DecryptsWhatWasWritten
  <2>2. \A j \in 1..24 : plain[j] \in Halfwords
    BY PlainIs
  <2> HIDE DEF was, plain
  <2> QED
    BY <2>1, <2>2
<1>3. /\ d.personality = r.personality /\ d.trainer_id = r.trainer_id /\ d.checksum = r.checksum
      /\ d.secure[i] = Xor(r.secure[i], mask)
      /\ \A j \in 1..24 : j # i => d.secure[j] = r.secure[j]
  BY DEF Encode
<1> HIDE DEF r, plain, d
<1>4. \A j \in 1..24 : Key(d, j) = Key(r, j)
  BY <1>3 DEF Key
<1>5. /\ \A j \in 1..24 : was[j] = Xor(r.secure[j], Key(r, j))
      /\ \A j \in 1..24 : read[j] = Xor(d.secure[j], Key(d, j))
  BY DEF DecryptedSecure
<1> HIDE DEF was, read
<1>6. read[i] = Xor(Xor(Xor(plain[i], Key(r, i)), mask), Key(r, i))
  BY <1>1, <1>3, <1>4, <1>5
<1>7. read[i] \in Halfwords \ {plain[i]}
  BY <1>1, <1>2, <1>6, DamageShows
<1>8. \A j \in 1..24 : j # i => read[j] = was[j]
  BY <1>3, <1>4, <1>5
<1>9. \A j \in 1..24 : was[j] \in Halfwords /\ read[j] \in Halfwords
  BY <1>2, <1>7, <1>8
<1>10. read[i] # was[i]
  BY <1>2, <1>7
<1>11. Checksum(read) # Checksum(was)
  BY <1>8, <1>9, <1>10, ChecksumShows
<1>12. Checksum(was) = r.checksum
  BY WrittenIsValid DEF r, was, ChecksumValid
<1>13. ~ChecksumValid(d)
  BY <1>3, <1>11, <1>12 DEF ChecksumValid, read
<1> QED
  BY <1>13 DEF d, r

----------------------------------------------------------------------------
(***************************************************************************)
(* The theorems.                                                           *)
(***************************************************************************)

\* The record is what a game wrote, but for the one halfword that was damaged.
RecordInvariant ==
    /\ item \in Items /\ damaged \in BOOLEAN
    /\ \E p \in Personalities, t \in TrainerIds, filler \in Fillers :
           \/ ~damaged /\ raw = Encode(p, t, item, filler)
           \/ /\ damaged
              /\ \E i \in 1..24, mask \in Masks :
                     raw = [Encode(p, t, item, filler) EXCEPT !.secure[i] = Xor(@, mask)]

LEMMA ContentIsHalfwords ==
    /\ Personalities \subseteq Words /\ TrainerIds \subseteq Words
    /\ Items \subseteq Halfwords /\ Fillers \subseteq Halfwords
    /\ Masks \subseteq Halfwords \ {0}
BY WordsAssumption, ContentAssumption, MasksAssumption DEF Words

LEMMA RecordIsInvariant == Spec => []RecordInvariant
<1>1. Init => RecordInvariant
  BY DEF Init, RecordInvariant
<1>2. RecordInvariant /\ [Next]_vars => RecordInvariant'
  <2> SUFFICES ASSUME RecordInvariant, [Next]_vars PROVE RecordInvariant'
    OBVIOUS
  <2>1. ASSUME NEW i \in 1..24, NEW mask \in Masks, Damage(i, mask) PROVE RecordInvariant'
    BY <2>1 DEF RecordInvariant, Damage
  <2>2. CASE UNCHANGED vars
    BY <2>2 DEF RecordInvariant, vars
  <2> QED
    BY <2>1, <2>2 DEF Next
<1> QED
  BY <1>1, <1>2, PTL DEF Spec

\* Pokemon100.held_item returns the item a game wrote, for every personality,
\* trainer id, item and content of the other halfwords, and refuse_mail refuses
\* exactly the items 121 to 132: the exclusive or with the key undoes itself,
\* and the table of the 24 orders has G where the n-th permutation has it.
THEOREM MailIsAlwaysFound == Spec => []MailIsFound
<1>1. RecordInvariant => MailIsFound
  <2> SUFFICES ASSUME RecordInvariant, ~damaged
               PROVE  HeldItem(raw) = item /\ (HoldsMail(raw) <=> item \in 121..132)
    BY DEF MailIsFound
  <2>1. PICK p \in Personalities, t \in TrainerIds, filler \in Fillers : raw = Encode(p, t, item, filler)
    BY DEF RecordInvariant
  <2>2. item \in Items
    BY DEF RecordInvariant
  <2>3. HeldItem(raw) = item
    BY <2>1, <2>2, ContentIsHalfwords, HeldItemIsWhatWasWritten
  <2> QED
    BY <2>3 DEF HoldsMail, MAIL_ITEM_MIN, MAIL_ITEM_MAX
<1> QED
  BY <1>1, RecordIsInvariant, PTL

\* Pokemon100.checksum_valid accepts every record a game wrote and refuses it
\* when any bits of one halfword of its secure part are turned over: the sum
\* changes by less than 65536.
THEOREM DamageIsAlwaysNoticed == Spec => []DamageIsNoticed
<1>1. RecordInvariant => DamageIsNoticed
  <2> SUFFICES ASSUME RecordInvariant PROVE ChecksumValid(raw) <=> ~damaged
    BY DEF DamageIsNoticed
  <2>1. item \in Items
    BY DEF RecordInvariant
  <2>2. CASE ~damaged
    <3>1. PICK p \in Personalities, t \in TrainerIds, filler \in Fillers : raw = Encode(p, t, item, filler)
      BY <2>2 DEF RecordInvariant
    <3> QED
      BY <2>1, <2>2, <3>1, ContentIsHalfwords, WrittenIsValid
  <2>3. CASE damaged
    <3>1. PICK p \in Personalities, t \in TrainerIds, filler \in Fillers, i \in 1..24, mask \in Masks :
              raw = [Encode(p, t, item, filler) EXCEPT !.secure[i] = Xor(@, mask)]
      BY <2>3 DEF RecordInvariant
    <3> QED
      BY <2>1, <2>3, <3>1, ContentIsHalfwords, DamagedIsNotValid
  <2> QED
    BY <2>2, <2>3
<1> QED
  BY <1>1, RecordIsInvariant, PTL

=============================================================================
