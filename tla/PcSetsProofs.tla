---------------------------- MODULE PcSetsProofs ----------------------------
(***************************************************************************)
(* Sets in longs and bytes have the elements that set theory gives them,   *)
(* for every size of bytes, longs and ints and every base type.            *)
(***************************************************************************)
EXTENDS PcSets, TLAPS, SequenceTheorems, FiniteSetTheorems, WellFoundedInduction

-----------------------------------------------------------------------------
(* Division. *)

\* Quotient and remainder.
LEMMA Division ==
  ASSUME NEW a \in Int, NEW m \in Int, m > 0
  PROVE  /\ a \div m \in Int
         /\ a % m \in 0..(m - 1)
         /\ a = m * (a \div m) + (a % m)
  BY Z3

\* A larger quotient is larger by at least the divisor.
LEMMA Apart ==
  ASSUME NEW p \in Int, NEW q \in Int, NEW m \in Int, m > 0, p < q
  PROVE  m * p + m <= m * q
<1>1. m * (q - p - 1) >= 0
  BY Z3
<1>2. m * (q - p - 1) = m * q - m * p - m
  BY Z3
<1> QED
  BY <1>1, <1>2, Z3

\* There is one way to divide.
LEMMA OneWay ==
  ASSUME NEW m \in Int, m > 0,
         NEW q \in Int, NEW r \in 0..(m - 1), NEW a \in Int, a = m * q + r
  PROVE  a \div m = q /\ a % m = r
<1> DEFINE d == a \div m
           e == a % m
<1>1. d \in Int /\ e \in 0..(m - 1) /\ a = m * d + e
  BY Division
<1> HIDE DEF d, e
<1>2. ~(d < q)
  BY <1>1, Apart
<1>3. ~(q < d)
  BY <1>1, Apart
<1>4. d = q
  BY <1>1, <1>2, <1>3
<1> QED
  BY <1>1, <1>4 DEF d, e

\* Quotients of what is not negative.
LEMMA Quotient ==
  ASSUME NEW a \in Nat, NEW m \in Int, m > 0
  PROVE  a \div m \in Nat /\ a \div m <= a
<1> DEFINE d == a \div m
           e == a % m
<1>1. d \in Int /\ e \in 0..(m - 1) /\ a = m * d + e
  BY Division
<1> HIDE DEF d, e
<1>2. ~(d < 0)
  <2> SUFFICES ASSUME d < 0 PROVE FALSE
    OBVIOUS
  <2>1. m * d + m <= m * 0
    BY <1>1, Apart
  <2> QED
    BY <1>1, <2>1
<1>3. d <= m * d
  <2>1. (m - 1) * d >= 0
    BY <1>1, <1>2, Z3
  <2>2. (m - 1) * d = m * d - d
    BY <1>1, Z3
  <2> QED
    BY <1>1, <2>1, <2>2
<1> QED
  BY <1>1, <1>2, <1>3 DEF d

\* The order of numbers is that of quotients, then remainders.
LEMMA InOrder ==
  ASSUME NEW a \in Int, NEW b \in Int, NEW m \in Int, m > 0
  PROVE  a <= b <=> \/ a \div m < b \div m
                    \/ a \div m = b \div m /\ a % m <= b % m
<1> DEFINE p == a \div m
           q == b \div m
           r == a % m
           s == b % m
<1>1. p \in Int /\ r \in 0..(m - 1) /\ a = m * p + r
  BY Division
<1>2. q \in Int /\ s \in 0..(m - 1) /\ b = m * q + s
  BY Division
<1> SUFFICES a <= b <=> p < q \/ (p = q /\ r <= s)
  OBVIOUS
<1> HIDE DEF p, q, r, s
<1>3. CASE p < q
  <2>1. m * p + m <= m * q
    BY <1>1, <1>2, <1>3, Apart
  <2> QED
    BY <1>1, <1>2, <1>3, <2>1
<1>4. CASE p = q
  BY <1>1, <1>2, <1>4
<1>5. CASE q < p
  <2>1. m * q + m <= m * p
    BY <1>1, <1>2, <1>5, Apart
  <2> QED
    BY <1>1, <1>2, <1>5, <2>1
<1> QED
  BY <1>1, <1>2, <1>3, <1>4, <1>5

\* Dividing by a product is dividing twice.
LEMMA Twice ==
  ASSUME NEW a \in Int, NEW m \in Int, m > 0, NEW n \in Int, n > 0
  PROVE  /\ a \div (m * n) = (a \div m) \div n
         /\ a % (m * n) = ((a \div m) % n) * m + (a % m)
<1> DEFINE p == a \div m
           r == a % m
           q == p \div n
           s == p % n
<1>1. p \in Int /\ r \in 0..(m - 1) /\ a = m * p + r
  BY Division
<1>2. q \in Int /\ s \in 0..(n - 1) /\ p = n * q + s
  BY <1>1, Division
<1> HIDE DEF p, q, r, s
<1>3. m * n \in Int /\ m * n > 0
  BY Z3
<1>4. a = (m * n) * q + (s * m + r)
  <2>1. m * (n * q + s) = (m * n) * q + s * m
    BY <1>2, Z3
  <2>2. m * p = (m * n) * q + s * m
    BY <1>2, <2>1
  <2>3. m * p \in Int /\ (m * n) * q \in Int /\ s * m \in Int
    BY <1>1, <1>2, <1>3
  <2> QED
    BY <1>1, <2>2, <2>3
<1>5. s * m + r \in 0..(m * n - 1)
  <2>1. m * s + m <= m * n
    BY <1>2, Apart
  <2>2. s * m = m * s /\ s * m \in Int /\ s * m >= 0
    BY <1>2, Z3
  <2> QED
    BY <1>1, <1>3, <2>1, <2>2
<1> DEFINE k == m * n
           t == s * m + r
<1>6. k \in Int /\ k > 0 /\ t \in 0..(k - 1) /\ a = k * q + t
  BY <1>3, <1>4, <1>5
<1> HIDE DEF k, t
<1>7. a \div k = q /\ a % k = t
  BY <1>2, <1>6, OneWay
<1> QED
  BY <1>7 DEF p, q, r, s, k, t

-----------------------------------------------------------------------------
(* Longs, bytes and bits. *)

\* A set takes the longs up to the one of the last element.
LEMMA Words ==
  /\ BytesPerLong \in Nat /\ BytesPerLong > 0
  /\ BitsPerLong = BitsPerByte * BytesPerLong
  /\ uprbp \div BitsPerLong \in Nat
  /\ Longs = 0..(uprbp \div BitsPerLong)
  /\ Longs = 0..((uprbp + BitsPerLong) \div BitsPerLong - 1)
  /\ width = BytesPerLong * (uprbp \div BitsPerLong + 1)
<1> USE WordAssumption
<1> DEFINE u == uprbp \div BitsPerLong
           p == uprbp \div BitsPerByte
           k == (p + BytesPerLong) \div BytesPerLong
<1>1. BytesPerLong \in Int /\ BitsPerLong = BitsPerByte * BytesPerLong
  BY Division DEF BytesPerLong
<1>2. BytesPerLong > 0
  <2> SUFFICES ASSUME BytesPerLong <= 0 PROVE FALSE
    BY <1>1
  <2>1. BitsPerByte * BytesPerLong <= 0
    BY <1>1, Z3
  <2> QED
    BY <1>1, <2>1
<1>3. u \in Nat /\ p \in Nat
  BY Quotient
<1>4. u = p \div BytesPerLong
  BY <1>1, <1>2, Twice
<1>5. k = u + 1
  <2>1. p % BytesPerLong \in 0..(BytesPerLong - 1) /\ p = BytesPerLong * u + (p % BytesPerLong)
    BY <1>1, <1>2, <1>3, <1>4, Division
  <2>2. BytesPerLong * (u + 1) = BytesPerLong * u + BytesPerLong
    BY <1>1, <1>3, Z3
  <2>3. p + BytesPerLong = BytesPerLong * (u + 1) + (p % BytesPerLong)
    BY <1>1, <1>3, <2>1, <2>2
  <2> QED
    BY <1>1, <1>2, <1>3, <2>1, <2>3, OneWay
<1>6. width = BytesPerLong * (u + 1)
  <2>1. p + 1 + BytesPerLong - 1 = p + BytesPerLong
    BY <1>1, <1>3
  <2>2. k * BytesPerLong = BytesPerLong * (u + 1)
    BY <1>1, <1>3, <1>5, Z3
  <2> QED
    BY <2>1, <2>2 DEF width
<1>7. width \div BytesPerLong = u + 1
  <2>1. width \in Int
    BY <1>1, <1>3, <1>6
  <2>2. width = BytesPerLong * (u + 1) + 0
    BY <1>6, <2>1
  <2>3. 0 \in 0..(BytesPerLong - 1) /\ u + 1 \in Int
    BY <1>1, <1>2, <1>3
  <2> QED
    BY <1>1, <1>2, <2>1, <2>2, <2>3, OneWay
<1>8. (uprbp + BitsPerLong) \div BitsPerLong = u + 1
  <2>1. uprbp % BitsPerLong \in 0..(BitsPerLong - 1) /\ uprbp = BitsPerLong * u + (uprbp % BitsPerLong)
    BY Division
  <2>2. BitsPerLong * (u + 1) = BitsPerLong * u + BitsPerLong
    BY <1>3, Z3
  <2>3. uprbp + BitsPerLong = BitsPerLong * (u + 1) + (uprbp % BitsPerLong)
    BY <1>3, <2>1, <2>2
  <2> QED
    BY <1>3, <2>1, <2>3, OneWay
<1> QED
  BY <1>1, <1>2, <1>3, <1>6, <1>7, <1>8 DEF Longs

\* The bit of a number is found again by division.
LEMMA BitOf ==
  ASSUME NEW w \in Longs, NEW b \in Bit
  PROVE  /\ BitsPerLong * w + b \in Nat
         /\ (BitsPerLong * w + b) \div BitsPerLong = w
         /\ (BitsPerLong * w + b) % BitsPerLong = b
<1>1. w \in Nat /\ b \in 0..(BitsPerLong - 1) /\ BitsPerLong \in Nat /\ BitsPerLong > 0
  BY Words, WordAssumption DEF Bit
<1>2. BitsPerLong * w \in Nat
  BY <1>1, Z3
<1> QED
  BY <1>1, <1>2, OneWay

\* And a number in the set has a long and a bit.
LEMMA PlaceOf ==
  ASSUME NEW i \in 0..uprbp
  PROVE  /\ i \div BitsPerLong \in Longs
         /\ i % BitsPerLong \in Bit
         /\ i = BitsPerLong * (i \div BitsPerLong) + (i % BitsPerLong)
<1> USE WordAssumption
<1>1. i \div BitsPerLong \in Nat
  BY Quotient
<1>2. i \div BitsPerLong <= uprbp \div BitsPerLong
  <2>1. i <= uprbp /\ i \in Int /\ uprbp \in Int
    OBVIOUS
  <2>2. \/ i \div BitsPerLong < uprbp \div BitsPerLong
        \/ i \div BitsPerLong = uprbp \div BitsPerLong
    BY <2>1, InOrder
  <2> QED
    BY <1>1, <2>2, Words
<1>3. i % BitsPerLong \in Bit /\ i = BitsPerLong * (i \div BitsPerLong) + (i % BitsPerLong)
  BY Division DEF Bit
<1> QED
  BY <1>1, <1>2, <1>3, Words

\* What a range ors into a long is the range.
LEMMA RangeIsRange ==
  ASSUME NEW lower \in 0..uprbp, NEW upper \in 0..uprbp, NEW w \in Longs, NEW b \in Bit
  PROVE  b \in RangeBits(lower, upper, w)
           <=> lower <= BitsPerLong * w + b /\ BitsPerLong * w + b <= upper
<1> USE WordAssumption
<1> DEFINE i == BitsPerLong * w + b
           ld == lower \div BitsPerLong
           lm == lower % BitsPerLong
           ud == upper \div BitsPerLong
           um == upper % BitsPerLong
<1>1. i \in Nat /\ i \div BitsPerLong = w /\ i % BitsPerLong = b
  BY BitOf
<1>2. lower <= i <=> ld < w \/ (ld = w /\ lm <= b)
  BY <1>1, InOrder
<1>3. i <= upper <=> w < ud \/ (w = ud /\ b <= um)
  BY <1>1, InOrder
<1>4. /\ ld \in Int /\ ud \in Int /\ w \in Int
      /\ lm \in 0..(BitsPerLong - 1) /\ um \in 0..(BitsPerLong - 1)
  BY Division, Words
<1>5. b \in 0..(BitsPerLong - 1)
  BY DEF Bit
<1>6. b \in RangeBits(lower, upper, w)
        <=> /\ lower <= upper
            /\ ld <= w /\ w <= ud
            /\ (w = ld => lm <= b)
            /\ (w = ud => b <= um)
  BY <1>4, <1>5 DEF RangeBits, mask, Bit
<1> HIDE DEF i, ld, lm, ud, um
<1>7. (ld <= w /\ (w = ld => lm <= b)) <=> lower <= i
  BY <1>2, <1>4, <1>5
<1>8. (w <= ud /\ (w = ud => b <= um)) <=> i <= upper
  BY <1>3, <1>4, <1>5
<1>9. lower <= i /\ i <= upper => lower <= upper
  BY <1>1
<1>10. b \in RangeBits(lower, upper, w) <=> lower <= i /\ i <= upper
  BY <1>6, <1>7, <1>8, <1>9
<1> QED
  BY <1>10 DEF i

\* A single value sets its own bit.
LEMMA SingleIsSingle ==
  ASSUME NEW lower \in 0..uprbp, NEW w \in Longs, NEW b \in Bit
  PROVE  b \in SingleBits(lower, w) <=> lower = BitsPerLong * w + b
<1> USE WordAssumption
<1>1. /\ lower \div BitsPerLong = (lower \div BitsPerByte) \div BytesPerLong
      /\ lower % BitsPerLong = ((lower \div BitsPerByte) % BytesPerLong) * BitsPerByte
                                + (lower % BitsPerByte)
  <2>1. BytesPerLong \in Int /\ BytesPerLong > 0 /\ lower \in Int
    BY Words
  <2>2. /\ lower \div (BitsPerByte * BytesPerLong) = (lower \div BitsPerByte) \div BytesPerLong
        /\ lower % (BitsPerByte * BytesPerLong)
             = ((lower \div BitsPerByte) % BytesPerLong) * BitsPerByte + (lower % BitsPerByte)
    BY <2>1, Twice
  <2>3. BitsPerLong = BitsPerByte * BytesPerLong
    BY Words
  <2> QED
    BY <2>2, <2>3
<1>2. b \in SingleBits(lower, w) <=> lower \div BitsPerLong = w /\ lower % BitsPerLong = b
  BY <1>1 DEF SingleBits
<1>3. lower = BitsPerLong * (lower \div BitsPerLong) + (lower % BitsPerLong)
  BY PlaceOf
<1> QED
  BY <1>2, <1>3, BitOf
-----------------------------------------------------------------------------
(* Sets in longs. *)

Base == lwrb..(lwrb + uprbp)

\* Longs whose bits behind the last element are off.
Rep == { s \in [Longs -> SUBSET Bit] :
           \A w \in Longs : \A b \in s[w] : BitsPerLong * w + b <= uprbp }

\* Which elements a bit and its long stand for.
LEMMA ElementOf ==
  ASSUME NEW s \in Rep, NEW w \in Longs, NEW b \in Bit
  PROVE  b \in s[w] <=> lwrb + (BitsPerLong * w + b) \in Elements(s)
<1> DEFINE i == BitsPerLong * w + b
           x == lwrb + i
<1>1. i \in Nat /\ i \div BitsPerLong = w /\ i % BitsPerLong = b
  BY BitOf
<1>2. lwrb \in Int /\ uprbp \in Nat
  BY WordAssumption DEF Value
<1>3. b \in s[w] => i <= uprbp
  BY DEF Rep
<1> HIDE DEF i
<1>4. x - lwrb = i
  BY <1>1, <1>2
<1>5. x \in Elements(s) <=> x \in lwrb..(lwrb + uprbp) /\ b \in s[w]
  BY <1>1, <1>4 DEF Elements
<1>6. i <= uprbp => x \in lwrb..(lwrb + uprbp)
  BY <1>1, <1>2
<1> QED
  BY <1>3, <1>5, <1>6 DEF i

\* A set is inside another one exactly when all of its longs are.
LEMMA LongByLong ==
  ASSUME NEW l \in Rep, NEW r \in Rep
  PROVE  (\A w \in Longs : l[w] \subseteq r[w]) <=> Elements(l) \subseteq Elements(r)
<1>1. ASSUME \A w \in Longs : l[w] \subseteq r[w], NEW x \in Elements(l)
      PROVE  x \in Elements(r)
  <2>1. x - lwrb \in 0..uprbp
    BY WordAssumption DEF Elements, Value
  <2> QED
    BY <1>1, <2>1, PlaceOf DEF Elements
<1>2. ASSUME Elements(l) \subseteq Elements(r), NEW w \in Longs, NEW b \in l[w]
      PROVE  b \in r[w]
  <2>1. b \in Bit
    BY DEF Rep
  <2> QED
    BY <1>2, <2>1, ElementOf
<1> QED
  BY <1>1, <1>2

\* The relations (RELTLE.c, RELTLT.c).
LEMMA SubsetIsSubset ==
  ASSUME NEW l \in Rep, NEW r \in Rep
  PROVE  RELTLE(l, r) <=> Elements(l) \subseteq Elements(r)
<1>1. RELTLE(l, r) <=> \A w \in Longs : l[w] \subseteq r[w]
  BY DEF RELTLE, Rep
<1> QED
  BY <1>1, LongByLong

\* < and > are proper inclusion.
LEMMA ProperIsProper ==
  ASSUME NEW l \in Rep, NEW r \in Rep
  PROVE  RELTLT(l, r) <=> Elements(l) \subseteq Elements(r) /\ Elements(l) # Elements(r)
<1>1. RELTLT(l, r) <=> RELTLE(l, r) /\ ~RELTLE(r, l)
  BY DEF RELTLT, RELTLE
<1> QED
  BY <1>1, SubsetIsSubset

\* Equality, from byte to byte (RELEQ.c).
LEMMA EqualIsEqual ==
  ASSUME NEW l \in Rep, NEW r \in Rep
  PROVE  RELEQ(l, r) <=> Elements(l) = Elements(r)
<1> USE WordAssumption
<1>1. ASSUME RELEQ(l, r), NEW w \in Longs, NEW b \in Bit
      PROVE  b \in l[w] <=> b \in r[w]
  <2> DEFINE d == b \div BitsPerByte
             e == b % BitsPerByte
             n == BytesPerLong * w + d
  <2>1. d \in Int /\ e \in 0..(BitsPerByte - 1) /\ b = BitsPerByte * d + e /\ b \in 0..(BitsPerLong - 1)
    BY Division DEF Bit
  <2>2. d \in Nat
    BY <2>1, Quotient
  <2>3. BytesPerLong \in Nat /\ BytesPerLong > 0 /\ BitsPerLong = BitsPerByte * BytesPerLong
    BY Words
  <2> HIDE DEF d, e
  <2>4. d < BytesPerLong
    <3> SUFFICES ASSUME BytesPerLong - 1 < d PROVE FALSE
      BY <2>2, <2>3
    <3>1. BitsPerByte * (BytesPerLong - 1) + BitsPerByte <= BitsPerByte * d
      BY <2>1, <2>3, Apart
    <3>2. BitsPerByte * (BytesPerLong - 1) + BitsPerByte = BitsPerByte * BytesPerLong
      BY <2>3, Z3
    <3> QED
      BY <2>1, <2>2, <2>3, <3>1, <3>2
  <2>5. w \in Nat /\ w <= uprbp \div BitsPerLong /\ uprbp \div BitsPerLong \in Nat
    BY Words
  <2>6. BytesPerLong * w \in Nat
    BY <2>3, <2>5, Z3
  <2>7. n \in Nat /\ n \div BytesPerLong = w /\ n % BytesPerLong = d
    BY <2>2, <2>3, <2>4, <2>5, <2>6, OneWay
  <2>8. n \in 0..(width - 1)
    <3>1. BytesPerLong * w + BytesPerLong <= BytesPerLong * (uprbp \div BitsPerLong + 1)
      BY <2>3, <2>5, Apart
    <3> QED
      BY <2>2, <2>3, <2>4, <2>6, <2>7, <3>1, Words
  <2> HIDE DEF n
  <2>9. e \in Byte(l, n) <=> e \in Byte(r, n)
    BY <1>1, <2>8 DEF RELEQ
  <2>10. d * BitsPerByte + e = b
    BY <2>1, Z3
  <2> QED
    BY <2>1, <2>7, <2>9, <2>10 DEF Byte
<1>2. ASSUME RELEQ(l, r) PROVE l = r
  <2>1. \A w \in Longs : l[w] = r[w]
    BY <1>1, <1>2 DEF Rep
  <2> QED
    BY <2>1 DEF Rep
<1>3. ASSUME Elements(l) = Elements(r) PROVE l = r
  <2>1. \A w \in Longs : l[w] = r[w]
    BY <1>3, LongByLong
  <2> QED
    BY <2>1 DEF Rep
<1> QED
  BY <1>2, <1>3 DEF RELEQ

\* The operators (ADDT.c, SUBT.c, MULT.c).
LEMMA OperatorsAreOperators ==
  ASSUME NEW l \in Rep, NEW r \in Rep
  PROVE  /\ ADDT(l, r) \in Rep /\ Elements(ADDT(l, r)) = Elements(l) \cup Elements(r)
         /\ SUBT(l, r) \in Rep /\ Elements(SUBT(l, r)) = Elements(l) \ Elements(r)
         /\ MULT(l, r) \in Rep /\ Elements(MULT(l, r)) = Elements(l) \cap Elements(r)
<1>1. ADDT(l, r) \in Rep /\ SUBT(l, r) \in Rep /\ MULT(l, r) \in Rep
  BY DEF Rep, ADDT, SUBT, MULT
<1>2. ASSUME NEW x \in lwrb..(lwrb + uprbp)
      PROVE  /\ x \in Elements(ADDT(l, r)) <=> x \in Elements(l) \/ x \in Elements(r)
             /\ x \in Elements(SUBT(l, r)) <=> x \in Elements(l) /\ x \notin Elements(r)
             /\ x \in Elements(MULT(l, r)) <=> x \in Elements(l) /\ x \in Elements(r)
  <2> DEFINE w == (x - lwrb) \div BitsPerLong
             b == (x - lwrb) % BitsPerLong
  <2>1. x - lwrb \in 0..uprbp
    BY WordAssumption DEF Value
  <2>2. w \in Longs /\ b \in Bit
    BY <2>1, PlaceOf
  <2>3. \A s : x \in Elements(s) <=> b \in s[w]
    BY DEF Elements
  <2> HIDE DEF w, b
  <2> QED
    BY <2>2, <2>3 DEF ADDT, SUBT, MULT
<1>3. \A s : Elements(s) \subseteq lwrb..(lwrb + uprbp)
  BY DEF Elements
<1> QED
  BY <1>1, <1>2, <1>3
-----------------------------------------------------------------------------
(* Bounds in ints that wrap around. *)

\* The distance of a value from the lower bound is right when it is in the set,
\* and out of bounds when it is not.
LEMMA DistanceOf ==
  ASSUME NEW x \in Value
  PROVE  /\ InSet(x) => int(x - lwrb) = x - lwrb
         /\ Outside(x) <=> ~InSet(x)
         /\ int(x - lwrb) \in Int
         /\ InSet(x) <=> x \in Base
<1> DEFINE h == MaxInt + 1
           m == 2 * h
           a == x - lwrb + h
<1>1. /\ h \in Nat /\ h > 0 /\ m \in Int /\ m > 0 /\ a \in Int
      /\ x \in -h..(h - 1) /\ lwrb \in -h..(h - 1) /\ uprbp \in 0..(h - 1)
      /\ lwrb + uprbp < h
  BY WordAssumption DEF Value
<1>2. int(x - lwrb) = (a % m) - h
  <2>1. x - lwrb + MaxInt + 1 = a
    BY <1>1, WordAssumption
  <2> QED
    BY <2>1 DEF int
<1> HIDE DEF m, a
<1>3. CASE x - lwrb \in -h..(h - 1)
  <2>1. a \in 0..(m - 1) /\ a = m * 0 + a
    BY <1>1, <1>3 DEF m, a
  <2>2. a % m = a
    BY <1>1, <2>1, OneWay
  <2>3. int(x - lwrb) = x - lwrb
    BY <1>1, <1>2, <2>2 DEF a
  <2> HIDE DEF h
  <2> QED
    BY <1>1, <2>3 DEF Outside, InSet, Base
<1>4. CASE x - lwrb >= h
  <2>1. a - m \in 0..(m - 1) /\ a = m * 1 + (a - m)
    BY <1>1, <1>4 DEF m, a
  <2>2. a % m = a - m
    BY <1>1, <2>1, OneWay
  <2>3. int(x - lwrb) = x - lwrb - m /\ x - lwrb - m < 0
    BY <1>1, <1>2, <2>2 DEF a, m
  <2>4. ~InSet(x)
    BY <1>1, <1>4 DEF InSet
  <2> HIDE DEF h
  <2> QED
    BY <1>1, <2>3, <2>4 DEF Outside, InSet, Base
<1>5. CASE x - lwrb < -h
  <2>1. a + m \in 0..(m - 1) /\ a = m * (-1) + (a + m)
    BY <1>1, <1>5 DEF m, a
  <2>2. a % m = a + m
    BY <1>1, <2>1, OneWay
  <2>3. int(x - lwrb) = x - lwrb + m /\ x - lwrb + m > uprbp
    BY <1>1, <1>2, <2>2 DEF a, m
  <2>4. ~InSet(x)
    BY <1>1, <1>5 DEF InSet
  <2> HIDE DEF h
  <2> QED
    BY <1>1, <2>3, <2>4 DEF Outside, InSet, Base
<1> QED
  BY <1>1, <1>3, <1>4, <1>5

\* The byte and the bit of an element.
LEMMA ByteOf ==
  ASSUME NEW s, NEW i \in 0..uprbp
  PROVE  lwrb + i \in Elements(s) <=> i % BitsPerByte \in Byte(s, i \div BitsPerByte)
<1> USE WordAssumption
<1>1. BytesPerLong \in Int /\ BytesPerLong > 0 /\ BitsPerLong = BitsPerByte * BytesPerLong
  BY Words
<1>2. i % BitsPerByte \in 0..(BitsPerByte - 1)
  BY Division
<1>3. /\ i \div (BitsPerByte * BytesPerLong) = (i \div BitsPerByte) \div BytesPerLong
      /\ i % (BitsPerByte * BytesPerLong)
           = ((i \div BitsPerByte) % BytesPerLong) * BitsPerByte + (i % BitsPerByte)
  BY <1>1, Twice
<1>4. i % BitsPerByte \in Byte(s, i \div BitsPerByte)
        <=> ((i \div BitsPerByte) % BytesPerLong) * BitsPerByte + (i % BitsPerByte)
              \in s[(i \div BitsPerByte) \div BytesPerLong]
  BY <1>2 DEF Byte
<1>5. lwrb \in Int /\ (lwrb + i) - lwrb = i /\ lwrb + i \in lwrb..(lwrb + uprbp)
  BY DEF Value
<1>6. lwrb + i \in Elements(s) <=> i % BitsPerLong \in s[i \div BitsPerLong]
  BY <1>5 DEF Elements
<1> QED
  BY <1>1, <1>3, <1>4, <1>6

\* Membership in a set in memory (IN.c).
LEMMA InIsIn ==
  ASSUME NEW s \in Rep, NEW x \in Value
  PROVE  In(x, s) <=> x \in Elements(s)
<1> USE WordAssumption
<1>1. CASE ~InSet(x)
  BY <1>1, DistanceOf DEF In, Outside, Elements, Base
<1>2. CASE InSet(x)
  <2> DEFINE i == x - lwrb
  <2>1. i \in 0..uprbp /\ x \in lwrb..(lwrb + uprbp) /\ int(x - lwrb) = i
    BY <1>2, DistanceOf DEF InSet, Value, Base
  <2> HIDE DEF i
  <2>2. In(x, s) <=> i % BitsPerByte \in Byte(s, i \div BitsPerByte)
    BY <2>1 DEF In
  <2>3. x = lwrb + i
    BY <2>1 DEF i, Value
  <2> QED
    BY <2>1, <2>2, <2>3, ByteOf
<1> QED
  BY <1>1, <1>2

-----------------------------------------------------------------------------
(* card. *)

\* The elements that the first k bytes hold.
Low(s, k) == { x \in Elements(s) : x - lwrb < BitsPerByte * k }
ByteElements(s, k) == { x \in Elements(s) : (x - lwrb) \div BitsPerByte = k }

\* No byte has bits behind the last element.
LEMMA ByteWithin ==
  ASSUME NEW s \in Rep, NEW k \in 0..(width - 1), NEW b \in Byte(s, k)
  PROVE  /\ b \in 0..(BitsPerByte - 1)
         /\ BitsPerByte * k + b \in 0..uprbp
         /\ (BitsPerByte * k + b) \div BitsPerByte = k
         /\ (BitsPerByte * k + b) % BitsPerByte = b
<1> USE WordAssumption
<1> DEFINE w == k \div BytesPerLong
           r == k % BytesPerLong
<1>1. BytesPerLong \in Nat /\ BytesPerLong > 0 /\ BitsPerLong = BitsPerByte * BytesPerLong
  BY Words
<1>2. k \in Nat /\ uprbp \div BitsPerLong \in Nat
      /\ width = BytesPerLong * (uprbp \div BitsPerLong + 1) /\ k < width
  <2>1. uprbp \div BitsPerLong \in Nat /\ width = BytesPerLong * (uprbp \div BitsPerLong + 1)
    BY Words
  <2>2. width \in Int
    BY <1>1, <2>1, Z3
  <2> QED
    BY <2>1, <2>2
<1>3. w \in Nat /\ r \in 0..(BytesPerLong - 1) /\ k = BytesPerLong * w + r
  BY <1>1, <1>2, Division, Quotient
<1>4. b \in 0..(BitsPerByte - 1) /\ r * BitsPerByte + b \in s[w]
  BY DEF Byte
<1> HIDE DEF w, r
<1>5. w \in Longs
  <2> DEFINE u == uprbp \div BitsPerLong
  <2>1. SUFFICES ASSUME u < w PROVE FALSE
    BY <1>2, <1>3, Words
  <2> HIDE DEF u
  <2>2. u + 1 \in Int /\ w \in Int
    BY <1>2, <1>3 DEF u
  <2>3. u + 1 = w \/ u + 1 < w
    BY <1>2, <1>3, <2>1 DEF u
  <2>4. BytesPerLong * (u + 1) <= BytesPerLong * w
    <3>1. u + 1 < w => BytesPerLong * (u + 1) + BytesPerLong <= BytesPerLong * w
      BY <1>1, <2>2, Apart
    <3>2. BytesPerLong * (u + 1) \in Int /\ BytesPerLong * w \in Int
      BY <1>1, <2>2, Z3
    <3> QED
      BY <1>1, <2>3, <3>1, <3>2
  <2>5. BytesPerLong * (u + 1) \in Int /\ BytesPerLong * w \in Int
    BY <1>1, <2>2, Z3
  <2>6. k < BytesPerLong * (u + 1)
    BY <1>2 DEF u
  <2> QED
    BY <1>1, <1>2, <1>3, <2>4, <2>5, <2>6
<1>6. BitsPerLong * w + (r * BitsPerByte + b) <= uprbp /\ r * BitsPerByte + b \in Bit
  BY <1>4, <1>5 DEF Rep
<1>7. BitsPerLong * w + (r * BitsPerByte + b) = BitsPerByte * k + b
  <2>1. (BitsPerByte * BytesPerLong) * w = BitsPerByte * (BytesPerLong * w)
    BY <1>1, <1>3, Z3
  <2>2. BitsPerByte * (BytesPerLong * w + r) = BitsPerByte * (BytesPerLong * w) + r * BitsPerByte
    BY <1>1, <1>3, Z3
  <2>3. /\ BitsPerByte * (BytesPerLong * w) \in Int /\ r * BitsPerByte \in Int
        /\ b \in Int
    BY <1>1, <1>3, <1>4, Z3
  <2> QED
    BY <1>1, <1>3, <2>1, <2>2, <2>3
<1>8. BitsPerByte * k \in Nat
  BY <1>2, Z3
<1>9. BitsPerByte * k + b \in 0..uprbp
  BY <1>4, <1>6, <1>7, <1>8
<1> QED
  BY <1>2, <1>4, <1>8, <1>9, OneWay

\* A byte holds as many bits as elements.
LEMMA ByteCounts ==
  ASSUME NEW s \in Rep, NEW k \in 0..(width - 1)
  PROVE  IsFiniteSet(ByteElements(s, k)) /\ Cardinality(ByteElements(s, k)) = Cardinality(Byte(s, k))
<1> USE WordAssumption
<1> DEFINE f == [b \in Byte(s, k) |-> lwrb + (BitsPerByte * k + b)]
<1>1. lwrb \in Int /\ uprbp \in Nat
  BY DEF Value
<1>2. ASSUME NEW b \in Byte(s, k)
      PROVE  f[b] \in ByteElements(s, k)
  <2> DEFINE i == BitsPerByte * k + b
  <2>1. i \in 0..uprbp /\ i \div BitsPerByte = k /\ i % BitsPerByte = b
    BY ByteWithin
  <2> HIDE DEF i
  <2>2. lwrb + i \in Elements(s)
    BY <2>1, ByteOf
  <2>3. (lwrb + i) - lwrb = i
    BY <1>1, <2>1
  <2>4. f[b] = lwrb + i
    BY DEF i
  <2> QED
    BY <2>1, <2>2, <2>3, <2>4 DEF ByteElements
<1>3. ASSUME NEW b \in Byte(s, k), NEW c \in Byte(s, k), f[b] = f[c]
      PROVE  b = c
  <2>1. BitsPerByte * k + b \in 0..uprbp /\ BitsPerByte * k + c \in 0..uprbp
        /\ b \in Int /\ c \in Int
    <3>1. BitsPerByte * k + b \in 0..uprbp /\ b \in 0..(BitsPerByte - 1)
      BY ByteWithin
    <3>2. BitsPerByte * k + c \in 0..uprbp /\ c \in 0..(BitsPerByte - 1)
      BY ByteWithin
    <3> QED
      BY <3>1, <3>2
  <2>2. lwrb + (BitsPerByte * k + b) = lwrb + (BitsPerByte * k + c)
    BY <1>3
  <2>3. (BitsPerByte * k + b) % BitsPerByte = b /\ (BitsPerByte * k + c) % BitsPerByte = c
    BY ByteWithin
  <2>4. BitsPerByte * k + b = BitsPerByte * k + c
    BY <1>1, <2>1, <2>2
  <2> QED
    BY <2>3, <2>4
<1>4. ASSUME NEW x \in ByteElements(s, k)
      PROVE  \E b \in Byte(s, k) : f[b] = x
  <2> DEFINE i == x - lwrb
  <2>1. x \in Elements(s) /\ x \in lwrb..(lwrb + uprbp) /\ i \div BitsPerByte = k
    BY DEF ByteElements, Elements
  <2>2. i \in 0..uprbp /\ x = lwrb + i
    BY <1>1, <2>1
  <2> HIDE DEF i
  <2>3. i % BitsPerByte \in Byte(s, k)
    BY <2>1, <2>2, ByteOf
  <2>4. i = BitsPerByte * k + (i % BitsPerByte)
    BY <2>1, <2>2, Division
  <2> QED
    BY <2>2, <2>3, <2>4
<1>5. IsFiniteSet(Byte(s, k))
  <2>1. Byte(s, k) \in SUBSET (0..(BitsPerByte - 1))
    BY DEF Byte
  <2>2. IsFiniteSet(0..(BitsPerByte - 1))
    BY FS_Interval
  <2> QED
    BY <2>1, <2>2, FS_Subset
<1>6. f \in Bijection(Byte(s, k), ByteElements(s, k))
  <2>1. f \in [Byte(s, k) -> ByteElements(s, k)]
    BY <1>2
  <2>2. \A b, c \in Byte(s, k) : f[b] = f[c] => b = c
    BY <1>3
  <2>3. \A x \in ByteElements(s, k) : \E b \in Byte(s, k) : f[b] = x
    BY <1>4
  <2> HIDE DEF f
  <2>4. f \in Injection(Byte(s, k), ByteElements(s, k))
    BY <2>1, <2>2 DEF Injection, IsInjective
  <2>5. f \in Surjection(Byte(s, k), ByteElements(s, k))
    BY <2>1, <2>3 DEF Surjection
  <2> QED
    BY <2>4, <2>5 DEF Bijection
<1>7. ExistsBijection(Byte(s, k), ByteElements(s, k))
  BY <1>6 DEF ExistsBijection
<1> QED
  BY <1>5, <1>7, FS_Bijection

\* One more byte.
LEMMA LowStep ==
  ASSUME NEW s \in Rep, NEW k \in 0..(width - 1), IsFiniteSet(Low(s, k))
  PROVE  /\ IsFiniteSet(Low(s, k + 1))
         /\ Cardinality(Low(s, k + 1)) = Cardinality(Low(s, k)) + Cardinality(Byte(s, k))
<1> USE WordAssumption
<1>1. k \in Nat /\ lwrb \in Int /\ uprbp \in Nat
  BY DEF Value
<1>2. ASSUME NEW x \in Elements(s)
      PROVE  /\ x - lwrb < BitsPerByte * (k + 1) <=>
                   x - lwrb < BitsPerByte * k \/ (x - lwrb) \div BitsPerByte = k
             /\ ~(x - lwrb < BitsPerByte * k /\ (x - lwrb) \div BitsPerByte = k)
  <2> DEFINE i == x - lwrb
             d == i \div BitsPerByte
             e == i % BitsPerByte
  <2>1. i \in Int
    BY <1>1 DEF Elements
  <2>2. d \in Int /\ e \in 0..(BitsPerByte - 1) /\ i = BitsPerByte * d + e
    BY <2>1, Division
  <2> SUFFICES /\ i < BitsPerByte * (k + 1) <=> i < BitsPerByte * k \/ d = k
               /\ ~(i < BitsPerByte * k /\ d = k)
    OBVIOUS
  <2> HIDE DEF i, d, e
  <2>3. BitsPerByte * (k + 1) = BitsPerByte * k + BitsPerByte /\ BitsPerByte * k \in Int
        /\ BitsPerByte * d \in Int
    BY <1>1, <2>2, Z3
  <2>4. d < k => BitsPerByte * d + BitsPerByte <= BitsPerByte * k
    BY <1>1, <2>2, Apart
  <2>5. k < d => BitsPerByte * k + BitsPerByte <= BitsPerByte * d
    BY <1>1, <2>2, Apart
  <2>6. d < k \/ d = k \/ k < d
    BY <1>1, <2>2
  <2>7. CASE d < k
    BY <2>1, <2>2, <2>3, <2>4, <2>7
  <2>8. CASE d = k
    BY <2>1, <2>2, <2>3, <2>8
  <2>9. CASE k < d
    BY <1>1, <2>1, <2>2, <2>3, <2>5, <2>9
  <2> QED
    BY <2>6, <2>7, <2>8, <2>9
<1>3. Low(s, k + 1) = Low(s, k) \cup ByteElements(s, k)
  BY <1>2 DEF Low, ByteElements
<1>4. Low(s, k) \cap ByteElements(s, k) = {}
  BY <1>2 DEF Low, ByteElements
<1>5. IsFiniteSet(ByteElements(s, k)) /\ Cardinality(ByteElements(s, k)) = Cardinality(Byte(s, k))
  BY ByteCounts
<1>6. Cardinality(Low(s, k) \cap ByteElements(s, k)) = 0
  BY <1>4, FS_EmptySet
<1>7. /\ IsFiniteSet(Low(s, k) \cup ByteElements(s, k))
      /\ Cardinality(Low(s, k) \cup ByteElements(s, k))
            = Cardinality(Low(s, k)) + Cardinality(ByteElements(s, k))
                - Cardinality(Low(s, k) \cap ByteElements(s, k))
  BY <1>5, FS_Union
<1>8. Cardinality(Low(s, k)) \in Int /\ Cardinality(ByteElements(s, k)) \in Int
  BY <1>5, FS_CardinalityType
<1>9. Cardinality(Low(s, k + 1)) = Cardinality(Low(s, k)) + Cardinality(ByteElements(s, k)) - 0
  BY <1>3, <1>6, <1>7
<1>10. Cardinality(Low(s, k + 1)) = Cardinality(Low(s, k)) + Cardinality(ByteElements(s, k))
  BY <1>8, <1>9
<1>11. IsFiniteSet(Low(s, k + 1))
  BY <1>3, <1>7, Zenon
<1> QED
  BY <1>5, <1>10, <1>11, Zenon

\* Before the first byte there is nothing, and all there is before the last one ends.
LEMMA LowEnds ==
  ASSUME NEW s \in Rep
  PROVE  Low(s, 0) = {} /\ Low(s, width) = Elements(s) /\ width \in Nat
<1> USE WordAssumption
<1>1. lwrb \in Int /\ uprbp \in Nat
  BY DEF Value
<1>2. \A x \in Elements(s) : x - lwrb \in 0..uprbp
  BY <1>1 DEF Elements
<1> DEFINE u == uprbp \div BitsPerLong
           m == uprbp % BitsPerLong
<1>3. /\ BytesPerLong \in Nat /\ BytesPerLong > 0 /\ BitsPerLong = BitsPerByte * BytesPerLong
      /\ u \in Nat /\ width = BytesPerLong * (u + 1)
  BY Words
<1>4. m \in 0..(BitsPerLong - 1) /\ uprbp = BitsPerLong * u + m
  BY <1>1, Division
<1> HIDE DEF u, m
<1>5. width \in Nat
  BY <1>3, Z3
<1>6. BitsPerByte * width = BitsPerLong * u + BitsPerLong
  <2>1. BitsPerByte * (BytesPerLong * (u + 1)) = (BitsPerByte * BytesPerLong) * (u + 1)
    BY <1>3, Z3
  <2>2. BitsPerLong * (u + 1) = BitsPerLong * u + BitsPerLong
    BY <1>3, Z3
  <2> QED
    BY <1>3, <2>1, <2>2
<1>7. uprbp < BitsPerByte * width
  <2>1. BitsPerLong * u \in Int
    BY <1>3, Z3
  <2> QED
    BY <1>4, <1>6, <2>1
<1>8. BitsPerByte * width \in Int /\ BitsPerByte * 0 = 0
  BY <1>5, Z3
<1>9. \A x \in Elements(s) : x - lwrb < BitsPerByte * width /\ ~(x - lwrb < BitsPerByte * 0)
  BY <1>1, <1>2, <1>7, <1>8
<1> QED
  BY <1>5, <1>9 DEF Low

\* Every nonempty set of naturals has a smallest element.
LEMMA Smallest ==
  ASSUME NEW S \in SUBSET Nat, S # {}
  PROVE  \E x \in S : \A y \in S : x <= y
<1> DEFINE less == { ss \in Nat \X Nat : ss[1] < ss[2] }
<1>1. IsWellFoundedOn(less, Nat)
  BY NatLessThanWellFounded DEF OpToRel
<1>2. \E x \in S : \A y \in S : ~(<<y, x>> \in less)
  <2> HIDE DEF less
  <2> QED
    BY <1>1, WFMin
<1>3. PICK x \in S : \A y \in S : ~(<<y, x>> \in less)
  BY <1>2
<1>4. ASSUME NEW y \in S
      PROVE  x <= y
  <2>1. x \in Nat /\ y \in Nat /\ ~(<<y, x>> \in less)
    BY <1>3
  <2>2. ~(y < x)
    BY <2>1
  <2> QED
    BY <2>1, <2>2
<1> QED
  BY <1>4

\* What holds at 0, and at k + 1 when it holds at k, holds up to the end: S are
\* the places where it holds.
LEMMA Counting ==
  ASSUME NEW N \in Nat, NEW S, 0 \in S, \A k \in 0..(N - 1) : k \in S => k + 1 \in S
  PROVE  \A k \in 0..N : k \in S
<1> SUFFICES ASSUME NEW b \in 0..N, b \notin S PROVE FALSE
  OBVIOUS
<1> DEFINE Bad == { k \in 0..N : k \notin S }
<1>1. Bad \in SUBSET Nat /\ Bad # {}
  OBVIOUS
<1>2. PICK x \in Bad : \A y \in Bad : x <= y
  <2> HIDE DEF Bad
  <2> QED
    BY <1>1, Smallest
<1>3. x \in 0..N /\ x \notin S /\ x # 0
  BY <1>2
<1>4. x - 1 \in 0..(N - 1) /\ (x - 1) + 1 = x /\ x - 1 \in 0..N
  BY <1>3
<1>5. x - 1 \in Bad
  BY <1>3, <1>4
<1>6. x <= x - 1
  BY <1>2, <1>5
<1> QED
  BY <1>3, <1>6

\* The loop adds up the elements (CARD.c).
LEMMA CardIsCardinality ==
  ASSUME NEW s \in Rep
  PROVE  CARD(s) = Cardinality(Elements(s))
<1> DEFINE N == width
           B(n) == Cardinality(Byte(s, n))
           body(f, n) == IF n = 0 THEN 0 ELSE f[n - 1] + B(n - 1)
           cnt == CHOOSE f : f = [n \in 0..N |-> body(f, n)]
           W == [n \in 0..N |-> Cardinality(Low(s, n))]
<1>1. N \in Nat /\ Low(s, 0) = {} /\ Low(s, N) = Elements(s)
  BY LowEnds
<1>2. CARD(s) = cnt[N]
  BY Zenon DEF CARD
<1> HIDE DEF N, B
<1>3. \A k \in 0..N : IsFiniteSet(Low(s, k))
  <2> DEFINE S == { k \in 0..N : IsFiniteSet(Low(s, k)) }
  <2>1. 0 \in S
    BY <1>1, FS_EmptySet
  <2>2. ASSUME NEW k \in 0..(N - 1), k \in S PROVE k + 1 \in S
    <3>1. IsFiniteSet(Low(s, k + 1))
      BY <2>2, LowStep DEF N
    <3> QED
      BY <1>1, <3>1
  <2> HIDE DEF S
  <2>3. \A k \in 0..N : k \in S
    BY <1>1, <2>1, <2>2, Counting
  <2> QED
    BY <2>3 DEF S
<1>4. \A k \in 0..(N - 1) : Cardinality(Low(s, k + 1)) = Cardinality(Low(s, k)) + B(k)
  <2> SUFFICES ASSUME NEW k \in 0..(N - 1)
               PROVE  Cardinality(Low(s, k + 1)) = Cardinality(Low(s, k)) + B(k)
    OBVIOUS
  <2>1. k \in 0..N
    BY <1>1
  <2> QED
    BY <1>3, <2>1, LowStep DEF N, B
<1>5. Cardinality(Low(s, 0)) = 0
  BY <1>1, FS_EmptySet
<1>6. \A n \in 0..N : W[n] = body(W, n)
  <2> SUFFICES ASSUME NEW n \in 0..N PROVE W[n] = body(W, n)
    OBVIOUS
  <2>1. CASE n = 0
    BY <1>5, <2>1
  <2>2. CASE n # 0
    <3>1. n - 1 \in 0..(N - 1) /\ (n - 1) + 1 = n /\ n - 1 \in 0..N
      BY <1>1, <2>2
    <3>2. Cardinality(Low(s, (n - 1) + 1)) = Cardinality(Low(s, n - 1)) + B(n - 1)
      BY <1>4, <3>1
    <3> QED
      BY <2>2, <3>1, <3>2
  <2> QED
    BY <2>1, <2>2
<1>7. W = [n \in 0..N |-> body(W, n)]
  BY <1>6
<1> HIDE DEF W
<1>8. cnt = [n \in 0..N |-> body(cnt, n)]
  BY <1>7, Zenon
<1> HIDE DEF cnt
<1>9. \A n \in 0..N : cnt[n] = body(cnt, n)
  BY <1>8, Zenon
<1>10. \A n \in 0..N : cnt[n] = W[n]
  <2> DEFINE S == { n \in 0..N : cnt[n] = W[n] }
  <2>1. 0 \in S
    BY <1>1, <1>6, <1>9
  <2>2. ASSUME NEW k \in 0..(N - 1), k \in S PROVE k + 1 \in S
    <3>1. k + 1 \in 0..N /\ k + 1 # 0 /\ (k + 1) - 1 = k
      BY <1>1
    <3>2. cnt[k + 1] = cnt[k] + B(k) /\ W[k + 1] = W[k] + B(k)
      BY <1>6, <1>9, <3>1
    <3> QED
      BY <2>2, <3>1, <3>2
  <2> HIDE DEF S
  <2>3. \A k \in 0..N : k \in S
    BY <1>1, <2>1, <2>2, Counting
  <2> QED
    BY <2>3 DEF S
<1>11. N \in 0..N /\ W[N] = Cardinality(Low(s, N))
  BY <1>1 DEF W
<1> QED
  BY <1>1, <1>2, <1>10, <1>11

-----------------------------------------------------------------------------
(* Constructors. *)

Written(es) == \A i \in DOMAIN es :
                 /\ es[i] \in [lo : Value, hi : Value, con : SUBSET End, single : BOOLEAN]
                 /\ es[i].single => es[i].lo = es[i].hi

\* An element sets the bits of its values.
LEMMA ElementIsRange ==
  ASSUME NEW es, Written(es), NEW i \in DOMAIN es, InSet(es[i].lo), InSet(es[i].hi),
         NEW w \in Longs, NEW b \in Bit
  PROVE  b \in ElementBits(es[i], w)
           <=> lwrb + (BitsPerLong * w + b) \in es[i].lo..es[i].hi
<1> DEFINE k == BitsPerLong * w + b
           lower == es[i].lo - lwrb
           upper == es[i].hi - lwrb
<1>1. es[i].lo \in Value /\ es[i].hi \in Value /\ es[i].lo \in Int /\ es[i].hi \in Int /\ lwrb \in Int
  BY WordAssumption DEF Written, Value
<1>2. /\ int(es[i].lo - lwrb) = lower /\ lower \in 0..uprbp
      /\ int(es[i].hi - lwrb) = upper /\ upper \in 0..uprbp
  BY <1>1, DistanceOf, WordAssumption DEF InSet
<1>3. k \in Nat
  BY BitOf
<1>4. lwrb + k \in es[i].lo..es[i].hi <=> lower <= k /\ k <= upper
  BY <1>1, <1>3
<1>5. CASE es[i].single
  <2>1. lower = upper
    BY <1>5 DEF Written
  <2>2. b \in ElementBits(es[i], w) <=> lower = k
    BY <1>2, <1>5, SingleIsSingle DEF ElementBits
  <2>3. lower = k <=> lower <= k /\ k <= upper
    BY <1>2, <1>3, <2>1
  <2> QED
    BY <1>4, <2>2, <2>3
<1>6. CASE ~es[i].single
  <2>1. b \in ElementBits(es[i], w) <=> lower <= k /\ k <= upper
    BY <1>2, <1>6, RangeIsRange DEF ElementBits
  <2> QED
    BY <1>4, <2>1
<1> QED
  BY <1>5, <1>6

\* The longs that collect the elements stand for the set that is written.
LEMMA CollectIsUnion ==
  ASSUME NEW es, Written(es),
         \A i \in DOMAIN es : InSet(es[i].lo) /\ InSet(es[i].hi)
  PROVE  /\ Collect(es, Longs) \in Rep
         /\ Elements(Collect(es, Longs)) = UNION { es[i].lo..es[i].hi : i \in DOMAIN es }
<1> DEFINE s == Collect(es, Longs)
<1>1. ASSUME NEW i \in DOMAIN es, NEW w \in Longs
      PROVE  ElementBits(es[i], w) \subseteq Bit
  <2>1. CASE es[i].single
    <3>1. es[i].lo \in Value
      BY DEF Written
    <3>2. int(es[i].lo - lwrb) \in 0..uprbp
      BY <3>1, DistanceOf, WordAssumption DEF InSet, Value
    <3> DEFINE k == int(es[i].lo - lwrb)
    <3>3. ((k \div BitsPerByte) % BytesPerLong) * BitsPerByte + (k % BitsPerByte) \in Bit
      <4> HIDE DEF k
      <4>0. k \in Int
        BY <3>2 DEF k
      <4>1. BytesPerLong \in Int /\ BytesPerLong > 0 /\ BitsPerLong = BitsPerByte * BytesPerLong
        BY Words
      <4>2. k % (BitsPerByte * BytesPerLong)
              = ((k \div BitsPerByte) % BytesPerLong) * BitsPerByte + (k % BitsPerByte)
        BY <4>0, <4>1, Twice, WordAssumption
      <4>3. k % BitsPerLong \in Bit
        BY <3>2, PlaceOf DEF k
      <4> QED
        BY <4>1, <4>2, <4>3
    <3> QED
      BY <2>1, <3>3 DEF ElementBits, SingleBits
  <2>2. CASE ~es[i].single
    BY <2>2 DEF ElementBits, RangeBits
  <2> QED
    BY <2>1, <2>2
<1>2. ASSUME NEW w \in Longs, NEW b \in Bit
      PROVE  b \in s[w] <=> \E i \in DOMAIN es : lwrb + (BitsPerLong * w + b) \in es[i].lo..es[i].hi
  BY ElementIsRange DEF Collect
<1>3. \A i \in DOMAIN es : \A x \in es[i].lo..es[i].hi : x \in lwrb..(lwrb + uprbp)
  BY WordAssumption DEF Written, InSet, Value
<1>4. s \in Rep
  <2>1. s \in [Longs -> SUBSET Bit]
    BY <1>1 DEF Collect
  <2>2. ASSUME NEW w \in Longs, NEW b \in s[w]
        PROVE  BitsPerLong * w + b <= uprbp
    <3>1. b \in Bit
      BY <2>1
    <3>2. lwrb + (BitsPerLong * w + b) \in lwrb..(lwrb + uprbp)
      BY <1>2, <1>3, <3>1
    <3>3. BitsPerLong * w + b \in Nat
      BY <3>1, BitOf
    <3> QED
      BY <3>2, <3>3, WordAssumption DEF Value
  <2> QED
    BY <2>1, <2>2 DEF Rep
<1>5. ASSUME NEW x \in lwrb..(lwrb + uprbp)
      PROVE  x \in Elements(s) <=> \E i \in DOMAIN es : x \in es[i].lo..es[i].hi
  <2> DEFINE k == x - lwrb
             w == k \div BitsPerLong
             b == k % BitsPerLong
  <2>1. k \in 0..uprbp /\ lwrb + k = x
    BY WordAssumption DEF Value
  <2> HIDE DEF k
  <2>2. w \in Longs /\ b \in Bit /\ k = BitsPerLong * w + b
    BY <2>1, PlaceOf
  <2>3. x \in Elements(s) <=> b \in s[w]
    BY DEF Elements, k
  <2> HIDE DEF w, b, s
  <2> QED
    BY <1>2, <2>1, <2>2, <2>3
<1>6. Elements(s) \subseteq lwrb..(lwrb + uprbp)
  BY DEF Elements
<1> HIDE DEF s
<1>7. Elements(s) = UNION { es[i].lo..es[i].hi : i \in DOMAIN es }
  BY <1>3, <1>5, <1>6
<1> QED
  BY <1>4, <1>7 DEF s
-----------------------------------------------------------------------------
(* The operands stay sets in longs. *)

SetInv == /\ operands \in Seq(Rep)
          /\ \/ todo = Nothing /\ Len(operands) \in 0..2
             \/ Len(operands) = 0 /\ todo \in WithNone
             \/ Len(operands) = 1 /\ todo \in WithOne
             \/ Len(operands) = 2 /\ todo \in WithTwo

\* What is asked fits the operands.
LEMMA AskedFits ==
  ASSUME SetInv, todo # Nothing
  PROVE  /\ todo.op \in {"set", "in set"} => Written(todo.es)
         /\ todo.op = "in set" => todo.x \in Value /\ Len(operands) = 0
         /\ todo.op = "set" => Len(operands) \in 0..1
         /\ todo.op = "in" => todo.x \in Value /\ Len(operands) = 1
         /\ todo.op = "card" => Len(operands) = 1
         /\ todo.op \in SetOperator \cup Relation => Len(operands) = 2
<1>1. \A es \in Left \cup Right : Written(es)
  BY ExpressionAssumption DEF Written
<1>2. CASE Len(operands) = 0 /\ todo \in WithNone
  <2>1. CASE todo \in Constructed(Left)
    <3>1. todo.op = "set" /\ todo.es \in Left
      BY <2>1 DEF Constructed
    <3> QED
      BY <1>1, <1>2, <3>1 DEF SetOperator, Relation
  <2>2. CASE todo \in [op : {"in set"}, es : Left, ofint : BOOLEAN, x : Value]
    <3>1. todo.op = "in set" /\ todo.es \in Left /\ todo.x \in Value
      BY <2>2
    <3> QED
      BY <1>1, <1>2, <3>1 DEF SetOperator, Relation
  <2> QED
    BY <1>2, <2>1, <2>2 DEF WithNone
<1>3. CASE Len(operands) = 1 /\ todo \in WithOne
  <2>1. CASE todo \in Constructed(Right)
    <3>1. todo.op = "set" /\ todo.es \in Right
      BY <2>1 DEF Constructed
    <3> QED
      BY <1>1, <1>3, <3>1 DEF SetOperator, Relation
  <2>2. CASE todo \in [op : {"in"}, x : Value] \cup [op : {"card"}]
    BY <1>3, <2>2 DEF SetOperator, Relation
  <2> QED
    BY <1>3, <2>1, <2>2 DEF WithOne
<1>4. CASE Len(operands) = 2 /\ todo \in WithTwo
  BY <1>4 DEF WithTwo, SetOperator, Relation
<1> QED
  BY <1>2, <1>3, <1>4 DEF SetInv

\* The longs that pi and CTTOT fill are those of the set.
LEMMA BothFillTheSet ==
  ASSUME NEW es
  PROVE  postcset(es) = Collect(es, Longs) /\ CTTOT(es) = Collect(es, Longs)
BY Words DEF postcset, CTTOT

\* What pi accepts, and what CTTOT lets pass, is within bounds.
LEMMA BuiltIsWithin ==
  ASSUME NEW es, Written(es), comptime(es) \/ ~OutOfSet(es)
  PROVE  \A i \in DOMAIN es : InSet(es[i].lo) /\ InSet(es[i].hi)
<1> SUFFICES ASSUME NEW i \in DOMAIN es PROVE InSet(es[i].lo) /\ InSet(es[i].hi)
  OBVIOUS
<1>1. CASE comptime(es)
  BY <1>1 DEF comptime, End
<1>2. CASE ~OutOfSet(es)
  <2>1. es[i].lo \in Value /\ es[i].hi \in Value
    BY DEF Written
  <2> QED
    BY <1>2, <2>1, DistanceOf DEF OutOfSet
<1> QED
  BY <1>1, <1>2

\* Both ways to build a set build what its constructor denotes.
LEMMA BuiltIsSet ==
  ASSUME NEW es, Written(es), comptime(es) \/ ~OutOfSet(es)
  PROVE  /\ postcset(es) \in Rep /\ CTTOT(es) \in Rep
         /\ Elements(postcset(es)) = Sets!Denotes(es)
         /\ Elements(CTTOT(es)) = Sets!Denotes(es)
BY BuiltIsWithin, CollectIsUnion, BothFillTheSet DEF Sets!Denotes

\* The operands are sets in longs, and as many as what is asked needs.
LEMMA SetInvHolds == Spec => []SetInv
<1>1. Init => SetInv
  BY DEF Init, SetInv
<1>2. SetInv /\ [Next]_vars => SetInv'
  <2> SUFFICES ASSUME SetInv, [Next]_vars PROVE SetInv'
    OBVIOUS
  <2>0. operands \in Seq(Rep) /\ Len(operands) \in 0..2
    BY DEF SetInv
  <2>1. CASE Ask
    BY <2>1 DEF Ask, SetInv
  <2>2. CASE Refuse
    BY <2>0, <2>2 DEF Refuse, Done, SetInv
  <2>3. CASE ConstantSet
    <3>1. postcset(todo.es) \in Rep /\ Len(operands) \in 0..1
      BY <2>3, AskedFits, BuiltIsSet DEF ConstantSet, Doing
    <3> QED
      BY <2>3, <3>1 DEF ConstantSet, Push, Done, SetInv
  <2>4. CASE Construct
    <3>1. Len(operands) \in 0..1 /\ Written(todo.es)
      BY <2>4, AskedFits DEF Construct, Doing
    <3>2. CASE OutOfSet(todo.es)
      BY <2>4, <3>1, <3>2 DEF Construct, Done, SetInv
    <3>3. CASE ~OutOfSet(todo.es)
      <4>1. CTTOT(todo.es) \in Rep
        BY <3>1, <3>3, BuiltIsSet
      <4> QED
        BY <2>4, <3>1, <3>3, <4>1 DEF Construct, Push, Done, SetInv
    <3> QED
      BY <3>2, <3>3
  <2>5. CASE Operate
    <3>0. Len(operands) = 2
      BY <2>5, AskedFits DEF Operate, Doing
    <3>1. operands[1] \in Rep /\ operands[2] \in Rep
      BY <2>0, <3>0
    <3>2. PICK s \in Rep : Done(<<s>>, Nothing)
      BY <2>5, <3>1, OperatorsAreOperators DEF Operate, Doing, SetOperator
    <3> QED
      BY <3>2 DEF Done, SetInv
  <2>6. CASE Compare
    BY <2>6 DEF Compare, push2, Done, SetInv
  <2>7. CASE Member
    BY <2>7 DEF Member, push2, Done, SetInv
  <2>8. CASE MemberOf
    <3>1. todo' = Nothing /\ operands' = <<>>
      BY <2>8, Zenon DEF MemberOf, push2, Done
    <3> QED
      BY <3>1 DEF SetInv
  <2>9. CASE Card
    BY <2>9 DEF Card, Done, SetInv
  <2>10. CASE UNCHANGED vars
    BY <2>10 DEF vars, SetInv
  <2>11. CASE InctUsed
    <3>1. todo' = Nothing /\ operands' = <<>>
      BY <2>11, Zenon DEF InctUsed, Done
    <3> QED
      BY <3>1 DEF SetInv
  <2> QED
    BY <2>1, <2>2, <2>3, <2>4, <2>5, <2>6, <2>7, <2>8, <2>9, <2>10, <2>11 DEF Next
<1> QED
  BY <1>1, <1>2, PTL DEF Spec

-----------------------------------------------------------------------------
(* Every step is a step of PascalSets. *)

Mapped == [i \in DOMAIN operands |-> Elements(operands[i])]

\* The sets of the abstract specification, one for each operand.
LEMMA MappedIsSequence ==
  ASSUME operands \in Seq(Rep)
  PROVE  /\ Mapped \in Seq(SUBSET Base)
         /\ Len(Mapped) = Len(operands)
         /\ \A i \in 1..Len(operands) : Mapped[i] = Elements(operands[i])
<1>1. DOMAIN operands = 1..Len(operands) /\ Len(operands) \in Nat
  OBVIOUS
<1>2. Mapped \in [1..Len(operands) -> SUBSET Base]
  BY <1>1 DEF Mapped, Elements, Base
<1> QED
  BY <1>1, <1>2 DEF Mapped

\* A set that is pushed.
LEMMA MappedAppend ==
  ASSUME operands \in Seq(Rep), NEW s \in Rep, operands' = Append(operands, s)
  PROVE  Mapped' = Append(Mapped, Elements(s))
<1>1. /\ operands' \in Seq(Rep)
      /\ Len(operands') = Len(operands) + 1
      /\ \A i \in 1..Len(operands) : operands'[i] = operands[i]
      /\ operands'[Len(operands) + 1] = s
  OBVIOUS
<1>2. /\ Mapped' \in Seq(SUBSET Base)
      /\ Len(Mapped') = Len(operands')
      /\ \A i \in 1..Len(operands') : Mapped'[i] = Elements(operands'[i])
  <2>1. DOMAIN operands' = 1..Len(operands') /\ Len(operands') \in Nat
    BY <1>1
  <2>2. Mapped' \in [1..Len(operands') -> SUBSET Base]
    BY <2>1 DEF Mapped, Elements, Base
  <2> QED
    BY <2>1, <2>2 DEF Mapped
<1> DEFINE t == Append(Mapped, Elements(s))
<1>3. Elements(s) \in SUBSET Base
  BY DEF Elements, Base
<1>4. /\ t \in Seq(SUBSET Base)
      /\ Len(t) = Len(operands) + 1
      /\ \A i \in 1..Len(operands) : t[i] = Elements(operands[i])
      /\ t[Len(operands) + 1] = Elements(s)
  BY <1>3, MappedIsSequence, AppendProperties
<1> HIDE DEF t
<1>5. Len(operands) \in Nat
  OBVIOUS
<1>6. \A i \in 1..Len(Mapped') : Mapped'[i] = t[i]
  BY <1>1, <1>2, <1>4, <1>5
<1>7. Mapped' = t
  BY <1>1, <1>2, <1>4, <1>6, SeqEqual
<1> QED
  BY <1>7 DEF t
\* The steps of PascalSets, over the sets the operands stand for.
LEMMA ConstructRight ==
  ASSUME SetInv, ConstantSet \/ Construct
  PROVE  Sets!Construct
<1> DEFINE es == todo.es
<1>1. /\ todo # Nothing /\ todo.op = "set"
      /\ operands \in Seq(Rep) /\ Written(es)
  BY AskedFits DEF ConstantSet, Construct, Doing, SetInv
<1>2. Sets!InBounds(es) <=> ~OutOfSet(es)
  BY <1>1, DistanceOf DEF Written, OutOfSet, Sets!InBounds, Base
<1> HIDE DEF es
<1>3. Sets!Doing({"set"})
  BY <1>1 DEF Sets!Doing
<1>4. CASE OutOfSet(es)
  <2>1. Construct
    BY <1>1, <1>4, BuiltIsWithin, DistanceOf DEF ConstantSet, Written, OutOfSet, es
  <2>2. todo' = Nothing /\ operands' = operands /\ answer' = OutOfBounds
    BY <1>4, <2>1 DEF Construct, Done, es
  <2>3. Sets!Done(Mapped, OutOfBounds)
    BY <2>2 DEF Sets!Done, Mapped
  <2> QED
    BY <1>2, <1>3, <1>4, <2>3 DEF Sets!Construct, Mapped, es
<1>5. CASE ~OutOfSet(es)
  <2>1. PICK s \in Rep : /\ Elements(s) = Sets!Denotes(es)
                         /\ todo' = Nothing /\ operands' = Append(operands, s)
                         /\ answer' = Nothing
    BY <1>1, <1>5, BuiltIsSet DEF ConstantSet, Construct, Push, Done, es
  <2>2. Mapped' = Append(Mapped, Sets!Denotes(es))
    BY <1>1, <2>1, MappedAppend
  <2>3. Sets!Done(Append(Mapped, Sets!Denotes(es)), Nothing)
    BY <2>1, <2>2 DEF Sets!Done, Mapped
  <2> QED
    BY <1>2, <1>3, <1>5, <2>3 DEF Sets!Construct, Mapped, es
<1> QED
  BY <1>4, <1>5

\* What pi refuses is out of bounds.
LEMMA RefuseRight ==
  ASSUME SetInv, Refuse
  PROVE  Sets!Construct \/ Sets!MemberOf
<1>1. /\ todo # Nothing /\ todo.op \in {"set", "in set"} /\ Written(todo.es)
      /\ Refused(todo.es, todo.ofint)
      /\ todo' = Nothing /\ operands' = operands /\ answer' = OutOfBounds
  BY AskedFits DEF Refuse, Doing, Done
<1>2. ~Sets!InBounds(todo.es)
  <2>1. PICK i \in DOMAIN todo.es : \E b \in todo.es[i].con : ~InSet(todo.es[i][b])
    BY <1>1 DEF Refused
  <2>2. /\ todo.es[i].lo \in Value /\ todo.es[i].hi \in Value
        /\ ~InSet(todo.es[i].lo) \/ ~InSet(todo.es[i].hi)
    BY <1>1, <2>1 DEF Written, End
  <2>3. todo.es[i].lo \notin Base \/ todo.es[i].hi \notin Base
    BY <2>2, DistanceOf
  <2> QED
    BY <2>3 DEF Sets!InBounds, Base
<1>3. Sets!Done(Mapped, OutOfBounds)
  BY <1>1 DEF Sets!Done, Mapped
<1> QED
  BY <1>1, <1>2, <1>3 DEF Sets!Construct, Sets!MemberOf, Sets!Doing, Mapped

\* Two operands.
LEMMA BothOperands ==
  ASSUME SetInv, Len(operands) = 2
  PROVE  /\ operands[1] \in Rep /\ operands[2] \in Rep
         /\ Mapped[1] = Elements(operands[1]) /\ Mapped[2] = Elements(operands[2])
<1>1. operands \in Seq(Rep)
  BY DEF SetInv
<1>2. 1 \in 1..Len(operands) /\ 2 \in 1..Len(operands)
  OBVIOUS
<1>3. operands[1] \in Rep /\ operands[2] \in Rep
  BY <1>1, <1>2
<1>4. Mapped[1] = Elements(operands[1]) /\ Mapped[2] = Elements(operands[2])
  BY <1>1, <1>2, MappedIsSequence
<1> QED
  BY <1>3, <1>4

\* One set left, and none.
LEMMA MappedOne ==
  ASSUME NEW s, operands' = <<s>>
  PROVE  Mapped' = <<Elements(s)>>
BY DEF Mapped

LEMMA MappedNone ==
  ASSUME operands' = <<>>
  PROVE  Mapped' = <<>>
BY DEF Mapped

\* An operator takes both sets and leaves one.
LEMMA OperateRight ==
  ASSUME SetInv, Operate
  PROVE  Sets!Operate
<1> DEFINE l == operands[1]
           r == operands[2]
<1>1. todo # Nothing /\ todo.op \in {"+", "-", "*"} /\ Len(operands) = 2
  BY AskedFits DEF Operate, Doing, SetOperator
<1>2. /\ l \in Rep /\ r \in Rep
      /\ Mapped[1] = Elements(l) /\ Mapped[2] = Elements(r)
  BY <1>1, BothOperands
<1>3. Sets!Doing(Sets!SetOperator)
  BY <1>1 DEF Sets!Doing, Sets!SetOperator
<1> SUFFICES Sets!Done(<<CASE todo.op = "+" -> Mapped[1] \cup Mapped[2]
                           [] todo.op = "-" -> Mapped[1] \ Mapped[2]
                           [] todo.op = "*" -> Mapped[1] \cap Mapped[2]>>, Nothing)
  BY <1>3 DEF Sets!Operate, Mapped
<1>4. /\ todo' = Nothing /\ answer' = Nothing
      /\ operands' = <<CASE todo.op = "+" -> ADDT(l, r)
                         [] todo.op = "-" -> SUBT(l, r)
                         [] todo.op = "*" -> MULT(l, r)>>
  BY DEF Operate, Done
<1> HIDE DEF l, r
<1>5. Mapped' = <<CASE todo.op = "+" -> Mapped[1] \cup Mapped[2]
                    [] todo.op = "-" -> Mapped[1] \ Mapped[2]
                    [] todo.op = "*" -> Mapped[1] \cap Mapped[2]>>
  <2>1. CASE todo.op = "+"
    <3>1. operands' = <<ADDT(l, r)>>
      BY <1>4, <2>1
    <3> QED
      BY <1>2, <2>1, <3>1, MappedOne, OperatorsAreOperators
  <2>2. CASE todo.op = "-"
    <3>1. operands' = <<SUBT(l, r)>>
      BY <1>4, <2>2
    <3> QED
      BY <1>2, <2>2, <3>1, MappedOne, OperatorsAreOperators
  <2>3. CASE todo.op = "*"
    <3>1. operands' = <<MULT(l, r)>>
      BY <1>4, <2>3
    <3> QED
      BY <1>2, <2>3, <3>1, MappedOne, OperatorsAreOperators
  <2> QED
    BY <1>1, <2>1, <2>2, <2>3
<1> QED
  BY <1>4, <1>5 DEF Sets!Done, Mapped

\* Comparisons take both sets and leave a truth value.
LEMMA CompareRight ==
  ASSUME SetInv, Compare
  PROVE  Sets!Compare
<1> DEFINE l == operands[1]
           r == operands[2]
           L == Elements(l)
           R == Elements(r)
<1>1. todo # Nothing /\ todo.op \in Relation /\ Len(operands) = 2
  BY AskedFits DEF Compare, Doing, Relation
<1>2. l \in Rep /\ r \in Rep /\ Mapped[1] = L /\ Mapped[2] = R
  BY <1>1, BothOperands
<1>3. /\ todo' = Nothing /\ operands' = <<>>
      /\ answer' = IF CASE todo.op = "="  -> RELEQ(l, r)
                         [] todo.op = "<>" -> ~RELEQ(l, r)
                         [] todo.op = "<"  -> RELTLT(l, r)
                         [] todo.op = ">"  -> RELTLT(r, l)
                         [] todo.op = "<=" -> RELTLE(l, r)
                         [] todo.op = ">=" -> RELTLE(r, l) THEN 1 ELSE 0
  BY DEF Compare, push2, Done
<1>4. Mapped' = <<>>
  BY <1>3, MappedNone
<1> HIDE DEF l, r
<1>5. /\ RELEQ(l, r) <=> L = R
      /\ RELTLT(l, r) <=> L \subseteq R /\ L # R
      /\ RELTLT(r, l) <=> R \subseteq L /\ L # R
      /\ RELTLE(l, r) <=> L \subseteq R
      /\ RELTLE(r, l) <=> R \subseteq L
  BY <1>2, EqualIsEqual, ProperIsProper, SubsetIsSubset
<1> HIDE DEF L, R
<1>6. answer' = IF CASE todo.op = "="  -> L = R
                     [] todo.op = "<>" -> L # R
                     [] todo.op = "<"  -> L \subseteq R /\ L # R
                     [] todo.op = ">"  -> R \subseteq L /\ L # R
                     [] todo.op = "<=" -> L \subseteq R
                     [] todo.op = ">=" -> R \subseteq L THEN 1 ELSE 0
  <2>1. CASE todo.op = "="
    BY <1>3, <1>5, <2>1
  <2>2. CASE todo.op = "<>"
    BY <1>3, <1>5, <2>2
  <2>3. CASE todo.op = "<"
    BY <1>3, <1>5, <2>3
  <2>4. CASE todo.op = ">"
    BY <1>3, <1>5, <2>4
  <2>5. CASE todo.op = "<="
    BY <1>3, <1>5, <2>5
  <2>6. CASE todo.op = ">="
    BY <1>3, <1>5, <2>6
  <2> QED
    BY <1>1, <2>1, <2>2, <2>3, <2>4, <2>5, <2>6 DEF Relation
<1>7. Sets!Doing(Sets!Relation)
  BY <1>1 DEF Sets!Doing, Sets!Relation, Relation
<1>8. Sets!Done(<<>>, answer')
  BY <1>3, <1>4 DEF Sets!Done, Mapped
<1> QED
  BY <1>2, <1>6, <1>7, <1>8 DEF Sets!Compare, Sets!Number, Mapped

\* Membership in a set on the stack.
LEMMA MemberRight ==
  ASSUME SetInv, Member
  PROVE  Sets!Member
<1>1. /\ todo # Nothing /\ todo.op = "in" /\ todo.x \in Value
      /\ Len(operands) = 1 /\ operands \in Seq(Rep)
  BY AskedFits DEF Member, Doing, SetInv
<1>2. 1 \in 1..Len(operands)
  BY <1>1
<1>3. operands[1] \in Rep /\ Mapped[1] = Elements(operands[1])
  BY <1>1, <1>2, MappedIsSequence
<1>4. /\ todo' = Nothing /\ operands' = <<>>
      /\ answer' = IF In(todo.x, operands[1]) THEN 1 ELSE 0
  BY DEF Member, push2, Done
<1>5. answer' = Sets!Number(todo.x \in Mapped[1])
  BY <1>1, <1>3, <1>4, InIsIn DEF Sets!Number
<1>6. Mapped' = <<>>
  BY <1>4, MappedNone
<1> QED
  BY <1>1, <1>4, <1>5, <1>6 DEF Sets!Member, Sets!Doing, Sets!Done, Mapped

\* Membership in a set that is written out: as the constant it is, or by its ranges.
LEMMA MemberOfRight ==
  ASSUME SetInv, MemberOf
  PROVE  Sets!MemberOf
<1> DEFINE es == todo.es
           x == todo.x
<1>1. /\ todo # Nothing /\ todo.op = "in set" /\ x \in Value
      /\ Written(es) /\ operands = <<>>
  <2>1. todo # Nothing /\ todo.op = "in set"
    BY DEF MemberOf, Doing
  <2>2. x \in Value /\ Written(es) /\ Len(operands) = 0
    BY <2>1, AskedFits
  <2>3. operands \in Seq(Rep)
    BY DEF SetInv
  <2>4. operands = <<>>
    BY <2>2, <2>3, EmptySeq
  <2> QED
    BY <2>1, <2>2, <2>4
<1>2. /\ todo' = Nothing /\ operands' = <<>>
      /\ answer' = IF IF comptime(es) THEN In(x, postcset(es)) ELSE INCT(x, es)
                   THEN 1 ELSE 0
  <2>1. CASE comptime(es) /\ push2(In(x, postcset(es)))
    BY <2>1 DEF push2, Done
  <2>2. CASE ~comptime(es) /\ push2(INCT(x, es))
    BY <2>2 DEF push2, Done
  <2> QED
    BY <2>1, <2>2 DEF MemberOf
<1> HIDE DEF es, x
<1>3. comptime(es) => (In(x, postcset(es)) <=> x \in Sets!Denotes(es))
  BY <1>1, BuiltIsSet, InIsIn
<1>4. INCT(x, es) <=> x \in Sets!Denotes(es)
  <2>1. Value \subseteq Int
    BY WordAssumption DEF Value
  <2>2. ASSUME NEW i \in DOMAIN es
        PROVE  (es[i].lo <= x /\ x <= es[i].hi) <=> x \in es[i].lo..es[i].hi
    <3>1. es[i] \in [lo : Value, hi : Value, con : SUBSET End, single : BOOLEAN]
      BY <1>1, Zenon DEF Written
    <3>2. es[i].lo \in Value /\ es[i].hi \in Value
      BY <3>1
    <3>3. es[i].lo \in Int /\ es[i].hi \in Int /\ x \in Int
      BY <1>1, <2>1, <3>2, Zenon
    <3> QED
      BY <3>3
  <2> QED
    BY <2>2 DEF INCT, Sets!Denotes
<1>5. answer' = Sets!Number(x \in Sets!Denotes(es))
  BY <1>2, <1>3, <1>4 DEF Sets!Number
<1>6. Mapped' = <<>> /\ Mapped = <<>>
  BY <1>1, <1>2, MappedNone DEF Mapped
<1> QED
  BY <1>1, <1>2, <1>5, <1>6 DEF Sets!MemberOf, Sets!Doing, Sets!Done, Mapped, es, x

\* What the program goes on to evaluate.
LEMMA AskRight ==
  ASSUME SetInv, Ask
  PROVE  Sets!Ask
<1>1. /\ todo = Nothing /\ answer' = Nothing /\ operands' = operands
      /\ operands \in Seq(Rep)
  BY DEF Ask, SetInv
<1>2. Mapped' = Mapped /\ Len(Mapped) = Len(operands)
  BY <1>1, MappedIsSequence DEF Mapped
<1>3. todo' # Nothing
  BY ExpressionAssumption DEF Ask
<1>4. \/ Len(operands) = 0 /\ todo'.op \in {"set", "in set"}
      \/ Len(operands) = 1 /\ todo'.op \in {"set", "in", "card"}
      \/ Len(operands) = 2 /\ todo'.op \in SetOperator \cup Relation
  BY DEF Ask, WithNone, WithOne, WithTwo, Constructed
<1> QED
  BY <1>1, <1>2, <1>3, <1>4 DEF Sets!Ask, Mapped, Sets!SetOperator, Sets!Relation,
     SetOperator, Relation

\* How many elements there are.
LEMMA CardRight ==
  ASSUME SetInv, Card
  PROVE  Sets!Card
<1>1. /\ todo # Nothing /\ todo.op = "card"
      /\ Len(operands) = 1 /\ operands \in Seq(Rep)
  BY AskedFits DEF Card, Doing, SetInv
<1>2. 1 \in 1..Len(operands)
  BY <1>1
<1>3. operands[1] \in Rep /\ Mapped[1] = Elements(operands[1])
  <2>1. operands[1] \in Rep
    BY <1>1, <1>2, ElementOfSeq, Zenon
  <2>2. Mapped[1] = Elements(operands[1])
    BY <1>1, <1>2, MappedIsSequence, Zenon
  <2> QED
    BY <2>1, <2>2
<1>4. todo' = Nothing /\ operands' = <<>> /\ answer' = CARD(operands[1])
  BY DEF Card, Done
<1>5. answer' = Cardinality(Mapped[1])
  BY <1>3, <1>4, CardIsCardinality
<1>6. Mapped' = <<>>
  BY <1>4, MappedNone
<1>7. Sets!Doing({"card"})
  BY <1>1 DEF Sets!Doing
<1>8. Sets!Done(<<>>, Cardinality(Mapped[1]))
  BY <1>4, <1>5, <1>6 DEF Sets!Done, Mapped
<1> QED
  BY <1>7, <1>8, Zenon DEF Sets!Card, Mapped, Sets!Cardinality, Cardinality, Sets!IsFiniteSet, IsFiniteSet

\* Every set expression has the value that set theory gives it, however many bytes,
\* longs and elements there are (the comments at CTTOT.c:66 and cset.c:64); the one
\* step that is none of set theory is the error of O_INCT in px (interp.c:1530).
THEOREM SetExpressionsAreRight == Spec => ImplementsSets
<1>1. Init => Sets!Init
  BY DEF Init, Sets!Init
<1>2. SetInv /\ Next => Sets!Next \/ InctUsed
  BY AskRight, RefuseRight, ConstructRight, OperateRight, CompareRight, MemberRight,
     MemberOfRight, CardRight DEF Next, Sets!Next
<1>3. SetInv /\ [Next]_vars => [Sets!Next \/ InctUsed]_(Sets!vars)
  BY <1>2 DEF vars, Sets!vars
<1> QED
  BY <1>1, <1>3, SetInvHolds, PTL DEF Spec, ImplementsSets

\* A compiled program calls _IN or _INCT of libpc (rval.c:985-996) and never stops
\* there: its set expressions are those of set theory without exception.
THEOREM CompiledSetsAreRight == Spec /\ ~interpreted => Sets!Spec
<1>1. ~interpreted /\ [Next]_vars => ~interpreted'
  <2> SUFFICES ASSUME ~interpreted, [Next]_vars PROVE interpreted' = interpreted
    OBVIOUS
  <2>1. CASE Ask \/ UNCHANGED vars
    BY <2>1 DEF Ask, vars
  <2>2. CASE Refuse \/ ConstantSet \/ Construct \/ Operate
    BY <2>2 DEF Refuse, ConstantSet, Construct, Operate, Push, Done
  <2>3. CASE Compare \/ Member \/ MemberOf \/ InctUsed \/ Card
    BY <2>3 DEF Compare, Member, MemberOf, InctUsed, Card, push2, Done
  <2> QED
    BY <2>1, <2>2, <2>3 DEF Next
<1>2. ~interpreted => ~InctUsed
  BY DEF InctUsed
<1>3. Spec => Sets!Init /\ [][Sets!Next \/ InctUsed]_(Sets!vars)
  BY SetExpressionsAreRight DEF ImplementsSets
<1>4. ~interpreted /\ [Sets!Next \/ InctUsed]_(Sets!vars) => [Sets!Next]_(Sets!vars)
  BY <1>2
<1> QED
  BY <1>1, <1>3, <1>4, PTL DEF Spec, Sets!Spec
=============================================================================
