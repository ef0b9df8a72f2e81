-------------------------- MODULE BigEndianProofs --------------------------
(***************************************************************************)
(* What the conversions of BigEndian compute, for every Base and every     *)
(* number of up to eight bytes: a number that is written byte by byte, and *)
(* read again, is the same number, signed ones included.                   *)
(***************************************************************************)
EXTENDS BigEndian, FiniteSetTheorems, WellFoundedInduction, TLAPS

-----------------------------------------------------------------------------
(* Arithmetic.                                                             *)

\* Quotient and remainder
LEMMA Remainder ==
  ASSUME NEW a \in Int, NEW n \in Int, n > 0,
         NEW q \in Int, q = a \div n, NEW r \in Int, r = a % n
  PROVE  a = n * q + r
  OBVIOUS

\* The same, with their ranges
LEMMA Division ==
  ASSUME NEW a \in Int, NEW n \in Nat \ {0}
  PROVE  \E q \in Int, r \in 0 .. n - 1 :
           q = a \div n /\ r = a % n /\ a = n * q + r
<1>1. a \div n \in Int
  OBVIOUS
<1>2. a % n \in 0 .. n - 1
  OBVIOUS
<1>3. n \in Int /\ n > 0 /\ a % n \in Int
  BY <1>2
<1>4. PICK q \in Int : q = a \div n
  BY <1>1
<1>5. PICK r \in 0 .. n - 1 : r = a % n
  BY <1>2
<1>6. a = n * q + r
  BY <1>3, <1>4, <1>5, Remainder
<1> QED BY <1>4, <1>5, <1>6

\* They are unique.
LEMMA DivisionUnique ==
  ASSUME NEW n \in Nat \ {0}, NEW q \in Int, NEW r \in 0 .. n - 1,
         NEW s \in Int, NEW t \in 0 .. n - 1, n * q + r = n * s + t
  PROVE  q = s /\ r = t
<1>1. n * (q - s) = t - r
  OBVIOUS
<1>2. ~ (q - s >= 1)
  <2>1. SUFFICES ASSUME q - s >= 1 PROVE FALSE
    OBVIOUS
  <2>2. n * (q - s) >= n
    BY <2>1
  <2> QED BY <1>1, <2>2
<1>3. ~ (q - s <= -1)
  <2>1. SUFFICES ASSUME q - s <= -1 PROVE FALSE
    OBVIOUS
  <2>2. n * (q - s) <= -n
    BY <2>1
  <2> QED BY <1>1, <2>2
<1>4. q = s
  BY <1>2, <1>3
<1> QED BY <1>1, <1>4

\* A quotient is found by its properties.
LEMMA Quotient ==
  ASSUME NEW n \in Nat \ {0}, NEW q \in Int, NEW r \in 0 .. n - 1
  PROVE  (n * q + r) \div n = q /\ (n * q + r) % n = r
<1>1. PICK a \in Int : a = n * q + r
  OBVIOUS
<1>2. PICK s \in Int, t \in 0 .. n - 1 : s = a \div n /\ t = a % n /\ a = n * s + t
  BY Division
<1>3. n * s + t = n * q + r
  BY <1>1, <1>2
<1>4. s = q /\ t = r
  BY <1>3, DivisionUnique
<1> QED BY <1>1, <1>2, <1>4

\* Dividing by a product is dividing twice.
LEMMA DivideTwice ==
  ASSUME NEW a \in Int, NEW m \in Nat \ {0}, NEW n \in Nat \ {0}
  PROVE  a \div (n * m) = (a \div m) \div n
<1>1. PICK q \in Int, r \in 0 .. m - 1 : q = a \div m /\ a = m * q + r
  BY Division
<1>2. PICK p \in Int, s \in 0 .. n - 1 : p = q \div n /\ q = n * p + s
  BY Division
<1>3. PICK k \in Nat \ {0} : k = n * m
  OBVIOUS
<1>4. PICK t \in Int : t = m * s + r
  OBVIOUS
<1>5. a = k * p + t
  <2>1. a = m * (n * p + s) + r
    BY <1>1, <1>2
  <2> QED BY <2>1, <1>3, <1>4
<1>6. t \in 0 .. k - 1
  <2>1. m * s >= 0 /\ m * s \in Int
    OBVIOUS
  <2>2. m * s <= m * (n - 1)
    OBVIOUS
  <2>3. m * (n - 1) = k - m
    BY <1>3
  <2> QED BY <1>4, <2>1, <2>2, <2>3
<1>7. (k * p + t) \div k = p
  BY <1>3, <1>6, Quotient
<1> QED BY <1>1, <1>2, <1>3, <1>5, <1>7

\* The powers of Base are positive, and all but the first are 2 or more.
LEMMA Powers ==
  /\ \A k \in 0 .. 8 : Base^k \in Nat \ {0} /\ (k > 0 => Base^k >= 2)
  /\ Base^0 = 1 /\ Base^1 = Base
<1>1. Base^0 = 1 /\ Base^0 \in Nat \ {0}
  BY PowersAssumption
<1>2. ASSUME NEW k \in 0 .. 7, Base^k \in Nat \ {0}
      PROVE  Base^(k + 1) \in Nat \ {0} /\ Base^(k + 1) >= 2
  <2>1. PICK p \in Nat \ {0} : p = Base^k
    BY <1>2
  <2>2. Base^(k + 1) = Base * p
    BY <1>2, <2>1, PowersAssumption
  <2>3. Base * p \in Nat \ {0} /\ Base * p >= 2
    BY BaseAssumption
  <2> QED BY <2>2, <2>3
<1>3. Base^1 \in Nat \ {0} /\ Base^1 >= 2
  BY <1>1, <1>2
<1>4. Base^2 \in Nat \ {0} /\ Base^2 >= 2
  BY <1>2, <1>3
<1>5. Base^3 \in Nat \ {0} /\ Base^3 >= 2
  BY <1>2, <1>4
<1>6. Base^4 \in Nat \ {0} /\ Base^4 >= 2
  BY <1>2, <1>5
<1>7. Base^5 \in Nat \ {0} /\ Base^5 >= 2
  BY <1>2, <1>6
<1>8. Base^6 \in Nat \ {0} /\ Base^6 >= 2
  BY <1>2, <1>7
<1>9. Base^7 \in Nat \ {0} /\ Base^7 >= 2
  BY <1>2, <1>8
<1>10. Base^8 \in Nat \ {0} /\ Base^8 >= 2
  BY <1>2, <1>9
<1>11. Base^1 = Base
  <2>1. Base^(0 + 1) = Base * Base^0
    BY PowersAssumption
  <2> QED BY <2>1, <1>1, BaseAssumption
<1>12. \A k \in 0 .. 8 : k \in {0, 1, 2, 3, 4, 5, 6, 7, 8}
  OBVIOUS
<1> QED BY <1>1, <1>3, <1>4, <1>5, <1>6, <1>7, <1>8, <1>9, <1>10, <1>11, <1>12

-----------------------------------------------------------------------------
(* Bytes.                                                                  *)

\* The byte of u that counts Base^k
Digit(u, k) == (u \div Base^k) % Base

\* What u is from the byte of Base^k on
Above(u, k) == Base^k * (u \div Base^k)

\* A byte is a byte, and adds its part of the number.
LEMMA OneDigit ==
  ASSUME NEW u \in Int, NEW k \in 0 .. 7
  PROVE  /\ Digit(u, k) \in Byte
         /\ Above(u, k) \in Int /\ Above(u, k + 1) \in Int
         /\ Digit(u, k) * Base^k \in Int
         /\ Above(u, k) = Above(u, k + 1) + Digit(u, k) * Base^k
<1>1. PICK w \in Nat \ {0} : w = Base^k
  BY Powers
<1>2. PICK v \in Nat \ {0} : v = Base^(k + 1) /\ v = Base * w
  <2>1. k + 1 \in 0 .. 8
    OBVIOUS
  <2> QED BY <1>1, <2>1, Powers, PowersAssumption
<1>3. PICK q \in Int : q = u \div w
  BY <1>1, Division
<1>4. PICK p \in Int, d \in 0 .. Base - 1 : p = q \div Base /\ d = q % Base /\ q = Base * p + d
  BY BaseAssumption, Division
<1>5. u \div v = p
  <2>1. PICK b \in Nat \ {0} : b = Base
    BY BaseAssumption
  <2>2. u \div (b * w) = (u \div w) \div b
    BY DivideTwice
  <2> QED BY <1>2, <1>3, <1>4, <2>1, <2>2
<1>6. Digit(u, k) = d
  BY <1>1, <1>3, <1>4 DEF Digit
<1>7. Above(u, k) = w * q /\ Above(u, k + 1) = v * p
  BY <1>1, <1>2, <1>3, <1>5 DEF Above
<1>8. w * q = v * p + d * w
  <2>1. w * q = w * (Base * p + d)
    BY <1>4
  <2> QED BY <1>2, <2>1, BaseAssumption
<1>9. w * q \in Int /\ v * p \in Int /\ d * w \in Int
  BY <1>4, BaseAssumption
<1> QED BY <1>1, <1>4, <1>6, <1>7, <1>8, <1>9 DEF Byte

\* Nothing is above a number that fits.
LEMMA Ends ==
  ASSUME NEW n \in 0 .. 8, NEW u \in 0 .. Base^n - 1
  PROVE  Above(u, 0) = u /\ Above(u, n) = 0
<1>1. PICK w \in Nat \ {0} : w = Base^n
  BY Powers
<1>2. u \in 0 .. w - 1
  BY <1>1
<1>3. (w * 0 + u) \div w = 0
  BY <1>2, Quotient
<1>4. u \div w = 0
  BY <1>2, <1>3
<1>5. (1 * u + 0) \div 1 = u
  BY <1>2, Quotient
<1>6. u \div 1 = u
  BY <1>2, <1>5
<1> QED BY <1>1, <1>2, <1>4, <1>6, Powers DEF Above

\* What is written as four bytes is read again.
LEMMA FourBytes ==
  ASSUME NEW u \in 0 .. Base^4 - 1
  PROVE  Digit(u, 3) * Base^3 + Digit(u, 2) * Base^2 + Digit(u, 1) * Base
           + Digit(u, 0) = u
<1>1. u \in Int
  BY Powers
<1>2. Above(u, 0) = u /\ Above(u, 4) = 0
  BY Ends
<1>3. \A k \in 0 .. 7 :
        /\ Above(u, k) \in Int /\ Above(u, k + 1) \in Int
        /\ Digit(u, k) * Base^k \in Int
        /\ Above(u, k) = Above(u, k + 1) + Digit(u, k) * Base^k
  BY <1>1, OneDigit
<1>4. /\ Above(u, 0) \in Int /\ Above(u, 1) \in Int /\ Digit(u, 0) * Base^0 \in Int
      /\ Above(u, 0) = Above(u, 1) + Digit(u, 0) * Base^0
  BY <1>3
<1>5. /\ Above(u, 1) \in Int /\ Above(u, 2) \in Int /\ Digit(u, 1) * Base^1 \in Int
      /\ Above(u, 1) = Above(u, 2) + Digit(u, 1) * Base^1
  BY <1>3
<1>6. /\ Above(u, 2) \in Int /\ Above(u, 3) \in Int /\ Digit(u, 2) * Base^2 \in Int
      /\ Above(u, 2) = Above(u, 3) + Digit(u, 2) * Base^2
  BY <1>3
<1>7. /\ Above(u, 3) \in Int /\ Above(u, 4) \in Int /\ Digit(u, 3) * Base^3 \in Int
      /\ Above(u, 3) = Above(u, 4) + Digit(u, 3) * Base^3
  BY <1>3
<1>8. Digit(u, 0) * Base^0 = Digit(u, 0) /\ Digit(u, 1) * Base^1 = Digit(u, 1) * Base
  <2>1. Digit(u, 0) \in Int /\ Digit(u, 1) \in Int
    BY <1>1, OneDigit, BaseAssumption DEF Byte
  <2> QED BY <2>1, Powers
<1> QED BY <1>2, <1>4, <1>5, <1>6, <1>7, <1>8

\* The same for eight bytes
LEMMA EightBytes ==
  ASSUME NEW u \in 0 .. Base^8 - 1
  PROVE  Digit(u, 7) * Base^7 + Digit(u, 6) * Base^6 + Digit(u, 5) * Base^5
           + Digit(u, 4) * Base^4 + Digit(u, 3) * Base^3 + Digit(u, 2) * Base^2
           + Digit(u, 1) * Base + Digit(u, 0) = u
<1>1. u \in Int
  BY Powers
<1>2. Above(u, 0) = u /\ Above(u, 8) = 0
  BY Ends
<1>3. \A k \in 0 .. 7 :
        /\ Above(u, k) \in Int /\ Above(u, k + 1) \in Int
        /\ Digit(u, k) * Base^k \in Int
        /\ Above(u, k) = Above(u, k + 1) + Digit(u, k) * Base^k
  BY <1>1, OneDigit
<1>4. /\ Above(u, 0) \in Int /\ Above(u, 1) \in Int /\ Digit(u, 0) * Base^0 \in Int
      /\ Above(u, 0) = Above(u, 1) + Digit(u, 0) * Base^0
  BY <1>3
<1>5. /\ Above(u, 1) \in Int /\ Above(u, 2) \in Int /\ Digit(u, 1) * Base^1 \in Int
      /\ Above(u, 1) = Above(u, 2) + Digit(u, 1) * Base^1
  BY <1>3
<1>6. /\ Above(u, 2) \in Int /\ Above(u, 3) \in Int /\ Digit(u, 2) * Base^2 \in Int
      /\ Above(u, 2) = Above(u, 3) + Digit(u, 2) * Base^2
  BY <1>3
<1>7. /\ Above(u, 3) \in Int /\ Above(u, 4) \in Int /\ Digit(u, 3) * Base^3 \in Int
      /\ Above(u, 3) = Above(u, 4) + Digit(u, 3) * Base^3
  BY <1>3
<1>8. /\ Above(u, 4) \in Int /\ Above(u, 5) \in Int /\ Digit(u, 4) * Base^4 \in Int
      /\ Above(u, 4) = Above(u, 5) + Digit(u, 4) * Base^4
  BY <1>3
<1>9. /\ Above(u, 5) \in Int /\ Above(u, 6) \in Int /\ Digit(u, 5) * Base^5 \in Int
      /\ Above(u, 5) = Above(u, 6) + Digit(u, 5) * Base^5
  BY <1>3
<1>10. /\ Above(u, 6) \in Int /\ Above(u, 7) \in Int /\ Digit(u, 6) * Base^6 \in Int
      /\ Above(u, 6) = Above(u, 7) + Digit(u, 6) * Base^6
  BY <1>3
<1>11. /\ Above(u, 7) \in Int /\ Above(u, 8) \in Int /\ Digit(u, 7) * Base^7 \in Int
      /\ Above(u, 7) = Above(u, 8) + Digit(u, 7) * Base^7
  BY <1>3
<1>12. Digit(u, 0) * Base^0 = Digit(u, 0) /\ Digit(u, 1) * Base^1 = Digit(u, 1) * Base
  <2>1. Digit(u, 0) \in Int /\ Digit(u, 1) \in Int
    BY <1>1, OneDigit, BaseAssumption DEF Byte
  <2> QED BY <2>1, Powers
<1> QED BY <1>2, <1>4, <1>5, <1>6, <1>7, <1>8, <1>9, <1>10, <1>11, <1>12

\* The conversion from a signed to an unsigned number of w bytes, and back
LEMMA SignedBack ==
  ASSUME NEW w \in 0 .. 8, NEW i \in Int, -Base^w <= 2 * i, 2 * i < Base^w
  PROVE  /\ ToUnsigned(w, i) \in 0 .. Base^w - 1
         /\ ToSigned(w, ToUnsigned(w, i)) = i
<1>1. PICK n \in Nat \ {0} : n = Base^w
  BY Powers
<1>2. PICK q \in Int, r \in 0 .. n - 1 : r = i % n /\ i = n * q + r
  BY Division
<1>3. CASE i >= 0
  <2>1. (n * 0 + i) % n = i
    BY <1>1, <1>3, Quotient
  <2>2. r = i
    BY <1>2, <1>3, <2>1
  <2> QED BY <1>1, <1>2, <1>3, <2>2 DEF ToUnsigned, ToSigned
<1>4. CASE i < 0
  <2>1. PICK s \in 0 .. n - 1, m \in Int : s = i + n /\ m = -1
    BY <1>1, <1>4
  <2>2. (n * m + s) % n = s
    BY Quotient
  <2>3. n * m + s = i
    BY <2>1
  <2>4. r = i + n
    BY <1>2, <2>1, <2>2, <2>3
  <2> QED BY <1>1, <1>2, <1>4, <2>4 DEF ToUnsigned, ToSigned
<1> QED BY <1>3, <1>4

-----------------------------------------------------------------------------
(* Induction.                                                              *)

\* Every set of numbers that is not empty has a least one.
LEMMA LeastNumber ==
  ASSUME NEW T \in SUBSET Nat, T # {}
  PROVE  \E n \in T : \A k \in T : n <= k
<1> DEFINE R == OpToRel(<, Nat)
<1>1. IsWellFoundedOn(R, Nat)
  BY NatLessThanWellFounded
<1>2. \A x, y \in Nat : ~(<<y, x>> \in R) => x <= y
  BY DEF OpToRel
<1> HIDE DEF R
<1>3. PICK n \in T : \A k \in T : ~(<<k, n>> \in R)
  BY <1>1, WFMin
<1>4. \A k \in T : n <= k
  BY <1>2, <1>3, Zenon
<1> QED BY <1>4

\* A set that holds 0, and with each number the next one, holds all numbers:
\* induction, for a property given as the set of the numbers that have it.
LEMMA Induction ==
  ASSUME NEW T, 0 \in T, \A n \in Nat : n \in T => n + 1 \in T
  PROVE  Nat \subseteq T
<1>1. SUFFICES ASSUME Nat \ T # {} PROVE FALSE
  OBVIOUS
<1>2. PICK n \in Nat \ T : \A k \in Nat \ T : n <= k
  BY <1>1, LeastNumber
<1>3. n - 1 \in Nat /\ n - 1 \in T /\ (n - 1) + 1 = n
  BY <1>2
<1> QED BY <1>2, <1>3

-----------------------------------------------------------------------------
(* Sums.                                                                   *)

\* The element that MapThenSumSet takes from a set first
Some(t) == CHOOSE x \in t : TRUE

\* h is the sum of F over t.
SumsOf(h, F, t) ==
  h[t] = IF t = {} THEN 0 ELSE F[Some(t)] + h[t \ {Some(t)}]

\* h does not depend on which element is taken first.
AnyOrder(h, F, S) ==
  \A t \in SUBSET S : \A x \in t : h[t] = F[x] + h[t \ {x}]

\* A finite set has finite subsets, and one element less without some element.
LEMMA Smaller ==
  ASSUME NEW S, IsFiniteSet(S), NEW t \in SUBSET S, NEW x \in t
  PROVE  /\ Cardinality(t) \in Nat \ {0}
         /\ t \ {x} \in SUBSET S
         /\ Cardinality(t \ {x}) = Cardinality(t) - 1
<1>1. IsFiniteSet(t)
  BY FS_Subset
<1>2. Cardinality(t) \in Nat /\ Cardinality(t \ {x}) = Cardinality(t) - 1
  BY <1>1, FS_CardinalityType, FS_RemoveElement
<1>3. Cardinality(t) # 0
  BY <1>1, FS_EmptySet
<1> QED BY <1>2, <1>3

\* There is such an h for all the subsets of a finite set.
LEMMA SumExists ==
  ASSUME NEW S, IsFiniteSet(S), NEW F \in [S -> Int]
  PROVE  \E h \in [SUBSET S -> Int] : \A t \in SUBSET S : SumsOf(h, F, t)
<1> DEFINE T == {n \in Nat : \E h \in [SUBSET S -> Int] :
                   \A t \in SUBSET S : Cardinality(t) <= n => SumsOf(h, F, t)}
<1>1. 0 \in T
  <2>1. PICK h : h = [t \in SUBSET S |-> 0]
    OBVIOUS
  <2>2. h \in [SUBSET S -> Int]
    BY <2>1
  <2>3. ASSUME NEW t \in SUBSET S, Cardinality(t) <= 0
        PROVE  SumsOf(h, F, t)
    <3>1. t = {}
      <4>1. SUFFICES ASSUME NEW x \in t PROVE FALSE
        OBVIOUS
      <4>2. Cardinality(t) \in Nat \ {0}
        BY Smaller
      <4> QED BY <2>3, <4>2
    <3> QED BY <2>1, <3>1 DEF SumsOf
  <2> QED BY <2>2, <2>3
<1>2. ASSUME NEW n \in Nat, n \in T
      PROVE  n + 1 \in T
  <2>1. PICK h \in [SUBSET S -> Int] :
          \A t \in SUBSET S : Cardinality(t) <= n => SumsOf(h, F, t)
    BY <1>2
  <2>2. PICK g : g = [t \in SUBSET S |->
          IF Cardinality(t) = n + 1 THEN F[Some(t)] + h[t \ {Some(t)}] ELSE h[t]]
    OBVIOUS
  <2>3. \A t \in SUBSET S : t # {} => Some(t) \in t /\ t \ {Some(t)} \in SUBSET S
    BY DEF Some
  <2>4. ASSUME NEW t \in SUBSET S
        PROVE  g[t] \in Int
    <3>1. CASE Cardinality(t) = n + 1
      <4>0. Cardinality({}) = 0 /\ n + 1 # 0
        BY FS_EmptySet
      <4>1. t # {}
        BY <3>1, <4>0
      <4> QED BY <2>2, <2>3, <3>1, <4>1
    <3>2. CASE Cardinality(t) # n + 1
      BY <2>2, <3>2
    <3> QED BY <3>1, <3>2
  <2>5. g \in [SUBSET S -> Int]
    BY <2>2, <2>4
  <2>6. ASSUME NEW t \in SUBSET S, Cardinality(t) <= n + 1
        PROVE  SumsOf(g, F, t)
    <3>1. CASE t = {}
      <4>1. g[t] = h[t] /\ SumsOf(h, F, t)
        BY <2>1, <2>2, <3>1, FS_EmptySet
      <4> QED BY <3>1, <4>1 DEF SumsOf
    <3>2. CASE t # {}
      <4>1. PICK x \in t : x = Some(t)
        BY <2>3, <3>2
      <4>2. /\ Cardinality(t) \in Nat \ {0} /\ t \ {x} \in SUBSET S
            /\ Cardinality(t \ {x}) = Cardinality(t) - 1
        BY Smaller
      <4>3. g[t \ {x}] = h[t \ {x}]
        BY <2>2, <2>6, <4>2
      <4>4. g[t] = F[x] + h[t \ {x}]
        <5>1. CASE Cardinality(t) = n + 1
          BY <2>2, <4>1, <5>1
        <5>2. CASE Cardinality(t) # n + 1
          <6>1. g[t] = h[t]
            BY <2>2, <5>2
          <6>2. SumsOf(h, F, t)
            BY <2>1, <2>6, <4>2, <5>2
          <6> QED BY <3>2, <4>1, <6>1, <6>2 DEF SumsOf
        <5> QED BY <5>1, <5>2
      <4> QED BY <3>2, <4>1, <4>3, <4>4 DEF SumsOf
    <3> QED BY <3>1, <3>2
  <2> QED BY <2>5, <2>6
<1> HIDE DEF T
<1>3. Nat \subseteq T
  BY <1>1, <1>2, Induction
<1>4. Cardinality(S) \in Nat /\ \A t \in SUBSET S : Cardinality(t) <= Cardinality(S)
  BY FS_CardinalityType, FS_Subset
<1>5. Cardinality(S) \in T
  BY <1>3, <1>4
<1> QED BY <1>4, <1>5 DEF T

\* There is only one.
LEMMA SumUnique ==
  ASSUME NEW S, IsFiniteSet(S), NEW F \in [S -> Int], NEW g, NEW h,
         \A t \in SUBSET S : SumsOf(g, F, t) /\ SumsOf(h, F, t)
  PROVE  \A t \in SUBSET S : g[t] = h[t]
<1> DEFINE T == {n \in Nat : \A t \in SUBSET S :
                   Cardinality(t) <= n => g[t] = h[t]}
<1>0. \A t \in SUBSET S : t = {} => g[t] = h[t]
  BY DEF SumsOf
<1>1. 0 \in T
  <2>1. SUFFICES ASSUME NEW t \in SUBSET S, Cardinality(t) <= 0, t # {}
                 PROVE  FALSE
    BY <1>0
  <2>2. PICK x \in t : TRUE
    BY <2>1
  <2>3. Cardinality(t) \in Nat \ {0}
    BY Smaller
  <2> QED BY <2>1, <2>3
<1>2. ASSUME NEW n \in Nat, n \in T
      PROVE  n + 1 \in T
  <2>1. SUFFICES ASSUME NEW t \in SUBSET S, Cardinality(t) <= n + 1, t # {}
                 PROVE  g[t] = h[t]
    BY <1>0
  <2>2. PICK x \in t : x = Some(t)
    BY <2>1 DEF Some
  <2>3. /\ Cardinality(t) \in Nat \ {0} /\ t \ {x} \in SUBSET S
        /\ Cardinality(t \ {x}) = Cardinality(t) - 1
    BY Smaller
  <2>4. Cardinality(t \ {x}) <= n
    BY <2>1, <2>3
  <2>5. g[t \ {x}] = h[t \ {x}]
    BY <1>2, <2>3, <2>4
  <2> QED BY <2>1, <2>2, <2>5 DEF SumsOf
<1> HIDE DEF T
<1>3. Nat \subseteq T
  BY <1>1, <1>2, Induction
<1>4. Cardinality(S) \in Nat /\ \A t \in SUBSET S : Cardinality(t) <= Cardinality(S)
  BY FS_CardinalityType, FS_Subset
<1>5. Cardinality(S) \in T
  BY <1>3, <1>4
<1> QED BY <1>4, <1>5 DEF T

\* Such an h does not depend on which element is taken first.
LEMMA SumAnyOrder ==
  ASSUME NEW S, IsFiniteSet(S), NEW F \in [S -> Int],
         NEW h \in [SUBSET S -> Int], \A t \in SUBSET S : SumsOf(h, F, t)
  PROVE  AnyOrder(h, F, S)
<1> DEFINE T == {n \in Nat : \A t \in SUBSET S : \A x \in t :
                   Cardinality(t) <= n => h[t] = F[x] + h[t \ {x}]}
<1>1. 0 \in T
  <2>1. \A t \in SUBSET S : \A x \in t : ~(Cardinality(t) <= 0)
    <3>1. SUFFICES ASSUME NEW t \in SUBSET S, NEW x \in t
                   PROVE  ~(Cardinality(t) <= 0)
      OBVIOUS
    <3>2. Cardinality(t) \in Nat \ {0}
      BY Smaller
    <3> QED BY <3>2
  <2> QED BY <2>1
<1>2. ASSUME NEW n \in Nat, n \in T
      PROVE  n + 1 \in T
  <2>1. SUFFICES ASSUME NEW t \in SUBSET S, NEW x \in t, Cardinality(t) <= n + 1
                 PROVE  h[t] = F[x] + h[t \ {x}]
    OBVIOUS
  <2>2. PICK c \in t : c = Some(t)
    BY DEF Some
  <2>3. h[t] = F[c] + h[t \ {c}]
    BY <2>2 DEF SumsOf
  <2>4. CASE x = c
    BY <2>3, <2>4
  <2>5. CASE x # c
    <3>1. PICK u \in SUBSET S, v \in SUBSET S : u = t \ {c} /\ v = t \ {x}
      OBVIOUS
    <3>2. x \in u /\ c \in v /\ u \ {x} = v \ {c} /\ u \ {x} \in SUBSET S
      BY <2>5, <3>1
    <3>3. Cardinality(u) <= n /\ Cardinality(v) <= n
      <4>1. /\ Cardinality(t) \in Nat
            /\ Cardinality(t \ {c}) = Cardinality(t) - 1
            /\ Cardinality(t \ {x}) = Cardinality(t) - 1
        BY Smaller
      <4> QED BY <2>1, <3>1, <4>1
    <3>4. h[u] = F[x] + h[u \ {x}] /\ h[v] = F[c] + h[v \ {c}]
      BY <1>2, <3>2, <3>3
    <3>5. F[x] \in Int /\ F[c] \in Int /\ h[u \ {x}] \in Int
      BY <3>2
    <3>6. PICK a \in Int, b \in Int, d \in Int :
            a = F[x] /\ b = F[c] /\ d = h[u \ {x}]
      BY <3>5
    <3>7. h[t] = b + h[u] /\ h[u] = a + d /\ h[v] = b + d
      BY <2>3, <3>1, <3>2, <3>4, <3>6
    <3>8. b + (a + d) = a + (b + d)
      OBVIOUS
    <3> QED BY <3>1, <3>6, <3>7, <3>8
  <2> QED BY <2>4, <2>5
<1> HIDE DEF T
<1>3. Nat \subseteq T
  BY <1>1, <1>2, Induction
<1>4. Cardinality(S) \in Nat /\ \A t \in SUBSET S : Cardinality(t) <= Cardinality(S)
  BY FS_CardinalityType, FS_Subset
<1>5. Cardinality(S) \in T
  BY <1>3, <1>4
<1> QED BY <1>4, <1>5 DEF T, AnyOrder

\* What Decode sums up, from the most significant byte to the k-th
Value(s, n) == [i \in 1 .. n |-> s[i] * Base^(n - i)]

\* h[1 .. k] is the sum of the first k of them, and the last is the whole.
Adds(h, s, n) ==
  /\ Decode(s) = h[1 .. n]
  /\ h[{}] = 0
  /\ \A k \in 1 .. n : h[1 .. k] = Value(s, n)[k] + h[1 .. k - 1]

LEMMA DecodeSum ==
  ASSUME NEW s, NEW n \in Nat, DOMAIN s = 1 .. n, Len(s) = n,
         Value(s, n) \in [1 .. n -> Int]
  PROVE  \E h \in [SUBSET (1 .. n) -> Int] : Adds(h, s, n)
<1>0. PICK S : S = 1 .. n
  OBVIOUS
<1> DEFINE Iter(h) == h = [t \in SUBSET S |->
                             IF t = {} THEN 0
                             ELSE s[Some(t)] * Base^(n - Some(t))
                                    + h[t \ {Some(t)}]]
<1>1. IsFiniteSet(S)
  BY <1>0, FS_Interval
<1>2. PICK F \in [S -> Int] : F = Value(s, n)
  BY <1>0
<1>3. \A t \in SUBSET S : t # {} =>
        Some(t) \in S /\ F[Some(t)] = s[Some(t)] * Base^(n - Some(t))
  BY <1>0, <1>2 DEF Value, Some
<1>4. PICK g \in [SUBSET S -> Int] : \A t \in SUBSET S : SumsOf(g, F, t)
  BY <1>1, SumExists
<1>5. Iter(g)
  <2>1. ASSUME NEW t \in SUBSET S
        PROVE  g[t] = IF t = {} THEN 0
                      ELSE s[Some(t)] * Base^(n - Some(t)) + g[t \ {Some(t)}]
    BY <1>3, <1>4 DEF SumsOf
  <2> QED BY <2>1
<1>6. Decode(s) = (CHOOSE h : Iter(h))[S]
  BY <1>0 DEF Decode, MapThenSumSet, MapThenFoldSet, Some
<1>7. PICK h : Iter(h) /\ Decode(s) = h[S]
  <2>1. \E h : Iter(h)
    BY <1>5
  <2> HIDE DEF Iter
  <2> QED BY <2>1, <1>6
<1>8. \A t \in SUBSET S : SumsOf(h, F, t)
  BY <1>3, <1>7 DEF SumsOf
<1>9. S \in SUBSET S /\ \A t \in SUBSET S : g[t] = h[t]
  <2>1. \A t \in SUBSET S : SumsOf(g, F, t) /\ SumsOf(h, F, t)
    BY <1>4, <1>8
  <2> HIDE DEF Iter
  <2> QED BY <1>1, <2>1, SumUnique
<1>10. Decode(s) = g[S]
  BY <1>7, <1>9
<1>11. g[{}] = 0
  BY <1>4 DEF SumsOf
<1>12. ASSUME NEW k \in 1 .. n
       PROVE  g[1 .. k] = F[k] + g[1 .. k - 1]
  <2> HIDE DEF Iter
  <2>1. AnyOrder(g, F, S)
    BY <1>1, <1>4, SumAnyOrder
  <2>2. 1 .. k \in SUBSET S /\ k \in 1 .. k /\ (1 .. k) \ {k} = 1 .. k - 1
    BY <1>0
  <2>3. g[1 .. k] = F[k] + g[(1 .. k) \ {k}]
    BY <2>1, <2>2 DEF AnyOrder
  <2> QED BY <2>2, <2>3
<1>13. Adds(g, s, n)
  BY <1>0, <1>2, <1>10, <1>11, <1>12 DEF Adds
<1> QED BY <1>0, <1>13

\* An integer of up to eight bytes that is written most significant byte first,
\* and read again, is the same integer (nng_msg_append_u16, _u32 and _u64, and
\* the trim and chop of the same width).
THEOREM DecodeEncode ==
  ASSUME NEW w \in 1 .. 8, NEW v \in Uint(w)
  PROVE  Decode(Encode(w, v)) = v
<1>1. PICK s : s = Encode(w, v)
  OBVIOUS
<1>2. v \in 0 .. Base^w - 1 /\ v \in Int
  BY Powers DEF Uint
<1>3. DOMAIN s = 1 .. w /\ Len(s) = w
  BY <1>1 DEF Encode
<1>4. ASSUME NEW k \in 1 .. w
      PROVE  /\ Value(s, w)[k] = Digit(v, w - k) * Base^(w - k)
             /\ Value(s, w)[k] \in Int
             /\ Above(v, w - (k - 1)) \in Int
             /\ Above(v, w - k)
                  = Value(s, w)[k] + Above(v, w - (k - 1))
  <2>1. PICK j \in 0 .. 7 : j = w - k /\ j + 1 = w - (k - 1)
    OBVIOUS
  <2>2. Value(s, w)[k] = Digit(v, j) * Base^j
    BY <1>1, <2>1 DEF Value, Encode, Digit
  <2>3. /\ Above(v, j) \in Int /\ Above(v, j + 1) \in Int
        /\ Digit(v, j) * Base^j \in Int
        /\ Above(v, j) = Above(v, j + 1) + Digit(v, j) * Base^j
    BY <1>2, OneDigit
  <2>4. Above(v, j) = Digit(v, j) * Base^j + Above(v, j + 1)
    BY <2>3
  <2> QED BY <2>1, <2>2, <2>3, <2>4
<1>5. Value(s, w) \in [1 .. w -> Int]
  <2>1. Value(s, w) = [i \in 1 .. w |-> Value(s, w)[i]]
    BY DEF Value
  <2> QED BY <1>4, <2>1
<1>6. PICK h \in [SUBSET (1 .. w) -> Int] : Adds(h, s, w)
  <2>1. w \in Nat
    OBVIOUS
  <2> QED BY <1>3, <1>5, <2>1, DecodeSum
<1> DEFINE T == {k \in Nat : k <= w => h[1 .. k] = Above(v, w - k)}
<1>7. 0 \in T
  <2>1. 1 .. 0 = {} /\ w - 0 = w /\ w \in 0 .. 8
    OBVIOUS
  <2>2. Above(v, w) = 0
    BY <1>2, <2>1, Ends
  <2> QED BY <1>6, <2>1, <2>2 DEF Adds
<1>8. ASSUME NEW n \in Nat, n \in T
      PROVE  n + 1 \in T
  <2>1. SUFFICES ASSUME n + 1 <= w
                 PROVE  h[1 .. n + 1] = Above(v, w - (n + 1))
    OBVIOUS
  <2>2. PICK k \in 1 .. w : k = n + 1 /\ k - 1 = n
    BY <2>1
  <2>3. h[1 .. n] = Above(v, w - n)
    BY <1>8, <2>1
  <2>4. h[1 .. k] = Value(s, w)[k] + h[1 .. k - 1]
    BY <1>6 DEF Adds
  <2>5. Above(v, w - k) = Value(s, w)[k] + Above(v, w - (k - 1))
    BY <1>4
  <2> QED BY <2>2, <2>3, <2>4, <2>5
<1> HIDE DEF T
<1>9. Nat \subseteq T
  BY <1>7, <1>8, Induction
<1>10. h[1 .. w] = Above(v, w - w)
  BY <1>9 DEF T
<1>11. w - w = 0 /\ Above(v, 0) = v
  <2>1. w \in 0 .. 8
    OBVIOUS
  <2> QED BY <1>2, <2>1, Ends
<1> QED BY <1>1, <1>6, <1>10, <1>11 DEF Adds
=============================================================================
