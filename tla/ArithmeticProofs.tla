------------------------- MODULE ArithmeticProofs -------------------------
(***************************************************************************)
(* The roundings of math_utils.h, for every width of a byte and of long,   *)
(* every value and every multiple.  A cast is a remainder, so the proof is *)
(* about remainders: what the C division truncates (Truncated), that the   *)
(* multiple on one side of a value within the distance r is one            *)
(* (SameMultiple), that a cast gives back the value a multiple of the      *)
(* range was added to (CastWraps), and that a power of two that the type   *)
(* holds divides that range (PowerDividesRange).  Powers are not defined   *)
(* by recursion here: 2 ^ n is the number of subsets of a set of n.        *)
(* The patterns and random numbers follow: they rest on the same facts     *)
(* about remainders and powers.  Then the bit operations: what each        *)
(* does is told place by place (InShl, InShr, InField), a value is divided *)
(* into units by quotient and remainder (PlaceOfUnit), and the two loops   *)
(* are the functions that they were meant to be, for they differ from them *)
(* at no first place (OnesAreCounted, BytesCollected).  Of the conversions *)
(* those of temperatures are truncations and nudges within the 16 bits of  *)
(* the type (DivisionTruncates, NudgedByOne, Int16Keeps), and the units    *)
(* rest on each being worth no less than the one before (WorthsGrow).      *)
(* Last come the times: a second is a day and a second of that day         *)
(* (PartsOfDay), every year begins 365 or 366 days after the one before    *)
(* (YearIsLong, YearsApart), so the largest year and month that begin no   *)
(* later than a day are the ones it is of (CalendarDates); two dates of    *)
(* one month are of one year when they are close (OneMonth), and what is   *)
(* left of a sleep after each signal adds up (SleepIsWhole).               *)
(***************************************************************************)
EXTENDS PatternCalls, ConversionCalls, TimeCalls, FiniteSetTheorems, WellFoundedInduction, TLAPS

-----------------------------------------------------------------------------
(* Powers of two: the number of the subsets of a set                       *)

LEMMA PowerIsNumberOfSubsets ==
    ASSUME NEW n \in Nat
    PROVE  /\ IsFiniteSet(1 .. n) /\ Cardinality(1 .. n) = n
           /\ IsFiniteSet(SUBSET (1 .. n)) /\ Cardinality(SUBSET (1 .. n)) = 2 ^ n
<1>1. IsFiniteSet(1 .. n) /\ Cardinality(1 .. n) = n
  BY FS_Interval
<1>2. IsFiniteSet(SUBSET (1 .. n)) /\ Cardinality(SUBSET (1 .. n)) = 2 ^ Cardinality(1 .. n)
  BY <1>1, FS_SUBSET, Zenon
<1>3. QED
  BY <1>1, <1>2, Zenon

LEMMA PowerIsPositive ==
    ASSUME NEW n \in Nat
    PROVE  2 ^ n \in Nat \ {0}
<1>1. Cardinality(SUBSET (1 .. n)) \in Nat
  BY PowerIsNumberOfSubsets, FS_CardinalityType, Zenon
<1>2. Cardinality(SUBSET (1 .. n)) # 0
  <2>1. {} \in SUBSET (1 .. n)
    OBVIOUS
  <2>2. SUBSET (1 .. n) # {}
    BY <2>1, Zenon
  <2>3. QED
    BY <2>2, PowerIsNumberOfSubsets, FS_EmptySet, Zenon
<1>3. 2 ^ n = Cardinality(SUBSET (1 .. n))
  BY PowerIsNumberOfSubsets, Zenon
<1>4. QED
  BY <1>1, <1>2, <1>3, Zenon

\* The subsets that hold the last element are as many as those that do not.
LEMMA PowerDoubles ==
    ASSUME NEW n \in Nat
    PROVE  2 ^ (n + 1) = 2 * 2 ^ n
<1> DEFINE A == SUBSET (1 .. n)
           B == {s \cup {n + 1} : s \in A}
           f == [s \in A |-> s \cup {n + 1}]
<1>1. IsFiniteSet(A) /\ Cardinality(A) = 2 ^ n
  BY PowerIsNumberOfSubsets, Zenon
<1>2. f \in Bijection(A, B)
  <2>1. f \in [A -> B] /\ \A y \in B : \E s \in A : f[s] = y
    OBVIOUS
  <2>2. ASSUME NEW s \in A, NEW t \in A, f[s] = f[t] PROVE s = t
    <3>1. n + 1 \notin s /\ n + 1 \notin t
      OBVIOUS
    <3>2. s \cup {n + 1} = t \cup {n + 1}
      BY <2>2
    <3>3. \A i : i \in s <=> i \in t
      BY <3>1, <3>2
    <3>4. QED
      BY <3>3
  <2> HIDE DEF A, B, f
  <2>3. QED
    BY <2>1, <2>2 DEF Bijection, Injection, Surjection, IsInjective
<1>3. IsFiniteSet(B) /\ Cardinality(B) = 2 ^ n
  <2> HIDE DEF A, B, f
  <2>1. ExistsBijection(A, B)
    BY <1>2, Zenon DEF ExistsBijection
  <2>2. QED
    BY <1>1, <2>1, FS_Bijection, Zenon
<1>4. SUBSET (1 .. n + 1) = A \cup B
  <2>1. ASSUME NEW s \in SUBSET (1 .. n + 1) PROVE s \in A \cup B
    <3>1. CASE n + 1 \in s
      <4>1. s \ {n + 1} \in A
        OBVIOUS
      <4>2. s = (s \ {n + 1}) \cup {n + 1}
        BY <3>1
      <4>3. QED
        BY <4>1, <4>2
    <3>2. CASE n + 1 \notin s
      BY <3>2
    <3>3. QED
      BY <3>1, <3>2
  <2>2. \A s \in A : s \in SUBSET (1 .. n + 1) /\ s \cup {n + 1} \in SUBSET (1 .. n + 1)
    OBVIOUS
  <2>3. \A s \in A \cup B : s \in SUBSET (1 .. n + 1)
    BY <2>2
  <2> HIDE DEF A, B, f
  <2>4. QED
    BY <2>1, <2>3
<1>5. A \cap B = {}
  OBVIOUS
<1>6. Cardinality(A \cup B) = Cardinality(A) + Cardinality(B)
  <2> HIDE DEF A, B, f
  <2>1. Cardinality(A \cap B) = 0
    BY <1>5, FS_EmptySet
  <2>2. Cardinality(A \cup B) = Cardinality(A) + Cardinality(B) - Cardinality(A \cap B)
    BY <1>1, <1>3, FS_Union, Zenon
  <2>3. 2 ^ n \in Nat
    BY PowerIsPositive
  <2>4. QED
    BY <1>1, <1>3, <2>1, <2>2, <2>3
<1>7. Cardinality(SUBSET (1 .. n + 1)) = 2 ^ (n + 1)
  <2>1. n + 1 \in Nat
    OBVIOUS
  <2>2. QED
    BY <2>1, PowerIsNumberOfSubsets, Zenon
<1>8. 2 ^ n \in Nat
  BY PowerIsPositive
<1> HIDE DEF A, B, f
<1>9. 2 ^ (n + 1) = 2 ^ n + 2 ^ n
  BY <1>1, <1>3, <1>4, <1>6, <1>7, Zenon
<1>10. QED
  BY <1>8, <1>9

\* A non-empty set of numbers has a least one, and Min is it.
LEMMA LeastNumber ==
    ASSUME NEW S, S \subseteq Nat, S # {}
    PROVE  Min(S) \in S /\ \A y \in S : Min(S) <= y
<1>1. PICK x \in S : \A y \in S : ~(<<y, x>> \in OpToRel(<, Nat))
  BY WFMin, NatLessThanWellFounded, Zenon
<1>2. \A y \in S : ~(y < x)
  BY <1>1, Zenon DEF OpToRel
<1>3. \E z \in S : \A y \in S : z <= y
  BY <1>2
<1>4. QED
  BY <1>3 DEF Min

LEMMA PowerAdds ==
    ASSUME NEW m \in Nat, NEW k \in Nat
    PROVE  2 ^ (m + k) = 2 ^ m * 2 ^ k
<1> DEFINE Lost == {j \in Nat : 2 ^ (m + j) # 2 ^ m * 2 ^ j}
<1>1. SUFFICES ASSUME Lost # {} PROVE FALSE
  OBVIOUS
<1> DEFINE j == Min(Lost)
<1>2. j \in Lost /\ \A i \in Lost : j <= i
  <2> HIDE DEF Lost
  <2>1. Lost \subseteq Nat
    BY DEF Lost
  <2>2. QED
    BY <1>1, <2>1, LeastNumber
<1> HIDE DEF j
<1>3. j \in Nat /\ 2 ^ m \in Nat
  BY <1>2, PowerIsPositive
<1>4. j # 0
  <2>1. SUFFICES ASSUME j = 0 PROVE FALSE
    OBVIOUS
  <2>2. 2 ^ 0 = 1
    OBVIOUS
  <2>3. m + j = m
    BY <2>1
  <2>4. 2 ^ (m + j) = 2 ^ m /\ 2 ^ j = 1
    BY <2>1, <2>2, <2>3, Zenon
  <2>5. QED
    BY <1>2, <1>3, <2>4
<1>5. PICK i \in Nat : i = j - 1
  BY <1>3, <1>4
<1>6. 2 ^ (m + i) = 2 ^ m * 2 ^ i
  BY <1>2, <1>5
<1>7. 2 ^ (m + i + 1) = 2 * 2 ^ (m + i) /\ 2 ^ (i + 1) = 2 * 2 ^ i
  BY PowerDoubles
<1>8. m + i + 1 = m + j /\ i + 1 = j
  BY <1>3, <1>5
<1>9. 2 ^ (m + j) = 2 * 2 ^ (m + i) /\ 2 ^ j = 2 * 2 ^ i
  BY <1>7, <1>8, Zenon
<1>10. 2 ^ i \in Nat
  BY PowerIsPositive
<1>11. 2 ^ (m + j) = 2 ^ m * 2 ^ j
  <2>1. \A a \in Nat, b \in Nat : 2 * (a * b) = a * (2 * b)
    OBVIOUS
  <2>2. 2 * (2 ^ m * 2 ^ i) = 2 ^ m * (2 * 2 ^ i)
    BY <1>3, <1>10, <2>1, Zenon
  <2>3. QED
    BY <1>6, <1>9, <2>2, Zenon
<1>12. QED
  BY <1>2, <1>11

LEMMA PowerGrows ==
    ASSUME NEW m \in Nat, NEW n \in Nat, m <= n
    PROVE  /\ 2 ^ m <= 2 ^ n /\ 2 ^ n % 2 ^ m = 0
           /\ m < n => 2 * 2 ^ m <= 2 ^ n
<1>1. PICK k \in Nat : n = m + k
  <2>1. n - m \in Nat /\ n = m + (n - m)
    OBVIOUS
  <2>2. QED
    BY <2>1
<1>2. 2 ^ n = 2 ^ m * 2 ^ k
  BY <1>1, PowerAdds, Zenon
<1>3. 2 ^ m \in Nat \ {0} /\ 2 ^ k \in Nat \ {0}
  BY PowerIsPositive
<1>4. \A a \in Nat \ {0}, b \in Nat \ {0} : a <= a * b /\ (a * b) % a = 0
  OBVIOUS
<1>5. 2 ^ m <= 2 ^ n /\ 2 ^ n % 2 ^ m = 0
  BY <1>2, <1>3, <1>4
<1>6. ASSUME m < n PROVE 2 * 2 ^ m <= 2 ^ n
  <2>1. PICK i \in Nat : k = i + 1
    <3>1. k - 1 \in Nat /\ k = (k - 1) + 1
      BY <1>1, <1>6
    <3>2. QED
      BY <3>1
  <2>2. 2 ^ k = 2 * 2 ^ i /\ 2 ^ i \in Nat \ {0}
    BY <2>1, PowerDoubles, PowerIsPositive
  <2>3. \A a \in Nat \ {0}, b \in Nat \ {0} : 2 * a <= a * (2 * b)
    OBVIOUS
  <2>4. 2 * 2 ^ m <= 2 ^ m * (2 * 2 ^ i)
    BY <1>3, <2>2, <2>3
  <2>5. QED
    BY <1>2, <2>2, <2>4
<1>7. QED
  BY <1>5, <1>6

-----------------------------------------------------------------------------
(* Multiples                                                               *)

\* m is the multiple of r that is nearest to v on the side asked for.
IsMultiple(down, v, r, m) ==
    /\ m \in Int /\ m % r = 0
    /\ IF down THEN m \in (v - r) + 1 .. v ELSE m \in v .. (v + r) - 1

LEMMA Divided ==
    ASSUME NEW v \in Int, NEW r \in Nat \ {0}
    PROVE  /\ v \div r \in Int /\ v % r \in 0 .. r - 1 /\ v = r * (v \div r) + (v % r)
           /\ (v - (v % r)) % r = 0
<1>1. v \div r \in Int /\ v % r \in 0 .. r - 1 /\ v = r * (v \div r) + (v % r)
  OBVIOUS
<1>2. \A q \in Int : (r * q) % r = 0
  OBVIOUS
<1>3. v - (v % r) = r * (v \div r)
  BY <1>1
<1>4. QED
  BY <1>1, <1>2, <1>3

LEMMA OnlyMultiple ==
    ASSUME NEW r \in Nat \ {0}, NEW m \in Int, NEW n \in Int, m % r = 0, n % r = 0,
           m - n < r, n - m < r
    PROVE  m = n
<1>1. /\ m \div r \in Int /\ m = r * (m \div r)
      /\ n \div r \in Int /\ n = r * (n \div r)
  BY Divided
<1>2. \A a \in Int, b \in Int : a < b => r * b - r * a >= r
  <2>1. SUFFICES ASSUME NEW a \in Int, NEW b \in Int, a < b PROVE r * b - r * a >= r
    OBVIOUS
  <2>2. PICK d \in Nat : b = a + 1 + d
    <3>1. b - a - 1 \in Nat /\ b = a + 1 + (b - a - 1)
      BY <2>1
    <3>2. QED
      BY <3>1
  <2>3. r * b = r * a + r + r * d /\ r * d >= 0
    BY <2>2
  <2>4. QED
    BY <2>3
<1>3. ~(m \div r < n \div r)
  BY <1>1, <1>2
<1>4. ~(n \div r < m \div r)
  BY <1>1, <1>2
<1>5. m \div r = n \div r
  BY <1>1, <1>3, <1>4
<1>6. QED
  BY <1>1, <1>5

LEMMA SameMultiple ==
    ASSUME NEW down \in BOOLEAN, NEW v \in Int, NEW r \in Nat \ {0}, NEW m, NEW n,
           IsMultiple(down, v, r, m), IsMultiple(down, v, r, n)
    PROVE  m = n
<1>1. m \in Int /\ n \in Int /\ m % r = 0 /\ n % r = 0 /\ m - n < r /\ n - m < r
  BY DEF IsMultiple
<1>2. QED
  BY <1>1, OnlyMultiple

LEMMA ModuloOfSum ==
    ASSUME NEW r \in Nat \ {0}, NEW q \in Int, NEW v \in Int
    PROVE  (r * q + v) % r = v % r
<1>1. v % r \in 0 .. r - 1 /\ v \div r \in Int /\ v = r * (v \div r) + (v % r)
  BY Divided
<1>2. r * q + v = r * (q + (v \div r)) + (v % r)
  BY <1>1
<1>3. \A a \in Int, b \in 0 .. r - 1 : (r * a + b) % r = b
  OBVIOUS
<1>4. q + (v \div r) \in Int
  BY <1>1
<1>5. (r * (q + (v \div r)) + (v % r)) % r = v % r
  BY <1>1, <1>3, <1>4, Zenon
<1>6. QED
  BY <1>2, <1>5, Zenon

-----------------------------------------------------------------------------
(* The types                                                               *)

Widths == {U8, U16, U32, U64}

LEMMA WidthsOfTypes ==
    /\ Widths \subseteq Nat \ {0} /\ \A w \in Widths : w <= U64
    /\ U8 # U16 /\ U8 # U32 /\ U8 # U64 /\ U16 # U32 /\ U16 # U64 /\ U32 # U64
    /\ LONG_WIDTH \in {U32, U64}
BY BitManipAssumption, MathUtilsAssumption DEF Widths, U8, U16, U32, U64

LEMMA TypesOfNumbers ==
    ASSUME NEW type \in NumberTypes
    PROVE  type.signed \in BOOLEAN /\ type.width \in Widths /\ type = Type(type.signed, type.width)
BY DEF NumberTypes, Type, Widths

Half(w) == 2 ^ (w - 1)

LEMMA HalfOfRange ==
    ASSUME NEW w \in Nat \ {0}
    PROVE  Half(w) \in Nat \ {0} /\ 2 ^ w = 2 * Half(w) /\ 2 ^ w \in Nat \ {0} /\ (2 ^ w) \div 2 = Half(w)
<1>1. w - 1 \in Nat /\ (w - 1) + 1 = w
  OBVIOUS
<1>2. Half(w) \in Nat \ {0}
  BY <1>1, PowerIsPositive DEF Half
<1>3. 2 ^ ((w - 1) + 1) = 2 * 2 ^ (w - 1)
  BY <1>1, PowerDoubles, Zenon
<1>4. 2 ^ w = 2 * Half(w)
  BY <1>1, <1>3, Zenon DEF Half
<1>5. QED
  BY <1>2, <1>4

LEMMA ValuesOfType ==
    ASSUME NEW signed \in BOOLEAN, NEW w \in Nat \ {0}
    PROVE  Values(Type(signed, w)) = IF signed THEN 0 - Half(w) .. Half(w) - 1 ELSE 0 .. 2 * Half(w) - 1
BY HalfOfRange DEF Values, Type, Half

LEMMA CastOfType ==
    ASSUME NEW signed \in BOOLEAN, NEW w \in Nat \ {0}, NEW v \in Int
    PROVE  Cast(Type(signed, w), v) = IF signed THEN ((v + Half(w)) % (2 * Half(w))) - Half(w) ELSE v % (2 * Half(w))
<1>1. 2 ^ w = 2 * Half(w) /\ (2 ^ w) \div 2 = Half(w)
  BY HalfOfRange
<1>2. QED
  BY <1>1 DEF Cast, Type

\* A cast gives the value of the type that differs by a multiple of its range.
LEMMA CastWraps ==
    ASSUME NEW signed \in BOOLEAN, NEW w \in Nat \ {0}, NEW v \in Values(Type(signed, w)), NEW q \in Int
    PROVE  Cast(Type(signed, w), (2 * Half(w)) * q + v) = v
<1>1. Half(w) \in Nat \ {0}
  BY HalfOfRange
<1>2. v \in Int
  BY <1>1, ValuesOfType
<1> DEFINE r == 2 * Half(w)
<1>3. r \in Nat \ {0} /\ r * q \in Int
  BY <1>1
<1>4. \A x \in Int : (r * q + x) % r = x % r
  <2> HIDE DEF r
  <2>1. QED
    BY <1>3, ModuloOfSum
<1>5. CASE signed
  <2>1. v + Half(w) \in 0 .. r - 1
    <3>1. v \in 0 - Half(w) .. Half(w) - 1
      BY <1>5, ValuesOfType
    <3>2. QED
      BY <1>1, <3>1
  <2>2. (v + Half(w)) % r = v + Half(w)
    <3> HIDE DEF r
    <3>1. QED
      BY <1>3, <2>1
  <2>3. (r * q + v) + Half(w) = r * q + (v + Half(w))
    <3> HIDE DEF r
    <3>1. QED
      BY <1>1, <1>2, <1>3
  <2>4. ((r * q + v) + Half(w)) % r = v + Half(w)
    <3> HIDE DEF r
    <3>1. QED
      BY <1>1, <1>2, <1>4, <2>2, <2>3
  <2>5. Cast(Type(signed, w), r * q + v) = (((r * q + v) + Half(w)) % r) - Half(w)
    <3>1. r * q + v \in Int
      BY <1>2, <1>3
    <3>2. QED
      BY <1>5, <3>1, CastOfType, Zenon
  <2> HIDE DEF r
  <2>6. Cast(Type(signed, w), r * q + v) = v
    BY <1>1, <1>2, <2>4, <2>5
  <2>7. QED
    BY <2>6 DEF r
<1>6. CASE ~signed
  <2>1. v \in 0 .. r - 1
    BY <1>1, <1>6, ValuesOfType
  <2>2. Cast(Type(signed, w), r * q + v) = (r * q + v) % r
    BY <1>2, <1>3, <1>6, CastOfType
  <2> HIDE DEF r
  <2>3. v % r = v
    BY <1>3, <2>1
  <2>4. Cast(Type(signed, w), r * q + v) = v
    BY <1>2, <1>4, <2>2, <2>3
  <2>5. QED
    BY <2>4 DEF r
<1>7. QED
  BY <1>5, <1>6

LEMMA CastKeeps ==
    ASSUME NEW signed \in BOOLEAN, NEW w \in Nat \ {0}, NEW v \in Values(Type(signed, w))
    PROVE  Cast(Type(signed, w), v) = v
<1>1. Half(w) \in Nat \ {0}
  BY HalfOfRange
<1>2. v \in Int
  BY <1>1, ValuesOfType
<1>3. (2 * Half(w)) * 0 + v = v
  BY <1>1, <1>2
<1>4. Cast(Type(signed, w), (2 * Half(w)) * 0 + v) = v
  BY CastWraps
<1>5. QED
  BY <1>3, <1>4

-----------------------------------------------------------------------------
(* The roundings of a number                                               *)

\* One that rounds to a multiple gives it, where the type has it.
RoundsTo(type, down, v, r, out) == \A m \in Values(type) : IsMultiple(down, v, r, m) => out = m

LEMMA UnsignedRounds ==
    ASSUME NEW v \in Nat, NEW r \in Nat \ {0}
    PROVE  /\ IsMultiple(FALSE, v, r, UnsignedUp(v, r)) /\ IsMultiple(TRUE, v, r, UnsignedDown(v, r))
           /\ UnsignedUp(v, r) \in Nat /\ UnsignedDown(v, r) \in Nat
<1>0. v \in Int
  OBVIOUS
<1>1. v \div r \in Int /\ v % r \in 0 .. r - 1 /\ v = r * (v \div r) + (v % r) /\ (v - (v % r)) % r = 0
  BY <1>0, Divided, Zenon
<1>2. (r * 1 + (v - (v % r))) % r = 0
  <2>1. 1 \in Int /\ v - (v % r) \in Int
    BY <1>1
  <2>2. (r * 1 + (v - (v % r))) % r = (v - (v % r)) % r
    BY <2>1, ModuloOfSum, Zenon
  <2>3. QED
    BY <1>1, <2>2, Zenon
<1>3. r * 1 + (v - (v % r)) = v + r - (v % r)
  BY <1>1
<1>4. (v + r - (v % r)) % r = 0
  BY <1>2, <1>3
<1>5. v - (v % r) >= 0
  <2>1. v \div r >= 0
    OBVIOUS
  <2>2. r * (v \div r) >= 0
    BY <1>1, <2>1
  <2>3. QED
    BY <1>1, <2>2
<1>6. IsMultiple(TRUE, v, r, UnsignedDown(v, r)) /\ UnsignedDown(v, r) \in Nat
  BY <1>1, <1>5 DEF IsMultiple, UnsignedDown
<1>7. CASE v % r = 0
  BY <1>6, <1>7 DEF IsMultiple, UnsignedUp
<1>8. CASE v % r # 0
  <2>1. UnsignedUp(v, r) = v + r - (v % r)
    BY <1>8 DEF UnsignedUp
  <2>2. QED
    BY <1>1, <1>4, <1>8, <2>1, <1>6 DEF IsMultiple
<1>9. QED
  BY <1>6, <1>7, <1>8

\* The quotient of C is the one towards zero.
LEMMA Truncated ==
    ASSUME NEW v \in Int, NEW r \in Nat \ {0}
    PROVE  /\ CDiv(v, r) \in Int /\ CRem(v, r) \in Int /\ v = CDiv(v, r) * r + CRem(v, r)
           /\ v >= 0 => CRem(v, r) \in 0 .. r - 1 /\ CRem(v, r) = v % r
           /\ v <= 0 => CRem(v, r) \in 0 - (r - 1) .. 0
<1>1. CASE v >= 0
  <2>1. v \div r \in Int /\ v % r \in 0 .. r - 1 /\ v = r * (v \div r) + (v % r)
    BY Divided
  <2>2. CDiv(v, r) = v \div r /\ CRem(v, r) = v - r * (v \div r)
    BY <1>1 DEF CDiv, CRem
  <2>3. CRem(v, r) = v % r
    BY <2>1, <2>2
  <2>4. v = 0 => v % r = 0
    OBVIOUS
  <2>5. r * (v \div r) = (v \div r) * r
    BY <2>1
  <2>6. QED
    BY <1>1, <2>1, <2>2, <2>3, <2>4, <2>5
<1>2. CASE v < 0
  <2> DEFINE a == 0 - v
  <2>1. a \in Int /\ a \div r \in Int /\ a % r \in 0 .. r - 1 /\ a = r * (a \div r) + (a % r)
    <3>1. a \in Int
      OBVIOUS
    <3>2. QED
      BY <3>1, Divided, Zenon
  <2>2. CDiv(v, r) = 0 - (a \div r) /\ CRem(v, r) = v - r * CDiv(v, r)
    BY <1>2 DEF CDiv, CRem
  <2> HIDE DEF a
  <2>3. r * (0 - (a \div r)) = 0 - r * (a \div r) /\ (0 - (a \div r)) * r = 0 - r * (a \div r)
    BY <2>1
  <2>4. v = 0 - a
    BY DEF a
  <2>5. CRem(v, r) = 0 - (a % r)
    BY <2>1, <2>2, <2>3, <2>4
  <2>6. QED
    BY <1>2, <2>1, <2>2, <2>3, <2>4, <2>5
<1>3. QED
  BY <1>1, <1>2

LEMMA SignedRounds ==
    ASSUME NEW v \in Int, NEW r \in Nat \ {0}
    PROVE  /\ IsMultiple(FALSE, v, r, SignedUp(v, r)) /\ IsMultiple(TRUE, v, r, SignedDownFixed(v, r))
           /\ v >= 0 => IsMultiple(TRUE, v, r, SignedDownNative(v, r))
<1> DEFINE d == CDiv(v, r)
           m == CRem(v, r)
<1>1. /\ d \in Int /\ m \in Int /\ v = d * r + m
      /\ v >= 0 => m \in 0 .. r - 1 /\ m = v % r
      /\ v <= 0 => m \in 0 - (r - 1) .. 0
  BY Truncated
<1>2. /\ SignedUp(v, r) = IF m = 0 THEN v ELSE IF v > 0 THEN (d + 1) * r ELSE d * r
      /\ SignedDownFixed(v, r) = IF m = 0 THEN v ELSE IF v < 0 THEN (d - 1) * r ELSE d * r
      /\ SignedDownNative(v, r) = IF m = 0 THEN v ELSE IF v < 0 THEN v - (r - m) ELSE v - m
  BY DEF SignedUp, SignedDownFixed, SignedDownNative
<1> HIDE DEF d, m
<1>3. \A q \in Int : q * r \in Int /\ (q * r) % r = 0
  OBVIOUS
<1>4. (d + 1) * r = d * r + r /\ (d - 1) * r = d * r - r
  BY <1>1
<1>5. /\ d * r \in Int /\ (d * r) % r = 0
      /\ (d + 1) * r \in Int /\ ((d + 1) * r) % r = 0
      /\ (d - 1) * r \in Int /\ ((d - 1) * r) % r = 0
  <2>1. d + 1 \in Int /\ d - 1 \in Int
    BY <1>1
  <2>2. QED
    BY <1>1, <1>3, <2>1, Zenon
<1>6. CASE m = 0
  <2>1. v % r = 0
    <3>1. v = d * r
      BY <1>1, <1>5, <1>6
    <3>2. QED
      BY <1>5, <3>1
  <2>2. QED
    BY <1>2, <1>6, <2>1 DEF IsMultiple
<1>7. CASE m # 0 /\ v > 0
  <2>1. d * r = v - m
    BY <1>1, <1>5
  <2>2. (v - m) % r = 0
    BY <1>5, <2>1, Zenon
  <2>3. /\ SignedUp(v, r) = (d + 1) * r /\ SignedDownFixed(v, r) = d * r
        /\ SignedDownNative(v, r) = v - m
    BY <1>2, <1>7
  <2>4. QED
    BY <1>1, <1>4, <1>5, <1>7, <2>1, <2>2, <2>3 DEF IsMultiple
<1>8. CASE m # 0 /\ v < 0
  <2>1. SignedUp(v, r) = d * r /\ SignedDownFixed(v, r) = (d - 1) * r
    BY <1>2, <1>8
  <2>2. QED
    BY <1>1, <1>4, <1>5, <1>8, <2>1 DEF IsMultiple
<1>9. m = 0 \/ (m # 0 /\ v > 0) \/ (m # 0 /\ v < 0)
  BY <1>1
<1>10. QED
  BY <1>6, <1>7, <1>8, <1>9, Zenon

LEMMA NumbersOfType ==
    ASSUME NEW type \in NumberTypes
    PROVE  /\ Values(type) \subseteq Int /\ (~type.signed => Values(type) \subseteq Nat)
           /\ Half(type.width) \in Nat \ {0} /\ type.width \in Nat \ {0}
           /\ \A v \in Int : v \in Values(type) =>
                 (v < 2 * Half(type.width) /\ 0 - Half(type.width) <= v)
           /\ \A v \in Values(type) : Cast(type, v) = v
<1>1. type.signed \in BOOLEAN /\ type.width \in Nat \ {0} /\ type = Type(type.signed, type.width)
  BY TypesOfNumbers, WidthsOfTypes
<1>2. Half(type.width) \in Nat \ {0}
  BY <1>1, HalfOfRange
<1>3. Values(type) = IF type.signed THEN 0 - Half(type.width) .. Half(type.width) - 1 ELSE 0 .. 2 * Half(type.width) - 1
  BY <1>1, ValuesOfType, Zenon
<1>4. \A v \in Values(type) : Cast(type, v) = v
  BY <1>1, CastKeeps, Zenon
<1>5. QED
  BY <1>1, <1>2, <1>3, <1>4

LEMMA MultipleRounds ==
    ASSUME NEW type \in NumberTypes, NEW down \in BOOLEAN, NEW v \in Int, NEW r \in Nat \ {0}, NEW e,
           IsMultiple(down, v, r, e)
    PROVE  RoundsTo(type, down, v, r, e) /\ RoundsTo(type, down, v, r, Cast(type, e))
<1>1. ASSUME NEW m \in Values(type), IsMultiple(down, v, r, m) PROVE e = m /\ Cast(type, e) = m
  <2>1. e = m
    BY <1>1, SameMultiple, Zenon
  <2>2. Cast(type, m) = m
    BY NumbersOfType
  <2>3. QED
    BY <2>1, <2>2, Zenon
<1>2. QED
  BY <1>1 DEF RoundsTo

\* The functions of any multiple round, those of the types of the language at
\* least where the value is not negative.
LEMMA GenericRounds ==
    ASSUME NEW type \in NumberTypes, NEW v \in Values(type), NEW r \in Nat \ {0}
    PROVE  /\ RoundsTo(type, FALSE, v, r, RoundUp(type, v, r))
           /\ RoundsTo(type, TRUE, v, r, RoundDownFixed(type, v, r))
           /\ v >= 0 => RoundsTo(type, TRUE, v, r, RoundDownNative(type, v, r))
<1>1. v \in Int /\ ~(r <= 0) /\ (~type.signed => v \in Nat)
  BY NumbersOfType
<1>2. CASE type.signed
  <2>1. /\ RoundUp(type, v, r) = Cast(type, SignedUp(v, r))
        /\ RoundDownFixed(type, v, r) = Cast(type, SignedDownFixed(v, r))
        /\ RoundDownNative(type, v, r) = Cast(type, SignedDownNative(v, r))
    BY <1>1, <1>2, Zenon DEF RoundUp, RoundDownFixed, RoundDownNative
  <2>2. /\ IsMultiple(FALSE, v, r, SignedUp(v, r)) /\ IsMultiple(TRUE, v, r, SignedDownFixed(v, r))
        /\ v >= 0 => IsMultiple(TRUE, v, r, SignedDownNative(v, r))
    BY <1>1, SignedRounds, Zenon
  <2>3. QED
    BY <1>1, <2>1, <2>2, MultipleRounds, Zenon
<1>3. CASE ~type.signed
  <2>1. /\ RoundUp(type, v, r) = Cast(type, UnsignedUp(v, r))
        /\ RoundDownFixed(type, v, r) = Cast(type, UnsignedDown(v, r))
        /\ RoundDownNative(type, v, r) = Cast(type, UnsignedDown(v, r))
    BY <1>1, <1>3, Zenon DEF RoundUp, RoundDownFixed, RoundDownNative
  <2>2. IsMultiple(FALSE, v, r, UnsignedUp(v, r)) /\ IsMultiple(TRUE, v, r, UnsignedDown(v, r))
    BY <1>1, <1>3, UnsignedRounds, Zenon
  <2>3. QED
    BY <1>1, <2>1, <2>2, MultipleRounds, Zenon
<1>4. QED
  BY <1>2, <1>3

\* A power of two that is a value of the type divides its range.
LEMMA PowerDividesRange ==
    ASSUME NEW type \in NumberTypes, NEW k \in Nat, 2 ^ k \in Values(type)
    PROVE  \E t \in Nat : 2 * Half(type.width) = (2 ^ k) * t
<1> DEFINE w == type.width
<1>1. 2 ^ k \in Nat \ {0} /\ w \in Nat \ {0} /\ 2 ^ k < 2 * Half(w)
  <2>1. 2 ^ k \in Nat \ {0}
    BY PowerIsPositive
  <2>2. QED
    BY <2>1, NumbersOfType
<1>2. 2 ^ w = 2 * Half(w)
  BY <1>1, HalfOfRange, Zenon
<1>3. ~(w <= k)
  <2>1. SUFFICES ASSUME w <= k PROVE FALSE
    OBVIOUS
  <2>2. 2 ^ w <= 2 ^ k
    BY <1>1, <2>1, PowerGrows, Zenon
  <2> HIDE DEF w
  <2>3. Half(w) \in Nat
    BY <1>1, HalfOfRange
  <2>4. QED
    BY <1>1, <1>2, <2>2, <2>3
<1>4. PICK i \in Nat : w = k + i
  <2>1. w - k \in Nat /\ w = k + (w - k)
    BY <1>1, <1>3
  <2>2. QED
    BY <2>1, Zenon
<1>5. 2 ^ w = 2 ^ k * 2 ^ i /\ 2 ^ i \in Nat
  <2>1. 2 ^ (k + i) = 2 ^ k * 2 ^ i
    BY PowerAdds, Zenon
  <2>2. 2 ^ i \in Nat
    BY PowerIsPositive
  <2>3. QED
    BY <1>4, <2>1, <2>2, Zenon
<1>6. QED
  BY <1>2, <1>5, Zenon

\* Clearing the bits below a power of two, in a range it divides.
LEMMA ClearedInRange ==
    ASSUME NEW v \in Int, NEW r \in Nat \ {0}, NEW t \in Nat, NEW R \in Nat \ {0}, R = r * t
    PROVE  \E q \in Int : ClearBelow(v % R, r) = R * q + (v - (v % r))
<1> DEFINE u == v % R
           q == v \div R
<1>1. u \in Nat /\ q \in Int /\ v = R * q + u
  <2>1. q \in Int /\ u \in 0 .. R - 1 /\ v = R * q + u
    BY Divided, Zenon
  <2> HIDE DEF u, q
  <2>2. QED
    BY <2>1
<1> HIDE DEF u, q
<1>2. R * q = r * (t * q) /\ t * q \in Int
  <2>1. \A a \in Int, b \in Int, c \in Int : (a * b) * c = a * (b * c)
    OBVIOUS
  <2>2. QED
    BY <1>1, <2>1
<1>3. v % r = u % r
  <2>1. (r * (t * q) + u) % r = u % r
    <3>1. u \in Int
      BY <1>1
    <3>2. QED
      BY <1>2, <3>1, ModuloOfSum, Zenon
  <2>2. QED
    BY <1>1, <1>2, <2>1, Zenon
<1>4. ClearBelow(u, r) = u - (u % r)
  BY DEF ClearBelow
<1>5. u % r \in Int
  BY <1>1
<1>6. R * (0 - q) = 0 - R * q /\ R * q \in Int /\ 0 - q \in Int
  BY <1>1
<1>7. u - (u % r) = R * (0 - q) + (v - (v % r))
  <2> DEFINE p == u % r
             P == R * q
             N == R * (0 - q)
  <2>1. v = P + u /\ v % r = p /\ N = 0 - P /\ P \in Int /\ p \in Int /\ u \in Int
    BY <1>1, <1>3, <1>5, <1>6
  <2> HIDE DEF p, P, N
  <2>2. u - p = N + (v - p)
    BY <2>1
  <2>3. QED
    BY <2>1, <2>2, Zenon DEF p, N
<1>8. QED
  BY <1>4, <1>6, <1>7 DEF u

\* With a power of two the bits are cleared in the unsigned type of the width;
\* the cast back gives the multiple, of a negative value as well.
LEMMA PowerRounds ==
    ASSUME NEW type \in NumberTypes, NEW v \in Values(type), NEW k \in Nat, 2 ^ k \in Values(type),
           NEW down \in BOOLEAN
    PROVE  RoundsTo(type, down, v, 2 ^ k, Power2(type, down, v, 2 ^ k))
<1> DEFINE r == 2 ^ k
           w == type.width
           R == 2 * Half(w)
           bits == Type(FALSE, w)
<1>1. /\ type.signed \in BOOLEAN /\ type = Type(type.signed, w)
      /\ v \in Int /\ w \in Nat \ {0} /\ Half(w) \in Nat \ {0} /\ R \in Nat \ {0}
  <2>1. Half(w) \in Nat \ {0} /\ v \in Int /\ w \in Nat \ {0}
    BY NumbersOfType
  <2>2. type.signed \in BOOLEAN /\ type = Type(type.signed, w)
    BY TypesOfNumbers
  <2> HIDE DEF w
  <2>3. QED
    BY <2>1, <2>2
<1>2. r \in Nat \ {0}
  BY PowerIsPositive
<1>3. PICK t \in Nat : R = r * t
  BY PowerDividesRange, Zenon
<1>4. \A x \in Int : Cast(bits, x) = x % R
  BY <1>1, CastOfType, Zenon
<1>5. \A q \in Int, m \in Values(type) : Cast(type, R * q + m) = m
  <2>1. SUFFICES ASSUME NEW q \in Int, NEW m \in Values(type) PROVE Cast(type, R * q + m) = m
    OBVIOUS
  <2>2. m \in Values(Type(type.signed, w))
    BY <1>1, Zenon
  <2>3. Cast(Type(type.signed, w), (2 * Half(w)) * q + m) = m
    <3> DEFINE s == type.signed
    <3>1. s \in BOOLEAN /\ w \in Nat \ {0} /\ m \in Values(Type(s, w))
      BY <1>1, <2>2, Zenon
    <3> HIDE DEF s, w
    <3>2. Cast(Type(s, w), (2 * Half(w)) * q + m) = m
      BY <3>1, CastWraps, Zenon
    <3>3. QED
      BY <3>2, Zenon DEF s
  <2>4. QED
    BY <1>1, <2>3, Zenon DEF R
<1> HIDE DEF r, R, w, bits
\* What both directions come to.
<1>6. ASSUME NEW x \in Int, IsMultiple(down, v, r, x - (x % r))
      PROVE  RoundsTo(type, down, v, r, Cast(type, ClearBelow(x % R, r)))
  <2>1. PICK q \in Int : ClearBelow(x % R, r) = R * q + (x - (x % r))
    BY <1>1, <1>2, <1>3, ClearedInRange, Zenon
  <2>2. SUFFICES ASSUME NEW m \in Values(type), IsMultiple(down, v, r, m)
                 PROVE  Cast(type, ClearBelow(x % R, r)) = m
    BY Zenon DEF RoundsTo
  <2>3. x - (x % r) = m
    BY <1>1, <1>2, <1>6, <2>2, SameMultiple, Zenon
  <2>4. QED
    BY <1>5, <2>1, <2>3, Zenon
<1>7. CASE down
  <2>1. Power2(type, down, v, r) = Cast(type, ClearBelow(v % R, r))
    BY <1>1, <1>4, <1>7, Zenon DEF Power2, Power2Down, bits, w
  <2>2. v % r \in 0 .. r - 1 /\ (v - (v % r)) % r = 0
    BY <1>1, <1>2, Divided, Zenon
  <2>3. IsMultiple(down, v, r, v - (v % r))
    BY <1>1, <1>2, <1>7, <2>2 DEF IsMultiple
  <2>4. QED
    BY <1>1, <1>6, <2>1, <2>3, Zenon DEF r
<1>8. CASE ~down
  <2> DEFINE x == v + r - 1
             u == v % R
  <2>1. x \in Int /\ u \in Int
    <3>1. u \in 0 .. R - 1
      BY <1>1, Divided, Zenon
    <3> HIDE DEF u
    <3>2. QED
      BY <1>1, <1>2, <3>1
  <2>2. (u + r - 1) % R = x % R
    <3>1. v \div R \in Int /\ v = R * (v \div R) + u
      BY <1>1, Divided, Zenon
    <3>2. u + r - 1 \in Int
      BY <1>2, <2>1
    <3>3. (R * (v \div R) + (u + r - 1)) % R = (u + r - 1) % R
      BY <1>1, <3>1, <3>2, ModuloOfSum, Zenon
    <3> DEFINE P == R * (v \div R)
    <3>4. P \in Int
      BY <1>1, <3>1
    <3> HIDE DEF P, u
    <3>5. P + (u + r - 1) = (P + u) + r - 1
      BY <1>2, <2>1, <3>4
    <3>6. P + u = v
      BY <3>1, Zenon DEF P
    <3>7. P + (u + r - 1) = x
      BY <3>5, <3>6, Zenon
    <3>8. QED
      BY <3>3, <3>7, Zenon DEF P
  <2>3. Power2(type, down, v, r) = Cast(type, ClearBelow(x % R, r))
    <3>1. Power2(type, down, v, r) = Cast(type, ClearBelow(Cast(bits, Cast(bits, v) + r - 1), r))
      BY <1>8, Zenon DEF Power2, Power2Up, bits, w
    <3>2. Cast(bits, v) = u
      BY <1>1, <1>4, Zenon
    <3>3. u + r - 1 \in Int
      BY <1>2, <2>1
    <3>4. Cast(bits, u + r - 1) = (u + r - 1) % R
      BY <1>4, <3>3, Zenon
    <3> HIDE DEF u, x
    <3>5. QED
      BY <2>2, <3>1, <3>2, <3>4, Zenon
  <2>4. IsMultiple(down, v, r, x - (x % r))
    <3>1. x % r \in 0 .. r - 1 /\ (x - (x % r)) % r = 0
      BY <1>2, <2>1, Divided, Zenon
    <3> DEFINE p == x % r
    <3>2. x - p \in Int /\ x - p \in v .. (v + r) - 1
      <4>1. p \in 0 .. r - 1
        BY <3>1
      <4> HIDE DEF p
      <4>2. QED
        BY <1>1, <1>2, <4>1
    <3> HIDE DEF x
    <3>3. QED
      BY <1>8, <3>1, <3>2, Zenon DEF IsMultiple, p
  <2> HIDE DEF x
  <2>5. QED
    BY <1>6, <2>1, <2>3, <2>4, Zenon DEF r
<1>9. QED
  BY <1>7, <1>8, Zenon DEF r

LEMMA TypeOfWidth == \A signed \in BOOLEAN : Type(signed, U64) \in NumberTypes
<1> DEFINE S == {U8, U16, U32, U64}
           N == {Type(s, x) : s \in BOOLEAN, x \in S}
<1>1. U64 \in S
  OBVIOUS
<1>2. N = NumberTypes
  BY DEF NumberTypes
<1> HIDE DEF S
<1>3. \A signed \in BOOLEAN, w \in S : Type(signed, w) \in N
  OBVIOUS
<1> HIDE DEF N
<1>4. QED
  BY <1>1, <1>2, <1>3, Zenon

\* The macro in a build with typeof goes through unsigned long long, the bare
\* expression does not cast: both round what is not negative.
LEMMA MacrosRound ==
    ASSUME NEW type \in NumberTypes, NEW v \in Values(type), v >= 0, NEW r \in Nat \ {0},
           NEW f \in {"typeof", "expression"}
    PROVE  /\ RoundsTo(type, FALSE, v, r, INT_ROUND_UP(f, type, v, r))
           /\ RoundsTo(type, TRUE, v, r, INT_ROUND_DOWN(f, type, v, r))
<1>1. v \in Int /\ v \in Nat /\ ~(r <= 0)
  BY NumbersOfType
<1>2. IsMultiple(FALSE, v, r, UnsignedUp(v, r)) /\ IsMultiple(TRUE, v, r, UnsignedDown(v, r))
  BY <1>1, UnsignedRounds, Zenon
<1>3. CASE f = "expression"
  <2>1. CRem(v, r) = v % r
    BY <1>1, Truncated
  <2>2. INT_ROUND_UP(f, type, v, r) = UnsignedUp(v, r) /\ INT_ROUND_DOWN(f, type, v, r) = UnsignedDown(v, r)
    BY <1>3, <2>1 DEF INT_ROUND_UP, INT_ROUND_DOWN, UnsignedUp, UnsignedDown
  <2>3. QED
    BY <1>1, <1>2, <2>2, MultipleRounds, Zenon
<1>4. CASE f = "typeof"
  <2> DEFINE wide == Type(FALSE, U64)
  <2>1. wide \in NumberTypes
    BY TypeOfWidth, Zenon
  <2>2. \A m \in Values(type) : m \in Nat => m \in Values(wide)
    <3> DEFINE w == type.width
    <3>1. w \in Nat \ {0} /\ U64 \in Nat \ {0} /\ w <= U64
      BY TypesOfNumbers, WidthsOfTypes DEF Widths
    <3>2. 2 ^ w <= 2 ^ U64
      BY <3>1, PowerGrows, Zenon
    <3>3. 2 ^ w = 2 * Half(w) /\ 2 ^ U64 = 2 * Half(U64)
      BY <3>1, HalfOfRange, Zenon
    <3>4. Values(wide) = 0 .. 2 * Half(U64) - 1
      BY <3>1, ValuesOfType
    <3>5. \A m \in Values(type) : m < 2 * Half(w)
      BY NumbersOfType
    <3>6. Half(w) \in Nat /\ Half(U64) \in Nat
      BY <3>1, HalfOfRange
    <3> HIDE DEF w, wide
    <3>7. QED
      BY <3>2, <3>3, <3>4, <3>5, <3>6
  <2>3. Cast(wide, v) = v
    <3> HIDE DEF wide
    <3>1. QED
      BY <1>1, <2>1, <2>2, NumbersOfType
  <2>4. ~wide.signed
    BY DEF Type
  <2>5. /\ INT_ROUND_UP(f, type, v, r) = Cast(type, Cast(wide, UnsignedUp(v, r)))
        /\ INT_ROUND_DOWN(f, type, v, r) = Cast(type, Cast(wide, UnsignedDown(v, r)))
    BY <1>1, <1>4, <2>3, <2>4, Zenon
       DEF INT_ROUND_UP, INT_ROUND_DOWN, long_long_round_generic, NativeGeneric, RoundUp, RoundDownNative
  <2> HIDE DEF wide
  <2>6. ASSUME NEW down \in BOOLEAN, NEW e, IsMultiple(down, v, r, e)
        PROVE  RoundsTo(type, down, v, r, Cast(type, Cast(wide, e)))
    <3>1. SUFFICES ASSUME NEW m \in Values(type), IsMultiple(down, v, r, m)
                   PROVE  Cast(type, Cast(wide, e)) = m
      BY Zenon DEF RoundsTo
    <3>2. e = m
      BY <1>1, <2>6, <3>1, SameMultiple, Zenon
    <3>3. m \in Nat
      <4>1. m \in Int /\ m % r = 0 /\ m > 0 - r
        BY <1>1, <3>1 DEF IsMultiple
      <4>2. ~(m < 0)
        <5>1. SUFFICES ASSUME m < 0 PROVE FALSE
          OBVIOUS
        <5>2. m = 0
          BY <4>1, <5>1, OnlyMultiple
        <5>3. QED
          BY <5>1, <5>2
      <4>3. QED
        BY <4>1, <4>2
    <3>4. Cast(wide, m) = m /\ Cast(type, m) = m
      BY <2>1, <2>2, <3>3, NumbersOfType
    <3>5. QED
      BY <3>2, <3>4, Zenon
  <2>7. QED
    BY <1>2, <2>5, <2>6, Zenon
<1>5. QED
  BY <1>3, <1>4

-----------------------------------------------------------------------------
(* The calls                                                               *)

RoundFunctions == RoundPower2 \cup RoundMacros \cup {"native", "fixed"}

\* What a negative value comes to is left out where the code goes past the
\* multiple.
Astray(f, down, v) == v < 0 /\ (f \in RoundMacros \ {"generic"} \/ (down /\ f \in {"native", "generic"}))

\* The function of the type is chosen by its width.
Chosen(type, down, v, r) ==
    /\ NativeByWidth(down, type, v, r) = NativeGeneric(type, down, v, r)
    /\ RoundOut("native", type, down, v, r) = NativeGeneric(type, down, v, r)
    /\ RoundOut("fixed", type, down, v, r) = IF down THEN RoundDownFixed(type, v, r) ELSE RoundUp(type, v, r)
    /\ \A f \in RoundPower2 : RoundOut(f, type, down, v, r) = Power2(type, down, v, r)
    /\ \A f \in RoundMacros :
          RoundOut(f, type, down, v, r) = IF down THEN INT_ROUND_DOWN(f, type, v, r) ELSE INT_ROUND_UP(f, type, v, r)

LEMMA ChosenByWidth ==
    ASSUME NEW type \in NumberTypes, NEW down \in BOOLEAN, NEW v, NEW r
    PROVE  Chosen(type, down, v, r)
<1>1. /\ type.width \in Widths /\ type = Type(type.signed, type.width)
      /\ U8 # U16 /\ U8 # U32 /\ U8 # U64 /\ U16 # U32 /\ U16 # U64 /\ U32 # U64
  BY TypesOfNumbers, WidthsOfTypes
<1>2. type.width = U8 \/ type.width = U16 \/ type.width = U32 \/ type.width = U64
  BY <1>1 DEF Widths
<1>3. NativeByWidth(down, type, v, r) = NativeGeneric(type, down, v, r)
  BY <1>1, <1>2, Zenon
     DEF NativeByWidth, char_round_generic, short_round_generic, int_round_generic, long_long_round_generic
<1>4. RoundOut("native", type, down, v, r) = NativeGeneric(type, down, v, r)
  BY <1>1, <1>3, Zenon DEF RoundOut, long_round_generic
<1>5. RoundOut("fixed", type, down, v, r) = IF down THEN RoundDownFixed(type, v, r) ELSE RoundUp(type, v, r)
  BY <1>1, Zenon
     DEF RoundOut, fixed_round_down_generic, int8_round_up_generic, fixed_round_up_generic
<1>6. RoundOut("power2", type, down, v, r) = Power2(type, down, v, r)
  BY Zenon DEF RoundOut, Power2, fixed_round_down_power2, fixed_round_up_power2
<1>7. RoundOut("native power2", type, down, v, r) = Power2(type, down, v, r)
  BY <1>1, <1>2, Zenon
     DEF RoundOut, char_round_power2, short_round_power2, int_round_power2, long_long_round_power2
<1>8. RoundOut("long power2", type, down, v, r) = Power2(type, down, v, r)
  BY <1>1, Zenon DEF RoundOut, long_round_power2, INT_ROUND_POWER2
<1>9. \A f \in RoundMacros : RoundOut(f, type, down, v, r) =
         IF down THEN INT_ROUND_DOWN(f, type, v, r) ELSE INT_ROUND_UP(f, type, v, r)
  BY Zenon DEF RoundOut, RoundMacros
<1>10. \A f \in RoundPower2 : f = "power2" \/ f = "native power2" \/ f = "long power2"
  BY DEF RoundPower2
<1>11. QED
  BY <1>3, <1>4, <1>5, <1>6, <1>7, <1>8, <1>9, <1>10, Zenon DEF Chosen

LEMMA EveryFunctionRounds ==
    ASSUME NEW type \in NumberTypes, NEW down \in BOOLEAN, NEW v \in Values(type), NEW r \in Nat \ {0},
           r \in Values(type), NEW f \in RoundFunctions, ~Astray(f, down, v),
           f \in RoundPower2 => \E k \in Nat : r = 2 ^ k
    PROVE  RoundsTo(type, down, v, r, RoundOut(f, type, down, v, r))
<1> DEFINE Meets(out) == RoundsTo(type, down, v, r, out)
<1>1. v \in Int
  BY NumbersOfType
<1>2. /\ RoundsTo(type, FALSE, v, r, RoundUp(type, v, r))
      /\ RoundsTo(type, TRUE, v, r, RoundDownFixed(type, v, r))
      /\ v >= 0 => RoundsTo(type, TRUE, v, r, RoundDownNative(type, v, r))
  BY GenericRounds, Zenon
<1>0. Chosen(type, down, v, r)
  BY ChosenByWidth, Zenon
<1>3. ~(down /\ v < 0) => Meets(NativeGeneric(type, down, v, r))
  <2>1. ~(v < 0) => v >= 0
    BY <1>1
  <2>2. CASE down
    <3>1. NativeGeneric(type, down, v, r) = RoundDownNative(type, v, r)
      BY <2>2, Zenon DEF NativeGeneric
    <3>2. ~(down /\ v < 0) => RoundsTo(type, TRUE, v, r, NativeGeneric(type, down, v, r))
      BY <1>2, <2>1, <2>2, <3>1, Zenon
    <3>3. down = TRUE
      BY <2>2
    <3>4. QED
      BY <3>2, <3>3, Zenon
  <2>3. CASE ~down
    <3>1. NativeGeneric(type, down, v, r) = RoundUp(type, v, r)
      BY <2>3, Zenon DEF NativeGeneric
    <3>2. RoundsTo(type, FALSE, v, r, NativeGeneric(type, down, v, r))
      BY <1>2, <3>1, Zenon
    <3>3. down = FALSE
      BY <2>3
    <3>4. QED
      BY <3>2, <3>3, Zenon
  <2>4. QED
    BY <2>2, <2>3, Zenon
<1>4. Meets(IF down THEN RoundDownFixed(type, v, r) ELSE RoundUp(type, v, r))
  <2>1. CASE down
    <3>1. down = TRUE
      BY <2>1
    <3>2. QED
      BY <1>2, <3>1, Zenon
  <2>2. CASE ~down
    <3>1. down = FALSE
      BY <2>2
    <3>2. QED
      BY <1>2, <3>1, Zenon
  <2>3. QED
    BY <2>1, <2>2, Zenon
<1> DEFINE out(g) == RoundOut(g, type, down, v, r)
<1>5. CASE f = "native"
  <2>1. ~(down /\ v < 0)
    BY <1>5, Zenon DEF Astray
  <2>2. out(f) = NativeGeneric(type, down, v, r)
    BY <1>0, <1>5, Zenon DEF Chosen
  <2> HIDE DEF Meets, out
  <2>3. Meets(out(f))
    BY <1>3, <2>1, <2>2, Zenon
  <2>4. QED
    BY <2>3, Zenon DEF Meets, out
<1>6. CASE f = "fixed"
  <2>1. out(f) = IF down THEN RoundDownFixed(type, v, r) ELSE RoundUp(type, v, r)
    BY <1>0, <1>6, Zenon DEF Chosen
  <2>2. QED
    BY <1>4, <2>1, Zenon
<1>7. CASE f \in RoundPower2
  <2>1. PICK k \in Nat : r = 2 ^ k
    BY <1>7
  <2>2. RoundsTo(type, down, v, 2 ^ k, Power2(type, down, v, 2 ^ k))
    BY <2>1, PowerRounds, Zenon
  <2>3. out(f) = Power2(type, down, v, r)
    BY <1>0, <1>7, Zenon DEF Chosen
  <2>4. QED
    BY <2>1, <2>2, <2>3, Zenon
<1>8. CASE f \in RoundMacros
  <2>1. out(f) = IF down THEN INT_ROUND_DOWN(f, type, v, r) ELSE INT_ROUND_UP(f, type, v, r)
    BY <1>0, <1>8, Zenon DEF Chosen
  <2>2. CASE f = "generic"
    <3>1. out(f) = NativeByWidth(down, type, v, r)
      <4>1. CASE down
        <5>1. down = TRUE
          BY <4>1
        <5>2. out(f) = INT_ROUND_DOWN("generic", type, v, r)
          BY <2>1, <2>2, <4>1, Zenon
        <5>3. INT_ROUND_DOWN("generic", type, v, r) = NativeByWidth(TRUE, type, v, r)
          BY Zenon DEF INT_ROUND_DOWN
        <5>4. QED
          BY <5>1, <5>2, <5>3, Zenon
      <4>2. CASE ~down
        <5>1. down = FALSE
          BY <4>2
        <5>2. out(f) = INT_ROUND_UP("generic", type, v, r)
          BY <2>1, <2>2, <4>2, Zenon
        <5>3. INT_ROUND_UP("generic", type, v, r) = NativeByWidth(FALSE, type, v, r)
          BY Zenon DEF INT_ROUND_UP
        <5>4. QED
          BY <5>1, <5>2, <5>3, Zenon
      <4>3. QED
        BY <4>1, <4>2, Zenon
    <3>2. ~(down /\ v < 0)
      BY <2>2, Zenon DEF Astray
    <3>3. out(f) = NativeGeneric(type, down, v, r)
      BY <1>0, <3>1, Zenon DEF Chosen
    <3> HIDE DEF Meets, out
    <3>4. Meets(out(f))
      BY <1>3, <3>2, <3>3, Zenon
    <3>5. QED
      BY <3>4, Zenon DEF Meets, out
  <2>3. CASE f # "generic"
    <3>1. f \in {"typeof", "expression"}
      BY <1>8, <2>3 DEF RoundMacros
    <3>2. f \in RoundMacros \ {"generic"}
      BY <1>8, <2>3
    <3>3. ~(v < 0)
      BY <3>2, Zenon DEF Astray
    <3>4. v >= 0
      BY <1>1, <3>3
    <3>5. /\ RoundsTo(type, FALSE, v, r, INT_ROUND_UP(f, type, v, r))
          /\ RoundsTo(type, TRUE, v, r, INT_ROUND_DOWN(f, type, v, r))
      BY <3>1, <3>4, MacrosRound, Zenon
    <3>6. CASE down
      <4>1. down = TRUE
        BY <3>6
      <4>2. out(f) = INT_ROUND_DOWN(f, type, v, r)
        BY <2>1, <3>6, Zenon
      <4>3. QED
        BY <3>5, <4>1, <4>2, Zenon
    <3>7. CASE ~down
      <4>1. down = FALSE
        BY <3>7
      <4>2. out(f) = INT_ROUND_UP(f, type, v, r)
        BY <2>1, <3>7, Zenon
      <4>3. QED
        BY <3>5, <4>1, <4>2, Zenon
    <3>8. QED
      BY <3>6, <3>7, Zenon
  <2>4. QED
    BY <2>2, <2>3
<1>9. QED
  BY <1>5, <1>6, <1>7, <1>8 DEF RoundFunctions


\* The multiple the invariant speaks of is there.
LEMMA MultipleIsThere ==
    ASSUME NEW x, x.down \in BOOLEAN, x.value \in Int, x.r \in Nat \ {0}
    PROVE  IsMultiple(x.down, x.value, x.r, Multiple(x))
<1> DEFINE v == x.value
           r == x.r
<1>1. IsMultiple(FALSE, v, r, SignedUp(v, r)) /\ IsMultiple(TRUE, v, r, SignedDownFixed(v, r))
  BY SignedRounds
<1>2. CASE x.down
  <2>1. \E m \in (v - r) + 1 .. v : m % r = 0
    BY <1>1 DEF IsMultiple
  <2>2. Multiple(x) = CHOOSE m \in (v - r) + 1 .. v : m % r = 0
    BY <1>2 DEF Multiple
  <2>3. Multiple(x) \in (v - r) + 1 .. v /\ Multiple(x) % r = 0
    BY <2>1, <2>2
  <2>4. Multiple(x) \in Int
    BY <2>3
  <2>5. QED
    BY <1>2, <2>3, <2>4 DEF IsMultiple
<1>3. CASE ~x.down
  <2>1. \E m \in v .. (v + r) - 1 : m % r = 0
    BY <1>1 DEF IsMultiple
  <2>2. Multiple(x) = CHOOSE m \in v .. (v + r) - 1 : m % r = 0
    BY <1>3 DEF Multiple
  <2>3. Multiple(x) \in v .. (v + r) - 1 /\ Multiple(x) % r = 0
    BY <2>1, <2>2
  <2>4. Multiple(x) \in Int
    BY <2>3
  <2>5. QED
    BY <1>3, <2>3, <2>4 DEF IsMultiple
<1>4. QED
  BY <1>2, <1>3

\* The value itself for the multiple zero.
LEMMA ZeroKeeps ==
    ASSUME NEW type \in NumberTypes, NEW down \in BOOLEAN, NEW v, NEW f \in {"native", "fixed"}
    PROVE  RoundOut(f, type, down, v, 0) = v
<1>1. Chosen(type, down, v, 0)
  BY ChosenByWidth, Zenon
<1>2. RoundUp(type, v, 0) = v /\ RoundDownNative(type, v, 0) = v /\ RoundDownFixed(type, v, 0) = v
  BY DEF RoundUp, RoundDownNative, RoundDownFixed
<1>3. NativeGeneric(type, down, v, 0) = v
  BY <1>2, Zenon DEF NativeGeneric
<1>4. CASE f = "native"
  BY <1>1, <1>3, <1>4, Zenon DEF Chosen
<1>5. CASE f = "fixed"
  <2>1. RoundOut(f, type, down, v, 0) = IF down THEN RoundDownFixed(type, v, 0) ELSE RoundUp(type, v, 0)
    BY <1>1, <1>5, Zenon DEF Chosen
  <2>2. QED
    BY <1>2, <2>1, Zenon
<1>6. QED
  BY <1>4, <1>5

LEMMA LogarithmOfPower ==
    ASSUME NEW n \in Bits(U64), NEW build \in Builds
    PROVE  log2_power2(build, power_Of_Two(n)) = n
<1>1. n \in Nat
  BY BitManipAssumption DEF Bits, U64
<1>2. power_Of_Two(n) = {n}
  BY <1>1 DEF power_Of_Two, Shl
<1>3. {k \in Bits(U64) : 0 \in Shr({n}, k)} = {n}
  <2>1. Bits(U64) \subseteq Nat
    BY BitManipAssumption DEF Bits, U64
  <2>2. ASSUME NEW k \in Bits(U64) PROVE 0 \in Shr({n}, k) <=> k = n
    <3>1. k \in Nat
      BY <2>1
    <3>2. Shr({n}, k) = IF n >= k THEN {n - k} ELSE {}
      BY <1>1, <3>1 DEF Shr
    <3>3. QED
      BY <1>1, <3>1, <3>2
  <2>3. QED
    BY <2>2
<1>4. Min({n}) = n
  <2>1. {n} \subseteq Nat /\ {n} # {}
    BY <1>1
  <2>2. Min({n}) \in {n}
    BY <2>1, LeastNumber, Zenon
  <2>3. QED
    BY <2>2
<1>5. count_trailing_zeros(build, U64, {n}) = n
  BY <1>3, <1>4, Zenon DEF count_trailing_zeros
<1>6. QED
  BY <1>2, <1>5, Zenon DEF log2_power2

LEMMA RoundingIsCorrect == Rounding => RoundedToTheNextMultiple'
<1>1. ASSUME NEW type \in NumberTypes, NEW down \in BOOLEAN, NEW r \in Multiples, NEW f \in RoundFunctions,
             NEW value \in Tried(type),
             f \in RoundPower2 => \E n \in Bits(U64) : r = 2 ^ n,
             f \in RoundMacros => r # 0,
             r \in Values(type),
             Called("round", f, [type |-> type, down |-> down, value |-> value, r |-> r],
                    RoundOut(f, type, down, value, r))
      PROVE  RoundedToTheNextMultiple'
  <2> DEFINE x == [type |-> type, down |-> down, value |-> value, r |-> r]
             out == RoundOut(f, type, down, value, r)
  <2>1. value \in Values(type) /\ value \in Int /\ r \in Nat
    BY NumbersOfType, MultiplesAssumption DEF Tried
  <2>2. f \in RoundPower2 => \E k \in Nat : r = 2 ^ k
    <3>1. Bits(U64) \subseteq Nat
      BY BitManipAssumption DEF Bits, U64
    <3>2. QED
      BY <1>1, <3>1, Zenon
  <2>3. /\ call'.family = "round" /\ call'.f = f /\ call'.in = x /\ call'.out = out
        /\ x.type = type /\ x.down = down /\ x.value = value /\ x.r = r
    BY <1>1 DEF Called
  <2> HIDE DEF out
  <2>4. r = 0 => out = value
    <3>1. SUFFICES ASSUME r = 0 PROVE out = value
      OBVIOUS
    <3>2. f \notin RoundPower2
      <4>1. \A k \in Nat : 2 ^ k # 0
        BY PowerIsPositive
      <4>2. QED
        BY <2>2, <3>1, <4>1, Zenon
    <3>3. f \in {"native", "fixed"}
      BY <1>1, <3>1, <3>2 DEF RoundFunctions
    <3>4. QED
      BY <3>1, <3>3, ZeroKeeps, Zenon DEF out
  <2>5. r # 0 /\ ~Astray(f, down, value) /\ Multiple(x) \in Values(type) => out = Multiple(x)
    <3>1. SUFFICES ASSUME r # 0, ~Astray(f, down, value), Multiple(x) \in Values(type) PROVE out = Multiple(x)
      OBVIOUS
    <3>2. r \in Nat \ {0}
      BY <2>1, <3>1
    <3>3. IsMultiple(down, value, r, Multiple(x))
      <4> HIDE DEF x
      <4>1. IsMultiple(x.down, x.value, x.r, Multiple(x))
        <5>1. x.down \in BOOLEAN /\ x.value \in Int /\ x.r \in Nat \ {0}
          BY <2>1, <2>3, <3>2, Zenon
        <5>2. QED
          BY <5>1, MultipleIsThere
      <4>2. QED
        BY <2>3, <4>1, Zenon
    <3>4. RoundsTo(type, down, value, r, out)
      BY <1>1, <2>1, <2>2, <3>1, <3>2, EveryFunctionRounds, Zenon DEF out
    <3>5. QED
      BY <3>1, <3>3, <3>4, Zenon DEF RoundsTo
  <2> HIDE DEF x
  <2>6. call'.family # "log2"
    BY <2>3
  <2>7. QED
    BY <2>3, <2>4, <2>5, <2>6, Zenon DEF RoundedToTheNextMultiple, Is, Astray
<1>2. ASSUME NEW n \in Bits(U64), NEW build \in Builds,
             Called("log2", "log2", [n |-> n], log2_power2(build, power_Of_Two(n)))
      PROVE  RoundedToTheNextMultiple'
  <2>1. /\ call'.family = "log2" /\ call'.family # "round" /\ call'.in.n = n
        /\ call'.out = log2_power2(build, power_Of_Two(n))
    BY <1>2 DEF Called
  <2>2. call'.out = n
    BY <2>1, LogarithmOfPower, Zenon
  <2>3. QED
    BY <2>1, <2>2, Zenon DEF RoundedToTheNextMultiple, Is
<1>3. QED
  BY <1>1, <1>2, Zenon DEF Rounding, RoundFunctions

\* Every rounding gives the nearest multiple on the side it is asked for,
\* wherever the type has that multiple, for every width of a byte and of long,
\* for every value that is tried and every multiple; and the logarithm of a
\* power of two is its exponent.
THEOREM RoundingsCorrect == RoundingSpec => []RoundedToTheNextMultiple
<1> DEFINE Other == OtherThan({"round", "log2"})
<1>1. call = Idle => RoundedToTheNextMultiple
  <2>1. SUFFICES ASSUME call = Idle PROVE RoundedToTheNextMultiple
    OBVIOUS
  <2>2. call.family # "round" /\ call.family # "log2"
    BY <2>1 DEF Idle
  <2>3. QED
    BY <2>2, Zenon DEF RoundedToTheNextMultiple, Is
<1>2. RoundedToTheNextMultiple /\ [Rounding \/ Other]_call => RoundedToTheNextMultiple'
  <2> SUFFICES ASSUME RoundedToTheNextMultiple, [Rounding \/ Other]_call PROVE RoundedToTheNextMultiple'
    OBVIOUS
  <2>1. CASE Rounding
    BY <2>1, RoundingIsCorrect, Zenon
  <2>2. CASE Other
    <3>1. call'.family # "round" /\ call'.family # "log2"
      BY <2>2 DEF OtherThan
    <3>2. QED
      BY <3>1, Zenon DEF RoundedToTheNextMultiple, Is
  <2>3. CASE UNCHANGED call
    BY <2>3, Zenon DEF RoundedToTheNextMultiple, Is, Multiple
  <2>4. QED
    BY <2>1, <2>2, <2>3, Zenon
<1>3. QED
  BY <1>1, <1>2, PTL DEF RoundingSpec

-----------------------------------------------------------------------------
(* Patterns and random numbers                                             *)

\* What a call that fills answers, for a buffer of n bytes.
Wanted(f, x, out) ==
    CASE f = "incrementing" ->
            out[1] = x.k % BYTES /\ \A i \in 2 .. x.n : out[i] = (out[i - 1] + 1) % BYTES
      [] f \in {"ascii", "buffer"} ->
            \A i \in 1 .. x.n : IF i <= x.k THEN out[i] = x.pattern[i] ELSE out[i] = out[i - x.k]
      [] f = "hex" -> \A i \in 1 .. x.n - (x.n % 4) : IF i <= 4 THEN out[i] = Word(x.k)[i] ELSE out[i] = out[i - 4]
      [] f = "random" -> \A i \in 1 .. x.n \div 4 : SubSeq(out, 4 * i - 3, 4 * i) = Word(i)

Unable(f, x) ==
    x.null \/ x.n = 0 \/ (f \in {"ascii", "buffer"} /\ x.k = 0) \/ (f # "incrementing" /\ ~x.memory)

FillMeets(f, x, answer) ==
    /\ (answer.ret = "SUCCESS") = ~Unable(f, x) /\ Len(answer.buffer) = x.n
    /\ ~Unable(f, x) => Wanted(f, x, answer.buffer)

LEMMA IncrementingFollows ==
    ASSUME NEW n \in Nat \ {0}, NEW k \in Nat
    PROVE  LET out == [i \in 1 .. n |-> (k + i - 1) % BYTES]
           IN out[1] = k % BYTES /\ \A i \in 2 .. n : out[i] = (out[i - 1] + 1) % BYTES
<1> DEFINE out == [i \in 1 .. n |-> (k + i - 1) % BYTES]
<1>1. out[1] = k % BYTES
  <2>1. 1 \in 1 .. n /\ k + 1 - 1 = k
    OBVIOUS
  <2>2. QED
    BY <2>1
<1>2. ASSUME NEW i \in 2 .. n PROVE out[i] = (out[i - 1] + 1) % BYTES
  <2> DEFINE v == k + (i - 1) - 1
             q == v \div BYTES
             m == v % BYTES
  <2>1. i \in 1 .. n /\ i - 1 \in 1 .. n
    OBVIOUS
  <2>2. out[i] = (k + i - 1) % BYTES /\ out[i - 1] = m
    BY <2>1
  <2>3. v \in Int /\ k + i - 1 = v + 1
    OBVIOUS
  <2>4. q \in Int /\ m \in 0 .. BYTES - 1 /\ v = BYTES * q + m
    <3> HIDE DEF v
    <3>1. QED
      BY <2>3, PatternsAssumption, Divided, Zenon
  <2> HIDE DEF v, m, q
  <2>5. m \in Int /\ m + 1 \in Int
    BY <2>4, PatternsAssumption
  <2>6. (BYTES * q + (m + 1)) % BYTES = (m + 1) % BYTES
    BY <2>4, <2>5, PatternsAssumption, ModuloOfSum, Zenon
  <2>7. BYTES * q + (m + 1) = k + i - 1
    <3> DEFINE p == BYTES * q
    <3>1. p \in Int
      BY <2>4, PatternsAssumption
    <3>2. v = p + m
      BY <2>4
    <3> HIDE DEF p
    <3>3. p + (m + 1) = k + i - 1
      BY <2>3, <2>5, <3>1, <3>2
    <3>4. QED
      BY <3>3 DEF p
  <2>8. QED
    BY <2>2, <2>6, <2>7, Zenon
<1>3. QED
  BY <1>1, <1>2

\* A place is in the pattern, and k places on it is the same place again.
LEMMA PlaceInPattern ==
    ASSUME NEW k \in Nat \ {0}, NEW i \in Nat \ {0}
    PROVE  /\ ((i - 1) % k) + 1 \in 1 .. k
           /\ i <= k => ((i - 1) % k) + 1 = i
           /\ i > k => ((i - 1) % k) + 1 = (((i - k) - 1) % k) + 1
<1>1. (i - 1) % k \in 0 .. k - 1
  OBVIOUS
<1>2. ASSUME i <= k PROVE (i - 1) % k = i - 1
  BY <1>2
<1>3. ASSUME i > k PROVE (i - 1) % k = ((i - k) - 1) % k
  <2>1. (i - k) - 1 \in Int /\ 1 \in Int /\ k * 1 + ((i - k) - 1) = i - 1
    OBVIOUS
  <2>2. (k * 1 + ((i - k) - 1)) % k = ((i - k) - 1) % k
    BY <2>1, ModuloOfSum, Zenon
  <2>3. QED
    BY <2>1, <2>2, Zenon
<1> DEFINE m == (i - 1) % k
           l == ((i - k) - 1) % k
<1> HIDE DEF m, l
<1>4. m \in 0 .. k - 1 /\ (i <= k => m = i - 1) /\ (i > k => m = l)
  BY <1>1, <1>2, <1>3, Zenon DEF m, l
<1>5. m + 1 \in 1 .. k /\ (i <= k => m + 1 = i) /\ (i > k => m + 1 = l + 1)
  BY <1>4
<1>6. QED
  BY <1>5, Zenon DEF m, l

LEMMA RepeatRepeats ==
    ASSUME NEW n \in Nat, NEW k \in Nat \ {0}, NEW pattern
    PROVE  LET out == [i \in 1 .. n |-> pattern[((i - 1) % k) + 1]]
           IN \A i \in 1 .. n : IF i <= k THEN out[i] = pattern[i] ELSE out[i] = out[i - k]
<1> DEFINE out == [i \in 1 .. n |-> pattern[((i - 1) % k) + 1]]
<1>1. ASSUME NEW i \in 1 .. n, i <= k PROVE out[i] = pattern[i]
  <2>1. ((i - 1) % k) + 1 = i
    BY <1>1, PlaceInPattern
  <2>2. QED
    BY <2>1, Zenon
<1>2. ASSUME NEW i \in 1 .. n, ~(i <= k) PROVE out[i] = out[i - k]
  <2>1. i - k \in 1 .. n /\ i \in Nat \ {0} /\ i > k
    BY <1>2
  <2>2. ((i - 1) % k) + 1 = (((i - k) - 1) % k) + 1
    BY <2>1, PlaceInPattern, Zenon
  <2>3. out[i] = pattern[((i - 1) % k) + 1] /\ out[i - k] = pattern[(((i - k) - 1) % k) + 1]
    BY <2>1, Zenon
  <2>4. QED
    BY <2>2, <2>3, Zenon
<1>3. QED
  BY <1>1, <1>2, Zenon

LEMMA HexRepeats ==
    ASSUME NEW n \in Nat, NEW k \in Nat
    PROVE  LET out == WordsThenZeroes([i \in 1 .. n |-> Word(k)], n)
           IN \A i \in 1 .. n - (n % 4) : IF i <= 4 THEN out[i] = Word(k)[i] ELSE out[i] = out[i - 4]
<1> DEFINE words == [i \in 1 .. n |-> Word(k)]
           out == WordsThenZeroes(words, n)
<1>1. n % 4 \in 0 .. 3 /\ n - (n % 4) <= n
  OBVIOUS
<1>2. \A i \in 1 .. n : ((i - 1) \div 4) + 1 \in 1 .. n
  OBVIOUS
<1>3. ASSUME NEW i \in 1 .. n - (n % 4) PROVE i \in 1 .. n /\ out[i] = Word(k)[((i - 1) % 4) + 1]
  <2>1. i \in 1 .. n /\ i <= n - (n % 4)
    BY <1>1
  <2>2. out[i] = words[((i - 1) \div 4) + 1][((i - 1) % 4) + 1]
    BY <2>1, Zenon DEF WordsThenZeroes, WORD_BYTES
  <2>3. words[((i - 1) \div 4) + 1] = Word(k)
    BY <1>2, <2>1, Zenon
  <2>4. QED
    BY <2>1, <2>2, <2>3, Zenon
<1> HIDE DEF out
<1>4. ASSUME NEW i \in 1 .. n - (n % 4), i <= 4 PROVE out[i] = Word(k)[i]
  <2>1. ((i - 1) % 4) + 1 = i
    BY <1>1, <1>4
  <2>2. QED
    BY <1>3, <2>1, Zenon
<1>5. ASSUME NEW i \in 1 .. n - (n % 4), ~(i <= 4) PROVE out[i] = out[i - 4]
  <2>1. i - 4 \in 1 .. n - (n % 4)
    BY <1>1, <1>5
  <2>2. ((i - 1) % 4) + 1 = (((i - 4) - 1) % 4) + 1
    BY <1>1, <1>5
  <2>3. out[i - 4] = Word(k)[(((i - 4) - 1) % 4) + 1]
    BY <1>3, <2>1, Zenon
  <2>4. out[i] = Word(k)[((i - 1) % 4) + 1]
    BY <1>3, Zenon
  <2>5. QED
    BY <2>2, <2>3, <2>4, Zenon
<1>6. QED
  BY <1>4, <1>5, Zenon DEF out

LEMMA RandomWordsStand ==
    ASSUME NEW n \in Nat
    PROVE  LET out == WordsThenZeroes([i \in 1 .. n |-> Word(i)], n)
           IN \A i \in 1 .. n \div 4 : SubSeq(out, 4 * i - 3, 4 * i) = Word(i)
<1> DEFINE words == [i \in 1 .. n |-> Word(i)]
           out == WordsThenZeroes(words, n)
<1>1. SUFFICES ASSUME NEW i \in 1 .. n \div 4 PROVE SubSeq(out, 4 * i - 3, 4 * i) = Word(i)
  BY Zenon
<1>2. /\ i \in 1 .. n /\ n = 4 * (n \div 4) + (n % 4) /\ n % 4 \in 0 .. 3
      /\ \A j \in 1 .. 4 : 4 * i - 4 + j \in 1 .. n /\ 4 * i - 4 + j <= n - (n % 4)
  OBVIOUS
<1>3. \A j \in 1 .. 4 : (((4 * i - 4 + j) - 1) \div 4) + 1 = i /\ (((4 * i - 4 + j) - 1) % 4) + 1 = j
  OBVIOUS
<1>4. ASSUME NEW j \in 1 .. 4 PROVE out[4 * i - 4 + j] = Word(i)[j]
  <2> DEFINE p == 4 * i - 4 + j
  <2>1. p \in 1 .. n /\ p <= n - (n % 4)
    BY <1>2, Zenon
  <2>2. ((p - 1) \div 4) + 1 = i /\ ((p - 1) % 4) + 1 = j
    BY <1>3, Zenon
  <2> HIDE DEF p
  <2>3. out[p] = words[((p - 1) \div 4) + 1][((p - 1) % 4) + 1]
    BY <2>1, Zenon DEF WordsThenZeroes, WORD_BYTES
  <2>4. words[i] = Word(i)
    BY <1>2, Zenon
  <2>5. out[p] = Word(i)[j]
    BY <2>2, <2>3, <2>4, Zenon
  <2>6. QED
    BY <2>5, Zenon DEF p
<1> HIDE DEF out
<1>5. SubSeq(out, 4 * i - 3, 4 * i) = [j \in 1 .. 4 |-> out[4 * i - 4 + j]]
  <2>1. SubSeq(out, 4 * i - 3, 4 * i) = [j \in 1 .. 1 + 4 * i - (4 * i - 3) |-> out[j + (4 * i - 3) - 1]]
    BY <1>2
  <2>2. 1 + 4 * i - (4 * i - 3) = 4 /\ \A j \in 1 .. 4 : j + (4 * i - 3) - 1 = 4 * i - 4 + j
    OBVIOUS
  <2>3. QED
    BY <2>1, <2>2
<1>6. Word(i) = [j \in 1 .. 4 |-> Word(i)[j]]
  BY DEF Word
<1>7. QED
  BY <1>4, <1>5, <1>6 DEF out

\* Each function against what is wanted of it.
LEMMA EveryFillMeets ==
    ASSUME NEW n \in Nat, NEW null \in BOOLEAN, NEW memory \in BOOLEAN, NEW k \in Nat
    PROVE  LET buffer  == [i \in 1 .. n |-> BYTES]
               pattern == [i \in 1 .. k |-> i % BYTES]
               x == [n |-> n, null |-> null, memory |-> memory, k |-> k, pattern |-> pattern]
           IN /\ FillMeets("random", x, fill_Random_Pattern_In_Buffer(null, buffer, [i \in 1 .. n |-> Word(i)], memory))
              /\ FillMeets("hex", x, fill_Hex_Pattern_In_Buffer(null, buffer, Word(k), memory))
              /\ FillMeets("incrementing", x, fill_Incrementing_Pattern_In_Buffer(null, buffer, k))
              /\ FillMeets("ascii", x, fill_ASCII_Pattern_In_Buffer(null, buffer, pattern, ~memory))
              /\ FillMeets("buffer", x, fill_Pattern_Buffer_Into_Another_Buffer(null, buffer, pattern, ~memory))
<1> DEFINE buffer  == [i \in 1 .. n |-> BYTES]
           pattern == [i \in 1 .. k |-> i % BYTES]
           x == [n |-> n, null |-> null, memory |-> memory, k |-> k, pattern |-> pattern]
<1>1. /\ x.n = n /\ x.null = null /\ x.memory = memory /\ x.k = k /\ x.pattern = pattern
      /\ Len(buffer) = n /\ (buffer = <<>> <=> n = 0) /\ Len(pattern) = k /\ (pattern = <<>> <=> k = 0)
  OBVIOUS
<1> HIDE DEF x, buffer, pattern
\* Words one behind the other.
<1>2. ASSUME NEW f \in {"random", "hex"}, NEW words,
             n # 0 => Wanted(f, x, WordsThenZeroes(words, n))
      PROVE  FillMeets(f, x, FillWords(null, buffer, words, memory))
  <2> DEFINE answer == FillWords(null, buffer, words, memory)
  <2>1. CASE n = 0 \/ null \/ ~memory
    <3>1. answer.ret # "SUCCESS" /\ answer.buffer = buffer
      BY <1>1, <2>1 DEF FillWords, Filled
    <3>2. Unable(f, x)
      BY <1>1, <1>2, <2>1 DEF Unable
    <3> HIDE DEF answer
    <3>3. FillMeets(f, x, answer)
      BY <1>1, <3>1, <3>2 DEF FillMeets, Unable
    <3>4. QED
      BY <3>3 DEF answer
  <2>2. CASE ~(n = 0 \/ null \/ ~memory)
    <3>1. answer.ret = "SUCCESS" /\ answer.buffer = WordsThenZeroes(words, n)
      BY <1>1, <2>2 DEF FillWords, Filled
    <3>2. ~Unable(f, x)
      BY <1>1, <1>2, <2>2 DEF Unable
    <3>3. Len(WordsThenZeroes(words, n)) = n
      BY DEF WordsThenZeroes
    <3> HIDE DEF answer
    <3>4. FillMeets(f, x, answer)
      BY <1>1, <1>2, <2>2, <3>1, <3>2, <3>3 DEF FillMeets, Unable
    <3>5. QED
      BY <3>4 DEF answer
  <2>3. QED
    BY <2>1, <2>2
<1>3. FillMeets("random", x, fill_Random_Pattern_In_Buffer(null, buffer, [i \in 1 .. n |-> Word(i)], memory))
  <2>1. Wanted("random", x, WordsThenZeroes([i \in 1 .. n |-> Word(i)], n))
    BY <1>1, RandomWordsStand, Zenon DEF Wanted
  <2>2. QED
    BY <1>2, <2>1, Zenon DEF fill_Random_Pattern_In_Buffer
<1>4. FillMeets("hex", x, fill_Hex_Pattern_In_Buffer(null, buffer, Word(k), memory))
  <2>1. Wanted("hex", x, WordsThenZeroes([i \in 1 .. n |-> Word(k)], n))
    <3> DEFINE out == WordsThenZeroes([i \in 1 .. n |-> Word(k)], n)
    <3>1. \A i \in 1 .. n - (n % 4) : IF i <= 4 THEN out[i] = Word(k)[i] ELSE out[i] = out[i - 4]
      BY HexRepeats, Zenon
    <3> HIDE DEF out
    <3>2. \A i \in 1 .. x.n - (x.n % 4) : IF i <= 4 THEN out[i] = Word(x.k)[i] ELSE out[i] = out[i - 4]
      <4>1. x.n = n /\ x.k = k
        BY <1>1
      <4>2. QED
        BY <3>1, <4>1
    <3>3. Wanted("hex", x, out)
      <4>1. "hex" \notin {"ascii", "buffer"} /\ "hex" # "incrementing"
        OBVIOUS
      <4>2. QED
        BY <3>2, <4>1, Zenon DEF Wanted
    <3>4. QED
      BY <3>3 DEF out
  <2>2. fill_Hex_Pattern_In_Buffer(null, buffer, Word(k), memory)
        = FillWords(null, buffer, [i \in 1 .. n |-> Word(k)], memory)
    BY <1>1, Zenon DEF fill_Hex_Pattern_In_Buffer
  <2>3. QED
    BY <1>2, <2>1, <2>2, Zenon
<1>5. FillMeets("incrementing", x, fill_Incrementing_Pattern_In_Buffer(null, buffer, k))
  <2> DEFINE answer == fill_Incrementing_Pattern_In_Buffer(null, buffer, k)
             out == [i \in 1 .. n |-> (k + i - 1) % BYTES]
  <2>1. CASE n = 0 \/ null
    <3>1. answer.ret # "SUCCESS" /\ answer.buffer = buffer
      BY <1>1, <2>1 DEF fill_Incrementing_Pattern_In_Buffer, Filled
    <3>2. Unable("incrementing", x)
      BY <1>1, <2>1 DEF Unable
    <3> HIDE DEF answer
    <3>3. FillMeets("incrementing", x, answer)
      BY <1>1, <3>1, <3>2 DEF FillMeets, Unable
    <3>4. QED
      BY <3>3 DEF answer
  <2>2. CASE ~(n = 0 \/ null)
    <3>1. answer.ret = "SUCCESS" /\ answer.buffer = out
      BY <1>1, <2>2 DEF fill_Incrementing_Pattern_In_Buffer, Filled
    <3>2. ~Unable("incrementing", x)
      BY <1>1, <2>2 DEF Unable
    <3>3. Len(out) = n
      OBVIOUS
    <3>4. n \in Nat \ {0}
      BY <2>2
    <3>5. out[1] = k % BYTES /\ \A i \in 2 .. n : out[i] = (out[i - 1] + 1) % BYTES
      BY <3>4, IncrementingFollows, Zenon
    <3> HIDE DEF answer, out
    <3>6. Wanted("incrementing", x, out)
      BY <1>1, <3>5, Zenon DEF Wanted
    <3>7. FillMeets("incrementing", x, answer)
      BY <1>1, <3>1, <3>2, <3>3, <3>6 DEF FillMeets, Unable
    <3>8. QED
      BY <3>7 DEF answer
  <2>3. QED
    BY <2>1, <2>2
\* Copies one behind the other.
<1>6. ASSUME NEW f \in {"ascii", "buffer"} PROVE FillMeets(f, x, Repeat(null, buffer, pattern, ~memory))
  <2> DEFINE answer == Repeat(null, buffer, pattern, ~memory)
             out == [i \in 1 .. n |-> pattern[((i - 1) % k) + 1]]
  <2>1. CASE n = 0 \/ null \/ k = 0
    <3>1. answer.ret # "SUCCESS" /\ answer.buffer = buffer
      BY <1>1, <2>1 DEF Repeat, Filled
    <3>2. Unable(f, x)
      BY <1>1, <1>6, <2>1 DEF Unable
    <3> HIDE DEF answer
    <3>3. FillMeets(f, x, answer)
      BY <1>1, <3>1, <3>2 DEF FillMeets, Unable
    <3>4. QED
      BY <3>3 DEF answer
  <2>2. CASE ~(n = 0 \/ null \/ k = 0) /\ ~memory
    <3>1. answer.ret # "SUCCESS" /\ Len(answer.buffer) = n
      BY <1>1, <2>2 DEF Repeat, Filled
    <3>2. Unable(f, x)
      BY <1>1, <1>6, <2>2 DEF Unable
    <3> HIDE DEF answer
    <3>3. FillMeets(f, x, answer)
      BY <1>1, <3>1, <3>2 DEF FillMeets, Unable
    <3>4. QED
      BY <3>3 DEF answer
  <2>3. CASE ~(n = 0 \/ null \/ k = 0) /\ memory
    <3>1. answer.ret = "SUCCESS" /\ answer.buffer = out
      BY <1>1, <2>3 DEF Repeat, Filled
    <3>2. ~Unable(f, x)
      BY <1>1, <1>6, <2>3 DEF Unable
    <3>3. Len(out) = n
      OBVIOUS
    <3>4. k \in Nat \ {0}
      BY <2>3
    <3>5. \A i \in 1 .. n : IF i <= k THEN out[i] = pattern[i] ELSE out[i] = out[i - k]
      BY <3>4, RepeatRepeats, Zenon
    <3>6. f # "incrementing"
      BY <1>6
    <3> HIDE DEF answer, out
    <3>7. Wanted(f, x, out)
      BY <1>1, <1>6, <3>5, <3>6, Zenon DEF Wanted
    <3>8. FillMeets(f, x, answer)
      BY <1>1, <3>1, <3>2, <3>3, <3>7 DEF FillMeets, Unable
    <3>9. QED
      BY <3>8 DEF answer
  <2>4. QED
    BY <2>1, <2>2, <2>3
<1>7. QED
  BY <1>3, <1>4, <1>5, <1>6, Zenon
     DEF fill_ASCII_Pattern_In_Buffer, fill_Pattern_Buffer_Into_Another_Buffer, x, buffer, pattern

LEMMA FillingIsCorrect == Filling => PatternsFillAndNumbersStayInRange'
<1>1. ASSUME NEW f, NEW x, NEW answer, Called("fill", f, x, answer), FillMeets(f, x, answer)
      PROVE  PatternsFillAndNumbersStayInRange'
  <2>1. call'.family = "fill" /\ call'.f = f /\ call'.in = x /\ call'.out = answer
    BY <1>1 DEF Called
  <2>2. ~(call'.family = "range of numbers") /\ ~(call'.family = "draw")
    BY <2>1
  <2>3. QED
    BY <1>1, <2>1, <2>2, Zenon DEF PatternsFillAndNumbersStayInRange, Is, FillMeets, Unable, Wanted
<1>2. ASSUME NEW n \in Lengths, NEW null \in BOOLEAN, NEW memory \in BOOLEAN, NEW k \in Starts, FillCall(n, null, memory, k)
      PROVE  PatternsFillAndNumbersStayInRange'
  <2> DEFINE buffer  == [i \in 1 .. n |-> BYTES]
             pattern == [i \in 1 .. k |-> i % BYTES]
             all == [n |-> n, null |-> null, memory |-> memory, k |-> k, pattern |-> pattern]
             random == fill_Random_Pattern_In_Buffer(null, buffer, [i \in 1 .. n |-> Word(i)], memory)
             hex == fill_Hex_Pattern_In_Buffer(null, buffer, Word(k), memory)
             inOrder == fill_Incrementing_Pattern_In_Buffer(null, buffer, k)
             ascii == fill_ASCII_Pattern_In_Buffer(null, buffer, pattern, ~memory)
             copies == fill_Pattern_Buffer_Into_Another_Buffer(null, buffer, pattern, ~memory)
  <2>1. n \in Nat /\ k \in Nat
    BY PatternCallsAssumption
  <2>2. /\ FillMeets("random", all, random) /\ FillMeets("hex", all, hex)
        /\ FillMeets("incrementing", all, inOrder) /\ FillMeets("ascii", all, ascii)
        /\ FillMeets("buffer", all, copies)
    BY <2>1, EveryFillMeets, Zenon
  <2>3. \/ Called("fill", "random", all, random)
        \/ Called("fill", "hex", all, hex)
        \/ Called("fill", "incrementing", all, inOrder)
        \/ Called("fill", "ascii", all, ascii)
        \/ Called("fill", "buffer", all, copies)
    BY <1>2, Zenon DEF FillCall
  <2> HIDE DEF all, random, hex, inOrder, ascii, copies
  <2>4. /\ Called("fill", "random", all, random) => PatternsFillAndNumbersStayInRange'
        /\ Called("fill", "hex", all, hex) => PatternsFillAndNumbersStayInRange'
        /\ Called("fill", "incrementing", all, inOrder) => PatternsFillAndNumbersStayInRange'
        /\ Called("fill", "ascii", all, ascii) => PatternsFillAndNumbersStayInRange'
        /\ Called("fill", "buffer", all, copies) => PatternsFillAndNumbersStayInRange'
    BY <1>1, <2>2, Zenon
  <2>5. QED
    BY <2>3, <2>4, Zenon
<1>3. QED
  BY <1>2, Zenon DEF Filling

\* The range divides the numbers into parts of d, one more than there would be
\* without a remainder, so that the part of the last number is in the range.
LEMMA RangeIsKept ==
    ASSUME NEW w \in Nat \ {0}, NEW least \in Nat, NEW most \in Nat, NEW number \in Nat,
           least < most, most < (2 ^ w) - 1, number < 2 ^ w
    PROVE  RandomRange(w, least, most, number) \in least .. most
<1> DEFINE M == 2 ^ w
           k == most - least + 1
           d == ((M - 1) \div k) + 1
<1>1. M \in Nat \ {0} /\ most < M - 1 /\ number < M
  BY PowerIsPositive
<1> HIDE DEF M
<1>2. k \in Nat \ {0} /\ k >= 2 /\ k < M
  BY <1>1
<1> HIDE DEF k
<1>3. k % M = k
  BY <1>1, <1>2
<1> DEFINE q == (M - 1) \div k
<1>4. q \in Int /\ (M - 1) % k \in 0 .. k - 1 /\ M - 1 = k * q + ((M - 1) % k)
  <2>1. M - 1 \in Int
    BY <1>1
  <2>2. QED
    BY <1>2, <2>1, Divided, Zenon
<1> HIDE DEF q
<1>5. q >= 0 /\ 2 * q <= M - 1
  <2> DEFINE m == (M - 1) % k
             p == k * q
  <2>1. p \in Int /\ m \in 0 .. k - 1 /\ M - 1 = p + m
    BY <1>2, <1>4
  <2>2. q >= 0
    <3>1. SUFFICES ASSUME q < 0 PROVE FALSE
      BY <1>4
    <3>2. p <= 0 - k
      <4>1. q <= 0 - 1
        BY <1>4, <3>1
      <4>2. \A a \in Nat, b \in Int : b <= 0 - 1 => a * b <= 0 - a
        OBVIOUS
      <4>3. QED
        BY <1>2, <1>4, <4>1, <4>2
    <3> HIDE DEF p, m
    <3>3. QED
      BY <1>1, <1>2, <2>1, <3>2
  <2>3. 2 * q <= p
    <3>1. \A a \in Nat, b \in Nat : a >= 2 => 2 * b <= a * b
      OBVIOUS
    <3>2. QED
      BY <1>2, <1>4, <2>2, <3>1
  <2> HIDE DEF p, m
  <2>4. QED
    BY <1>1, <1>4, <2>1, <2>2, <2>3
<1>6. d = q + 1 /\ d \in Nat \ {0} /\ d < M
  <2>1. d = q + 1
    BY Zenon DEF q
  <2> HIDE DEF d
  <2>2. QED
    BY <1>1, <1>2, <1>4, <1>5, <2>1
<1> HIDE DEF d
<1>7. d % M = d
  BY <1>1, <1>6
<1> DEFINE part == number \div d
<1>8. part \in Int /\ number % d \in 0 .. d - 1 /\ number = d * part + (number % d)
  <2>1. number \in Int
    OBVIOUS
  <2>2. QED
    BY <1>6, <2>1, Divided, Zenon
<1> HIDE DEF part
\* k parts of d are more than there are numbers.
<1>9. part >= 0 /\ part < k
  <2> DEFINE m == number % d
             p == d * part
             s == (M - 1) % k
  <2>1. p \in Int /\ m \in 0 .. d - 1 /\ number = p + m
    BY <1>6, <1>8
  <2>2. part >= 0
    <3>1. SUFFICES ASSUME part < 0 PROVE FALSE
      BY <1>8
    <3>2. p <= 0 - d
      <4>1. part <= 0 - 1
        BY <1>8, <3>1
      <4>2. \A a \in Nat, b \in Int : b <= 0 - 1 => a * b <= 0 - a
        OBVIOUS
      <4>3. QED
        BY <1>6, <1>8, <4>1, <4>2
    <3> HIDE DEF p, m
    <3>3. QED
      BY <1>6, <2>1, <3>2
  <2>3. part < k
    <3>1. SUFFICES ASSUME part >= k PROVE FALSE
      BY <1>2, <1>8
    <3>2. p >= d * k
      <4>1. \A a \in Nat, b \in Nat, c \in Nat : b >= c => a * b >= a * c
        OBVIOUS
      <4>2. QED
        BY <1>2, <1>6, <1>8, <2>2, <3>1, <4>1
    <3>3. d * k = k * q + k
      BY <1>2, <1>4, <1>6
    <3> DEFINE r == k * q
    <3>4. r \in Int /\ M - 1 = r + s /\ s \in 0 .. k - 1
      BY <1>2, <1>4
    <3>5. p >= r + k
      BY <3>2, <3>3, Zenon
    <3> HIDE DEF p, m, r, s
    <3>6. QED
      BY <1>1, <1>2, <2>1, <3>4, <3>5
  <2>4. QED
    BY <2>2, <2>3
<1>10. least + part \in least .. most
  BY <1>8, <1>9 DEF k
<1>11. (least + part) % M = least + part
  <2>1. least + part \in 0 .. M - 1
    BY <1>1, <1>10
  <2> DEFINE a == least + part
  <2> HIDE DEF a
  <2>2. a \in 0 .. M - 1
    BY <2>1 DEF a
  <2>3. a % M = a
    BY <1>1, <2>2
  <2>4. QED
    BY <2>3, Zenon DEF a
<1>12. RandomRange(w, least, most, number) = (least + part) % M
  <2>1. most # M - 1
    BY <1>1
  <2>2. d > 0
    BY <1>6
  <2>3. RandomRange(w, least, most, number) =
          IF (((M - 1) \div (k % M)) + 1) % M > 0
          THEN (least + (number \div ((((M - 1) \div (k % M)) + 1) % M))) % M ELSE 0
    BY <2>1, Zenon DEF RandomRange, M, k
  <2>4. (((M - 1) \div (k % M)) + 1) % M = d
    BY <1>3, <1>7, Zenon DEF d
  <2>5. QED
    BY <2>2, <2>3, <2>4, Zenon DEF part
<1>13. QED
  BY <1>10, <1>11, <1>12, Zenon

LEMMA LargestNumber ==
    ASSUME NEW w \in Nat, NEW S, S \subseteq 0 .. w, S # {}
    PROVE  \E x \in S : \A y \in S : y <= x
<1> DEFINE T == {w - i : i \in S}
<1>1. T \subseteq Nat /\ T # {}
  <2>1. \A i \in S : w - i \in Nat
    OBVIOUS
  <2>2. PICK i \in S : TRUE
    OBVIOUS
  <2>3. w - i \in T
    OBVIOUS
  <2>4. QED
    BY <2>1, <2>3, Zenon
<1>2. Min(T) \in T /\ \A y \in T : Min(T) <= y
  BY <1>1, LeastNumber, Zenon
<1>3. PICK x \in S : Min(T) = w - x
  BY <1>2
<1>4. ASSUME NEW y \in S PROVE y <= x
  <2>1. w - x <= w - y
    BY <1>2, <1>3
  <2>2. QED
    BY <2>1
<1>5. QED
  BY <1>4

\* Shifted and added to itself a value that is not zero is not zero: to the
\* left its least one stays, to the right its largest.
LEMMA ShiftedLeft ==
    ASSUME NEW w \in Nat, NEW v, v \subseteq Bits(w), v # {}, NEW n \in Nat \ {0}
    PROVE  Xor(v, Shl(w, v, n)) # {} /\ Xor(v, Shl(w, v, n)) \subseteq Bits(w)
<1>1. v \subseteq Nat
  BY DEF Bits
<1>2. Min(v) \in v /\ \A y \in v : Min(v) <= y
  BY <1>1, LeastNumber, Zenon
<1> DEFINE l == Min(v)
<1> HIDE DEF l
<1>3. l \in v /\ \A y \in v : l <= y
  BY <1>2, Zenon DEF l
<1>4. l \notin Shl(w, v, n)
  <2>1. ASSUME NEW i \in v PROVE l # i + n
    BY <1>1, <1>3
  <2>2. QED
    BY <2>1, Zenon DEF Shl
<1>5. l \in Xor(v, Shl(w, v, n))
  BY <1>3, <1>4, Zenon DEF Xor
<1>6. Shl(w, v, n) \subseteq Bits(w)
  BY Zenon DEF Shl
<1>7. QED
  BY <1>5, <1>6, Zenon DEF Xor

LEMMA ShiftedRight ==
    ASSUME NEW w \in Nat, NEW v, v \subseteq Bits(w), v # {}, NEW n \in Nat \ {0}
    PROVE  Xor(v, Shr(v, n)) # {}
<1>1. v \subseteq 0 .. w
  BY DEF Bits
<1>2. PICK x \in v : \A y \in v : y <= x
  BY <1>1, LargestNumber, Zenon
<1>3. x \notin Shr(v, n)
  <2>1. ASSUME NEW i \in v PROVE x # i - n
    BY <1>1, <1>2
  <2>2. QED
    BY <2>1, Zenon DEF Shr
<1>4. QED
  BY <1>2, <1>3, Zenon DEF Xor

LEMMA GeneratorGoesOn ==
    ASSUME NEW w \in Nat, NEW x, NEW y, x \subseteq Bits(w), x # {} \/ y # {},
           NEW a \in Nat \ {0}, NEW b \in Nat \ {0}, NEW c \in Nat
    PROVE  Xorshift(w, <<x, y>>, a, b, c).seeds # <<{}, {}>>
<1> DEFINE X1 == Xor(x, Shl(w, x, a))
           next == Xor(Xor(X1, y), Xor(Shr(X1, b), Shr(y, c)))
<1>1. Xorshift(w, <<x, y>>, a, b, c).seeds = <<y, next>>
  BY DEF Xorshift
<1>2. y # {} \/ next # {}
  <2>1. SUFFICES ASSUME y = {} PROVE next # {}
    OBVIOUS
  <2>2. X1 # {} /\ X1 \subseteq Bits(w)
    BY <2>1, ShiftedLeft, Zenon
  <2> HIDE DEF X1
  <2>3. Xor(X1, Shr(X1, b)) # {}
    BY <2>2, ShiftedRight, Zenon
  <2>4. Shr(y, c) = {} /\ \A s : Xor(s, {}) = s
    BY <2>1 DEF Shr, Xor
  <2>5. next = Xor(X1, Shr(X1, b))
    BY <2>1, <2>4, Zenon
  <2>6. QED
    BY <2>3, <2>5, Zenon
<1> HIDE DEF next
<1>3. QED
  BY <1>1, <1>2

LEMMA DrawingIsCorrect == Drawing => PatternsFillAndNumbersStayInRange'
<1>1. U32 \in Nat \ {0} /\ U64 \in Nat \ {0} /\ Bits(U32) \subseteq Bits(U64)
  BY BitManipAssumption DEF U32, U64, Bits
<1>2. ASSUME NEW w \in {U32, U64}, NEW least \in Limits, NEW most \in Limits, NEW number \in Drawn,
             most < (2 ^ w) - 1, number < 2 ^ w,
             Called("range of numbers", "range", [least |-> least, most |-> most],
                    IF w = U32 THEN random_Range_32(least, most, number) ELSE random_Range_64(least, most, number))
      PROVE  PatternsFillAndNumbersStayInRange'
  <2>1. least \in Nat /\ most \in Nat /\ number \in Nat
    BY PatternCallsAssumption
  <2> DEFINE out == IF w = U32 THEN random_Range_32(least, most, number) ELSE random_Range_64(least, most, number)
  <2>2. out = RandomRange(w, least, most, number)
    BY Zenon DEF random_Range_32, random_Range_64
  <2>3. w \in Nat \ {0}
    BY <1>1
  <2>4. least < most => out \in least .. most
    BY <1>2, <2>1, <2>2, <2>3, RangeIsKept, Zenon
  <2>5. /\ call'.family = "range of numbers" /\ call'.in.least = least /\ call'.in.most = most /\ call'.out = out
        /\ ~(call'.family = "fill") /\ ~(call'.family = "draw")
    <3> HIDE DEF out
    <3>1. Called("range of numbers", "range", [least |-> least, most |-> most], out)
      BY <1>2 DEF out
    <3>2. QED
      BY <3>1 DEF Called
  <2> HIDE DEF out
  <2>6. QED
    BY <2>4, <2>5, Zenon DEF PatternsFillAndNumbersStayInRange, Is
<1>3. ASSUME NEW x \in {v \cap Bits(U32) : v \in Wide}, NEW y \in {v \cap Bits(U32) : v \in Wide},
             Called("draw", "seeds", [x |-> x, y |-> y],
                    <<xorshiftplus32(<<x, y>>).seeds, xorshiftplus64(<<x, y>>).seeds, seed_32(x), seed_64(x)>>)
      PROVE  PatternsFillAndNumbersStayInRange'
  <2> DEFINE s32 == xorshiftplus32(<<x, y>>).seeds
             s64 == xorshiftplus64(<<x, y>>).seeds
             one == seed_32(x)
             two == seed_64(x)
  <2>1. x \subseteq Bits(U32) /\ x \subseteq Bits(U64)
    BY <1>1
  <2>2. 13 \in Nat \ {0} /\ 17 \in Nat \ {0} /\ 7 \in Nat /\ 27 \in Nat \ {0} /\ 32 \in Nat
    OBVIOUS
  <2>3. x # {} \/ y # {} => Xorshift(U32, <<x, y>>, 13, 17, 7).seeds # <<{}, {}>>
    BY <1>1, <2>1, <2>2, GeneratorGoesOn, Zenon
  <2>4. x # {} \/ y # {} => Xorshift(U64, <<x, y>>, 27, 13, 32).seeds # <<{}, {}>>
    BY <1>1, <2>1, <2>2, GeneratorGoesOn, Zenon
  <2>5. x # {} \/ y # {} => s32 # <<{}, {}>> /\ s64 # <<{}, {}>>
    BY <2>3, <2>4, Zenon DEF xorshiftplus32, xorshiftplus64
  <2>6. call' = [family |-> "draw", f |-> "seeds", in |-> [x |-> x, y |-> y], out |-> <<s32, s64, one, two>>]
    BY <1>3, Zenon DEF Called
  <2> HIDE DEF s32, s64, one, two
  <2>7. /\ call'.family = "draw" /\ call'.in.x = x /\ call'.in.y = y
        /\ \A i \in 1 .. 2 : call'.out[i] = s32 \/ call'.out[i] = s64
        /\ ~(call'.family = "fill") /\ ~(call'.family = "range of numbers")
    BY <2>6
  <2>8. QED
    BY <2>5, <2>7, Zenon DEF PatternsFillAndNumbersStayInRange, Is
<1>4. QED
  BY <1>2, <1>3, Zenon DEF Drawing

\* Every buffer is filled with whole copies of its pattern, or the call fails, a
\* random number asked for in a range is in it, and the generator does not
\* come to a stop, for every length, pattern, range and width.
THEOREM PatternsCorrect == PatternSpec => []PatternsFillAndNumbersStayInRange
<1> DEFINE Other == OtherThan({"fill", "range of numbers", "draw"})
<1>1. call = Idle => PatternsFillAndNumbersStayInRange
  <2>1. SUFFICES ASSUME call = Idle PROVE PatternsFillAndNumbersStayInRange
    OBVIOUS
  <2>2. ~(call.family = "fill") /\ ~(call.family = "range of numbers") /\ ~(call.family = "draw")
    BY <2>1 DEF Idle
  <2>3. QED
    BY <2>2, Zenon DEF PatternsFillAndNumbersStayInRange, Is
<1>2. PatternsFillAndNumbersStayInRange /\ [Filling \/ Drawing \/ Other]_call => PatternsFillAndNumbersStayInRange'
  <2> SUFFICES ASSUME PatternsFillAndNumbersStayInRange, [Filling \/ Drawing \/ Other]_call
               PROVE  PatternsFillAndNumbersStayInRange'
    OBVIOUS
  <2>1. CASE Filling
    BY <2>1, FillingIsCorrect, Zenon
  <2>2. CASE Drawing
    BY <2>2, DrawingIsCorrect, Zenon
  <2>3. CASE Other
    <3>1. ~(call'.family = "fill") /\ ~(call'.family = "range of numbers") /\ ~(call'.family = "draw")
      BY <2>3 DEF OtherThan
    <3>2. QED
      BY <3>1, Zenon DEF PatternsFillAndNumbersStayInRange, Is
  <2>4. CASE UNCHANGED call
    BY <2>4, Zenon DEF PatternsFillAndNumbersStayInRange, Is
  <2>5. QED
    BY <2>1, <2>2, <2>3, <2>4, Zenon
<1>3. QED
  BY <1>1, <1>2, PTL DEF PatternSpec

-----------------------------------------------------------------------------
(* Bits: what an operation does is told place by place.                    *)

LEMMA InShl ==
    ASSUME NEW w \in Nat, NEW v, v \subseteq Int, NEW n \in Int, NEW j
    PROVE  j \in Shl(w, v, n) <=> (j \in Bits(w) /\ j - n \in v)
<1>1. ASSUME j \in Shl(w, v, n) PROVE j \in Bits(w) /\ j - n \in v
  <2>1. PICK i \in v : j = i + n
    BY <1>1 DEF Shl
  <2>2. j - n = i
    BY <2>1
  <2>3. QED
    BY <1>1, <2>2 DEF Shl
<1>2. ASSUME j \in Bits(w), j - n \in v PROVE j \in Shl(w, v, n)
  <2>1. j = (j - n) + n
    BY <1>2 DEF Bits
  <2>2. QED
    BY <1>2, <2>1 DEF Shl
<1>3. QED
  BY <1>1, <1>2

LEMMA InShr ==
    ASSUME NEW v, v \subseteq Int, NEW n \in Int, NEW j
    PROVE  j \in Shr(v, n) <=> (j \in Nat /\ j + n \in v)
<1>1. ASSUME j \in Shr(v, n) PROVE j \in Nat /\ j + n \in v
  <2>1. PICK i \in v : i >= n /\ j = i - n
    BY <1>1 DEF Shr
  <2>2. j + n = i /\ j \in Nat
    BY <2>1
  <2>3. QED
    BY <2>1, <2>2
<1>2. ASSUME j \in Nat, j + n \in v PROVE j \in Shr(v, n)
  <2>1. j = (j + n) - n /\ j + n >= n
    BY <1>2
  <2>2. QED
    BY <1>2, <2>1 DEF Shr
<1>3. QED
  BY <1>1, <1>2

LEMMA InField ==
    ASSUME NEW v, v \subseteq Int, NEW at \in Int, NEW n \in Nat, NEW j
    PROVE  j \in Field(v, at, n) <=> (j \in 0 .. n - 1 /\ j + at \in v)
<1>1. v \cap Mask(at, n) \subseteq Int
  OBVIOUS
<1>2. j \in Field(v, at, n) <=> (j \in Nat /\ j + at \in v \cap Mask(at, n))
  BY <1>1, InShr, Zenon DEF Field
<1>3. ASSUME j \in Nat PROVE j + at \in Mask(at, n) <=> j \in 0 .. n - 1
  BY <1>3 DEF Mask
<1>4. j \in 0 .. n - 1 => j \in Nat
  OBVIOUS
<1>5. QED
  BY <1>2, <1>3, <1>4, Zenon

LEMMA MinIs ==
    ASSUME NEW S, S \subseteq Int, NEW x \in S, \A y \in S : x <= y
    PROVE  Min(S) = x
<1>1. \E z \in S : \A y \in S : z <= y
  OBVIOUS
<1> DEFINE m == Min(S)
<1>2. m \in S /\ \A y \in S : m <= y
  BY <1>1 DEF Min
<1> HIDE DEF m
<1>3. m = x
  BY <1>2
<1>4. QED
  BY <1>3 DEF m

LEMMA MaxIs ==
    ASSUME NEW S, S \subseteq Int, NEW x \in S, \A y \in S : y <= x
    PROVE  Max(S) = x
<1>1. \E z \in S : \A y \in S : y <= z
  OBVIOUS
<1> DEFINE m == Max(S)
<1>2. m \in S /\ \A y \in S : y <= m
  BY <1>1 DEF Max
<1> HIDE DEF m
<1>3. m = x
  BY <1>2
<1>4. QED
  BY <1>3 DEF m

LEMMA LargestBit ==
    ASSUME NEW w \in Nat, NEW v, v \subseteq Bits(w), v # {}
    PROVE  Max(v) \in v /\ \A y \in v : y <= Max(v)
<1>1. v \subseteq 0 .. w
  BY DEF Bits
<1>2. PICK x \in v : \A y \in v : y <= x
  BY <1>1, LargestNumber, Zenon
<1>3. v \subseteq Int
  BY DEF Bits
<1>4. Max(v) = x
  BY <1>2, <1>3, MaxIs, Zenon
<1>5. QED
  BY <1>2, <1>4, Zenon

LEMMA LeastBit ==
    ASSUME NEW w \in Nat, NEW v, v \subseteq Bits(w), v # {}
    PROVE  Min(v) \in v /\ \A y \in v : Min(v) <= y
<1>1. v \subseteq Nat
  BY DEF Bits
<1>2. QED
  BY <1>1, LeastNumber, Zenon

LEMMA LeadingZeros ==
    ASSUME NEW w \in Nat, NEW v, v \subseteq Bits(w), v # {}, NEW build
    PROVE  count_leading_zeros(build, w, v) = w - 1 - Max(v)
<1> DEFINE S == {n \in Bits(w) : w - 1 \in Shl(w, v, n)}
           m == Max(v)
<1>1. m \in v /\ \A y \in v : y <= m
  BY LargestBit, Zenon
<1> HIDE DEF m
<1>2. v \subseteq Int /\ m \in Bits(w) /\ w - 1 \in Bits(w)
  BY <1>1 DEF Bits
<1>3. ASSUME NEW n \in Bits(w) PROVE w - 1 \in Shl(w, v, n) <=> (w - 1) - n \in v
  <2>1. n \in Int
    BY DEF Bits
  <2>2. QED
    BY <1>2, <2>1, InShl, Zenon
<1>4. w - 1 - m \in S
  <2>1. w - 1 - m \in Bits(w) /\ (w - 1) - (w - 1 - m) = m
    BY <1>2 DEF Bits
  <2>2. QED
    BY <1>1, <1>3, <2>1
<1>5. S \subseteq Int
  BY DEF Bits
<1>6. ASSUME NEW n \in S PROVE w - 1 - m <= n
  <2>1. (w - 1) - n \in v /\ n \in Int
    BY <1>3 DEF Bits
  <2>2. (w - 1) - n <= m
    BY <1>1, <2>1
  <2>3. QED
    BY <1>2, <2>1, <2>2 DEF Bits
<1> HIDE DEF S
<1>7. Min(S) = w - 1 - m
  BY <1>4, <1>5, <1>6, MinIs
<1>8. count_leading_zeros(build, w, v) = Min(S)
  BY Zenon DEF count_leading_zeros, S
<1>9. QED
  BY <1>7, <1>8, Zenon DEF m

LEMMA TrailingZeros ==
    ASSUME NEW w \in Nat, NEW v, v \subseteq Bits(w), v # {}, NEW build
    PROVE  count_trailing_zeros(build, w, v) = Min(v)
<1>1. v \subseteq Int /\ 0 \in Nat
  BY DEF Bits
<1>2. ASSUME NEW n \in Bits(w) PROVE 0 \in Shr(v, n) <=> n \in v
  <2>1. n \in Int /\ 0 + n = n
    BY DEF Bits
  <2>2. 0 \in Shr(v, n) <=> 0 + n \in v
    BY <1>1, <2>1, InShr, Zenon
  <2>3. QED
    BY <2>1, <2>2
<1>3. {n \in Bits(w) : 0 \in Shr(v, n)} = v
  BY <1>2
<1>4. QED
  BY <1>3, Zenon DEF count_trailing_zeros

LEMMA FirstOne ==
    ASSUME NEW w \in Nat, NEW v, v \subseteq Bits(w), v # {}
    PROVE  first_leading_one(w, v) = w - Max(v)
<1> DEFINE S == {pos \in 1 .. w : w - pos \in v}
           m == Max(v)
<1>1. m \in v /\ \A y \in v : y <= m
  BY LargestBit, Zenon
<1> HIDE DEF m
<1>2. v \subseteq Int /\ m \in Bits(w)
  BY <1>1 DEF Bits
<1>3. w - m \in S
  <2>1. w - m \in 1 .. w /\ w - (w - m) = m
    BY <1>2 DEF Bits
  <2>2. QED
    BY <1>1, <2>1
<1>4. ASSUME NEW n \in S PROVE w - m <= n
  <2>1. w - n \in v /\ n \in Int
    OBVIOUS
  <2>2. w - n <= m
    BY <1>1, <2>1
  <2>3. QED
    BY <1>2, <2>1, <2>2 DEF Bits
<1>5. S \subseteq Int
  OBVIOUS
<1> HIDE DEF S
<1>6. Min(S) = w - m
  BY <1>3, <1>4, <1>5, MinIs
<1>7. QED
  BY <1>6, Zenon DEF first_leading_one, S, m

LEMMA BitsAreFinite ==
    ASSUME NEW w \in Nat, NEW v, v \subseteq Bits(w)
    PROVE  /\ IsFiniteSet(v) /\ Cardinality(v) \in Nat /\ Cardinality(v) <= w
           /\ Cardinality(Bits(w) \ v) = w - Cardinality(v)
<1>1. IsFiniteSet(0 .. w - 1) /\ Cardinality(0 .. w - 1) = w
  <2>1. 0 \in Int /\ w - 1 \in Int
    OBVIOUS
  <2>2. IsFiniteSet(0 .. w - 1) /\ Cardinality(0 .. w - 1) = IF 0 > w - 1 THEN 0 ELSE (w - 1) - 0 + 1
    BY <2>1, FS_Interval, Zenon
  <2>3. QED
    BY <2>2
<1>2. IsFiniteSet(Bits(w)) /\ Cardinality(Bits(w)) = w
  BY <1>1 DEF Bits
<1>3. v \in SUBSET Bits(w)
  OBVIOUS
<1>4. IsFiniteSet(v) /\ Cardinality(v) <= w
  BY <1>2, <1>3, FS_Subset, Zenon
<1>5. Cardinality(v) \in Nat
  BY <1>4, FS_CardinalityType, Zenon
<1>6. Bits(w) \cap v = v
  OBVIOUS
<1>7. Cardinality(Bits(w) \ v) = w - Cardinality(v)
  <2>1. Cardinality(Bits(w) \ v) = Cardinality(Bits(w)) - Cardinality(Bits(w) \cap v)
    BY <1>2, FS_Difference, Zenon
  <2>2. QED
    BY <1>2, <1>6, <2>1, Zenon
<1>8. QED
  BY <1>4, <1>5, <1>7, Zenon

\* The ones from place lo on, n places.
Ones(v, lo, n) == Cardinality(v \cap (lo .. (lo + n) - 1))

Adding(v, lo, m, n) == Ones(v, lo, m) + Ones(v, lo + m, n) = Ones(v, lo, m + n)

LEMMA OnesAdd ==
    ASSUME NEW v, v \subseteq Nat, NEW lo \in Nat, NEW m \in Nat, NEW n \in Nat
    PROVE  /\ Adding(v, lo, m, n)
           /\ Ones(v, lo, 1) = IF lo \in v THEN 1 ELSE 0
<1> DEFINE A == v \cap (lo .. (lo + m) - 1)
           B == v \cap ((lo + m) .. ((lo + m) + n) - 1)
           C == v \cap (lo .. (lo + (m + n)) - 1)
<1>1. C = A \cup B /\ A \cap B = {}
  OBVIOUS
<1>2. IsFiniteSet(lo .. (lo + m) - 1) /\ IsFiniteSet((lo + m) .. ((lo + m) + n) - 1)
  <2>1. lo \in Int /\ lo + m \in Int /\ (lo + m) - 1 \in Int /\ ((lo + m) + n) - 1 \in Int
    OBVIOUS
  <2>2. QED
    BY <2>1, FS_Interval, Zenon
<1>3. IsFiniteSet(A) /\ IsFiniteSet(B)
  BY <1>2, FS_Intersection, Zenon
<1> HIDE DEF A, B, C
<1>4. Cardinality(A) \in Nat /\ Cardinality(B) \in Nat
  BY <1>3, FS_CardinalityType, Zenon
<1>5. Cardinality(A \cup B) = Cardinality(A) + Cardinality(B) - Cardinality(A \cap B)
  BY <1>3, FS_Union, Zenon
<1>6. Cardinality(A \cap B) = 0
  BY <1>1, FS_EmptySet, Zenon
<1>7. Cardinality(C) = Cardinality(A) + Cardinality(B)
  BY <1>1, <1>4, <1>5, <1>6
<1>8. v \cap (lo .. (lo + 1) - 1) = IF lo \in v THEN {lo} ELSE {}
  OBVIOUS
<1>9. Ones(v, lo, 1) = IF lo \in v THEN 1 ELSE 0
  BY <1>8, FS_EmptySet, FS_Singleton, Zenon DEF Ones
<1>10. QED
  BY <1>7, <1>9, Zenon DEF Adding, Ones, A, B, C

LEMMA OnesAreCounted ==
    ASSUME NEW w \in Nat \ {0}, NEW v, v \subseteq Bits(w)
    PROVE  count_ones(w, v) = Cardinality(v)
<1> DEFINE Step(f, n) ==
               IF n = 1 THEN [lo \in Bits(w) |-> IF lo \in v THEN 1 ELSE 0]
               ELSE [lo \in 0 .. w - n |-> f[n \div 2][lo] + f[n - (n \div 2)][lo + (n \div 2)]]
           want == [n \in 1 .. w |-> [lo \in 0 .. w - n |-> Ones(v, lo, n)]]
           sum == CHOOSE f : f = [n \in 1 .. w |-> Step(f, n)]
<1>1. v \subseteq Nat
  BY DEF Bits
<1>11. ASSUME NEW lo \in Nat, NEW m \in Nat, NEW k \in Nat
       PROVE  Ones(v, lo, m) + Ones(v, lo + m, k) = Ones(v, lo, m + k)
  <2>1. Adding(v, lo, m, k)
    BY <1>1, OnesAdd, Zenon
  <2>2. QED
    BY <2>1, Zenon DEF Adding
\* What is wanted is added up as the loop adds.
<1>2. ASSUME NEW f, NEW n \in 1 .. w, \A k \in 1 .. n - 1 : f[k] = want[k]
      PROVE  Step(f, n) = want[n]
  <2>1. CASE n = 1
    <3>1. \A lo \in Bits(w) : Ones(v, lo, 1) = IF lo \in v THEN 1 ELSE 0
      <4>1. Bits(w) \subseteq Nat /\ 0 \in Nat
        BY DEF Bits
      <4>2. QED
        BY <1>1, <4>1, OnesAdd, Zenon
    <3>2. 0 .. w - n = Bits(w)
      BY <2>1 DEF Bits
    <3>3. want[n] = [lo \in 0 .. w - n |-> Ones(v, lo, n)]
      BY Zenon
    <3>4. QED
      BY <2>1, <3>1, <3>2, <3>3
  <2>2. CASE n # 1
    <3> DEFINE a == n \div 2
               b == n - a
    <3>1. a \in 1 .. n - 1 /\ b \in 1 .. n - 1 /\ a + b = n /\ a \in 1 .. w /\ b \in 1 .. w
      BY <2>2
    <3> HIDE DEF a
    <3>2. f[a] = [lo \in 0 .. w - a |-> Ones(v, lo, a)] /\ f[b] = [lo \in 0 .. w - b |-> Ones(v, lo, b)]
      BY <1>2, <3>1
    <3> HIDE DEF b
    <3>3. ASSUME NEW lo \in 0 .. w - n PROVE f[a][lo] + f[b][lo + a] = Ones(v, lo, n)
      <4>1. lo \in 0 .. w - a /\ lo + a \in 0 .. w - b /\ lo \in Nat /\ a \in Nat /\ b \in Nat
        BY <3>1
      <4>2. f[a][lo] = Ones(v, lo, a) /\ f[b][lo + a] = Ones(v, lo + a, b)
        BY <3>2, <4>1, Zenon
      <4>3. Ones(v, lo, a) + Ones(v, lo + a, b) = Ones(v, lo, a + b)
        BY <1>11, <4>1, Zenon
      <4>4. QED
        BY <3>1, <4>2, <4>3, Zenon
    <3>4. Step(f, n) = [lo \in 0 .. w - n |-> f[a][lo] + f[b][lo + a]]
      BY <2>2, Zenon DEF a, b
    <3> HIDE DEF Step
    <3>5. QED
      BY <3>3, <3>4
  <2>3. QED
    BY <2>1, <2>2, Zenon
<1> HIDE DEF Step
<1>3. want = [n \in 1 .. w |-> Step(want, n)]
  <2>1. \A n \in 1 .. w : Step(want, n) = want[n]
    BY <1>2, Zenon
  <2>2. want = [n \in 1 .. w |-> want[n]]
    OBVIOUS
  <2> HIDE DEF want
  <2>3. QED
    BY <2>1, <2>2
<1>4. sum = [n \in 1 .. w |-> Step(sum, n)]
  <2> HIDE DEF want
  <2>1. QED
    BY <1>3, Zenon
<1> HIDE DEF sum, want
\* The first width at which they differ.
<1>5. \A n \in 1 .. w : sum[n] = want[n]
  <2> DEFINE Bad == {n \in 1 .. w : sum[n] # want[n]}
  <2>1. SUFFICES ASSUME Bad # {} PROVE FALSE
    BY Zenon
  <2>2. Bad \subseteq Nat
    OBVIOUS
  <2> DEFINE n == Min(Bad)
  <2>3. n \in Bad /\ \A k \in Bad : n <= k
    BY <2>1, <2>2, LeastNumber, Zenon
  <2> HIDE DEF n
  <2>4. \A k \in 1 .. n - 1 : sum[k] = want[k]
    BY <2>3
  <2>5. Step(sum, n) = want[n]
    BY <1>2, <2>3, <2>4, Zenon
  <2>6. sum[n] = Step(sum, n)
    BY <1>4, <2>3, Zenon
  <2>7. QED
    BY <2>3, <2>5, <2>6, Zenon
<1>6. sum[w][0] = Ones(v, 0, w)
  <2>1. w \in 1 .. w /\ 0 \in 0 .. w - w
    OBVIOUS
  <2>2. sum[w] = want[w]
    BY <1>5, <2>1, Zenon
  <2>3. want[w] = [lo \in 0 .. w - w |-> Ones(v, lo, w)]
    BY <2>1, Zenon DEF want
  <2>4. QED
    BY <2>1, <2>2, <2>3, Zenon
<1>7. count_ones(w, v) = sum[w][0]
  BY Zenon DEF count_ones, sum, Step
<1>8. v \cap (0 .. (0 + w) - 1) = v
  <2>1. 0 .. (0 + w) - 1 = Bits(w)
    BY DEF Bits
  <2>2. QED
    BY <2>1
<1>9. QED
  BY <1>6, <1>7, <1>8, Zenon DEF Ones

LEMMA SingleBit ==
    ASSUME NEW w \in Nat, NEW v, v \subseteq Bits(w)
    PROVE  has_single_bit(w, v) <=> Cardinality(v) = 1
<1>1. CASE v = {}
  <2>1. Cardinality(v) = 0
    BY <1>1, FS_EmptySet, Zenon
  <2>2. QED
    BY <1>1, <2>1 DEF has_single_bit
<1>2. CASE v # {}
  <2> DEFINE m == Min(v)
  <2>1. m \in v /\ \A y \in v : m <= y
    BY <1>2, LeastBit, Zenon
  <2>2. MinusOne(w, v) = (v \ {m}) \cup {i \in Bits(w) : i < m}
    BY <1>2, Zenon DEF MinusOne
  <2> HIDE DEF m
  <2>3. v \subseteq Int
    BY DEF Bits
  <2>4. v \cap MinusOne(w, v) = v \ {m}
    BY <2>1, <2>2, <2>3
  <2>5. IsFiniteSet(v)
    BY BitsAreFinite, Zenon
  <2>6. Cardinality(v) = 1 <=> \E x : v = {x}
    BY <2>5, FS_Singleton, Zenon
  <2>7. (\E x : v = {x}) <=> v \ {m} = {}
    BY <2>1
  <2>8. QED
    BY <1>2, <2>4, <2>6, <2>7, Zenon DEF has_single_bit
<1>3. QED
  BY <1>1, <1>2

LEMMA OneShifted ==
    ASSUME NEW w \in Nat, NEW i \in Int, NEW n \in Int
    PROVE  Shl(w, {i}, n) = {i + n} \cap Bits(w)
BY DEF Shl

LEMMA FloorIsLargest ==
    ASSUME NEW w \in Nat, NEW v, v \subseteq Bits(w), v # {}, NEW build
    PROVE  bit_floor(build, w, v) = {Max(v)}
<1> DEFINE m == Max(v)
<1>1. m \in v /\ count_leading_zeros(build, w, v) = w - 1 - m
  BY LargestBit, LeadingZeros, Zenon
<1>2. bit_floor(build, w, v) = Shl(w, {0}, w - 1 - count_leading_zeros(build, w, v))
  BY Zenon DEF bit_floor
<1> HIDE DEF m
<1>3. m \in Bits(w) /\ m \in Int /\ w - 1 - (w - 1 - m) = m /\ 0 + m = m /\ 0 \in Int
  BY <1>1 DEF Bits
<1>4. Shl(w, {0}, m) = {0 + m} \cap Bits(w)
  BY <1>3, OneShifted, Zenon
<1>5. Shl(w, {0}, m) = {m}
  BY <1>3, <1>4
<1>6. bit_floor(build, w, v) = {m}
  BY <1>1, <1>2, <1>3, <1>5, Zenon
<1>7. QED
  BY <1>6 DEF m

\* The largest one of value - 1 is that of the value, or the one below it when
\* the value is a power of two.
LEMMA CeilIsLargest ==
    ASSUME NEW w \in Nat, NEW v, v \subseteq Bits(w), ~(v \subseteq {0}), NEW build
    PROVE  bit_ceil(build, w, v) = IF v = {Max(v)} THEN v ELSE {Max(v) + 1} \cap Bits(w)
<1> DEFINE m == Max(v)
           l == Min(v)
           less == MinusOne(w, v)
<1>1. v # {}
  OBVIOUS
<1>2. m \in v /\ (\A y \in v : y <= m) /\ l \in v /\ (\A y \in v : l <= y)
  BY <1>1, LargestBit, LeastBit, Zenon
<1>3. less = (v \ {l}) \cup {i \in Bits(w) : i < l}
  BY <1>1, Zenon DEF MinusOne
<1> HIDE DEF m, l, less
<1>4. m \in Bits(w) /\ l \in Bits(w) /\ v \subseteq Int /\ Bits(w) \subseteq Int
  BY <1>2 DEF Bits
<1>5. m # 0
  <2>1. SUFFICES ASSUME m = 0 PROVE v \subseteq {0}
    OBVIOUS
  <2>2. \A y \in v : y = 0
    <3>1. \A y \in v : y >= 0
      BY DEF Bits
    <3>2. QED
      BY <1>2, <1>4, <2>1, <3>1
  <2>3. QED
    BY <2>2
<1>6. less \subseteq Bits(w)
  BY <1>3
<1>7. bit_ceil(build, w, v) = Shl(w, {1}, w - 1 - count_leading_zeros(build, w, less))
  <2>1. v \notin {{}, {0}}
    OBVIOUS
  <2>2. QED
    BY <2>1, Zenon DEF bit_ceil, less
<1>8. ASSUME NEW x \in less, \A y \in less : y <= x
      PROVE  bit_ceil(build, w, v) = {x + 1} \cap Bits(w)
  <2>1. less \subseteq Int /\ x \in Int
    BY <1>4, <1>6
  <2>2. Max(less) = x
    BY <1>8, <2>1, MaxIs, Zenon
  <2>3. less # {}
    BY <1>8
  <2>4. count_leading_zeros(build, w, less) = w - 1 - x
    BY <1>6, <2>2, <2>3, LeadingZeros, Zenon
  <2>5. w - 1 - (w - 1 - x) = x /\ 1 + x = x + 1 /\ 1 \in Int
    BY <2>1
  <2>6. Shl(w, {1}, x) = {1 + x} \cap Bits(w)
    BY <2>1, <2>5, OneShifted, Zenon
  <2>7. QED
    BY <1>7, <2>4, <2>5, <2>6, Zenon
<1>9. CASE v = {m}
  <2>1. l = m
    BY <1>2, <1>9
  <2>2. m - 1 \in Bits(w) /\ m - 1 < l
    BY <1>4, <1>5, <2>1 DEF Bits
  <2>3. m - 1 \in less /\ \A y \in less : y <= m - 1
    BY <1>3, <1>4, <1>9, <2>1, <2>2
  <2>4. bit_ceil(build, w, v) = {(m - 1) + 1} \cap Bits(w)
    BY <1>8, <2>3
  <2>5. {(m - 1) + 1} \cap Bits(w) = v
    BY <1>4, <1>9
  <2>6. QED
    BY <1>9, <2>4, <2>5, Zenon DEF m
<1>10. CASE v # {m}
  <2>1. l # m
    <3>1. SUFFICES ASSUME l = m PROVE v = {m}
      BY <1>10, Zenon
    <3>2. \A y \in v : y = m
      BY <1>2, <1>4, <3>1
    <3>3. QED
      BY <1>2, <3>2
  <2>2. m \in less /\ \A y \in less : y <= m
    BY <1>2, <1>3, <1>4, <2>1
  <2>3. bit_ceil(build, w, v) = {m + 1} \cap Bits(w)
    BY <1>8, <2>2
  <2>4. QED
    BY <1>10, <2>3, Zenon DEF m
<1>11. QED
  BY <1>9, <1>10, Zenon

\* The counts have no answer of their own for a value without ones.
Unclear(f, build, w, v) ==
    build = "fallback" /\ ((f \in {"clz", "ctz"} /\ v = {}) \/ (f \in {"clo", "cto"} /\ v = Bits(w)))

LEMMA LeadingCounted ==
    ASSUME NEW w \in Nat, NEW v, v \subseteq Bits(w), NEW build, build = "builtin" \/ v # {}
    PROVE  /\ count_leading_zeros(build, w, v) = IF v = {} THEN w ELSE w - 1 - Max(v)
           /\ count_trailing_zeros(build, w, v) = IF v = {} THEN w ELSE Min(v)
<1>1. CASE v = {}
  BY <1>1, Zenon DEF count_leading_zeros, count_trailing_zeros
<1>2. CASE v # {}
  BY <1>2, LeadingZeros, TrailingZeros, Zenon
<1>3. QED
  BY <1>1, <1>2

LEMMA QueryIsExpected ==
    ASSUME NEW w \in Nat \ {0}, NEW v, v \subseteq Bits(w), NEW build \in Builds, NEW f \in Queries,
           ~Unclear(f, build, w, v)
    PROVE  Query(f, build, w, v) = Expected(f, w, v)
<1> DEFINE u == Bits(w) \ v
<1>1. u \subseteq Bits(w) /\ (u = {} <=> v = Bits(w)) /\ w \in Nat /\ Not(w, v) = u /\ Bits(w) \ v = u
  BY DEF Not
<1> HIDE DEF u
<1>2. build = "builtin" \/ build = "fallback"
  BY DEF Builds
<1>3. CASE f = "clz"
  <2>1. build = "builtin" \/ v # {}
    BY <1>2, <1>3 DEF Unclear
  <2>2. count_leading_zeros(build, w, v) = IF v = {} THEN w ELSE w - 1 - Max(v)
    BY <1>1, <2>1, LeadingCounted, Zenon
  <2>3. QED
    BY <1>3, <2>2 DEF Query, Expected
<1>4. CASE f = "clo"
  <2>1. build = "builtin" \/ u # {}
    BY <1>1, <1>2, <1>4 DEF Unclear
  <2>2. count_leading_zeros(build, w, u) = IF u = {} THEN w ELSE w - 1 - Max(u)
    BY <1>1, <2>1, LeadingCounted, Zenon
  <2>3. QED
    BY <1>1, <1>4, <2>2 DEF Query, Expected, count_leading_ones
<1>5. CASE f = "ctz"
  <2>1. build = "builtin" \/ v # {}
    BY <1>2, <1>5 DEF Unclear
  <2>2. count_trailing_zeros(build, w, v) = IF v = {} THEN w ELSE Min(v)
    BY <1>1, <2>1, LeadingCounted, Zenon
  <2>3. QED
    BY <1>5, <2>2 DEF Query, Expected
<1>6. CASE f = "cto"
  <2>1. build = "builtin" \/ u # {}
    BY <1>1, <1>2, <1>6 DEF Unclear
  <2>2. count_trailing_zeros(build, w, u) = IF u = {} THEN w ELSE Min(u)
    BY <1>1, <2>1, LeadingCounted, Zenon
  <2>3. QED
    BY <1>1, <1>6, <2>2 DEF Query, Expected, count_trailing_ones
<1>7. ASSUME NEW s, s \subseteq Bits(w)
      PROVE  first_leading_one(w, s) = IF s = {} THEN 0 ELSE w - Max(s)
  <2>1. CASE s = {}
    BY <2>1, Zenon DEF first_leading_one
  <2>2. CASE s # {}
    BY <1>1, <1>7, <2>2, FirstOne, Zenon
  <2>3. QED
    BY <2>1, <2>2
<1>8. CASE f = "first one"
  <2>1. first_leading_one(w, v) = IF v = {} THEN 0 ELSE w - Max(v)
    BY <1>7
  <2>2. QED
    BY <1>8, <2>1 DEF Query, Expected
<1>9. CASE f = "first zero"
  <2>1. first_leading_one(w, u) = IF u = {} THEN 0 ELSE w - Max(u)
    BY <1>1, <1>7
  <2>2. QED
    BY <1>1, <1>9, <2>1 DEF Query, Expected, first_leading_zero
<1>10. CASE f = "ones"
  <2>1. count_ones(w, v) = Cardinality(v)
    BY OnesAreCounted, Zenon
  <2>2. QED
    BY <1>10, <2>1 DEF Query, Expected
<1>11. CASE f = "zeros"
  <2>1. count_ones(w, u) = Cardinality(u)
    BY <1>1, OnesAreCounted, Zenon
  <2>2. Cardinality(u) = w - Cardinality(v)
    BY <1>1, BitsAreFinite, Zenon
  <2>3. QED
    BY <1>1, <1>11, <2>1, <2>2 DEF Query, Expected, count_zeros
<1>12. CASE f = "width"
  <2>1. get_req_bit_width(build, w, v) = w - (IF v = {} THEN w ELSE w - 1 - Max(v))
    <3>1. CASE v = {}
      BY <3>1, Zenon DEF get_req_bit_width
    <3>2. CASE v # {}
      <4>1. count_leading_zeros(build, w, v) = w - 1 - Max(v)
        BY <1>1, <3>2, LeadingZeros, Zenon
      <4>2. QED
        BY <3>2, <4>1, Zenon DEF get_req_bit_width
    <3>3. QED
      BY <3>1, <3>2
  <2>2. QED
    BY <1>12, <2>1 DEF Query, Expected
<1>13. CASE f = "single"
  <2>1. has_single_bit(w, v) <=> Cardinality(v) = 1
    BY <1>1, SingleBit, Zenon
  <2>2. has_single_bit(w, v) = (Cardinality(v) = 1)
    BY <2>1 DEF has_single_bit
  <2>3. QED
    BY <1>13, <2>2 DEF Query, Expected
<1>14. CASE f = "floor"
  <2>1. bit_floor(build, w, v) = IF v = {} THEN {} ELSE {Max(v)}
    <3>1. CASE v = {}
      BY <3>1, Zenon DEF bit_floor
    <3>2. CASE v # {}
      BY <1>1, <3>2, FloorIsLargest, Zenon
    <3>3. QED
      BY <3>1, <3>2
  <2>2. QED
    BY <1>14, <2>1 DEF Query, Expected
<1>15. CASE f = "ceil"
  <2>1. bit_ceil(build, w, v) = IF v \subseteq {0} THEN {0} ELSE IF v = {Max(v)} THEN v ELSE {Max(v) + 1} \cap Bits(w)
    <3>1. CASE v \subseteq {0}
      <4>1. v \in {{}, {0}}
        BY <3>1
      <4>2. QED
        BY <3>1, <4>1, Zenon DEF bit_ceil
    <3>2. CASE ~(v \subseteq {0})
      BY <1>1, <3>2, CeilIsLargest, Zenon
    <3>3. QED
      BY <3>1, <3>2
  <2>2. QED
    BY <1>15, <2>1 DEF Query, Expected
<1>16. QED
  BY <1>3, <1>4, <1>5, <1>6, <1>8, <1>9, <1>10, <1>11, <1>12, <1>13, <1>14, <1>15 DEF Queries

\* A number below 2w is less w when it is not below w.
LEMMA OnceAround ==
    ASSUME NEW w \in Nat \ {0}, NEW x \in 0 .. 2 * w - 1
    PROVE  x % w = IF x < w THEN x ELSE x - w
<1>1. CASE x < w
  BY <1>1
<1>2. CASE ~(x < w)
  <2>1. x - w \in 0 .. w - 1 /\ x - w \in Int /\ 1 \in Int /\ w * 1 + (x - w) = x
    BY <1>2
  <2>2. (w * 1 + (x - w)) % w = (x - w) % w
    BY <2>1, ModuloOfSum, Zenon
  <2>3. (x - w) % w = x - w
    BY <2>1
  <2>4. QED
    BY <1>2, <2>1, <2>2, <2>3
<1>3. QED
  BY <1>1, <1>2

\* A number and what is left of it are the same places apart.
LEMMA SameTurn ==
    ASSUME NEW w \in Nat \ {0}, NEW i \in Bits(w), NEW n \in Nat
    PROVE  /\ (i + n) % w = (i + (n % w)) % w
           /\ n % w \in Bits(w)
<1>1. n % w \in 0 .. w - 1 /\ n \div w \in Int /\ n = w * (n \div w) + (n % w)
  BY Divided
<1> DEFINE c == n % w
           q == n \div w
           p == w * q
<1>2. c \in 0 .. w - 1 /\ q \in Int /\ n = p + c /\ p \in Int
  BY <1>1
<1>3. (w * q + (i + c)) % w = (i + c) % w
  <2>1. i + c \in Int
    BY <1>2 DEF Bits
  <2> HIDE DEF c, q
  <2>2. QED
    BY <1>2, <2>1, ModuloOfSum, Zenon
<1>4. w * q + (i + c) = i + n
  <2> HIDE DEF c, p
  <2>1. p + (i + c) = i + n
    BY <1>2 DEF Bits
  <2>2. QED
    BY <2>1 DEF p
<1>5. QED
  BY <1>2, <1>3, <1>4, Zenon DEF Bits

\* The unsigned negative of a count turns as far as the count, the other way.
LEMMA NegativeTurns ==
    ASSUME NEW w \in Widths, NEW n \in Nat
    PROVE  Negative(n) % w = IF n % w = 0 THEN 0 ELSE w - (n % w)
<1>1. w \in Nat \ {0} /\ UINT_RANGE \in Nat \ {0}
  BY WidthsOfTypes, BitManipAssumption
<1>2. PICK k \in Nat \ {0} : U64 = w * k
  <2>1. BITSPERBYTE \in Nat
    BY BitManipAssumption
  <2>2. U64 = U8 * 8 /\ U64 = U16 * 4 /\ U64 = U32 * 2 /\ U64 = U64 * 1
    BY <2>1 DEF U8, U16, U32, U64
  <2>3. 8 \in Nat \ {0} /\ 4 \in Nat \ {0} /\ 2 \in Nat \ {0} /\ 1 \in Nat \ {0}
    OBVIOUS
  <2>4. QED
    BY <2>2, <2>3, Zenon DEF Widths
<1>3. PICK r \in Int : UINT_RANGE = w * r
  <2>1. UINT_RANGE % U64 = 0 /\ U64 \in Nat \ {0}
    BY BitManipAssumption, WidthsOfTypes DEF Widths, U64
  <2> DEFINE q == UINT_RANGE \div U64
  <2>2. q \in Int /\ UINT_RANGE = U64 * q + (UINT_RANGE % U64)
    BY <1>1, <2>1, Divided
  <2> HIDE DEF q
  <2>3. UINT_RANGE = U64 * q
    BY <1>1, <2>1, <2>2
  <2>4. (w * k) * q = w * (k * q) /\ k * q \in Int
    BY <1>1, <1>2, <2>2
  <2>5. QED
    BY <1>2, <2>3, <2>4, Zenon
\* Modulo the range, which the width divides.
<1> DEFINE R == UINT_RANGE
           x == R - n
           m == x % R
           c == n % w
<1>4. m % w = x % w
  <2>1. x \in Int
    BY <1>1
  <2> DEFINE q == x \div R
  <2>2. q \in Int /\ m \in 0 .. R - 1 /\ x = R * q + m
    <3> HIDE DEF x
    <3>1. QED
      BY <1>1, <2>1, Divided, Zenon
  <2> HIDE DEF q, m, x
  <2>3. m \in Int /\ r * q \in Int /\ R * q = w * (r * q)
    BY <1>1, <1>3, <2>2
  <2>4. (w * (r * q) + m) % w = m % w
    BY <1>1, <2>3, ModuloOfSum, Zenon
  <2>5. QED
    BY <2>2, <2>3, <2>4, Zenon
<1>5. c \in 0 .. w - 1 /\ n \div w \in Int /\ n = w * (n \div w) + c
  <2>1. n \in Int
    OBVIOUS
  <2>2. QED
    BY <1>1, <2>1, Divided, Zenon
<1>6. x % w = (0 - c) % w
  <2> DEFINE q == n \div w
  <2>1. q \in Int /\ c \in 0 .. w - 1 /\ n = w * q + c
    BY <1>5
  <2> HIDE DEF q, c
  <2>2. R - n = w * (r - q) + (0 - c) /\ r - q \in Int /\ 0 - c \in Int
    <3>1. w * r - (w * q + c) = w * (r - q) + (0 - c)
      BY <1>1, <1>3, <2>1
    <3>2. QED
      BY <1>1, <1>3, <2>1, <3>1
  <2>3. (w * (r - q) + (0 - c)) % w = (0 - c) % w
    BY <1>1, <2>2, ModuloOfSum, Zenon
  <2>4. QED
    BY <2>2, <2>3, Zenon
<1> HIDE DEF x, m, c
<1>7. (0 - c) % w = IF c = 0 THEN 0 ELSE w - c
  <2>1. CASE c = 0
    BY <1>1, <2>1
  <2>2. CASE c # 0
    <3>1. 0 - c \in Int /\ 1 \in Int /\ w * 1 + (0 - c) = w - c /\ w - c \in 0 .. w - 1
      BY <1>1, <1>5, <2>2
    <3>2. (w * 1 + (0 - c)) % w = (0 - c) % w
      BY <1>1, <3>1, ModuloOfSum, Zenon
    <3>3. (w - c) % w = w - c
      BY <1>1, <3>1
    <3>4. QED
      BY <2>2, <3>1, <3>2, <3>3, Zenon
  <2>3. QED
    BY <2>1, <2>2
<1>8. Negative(n) = m
  BY Zenon DEF Negative, m, x
<1>9. QED
  BY <1>4, <1>6, <1>7, <1>8, Zenon DEF c

LEMMA LeftTurns ==
    ASSUME NEW w \in Widths, NEW v, v \subseteq Bits(w), NEW n \in Nat
    PROVE  rotate_left(w, v, n) = {(i + n) % w : i \in v}
<1> DEFINE c == n % w
           d == IF c = 0 THEN 0 ELSE w - c
<1>1. w \in Nat \ {0} /\ v \subseteq Int
  BY WidthsOfTypes DEF Bits
<1>2. c \in 0 .. w - 1
  BY <1>1
<1>3. Negative(n) % w = d
  BY NegativeTurns, Zenon
<1>4. rotate_left(w, v, n) = Shl(w, v, c) \cup Shr(v, d)
  BY <1>3, Zenon DEF rotate_left
<1>5. ASSUME NEW i \in v PROVE (i + n) % w = IF i + c < w THEN i + c ELSE (i + c) - w
  <2>1. (i + n) % w = (i + c) % w
    BY <1>1, SameTurn
  <2> HIDE DEF c
  <2>2. i + c \in 0 .. 2 * w - 1
    BY <1>1, <1>2 DEF Bits
  <2> DEFINE x == i + c
  <2> HIDE DEF x
  <2>3. x % w = IF x < w THEN x ELSE x - w
    <3>1. x \in 0 .. 2 * w - 1
      BY <2>2 DEF x
    <3>2. QED
      BY <1>1, <3>1, OnceAround
  <2>4. (i + n) % w = x % w
    BY <2>1, Zenon DEF x
  <2>5. (i + n) % w = IF x < w THEN x ELSE x - w
    BY <2>3, <2>4, Zenon
  <2>6. QED
    BY <2>5 DEF x
<1> HIDE DEF c
<1>6. ASSUME NEW j PROVE j \in Shl(w, v, c) <=> j \in Bits(w) /\ j - c \in v
  <2>1. w \in Nat /\ c \in Int
    BY <1>1, <1>2
  <2>2. QED
    BY <1>1, <2>1, InShl, Zenon
<1>7. ASSUME NEW j PROVE j \in Shr(v, d) <=> j \in Nat /\ j + d \in v
  <2>1. d \in Int
    BY <1>1, <1>2
  <2> HIDE DEF d
  <2>2. QED
    BY <1>1, <2>1, InShr, Zenon
<1>8. ASSUME NEW i \in v PROVE (i + n) % w \in Shl(w, v, c) \cup Shr(v, d)
  <2>1. CASE i + c < w
    <3>1. i + c \in Bits(w) /\ (i + c) - c = i
      BY <1>1, <1>2, <2>1 DEF Bits
    <3>2. i + c \in Shl(w, v, c)
      BY <1>6, <3>1
    <3>3. QED
      BY <1>5, <2>1, <3>2
  <2>2. CASE ~(i + c < w)
    <3>1. c # 0 /\ (i + c) - w \in Nat /\ ((i + c) - w) + d = i
      BY <1>1, <1>2, <2>2 DEF Bits
    <3>2. (i + c) - w \in Shr(v, d)
      BY <1>7, <3>1
    <3>3. QED
      BY <1>5, <2>2, <3>2
  <2>3. QED
    BY <2>1, <2>2
<1>9. ASSUME NEW j \in Shl(w, v, c) PROVE \E i \in v : j = (i + n) % w
  <2>1. j \in Bits(w) /\ j - c \in v
    BY <1>6
  <2>2. (j - c) + c = j /\ j < w
    BY <1>1, <1>2, <2>1 DEF Bits
  <2>3. ((j - c) + n) % w = j
    BY <1>5, <2>1, <2>2
  <2>4. QED
    BY <2>1, <2>3
<1>10. ASSUME NEW j \in Shr(v, d) PROVE \E i \in v : j = (i + n) % w
  <2>1. j \in Nat /\ j + d \in v
    BY <1>7
  <2>2. CASE c = 0
    <3>1. j + d = j /\ j < w /\ (j + d) + c = j
      BY <1>1, <2>1, <2>2 DEF Bits
    <3>2. ((j + d) + n) % w = j
      BY <1>5, <2>1, <3>1
    <3>3. QED
      BY <2>1, <3>2
  <2>3. CASE c # 0
    <3>1. ~((j + d) + c < w) /\ ((j + d) + c) - w = j
      BY <1>1, <1>2, <2>1, <2>3 DEF Bits
    <3>2. ((j + d) + n) % w = j
      BY <1>5, <2>1, <3>1
    <3>3. QED
      BY <2>1, <3>2
  <2>4. QED
    BY <2>2, <2>3
<1>11. QED
  BY <1>4, <1>8, <1>9, <1>10

\* To the right by a count is to the left by what it leaves of the width.
LEMMA RightTurns ==
    ASSUME NEW w \in Widths, NEW v, v \subseteq Bits(w), NEW n \in Nat
    PROVE  rotate_right(w, v, n) = {((i + w) - (n % w)) % w : i \in v}
<1> DEFINE c == n % w
           d == IF c = 0 THEN 0 ELSE w - c
<1>1. w \in Nat \ {0} /\ v \subseteq Int
  BY WidthsOfTypes DEF Bits
<1>2. c \in 0 .. w - 1
  BY <1>1
<1>3. Negative(n) % w = d
  BY NegativeTurns, Zenon
<1>4. rotate_right(w, v, n) = Shr(v, c) \cup Shl(w, v, d)
  BY <1>3, Zenon DEF rotate_right
<1> HIDE DEF c
<1>5. d \in 0 .. w - 1 /\ d \in Nat /\ d % w = d /\ (IF d = 0 THEN 0 ELSE w - d) = c
  BY <1>1, <1>2
<1> HIDE DEF d
<1>6. rotate_left(w, v, d) = Shl(w, v, d) \cup Shr(v, c)
  <2>1. Negative(d) % w = IF d % w = 0 THEN 0 ELSE w - (d % w)
    BY <1>5, NegativeTurns, Zenon
  <2>2. Negative(d) % w = c
    BY <1>5, <2>1
  <2>3. QED
    BY <1>5, <2>2, Zenon DEF rotate_left
<1>7. rotate_left(w, v, d) = {(i + d) % w : i \in v}
  BY <1>5, LeftTurns, Zenon
<1>8. ASSUME NEW i \in v PROVE (i + d) % w = ((i + w) - c) % w
  <2>1. CASE c = 0
    <3>1. i \in Int /\ 1 \in Int /\ w * 1 + i = (i + w) - c /\ i + d = i
      BY <1>1, <2>1 DEF d
    <3>2. (w * 1 + i) % w = i % w
      BY <1>1, <3>1, ModuloOfSum, Zenon
    <3>3. QED
      BY <3>1, <3>2, Zenon
  <2>2. CASE c # 0
    <3>1. i + d = (i + w) - c
      BY <1>1, <1>2, <2>2 DEF d
    <3>2. QED
      BY <3>1, Zenon
  <2>3. QED
    BY <2>1, <2>2
<1>9. {(i + d) % w : i \in v} = {((i + w) - c) % w : i \in v}
  BY <1>8
<1>10. rotate_right(w, v, n) = {((i + w) - c) % w : i \in v}
  <2>1. Shr(v, c) \cup Shl(w, v, d) = Shl(w, v, d) \cup Shr(v, c)
    BY Zenon
  <2>2. QED
    BY <1>4, <1>6, <1>7, <1>9, <2>1, Zenon
<1>11. QED
  BY <1>10 DEF c

LEMMA BitSetAndCleared ==
    ASSUME NEW w \in Nat, NEW v, v \subseteq Bits(w), NEW n \in Bits(w)
    PROVE  SetBit(w, v, n) = v \cup {n} /\ ClearBit(w, v, n) = v \ {n}
<1>1. n \in Int /\ 0 \in Int /\ 0 + n = n
  BY DEF Bits
<1>2. M_BitN(w, n) = {n}
  <2>1. Shl(w, {0}, n) = {0 + n} \cap Bits(w)
    BY <1>1, OneShifted, Zenon
  <2>2. QED
    BY <1>1, <2>1 DEF M_BitN
<1>3. QED
  BY <1>2 DEF SetBit, ClearBit, Not

-----------------------------------------------------------------------------
(* Swaps: the units of a value in the other order.                         *)

\* S is v with its m units of u bits in the other order.
Turned(m, u, v, S) ==
    S \subseteq Bits(m * u)
    /\ \A q \in 0 .. m - 1, r \in 0 .. u - 1 : q * u + r \in S <=> ((m - 1) - q) * u + r \in v

LEMMA Placed ==
    ASSUME NEW u \in Nat \ {0}, NEW q \in Int, NEW r \in 0 .. u - 1
    PROVE  (q * u + r) \div u = q /\ (q * u + r) % u = r
OBVIOUS

LEMMA PlaceOfUnit ==
    ASSUME NEW m \in Nat \ {0}, NEW u \in Nat \ {0}, NEW i \in Bits(m * u)
    PROVE  /\ i \div u \in 0 .. m - 1 /\ i % u \in 0 .. u - 1 /\ i = (i \div u) * u + (i % u)
<1> DEFINE q == i \div u
           r == i % u
<1>1. q \in Int /\ r \in 0 .. u - 1 /\ i = u * q + r
  <2>1. i \in Int
    BY DEF Bits
  <2>2. QED
    BY <2>1, Divided, Zenon
<1>2. i \in 0 .. m * u - 1 /\ m * u \in Nat
  BY DEF Bits
<1> HIDE DEF q, r
<1>3. u * q = q * u
  BY <1>1
<1>4. q >= 0
  <2>1. SUFFICES ASSUME q <= 0 - 1 PROVE FALSE
    BY <1>1
  <2>2. \A a \in Nat, b \in Int : b <= 0 - 1 => a * b <= 0 - a
    OBVIOUS
  <2>3. u * q <= 0 - u
    BY <1>1, <2>1, <2>2
  <2> DEFINE p == u * q
  <2>4. p \in Int /\ p <= 0 - u /\ i = p + r
    BY <1>1, <2>3
  <2> HIDE DEF p
  <2>5. QED
    BY <1>1, <1>2, <2>4
<1>5. q < m
  <2>1. SUFFICES ASSUME q >= m PROVE FALSE
    BY <1>1
  <2>2. \A a \in Nat, b \in Nat, c \in Nat : b >= c => a * b >= c * a
    OBVIOUS
  <2>3. u * q >= m * u
    BY <1>1, <1>4, <2>1, <2>2
  <2> DEFINE p == u * q
             t == m * u
  <2>4. p \in Int /\ t \in Int /\ p >= t /\ i = p + r /\ i <= t - 1
    BY <1>1, <1>2, <2>3
  <2> HIDE DEF p, t
  <2>5. QED
    BY <1>1, <2>4
<1>6. q \in 0 .. m - 1
  BY <1>1, <1>4, <1>5
<1>7. QED
  BY <1>1, <1>3, <1>6, Zenon DEF q, r

LEMMA TurnedIsSwapped ==
    ASSUME NEW m \in Nat \ {0}, NEW u \in Nat \ {0}, NEW v, v \subseteq Bits(m * u), NEW S, Turned(m, u, v, S)
    PROVE  S = Swapped(m * u, v, u)
<1>1. (m * u) \div u = m
  <2>1. m \in Int /\ 0 \in 0 .. u - 1 /\ m * u + 0 = m * u
    OBVIOUS
  <2>2. (m * u + 0) \div u = m
    BY <2>1, Placed, Zenon
  <2>3. QED
    BY <2>1, <2>2, Zenon
<1> DEFINE At(i) == ((m - 1) - (i \div u)) * u + (i % u)
<1>2. Swapped(m * u, v, u) = {At(i) : i \in v}
  <2>1. \A i \in v : ((((m * u) \div u) - 1 - (i \div u)) * u) + (i % u) = At(i)
    BY <1>1, Zenon
  <2> HIDE DEF At
  <2>2. {((((m * u) \div u) - 1 - (i \div u)) * u) + (i % u) : i \in v} = {At(i) : i \in v}
    BY <2>1
  <2>3. QED
    BY <2>2, Zenon DEF Swapped
<1>3. ASSUME NEW q \in 0 .. m - 1, NEW r \in 0 .. u - 1
      PROVE  /\ (m - 1) - q \in 0 .. m - 1 /\ (m - 1) - ((m - 1) - q) = q
             /\ At(q * u + r) = ((m - 1) - q) * u + r
  <2>1. (q * u + r) \div u = q /\ (q * u + r) % u = r
    <3>1. q \in Int
      OBVIOUS
    <3>2. QED
      BY <3>1, Placed, Zenon
  <2>2. At(q * u + r) = ((m - 1) - q) * u + r
    BY <2>1, Zenon
  <2> HIDE DEF At
  <2>3. QED
    BY <2>2
<1>4. ASSUME NEW i \in v PROVE At(i) \in S
  <2> DEFINE q == i \div u
             r == i % u
  <2>1. q \in 0 .. m - 1 /\ r \in 0 .. u - 1 /\ i = q * u + r
    BY PlaceOfUnit, Zenon
  <2> HIDE DEF q, r
  <2>2. (m - 1) - q \in 0 .. m - 1 /\ (m - 1) - ((m - 1) - q) = q /\ At(q * u + r) = ((m - 1) - q) * u + r
    BY <1>3, <2>1, Zenon
  <2> HIDE DEF At
  <2>3. ((m - 1) - q) * u + r \in S <=> ((m - 1) - ((m - 1) - q)) * u + r \in v
    BY <2>1, <2>2, Zenon DEF Turned
  <2>4. QED
    BY <2>1, <2>2, <2>3, Zenon
<1>5. ASSUME NEW j \in S PROVE \E i \in v : j = At(i)
  <2> DEFINE q == j \div u
             r == j % u
  <2>1. j \in Bits(m * u)
    BY Zenon DEF Turned
  <2>2. q \in 0 .. m - 1 /\ r \in 0 .. u - 1 /\ j = q * u + r
    BY <2>1, PlaceOfUnit, Zenon
  <2> HIDE DEF q, r
  <2>3. ((m - 1) - q) * u + r \in v
    BY <2>2, Zenon DEF Turned
  <2>4. (m - 1) - q \in 0 .. m - 1 /\ (m - 1) - ((m - 1) - q) = q
    BY <2>2
  <2>5. At(((m - 1) - q) * u + r) = ((m - 1) - ((m - 1) - q)) * u + r
    BY <1>3, <2>2, <2>4, Zenon
  <2> HIDE DEF At
  <2>6. QED
    BY <2>2, <2>3, <2>4, <2>5, Zenon
<1> HIDE DEF At
<1>6. S = {At(i) : i \in v}
  BY <1>4, <1>5
<1>7. QED
  BY <1>2, <1>6, Zenon

LEMMA SizesOfUnits ==
    /\ U8 \in Nat \ {0} /\ U16 \in Nat \ {0} /\ U32 \in Nat \ {0} /\ U64 \in Nat \ {0} /\ NIBBLE \in Nat \ {0}
    /\ U8 = 2 * NIBBLE /\ U16 = 2 * U8 /\ U32 = 2 * U16 /\ U64 = 2 * U32
    /\ U32 = 4 * U8 /\ U64 = 8 * U8 /\ U64 = 4 * U16
<1>1. BITSPERBYTE \in Nat \ {0} /\ BITSPERBYTE % 2 = 0
  BY BitManipAssumption
<1>2. NIBBLE \in Nat \ {0} /\ BITSPERBYTE = 2 * NIBBLE
  BY <1>1 DEF NIBBLE
<1>3. QED
  BY <1>1, <1>2 DEF U8, U16, U32, U64

(* Two halves exchanged. *)
HalvesExchanged(w, h, v) == Shl(w, v \cap Mask(0, h), h) \cup Shr(v \cap Mask(h, h), h)

LEMMA InHalves ==
    ASSUME NEW h \in Nat \ {0}, NEW v, v \subseteq Bits(2 * h), NEW j \in Bits(2 * h)
    PROVE  j \in HalvesExchanged(2 * h, h, v) <=> IF j < h THEN j + h \in v ELSE j - h \in v
<1>1. v \subseteq Int /\ j \in Int /\ 2 * h \in Nat /\ h \in Int /\ v \cap Mask(0, h) \subseteq Int /\ v \cap Mask(h, h) \subseteq Int
  <2>1. v \subseteq Int /\ j \in Int /\ 2 * h \in Nat /\ h \in Int
    BY DEF Bits
  <2>2. QED
    BY <2>1
<1>2. j \in Shl(2 * h, v \cap Mask(0, h), h) <=> (j \in Bits(2 * h) /\ j - h \in v \cap Mask(0, h))
  BY <1>1, InShl, Zenon
<1>3. j \in Shr(v \cap Mask(h, h), h) <=> (j \in Nat /\ j + h \in v \cap Mask(h, h))
  BY <1>1, InShr, Zenon
<1>4. j \in Nat /\ (j - h \in Mask(0, h) <=> ~(j < h)) /\ (j + h \in Mask(h, h) <=> j < h)
  BY DEF Bits, Mask
<1>5. QED
  BY <1>2, <1>3, <1>4 DEF HalvesExchanged

LEMMA HalvesInRange ==
    ASSUME NEW h \in Nat \ {0}, NEW v, v \subseteq Bits(2 * h)
    PROVE  HalvesExchanged(2 * h, h, v) \subseteq Bits(2 * h)
BY DEF HalvesExchanged, Shl, Shr, Bits, Mask

LEMMA HalvesTurned ==
    ASSUME NEW h \in Nat \ {0}, NEW v, v \subseteq Bits(2 * h)
    PROVE  HalvesExchanged(2 * h, h, v) = Swapped(2 * h, v, h)
<1> DEFINE S == HalvesExchanged(2 * h, h, v)
<1>1. S \subseteq Bits(2 * h)
  BY HalvesInRange, Zenon
<1>2. ASSUME NEW j \in Bits(2 * h) PROVE j \in S <=> IF j < h THEN j + h \in v ELSE j - h \in v
  BY InHalves, Zenon
<1> HIDE DEF S
<1>3. ASSUME NEW q \in 0 .. 2 - 1, NEW r \in 0 .. h - 1 PROVE q * h + r \in S <=> ((2 - 1) - q) * h + r \in v
  <2>1. CASE q = 0
    <3>1. q * h + r = r /\ ((2 - 1) - q) * h + r = r + h /\ r < h /\ r \in Bits(2 * h)
      BY <2>1 DEF Bits
    <3>2. QED
      BY <1>2, <3>1
  <2>2. CASE q = 1
    <3>1. q * h + r = h + r /\ ((2 - 1) - q) * h + r = (h + r) - h /\ ~(h + r < h) /\ h + r \in Bits(2 * h)
      BY <2>2 DEF Bits
    <3>2. QED
      BY <1>2, <3>1
  <2>3. QED
    BY <2>1, <2>2
<1>4. Turned(2, h, v, S)
  BY <1>1, <1>3, Zenon DEF Turned
<1>5. S = Swapped(2 * h, v, h)
  <2>1. 2 \in Nat \ {0}
    OBVIOUS
  <2>2. QED
    BY <1>4, <2>1, TurnedIsSwapped, Zenon
<1>6. QED
  BY <1>5 DEF S

(* Two halves of h exchanged, and the halves of each. *)
QuartersExchanged(w, h, u, v) ==
    LET halves == HalvesExchanged(w, h, v)
    IN Shl(w, halves \cap (Mask(0, u) \cup Mask(h, u)), u)
       \cup Shr(halves \cap (Mask(u, u) \cup Mask(h + u, u)), u)

LEMMA QuartersTurned ==
    ASSUME NEW u \in Nat \ {0}, NEW v, v \subseteq Bits(4 * u)
    PROVE  QuartersExchanged(4 * u, 2 * u, u, v) = Swapped(4 * u, v, u)
<1> DEFINE halves == HalvesExchanged(4 * u, 2 * u, v)
           low == Mask(0, u) \cup Mask(2 * u, u)
           high == Mask(u, u) \cup Mask(2 * u + u, u)
           S == Shl(4 * u, halves \cap low, u) \cup Shr(halves \cap high, u)
<1>1. 2 * u \in Nat \ {0} /\ 4 * u = 2 * (2 * u) /\ 4 * u \in Nat /\ u \in Int
  OBVIOUS
<1>2. halves \subseteq Bits(4 * u)
  BY <1>1, HalvesInRange, Zenon
<1>3. ASSUME NEW j \in Bits(4 * u) PROVE j \in halves <=> IF j < 2 * u THEN j + 2 * u \in v ELSE j - 2 * u \in v
  BY <1>1, InHalves, Zenon
<1> HIDE DEF halves
<1>4. halves \subseteq Int /\ halves \cap low \subseteq Int /\ halves \cap high \subseteq Int
  <2>1. halves \subseteq Int
    BY <1>2 DEF Bits
  <2> HIDE DEF low, high
  <2>2. QED
    BY <2>1
<1>5. ASSUME NEW j PROVE j \in Shl(4 * u, halves \cap low, u) <=> (j \in Bits(4 * u) /\ j - u \in halves \cap low)
  <2> HIDE DEF low
  <2>1. QED
    BY <1>1, <1>4, InShl, Zenon
<1>6. ASSUME NEW j PROVE j \in Shr(halves \cap high, u) <=> (j \in Nat /\ j + u \in halves \cap high)
  <2> HIDE DEF high
  <2>1. QED
    BY <1>1, <1>4, InShr, Zenon
<1>7. S \subseteq Bits(4 * u)
  <2>1. ASSUME NEW j \in Shr(halves \cap high, u) PROVE j \in Bits(4 * u)
    <3>1. j \in Nat /\ j + u \in Bits(4 * u)
      BY <1>2, <1>6
    <3>2. QED
      BY <3>1 DEF Bits
  <2>2. QED
    BY <1>5, <2>1
<1>8. ASSUME NEW j \in Bits(4 * u) PROVE j \in S <=> \/ j - u \in halves /\ j - u \in low
                                                     \/ j + u \in halves /\ j + u \in high
  <2>1. j \in Nat
    BY DEF Bits
  <2> HIDE DEF low, high
  <2>2. QED
    BY <1>5, <1>6, <2>1
<1> HIDE DEF S
<1>9. ASSUME NEW q \in 0 .. 4 - 1, NEW r \in 0 .. u - 1 PROVE q * u + r \in S <=> ((4 - 1) - q) * u + r \in v
  <2> DEFINE j == q * u + r
  <2>1. CASE q = 0
    <3>1. /\ q * u + r = r /\ ((4 - 1) - q) * u + r = (r + u) + 2 * u /\ r \in Bits(4 * u) /\ r + u \in Bits(4 * u)
          /\ r + u < 2 * u /\ ~(r - u \in low) /\ r + u \in high
      BY <2>1 DEF Bits, Mask
    <3> HIDE DEF low, high
    <3>2. QED
      BY <1>3, <1>8, <3>1
  <2>2. CASE q = 1
    <3>1. /\ q * u + r = r + u /\ ((4 - 1) - q) * u + r = ((r + u) - u) + 2 * u /\ r + u \in Bits(4 * u)
          /\ (r + u) - u \in Bits(4 * u) /\ (r + u) - u < 2 * u /\ (r + u) - u \in low /\ ~((r + u) + u \in high)
      BY <2>2 DEF Bits, Mask
    <3> HIDE DEF low, high
    <3>2. QED
      BY <1>3, <1>8, <3>1
  <2>3. CASE q = 2
    <3> DEFINE p == r + 2 * u
    <3>1. /\ q * u + r = p /\ ((4 - 1) - q) * u + r = (p + u) - 2 * u /\ p \in Bits(4 * u)
          /\ p + u \in Bits(4 * u) /\ ~(p + u < 2 * u) /\ ~(p - u \in low) /\ p + u \in high
      BY <2>3 DEF Bits, Mask
    <3> HIDE DEF low, high, p
    <3>2. QED
      BY <1>3, <1>8, <3>1
  <2>4. CASE q = 3
    <3> DEFINE p == r + 3 * u
    <3>1. /\ q * u + r = p /\ ((4 - 1) - q) * u + r = (p - u) - 2 * u /\ p \in Bits(4 * u)
          /\ p - u \in Bits(4 * u) /\ ~(p - u < 2 * u) /\ p - u \in low /\ ~(p + u \in high)
      BY <2>4 DEF Bits, Mask
    <3> HIDE DEF low, high, p
    <3>2. QED
      BY <1>3, <1>8, <3>1
  <2>5. q = 0 \/ q = 1 \/ q = 2 \/ q = 3
    OBVIOUS
  <2>6. QED
    BY <2>1, <2>2, <2>3, <2>4, <2>5, Zenon
<1>10. Turned(4, u, v, S)
  BY <1>7, <1>9, Zenon DEF Turned
<1>11. S = Swapped(4 * u, v, u)
  <2>1. 4 \in Nat \ {0}
    OBVIOUS
  <2>2. QED
    BY <1>10, <2>1, TurnedIsSwapped, Zenon
<1>12. QED
  BY <1>11, Zenon DEF S, halves, low, high, QuartersExchanged

(* A unit taken from one place and put at another. *)
LEMMA UnitsApart ==
    ASSUME NEW u \in Nat, NEW x \in Nat, NEW y \in Nat
    PROVE  x * u \in Nat /\ y * u \in Nat /\ (x < y => x * u + u <= y * u) /\ (y < x => y * u + u <= x * u)
<1>1. \A k \in Nat, l \in Nat : k <= l => k * u <= l * u
  OBVIOUS
<1>2. ASSUME NEW k \in Nat, NEW l \in Nat, k < l PROVE k * u + u <= l * u
  <2>1. k + 1 \in Nat /\ k + 1 <= l /\ (k + 1) * u = k * u + u
    BY <1>2
  <2>2. (k + 1) * u <= l * u
    BY <1>1, <2>1
  <2>3. QED
    BY <2>1, <2>2, Zenon
<1>3. x * u \in Nat /\ y * u \in Nat
  OBVIOUS
<1>4. QED
  BY <1>2, <1>3

LEMMA MovedUnit ==
    ASSUME NEW w \in Nat, NEW u \in Nat \ {0}, NEW v, v \subseteq Int, NEW a \in Nat, NEW b \in Nat,
           NEW q \in Nat, NEW r \in 0 .. u - 1, q * u + r \in Bits(w)
    PROVE  q * u + r \in Shl(w, Field(v, a * u, u), b * u) <=> (q = b /\ a * u + r \in v)
<1> DEFINE j == q * u + r
           F == Field(v, a * u, u)
<1>1. ASSUME NEW i PROVE i \in F <=> (i \in 0 .. u - 1 /\ i + a * u \in v)
  <2>1. a * u \in Int /\ u \in Nat
    OBVIOUS
  <2>2. QED
    BY <2>1, InField, Zenon
<1> HIDE DEF F
<1>2. F \subseteq Int
  BY <1>1
<1>3. j \in Shl(w, F, b * u) <=> j - b * u \in F
  <2>1. b * u \in Int
    OBVIOUS
  <2>2. j \in Shl(w, F, b * u) <=> (j \in Bits(w) /\ j - b * u \in F)
    BY <1>2, <2>1, InShl, Zenon
  <2>3. QED
    BY <2>2
<1>4. j - b * u \in 0 .. u - 1 <=> q = b
  <2> DEFINE s == q * u
             t == b * u
  <2>1. s \in Int /\ t \in Int /\ (q < b => s + u <= t) /\ (b < q => t + u <= s)
    BY UnitsApart
  <2> HIDE DEF s, t
  <2>2. q # b => ~((s + r) - t \in 0 .. u - 1)
    BY <2>1
  <2>3. ASSUME q = b PROVE j - b * u \in 0 .. u - 1
    <3>1. j - b * u = r
      BY <2>3
    <3>2. QED
      BY <3>1
  <2>4. QED
    BY <2>2, <2>3, Zenon DEF s, t
<1>5. ASSUME q = b PROVE (j - b * u) + a * u = a * u + r
  BY <1>5
<1>6. j - b * u \in F <=> (j - b * u \in 0 .. u - 1 /\ (j - b * u) + a * u \in v)
  BY <1>1, Zenon
<1>7. j \in Shl(w, F, b * u) <=> (q = b /\ a * u + r \in v)
  <2> HIDE DEF j
  <2>1. QED
    BY <1>3, <1>4, <1>5, <1>6, Zenon
<1>8. QED
  BY <1>7, Zenon DEF F

LEMMA NotMoved ==
    ASSUME NEW w \in Nat, NEW v, v \subseteq Bits(w)
    PROVE  Shl(w, v, 0) = v
<1>1. v \subseteq Int /\ 0 \in Int
  BY DEF Bits
<1>2. ASSUME NEW j PROVE j \in Shl(w, v, 0) <=> (j \in Bits(w) /\ j - 0 \in v)
  BY <1>1, InShl, Zenon
<1>3. ASSUME NEW j \in Bits(w) PROVE j - 0 = j
  BY DEF Bits
<1>4. QED
  BY <1>2, <1>3

\* S has the units of v, each in its place.
Kept(m, u, v, S) ==
    S \subseteq Bits(m * u)
    /\ \A q \in 0 .. m - 1, r \in 0 .. u - 1 : q * u + r \in S <=> q * u + r \in v

LEMMA KeptIsSame ==
    ASSUME NEW m \in Nat \ {0}, NEW u \in Nat \ {0}, NEW v, v \subseteq Bits(m * u), NEW S, Kept(m, u, v, S)
    PROVE  S = v
<1>1. ASSUME NEW i \in Bits(m * u) PROVE i \in S <=> i \in v
  <2> DEFINE q == i \div u
             r == i % u
  <2>1. q \in 0 .. m - 1 /\ r \in 0 .. u - 1 /\ i = q * u + r
    BY PlaceOfUnit, Zenon
  <2> HIDE DEF q, r
  <2>2. QED
    BY <2>1, Zenon DEF Kept
<1>2. QED
  BY <1>1, Zenon DEF Kept

LEMMA InsideUnits ==
    ASSUME NEW m \in Nat, NEW u \in Nat \ {0}, NEW q \in 0 .. m - 1, NEW r \in 0 .. u - 1
    PROVE  q * u + r \in Bits(m * u) /\ q \in Nat
<1>1. q \in Nat /\ m \in Nat /\ u \in Nat /\ q < m
  OBVIOUS
<1> DEFINE s == q * u
           t == m * u
<1>2. s \in Nat /\ t \in Nat /\ s + u <= t
  BY <1>1, UnitsApart
<1> HIDE DEF s, t
<1>3. s + r \in 0 .. t - 1
  BY <1>2
<1>4. QED
  BY <1>1, <1>3, Zenon DEF s, t, Bits

\* Four bytes in the other order, and eight.
LEMMA FourTurned ==
    ASSUME NEW w \in Nat, NEW u \in Nat \ {0}, NEW v, v \subseteq Bits(w), w = 4 * u
    PROVE  Shl(w, Field(v, 0 * u, u), 3 * u) \cup Shl(w, Field(v, 1 * u, u), 2 * u) \cup Shl(w, Field(v, 2 * u, u), u)
           \cup Field(v, 3 * u, u) = Swapped(w, v, u)
<1> DEFINE At(a, b) == Shl(w, Field(v, a * u, u), b * u)
           S == At(0, 3) \cup At(1, 2) \cup At(2, 1) \cup At(3, 0)
<1>1. v \subseteq Int
  BY DEF Bits
<1>2. ASSUME NEW a \in Nat, NEW b \in Nat, NEW q \in 0 .. 4 - 1, NEW r \in 0 .. u - 1
      PROVE  q * u + r \in At(a, b) <=> (q = b /\ a * u + r \in v)
  <2>1. q * u + r \in Bits(w) /\ q \in Nat
    <3>1. 4 \in Nat
      OBVIOUS
    <3>2. QED
      BY <3>1, InsideUnits, Zenon
  <2>2. QED
    BY <1>1, <2>1, MovedUnit, Zenon
<1>3. \A a, b : At(a, b) \subseteq Bits(w)
  BY Zenon DEF Shl
<1>4. At(2, 1) = Shl(w, Field(v, 2 * u, u), u) /\ At(3, 0) = Field(v, 3 * u, u)
  <2>1. 1 * u = u /\ 0 * u = 0 /\ 3 * u \in Int /\ u \in Nat
    OBVIOUS
  <2>2. \A j : j \in Field(v, 3 * u, u) => j \in 0 .. u - 1
    BY <1>1, <2>1, InField, Zenon
  <2>3. Field(v, 3 * u, u) \subseteq Bits(w)
    BY <2>2 DEF Bits
  <2>4. Shl(w, Field(v, 3 * u, u), 0) = Field(v, 3 * u, u)
    BY <2>3, NotMoved, Zenon
  <2>5. QED
    BY <2>1, <2>4, Zenon
<1> HIDE DEF At
<1>5. S \subseteq Bits(w)
  BY <1>3
<1>6. ASSUME NEW q \in 0 .. 4 - 1, NEW r \in 0 .. u - 1 PROVE q * u + r \in S <=> ((4 - 1) - q) * u + r \in v
  <2>1. q * u + r \in S <=> \/ q = 3 /\ 0 * u + r \in v
                            \/ q = 2 /\ 1 * u + r \in v
                            \/ q = 1 /\ 2 * u + r \in v
                            \/ q = 0 /\ 3 * u + r \in v
    <3>1. 0 \in Nat /\ 1 \in Nat /\ 2 \in Nat /\ 3 \in Nat
      OBVIOUS
    <3> DEFINE j == q * u + r
    <3>2. /\ j \in At(0, 3) <=> (q = 3 /\ 0 * u + r \in v)
          /\ j \in At(1, 2) <=> (q = 2 /\ 1 * u + r \in v)
          /\ j \in At(2, 1) <=> (q = 1 /\ 2 * u + r \in v)
          /\ j \in At(3, 0) <=> (q = 0 /\ 3 * u + r \in v)
      BY <1>2, <3>1, Zenon
    <3> HIDE DEF j
    <3>3. j \in S <=> j \in At(0, 3) \/ j \in At(1, 2) \/ j \in At(2, 1) \/ j \in At(3, 0)
      BY Zenon
    <3> HIDE DEF S
    <3>4. QED
      BY <3>2, <3>3, Zenon DEF j
  <2> HIDE DEF S
  <2>2. q = 0 \/ q = 1 \/ q = 2 \/ q = 3
    OBVIOUS
  <2>3. /\ q = 0 => ((4 - 1) - q) * u + r = 3 * u + r
        /\ q = 1 => ((4 - 1) - q) * u + r = 2 * u + r
        /\ q = 2 => ((4 - 1) - q) * u + r = 1 * u + r
        /\ q = 3 => ((4 - 1) - q) * u + r = 0 * u + r
    OBVIOUS
  <2>4. 0 # 1 /\ 0 # 2 /\ 0 # 3 /\ 1 # 2 /\ 1 # 3 /\ 2 # 3
    OBVIOUS
  <2> HIDE DEF S
  <2>5. QED
    BY <2>1, <2>2, <2>3, <2>4, Zenon
<1> HIDE DEF S
<1>7. Turned(4, u, v, S)
  BY <1>5, <1>6, Zenon DEF Turned
<1>8. S = Swapped(w, v, u)
  <2>1. 4 \in Nat \ {0} /\ v \subseteq Bits(4 * u)
    OBVIOUS
  <2>2. S = Swapped(4 * u, v, u)
    BY <1>7, <2>1, TurnedIsSwapped, Zenon
  <2>3. QED
    BY <2>2, Zenon
<1>9. S = At(0, 3) \cup At(1, 2) \cup Shl(w, Field(v, 2 * u, u), u) \cup Field(v, 3 * u, u)
  BY <1>4, Zenon DEF S
<1>10. QED
  BY <1>8, <1>9, Zenon DEF At

\* Eight units, each taken from one place and put at another.
Scattered(w, u, v, from) == UNION {Shl(w, Field(v, from[n] * u, u), n * u) : n \in 0 .. 7}

LEMMA InScattered ==
    ASSUME NEW w \in Nat, NEW u \in Nat \ {0}, NEW v, v \subseteq Bits(w), w = 8 * u, NEW from \in [0 .. 7 -> Nat],
           NEW q \in 0 .. 8 - 1, NEW r \in 0 .. u - 1
    PROVE  q * u + r \in Scattered(w, u, v, from) <=> from[q] * u + r \in v
<1> DEFINE j == q * u + r
<1>1. v \subseteq Int
  BY DEF Bits
<1>2. j \in Bits(w) /\ q \in Nat /\ q \in 0 .. 7
  <2>1. 8 \in Nat
    OBVIOUS
  <2>2. q * u + r \in Bits(8 * u) /\ q \in Nat
    BY <2>1, InsideUnits, Zenon
  <2>3. QED
    BY <2>2
<1>3. ASSUME NEW n \in 0 .. 7
      PROVE  j \in Shl(w, Field(v, from[n] * u, u), n * u) <=> (q = n /\ from[n] * u + r \in v)
  <2>1. from[n] \in Nat /\ n \in Nat
    OBVIOUS
  <2>2. QED
    BY <1>1, <1>2, <2>1, MovedUnit, Zenon
<1> HIDE DEF j
<1>4. j \in Scattered(w, u, v, from) <=> \E n \in 0 .. 7 : j \in Shl(w, Field(v, from[n] * u, u), n * u)
  BY Zenon DEF Scattered
<1>5. QED
  BY <1>2, <1>3, <1>4, Zenon DEF j

TakenAndPut(w, u, v) == Scattered(w, u, v, [n \in 0 .. 7 |-> n]) = v

LEMMA EightTurned ==
    ASSUME NEW w \in Nat, NEW u \in Nat \ {0}, NEW v, v \subseteq Bits(w), w = 8 * u
    PROVE  /\ Scattered(w, u, v, [n \in 0 .. 7 |-> 7 - n]) = Swapped(w, v, u)
           /\ TakenAndPut(w, u, v)
<1> DEFINE turn == [n \in 0 .. 7 |-> 7 - n]
           stay == [n \in 0 .. 7 |-> n]
<1>1. turn \in [0 .. 7 -> Nat] /\ stay \in [0 .. 7 -> Nat]
  OBVIOUS
<1>2. \A q \in 0 .. 8 - 1 : turn[q] = (8 - 1) - q /\ stay[q] = q
  OBVIOUS
<1> HIDE DEF turn, stay
<1>3. \A from : Scattered(w, u, v, from) \subseteq Bits(w)
  BY Zenon DEF Scattered, Shl
<1>4. 8 \in Nat \ {0} /\ v \subseteq Bits(8 * u)
  OBVIOUS
<1>5. ASSUME NEW q \in 0 .. 8 - 1, NEW r \in 0 .. u - 1
      PROVE  /\ q * u + r \in Scattered(w, u, v, turn) <=> ((8 - 1) - q) * u + r \in v
             /\ q * u + r \in Scattered(w, u, v, stay) <=> q * u + r \in v
  <2>1. q * u + r \in Scattered(w, u, v, turn) <=> turn[q] * u + r \in v
    BY <1>1, InScattered, Zenon
  <2>2. q * u + r \in Scattered(w, u, v, stay) <=> stay[q] * u + r \in v
    BY <1>1, InScattered, Zenon
  <2>3. turn[q] = (8 - 1) - q /\ stay[q] = q
    BY <1>2, Zenon
  <2>4. QED
    BY <2>1, <2>2, <2>3, Zenon
<1>6. Turned(8, u, v, Scattered(w, u, v, turn))
  <2>1. Scattered(w, u, v, turn) \subseteq Bits(8 * u)
    BY <1>3, Zenon
  <2>2. QED
    BY <1>5, <2>1, Zenon DEF Turned
<1>7. Scattered(w, u, v, turn) = Swapped(8 * u, v, u)
  BY <1>4, <1>6, TurnedIsSwapped, Zenon
<1>8. Scattered(w, u, v, stay) = v
  <2>1. Scattered(w, u, v, stay) \subseteq Bits(8 * u)
    BY <1>3, Zenon
  <2>2. Kept(8, u, v, Scattered(w, u, v, stay))
    BY <1>5, <2>1, Zenon DEF Kept
  <2>3. QED
    BY <1>4, <2>2, KeptIsSame, Zenon
<1>9. QED
  BY <1>7, <1>8, Zenon DEF turn, stay, TakenAndPut

\* What is exchanged within the width of one type.
LEMMA Exchanged ==
    ASSUME NEW w, NEW u, NEW h, NEW v
    PROVE  /\ u \in Nat \ {0} /\ w = 2 * u /\ v \subseteq Bits(w) => HalvesExchanged(w, u, v) = Swapped(w, v, u)
           /\ u \in Nat \ {0} /\ w = 4 * u /\ h = 2 * u /\ v \subseteq Bits(w) => QuartersExchanged(w, h, u, v) = Swapped(w, v, u)
<1>1. ASSUME u \in Nat \ {0}, w = 2 * u, v \subseteq Bits(w) PROVE HalvesExchanged(w, u, v) = Swapped(w, v, u)
  BY <1>1, HalvesTurned
<1>2. ASSUME u \in Nat \ {0}, w = 4 * u, h = 2 * u, v \subseteq Bits(w) PROVE QuartersExchanged(w, h, u, v) = Swapped(w, v, u)
  <2>1. QuartersExchanged(4 * u, 2 * u, u, v) = Swapped(4 * u, v, u)
    BY <1>2, QuartersTurned
  <2>2. QED
    BY <1>2, <2>1, Zenon
<1>3. QED
  BY <1>1, <1>2, Zenon

LEMMA SwapsTurn ==
    ASSUME NEW v
    PROVE  /\ v \subseteq Bits(U8) => nibble_Swap(FALSE, v) = Swapped(U8, v, NIBBLE)
           /\ v \subseteq Bits(U16) => b_swap_16(v) = Swapped(U16, v, U8)
           /\ v \subseteq Bits(U32) => /\ b_swap_32("builtin", v) = Swapped(U32, v, U8)
                                       /\ byte_Swap_Int32(v) = Swapped(U32, v, U8)
                                       /\ w_swap_32(v) = Swapped(U32, v, U16)
           /\ v \subseteq Bits(U64) => /\ b_swap_64("builtin", v) = Swapped(U64, v, U8)
                                       /\ word_Swap_64(v) = Swapped(U64, v, U16)
                                       /\ double_Word_Swap_64(v) = Swapped(U64, v, U32)
<1>1. ASSUME v \subseteq Bits(U8) PROVE nibble_Swap(FALSE, v) = Swapped(U8, v, NIBBLE)
  <2>1. Bits(NIBBLE) = Mask(0, NIBBLE)
    BY SizesOfUnits DEF Bits, Mask
  <2>2. nibble_Swap(FALSE, v) = HalvesExchanged(U8, NIBBLE, v)
    BY <2>1, Zenon DEF nibble_Swap, n_swap_8, Field, HalvesExchanged
  <2>3. QED
    BY <1>1, <2>2, SizesOfUnits, Exchanged, Zenon
<1>2. ASSUME v \subseteq Bits(U16) PROVE b_swap_16(v) = Swapped(U16, v, U8)
  <2>1. b_swap_16(v) = HalvesExchanged(U16, U8, v)
    BY Zenon DEF b_swap_16, HalvesExchanged
  <2>2. QED
    BY <1>2, <2>1, SizesOfUnits, Exchanged, Zenon
<1>3. ASSUME v \subseteq Bits(U32) PROVE w_swap_32(v) = Swapped(U32, v, U16)
  <2>1. w_swap_32(v) = HalvesExchanged(U32, U16, v)
    BY Zenon DEF w_swap_32, HalvesExchanged
  <2>2. QED
    BY <1>3, <2>1, SizesOfUnits, Exchanged, Zenon
<1>4. ASSUME v \subseteq Bits(U64) PROVE double_Word_Swap_64(v) = Swapped(U64, v, U32)
  <2>1. double_Word_Swap_64(v) = HalvesExchanged(U64, U32, v)
    BY Zenon DEF double_Word_Swap_64, HalvesExchanged
  <2>2. QED
    BY <1>4, <2>1, SizesOfUnits, Exchanged, Zenon
<1>5. ASSUME v \subseteq Bits(U32) PROVE byte_Swap_Int32(v) = Swapped(U32, v, U8)
  <2>1. byte_Swap_Int32(v) = QuartersExchanged(U32, U16, U8, v)
    BY Zenon DEF byte_Swap_Int32, QuartersExchanged, HalvesExchanged
  <2>2. U8 \in Nat \ {0} /\ U32 = 4 * U8 /\ U16 = 2 * U8
    BY SizesOfUnits
  <2>3. QuartersExchanged(U32, U16, U8, v) = Swapped(U32, v, U8)
    BY <1>5, <2>2, Exchanged
  <2>4. QED
    BY <2>1, <2>3, Zenon
<1>6. ASSUME v \subseteq Bits(U64) PROVE word_Swap_64(v) = Swapped(U64, v, U16)
  <2>1. word_Swap_64(v) = QuartersExchanged(U64, U32, U16, v)
    BY Zenon DEF word_Swap_64, double_Word_Swap_64, QuartersExchanged, HalvesExchanged
  <2>2. U16 \in Nat \ {0} /\ U64 = 4 * U16 /\ U32 = 2 * U16
    BY SizesOfUnits
  <2>3. QuartersExchanged(U64, U32, U16, v) = Swapped(U64, v, U16)
    BY <1>6, <2>2, Exchanged
  <2>4. QED
    BY <2>1, <2>3, Zenon
<1>7. ASSUME v \subseteq Bits(U32) PROVE b_swap_32("builtin", v) = Swapped(U32, v, U8)
  <2>1. b_swap_32("builtin", v)
        = Shl(U32, Field(v, 0 * U8, U8), 3 * U8) \cup Shl(U32, Field(v, 1 * U8, U8), 2 * U8)
          \cup Shl(U32, Field(v, 2 * U8, U8), U8) \cup Field(v, 3 * U8, U8)
    BY Zenon DEF b_swap_32, bytes_To_Uint32, M_Byte
  <2>2. U32 \in Nat
    BY SizesOfUnits
  <2>3. QED
    BY <1>7, <2>1, <2>2, SizesOfUnits, FourTurned, Zenon
<1>8. ASSUME v \subseteq Bits(U64) PROVE b_swap_64("builtin", v) = Swapped(U64, v, U8)
  <2>1. b_swap_64("builtin", v) = Scattered(U64, U8, v, [n \in 0 .. 7 |-> 7 - n])
    BY DEF b_swap_64, bytes_To_Uint64, M_Byte, Scattered
  <2>2. U64 \in Nat
    BY SizesOfUnits
  <2>3. QED
    BY <1>8, <2>1, <2>2, SizesOfUnits, EightTurned, Zenon
<1>9. QED
  BY <1>1, <1>2, <1>3, <1>4, <1>5, <1>6, <1>7, <1>8, Zenon

Ordered(w, big, v) ==
    LET other == Swapped(w, v, U8)
        be == IF big THEN v ELSE other
        le == IF big THEN other ELSE v
    IN [fromBe |-> be, toBe |-> be, fromLe |-> le, toLe |-> le, inPlace |-> be]

LEMMA OrdersTurn ==
    ASSUME NEW w \in {U16, U32, U64}, NEW v, v \subseteq Bits(w), NEW big \in BOOLEAN
    PROVE  Order("builtin", big, w, v) = Ordered(w, big, v)
<1>1. b_swap("builtin", w, v) = Swapped(w, v, U8)
  <2>1. U16 # U32 /\ U16 # U64 /\ U32 # U64
    BY WidthsOfTypes
  <2>2. CASE w = U16
    BY <2>1, <2>2, SwapsTurn, Zenon DEF b_swap
  <2>3. CASE w = U32
    BY <2>1, <2>3, SwapsTurn, Zenon DEF b_swap
  <2>4. CASE w = U64
    BY <2>1, <2>4, SwapsTurn, Zenon DEF b_swap
  <2>5. QED
    BY <2>2, <2>3, <2>4
<1>2. QED
  BY <1>1, Zenon DEF Order, Ordered, be_to_host, host_to_be, le_to_host, host_to_le, big_To_Little_Endian

(* ----------------------------- a value taken apart and put together again *)

\* A field of the next bits put in front of a field is the field of both.
Joined(w, v, at, a, u) == Shl(w, Field(v, at + a, u), a) \cup Field(v, at, a) = Field(v, at, a + u)

LEMMA Appended ==
    ASSUME NEW w \in Nat, NEW v, v \subseteq Int, NEW at \in Nat, NEW a \in Nat, NEW u \in Nat, a + u <= w
    PROVE  Joined(w, v, at, a, u)
<1> DEFINE F == Field(v, at + a, u)
           L == Field(v, at, a)
           B == Field(v, at, a + u)
<1>1. ASSUME NEW j PROVE j \in F <=> (j \in 0 .. u - 1 /\ j + (at + a) \in v)
  <2>1. at + a \in Int
    OBVIOUS
  <2>2. QED
    BY <2>1, InField, Zenon
<1>2. ASSUME NEW j PROVE j \in L <=> (j \in 0 .. a - 1 /\ j + at \in v)
  <2>1. at \in Int
    OBVIOUS
  <2>2. QED
    BY <2>1, InField, Zenon
<1>3. ASSUME NEW j PROVE j \in B <=> (j \in 0 .. a + u - 1 /\ j + at \in v)
  <2>1. at \in Int /\ a + u \in Nat
    OBVIOUS
  <2>2. j \in B <=> (j \in 0 .. (a + u) - 1 /\ j + at \in v)
    BY <2>1, InField, Zenon
  <2>3. 0 .. (a + u) - 1 = 0 .. a + u - 1
    OBVIOUS
  <2>4. QED
    BY <2>2, <2>3, Zenon
<1> HIDE DEF F, L, B
<1>4. F \subseteq Int
  BY <1>1
<1>5. ASSUME NEW j PROVE j \in Shl(w, F, a) <=> (j \in Bits(w) /\ j - a \in F)
  <2>1. a \in Int
    OBVIOUS
  <2>2. QED
    BY <1>4, <2>1, InShl, Zenon
<1>6. ASSUME NEW j \in Nat PROVE j \in Shl(w, F, a) \cup L <=> j \in B
  <2>1. j - a \in F <=> (j - a \in 0 .. u - 1 /\ (j - a) + (at + a) \in v)
    BY <1>1, Zenon
  <2>2. (j - a) + (at + a) = j + at
    OBVIOUS
  <2>3. (j \in Bits(w) /\ j - a \in 0 .. u - 1) \/ j \in 0 .. a - 1 <=> j \in 0 .. a + u - 1
    BY DEF Bits
  <2>4. QED
    BY <1>2, <1>3, <1>5, <2>1, <2>2, <2>3, Zenon
<1>7. \A j : j \in Shl(w, F, a) \cup L \/ j \in B => j \in Nat
  <2>1. \A j : j \in Bits(w) \/ j \in 0 .. a - 1 \/ j \in 0 .. a + u - 1 => j \in Nat
    BY DEF Bits
  <2>2. QED
    BY <1>2, <1>3, <1>5, <2>1, Zenon
<1>8. Shl(w, F, a) \cup L = B
  BY <1>6, <1>7, Zenon
<1>9. QED
  BY <1>8, Zenon DEF F, L, B, Joined

LEMMA WholeField ==
    ASSUME NEW w \in Nat, NEW v, v \subseteq Bits(w)
    PROVE  Field(v, 0, w) = v
<1>1. v \subseteq Int /\ 0 \in Int
  BY DEF Bits
<1>2. ASSUME NEW j PROVE j \in Field(v, 0, w) <=> (j \in 0 .. w - 1 /\ j + 0 \in v)
  BY <1>1, InField, Zenon
<1>3. \A j \in 0 .. w - 1 : j + 0 = j
  OBVIOUS
<1>4. QED
  BY <1>2, <1>3 DEF Bits

\* Two neighbouring fields of u bits, and the lowest four, put together.
PairJoined(w, v, at, next, u, both) == Shl(w, Field(v, next, u), u) \cup Field(v, at, u) = Field(v, at, both)
FourJoined(w, v, u, all) ==
    Shl(w, Field(v, 3 * u, u), 3 * u) \cup Shl(w, Field(v, 2 * u, u), 2 * u)
    \cup Shl(w, Field(v, 1 * u, u), u) \cup Field(v, 0 * u, u) = Field(v, 0, all)

LEMMA FieldsJoined ==
    ASSUME NEW w \in Nat, NEW v, v \subseteq Int, NEW at \in Nat, NEW next \in Nat, NEW u \in Nat, NEW both \in Nat,
           next = at + u, both = 2 * u, both <= w
    PROVE  PairJoined(w, v, at, next, u, both)
<1>1. u + u = both /\ u + u <= w
  OBVIOUS
<1>2. Joined(w, v, at, u, u)
  BY <1>1, Appended, Zenon
<1>3. QED
  BY <1>1, <1>2, Zenon DEF Joined, PairJoined

LEMMA LowFieldsJoined ==
    ASSUME NEW w \in Nat, NEW v, v \subseteq Int, NEW u \in Nat, NEW all \in Nat, all = 4 * u, all <= w
    PROVE  FourJoined(w, v, u, all)
<1> DEFINE u2 == 2 * u
           u3 == 3 * u
<1>1. /\ u2 \in Nat /\ u3 \in Nat /\ 0 \in Nat /\ u + u = u2 /\ u2 + u = u3 /\ u3 + u = all
      /\ u + u <= w /\ u2 + u <= w /\ u3 + u <= w /\ 0 + u = u /\ 0 + u2 = u2 /\ 0 + u3 = u3 /\ 1 * u = u /\ 0 * u = 0
  OBVIOUS
<1> HIDE DEF u2, u3
<1>2. Joined(w, v, 0, u, u) /\ Joined(w, v, 0, u2, u) /\ Joined(w, v, 0, u3, u)
  BY <1>1, Appended, Zenon
<1> DEFINE A == Shl(w, Field(v, u3, u), u3)
           B == Shl(w, Field(v, u2, u), u2)
           C == Shl(w, Field(v, u, u), u)
           D == Field(v, 0, u)
<1>3. C \cup D = Field(v, 0, u2) /\ B \cup Field(v, 0, u2) = Field(v, 0, u3) /\ A \cup Field(v, 0, u3) = Field(v, 0, all)
  BY <1>1, <1>2, Zenon DEF Joined
<1>4. FourJoined(w, v, u, all) <=> A \cup B \cup C \cup D = Field(v, 0, all)
  BY <1>1, Zenon DEF FourJoined, u2, u3
<1> HIDE DEF A, B, C, D
<1>5. A \cup B \cup C \cup D = A \cup (B \cup (C \cup D))
  BY Zenon
<1>6. QED
  BY <1>3, <1>4, <1>5, Zenon

\* A byte from its nibbles.
LEMMA NibblesJoined ==
    ASSUME NEW v, v \subseteq Int, NEW n \in Nat
    PROVE  nibbles_To_Byte(M_Nibble(v, 2 * n + 1), M_Nibble(v, 2 * n)) = M_Byte(v, n)
<1> DEFINE at == n * U8
           next == (2 * n + 1) * NIBBLE
<1>1. U8 \in Nat /\ NIBBLE \in Nat /\ U8 = 2 * NIBBLE /\ U8 <= U8
  BY SizesOfUnits
<1>2. (2 * n) * NIBBLE = at /\ at \in Nat /\ next \in Nat /\ next = at + NIBBLE
  BY <1>1
<1> HIDE DEF at, next
<1>3. Shl(U8, Field(v, next, NIBBLE), NIBBLE) \cup Field(v, at, NIBBLE) = Field(v, at, U8)
  <2>1. PairJoined(U8, v, at, next, NIBBLE, U8)
    BY <1>1, <1>2, FieldsJoined, Zenon
  <2>2. QED
    BY <2>1, Zenon DEF PairJoined
<1>4. ASSUME NEW k \in Nat PROVE Field(v, k, NIBBLE) \cap Bits(NIBBLE) = Field(v, k, NIBBLE)
  <2>1. k \in Int
    OBVIOUS
  <2>2. \A j : j \in Field(v, k, NIBBLE) => j \in 0 .. NIBBLE - 1
    BY <1>1, <2>1, InField, Zenon
  <2>3. QED
    BY <2>2 DEF Bits
<1>5. M_Nibble(v, 2 * n + 1) \cap Bits(NIBBLE) = Field(v, next, NIBBLE)
  BY <1>2, <1>4, Zenon DEF M_Nibble, next
<1>6. M_Nibble(v, 2 * n) \cap Bits(NIBBLE) = Field(v, at, NIBBLE)
  BY <1>2, <1>4, Zenon DEF M_Nibble
<1>7. QED
  BY <1>3, <1>5, <1>6, Zenon DEF nibbles_To_Byte, M_Byte, at

LEMMA PartsAreTheValue ==
    ASSUME NEW v, v \subseteq Bits(U64)
    PROVE  Parts(v) = {v}
<1>1. /\ U8 \in Nat \ {0} /\ U8 \in Nat /\ U16 \in Nat /\ U32 \in Nat /\ U64 \in Nat /\ v \subseteq Int
      /\ U16 = 2 * U8 /\ U32 = 2 * U16 /\ U64 = 2 * U32 /\ U32 = 4 * U8 /\ U64 = 4 * U16 /\ U64 = 8 * U8
  BY SizesOfUnits DEF Bits
<1>2. Field(v, 0, U64) = v
  BY <1>1, WholeField
<1>3. bytes_To_Uint64([n \in 0 .. 7 |-> M_Byte(v, n)]) = v
  <2>1. bytes_To_Uint64([n \in 0 .. 7 |-> M_Byte(v, n)]) = Scattered(U64, U8, v, [n \in 0 .. 7 |-> n])
    BY DEF bytes_To_Uint64, M_Byte, Scattered
  <2>2. TakenAndPut(U64, U8, v)
    BY <1>1, EightTurned, Zenon
  <2>3. QED
    BY <2>1, <2>2, Zenon DEF TakenAndPut
<1>4. words_To_Uint64(M_Word(v, 3), M_Word(v, 2), M_Word(v, 1), M_Word(v, 0)) = v
  <2>1. U64 <= U64
    BY <1>1
  <2>2. FourJoined(U64, v, U16, U64)
    BY <1>1, <2>1, LowFieldsJoined, Zenon
  <2>3. QED
    BY <1>2, <2>2, Zenon DEF FourJoined, words_To_Uint64, M_Word
<1>5. dwords_To_Uint64(get_DWord1(v), get_DWord0(v)) = v
  <2>1. U64 <= U64 /\ U32 = 0 + U32 /\ 0 \in Nat
    BY <1>1
  <2>2. Shl(U64, Field(v, U32, U32), U32) \cup Field(v, 0, U32) = Field(v, 0, U64)
    <3>1. PairJoined(U64, v, 0, U32, U32, U64)
      BY <1>1, <2>1, FieldsJoined, Zenon
    <3>2. QED
      BY <3>1, Zenon DEF PairJoined
  <2>3. QED
    BY <1>2, <2>2, Zenon DEF dwords_To_Uint64, get_DWord1, get_DWord0
<1>6. words_To_Uint32(M_Word(v, 3), M_Word(v, 2)) = get_DWord1(v)
  <2> DEFINE at == 2 * U16
             next == 3 * U16
  <2>1. at \in Nat /\ next \in Nat /\ next = at + U16 /\ U32 <= U32 /\ at = U32
    BY <1>1
  <2> HIDE DEF at, next
  <2>2. Shl(U32, Field(v, next, U16), U16) \cup Field(v, at, U16) = Field(v, at, U32)
    <3>1. PairJoined(U32, v, at, next, U16, U32)
      BY <1>1, <2>1, FieldsJoined, Zenon
    <3>2. QED
      BY <3>1, Zenon DEF PairJoined
  <2>3. words_To_Uint32(M_Word(v, 3), M_Word(v, 2)) = Field(v, at, U32)
    BY <2>2, Zenon DEF words_To_Uint32, M_Word, at, next
  <2>4. QED
    BY <2>1, <2>3, Zenon DEF get_DWord1
<1>7. bytes_To_Uint32(M_Byte(v, 3), M_Byte(v, 2), M_Byte(v, 1), M_Byte(v, 0)) = get_DWord0(v)
  <2>1. U32 <= U32
    BY <1>1
  <2>2. FourJoined(U32, v, U8, U32)
    BY <1>1, <2>1, LowFieldsJoined, Zenon
  <2>3. QED
    BY <2>2, Zenon DEF FourJoined, bytes_To_Uint32, M_Byte, get_DWord0
<1>8. [n \in 0 .. 7 |-> nibbles_To_Byte(M_Nibble(v, 2 * n + 1), M_Nibble(v, 2 * n))] = [n \in 0 .. 7 |-> M_Byte(v, n)]
  <2>1. ASSUME NEW n \in 0 .. 7 PROVE nibbles_To_Byte(M_Nibble(v, 2 * n + 1), M_Nibble(v, 2 * n)) = M_Byte(v, n)
    <3>1. n \in Nat
      OBVIOUS
    <3>2. QED
      BY <1>1, <3>1, NibblesJoined, Zenon
  <2>2. QED
    BY <2>1, Zenon
<1>9. UNION {v \cap M_ByteN(n) : n \in 0 .. 7} = v
  <2>1. ASSUME NEW j \in v PROVE \E n \in 0 .. 7 : j \in M_ByteN(n)
    <3> DEFINE q == j \div U8
               r == j % U8
    <3>1. j \in Bits(8 * U8) /\ 8 \in Nat \ {0}
      BY <1>1
    <3>2. q \in 0 .. 8 - 1 /\ r \in 0 .. U8 - 1 /\ j = q * U8 + r
      BY <1>1, <3>1, PlaceOfUnit, Zenon
    <3> HIDE DEF q, r
    <3>3. q \in 0 .. 7 /\ q * U8 \in Int /\ j - q * U8 = r /\ Bits(U8) \subseteq Int /\ j \in Bits(U64) /\ r \in Bits(U8)
      BY <1>1, <3>2 DEF Bits
    <3>4. j \in Shl(U64, Bits(U8), q * U8) <=> (j \in Bits(U64) /\ j - q * U8 \in Bits(U8))
      BY <1>1, <3>3, InShl, Zenon
    <3>5. QED
      BY <3>3, <3>4, Zenon DEF M_ByteN
  <2>2. ASSUME NEW j \in v PROVE j \in UNION {v \cap M_ByteN(n) : n \in 0 .. 7}
    <3>1. PICK n \in 0 .. 7 : j \in M_ByteN(n)
      BY <2>1
    <3>2. j \in v \cap M_ByteN(n)
      BY <3>1
    <3>3. QED
      BY <3>2
  <2>3. QED
    BY <2>2
<1>10. bytes_To_Uint16(M_Byte(v, 7), M_Byte(v, 6)) = M_Word(v, 3)
  <2> DEFINE at == 6 * U8
             next == 7 * U8
  <2>1. at \in Nat /\ next \in Nat /\ next = at + U8 /\ U16 <= U16 /\ at = 3 * U16 /\ U8 \in Nat
    BY <1>1
  <2> HIDE DEF at, next
  <2>2. Shl(U16, Field(v, next, U8), U8) \cup Field(v, at, U8) = Field(v, at, U16)
    <3>1. PairJoined(U16, v, at, next, U8, U16)
      BY <1>1, <2>1, FieldsJoined, Zenon
    <3>2. QED
      BY <3>1, Zenon DEF PairJoined
  <2>3. bytes_To_Uint16(M_Byte(v, 7), M_Byte(v, 6)) = Field(v, at, U16)
    BY <2>2, Zenon DEF bytes_To_Uint16, M_Byte, at, next
  <2>4. QED
    BY <2>1, <2>3, Zenon DEF M_Word
<1>11. M_WordsTo4ByteValue(M_Word(v, 2), M_Word(v, 3)) = get_DWord1(v)
  BY <1>6, Zenon DEF M_WordsTo4ByteValue
<1>12. Parts(v) = {v, v, v, v, v, v, v, v}
  BY <1>3, <1>4, <1>5, <1>6, <1>7, <1>8, <1>9, <1>10, <1>11, Zenon DEF Parts
<1>13. QED
  BY <1>12

\* A range of bits, by any of the functions.
RangeOf(w, out, v, msb, lsb) ==
    IF lsb <= msb /\ msb < w /\ (msb - lsb) + 1 <= M_Min(out, w)
    THEN Ranged(0, {i - lsb : i \in v \cap (lsb .. msb)}) ELSE Ranged(ERANGE, {})

LEMMA RangeExtracted ==
    ASSUME NEW w \in Nat, NEW v, v \subseteq Bits(w), NEW msb \in Nat, NEW lsb \in Nat, lsb <= msb, msb < w
    PROVE  gen_extract(w, v, msb, lsb) = {i - lsb : i \in v \cap (lsb .. msb)}
<1> DEFINE width == gen_bit_width(msb, lsb)
           R == {i - lsb : i \in v \cap (lsb .. msb)}
<1>1. width = (msb - lsb) + 1 /\ width \in Nat /\ (width >= w => lsb = 0 /\ msb = w - 1) /\ lsb < w /\ v \subseteq Int
  BY DEF gen_bit_width, Bits
<1>2. CASE width >= w /\ lsb = 0
  <2>1. lsb = 0 /\ msb = w - 1
    BY <1>1, <1>2
  <2>2. R = v
    <3>1. \A i \in v : i \in lsb .. msb /\ i - lsb = i
      BY <2>1 DEF Bits
    <3>2. \A j \in v : j \in R
      BY <3>1
    <3>3. \A j \in R : j \in v
      BY <3>1
    <3> HIDE DEF R
    <3>4. QED
      BY <3>2, <3>3
  <2> HIDE DEF R
  <2>3. gen_extract(w, v, msb, lsb) = v
    <3> HIDE DEF width
    <3>1. QED
      BY <1>2 DEF gen_extract, width
  <2>4. QED
    BY <2>2, <2>3, Zenon DEF R
<1>3. CASE ~(width >= w /\ lsb = 0)
  <2>1. ~(width >= w)
    BY <1>1, <1>3
  <2>2. gen_extract(w, v, msb, lsb) = Shr(v, lsb) \cap gen_safe_mask(w, width)
    <3>1. ~(lsb >= w)
      BY <1>1
    <3> HIDE DEF width
    <3>2. QED
      BY <1>1, <1>3, <3>1 DEF gen_extract, width
  <2>3. gen_safe_mask(w, width) = Bits(width)
    BY <2>1, Zenon DEF gen_safe_mask
  <2>4. ASSUME NEW j PROVE j \in Shr(v, lsb) <=> (j \in Nat /\ j + lsb \in v)
    <3>1. lsb \in Int
      OBVIOUS
    <3>2. QED
      BY <1>1, <3>1, InShr, Zenon
  <2>5. ASSUME NEW j \in Nat PROVE j \in Bits(width) <=> j + lsb \in lsb .. msb
    BY <1>1 DEF Bits
  <2>6. ASSUME NEW j PROVE j \in R <=> (j \in Nat /\ j + lsb \in v /\ j + lsb \in lsb .. msb)
    <3>1. ASSUME j \in R PROVE j \in Nat /\ j + lsb \in v /\ j + lsb \in lsb .. msb
      <4>1. PICK i \in v \cap (lsb .. msb) : j = i - lsb
        BY <3>1
      <4>2. j + lsb = i /\ j \in Nat
        BY <4>1
      <4>3. QED
        BY <4>1, <4>2
    <3>2. ASSUME j \in Nat, j + lsb \in v, j + lsb \in lsb .. msb PROVE j \in R
      <4>1. j = (j + lsb) - lsb
        BY <3>2
      <4>2. QED
        BY <3>2, <4>1
    <3>3. QED
      BY <3>1, <3>2
  <2> HIDE DEF R, width
  <2>7. Shr(v, lsb) \cap Bits(width) = R
    <3>1. \A j : j \in Bits(width) => j \in Nat
      BY DEF Bits
    <3>2. QED
      BY <2>4, <2>5, <2>6, <3>1, Zenon
  <2>8. QED
    BY <2>2, <2>3, <2>7, Zenon DEF R
<1>4. QED
  BY <1>2, <1>3, Zenon

RangeGiven(w, v, outputsize, o, msb, lsb) ==
    gen_range(w, v, outputsize, msb, lsb) = RangeOf(w, o, v, msb, lsb)

LEMMA RangeTaken ==
    ASSUME NEW w \in Nat, NEW v, v \subseteq Bits(w), NEW msb \in Nat, NEW lsb \in Nat, NEW outputsize,
           NEW o \in Nat, o = outputsize * U8
    PROVE  RangeGiven(w, v, outputsize, o, msb, lsb)
<1> DEFINE good == lsb <= msb /\ msb < w /\ (msb - lsb) + 1 <= M_Min(o, w)
           out == IF o < w THEN o ELSE w
           bad == msb >= w \/ lsb >= w \/ gen_bit_width(msb, lsb) <= 0 \/ gen_bit_width(msb, lsb) > out
<1>1. bad <=> ~good
  BY DEF gen_bit_width, M_Min
<1>2. gen_range(w, v, outputsize, msb, lsb) = IF bad THEN Ranged(ERANGE, {}) ELSE Ranged(0, gen_extract(w, v, msb, lsb))
  BY Zenon DEF gen_range
<1>3. RangeOf(w, o, v, msb, lsb) = IF good THEN Ranged(0, {i - lsb : i \in v \cap (lsb .. msb)}) ELSE Ranged(ERANGE, {})
  BY Zenon DEF RangeOf
<1>4. good => gen_extract(w, v, msb, lsb) = {i - lsb : i \in v \cap (lsb .. msb)}
  BY RangeExtracted
<1> HIDE DEF good, bad
<1>5. QED
  BY <1>1, <1>2, <1>3, <1>4, Zenon DEF RangeGiven

IntegerGiven(size, v, outputsize, msb, lsb) ==
    generic_Get_Bit_Range(size, v, outputsize, msb, lsb) = RangeOf(size * U8, outputsize * U8, v, msb, lsb)

LEMMA RangeOfInteger ==
    ASSUME NEW size \in {1, 2, 4, 8}, NEW v, v \subseteq Bits(size * U8), NEW msb \in Nat, NEW lsb \in Nat,
           NEW outputsize \in Nat \ {0}
    PROVE  IntegerGiven(size, v, outputsize, msb, lsb)
<1> DEFINE w == size * U8
           o == outputsize * U8
<1>1. w \in Nat /\ U8 \in Nat \ {0} /\ w <= U64 /\ U64 \in Nat /\ o \in Nat /\ U8 <= o /\ 1 * U8 = U8
  <2>1. U8 \in Nat \ {0} /\ U64 = 8 * U8
    BY SizesOfUnits
  <2>2. U8 <= o
    <3>1. U8 <= outputsize * U8
      <4>1. \A a \in Nat \ {0}, b \in Nat : b <= a * b
        OBVIOUS
      <4>2. QED
        BY <2>1, <4>1
    <3>2. QED
      BY <3>1
  <2>3. QED
    BY <2>1, <2>2
<1>2. ASSUME msb >= U64 \/ lsb >= U64
      PROVE  generic_Get_Bit_Range(size, v, outputsize, msb, lsb) = RangeOf(w, o, v, msb, lsb)
  <2>1. generic_Get_Bit_Range(size, v, outputsize, msb, lsb) = Ranged(ERANGE, {})
    BY <1>2, Zenon DEF generic_Get_Bit_Range, is_generic_int_valid
  <2>2. ~(lsb <= msb /\ msb < w /\ (msb - lsb) + 1 <= M_Min(o, w))
    BY <1>1, <1>2
  <2> HIDE DEF w, o
  <2>3. RangeOf(w, o, v, msb, lsb) = Ranged(ERANGE, {})
    BY <2>2, Zenon DEF RangeOf
  <2>4. QED
    BY <2>1, <2>3, Zenon DEF w, o
<1>3. ASSUME ~(msb >= U64 \/ lsb >= U64)
      PROVE  generic_Get_Bit_Range(size, v, outputsize, msb, lsb) = RangeOf(w, o, v, msb, lsb)
  <2>1. generic_Get_Bit_Range(size, v, outputsize, msb, lsb)
        = CASE size = 1 -> gen_8bit_range(v, msb, lsb)
            [] size = 2 -> gen_16bit_range(v, outputsize, msb, lsb)
            [] size = 4 -> gen_32bit_range(v, outputsize, msb, lsb)
            [] size = 8 -> gen_64bit_range(v, outputsize, msb, lsb)
    BY <1>3, Zenon DEF generic_Get_Bit_Range, is_generic_int_valid
  <2>2. gen_range(w, v, outputsize, msb, lsb) = RangeOf(w, o, v, msb, lsb)
    <3>1. o = outputsize * U8
      OBVIOUS
    <3> HIDE DEF w, o
    <3>2. v \subseteq Bits(w)
      BY DEF w
    <3>3. RangeGiven(w, v, outputsize, o, msb, lsb)
      BY <1>1, <3>1, <3>2, RangeTaken, Zenon
    <3>4. QED
      BY <3>3, Zenon DEF RangeGiven
  <2>3. CASE size = 1
    <3>1. w = U8 /\ M_Min(U8, U8) = M_Min(o, U8)
      BY <1>1, <2>3 DEF M_Min
    <3>2. generic_Get_Bit_Range(size, v, outputsize, msb, lsb) = gen_range(U8, v, 1, msb, lsb)
      BY <2>1, <2>3 DEF gen_8bit_range
    <3>3. gen_range(U8, v, 1, msb, lsb) = RangeOf(U8, U8, v, msb, lsb)
      <4>1. U8 \in Nat /\ U8 = 1 * U8 /\ v \subseteq Bits(U8)
        BY <1>1, <3>1
      <4>2. RangeGiven(U8, v, 1, U8, msb, lsb)
        BY <4>1, RangeTaken, Zenon
      <4>3. QED
        BY <4>2, Zenon DEF RangeGiven
    <3>4. RangeOf(U8, U8, v, msb, lsb) = RangeOf(U8, o, v, msb, lsb)
      <4> HIDE DEF o
      <4>1. QED
        BY <3>1, Zenon DEF RangeOf
    <3>5. QED
      BY <3>1, <3>2, <3>3, <3>4, Zenon
  <2>4. CASE size # 1
    <3>1. generic_Get_Bit_Range(size, v, outputsize, msb, lsb) = gen_range(w, v, outputsize, msb, lsb)
      BY <2>1, <2>4 DEF gen_16bit_range, gen_32bit_range, gen_64bit_range, U16, U32, U64, U8
    <3>2. QED
      BY <2>2, <3>1, Zenon
  <2>5. QED
    BY <2>3, <2>4, Zenon
<1>4. QED
  BY <1>2, <1>3, Zenon DEF IntegerGiven

\* The macros choose an output that holds the range.
LEMMA RangeOfMacro ==
    ASSUME NEW v, v \subseteq Bits(U64), NEW msb \in Bits(U64), NEW lsb \in 0 .. msb
    PROVE  /\ M_GETBITRANGE(v, msb, lsb) = RangeOf(U64, U64, v, msb, lsb)
           /\ M_IGETBITRANGE(v, msb, lsb) = RangeOf(U64, U64, v, msb, lsb)
<1> DEFINE S == {s \in {1, 2, 4, 8} : gen_bit_width(msb, lsb) <= s * U8} \cup {8}
           m == OutputSize(msb, lsb)
<1>1. /\ U8 \in Nat \ {0} /\ U64 = 8 * U8 /\ U64 \in Nat /\ msb \in Nat /\ lsb \in Nat /\ lsb <= msb /\ msb < U64
      /\ gen_bit_width(msb, lsb) = (msb - lsb) + 1 /\ (msb - lsb) + 1 <= U64
  BY SizesOfUnits DEF Bits, gen_bit_width
<1>2. m \in S
  <2>1. S \subseteq Nat /\ S # {}
    OBVIOUS
  <2> HIDE DEF S
  <2>2. Min(S) \in S
    BY <2>1, LeastNumber, Zenon
  <2>3. QED
    BY <2>2, Zenon DEF OutputSize, S
<1> HIDE DEF m
<1>3. m \in Nat \ {0} /\ (msb - lsb) + 1 <= m * U8 /\ m * U8 \in Nat
  <2>1. m \in {1, 2, 4, 8} /\ (gen_bit_width(msb, lsb) <= m * U8 \/ m = 8)
    BY <1>2
  <2>2. QED
    BY <1>1, <2>1
<1>4. 8 * U8 = U64 /\ 8 \in {1, 2, 4, 8} /\ v \subseteq Bits(8 * U8)
  BY <1>1
<1>5. generic_Get_Bit_Range(8, v, m, msb, lsb) = RangeOf(8 * U8, m * U8, v, msb, lsb)
  <2>1. IntegerGiven(8, v, m, msb, lsb)
    BY <1>1, <1>3, <1>4, RangeOfInteger, Zenon
  <2>2. QED
    BY <2>1, Zenon DEF IntegerGiven
<1> DEFINE o == m * U8
<1>6. (msb - lsb) + 1 <= M_Min(o, U64) /\ (msb - lsb) + 1 <= M_Min(U64, U64)
  BY <1>1, <1>3 DEF M_Min
<1> HIDE DEF o
<1>7. RangeOf(U64, o, v, msb, lsb) = RangeOf(U64, U64, v, msb, lsb)
  BY <1>1, <1>6, Zenon DEF RangeOf
<1>8. generic_Get_Bit_Range(8, v, m, msb, lsb) = RangeOf(U64, U64, v, msb, lsb)
  BY <1>4, <1>5, <1>7, Zenon DEF o
<1>9. ~(gen_bit_width(msb, lsb) > U64)
  BY <1>1
<1>10. QED
  BY <1>8, <1>9, Zenon DEF M_GETBITRANGE, M_IGETBITRANGE, get_bit_range_unsigned, get_bit_range_signed, m

\* The bytes between two offsets, the one at lsb lowest.
Collected(w, data, msb, lsb) ==
    LET n == M_Max(msb, lsb) - M_Min(msb, lsb)
        byte(k) == data[1 + IF lsb <= msb THEN lsb + k ELSE lsb - k]
    IN Bits(w) \cap UNION {{i + k * U8 : i \in byte(k)} : k \in 0 .. n}

LEMMA BytesCollected ==
    ASSUME NEW data, NEW len \in Nat, Len(data) = len, \A i \in 1 .. len : data[i] \subseteq Bits(U8),
           NEW msb \in 0 .. len - 1, NEW lsb \in 0 .. len - 1, get_Bytes_To_64(data, msb, lsb, {}, {}).ok
    PROVE  /\ get_Bytes_To_64(data, msb, lsb, {}, {}).out = Collected(U64, data, msb, lsb)
           /\ \E read : get_Bytes_To_64(data, msb, lsb, {}, {})
                        = [ok |-> TRUE, out |-> get_Bytes_To_64(data, msb, lsb, {}, {}).out, read |-> read]
<1> DEFINE n == get_Bytes_Abs_Range(msb, lsb)
           reads == IF n + 1 < len THEN n + 1 ELSE len
           at(i) == IF lsb <= msb THEN msb - i ELSE msb + i
           byte(i) == IF at(i) < len THEN data[at(i) + 1] ELSE {}
           B(i) == data[at(i) + 1]
           Holds(j, m, k) == j - (m - k) * U8 \in B(k)
           Step(f, i) == IF i = 0 THEN {} ELSE Shl(U64, f[i - 1], U8) \cup byte(i - 1)
           want == [i \in 0 .. reads |-> {j \in Bits(U64) : \E k \in 0 .. i - 1 : Holds(j, i - 1, k)}]
           into == CHOOSE f : f = [i \in 0 .. reads |-> Step(f, i)]
<1>1. n \in 0 .. len - 1 /\ n = M_Max(msb, lsb) - M_Min(msb, lsb) /\ reads = n + 1
  BY DEF get_Bytes_Abs_Range, M_Max, M_Min
<1>2. ASSUME NEW i \in 0 .. n PROVE byte(i) = B(i) /\ B(i) \subseteq Bits(U8)
  <2>1. at(i) \in 0 .. len - 1
    BY DEF get_Bytes_Abs_Range
  <2>2. QED
    BY <2>1
<1>3. /\ U8 \in Nat \ {0} /\ U8 \in Int /\ U64 \in Nat /\ Bits(U8) \subseteq Bits(U64) /\ Bits(U8) \subseteq Nat
      /\ Bits(U64) \subseteq Nat /\ Bits(U64) \subseteq Int
  BY SizesOfUnits DEF Bits
<1>4. \A k \in Nat : k * U8 \in Nat /\ (k >= 1 => k * U8 >= U8)
  <2>1. \A u \in Nat \ {0}, k \in Nat : k * u \in Nat /\ (k >= 1 => k * u >= u)
    OBVIOUS
  <2>2. QED
    BY <1>3, <2>1, Zenon
<1> HIDE DEF n
<1>5. reads \in Nat
  BY <1>1
<1> HIDE DEF reads
<1> HIDE DEF B, byte, at, Holds
<1>6. ASSUME NEW f, NEW i \in 0 .. reads, i # 0 => f[i - 1] = want[i - 1]
      PROVE  Step(f, i) = want[i]
  <2>1. CASE i = 0
    BY <2>1
  <2>2. CASE i # 0
    <3>1. i \in Nat /\ i - 1 \in 0 .. reads /\ i - 1 \in 0 .. n /\ f[i - 1] = want[i - 1]
      BY <1>1, <1>5, <1>6, <2>2
    <3> DEFINE V == want[i - 1]
    <3>2. ASSUME NEW j PROVE j \in V <=> (j \in Bits(U64) /\ \E k \in 0 .. (i - 1) - 1 : Holds(j, (i - 1) - 1, k))
      BY <3>1
    <3>3. V \subseteq Int
      BY <1>3, <3>2, Zenon
    <3> HIDE DEF V
    <3>4. ASSUME NEW j PROVE j \in Shl(U64, V, U8) <=> (j \in Bits(U64) /\ j - U8 \in V)
      BY <1>3, <3>3, InShl, Zenon
    <3>5. ASSUME NEW j \in Bits(U64), NEW k \in 0 .. i - 1
          PROVE  /\ Holds(j, i - 1, k) /\ k # i - 1 => j - U8 \in Bits(U64)
                 /\ Holds(j - U8, (i - 1) - 1, k) <=> Holds(j, i - 1, k)
                 /\ k = i - 1 => (Holds(j, i - 1, k) <=> j \in B(i - 1))
                 /\ k # i - 1 <=> k \in 0 .. (i - 1) - 1
      <4>1. j \in Int /\ k \in Int /\ k \in 0 .. n
        <5>1. n \in Int /\ i - 1 <= n
          BY <1>1, <3>1
        <5>2. k \in Int /\ k \in 0 .. n
          BY <3>1, <5>1
        <5>3. QED
          BY <1>3, <5>2, Zenon
      <4> DEFINE d == (i - 1) - k
      <4>2. d \in Nat /\ (k # i - 1 => d >= 1) /\ (k = i - 1 => d = 0) /\ ((i - 1) - 1) - k = d - 1
        BY <3>1
      <4> HIDE DEF d
      <4>3. (j - U8) - (d - 1) * U8 = j - d * U8 /\ (d = 0 => j - d * U8 = j)
        BY <1>3, <4>1, <4>2
      <4>4. ASSUME j - d * U8 \in B(k), k # i - 1 PROVE j - U8 \in Bits(U64)
        <5> DEFINE p == d * U8
        <5>1. p \in Nat /\ p >= U8
          BY <1>4, <4>2, <4>4
        <5>2. j - p \in Nat
          BY <1>2, <1>3, <4>1, <4>4
        <5> HIDE DEF p
        <5>3. QED
          BY <1>3, <5>1, <5>2 DEF Bits
      <4>5. k # i - 1 <=> k \in 0 .. (i - 1) - 1
        BY <3>1
      <4>6. Holds(j, i - 1, k) <=> j - d * U8 \in B(k)
        BY Zenon DEF Holds, d
      <4>7. Holds(j - U8, (i - 1) - 1, k) <=> (j - U8) - (d - 1) * U8 \in B(k)
        BY <4>2, Zenon DEF Holds
      <4>8. QED
        BY <4>2, <4>3, <4>4, <4>5, <4>6, <4>7, Zenon
    <3>6. Step(f, i) = Shl(U64, V, U8) \cup B(i - 1)
      <4>1. byte(i - 1) = B(i - 1)
        BY <1>2, <3>1
      <4>2. QED
        BY <2>2, <3>1, <4>1, Zenon DEF V
    <3>7. B(i - 1) \subseteq Bits(U64)
      BY <1>2, <1>3, <3>1
    <3>8. ASSUME NEW j \in Bits(U64)
          PROVE  j \in Shl(U64, V, U8) \cup B(i - 1) <=> \E k \in 0 .. i - 1 : Holds(j, i - 1, k)
      <4>1. ASSUME j \in Shl(U64, V, U8) PROVE \E k \in 0 .. i - 1 : Holds(j, i - 1, k)
        <5>1. PICK k \in 0 .. (i - 1) - 1 : Holds(j - U8, (i - 1) - 1, k)
          BY <3>2, <3>4, <4>1, Zenon
        <5>2. k \in 0 .. i - 1
          BY <3>1
        <5>3. QED
          BY <3>5, <5>1, <5>2, Zenon
      <4>2. i - 1 \in 0 .. i - 1
        BY <3>1
      <4>3. ASSUME NEW k \in 0 .. i - 1, Holds(j, i - 1, k) PROVE j \in Shl(U64, V, U8) \cup B(i - 1)
        BY <3>2, <3>4, <3>5, <4>3, Zenon
      <4>4. QED
        BY <3>5, <4>1, <4>2, <4>3, Zenon
    <3>9. want[i] = {j \in Bits(U64) : \E k \in 0 .. i - 1 : Holds(j, i - 1, k)}
      OBVIOUS
    <3>10. Shl(U64, V, U8) \subseteq Bits(U64)
      BY <3>4, Zenon
    <3> HIDE DEF want, Step
    <3>11. QED
      BY <3>6, <3>7, <3>8, <3>9, <3>10
  <2>3. QED
    BY <2>1, <2>2, Zenon
<1> HIDE DEF Step
<1>7. want = [i \in 0 .. reads |-> Step(want, i)]
  <2>1. \A i \in 0 .. reads : Step(want, i) = want[i]
    BY <1>6, Zenon
  <2>2. want = [i \in 0 .. reads |-> want[i]]
    OBVIOUS
  <2> HIDE DEF want
  <2>3. QED
    BY <2>1, <2>2
<1>8. into = [i \in 0 .. reads |-> Step(into, i)]
  <2> HIDE DEF want
  <2>1. QED
    BY <1>7, Zenon
<1>9. want[reads] = {j \in Bits(U64) : \E k \in 0 .. n : Holds(j, n, k)}
  <2>1. reads - 1 = n /\ reads \in 0 .. reads
    BY <1>1, <1>5
  <2>2. QED
    BY <2>1
<1> HIDE DEF into, want
<1>10. into[reads] = want[reads]
  <2> DEFINE Bad == {i \in 0 .. reads : into[i] # want[i]}
  <2>1. SUFFICES ASSUME Bad # {} PROVE FALSE
    BY <1>5
  <2>2. Bad \subseteq Nat
    OBVIOUS
  <2> DEFINE i == Min(Bad)
  <2>3. i \in Bad /\ \A k \in Bad : i <= k
    BY <2>1, <2>2, LeastNumber, Zenon
  <2> HIDE DEF i
  <2>4. i # 0 => into[i - 1] = want[i - 1]
    <3>1. i # 0 => i - 1 \in 0 .. reads /\ ~(i <= i - 1)
      BY <1>5, <2>3
    <3>2. QED
      BY <2>3, <3>1
  <2>5. Step(into, i) = want[i]
    BY <1>6, <2>3, <2>4, Zenon
  <2>6. into[i] = Step(into, i)
    BY <1>8, <2>3, Zenon
  <2>7. QED
    BY <2>3, <2>5, <2>6, Zenon
<1> DEFINE out == get_Bytes_To_64(data, msb, lsb, {}, {})
           Z == [ok |-> TRUE, out |-> into[reads], read |-> {at(i) : i \in 0 .. reads - 1}]
<1>11. out = Z
  <2>1. out = IF msb > len \/ lsb > len \/ n > 8 THEN [ok |-> FALSE, out |-> {}, read |-> {}] ELSE Z
    BY Zenon DEF get_Bytes_To_64, n, reads, at, byte, Step, into
  <2>2. out.ok
    OBVIOUS
  <2> HIDE DEF out
  <2>3. QED
    BY <2>1, <2>2
<1> HIDE DEF out
<1>12. out.out = into[reads] /\ \E read : out = [ok |-> TRUE, out |-> out.out, read |-> read]
  BY <1>11
<1>13. want[reads] = Collected(U64, data, msb, lsb)
  <2> DEFINE C(k) == data[1 + IF lsb <= msb THEN lsb + k ELSE lsb - k]
  <2>1. n \in Nat /\ n = IF msb > lsb THEN msb - lsb ELSE lsb - msb
    <3>1. n = IF msb > lsb THEN msb - lsb ELSE lsb - msb
      BY Zenon DEF n, get_Bytes_Abs_Range
    <3>2. QED
      BY <1>1, <3>1
  <2>2. ASSUME NEW k \in 0 .. n PROVE n - k \in 0 .. n /\ n - (n - k) = k /\ C(n - k) = B(k) /\ B(k) \subseteq Int
    <3>1. n - k \in 0 .. n /\ n - (n - k) = k
      <4> HIDE DEF n
      <4>1. n \in Nat
        BY <2>1, Zenon
      <4>2. QED
        BY <4>1
    <3>2. 1 + (IF lsb <= msb THEN lsb + (n - k) ELSE lsb - (n - k)) = at(k) + 1
      <4>1. CASE lsb <= msb
        BY <2>1, <4>1 DEF at
      <4>2. CASE ~(lsb <= msb)
        BY <2>1, <4>2 DEF at
      <4>3. QED
        BY <4>1, <4>2
    <3>3. B(k) \subseteq Int
      BY <1>2, <1>3
    <3>4. QED
      BY <3>1, <3>2, <3>3, Zenon DEF B
  <2> HIDE DEF C
  <2>3. ASSUME NEW j \in Bits(U64), NEW k \in 0 .. n
        PROVE  Holds(j, n, k) <=> j \in {i + (n - k) * U8 : i \in C(n - k)}
    <3> DEFINE p == (n - k) * U8
    <3>1. p \in Int /\ j \in Int
      BY <1>3, <2>1
    <3> HIDE DEF p
    <3>2. C(n - k) = B(k) /\ B(k) \subseteq Int
      BY <2>2
    <3>3. j - p \in B(k) => j \in {i + p : i \in B(k)}
      <4>1. j = (j - p) + p
        BY <3>1
      <4>2. QED
        BY <4>1
    <3>4. ASSUME NEW i \in B(k), j = i + p PROVE j - p \in B(k)
      <4>1. j - p = i
        BY <3>1, <3>2, <3>4
      <4>2. QED
        BY <4>1
    <3>5. j - p \in B(k) <=> j \in {i + p : i \in B(k)}
      BY <3>3, <3>4
    <3>6. QED
      BY <3>2, <3>5, Zenon DEF p, Holds
  <2>4. Collected(U64, data, msb, lsb) = Bits(U64) \cap UNION {{i + k * U8 : i \in C(k)} : k \in 0 .. n}
    BY <1>1, Zenon DEF Collected, C
  <2>5. ASSUME NEW j \in Bits(U64)
        PROVE  (\E k \in 0 .. n : Holds(j, n, k)) <=> \E k \in 0 .. n : j \in {i + k * U8 : i \in C(k)}
    <3>1. ASSUME NEW k \in 0 .. n, Holds(j, n, k) PROVE \E l \in 0 .. n : j \in {i + l * U8 : i \in C(l)}
      BY <2>2, <2>3, <3>1, Zenon
    <3>2. ASSUME NEW l \in 0 .. n, j \in {i + l * U8 : i \in C(l)} PROVE \E k \in 0 .. n : Holds(j, n, k)
      <4>1. n - l \in 0 .. n /\ n - (n - l) = l
        BY <2>2
      <4>2. j \in {i + (n - (n - l)) * U8 : i \in C(n - (n - l))}
        BY <3>2, <4>1, Zenon
      <4>3. QED
        BY <2>3, <4>1, <4>2, Zenon
    <3>3. QED
      BY <3>1, <3>2, Zenon
  <2>6. Bits(U64) \cap UNION {{i + k * U8 : i \in C(k)} : k \in 0 .. n}
        = {j \in Bits(U64) : \E k \in 0 .. n : j \in {i + k * U8 : i \in C(k)}}
    BY Zenon
  <2>7. QED
    BY <1>9, <2>4, <2>5, <2>6, Zenon
<1>14. QED
  BY <1>10, <1>12, <1>13, Zenon DEF out

-----------------------------------------------------------------------------
(* The calls of the bit operations                                         *)

\* A reader of bytes narrower than a qword keeps the low ones.
BytesRead(w, data, msb, lsb) ==
    CASE w = U16 -> get_Bytes_To_16(data, msb, lsb, {}, {})
      [] w = U32 -> get_Bytes_To_32(data, msb, lsb, {}, {})
      [] w = U64 -> get_Bytes_To_64(data, msb, lsb, {}, {})

NarrowedOut(w, limit, data, msb, lsb) ==
    Narrowed(w, limit, data, msb, lsb, {}, {}).out = Collected(w, data, msb, lsb)

LEMMA NarrowedKeepsLow ==
    ASSUME NEW w, Bits(w) \subseteq Bits(U64), NEW limit, NEW data, NEW len \in Nat, Len(data) = len,
           \A i \in 1 .. len : data[i] \subseteq Bits(U8), NEW msb \in 0 .. len - 1, NEW lsb \in 0 .. len - 1,
           Narrowed(w, limit, data, msb, lsb, {}, {}).ok
    PROVE  NarrowedOut(w, limit, data, msb, lsb)
<1> DEFINE wide == get_Bytes_To_64(data, msb, lsb, {}, {})
           narrow == Narrowed(w, limit, data, msb, lsb, {}, {})
           some == get_Bytes_Abs_Range(msb, lsb) <= limit
<1>1. narrow = IF some /\ wide.ok THEN [wide EXCEPT !.out = @ \cap Bits(w)] ELSE [ok |-> FALSE, out |-> {}, read |-> {}]
  BY Zenon DEF Narrowed
<1>2. narrow.ok
  OBVIOUS
<1> HIDE DEF narrow
<1>3. some /\ wide.ok
  <2> HIDE DEF wide, some
  <2>1. QED
    BY <1>1, <1>2
<1>4. wide.out = Collected(U64, data, msb, lsb) /\ \E read : wide = [ok |-> TRUE, out |-> wide.out, read |-> read]
  BY <1>3, BytesCollected, Zenon
<1> HIDE DEF wide
<1>5. narrow.out = wide.out \cap Bits(w)
  <2>1. PICK read : wide = [ok |-> TRUE, out |-> wide.out, read |-> read]
    BY <1>4, Zenon
  <2>2. narrow = [wide EXCEPT !.out = @ \cap Bits(w)]
    BY <1>1, <1>3, Zenon
  <2>3. QED
    BY <2>1, <2>2
<1> DEFINE n == M_Max(msb, lsb) - M_Min(msb, lsb)
           U == UNION {{i + k * U8 : i \in data[1 + IF lsb <= msb THEN lsb + k ELSE lsb - k]} : k \in 0 .. n}
<1>6. Collected(U64, data, msb, lsb) = Bits(U64) \cap U /\ Collected(w, data, msb, lsb) = Bits(w) \cap U
  BY Zenon DEF Collected
<1> HIDE DEF U
<1>7. wide.out \cap Bits(w) = Bits(w) \cap U
  BY <1>4, <1>6
<1>8. QED
  BY <1>5, <1>6, <1>7, Zenon DEF narrow, NarrowedOut

LEMMA ReadAreCollected ==
    ASSUME NEW w \in {U16, U32, U64}, NEW data, NEW len \in Nat, Len(data) = len,
           \A i \in 1 .. len : data[i] \subseteq Bits(U8), NEW msb \in 0 .. len - 1, NEW lsb \in 0 .. len - 1,
           BytesRead(w, data, msb, lsb).ok
    PROVE  BytesRead(w, data, msb, lsb).out = Collected(w, data, msb, lsb)
<1>1. U16 # U32 /\ U16 # U64 /\ U32 # U64
  BY WidthsOfTypes
<1>2. Bits(U16) \subseteq Bits(U64) /\ Bits(U32) \subseteq Bits(U64)
  BY SizesOfUnits DEF Bits
<1>3. CASE w = U16
  <2>1. BytesRead(w, data, msb, lsb) = Narrowed(U16, 2, data, msb, lsb, {}, {})
    BY <1>1, <1>3, Zenon DEF BytesRead, get_Bytes_To_16
  <2>2. Narrowed(U16, 2, data, msb, lsb, {}, {}).ok
    BY <2>1, Zenon
  <2>3. NarrowedOut(U16, 2, data, msb, lsb)
    BY <1>2, <2>2, NarrowedKeepsLow, Zenon
  <2>4. QED
    BY <1>3, <2>1, <2>3, Zenon DEF NarrowedOut
<1>4. CASE w = U32
  <2>1. BytesRead(w, data, msb, lsb) = Narrowed(U32, 4, data, msb, lsb, {}, {})
    BY <1>1, <1>4, Zenon DEF BytesRead, get_Bytes_To_32
  <2>2. Narrowed(U32, 4, data, msb, lsb, {}, {}).ok
    BY <2>1, Zenon
  <2>3. NarrowedOut(U32, 4, data, msb, lsb)
    BY <1>2, <2>2, NarrowedKeepsLow, Zenon
  <2>4. QED
    BY <1>4, <2>1, <2>3, Zenon DEF NarrowedOut
<1>5. CASE w = U64
  <2>1. BytesRead(w, data, msb, lsb) = get_Bytes_To_64(data, msb, lsb, {}, {})
    BY <1>1, <1>5, Zenon DEF BytesRead
  <2>2. QED
    BY <1>5, <2>1, BytesCollected, Zenon
<1>6. QED
  BY <1>3, <1>4, <1>5

\* What BitsAreWhereTheyBelong asks of a call of each family.
Moved(f, w, v, n) ==
    CASE f = "left"  -> {(i + n) % w : i \in v}
      [] f = "right" -> {((i + w) - (n % w)) % w : i \in v}
      [] f = "set"   -> v \cup {n}
      [] f = "clear" -> v \ {n}

QueryBelongs(c) == c.family = "query" => Unclear(c.f, c.in.build, c.in.w, c.in.v) \/ c.out = Expected(c.f, c.in.w, c.in.v)
MoveBelongs(c)  == c.family = "move" => c.out = Moved(c.f, c.in.w, c.in.v, c.in.n)
SwapBelongs(c)  == c.family = "swap" => c.out = Swapped(c.in.w, c.in.v, c.in.unit)
PartsBelong(c)  == c.family = "parts" => c.out = {c.in.v}
OrderBelongs(c) == c.family = "endian" => c.out = Ordered(c.in.w, c.in.big, c.in.v)
RangeBelongs(c) == c.family = "range" => c.out = RangeOf(c.in.w, c.in.out, c.in.v, c.in.msb, c.in.lsb)
BytesBelong(c)  == c.family = "bytes" /\ c.out.ok => c.out.out = Collected(c.in.w, c.in.data, c.in.msb, c.in.lsb)

BitsBelong(c) ==
    /\ QueryBelongs(c) /\ MoveBelongs(c) /\ SwapBelongs(c) /\ PartsBelong(c) /\ OrderBelongs(c) /\ RangeBelongs(c)
    /\ BytesBelong(c)

LEMMA BelongingIsTheProperty ==
    /\ BitsBelong(call) => BitsAreWhereTheyBelong
    /\ BitsBelong(call') => BitsAreWhereTheyBelong'
<1>1. BitsBelong(call) => BitsAreWhereTheyBelong
  BY Zenon DEF BitsBelong, BitsAreWhereTheyBelong, Is, QueryBelongs, MoveBelongs, SwapBelongs, PartsBelong, OrderBelongs,
               RangeBelongs, BytesBelong, Unclear, Moved, Ordered, RangeOf, Collected
<1>2. BitsBelong(call') => BitsAreWhereTheyBelong'
  BY Zenon DEF BitsBelong, BitsAreWhereTheyBelong, Is, QueryBelongs, MoveBelongs, SwapBelongs, PartsBelong, OrderBelongs,
               RangeBelongs, BytesBelong, Unclear, Moved, Ordered, RangeOf, Collected
<1>3. QED
  BY <1>1, <1>2, Zenon

LEMMA OthersBelong ==
    ASSUME NEW c, c.family \notin BitFamilies
    PROVE  BitsBelong(c)
<1>1. /\ ~(c.family = "query") /\ ~(c.family = "move") /\ ~(c.family = "swap") /\ ~(c.family = "parts")
      /\ ~(c.family = "endian") /\ ~(c.family = "range") /\ ~(c.family = "bytes")
  BY DEF BitFamilies
<1>2. QED
  BY <1>1, Zenon DEF BitsBelong, QueryBelongs, MoveBelongs, SwapBelongs, PartsBelong, OrderBelongs, RangeBelongs, BytesBelong

\* A call belongs when the part of its own family does.
LEMMA OneFamily ==
    ASSUME NEW fam \in BitFamilies, NEW f, NEW x, NEW out, NEW c, c = [family |-> fam, f |-> f, in |-> x, out |-> out],
           \/ fam = "query" /\ (Unclear(f, x.build, x.w, x.v) \/ out = Expected(f, x.w, x.v))
           \/ fam = "move" /\ out = Moved(f, x.w, x.v, x.n)
           \/ fam = "swap" /\ out = Swapped(x.w, x.v, x.unit)
           \/ fam = "parts" /\ out = {x.v}
           \/ fam = "endian" /\ out = Ordered(x.w, x.big, x.v)
           \/ fam = "range" /\ out = RangeOf(x.w, x.out, x.v, x.msb, x.lsb)
           \/ fam = "bytes" /\ (out.ok => out.out = Collected(x.w, x.data, x.msb, x.lsb))
    PROVE  BitsBelong(c)
<1>1. c.family = fam /\ c.f = f /\ c.in = x /\ c.out = out
  OBVIOUS
<1>2. /\ "query" # "move" /\ "query" # "swap" /\ "query" # "parts" /\ "query" # "endian" /\ "query" # "range" /\ "query" # "bytes"
      /\ "move" # "swap" /\ "move" # "parts" /\ "move" # "endian" /\ "move" # "range" /\ "move" # "bytes"
      /\ "swap" # "parts" /\ "swap" # "endian" /\ "swap" # "range" /\ "swap" # "bytes"
      /\ "parts" # "endian" /\ "parts" # "range" /\ "parts" # "bytes"
      /\ "endian" # "range" /\ "endian" # "bytes" /\ "range" # "bytes"
  OBVIOUS
<1>3. CASE fam = "query"
  BY <1>1, <1>2, <1>3, Zenon DEF BitsBelong, QueryBelongs, MoveBelongs, SwapBelongs, PartsBelong, OrderBelongs, RangeBelongs, BytesBelong
<1>4. CASE fam = "move"
  BY <1>1, <1>2, <1>4, Zenon DEF BitsBelong, QueryBelongs, MoveBelongs, SwapBelongs, PartsBelong, OrderBelongs, RangeBelongs, BytesBelong
<1>5. CASE fam = "swap"
  BY <1>1, <1>2, <1>5, Zenon DEF BitsBelong, QueryBelongs, MoveBelongs, SwapBelongs, PartsBelong, OrderBelongs, RangeBelongs, BytesBelong
<1>6. CASE fam = "parts"
  BY <1>1, <1>2, <1>6, Zenon DEF BitsBelong, QueryBelongs, MoveBelongs, SwapBelongs, PartsBelong, OrderBelongs, RangeBelongs, BytesBelong
<1>7. CASE fam = "endian"
  BY <1>1, <1>2, <1>7, Zenon DEF BitsBelong, QueryBelongs, MoveBelongs, SwapBelongs, PartsBelong, OrderBelongs, RangeBelongs, BytesBelong
<1>8. CASE fam = "range"
  BY <1>1, <1>2, <1>8, Zenon DEF BitsBelong, QueryBelongs, MoveBelongs, SwapBelongs, PartsBelong, OrderBelongs, RangeBelongs, BytesBelong
<1>9. CASE fam = "bytes"
  BY <1>1, <1>2, <1>9, Zenon DEF BitsBelong, QueryBelongs, MoveBelongs, SwapBelongs, PartsBelong, OrderBelongs, RangeBelongs, BytesBelong
<1>10. QED
  BY <1>3, <1>4, <1>5, <1>6, <1>7, <1>8, <1>9 DEF BitFamilies

LEMMA PatternedBits ==
    ASSUME NEW w, NEW v \in Patterned(w)
    PROVE  v \subseteq Bits(w)
BY WideAssumption DEF Patterned

LEMMA QueryingIsCorrect == Querying => BitsBelong(call')
<1>1. ASSUME NEW w \in {U8, U16, U32, U64}, NEW build \in Builds, NEW f \in Queries, NEW v \in Patterned(w),
             Called("query", f, [w |-> w, build |-> build, v |-> v], Query(f, build, w, v))
      PROVE  BitsBelong(call')
  <2> DEFINE x == [w |-> w, build |-> build, v |-> v]
             out == Query(f, build, w, v)
  <2>1. w \in Nat \ {0}
    BY SizesOfUnits
  <2>2. v \subseteq Bits(w)
    BY PatternedBits, Zenon
  <2>3. Unclear(f, build, w, v) \/ out = Expected(f, w, v)
    BY <2>1, <2>2, QueryIsExpected, Zenon
  <2> HIDE DEF out
  <2>4. x.w = w /\ x.build = build /\ x.v = v /\ "query" \in BitFamilies
    BY DEF BitFamilies
  <2>5. call' = [family |-> "query", f |-> f, in |-> x, out |-> out]
    BY <1>1, Zenon DEF Called, out
  <2> HIDE DEF x
  <2>6. QED
    BY <2>3, <2>4, <2>5, OneFamily, Zenon
<1>2. QED
  BY <1>1, Zenon DEF Querying

LEMMA RotatingIsCorrect == Rotating => BitsBelong(call')
<1>1. ASSUME NEW w \in {U8, U16, U32, U64}, NEW v \in Patterned(w), NEW n \in 0 .. w + 1, NEW f, NEW out,
             Called("move", f, [w |-> w, v |-> v, n |-> n], out), out = Moved(f, w, v, n)
      PROVE  BitsBelong(call')
  <2> DEFINE x == [w |-> w, v |-> v, n |-> n]
  <2>1. x.w = w /\ x.n = n /\ x.v = v /\ "move" \in BitFamilies
    BY DEF BitFamilies
  <2>2. call' = [family |-> "move", f |-> f, in |-> x, out |-> out]
    BY <1>1, Zenon DEF Called
  <2> HIDE DEF x
  <2>3. QED
    BY <1>1, <2>1, <2>2, OneFamily, Zenon
<1>2. ASSUME NEW w \in {U8, U16, U32, U64}, NEW v \in Patterned(w), NEW n \in 0 .. w + 1
      PROVE  /\ rotate_left(w, v, n) = Moved("left", w, v, n)
             /\ rotate_right(w, v, n) = Moved("right", w, v, n)
             /\ n \in Bits(w) => /\ SetBit(w, v, n) = Moved("set", w, v, n)
                                 /\ ClearBit(w, v, n) = Moved("clear", w, v, n)
  <2>1. w \in Widths /\ w \in Nat /\ n \in Nat
    BY SizesOfUnits DEF Widths
  <2>2. v \subseteq Bits(w)
    BY PatternedBits, Zenon
  <2>3. rotate_left(w, v, n) = {(i + n) % w : i \in v}
    BY <2>1, <2>2, LeftTurns, Zenon
  <2>4. rotate_right(w, v, n) = {((i + w) - (n % w)) % w : i \in v}
    BY <2>1, <2>2, RightTurns, Zenon
  <2>5. n \in Bits(w) => SetBit(w, v, n) = v \cup {n} /\ ClearBit(w, v, n) = v \ {n}
    BY <2>1, <2>2, BitSetAndCleared, Zenon
  <2>6. /\ Moved("left", w, v, n) = {(i + n) % w : i \in v}
        /\ Moved("right", w, v, n) = {((i + w) - (n % w)) % w : i \in v}
        /\ Moved("set", w, v, n) = v \cup {n}
        /\ Moved("clear", w, v, n) = v \ {n}
    BY DEF Moved
  <2>7. QED
    BY <2>3, <2>4, <2>5, <2>6, Zenon
<1>3. ASSUME NEW w \in {U8, U16, U32, U64}, NEW v \in Patterned(w), NEW n \in 0 .. w + 1,
             \/ Called("move", "left", [w |-> w, v |-> v, n |-> n], rotate_left(w, v, n))
             \/ Called("move", "right", [w |-> w, v |-> v, n |-> n], rotate_right(w, v, n))
             \/ n \in Bits(w) /\ Called("move", "set", [w |-> w, v |-> v, n |-> n], SetBit(w, v, n))
             \/ n \in Bits(w) /\ Called("move", "clear", [w |-> w, v |-> v, n |-> n], ClearBit(w, v, n))
      PROVE  BitsBelong(call')
  <2>1. \A f, out : out = Moved(f, w, v, n) /\ Called("move", f, [w |-> w, v |-> v, n |-> n], out) => BitsBelong(call')
    BY <1>1, Zenon
  <2>2. /\ rotate_left(w, v, n) = Moved("left", w, v, n)
        /\ rotate_right(w, v, n) = Moved("right", w, v, n)
        /\ n \in Bits(w) => SetBit(w, v, n) = Moved("set", w, v, n) /\ ClearBit(w, v, n) = Moved("clear", w, v, n)
    BY <1>2, Zenon
  <2>3. CASE Called("move", "left", [w |-> w, v |-> v, n |-> n], rotate_left(w, v, n))
    BY <2>1, <2>2, <2>3, Zenon
  <2>4. CASE Called("move", "right", [w |-> w, v |-> v, n |-> n], rotate_right(w, v, n))
    BY <2>1, <2>2, <2>4, Zenon
  <2>5. CASE n \in Bits(w) /\ Called("move", "set", [w |-> w, v |-> v, n |-> n], SetBit(w, v, n))
    BY <2>1, <2>2, <2>5, Zenon
  <2>6. CASE n \in Bits(w) /\ Called("move", "clear", [w |-> w, v |-> v, n |-> n], ClearBit(w, v, n))
    BY <2>1, <2>2, <2>6, Zenon
  <2>7. QED
    BY <1>3, <2>3, <2>4, <2>5, <2>6, Zenon
<1>4. ASSUME Rotating PROVE BitsBelong(call')
  <2>1. PICK w \in {U8, U16, U32, U64} :
            \E v \in Patterned(w), n \in 0 .. w + 1 :
               \/ Called("move", "left", [w |-> w, v |-> v, n |-> n], rotate_left(w, v, n))
               \/ Called("move", "right", [w |-> w, v |-> v, n |-> n], rotate_right(w, v, n))
               \/ n \in Bits(w) /\ Called("move", "set", [w |-> w, v |-> v, n |-> n], SetBit(w, v, n))
               \/ n \in Bits(w) /\ Called("move", "clear", [w |-> w, v |-> v, n |-> n], ClearBit(w, v, n))
    BY <1>4, Zenon DEF Rotating
  <2>2. PICK v \in Patterned(w), n \in 0 .. w + 1 :
               \/ Called("move", "left", [w |-> w, v |-> v, n |-> n], rotate_left(w, v, n))
               \/ Called("move", "right", [w |-> w, v |-> v, n |-> n], rotate_right(w, v, n))
               \/ n \in Bits(w) /\ Called("move", "set", [w |-> w, v |-> v, n |-> n], SetBit(w, v, n))
               \/ n \in Bits(w) /\ Called("move", "clear", [w |-> w, v |-> v, n |-> n], ClearBit(w, v, n))
    BY <2>1, Zenon
  <2>3. QED
    BY <1>3, <2>2
<1>5. QED
  BY <1>4, Zenon

LEMMA SwappingIsCorrect == Swapping => BitsBelong(call')
<1>1. ASSUME NEW f, NEW w, NEW unit, NEW v, NEW out, out = Swapped(w, v, unit),
             Called("swap", f, [w |-> w, unit |-> unit, v |-> v], out)
      PROVE  BitsBelong(call')
  <2> DEFINE x == [w |-> w, unit |-> unit, v |-> v]
  <2>1. x.w = w /\ x.unit = unit /\ x.v = v /\ "swap" \in BitFamilies
    BY DEF BitFamilies
  <2>2. call' = [family |-> "swap", f |-> f, in |-> x, out |-> out]
    BY <1>1, Zenon DEF Called
  <2> HIDE DEF x
  <2>3. QED
    BY <1>1, <2>1, <2>2, OneFamily, Zenon
<1>2. \A w : \A v \in Patterned(w) : v \subseteq Bits(w)
  BY PatternedBits, Zenon
<1>3. ASSUME NEW v \in Patterned(U16) PROVE byte_Swap_16(FALSE, v) = Swapped(U16, v, U8)
  BY <1>2, SwapsTurn, Zenon DEF byte_Swap_16
<1>4. ASSUME NEW v \in Patterned(U32)
      PROVE  /\ byte_Swap_32(FALSE, "builtin", v) = Swapped(U32, v, U8)
             /\ byte_Swap_Int32(v) = Swapped(U32, v, U8)
             /\ w_swap_32(v) = Swapped(U32, v, U16)
  BY <1>2, SwapsTurn, Zenon DEF byte_Swap_32
<1>5. ASSUME NEW v \in Patterned(U64)
      PROVE  /\ byte_Swap_64(FALSE, "builtin", v) = Swapped(U64, v, U8)
             /\ word_Swap_64(v) = Swapped(U64, v, U16)
             /\ double_Word_Swap_64(v) = Swapped(U64, v, U32)
  BY <1>2, SwapsTurn, Zenon DEF byte_Swap_64
<1>6. ASSUME NEW v \in Patterned(U8) PROVE nibble_Swap(FALSE, v) = Swapped(U8, v, NIBBLE)
  BY <1>2, SwapsTurn, Zenon
<1>7. ASSUME NEW v \in Patterned(U64), Called("parts", "parts", [v |-> v], Parts(v)) PROVE BitsBelong(call')
  <2> DEFINE x == [v |-> v]
             out == Parts(v)
  <2>1. out = {v}
    BY <1>2, PartsAreTheValue, Zenon
  <2>2. x.v = v /\ "parts" \in BitFamilies
    BY DEF BitFamilies
  <2>3. call' = [family |-> "parts", f |-> "parts", in |-> x, out |-> out]
    BY <1>7, Zenon DEF Called
  <2> HIDE DEF x, out
  <2>4. QED
    BY <2>1, <2>2, <2>3, OneFamily, Zenon
<1>8. ASSUME NEW w \in {U16, U32, U64}, NEW big \in BOOLEAN, NEW v \in Patterned(w),
             Called("endian", "endian", [w |-> w, big |-> big, v |-> v], Order("builtin", big, w, v))
      PROVE  BitsBelong(call')
  <2> DEFINE x == [w |-> w, big |-> big, v |-> v]
             out == Order("builtin", big, w, v)
  <2>1. out = Ordered(w, big, v)
    <3>1. v \subseteq Bits(w)
      BY <1>2, Zenon
    <3>2. QED
      BY <3>1, OrdersTurn, Zenon
  <2>2. x.w = w /\ x.big = big /\ x.v = v /\ "endian" \in BitFamilies
    BY DEF BitFamilies
  <2>3. call' = [family |-> "endian", f |-> "endian", in |-> x, out |-> out]
    BY <1>8, Zenon DEF Called
  <2> HIDE DEF x, out
  <2>4. QED
    BY <2>1, <2>2, <2>3, OneFamily, Zenon
<1>9. ASSUME NEW v \in Patterned(U32),
             \/ Called("swap", "bytes", [w |-> U32, unit |-> U8, v |-> v], byte_Swap_32(FALSE, "builtin", v))
             \/ Called("swap", "bytes", [w |-> U32, unit |-> U8, v |-> v], byte_Swap_Int32(v))
             \/ Called("swap", "words", [w |-> U32, unit |-> U16, v |-> v], w_swap_32(v))
      PROVE  BitsBelong(call')
  BY <1>1, <1>4, <1>9, Zenon
<1>10. ASSUME NEW v \in Patterned(U64),
              \/ Called("swap", "bytes", [w |-> U64, unit |-> U8, v |-> v], byte_Swap_64(FALSE, "builtin", v))
              \/ Called("swap", "words", [w |-> U64, unit |-> U16, v |-> v], word_Swap_64(v))
              \/ Called("swap", "dwords", [w |-> U64, unit |-> U32, v |-> v], double_Word_Swap_64(v))
       PROVE  BitsBelong(call')
  BY <1>1, <1>5, <1>10, Zenon
<1>11. ASSUME NEW v \in Patterned(U16),
              Called("swap", "bytes", [w |-> U16, unit |-> U8, v |-> v], byte_Swap_16(FALSE, v))
       PROVE  BitsBelong(call')
  BY <1>1, <1>3, <1>11, Zenon
<1>12. ASSUME NEW v \in Patterned(U8),
              Called("swap", "nibbles", [w |-> U8, unit |-> NIBBLE, v |-> v], nibble_Swap(FALSE, v))
       PROVE  BitsBelong(call')
  BY <1>1, <1>6, <1>12, Zenon
<1>13. QED
  BY <1>7, <1>8, <1>9, <1>10, <1>11, <1>12, Zenon DEF Swapping

LEMMA RangingIsCorrect == Ranging => BitsBelong(call')
<1>1. ASSUME NEW f, NEW w, NEW o, NEW v, NEW msb, NEW lsb, NEW out, out = RangeOf(w, o, v, msb, lsb),
             Called("range", f, [w |-> w, out |-> o, v |-> v, msb |-> msb, lsb |-> lsb], out)
      PROVE  BitsBelong(call')
  <2> DEFINE x == [w |-> w, out |-> o, v |-> v, msb |-> msb, lsb |-> lsb]
  <2>1. x.w = w /\ x.out = o /\ x.v = v /\ x.msb = msb /\ x.lsb = lsb /\ "range" \in BitFamilies
    BY DEF BitFamilies
  <2>2. call' = [family |-> "range", f |-> f, in |-> x, out |-> out]
    BY <1>1, Zenon DEF Called
  <2> HIDE DEF x
  <2>3. QED
    BY <1>1, <2>1, <2>2, OneFamily, Zenon
<1>2. ASSUME NEW v \in Wide, NEW msb \in Bits(U64), NEW lsb \in 0 .. msb, NEW signed \in BOOLEAN,
             Called("range", "macro", [w |-> U64, out |-> U64, v |-> v, msb |-> msb, lsb |-> lsb],
                    IF signed THEN M_IGETBITRANGE(v, msb, lsb) ELSE M_GETBITRANGE(v, msb, lsb))
      PROVE  BitsBelong(call')
  <2> DEFINE out == IF signed THEN M_IGETBITRANGE(v, msb, lsb) ELSE M_GETBITRANGE(v, msb, lsb)
  <2>1. v \subseteq Bits(U64)
    BY WideAssumption
  <2>2. out = RangeOf(U64, U64, v, msb, lsb)
    BY <2>1, RangeOfMacro, Zenon
  <2>3. Called("range", "macro", [w |-> U64, out |-> U64, v |-> v, msb |-> msb, lsb |-> lsb], out)
    BY <1>2, Zenon
  <2> HIDE DEF out
  <2>4. QED
    BY <1>1, <2>2, <2>3, Zenon
<1>3. ASSUME NEW length \in 1 .. 5, NEW msb \in 0 .. 4, NEW lsb \in 0 .. 4, NEW w \in {U16, U32, U64}, NEW data,
             data = [i \in 1 .. length |-> IF i % 3 = 0 THEN Bits(U8) ELSE {i % U8}],
             msb < length, lsb < length,
             Called("bytes", "bytes", [w |-> w, data |-> data, msb |-> msb, lsb |-> lsb], BytesRead(w, data, msb, lsb))
      PROVE  BitsBelong(call')
  <2> DEFINE out == BytesRead(w, data, msb, lsb)
             x == [w |-> w, data |-> data, msb |-> msb, lsb |-> lsb]
  <2>1. length \in Nat /\ msb \in 0 .. length - 1 /\ lsb \in 0 .. length - 1
    BY <1>3
  <2>2. Len(data) = length
    BY <1>3, <2>1
  <2>3. \A i \in 1 .. length : data[i] \subseteq Bits(U8)
    <3>1. U8 \in Nat \ {0}
      BY SizesOfUnits
    <3>2. \A i \in 1 .. length : i % U8 \in Bits(U8)
      BY <2>1, <3>1 DEF Bits
    <3>3. QED
      BY <1>3, <3>2
  <2>4. out.ok => out.out = Collected(w, data, msb, lsb)
    BY <2>1, <2>2, <2>3, ReadAreCollected, Zenon
  <2>5. x.w = w /\ x.data = data /\ x.msb = msb /\ x.lsb = lsb /\ "bytes" \in BitFamilies
    BY DEF BitFamilies
  <2>6. call' = [family |-> "bytes", f |-> "bytes", in |-> x, out |-> out]
    BY <1>3, Zenon DEF Called
  <2> HIDE DEF x, out
  <2>7. QED
    BY <2>4, <2>5, <2>6, OneFamily, Zenon
<1> DEFINE Ranges ==
    \E size \in {1, 2, 4, 8}, outputsize \in {1, 2, 4, 8}, msb, lsb \in 0 .. U64, signed \in BOOLEAN :
    \E v \in {Bits(size * U8), {i \in Bits(size * U8) : i % 3 = 0}} :
        Called("range", "bits", [w |-> size * U8, out |-> outputsize * U8, v |-> v, msb |-> msb, lsb |-> lsb],
               IF signed THEN get_bit_range_signed(size, v, outputsize, msb, lsb)
               ELSE get_bit_range_unsigned(size, v, outputsize, msb, lsb))
           Macros ==
    \E v \in Wide, msb \in Bits(U64) : \E lsb \in 0 .. msb, signed \in BOOLEAN :
        Called("range", "macro", [w |-> U64, out |-> U64, v |-> v, msb |-> msb, lsb |-> lsb],
               IF signed THEN M_IGETBITRANGE(v, msb, lsb) ELSE M_GETBITRANGE(v, msb, lsb))
           Data(length) == [i \in 1 .. length |-> IF i % 3 = 0 THEN Bits(U8) ELSE {i % U8}]
           Readers ==
    \E length \in 1 .. 5, msb, lsb \in 0 .. 4, w \in {U16, U32, U64} :
        msb < length /\ lsb < length
        /\ Called("bytes", "bytes", [w |-> w, data |-> Data(length), msb |-> msb, lsb |-> lsb],
                  BytesRead(w, Data(length), msb, lsb))
<1>4. Ranging => Ranges \/ Macros \/ Readers
  BY Zenon DEF Ranging, BytesRead
<1>5. ASSUME Ranges PROVE BitsBelong(call')
  <2>1. PICK size \in {1, 2, 4, 8}, outputsize \in {1, 2, 4, 8}, msb \in 0 .. U64, lsb \in 0 .. U64, signed \in BOOLEAN :
            \E v \in {Bits(size * U8), {i \in Bits(size * U8) : i % 3 = 0}} :
               Called("range", "bits", [w |-> size * U8, out |-> outputsize * U8, v |-> v, msb |-> msb, lsb |-> lsb],
                      IF signed THEN get_bit_range_signed(size, v, outputsize, msb, lsb)
                      ELSE get_bit_range_unsigned(size, v, outputsize, msb, lsb))
    BY <1>5, Zenon
  <2>2. PICK v \in {Bits(size * U8), {i \in Bits(size * U8) : i % 3 = 0}} :
               Called("range", "bits", [w |-> size * U8, out |-> outputsize * U8, v |-> v, msb |-> msb, lsb |-> lsb],
                      IF signed THEN get_bit_range_signed(size, v, outputsize, msb, lsb)
                      ELSE get_bit_range_unsigned(size, v, outputsize, msb, lsb))
    BY <2>1, Zenon
  <2> DEFINE out == IF signed THEN get_bit_range_signed(size, v, outputsize, msb, lsb)
                    ELSE get_bit_range_unsigned(size, v, outputsize, msb, lsb)
  <2>3. msb \in Nat /\ lsb \in Nat /\ outputsize \in Nat \ {0}
    OBVIOUS
  <2>4. v \subseteq Bits(size * U8)
    OBVIOUS
  <2>5. IntegerGiven(size, v, outputsize, msb, lsb)
    BY <2>3, <2>4, RangeOfInteger, Zenon
  <2>6. out = RangeOf(size * U8, outputsize * U8, v, msb, lsb)
    BY <2>5, Zenon DEF IntegerGiven, get_bit_range_signed, get_bit_range_unsigned
  <2>7. Called("range", "bits", [w |-> size * U8, out |-> outputsize * U8, v |-> v, msb |-> msb, lsb |-> lsb], out)
    BY <2>2, Zenon
  <2> HIDE DEF out
  <2>8. QED
    BY <1>1, <2>6, <2>7, Zenon
<1>6. Macros => BitsBelong(call')
  BY <1>2, Zenon
<1>7. Readers => BitsBelong(call')
  <2>1. \A length : Data(length) = [i \in 1 .. length |-> IF i % 3 = 0 THEN Bits(U8) ELSE {i % U8}]
    OBVIOUS
  <2> HIDE DEF Data
  <2>2. QED
    BY <1>3, <2>1, Zenon
<1> HIDE DEF Ranges, Macros, Readers
<1>8. QED
  BY <1>4, <1>5, <1>6, <1>7, Zenon

\* Every operation on bits gives what the places of the ones say, for every
\* width of a byte, every value of every type and every count and range.
THEOREM BitsCorrect == BitSpec => []BitsAreWhereTheyBelong
<1>1. call = Idle => BitsBelong(call)
  <2>1. SUFFICES ASSUME call = Idle PROVE call.family \notin BitFamilies
    BY OthersBelong, Zenon
  <2>2. QED
    BY <2>1 DEF Idle, BitFamilies
<1>2. BitsBelong(call) /\ [BitStep \/ OtherThan(BitFamilies)]_call => BitsBelong(call')
  <2> SUFFICES ASSUME BitsBelong(call), [BitStep \/ OtherThan(BitFamilies)]_call
               PROVE  BitsBelong(call')
    OBVIOUS
  <2>1. CASE Querying
    BY <2>1, QueryingIsCorrect, Zenon
  <2>2. CASE Rotating
    BY <2>2, RotatingIsCorrect, Zenon
  <2>3. CASE Swapping
    BY <2>3, SwappingIsCorrect, Zenon
  <2>4. CASE Ranging
    BY <2>4, RangingIsCorrect, Zenon
  <2>5. CASE OtherThan(BitFamilies)
    BY <2>5, OthersBelong, Zenon DEF OtherThan
  <2>6. CASE UNCHANGED call
    BY <2>6, Zenon
  <2>7. QED
    BY <2>1, <2>2, <2>3, <2>4, <2>5, <2>6, Zenon DEF BitStep
<1>3. BitsBelong(call) => BitsAreWhereTheyBelong
  BY BelongingIsTheProperty, Zenon
<1>4. BitsBelong(call)' <=> BitsBelong(call')
  BY Zenon DEF BitsBelong, QueryBelongs, MoveBelongs, SwapBelongs, PartsBelong, OrderBelongs, RangeBelongs, BytesBelong
<1>5. QED
  BY <1>1, <1>2, <1>3, <1>4, PTL DEF BitSpec

-----------------------------------------------------------------------------
(* Conversions: the largest unit                                           *)

LEMMA WorthsUpTo ==
    ASSUME NEW factor \in Nat \ {0}, NEW n \in Nat
    PROVE  \E f : f = [i \in 0 .. n |-> IF i = 0 THEN 1 ELSE factor * f[i - 1]]
<1> DEFINE Worth(f, k) == f = [i \in 0 .. k |-> IF i = 0 THEN 1 ELSE factor * f[i - 1]]
           Lost == {k \in 0 .. n : ~\E f : Worth(f, k)}
<1>1. SUFFICES ASSUME Lost # {} PROVE FALSE
  <2>1. n \in 0 .. n
    OBVIOUS
  <2>2. n \notin Lost => \E f : Worth(f, n)
    BY <2>1, Zenon
  <2>3. QED
    BY <2>2, Zenon
<1> DEFINE k == Min(Lost)
<1>2. k \in Lost /\ \A j \in Lost : k <= j
  <2>1. Lost \subseteq Nat
    OBVIOUS
  <2> HIDE DEF Lost
  <2>2. QED
    BY <1>1, <2>1, LeastNumber
<1> HIDE DEF k
<1>3. k # 0
  <2>1. Worth([i \in 0 .. 0 |-> 1], 0)
    OBVIOUS
  <2>2. QED
    BY <1>2, <2>1
<1>4. k - 1 \in 0 .. n /\ k \in Nat /\ k - 1 \notin Lost
  <2>1. k \in 0 .. n
    BY <1>2
  <2> HIDE DEF Lost
  <2>2. k - 1 \in 0 .. n /\ k \in Nat /\ ~(k <= k - 1)
    BY <1>3, <2>1
  <2>3. QED
    BY <1>2, <2>2
<1>5. PICK g : Worth(g, k - 1)
  BY <1>4
<1> DEFINE f == [i \in 0 .. k |-> IF i = k THEN factor * g[k - 1] ELSE g[i]]
<1>6. ASSUME NEW i \in 0 .. k PROVE f[i] = IF i = 0 THEN 1 ELSE factor * f[i - 1]
  <2>1. CASE i = k
    <3>1. f[i] = factor * g[k - 1] /\ f[i - 1] = g[k - 1] /\ i # 0
      BY <1>3, <1>4, <2>1
    <3> HIDE DEF f
    <3>2. QED
      BY <2>1, <3>1
  <2>2. CASE i # k
    <3>1. i \in 0 .. k - 1 /\ f[i] = g[i] /\ (i # 0 => i - 1 \in 0 .. k - 1 /\ f[i - 1] = g[i - 1])
      BY <1>4, <2>2
    <3>2. g[i] = IF i = 0 THEN 1 ELSE factor * g[i - 1]
      BY <1>5, <3>1
    <3> HIDE DEF f
    <3>3. QED
      BY <3>1, <3>2
  <2>3. QED
    BY <2>1, <2>2
<1>7. f = [i \in 0 .. k |-> f[i]]
  OBVIOUS
<1> HIDE DEF f
<1>8. Worth(f, k)
  BY <1>6, <1>7
<1>9. QED
  BY <1>2, <1>8

\* One of a larger unit is worth no less.
LEMMA WorthsGrow ==
    ASSUME NEW factor \in Nat \ {0}
    PROVE  /\ \A i \in 0 .. LAST_UNIT : Worths(factor)[i] \in Nat \ {0}
           /\ \A i, j \in 0 .. LAST_UNIT : i <= j => Worths(factor)[i] <= Worths(factor)[j]
<1> DEFINE n == LAST_UNIT
           w == Worths(factor)
<1>1. n \in Nat
  BY TypeConversionAssumption
<1>2. w = [i \in 0 .. n |-> IF i = 0 THEN 1 ELSE factor * w[i - 1]]
  <2>1. \E f : f = [i \in 0 .. n |-> IF i = 0 THEN 1 ELSE factor * f[i - 1]]
    BY <1>1, WorthsUpTo
  <2>2. QED
    BY <2>1, Zenon DEF Worths
<1> HIDE DEF w
<1>3. w[0] = 1 /\ \A i \in 1 .. n : w[i] = factor * w[i - 1]
  <2>1. \A i \in 0 .. n : w[i] = IF i = 0 THEN 1 ELSE factor * w[i - 1]
    BY <1>2
  <2>2. QED
    BY <1>1, <2>1
<1>4. \A i \in 0 .. n : w[i] \in Nat \ {0}
  <2> DEFINE Bad == {i \in 0 .. n : w[i] \notin Nat \ {0}}
  <2>1. SUFFICES ASSUME Bad # {} PROVE FALSE
    OBVIOUS
  <2> DEFINE k == Min(Bad)
  <2>2. k \in Bad /\ \A j \in Bad : k <= j
    <3>1. Bad \subseteq Nat
      OBVIOUS
    <3> HIDE DEF Bad
    <3>2. QED
      BY <2>1, <3>1, LeastNumber
  <2> HIDE DEF k
  <2>3. k \in 1 .. n /\ k - 1 \in 0 .. n /\ k - 1 \notin Bad
    <3>1. k \in 0 .. n /\ k # 0
      BY <1>3, <2>2
    <3> HIDE DEF Bad
    <3>2. k \in 1 .. n /\ k - 1 \in 0 .. n /\ ~(k <= k - 1)
      BY <1>1, <3>1
    <3>3. QED
      BY <2>2, <3>2
  <2>4. w[k - 1] \in Nat \ {0} /\ w[k] = factor * w[k - 1]
    BY <1>3, <2>3
  <2>5. \A a, b \in Nat \ {0} : a * b \in Nat \ {0}
    OBVIOUS
  <2>6. w[k] \in Nat \ {0}
    BY <2>4, <2>5
  <2>7. QED
    BY <2>2, <2>6
<1>5. ASSUME NEW i \in 1 .. n PROVE w[i - 1] <= w[i]
  <2>1. \A a, b \in Nat \ {0} : b <= a * b
    OBVIOUS
  <2>2. w[i - 1] \in Nat \ {0} /\ w[i] = factor * w[i - 1]
    <3>1. i - 1 \in 0 .. n
      BY <1>1
    <3>2. QED
      BY <1>3, <1>4, <3>1
  <2>3. QED
    BY <2>1, <2>2
<1>6. ASSUME NEW i \in 0 .. n, NEW j \in 0 .. n, i <= j PROVE w[i] <= w[j]
  <2> DEFINE Below == {m \in i .. n : w[m] < w[i]}
  <2>1. SUFFICES ASSUME Below # {} PROVE FALSE
    <3>1. j \in i .. n /\ w[i] \in Nat /\ w[j] \in Nat
      BY <1>1, <1>4, <1>6
    <3>2. j \notin Below => w[i] <= w[j]
      BY <3>1
    <3>3. QED
      BY <3>2
  <2> DEFINE k == Min(Below)
  <2>2. k \in Below /\ \A m \in Below : k <= m
    <3>1. Below \subseteq Nat
      OBVIOUS
    <3> HIDE DEF Below
    <3>2. QED
      BY <2>1, <3>1, LeastNumber
  <2> HIDE DEF k
  <2>3. k # i
    BY <1>4, <2>2
  <2>4. k - 1 \in i .. n /\ k \in 1 .. n /\ k - 1 \in 0 .. n /\ k - 1 \notin Below
    BY <1>1, <2>2, <2>3
  <2>5. w[k - 1] <= w[k] /\ w[i] <= w[k - 1]
    BY <1>4, <1>5, <2>4
  <2>6. w[i] \in Nat /\ w[k] \in Nat /\ w[k - 1] \in Nat
    BY <1>4, <2>4
  <2>7. QED
    BY <2>2, <2>5, <2>6
<1>7. QED
  BY <1>4, <1>6 DEF w

\* The value is divided until the next unit is one it does not reach.
LEMMA LargestUnitReached ==
    ASSUME NEW factor \in Nat \ {0}, NEW value \in Nat
    PROVE  Divisions(value, factor) = Max({n \in 0 .. LAST_UNIT : n = 0 \/ value >= Worths(factor)[n]})
<1> DEFINE w == Worths(factor)
           smaller == {n \in 0 .. LAST_UNIT : n = LAST_UNIT \/ value < w[n + 1]}
           reached == {n \in 0 .. LAST_UNIT : n = 0 \/ value >= w[n]}
           m == Min(smaller)
<1>1. LAST_UNIT \in Nat
  BY TypeConversionAssumption
<1>2. /\ \A i \in 0 .. LAST_UNIT : w[i] \in Nat \ {0}
      /\ \A i, j \in 0 .. LAST_UNIT : i <= j => w[i] <= w[j]
  BY WorthsGrow, Zenon
<1>3. Divisions(value, factor) = m
  BY Zenon DEF Divisions
<1> HIDE DEF w
<1>4. m \in smaller /\ \A n \in smaller : m <= n
  <2>1. LAST_UNIT \in smaller /\ smaller \subseteq Nat
    BY <1>1
  <2> HIDE DEF smaller
  <2>2. QED
    BY <2>1, LeastNumber
<1> HIDE DEF m
<1>5. m \in reached
  <2>1. CASE m = 0
    BY <1>1, <2>1
  <2>2. CASE m # 0
    <3>1. m - 1 \in 0 .. LAST_UNIT /\ m - 1 \notin smaller /\ m \in 0 .. LAST_UNIT /\ (m - 1) + 1 = m
      BY <1>1, <1>4, <2>2
    <3>2. ~(value < w[m]) /\ w[m] \in Nat
      BY <1>2, <3>1
    <3>3. QED
      BY <3>1, <3>2
  <2>3. QED
    BY <2>1, <2>2
<1>6. ASSUME NEW n \in reached PROVE n <= m
  <2>1. SUFFICES ASSUME m < n PROVE FALSE
    BY <1>4
  <2>2. n \in 0 .. LAST_UNIT /\ m \in 0 .. LAST_UNIT /\ m + 1 \in 0 .. LAST_UNIT /\ m # LAST_UNIT /\ m + 1 <= n /\ n # 0
    BY <1>1, <1>4, <2>1
  <2>3. value < w[m + 1] /\ w[m + 1] <= w[n] /\ value >= w[n]
    BY <1>2, <1>4, <2>2
  <2>4. w[m + 1] \in Nat /\ w[n] \in Nat
    BY <1>2, <2>2
  <2>5. QED
    BY <2>3, <2>4
<1>7. Max(reached) = m
  <2>1. reached \subseteq Int
    OBVIOUS
  <2> HIDE DEF reached
  <2>2. QED
    BY <1>5, <1>6, <2>1, MaxIs
<1>8. QED
  BY <1>3, <1>7, Zenon DEF w

-----------------------------------------------------------------------------
(* Conversions: temperatures                                               *)

\* A value of 16 bits is not changed by a cast to them.
LEMMA Int16Keeps ==
    ASSUME NEW x \in Int, x >= 0 - 32768, x <= 32767
    PROVE  Int16(x) = x
<1>1. x + 32768 \in Int /\ x + 32768 >= 0 /\ x + 32768 < 65536
  OBVIOUS
<1>2. \A y \in Int : y >= 0 /\ y < 65536 => y % 65536 = y
  OBVIOUS
<1>3. (x + 32768) % 65536 = x + 32768
  BY <1>1, <1>2
<1>4. QED
  BY <1>3 DEF Int16

\* What is left of t after q times b has the sign of t.
Truncation(t, b, q, r) ==
    /\ q \in Int /\ r \in Int /\ t = q * b + r
    /\ t >= 0 => r \in 0 .. b - 1
    /\ t <= 0 => r \in 0 - (b - 1) .. 0

LEMMA DivisionTruncates ==
    ASSUME NEW t \in Int, NEW b \in Nat \ {0}
    PROVE  Truncation(t, b, CDiv(t, b), CRem(t, b))
BY Truncated DEF Truncation

\* A nudge is by one, and only where the remainder asks for it.
LEMMA NudgedByOne ==
    ASSUME NEW q \in Int, NEW r \in Int, NEW up \in Nat \ {0}, NEW towards \in Int
    PROVE  \/ Nudged(q, r, up, towards) = q + 1 /\ r >= up /\ towards >= 0
           \/ Nudged(q, r, up, towards) = q - 1 /\ r <= 0 - up /\ towards < 0
           \/ Nudged(q, r, up, towards) = q /\ (r >= up => towards < 0) /\ (r <= 0 - up => towards >= 0)
BY DEF Nudged

\* To the nearest degree.
LEMMA CelsiusInFahrenheit ==
    ASSUME NEW c \in Int, c >= 0 - 273, 9 * c <= 5 * (32767 - 32)
    PROVE  LET f == celsius_To_Fahrenheit(c)
           IN f.errno = 0 /\ f.value \in Int /\ f.value >= 0 - 459 /\ 2 * (9 * c - 5 * (f.value - 32)) \in 0 - 5 .. 5
<1> DEFINE t == c * 9
           q == CDiv(t, 5)
           r == CRem(t, 5)
           g == Nudged(q, r, 3, q)
<1>1. t \in Int /\ t = 9 * c /\ t >= 0 - 2457 /\ t <= 163675 /\ (t < 0 => t <= 0 - 9)
  OBVIOUS
<1> HIDE DEF t
<1>2. Truncation(t, 5, q, r)
  <2>1. t \in Int /\ 5 \in Nat \ {0}
    BY <1>1
  <2>2. QED
    BY <2>1, DivisionTruncates
<1> HIDE DEF q, r
<1>3. /\ q \in Int /\ r \in Int /\ t = q * 5 + r
      /\ t >= 0 => r \in 0 .. 4
      /\ t <= 0 => r \in 0 - 4 .. 0
  BY <1>2 DEF Truncation
<1>4. (t >= 0 => q >= 0) /\ (t < 0 => q < 0) /\ q >= 0 - 491 /\ q <= 32735
  BY <1>1, <1>3
<1>5. (g = q + 1 /\ r >= 3) \/ (g = q - 1 /\ r <= 0 - 3) \/ (g = q /\ r > 0 - 3 /\ r < 3)
  <2>1. \/ g = q + 1 /\ r >= 3 /\ q >= 0
        \/ g = q - 1 /\ r <= 0 - 3 /\ q < 0
        \/ g = q /\ (r >= 3 => q < 0) /\ (r <= 0 - 3 => q >= 0)
    BY <1>3, NudgedByOne
  <2> HIDE DEF g
  <2>2. QED
    BY <1>1, <1>3, <1>4, <2>1
<1> HIDE DEF g
<1>6. g \in Int /\ 2 * (t - 5 * g) \in 0 - 5 .. 5 /\ g >= 0 - 491 /\ g <= 32735
  BY <1>1, <1>3, <1>4, <1>5
<1>7. Int16(q) = q /\ Int16(g + 32) = g + 32
  <2>1. q >= 0 - 32768 /\ q <= 32767 /\ g + 32 \in Int /\ g + 32 >= 0 - 32768 /\ g + 32 <= 32767
    BY <1>3, <1>4, <1>6
  <2>2. QED
    BY <1>3, <2>1, Int16Keeps
<1>8. celsius_To_Fahrenheit(c) = Answer(0, g + 32)
  BY <1>7 DEF celsius_To_Fahrenheit, g, q, r, t
<1>9. (g + 32) - 32 = g /\ g + 32 \in Int /\ g + 32 >= 0 - 459
  BY <1>6
<1>10. QED
  BY <1>1, <1>6, <1>8, <1>9 DEF Answer

LEMMA FahrenheitInCelsius ==
    ASSUME NEW f \in Int, f >= 0 - 459, f <= 32767
    PROVE  LET c == fahrenheit_To_celsius(f)
           IN c.errno = 0 /\ c.value \in Int /\ c.value >= 0 - 273 /\ c.value <= 18190
              /\ 5 * (f - 32) - 9 * c.value \in 0 - 8 .. 8
<1> DEFINE t == (f - 32) * 5
           q == CDiv(t, 9)
           r == CRem(t, 9)
           g == Nudged(q, r, 2, q)
<1>1. t \in Int /\ t = 5 * (f - 32) /\ t >= 0 - 2455 /\ t <= 163675
  OBVIOUS
<1> HIDE DEF t
<1>2. Truncation(t, 9, q, r)
  <2>1. t \in Int /\ 9 \in Nat \ {0}
    BY <1>1
  <2>2. QED
    BY <2>1, DivisionTruncates
<1> HIDE DEF q, r
<1>3. /\ q \in Int /\ r \in Int /\ t = q * 9 + r
      /\ t >= 0 => r \in 0 .. 8
      /\ t <= 0 => r \in 0 - 8 .. 0
  BY <1>2 DEF Truncation
<1>4. q >= 0 - 272 /\ q <= 18186
  BY <1>1, <1>3
<1>5. (g = q + 1 /\ r >= 2) \/ (g = q - 1 /\ r <= 0 - 2) \/ g = q
  BY <1>3, NudgedByOne
<1> HIDE DEF g
<1>6. g \in Int /\ t - 9 * g \in 0 - 8 .. 8 /\ g >= 0 - 273 /\ g <= 18190
  BY <1>1, <1>3, <1>4, <1>5
<1>7. Int16(q) = q
  <2>1. q >= 0 - 32768 /\ q <= 32767
    BY <1>3, <1>4
  <2>2. QED
    BY <1>3, <2>1, Int16Keeps
<1>8. fahrenheit_To_celsius(f) = Answer(0, g)
  BY <1>7 DEF fahrenheit_To_celsius, g, q, r, t
<1>9. QED
  BY <1>1, <1>6, <1>8 DEF Answer

LEMMA FahrenheitInKelvin ==
    ASSUME NEW f \in Int, f >= 0 - 459, f <= 32767
    PROVE  LET k == fahrenheit_To_Kelvin(f)
           IN k.errno = 0 /\ k.value \in Nat /\ 5 * (f - 32) - 9 * (k.value - 273) \in 0 - 8 .. 8
<1> DEFINE c == fahrenheit_To_celsius(f).value
<1>1. c \in Int /\ c >= 0 - 273 /\ c <= 18190 /\ 5 * (f - 32) - 9 * c \in 0 - 8 .. 8
  BY FahrenheitInCelsius
<1> HIDE DEF c
<1>2. Int16(c + 273) = c + 273
  <2>1. c + 273 \in Int /\ c + 273 >= 0 - 32768 /\ c + 273 <= 32767
    BY <1>1
  <2>2. QED
    BY <2>1, Int16Keeps
<1>3. fahrenheit_To_Kelvin(f) = Answer(0, c + 273)
  BY <1>2 DEF fahrenheit_To_Kelvin, c
<1>4. (c + 273) - 273 = c /\ c + 273 \in Nat
  BY <1>1
<1>5. QED
  BY <1>1, <1>3, <1>4 DEF Answer

LEMMA CelsiusInKelvin ==
    ASSUME NEW c \in Int, c >= 0 - 273, c <= 32767 - 273
    PROVE  LET k == celsius_To_Kelvin(c) IN k.errno = 0 /\ k.value = c + 273
<1>1. c + 273 \in Int /\ c + 273 >= 0 - 32768 /\ c + 273 <= 32767
  OBVIOUS
<1>2. Int16(c + 273) = c + 273
  BY <1>1, Int16Keeps
<1>3. celsius_To_Kelvin(c) = Answer(0, c + 273)
  BY <1>2 DEF celsius_To_Kelvin
<1>4. QED
  BY <1>3 DEF Answer

\* The direction of the nudge is that of a number that the 32 are part of.
LEMMA KelvinInFahrenheit ==
    ASSUME NEW k \in Nat, 9 * (k - 273) <= 5 * (32767 - 32)
    PROVE  LET f == kelvin_To_Fahrenheit(k)
           IN f.errno = 0 /\ f.value \in Int /\ f.value >= 0 - 459
              /\ 9 * (k - 273) - 5 * (f.value - 32) \in 0 - 4 .. 4
<1> DEFINE t == (k - 273) * 9
           q == CDiv(t, 5)
           r == CRem(t, 5)
           g == Nudged(q + 32, r, 3, q + 32)
<1>1. t \in Int /\ t = 9 * (k - 273) /\ (t = 0 - 2457 \/ t >= 0 - 2448) /\ t <= 163675
  OBVIOUS
<1> HIDE DEF t
<1>2. Truncation(t, 5, q, r)
  <2>1. t \in Int /\ 5 \in Nat \ {0}
    BY <1>1
  <2>2. QED
    BY <2>1, DivisionTruncates
<1> HIDE DEF q, r
<1>3. /\ q \in Int /\ r \in Int /\ t = q * 5 + r
      /\ t >= 0 => r \in 0 .. 4
      /\ t <= 0 => r \in 0 - 4 .. 0
  BY <1>2 DEF Truncation
<1>4. q <= 32735 /\ ((q = 0 - 491 /\ r = 0 - 2) \/ q >= 0 - 490)
  <2>1. CASE t = 0 - 2457
    BY <1>1, <1>3, <2>1
  <2>2. CASE t >= 0 - 2448
    BY <1>1, <1>3, <2>2
  <2>3. QED
    BY <1>1, <2>1, <2>2
<1>5. (g = (q + 32) + 1 /\ r >= 3) \/ (g = (q + 32) - 1 /\ r <= 0 - 3) \/ g = q + 32
  <2>1. q + 32 \in Int /\ 3 \in Nat \ {0}
    BY <1>3
  <2> DEFINE p == q + 32
  <2> HIDE DEF p
  <2>2. \/ Nudged(p, r, 3, p) = p + 1 /\ r >= 3 /\ p >= 0
        \/ Nudged(p, r, 3, p) = p - 1 /\ r <= 0 - 3 /\ p < 0
        \/ Nudged(p, r, 3, p) = p /\ (r >= 3 => p < 0) /\ (r <= 0 - 3 => p >= 0)
    <3>1. p \in Int /\ r \in Int
      BY <1>3, <2>1 DEF p
    <3>2. QED
      BY <2>1, <3>1, NudgedByOne
  <2>3. (g = p + 1 /\ r >= 3) \/ (g = p - 1 /\ r <= 0 - 3) \/ g = p
    BY <2>2 DEF p
  <2> HIDE DEF g
  <2>4. QED
    BY <2>3 DEF p
<1> HIDE DEF g
<1>6. g \in Int /\ t - 5 * (g - 32) \in 0 - 4 .. 4 /\ g >= 0 - 459
  BY <1>1, <1>3, <1>4, <1>5
<1>7. Int16(q + 32) = q + 32
  <2>1. q + 32 \in Int /\ q + 32 >= 0 - 32768 /\ q + 32 <= 32767
    BY <1>3, <1>4
  <2>2. QED
    BY <2>1, Int16Keeps
<1>8. kelvin_To_Fahrenheit(k) = Answer(0, g)
  BY <1>7 DEF kelvin_To_Fahrenheit, g, q, r, t
<1>9. QED
  BY <1>1, <1>6, <1>8 DEF Answer

LEMMA KelvinInCelsius ==
    ASSUME NEW k \in Nat
    PROVE  LET c == kelvin_To_Celsius(k) IN c.errno = 0 /\ c.value = k - 273
BY DEF kelvin_To_Celsius, Answer

-----------------------------------------------------------------------------
(* Conversions: the calls                                                  *)

NearestSize(v, out) ==
    LET near == IF v < 0 THEN 0 ELSE IF v > SizeMax THEN SizeMax ELSE v
    IN /\ out.value = near /\ out.errno = IF near = v THEN 0 ELSE ERANGE
       /\ out.max = (v = SizeMax)

FromDigits(d, out) == out = d[1] + 256 * (d[2] + 256 * d[3])

ExactFloat(x, out) == out.fraction \in 2 ^ 23 .. (2 ^ 24) - 1 /\ out.exponent = x.e - 150

NearDegrees(from, to, d, out) ==
    LET exact == NinthsAboveFreezing(from, d)
        given == NinthsAboveFreezing(to, out.value)
        unit  == NinthsAboveFreezing(to, 1) - NinthsAboveFreezing(to, 0)
    IN IF d < AbsoluteZero(from) THEN out.errno = ERANGE
       ELSE exact <= NinthsAboveFreezing(to, INT16_MAX) =>
            /\ out.errno = 0 /\ out.value >= AbsoluteZero(to)
            /\ exact - given \in (1 - unit) .. (unit - 1)
            /\ from = "celsius" /\ to = "fahrenheit" => 2 * (exact - given) \in (0 - unit) .. unit

Largest(value, factor) == Max({n \in 0 .. LAST_UNIT : n = 0 \/ value >= Worths(factor)[n]})

SizeSame(c)    == c.family = "size" => NearestSize(c.in.v, c.out)
DoubleSame(c)  == c.family = "double" => c.out = c.in.data[1] + 256 * (c.in.data[2] + 256 * c.in.data[3])
FloatSame(c)   == c.family = "float" => ExactFloat(c.in, c.out)
DegreesSame(c) == c.family = "degrees" => NearDegrees(c.in.from, c.in.to, c.in.d, c.out)
UnitSame(c)    == c.family = "unit" /\ ~c.in.null => c.out.unit = Largest(c.in.value, c.in.factor)

ConversionSame(c) == SizeSame(c) /\ DoubleSame(c) /\ FloatSame(c) /\ DegreesSame(c) /\ UnitSame(c)

LEMMA SameIsTheProperty ==
    /\ ConversionSame(call) => ConvertedValueIsTheSame
    /\ ConversionSame(call') => ConvertedValueIsTheSame'
<1>1. ConversionSame(call) => ConvertedValueIsTheSame
  BY Zenon DEF ConversionSame, ConvertedValueIsTheSame, Is, SizeSame, DoubleSame, FloatSame, DegreesSame, UnitSame,
               NearestSize, ExactFloat, NearDegrees, Largest
<1>2. ConversionSame(call') => ConvertedValueIsTheSame'
  BY Zenon DEF ConversionSame, ConvertedValueIsTheSame, Is, SizeSame, DoubleSame, FloatSame, DegreesSame, UnitSame,
               NearestSize, ExactFloat, NearDegrees, Largest
<1>3. QED
  BY <1>1, <1>2, Zenon

LEMMA OthersSame ==
    ASSUME NEW c, c.family \notin ConversionFamilies
    PROVE  ConversionSame(c)
<1>1. /\ ~(c.family = "size") /\ ~(c.family = "double") /\ ~(c.family = "float") /\ ~(c.family = "degrees")
      /\ ~(c.family = "unit")
  BY DEF ConversionFamilies
<1>2. QED
  BY <1>1, Zenon DEF ConversionSame, SizeSame, DoubleSame, FloatSame, DegreesSame, UnitSame

\* A call is right when it is what its own family asks for.
LEMMA OneConversion ==
    ASSUME NEW fam, NEW f, NEW x, NEW out, NEW c, c = [family |-> fam, f |-> f, in |-> x, out |-> out],
           \/ fam = "size" /\ NearestSize(x.v, out)
           \/ fam = "double" /\ out = x.data[1] + 256 * (x.data[2] + 256 * x.data[3])
           \/ fam = "float" /\ ExactFloat(x, out)
           \/ fam = "degrees" /\ NearDegrees(x.from, x.to, x.d, out)
           \/ fam = "unit" /\ (x.null \/ out.unit = Largest(x.value, x.factor))
    PROVE  ConversionSame(c)
<1>1. c.family = fam /\ c.in = x /\ c.out = out
  OBVIOUS
<1>2. /\ "size" # "double" /\ "size" # "float" /\ "size" # "degrees" /\ "size" # "unit" /\ "double" # "float"
      /\ "double" # "degrees" /\ "double" # "unit" /\ "float" # "degrees" /\ "float" # "unit" /\ "degrees" # "unit"
  OBVIOUS
<1>3. QED
  BY <1>1, <1>2, Zenon DEF ConversionSame, SizeSame, DoubleSame, FloatSame, DegreesSame, UnitSame

\* size_t holds the numbers up to the largest one.
LEMMA SizeHolds == SizeMax \in Nat
<1>1. SIZE_WIDTH \in Nat
  BY SizesOfUnits, TypeConversionAssumption
<1>2. 2 ^ SIZE_WIDTH \in Nat \ {0}
  BY <1>1, PowerIsPositive
<1>3. QED
  BY <1>2 DEF SizeMax

LEMMA NearestAnswered ==
    ASSUME NEW type, NEW v \in Int
    PROVE  NearestSize(v, Sized(v, ToSize(type, v)))
BY SizeHolds DEF NearestSize, Sized, ToSize, Answer, is_size_t_max, ERANGE

\* All the functions are the same one: a type tells only what they are given.
LEMMA AllNarrow ==
    ASSUME NEW f \in SizeFunctions, NEW v
    PROVE  SizeOut(f, v) = ToSize(0, v)
<1>1. \A type : ToSize(type, v) = ToSize(0, v)
  BY Zenon DEF ToSize
<1> DEFINE s == ToSize(0, v)
<1>2. /\ int8_to_sizet(v) = s /\ uint8_to_sizet(v) = s /\ int16_to_sizet(v) = s /\ uint16_to_sizet(v) = s
      /\ int32_to_sizet(v) = s /\ uint32_to_sizet(v) = s /\ int64_to_sizet(v) = s /\ uint64_to_sizet(v) = s
      /\ char_to_sizet(v) = s /\ schar_to_sizet(v) = s /\ uchar_to_sizet(v) = s /\ short_to_sizet(v) = s
      /\ ushort_to_sizet(v) = s /\ int_to_sizet(v) = s /\ uint_to_sizet(v) = s /\ long_to_sizet(v) = s
      /\ ulong_to_sizet(v) = s /\ longlong_to_sizet(v) = s /\ ulonglong_to_sizet(v) = s
  BY <1>1, Zenon DEF int8_to_sizet, uint8_to_sizet, int16_to_sizet, uint16_to_sizet, int32_to_sizet, uint32_to_sizet,
        int64_to_sizet, uint64_to_sizet, char_to_sizet, schar_to_sizet, uchar_to_sizet, short_to_sizet, ushort_to_sizet,
        int_to_sizet, uint_to_sizet, long_to_sizet, ulong_to_sizet, longlong_to_sizet, ulonglong_to_sizet
<1> HIDE DEF s
<1>3. \/ f = "int8" \/ f = "uint8" \/ f = "int16" \/ f = "uint16" \/ f = "int32" \/ f = "uint32" \/ f = "int64"
      \/ f = "uint64" \/ f = "char" \/ f = "schar" \/ f = "uchar" \/ f = "short" \/ f = "ushort" \/ f = "int"
      \/ f = "uint" \/ f = "long" \/ f = "ulong" \/ f = "longlong" \/ f = "ulonglong"
  BY DEF SizeFunctions
<1>4. SizeOut(f, v) = s
  BY <1>2, <1>3, Zenon DEF SizeOut
<1>5. QED
  BY <1>4 DEF s

\* The bytes are digits to the base 256, the last one the first.
LEMMA BytesAreDigits ==
    ASSUME NEW d \in [1 .. 3 -> {0, 1, 255}]
    PROVE  FromDigits(d, convert_128bit_to_double(d))
<1>1. Len(d) = 3 /\ d[1] \in Nat /\ d[2] \in Nat /\ d[3] \in Nat
  <2>1. d = [i \in 1 .. 3 |-> d[i]]
    OBVIOUS
  <2>2. d \in Seq({0, 1, 255}) /\ DOMAIN d = 1 .. 3
    BY <2>1
  <2>3. Len(d) = 3
    BY <2>2
  <2>4. QED
    BY <2>3
<1> DEFINE Sums(g) == g = [i \in 0 .. Len(d) |-> IF i = 0 THEN 0 ELSE g[i - 1] * 256 + d[Len(d) - i + 1]]
           first == [i \in 0 .. 3 |-> IF i = 0 THEN 0 ELSE IF i = 1 THEN d[3] ELSE IF i = 2 THEN d[3] * 256 + d[2]
                                      ELSE (d[3] * 256 + d[2]) * 256 + d[1]]
           sum == CHOOSE g : Sums(g)
<1>2. Sums(first)
  <2>1. first[0] = 0 /\ first[1] = d[3] /\ first[2] = d[3] * 256 + d[2] /\ first[3] = (d[3] * 256 + d[2]) * 256 + d[1]
    OBVIOUS
  <2>2. first = [i \in 0 .. 3 |-> first[i]]
    OBVIOUS
  <2> HIDE DEF first
  <2>3. ASSUME NEW i \in 0 .. 3
        PROVE  first[i] = IF i = 0 THEN 0 ELSE first[i - 1] * 256 + d[3 - i + 1]
    <3>1. CASE i = 0
      BY <2>1, <3>1
    <3>2. CASE i = 1
      <4>1. i - 1 = 0 /\ 3 - i + 1 = 3
        BY <3>2
      <4>2. QED
        BY <1>1, <2>1, <3>2, <4>1
    <3>3. CASE i = 2
      <4>1. i - 1 = 1 /\ 3 - i + 1 = 2
        BY <3>3
      <4>2. QED
        BY <2>1, <3>3, <4>1
    <3>4. CASE i = 3
      <4>1. i - 1 = 2 /\ 3 - i + 1 = 1
        BY <3>4
      <4>2. QED
        BY <2>1, <3>4, <4>1
    <3>5. QED
      BY <3>1, <3>2, <3>3, <3>4
  <2>4. QED
    BY <1>1, <2>2, <2>3
<1>3. Sums(sum)
  <2> HIDE DEF Sums
  <2>1. QED
    BY <1>2, Zenon
<1>4. convert_128bit_to_double(d) = sum[Len(d)]
  BY Zenon DEF convert_128bit_to_double
<1> HIDE DEF sum, first
<1>5. sum[0] = 0 /\ \A i \in 1 .. 3 : sum[i] = sum[i - 1] * 256 + d[3 - i + 1]
  BY <1>1, <1>3
<1>6. sum[1] = d[3] /\ sum[2] = d[3] * 256 + d[2] /\ sum[3] = (d[3] * 256 + d[2]) * 256 + d[1]
  BY <1>1, <1>5
<1>7. convert_128bit_to_double(d) = d[1] + 256 * (d[2] + 256 * d[3])
  BY <1>1, <1>4, <1>6
<1>8. QED
  BY <1>7 DEF FromDigits

LEMMA FloatIsExact ==
    ASSUME NEW negative, NEW e \in Nat, NEW m \in {0, 1, (2 ^ 23) - 1}, NEW x, x.e = e
    PROVE  ExactFloat(x, get_Decimal_From_4_byte_Float(negative, e, m))
<1> DEFINE p == 2 ^ 23
           q == 2 ^ 24
           h == 2 ^ 22
<1>1. h \in Nat \ {0}
  BY PowerIsPositive
<1>2. p = 2 * h
  <2>1. 22 + 1 = 23 /\ 22 \in Nat
    OBVIOUS
  <2>2. 2 ^ (22 + 1) = 2 * 2 ^ 22
    BY <2>1, PowerDoubles
  <2>3. QED
    BY <2>1, <2>2
<1>3. q = 2 * p
  <2>1. 23 + 1 = 24 /\ 23 \in Nat
    OBVIOUS
  <2>2. 2 ^ (23 + 1) = 2 * 2 ^ 23
    BY <2>1, PowerDoubles
  <2>3. QED
    BY <2>1, <2>2
<1>4. get_Decimal_From_4_byte_Float(negative, e, m)
        = [sign |-> IF negative THEN 0 - 1 ELSE 1, fraction |-> p + m, exponent |-> e - 127 - 23]
  BY Zenon DEF get_Decimal_From_4_byte_Float
<1>5. m \in {0, 1, p - 1}
  OBVIOUS
<1> HIDE DEF p, q, h
<1>6. p + m \in p .. q - 1
  BY <1>1, <1>2, <1>3, <1>5
<1>7. QED
  BY <1>4, <1>6 DEF p, q, ExactFloat

LEMMA ConvertingIsCorrect == Converting => ConversionSame(call')
<1>1. ASSUME NEW f, NEW x, NEW out,
             \/ Called("size", f, x, out) /\ NearestSize(x.v, out)
             \/ Called("double", f, x, out) /\ FromDigits(x.data, out)
             \/ Called("float", f, x, out) /\ ExactFloat(x, out)
      PROVE  ConversionSame(call')
  BY <1>1, OneConversion, Zenon DEF Called, FromDigits
<1>2. ASSUME NEW f \in SizeFunctions, NEW v \in Tried(TypeNamed(f)),
             Called("size", f, [v |-> v], Sized(v, SizeOut(f, v)))
      PROVE  ConversionSame(call')
  <2> DEFINE x == [v |-> v]
             out == Sized(v, SizeOut(f, v))
  <2>1. v \in Int
    BY DEF Tried, Values
  <2>2. x.v = v
    OBVIOUS
  <2>3. NearestSize(x.v, out)
    BY <2>1, <2>2, AllNarrow, NearestAnswered, Zenon
  <2> HIDE DEF x, out
  <2>4. QED
    BY <1>1, <1>2, <2>3, Zenon DEF x, out
<1>3. ASSUME NEW d \in [1 .. 3 -> {0, 1, 255}],
             Called("double", "128bit", [data |-> d], convert_128bit_to_double(d))
      PROVE  ConversionSame(call')
  <2> DEFINE x == [data |-> d]
             out == convert_128bit_to_double(d)
  <2>1. x.data = d
    OBVIOUS
  <2>2. FromDigits(x.data, out)
    BY <2>1, BytesAreDigits, Zenon
  <2> HIDE DEF x, out
  <2>3. QED
    BY <1>1, <1>3, <2>2, Zenon DEF x, out
<1> DEFINE Exponents == {0, 1, 127, 254, 255}
           Mantissas == {0, 1, (2 ^ 23) - 1}
           Float(negative, e, m) ==
               Called("float", "4 byte", [negative |-> negative, e |-> e, m |-> m],
                      get_Decimal_From_4_byte_Float(negative, e, m))
<1>4. ASSUME NEW negative \in BOOLEAN, NEW e \in Exponents, NEW m \in Mantissas, Float(negative, e, m)
      PROVE  ConversionSame(call')
  <2> DEFINE x == [negative |-> negative, e |-> e, m |-> m]
             out == get_Decimal_From_4_byte_Float(negative, e, m)
  <2>1. x.e = e
    OBVIOUS
  <2>2. e \in Nat
    OBVIOUS
  <2> HIDE DEF x
  <2>3. ExactFloat(x, out)
    BY <2>1, <2>2, FloatIsExact
  <2>4. Called("float", "4 byte", x, out)
    BY <1>4 DEF x
  <2> HIDE DEF out, Exponents, Mantissas, Float
  <2>5. QED
    BY <1>1, <2>3, <2>4, Zenon
<1> DEFINE Sizes == \E f \in SizeFunctions : \E v \in Tried(TypeNamed(f)) :
               Called("size", f, [v |-> v], Sized(v, SizeOut(f, v)))
           Doubles == \E d \in [1 .. 3 -> {0, 1, 255}] :
               Called("double", "128bit", [data |-> d], convert_128bit_to_double(d))
           Floats == \E negative \in BOOLEAN, e \in Exponents, m \in Mantissas : Float(negative, e, m)
<1>5. Sizes => ConversionSame(call')
  BY <1>2, Zenon
<1>6. Doubles => ConversionSame(call')
  BY <1>3, Zenon
<1>7. Floats => ConversionSame(call')
  <2> HIDE DEF Exponents, Mantissas, Float
  <2>1. QED
    BY <1>4, Zenon
<1>8. Converting <=> Sizes \/ Doubles \/ Floats
  BY Zenon DEF Converting
<1> HIDE DEF Sizes, Doubles, Floats
<1>9. QED
  BY <1>5, <1>6, <1>7, <1>8, Zenon

-----------------------------------------------------------------------------
(* Conversions: the six pairs of scales                                    *)

LEMMA ScalesAre ==
    /\ "celsius" # "fahrenheit" /\ "celsius" # "kelvin" /\ "fahrenheit" # "kelvin"
    /\ \A d : /\ NinthsAboveFreezing("celsius", d) = 9 * d
              /\ NinthsAboveFreezing("kelvin", d) = 9 * (d - 273)
              /\ NinthsAboveFreezing("fahrenheit", d) = 5 * (d - 32)
    /\ AbsoluteZero("celsius") = 0 - 273 /\ AbsoluteZero("kelvin") = 0 /\ AbsoluteZero("fahrenheit") = 0 - 459
<1>1. "celsius" # "fahrenheit" /\ "celsius" # "kelvin" /\ "fahrenheit" # "kelvin"
  OBVIOUS
<1>2. QED
  BY <1>1, Zenon DEF NinthsAboveFreezing, AbsoluteZero

LEMMA DegreesAre ==
    ASSUME NEW d
    PROVE  /\ Degree("celsius", "fahrenheit", d) = celsius_To_Fahrenheit(d)
           /\ Degree("celsius", "kelvin", d) = celsius_To_Kelvin(d)
           /\ Degree("fahrenheit", "celsius", d) = fahrenheit_To_celsius(d)
           /\ Degree("fahrenheit", "kelvin", d) = fahrenheit_To_Kelvin(d)
           /\ Degree("kelvin", "celsius", d) = kelvin_To_Celsius(d)
           /\ Degree("kelvin", "fahrenheit", d) = kelvin_To_Fahrenheit(d)
<1>1. "celsius" # "fahrenheit" /\ "celsius" # "kelvin" /\ "fahrenheit" # "kelvin"
  OBVIOUS
<1>2. Degree("celsius", "fahrenheit", d) = celsius_To_Fahrenheit(d)
  BY <1>1, Zenon DEF Degree
<1>3. Degree("celsius", "kelvin", d) = celsius_To_Kelvin(d)
  BY <1>1, Zenon DEF Degree
<1>4. Degree("fahrenheit", "celsius", d) = fahrenheit_To_celsius(d)
  BY <1>1, Zenon DEF Degree
<1>5. Degree("fahrenheit", "kelvin", d) = fahrenheit_To_Kelvin(d)
  BY <1>1, Zenon DEF Degree
<1>6. Degree("kelvin", "celsius", d) = kelvin_To_Celsius(d)
  BY <1>1, Zenon DEF Degree
<1>7. Degree("kelvin", "fahrenheit", d) = kelvin_To_Fahrenheit(d)
  BY <1>1, Zenon DEF Degree
<1>8. QED
  BY <1>2, <1>3, <1>4, <1>5, <1>6, <1>7, Zenon

\* What the six functions answer below absolute zero.
LEMMA BelowAbsoluteZero ==
    ASSUME NEW d \in Int
    PROVE  /\ d < 0 - 273 => celsius_To_Fahrenheit(d).errno = ERANGE /\ celsius_To_Kelvin(d).errno = ERANGE
           /\ d < 0 - 459 => fahrenheit_To_celsius(d).errno = ERANGE /\ fahrenheit_To_Kelvin(d).errno = ERANGE
           /\ d < 0 => kelvin_To_Celsius(d).errno = ERANGE /\ kelvin_To_Fahrenheit(d).errno = ERANGE
BY DEF celsius_To_Fahrenheit, celsius_To_Kelvin, fahrenheit_To_celsius, fahrenheit_To_Kelvin, kelvin_To_Celsius,
       kelvin_To_Fahrenheit, Answer

LEMMA DegreesNear ==
    ASSUME NEW d \in Int, d >= 0 - 32768, d <= 32767, NEW from \in Scales, NEW to \in Scales, from # to
    PROVE  NearDegrees(from, to, d, Degree(from, to, d))
<1>1. CASE from = "celsius" /\ to = "fahrenheit"
  <2> DEFINE out == celsius_To_Fahrenheit(d)
  <2>1. d < 0 - 273 => out.errno = ERANGE
    BY BelowAbsoluteZero
  <2>2. d >= 0 - 273 /\ 9 * d <= 5 * (32767 - 32) =>
           out.errno = 0 /\ out.value \in Int /\ out.value >= 0 - 459 /\ 2 * (9 * d - 5 * (out.value - 32)) \in 0 - 5 .. 5
    BY CelsiusInFahrenheit
  <2> HIDE DEF out
  <2>3. NearDegrees("celsius", "fahrenheit", d, out)
    BY <2>1, <2>2, ScalesAre DEF NearDegrees, INT16_MAX
  <2>4. Degree(from, to, d) = out
    BY <1>1, DegreesAre DEF out
  <2>5. QED
    BY <1>1, <2>3, <2>4
<1>2. CASE from = "celsius" /\ to = "kelvin"
  <2> DEFINE out == celsius_To_Kelvin(d)
  <2>1. d < 0 - 273 => out.errno = ERANGE
    BY BelowAbsoluteZero
  <2>2. d >= 0 - 273 /\ d <= 32767 - 273 => out.errno = 0 /\ out.value = d + 273
    BY CelsiusInKelvin
  <2> HIDE DEF out
  <2>3. NearDegrees("celsius", "kelvin", d, out)
    BY <2>1, <2>2, ScalesAre DEF NearDegrees, INT16_MAX
  <2>4. Degree(from, to, d) = out
    BY <1>2, DegreesAre DEF out
  <2>5. QED
    BY <1>2, <2>3, <2>4
<1>3. CASE from = "fahrenheit" /\ to = "celsius"
  <2> DEFINE out == fahrenheit_To_celsius(d)
  <2>1. d < 0 - 459 => out.errno = ERANGE
    BY BelowAbsoluteZero
  <2>2. d >= 0 - 459 => out.errno = 0 /\ out.value \in Int /\ out.value >= 0 - 273
                        /\ 5 * (d - 32) - 9 * out.value \in 0 - 8 .. 8
    BY FahrenheitInCelsius
  <2> HIDE DEF out
  <2>3. NearDegrees("fahrenheit", "celsius", d, out)
    BY <2>1, <2>2, ScalesAre DEF NearDegrees, INT16_MAX
  <2>4. Degree(from, to, d) = out
    BY <1>3, DegreesAre DEF out
  <2>5. QED
    BY <1>3, <2>3, <2>4
<1>4. CASE from = "fahrenheit" /\ to = "kelvin"
  <2> DEFINE out == fahrenheit_To_Kelvin(d)
  <2>1. d < 0 - 459 => out.errno = ERANGE
    BY BelowAbsoluteZero
  <2>2. d >= 0 - 459 => out.errno = 0 /\ out.value \in Nat /\ 5 * (d - 32) - 9 * (out.value - 273) \in 0 - 8 .. 8
    BY FahrenheitInKelvin
  <2> HIDE DEF out
  <2>3. NearDegrees("fahrenheit", "kelvin", d, out)
    BY <2>1, <2>2, ScalesAre DEF NearDegrees, INT16_MAX
  <2>4. Degree(from, to, d) = out
    BY <1>4, DegreesAre DEF out
  <2>5. QED
    BY <1>4, <2>3, <2>4
<1>5. CASE from = "kelvin" /\ to = "celsius"
  <2> DEFINE out == kelvin_To_Celsius(d)
  <2>1. d < 0 => out.errno = ERANGE
    BY BelowAbsoluteZero
  <2>2. d >= 0 => out.errno = 0 /\ out.value = d - 273 /\ out.value >= 0 - 273 /\ 9 * (d - 273) - 9 * out.value = 0
    BY KelvinInCelsius
  <2> HIDE DEF out
  <2>3. NearDegrees("kelvin", "celsius", d, out)
    <3>1. CASE d < 0
      BY <2>1, <3>1, ScalesAre DEF NearDegrees
    <3>2. CASE d >= 0
      <4> DEFINE exact == NinthsAboveFreezing("kelvin", d)
                 given == NinthsAboveFreezing("celsius", out.value)
                 unit  == NinthsAboveFreezing("celsius", 1) - NinthsAboveFreezing("celsius", 0)
      <4>1. exact = 9 * (d - 273) /\ given = 9 * out.value /\ unit = 9 * 1 - 9 * 0
        BY ScalesAre
      <4>2. exact - given = 0 /\ unit = 9
        BY <2>2, <3>2, <4>1
      <4> HIDE DEF exact, given, unit
      <4>3. exact - given \in (1 - unit) .. (unit - 1)
        BY <4>2
      <4>4. ~(d < 0)
        BY <3>2
      <4>5. QED
        BY <2>2, <3>2, <4>3, <4>4, ScalesAre DEF NearDegrees, exact, given, unit
    <3>3. QED
      BY <3>1, <3>2
  <2>4. Degree(from, to, d) = out
    BY <1>5, DegreesAre DEF out
  <2>5. QED
    BY <1>5, <2>3, <2>4
<1>6. CASE from = "kelvin" /\ to = "fahrenheit"
  <2> DEFINE out == kelvin_To_Fahrenheit(d)
  <2>1. d < 0 => out.errno = ERANGE
    BY BelowAbsoluteZero
  <2>2. d >= 0 /\ 9 * (d - 273) <= 5 * (32767 - 32) =>
           out.errno = 0 /\ out.value \in Int /\ out.value >= 0 - 459 /\ 9 * (d - 273) - 5 * (out.value - 32) \in 0 - 4 .. 4
    BY KelvinInFahrenheit
  <2> HIDE DEF out
  <2>3. NearDegrees("kelvin", "fahrenheit", d, out)
    BY <2>1, <2>2, ScalesAre DEF NearDegrees, INT16_MAX
  <2>4. Degree(from, to, d) = out
    BY <1>6, DegreesAre DEF out
  <2>5. QED
    BY <1>6, <2>3, <2>4
<1>7. QED
  BY <1>1, <1>2, <1>3, <1>4, <1>5, <1>6 DEF Scales

LEMMA MeasuringIsCorrect == Measuring => ConversionSame(call')
<1>1. ASSUME NEW d \in Degrees, NEW from \in Scales, NEW to \in Scales, from # to,
             Called("degrees", "degrees", [d |-> d, from |-> from, to |-> to], Degree(from, to, d))
      PROVE  ConversionSame(call')
  <2> DEFINE x == [d |-> d, from |-> from, to |-> to]
             out == Degree(from, to, d)
  <2>1. d \in Int /\ d >= 0 - 32768 /\ d <= 32767
    BY ConversionAssumption DEF INT16_MAX
  <2>2. NearDegrees(from, to, d, out)
    BY <1>1, <2>1, DegreesNear
  <2>3. x.d = d /\ x.from = from /\ x.to = to
    OBVIOUS
  <2>4. call' = [family |-> "degrees", f |-> "degrees", in |-> x, out |-> out]
    BY <1>1, Zenon DEF Called
  <2> HIDE DEF x, out
  <2>5. QED
    BY <2>2, <2>3, <2>4, OneConversion, Zenon
<1>2. ASSUME NEW value \in Amounts, NEW null \in BOOLEAN, NEW copied \in BOOLEAN, NEW factor \in Nat \ {0}, NEW f,
             Called("unit", f, [value |-> value, null |-> null, factor |-> factor],
                    UnitConvert(null, value, factor, copied))
      PROVE  ConversionSame(call')
  <2> DEFINE x == [value |-> value, null |-> null, factor |-> factor]
             out == UnitConvert(null, value, factor, copied)
  <2>1. value \in Nat
    BY ConversionAssumption DEF INT16_MAX
  <2>2. null \/ out.unit = Divisions(value, factor)
    BY DEF UnitConvert, Unit
  <2>3. Divisions(value, factor) = Largest(value, factor)
    BY <2>1, LargestUnitReached, Zenon DEF Largest
  <2>4. x.value = value /\ x.null = null /\ x.factor = factor
    OBVIOUS
  <2>5. call' = [family |-> "unit", f |-> f, in |-> x, out |-> out]
    BY <1>2, Zenon DEF Called
  <2> HIDE DEF x, out
  <2>6. QED
    BY <2>2, <2>3, <2>4, <2>5, OneConversion, Zenon
<1>3. THOUSAND \in Nat \ {0} /\ KIBI \in Nat \ {0}
  BY TypeConversionAssumption
<1>4. QED
  BY <1>1, <1>2, <1>3, Zenon DEF Measuring, metric_Unit_Convert, capacity_Unit_Convert

\* A number narrowed to size_t is itself or the nearest with an error, the bytes
\* and the parts of a float are put together, a temperature is the same to less
\* than a degree, and a value is shown in the largest unit it reaches: for every
\* width of size_t, every value, every factor and every number of units.
THEOREM ConversionsCorrect == ConversionSpec => []ConvertedValueIsTheSame
<1>1. call = Idle => ConversionSame(call)
  <2>1. SUFFICES ASSUME call = Idle PROVE call.family \notin ConversionFamilies
    BY OthersSame, Zenon
  <2>2. QED
    BY <2>1 DEF Idle, ConversionFamilies
<1>2. ConversionSame(call) /\ [Converting \/ Measuring \/ OtherThan(ConversionFamilies)]_call => ConversionSame(call')
  <2> SUFFICES ASSUME ConversionSame(call), [Converting \/ Measuring \/ OtherThan(ConversionFamilies)]_call
               PROVE  ConversionSame(call')
    OBVIOUS
  <2>1. CASE Converting
    BY <2>1, ConvertingIsCorrect, Zenon
  <2>2. CASE Measuring
    BY <2>2, MeasuringIsCorrect, Zenon
  <2>3. CASE OtherThan(ConversionFamilies)
    BY <2>3, OthersSame, Zenon DEF OtherThan
  <2>4. CASE UNCHANGED call
    BY <2>4, Zenon
  <2>5. QED
    BY <2>1, <2>2, <2>3, <2>4, Zenon
<1>3. ConversionSame(call) => ConvertedValueIsTheSame
  BY SameIsTheProperty, Zenon
<1>4. ConversionSame(call)' <=> ConversionSame(call')
  BY Zenon DEF ConversionSame, SizeSame, DoubleSame, FloatSame, DegreesSame, UnitSame
<1>5. QED
  BY <1>1, <1>2, <1>3, <1>4, PTL DEF ConversionSpec

-----------------------------------------------------------------------------
(* The parts of a time                                                     *)

\* Every division of a duration takes one part off.
LEMMA PartsOfSeconds ==
    ASSUME NEW t \in Nat
    PROVE  /\ t \div 60 \in Nat /\ (t \div 60) \div 60 \in Nat /\ ((t \div 60) \div 60) \div 24 = t \div DAY
           /\ ((((t \div 60) \div 60) % 24) * 3600) + (((t \div 60) % 60) * 60) + (t % 60) = t % DAY
           /\ ((t \div 60) \div 60) % 24 \in 0 .. 23 /\ (t \div 60) % 60 \in 0 .. 59 /\ t % 60 \in 0 .. 59
<1>1. DAY = 86400
  BY DEF DAY
<1> DEFINE m == t \div 60
           h == m \div 60
           d == h \div 24
<1>2. m \in Nat /\ t % 60 \in 0 .. 59 /\ t = 60 * m + (t % 60)
  OBVIOUS
<1> HIDE DEF m
<1>3. h \in Nat /\ m % 60 \in 0 .. 59 /\ m = 60 * h + (m % 60)
  BY <1>2
<1> HIDE DEF h
<1>4. d \in Nat /\ h % 24 \in 0 .. 23 /\ h = 24 * d + (h % 24)
  BY <1>3
<1> HIDE DEF d
<1> DEFINE hh == h % 24
           mm == m % 60
           ss == t % 60
           r  == (hh * 3600) + (mm * 60) + ss
<1>a. /\ d \in Nat /\ h \in Nat /\ m \in Nat /\ hh \in 0 .. 23 /\ mm \in 0 .. 59 /\ ss \in 0 .. 59
      /\ h = 24 * d + hh /\ m = 60 * h + mm /\ t = 60 * m + ss
  BY <1>2, <1>3, <1>4
<1> HIDE DEF hh, mm, ss
<1>5. r \in Nat /\ r < 86400 /\ t = 86400 * d + r
  BY <1>a
<1> HIDE DEF r
<1>6. t \div 86400 = d /\ t % 86400 = r
  BY <1>a, <1>5
<1>7. QED
  BY <1>1, <1>2, <1>3, <1>4, <1>6 DEF m, h, d, r, hh, mm, ss

\* A remainder of a remainder by a multiple of its range.
LEMMA QuotientInRange ==
    ASSUME NEW q \in Nat, NEW r \in Nat \ {0}
    PROVE  (((q \div 365) % r) * 365) + (q % 365) = q % (r * 365)
<1> DEFINE y == q \div 365
           d == q % 365
           z == y \div r
           p == y % r
<1>1. y \in Nat /\ d \in 0 .. 364 /\ q = 365 * y + d
  OBVIOUS
<1> HIDE DEF y, d
<1>2. z \in Int /\ p \in 0 .. r - 1 /\ y = r * z + p
  BY <1>1, Divided
<1> HIDE DEF z, p
<1>3. r * z \in Int
  BY <1>2
<1>4. q = 365 * (r * z) + (365 * p + d)
  BY <1>1, <1>2, <1>3
<1>5. 365 * (r * z) = (r * 365) * z
  BY <1>2
<1> DEFINE n == r * 365
           v == 365 * p + d
<1>6. n \in Nat \ {0} /\ v \in 0 .. n - 1
  BY <1>1, <1>2
<1>7. q = n * z + v
  BY <1>4, <1>5
<1> HIDE DEF n, v
<1>8. v % n = v /\ v \in Int
  BY <1>6
<1>9. (n * z + v) % n = v % n
  BY <1>2, <1>6, <1>8, ModuloOfSum, Zenon
<1>10. q % n = v
  BY <1>7, <1>8, <1>9
<1>11. q % (r * 365) = 365 * p + d
  BY <1>10 DEF n, v
<1>12. p * 365 + d = 365 * p + d
  BY <1>1, <1>2
<1>13. QED
  BY <1>11, <1>12 DEF p, y, d

LEMMA DurationIsKept ==
    ASSUME NEW t \in Nat, NEW x, x.t = t, NEW o,
           o.d = convert_Seconds_To_Displayable_Time(t), o.double = o.d, o.shown = print_Time_To_Screen(o.d)
    PROVE  DurationKeeps(x, o)
<1> DEFINE d == o.d
           minutes == t \div 60
           hours   == minutes \div 60
           days    == hours \div 24
<1>1. d = [years |-> (days \div 365) % YEARS_RANGE, days |-> days % 365, hours |-> hours % 24,
           minutes |-> minutes % 60, seconds |-> t % 60]
  BY Zenon DEF convert_Seconds_To_Displayable_Time, Duration
<1>2. /\ minutes \in Nat /\ hours \in Nat /\ days = t \div DAY
      /\ ((hours % 24) * 3600) + ((minutes % 60) * 60) + (t % 60) = t % DAY
      /\ hours % 24 \in 0 .. 23 /\ minutes % 60 \in 0 .. 59 /\ t % 60 \in 0 .. 59
  BY PartsOfSeconds
<1>3. days \in Nat /\ YEARS_RANGE \in Nat \ {0}
  BY <1>2, TimeAssumption
<1> HIDE DEF minutes, hours, days
<1>4. (((days \div 365) % YEARS_RANGE) * 365) + (days % 365) = days % (YEARS_RANGE * 365)
  BY <1>3, QuotientInRange, Zenon
<1>5. days % 365 \in 0 .. 364 /\ days \div 365 \in Nat
  BY <1>3
<1>6. (days \div 365) % YEARS_RANGE \in Nat
  BY <1>3, <1>5
<1>7. /\ d.years = (days \div 365) % YEARS_RANGE /\ d.days = days % 365 /\ d.hours = hours % 24
      /\ d.minutes = minutes % 60 /\ d.seconds = t % 60 /\ DOMAIN d = {"years", "days", "hours", "minutes", "seconds"}
  BY <1>1
<1> HIDE DEF d
<1>8. \A part \in DOMAIN d : d[part] \in Nat
  <2>1. d.years \in Nat /\ d.days \in Nat /\ d.hours \in Nat /\ d.minutes \in Nat /\ d.seconds \in Nat
    BY <1>2, <1>5, <1>6, <1>7
  <2>2. QED
    BY <1>7, <2>1, Zenon
<1>9. DOMAIN o.shown = {p \in DOMAIN d : d[p] > 0}
  BY Zenon DEF print_Time_To_Screen, d
<1>10. \A part \in DOMAIN d : (part \in DOMAIN o.shown) = (d[part] # 0)
  <2>1. ASSUME NEW part \in DOMAIN d PROVE (d[part] > 0) <=> d[part] # 0
    <3>1. d[part] \in Nat
      BY <1>8
    <3>2. QED
      BY <3>1
  <2>2. ASSUME NEW part \in DOMAIN d PROVE (part \in DOMAIN o.shown) <=> (d[part] > 0)
    BY <1>9, Zenon
  <2>3. QED
    BY <2>1, <2>2
<1>11. (d.years * 365) + d.days = (x.t \div DAY) % (YEARS_RANGE * 365)
  BY <1>2, <1>4, <1>7
<1>12. (d.hours * 3600) + (d.minutes * 60) + d.seconds = x.t % DAY
  BY <1>2, <1>7
<1>13. d.days < 365 /\ d.hours < 24 /\ d.minutes < 60 /\ d.seconds < 60
  BY <1>2, <1>5, <1>7
<1>14. o.double = d
  BY Zenon DEF d
<1>15. QED
  BY <1>10, <1>11, <1>12, <1>13, <1>14 DEF DurationKeeps, d

-----------------------------------------------------------------------------
(* The stop watch                                                          *)

Nanos(ticks, frequency, second) ==
    (ticks \div frequency) * second + (ticks % frequency) * (second \div frequency)
LessThanATick(ticks, frequency, second, nano) ==
    LET lost == (ticks * second) - (nano * frequency)
    IN lost \in 0 .. (frequency * frequency) - 1 /\ (second % frequency = 0 => lost = 0)

\* What is lost is the part of a second below the ticks.
LEMMA TickIsLost ==
    ASSUME NEW ticks \in Nat, NEW frequency \in Nat \ {0}, NEW second \in Nat, NEW nano,
           nano = Nanos(ticks, frequency, second)
    PROVE  LessThanATick(ticks, frequency, second, nano)
<1> DEFINE q == ticks \div frequency
           r == ticks % frequency
           s == second \div frequency
           e == second % frequency
<1>0. ticks \in Int /\ second \in Int
  OBVIOUS
<1>1. q \in Int /\ r \in 0 .. frequency - 1 /\ ticks = frequency * q + r
  BY <1>0, Divided, Zenon
<1>2. s \in Int /\ e \in 0 .. frequency - 1 /\ second = frequency * s + e
  BY <1>0, Divided, Zenon
<1> HIDE DEF q, r, s, e
<1>3. nano = q * second + r * s
  BY DEF q, r, s, Nanos
<1>4. ticks * second - nano * frequency = r * e
  <2>1. ticks * second = (frequency * q) * second + r * second
    BY <1>1
  <2>2. nano * frequency = (q * second) * frequency + (r * s) * frequency
    <3> DEFINE a == q * second
               b == r * s
    <3>1. a \in Int /\ b \in Int /\ nano = a + b
      <4>1. a \in Int
        BY <1>1
      <4>2. b \in Int
        BY <1>1, <1>2
      <4>3. QED
        BY <1>3, <4>1, <4>2
    <3> HIDE DEF a, b
    <3>2. nano * frequency = a * frequency + b * frequency
      BY <3>1
    <3>3. QED
      BY <3>2 DEF a, b
  <2>3. (frequency * q) * second = (q * second) * frequency
    BY <1>1
  <2>4. r * second = r * (frequency * s) + r * e
    BY <1>1, <1>2
  <2>5. r * (frequency * s) = (r * s) * frequency
    BY <1>1, <1>2
  <2>6. (q * second) * frequency \in Int /\ (r * s) * frequency \in Int /\ r * e \in Int
    BY <1>1, <1>2
  <2>7. QED
    BY <2>1, <2>2, <2>3, <2>4, <2>5, <2>6
<1>5. r * e >= 0 /\ r * e <= frequency * frequency - 1
  <2>1. r \in Nat /\ e \in Nat /\ r <= frequency - 1 /\ e <= frequency - 1
    BY <1>1, <1>2
  <2>2. \A a \in Nat, b \in Nat, c \in Nat : a <= b => a * c <= b * c /\ c * a <= c * b
    OBVIOUS
  <2>3. frequency - 1 \in Nat
    OBVIOUS
  <2>4. r * e <= (frequency - 1) * e /\ (frequency - 1) * e <= (frequency - 1) * (frequency - 1)
    BY <2>1, <2>2, <2>3
  <2>5. (frequency - 1) * (frequency - 1) = frequency * frequency - 2 * frequency + 1
    OBVIOUS
  <2>6. r * e \in Nat /\ (frequency - 1) * e \in Nat /\ frequency * frequency \in Nat
    BY <2>1, <2>3
  <2>7. QED
    BY <2>4, <2>5, <2>6
<1>6. e = 0 => r * e = 0
  BY <1>1
<1>7. r * e \in Int
  BY <1>1, <1>2
<1>8. QED
  BY <1>4, <1>5, <1>6, <1>7 DEF e, LessThanATick

LEMMA WatchingIsCorrect ==
    ASSUME NEW start \in Int, NEW stop \in Int, NEW frequency \in Nat, NEW second \in Nat, NEW timer, NEW x, NEW o,
           timer = stop_Timer(start_Timer([timerStart |-> 3, timerStop |-> 4], start), stop),
           x.start = start, x.stop = stop, x.frequency = frequency, x.second = second,
           o.nano = get_Nano_Seconds(timer, frequency, second)
    PROVE  WatchKeeps(x, o)
<1> SUFFICES ASSUME start >= 0, stop >= start, frequency > 0
             PROVE  LessThanATick(stop - start, frequency, second, o.nano)
  BY Zenon DEF WatchKeeps, LessThanATick
<1>1. timer = [timerStart |-> start, timerStop |-> stop]
  BY DEF stop_Timer, start_Timer
<1>2. o.nano = Nanos(stop - start, frequency, second)
  <2>1. timer.timerStop = stop /\ timer.timerStart = start /\ frequency # 0
    BY <1>1
  <2>2. QED
    BY <2>1, Zenon DEF get_Nano_Seconds, Nanos
<1>3. stop - start \in Nat /\ frequency \in Nat \ {0}
  OBVIOUS
<1>4. QED
  BY <1>2, <1>3, TickIsLost, Zenon

-----------------------------------------------------------------------------
(* The sleeps                                                              *)

\* What is left after each of the first calls.
LeftOf(f, n, time, calls) ==
    f = [k \in 0 .. n |-> IF k = 0 THEN time ELSE f[k - 1] - calls[k].slept]

LEMMA LeftExists ==
    ASSUME NEW n \in Nat, NEW time, NEW calls
    PROVE  \E f : LeftOf(f, n, time, calls)
<1> DEFINE Lost == {k \in Nat : ~\E f : LeftOf(f, k, time, calls)}
<1>1. SUFFICES ASSUME Lost # {} PROVE FALSE
  OBVIOUS
<1> DEFINE k == Min(Lost)
<1>2. k \in Lost /\ \A j \in Lost : k <= j
  <2>1. Lost \subseteq Nat
    OBVIOUS
  <2> HIDE DEF Lost
  <2>2. QED
    BY <1>1, <2>1, LeastNumber, Zenon
<1> HIDE DEF k
<1>3. CASE k = 0
  <2> DEFINE f == [i \in 0 .. 0 |-> time]
  <2>1. LeftOf(f, 0, time, calls)
    BY DEF LeftOf
  <2>2. QED
    BY <1>2, <1>3, <2>1
<1>4. CASE k # 0
  <2>1. k - 1 \in Nat /\ k \in Nat /\ k - 1 \notin Lost
    BY <1>2, <1>4
  <2>2. PICK g : LeftOf(g, k - 1, time, calls)
    BY <2>1
  <2> DEFINE next == g[k - 1] - calls[k].slept
             f == [i \in 0 .. k |-> IF i = k THEN next ELSE g[i]]
  <2>3. \A i \in 0 .. k - 1 : f[i] = g[i]
    BY <2>1
  <2>4. ASSUME NEW i \in 0 .. k
        PROVE  f[i] = IF i = 0 THEN time ELSE f[i - 1] - calls[i].slept
    <3>1. CASE i = k
      <4>1. f[i] = next /\ f[i - 1] = g[i - 1] /\ i # 0
        BY <1>4, <2>1, <2>3, <3>1
      <4>2. next = g[i - 1] - calls[i].slept
        BY <3>1
      <4> HIDE DEF f, next
      <4>3. QED
        BY <4>1, <4>2
    <3>2. CASE i # k
      <4>1. i \in 0 .. k - 1 /\ f[i] = g[i] /\ (i # 0 => i - 1 \in 0 .. k - 1 /\ f[i - 1] = g[i - 1])
        BY <2>1, <2>3, <3>2
      <4>2. g[i] = IF i = 0 THEN time ELSE g[i - 1] - calls[i].slept
        BY <2>2, <4>1 DEF LeftOf
      <4> HIDE DEF f
      <4>3. QED
        BY <4>1, <4>2
    <3>3. QED
      BY <3>1, <3>2
  <2>5. DOMAIN f = 0 .. k /\ f = [i \in DOMAIN f |-> f[i]]
    OBVIOUS
  <2> HIDE DEF f, next
  <2>6. LeftOf(f, k, time, calls)
    BY <2>4, <2>5 DEF LeftOf
  <2>7. QED
    BY <1>2, <2>6
<1>5. QED
  BY <1>3, <1>4

LEMMA LeftIsNumber ==
    ASSUME NEW n \in Nat, NEW time \in Int, NEW calls, \A k \in 1 .. n : calls[k].slept \in Int,
           NEW f, LeftOf(f, n, time, calls)
    PROVE  f[n] \in Int
<1> DEFINE Lost == {k \in 0 .. n : f[k] \notin Int}
<1>1. SUFFICES ASSUME Lost # {} PROVE FALSE
  <2>1. n \in 0 .. n
    OBVIOUS
  <2>2. QED
    BY <1>1, <2>1
<1> DEFINE k == Min(Lost)
<1>2. k \in Lost /\ \A j \in Lost : k <= j
  <2>1. Lost \subseteq Nat
    OBVIOUS
  <2> HIDE DEF Lost
  <2>2. QED
    BY <1>1, <2>1, LeastNumber, Zenon
<1> HIDE DEF k
<1>3. k \in 0 .. n /\ f[k] = IF k = 0 THEN time ELSE f[k - 1] - calls[k].slept
  BY <1>2 DEF LeftOf
<1>4. CASE k = 0
  BY <1>2, <1>3, <1>4
<1>5. CASE k # 0
  <2>1. k - 1 \in 0 .. n /\ k - 1 \notin Lost /\ k \in 1 .. n
    BY <1>2, <1>3, <1>5
  <2>2. f[k - 1] \in Int /\ calls[k].slept \in Int
    BY <2>1
  <2>3. QED
    BY <1>2, <1>3, <1>5, <2>2
<1>6. QED
  BY <1>4, <1>5

\* The parts slept before the signals and what is left then are the whole time.
LEMMA SleepIsWhole ==
    ASSUME NEW calls \in Sleeps, NEW time \in Nat
    PROVE  /\ calls[Len(calls)].ends \in {"done", "error"}
           /\ calls[Len(calls)].ends = "done" => sleepns(time, calls) = Slept(0, time)
           /\ calls[Len(calls)].ends = "error" =>
                 \E slept : sleepns(time, calls) = Slept(calls[Len(calls)].errno, slept)
<1> DEFINE n == Len(calls)
           last == calls[n]
           left == CHOOSE f : f = [k \in 0 .. n - 1 |-> IF k = 0 THEN time ELSE f[k - 1] - calls[k].slept]
<1>1. /\ n \in Nat \ {0} /\ DOMAIN calls = 1 .. n /\ \A k \in 1 .. n : calls[k].slept \in Nat
      /\ \A k \in 1 .. n : calls[k].ends \in {"done", "signal", "error"} /\ (calls[k].ends = "signal" <=> k < n)
  <2>1. calls \in Seq([ends : {"done", "signal", "error"}, slept : Nat, errno : Nat]) /\ calls # <<>>
    BY SleepsAssumption, Zenon
  <2>2. \A i \in DOMAIN calls : (calls[i].ends = "signal") = (i < Len(calls))
    BY SleepsAssumption, Zenon
  <2>3. n \in Nat \ {0} /\ DOMAIN calls = 1 .. n
    BY <2>1
  <2>4. \A k \in 1 .. n : calls[k] \in [ends : {"done", "signal", "error"}, slept : Nat, errno : Nat]
    <3> DEFINE R == [ends : {"done", "signal", "error"}, slept : Nat, errno : Nat]
    <3> HIDE DEF R
    <3>1. calls \in Seq(R)
      BY <2>1, Zenon DEF R
    <3>2. \A k \in 1 .. Len(calls) : calls[k] \in R
      BY <3>1
    <3>3. QED
      BY <3>2, Zenon DEF R, n
  <2>5. QED
    BY <2>2, <2>3, <2>4
<1> HIDE DEF n
<1>2. last.ends \in {"done", "error"}
  BY <1>1
<1>3. Min({k \in DOMAIN calls : calls[k].ends # "signal"}) = n
  <2>1. {k \in DOMAIN calls : calls[k].ends # "signal"} = {n}
    BY <1>1
  <2>2. \E z \in {n} : \A y \in {n} : z <= y
    BY <1>1
  <2>3. Min({n}) = n
    BY <2>2 DEF Min
  <2>4. QED
    BY <2>1, <2>3
<1>4. left[n - 1] \in Int
  <2>1. n - 1 \in Nat
    BY <1>1
  <2>2. \E f : LeftOf(f, n - 1, time, calls)
    BY <2>1, LeftExists, Zenon
  <2>3. LeftOf(left, n - 1, time, calls)
    BY <2>2, Zenon DEF LeftOf
  <2> HIDE DEF left
  <2>4. \A k \in 1 .. n - 1 : calls[k].slept \in Int
    BY <1>1
  <2>5. time \in Int
    OBVIOUS
  <2>6. QED
    BY <2>1, <2>3, <2>4, <2>5, LeftIsNumber, Zenon
<1>5. sleepns(time, calls) =
        CASE last.ends = "done"  -> Slept(0, (time - left[n - 1]) + left[n - 1])
          [] last.ends = "error" -> Slept(last.errno, (time - left[n - 1]) + last.slept)
  BY <1>3, Zenon DEF sleepns
<1> HIDE DEF left, last
<1>6. (time - left[n - 1]) + left[n - 1] = time
  BY <1>4
<1>7. "done" # "error"
  OBVIOUS
<1>8. ASSUME last.ends = "done" PROVE sleepns(time, calls) = Slept(0, time)
  BY <1>5, <1>6, <1>7, <1>8, Zenon
<1>9. ASSUME last.ends = "error" PROVE \E slept : sleepns(time, calls) = Slept(last.errno, slept)
  BY <1>5, <1>7, <1>9, Zenon
<1>10. QED
  BY <1>2, <1>8, <1>9, Zenon DEF last, n

\* A sleep in microseconds whose nanoseconds are slept, or that the system does
\* not have and select makes up for.
SleptWell(calls, select, time, out) ==
    /\ Interrupted(calls) => out = Slept(0, time)
    /\ ~Interrupted(calls) /\ Unsupported(calls) /\ select = "done" => out.error = 0

LEMMA MicrosecondsAreSlept ==
    ASSUME NEW calls \in Sleeps, NEW us \in Nat, NEW selected
    PROVE  SleptWell(calls, selected.ends, us * THOUSAND_OF, sleepus(us, calls, selected))
<1> DEFINE time == us * THOUSAND_OF
           last == calls[Len(calls)]
<1>1. time \in Nat
  BY TimersAssumption
<1> HIDE DEF time
<1>2. /\ last.ends \in {"done", "error"} /\ (last.ends = "done" => sleepns(time, calls) = Slept(0, time))
      /\ last.ends = "error" => \E slept : sleepns(time, calls) = Slept(last.errno, slept)
  BY <1>1, SleepIsWhole, Zenon
<1> HIDE DEF last
<1>3. \A a, b : Slept(a, b).error = a /\ Slept(a, b).slept = b
  BY DEF Slept
<1>4. 0 # ENOSYS /\ "done" # "error"
  BY DEF ENOSYS
<1> DEFINE ns == sleepns(time, calls)
<1>5. sleepus(us, calls, selected) =
        IF ns.error # ENOSYS THEN Slept(0, ns.slept)
        ELSE IF selected.ends = "done" THEN Slept(0, time) ELSE Slept(selected.errno, selected.slept)
  BY Zenon DEF sleepus, time
<1> HIDE DEF ns
<1>6. ASSUME last.ends = "done" PROVE sleepus(us, calls, selected) = Slept(0, time)
  <2>1. ns = Slept(0, time)
    BY <1>2, <1>6, Zenon DEF ns
  <2>2. ns.error # ENOSYS /\ ns.slept = time
    BY <1>3, <1>4, <2>1, Zenon
  <2>3. QED
    BY <1>5, <2>2, Zenon
<1>7. ASSUME selected.ends = "done" PROVE sleepus(us, calls, selected).error = 0
  BY <1>3, <1>5, <1>7, Zenon
<1>8. QED
  BY <1>6, <1>7, Zenon DEF SleptWell, Interrupted, Unsupported, last, time

\* Below the limit no product wraps around.
LEMMA ProductsFit ==
    ASSUME NEW n \in Nat, NEW k \in Nat \ {0}, NEW r \in Nat \ {0}
    PROVE  /\ n * (k * k) < r * k => (n * k) % r = n * k
           /\ n * (k * k * k) < r * k => /\ ((k * n) * k) % r = (k * n) * k /\ ~(n > (r - 1) \div k)
           /\ n * k >= r => n > (r - 1) \div k
<1> DEFINE p == n * k
           q == p * k
<1>1. p \in Nat /\ q \in Nat
  OBVIOUS
<1>2. \A a \in Nat, b \in Nat : a * k < b * k => a < b
  OBVIOUS
<1>3. n * (k * k) = p * k /\ n * (k * k * k) = q * k /\ (k * n) * k = q
  OBVIOUS
<1> HIDE DEF p, q
<1>4. p * k < r * k => p % r = p
  <2>1. p * k < r * k => p < r
    BY <1>1, <1>2
  <2>2. QED
    BY <1>1, <2>1
<1>5. q * k < r * k => q < r
  BY <1>1, <1>2
<1>6. q < r => q % r = q
  BY <1>1
<1>7. p <= q
  <2>1. \A a \in Nat : a <= a * k
    OBVIOUS
  <2>2. QED
    BY <1>1, <2>1 DEF q
<1> DEFINE d == (r - 1) \div k
           e == (r - 1) % k
<1>8. d \in Int /\ e \in 0 .. k - 1 /\ r - 1 = k * d + e
  <2>1. r - 1 \in Int
    OBVIOUS
  <2>2. QED
    BY <2>1, Divided, Zenon
<1> HIDE DEF d, e
<1>9. n > d <=> p >= r
  <2>1. \A a \in Int, b \in Int : a <= b => k * a <= k * b
    OBVIOUS
  <2>2. CASE n > d
    <3>1. d + 1 <= n /\ d + 1 \in Int
      BY <1>8, <2>2
    <3>2. k * (d + 1) <= k * n
      BY <2>1, <3>1
    <3>3. k * (d + 1) = k * d + k /\ k * n = p
      BY <1>8 DEF p
    <3>4. k * d \in Int
      BY <1>8
    <3>5. QED
      BY <1>1, <1>8, <2>2, <3>2, <3>3, <3>4
  <2>3. CASE ~(n > d)
    <3>1. n <= d
      BY <1>8, <2>3
    <3>2. k * n <= k * d
      BY <1>8, <2>1, <3>1
    <3>3. k * n = p /\ k * d \in Int
      BY <1>8 DEF p
    <3>4. QED
      BY <1>1, <1>8, <2>3, <3>2, <3>3
  <2>4. QED
    BY <2>2, <2>3
<1>10. n * (k * k) < r * k => (n * k) % r = n * k
  BY <1>3, <1>4 DEF p
<1>11. n * (k * k * k) < r * k => ((k * n) * k) % r = (k * n) * k
  BY <1>3, <1>5, <1>6
<1>12. n * (k * k * k) < r * k => ~(n > d)
  BY <1>1, <1>3, <1>5, <1>7, <1>9
<1>13. n * k >= r => n > d
  BY <1>9 DEF p
<1>14. QED
  BY <1>10, <1>11, <1>12, <1>13, Zenon DEF d

LEMMA SleepingIsCorrect ==
    ASSUME NEW calls \in Sleeps, NEW n \in 1 .. UINT32_RANGE - 1, NEW select, NEW selected, selected.ends = select,
           NEW x, x.calls = calls, x.n = n, x.select = select
    PROVE  /\ SleepKeeps("us", x, sleepus(n, calls, selected))
           /\ SleepKeeps("ms", x, sleepms(n, calls, selected))
           /\ SleepKeeps("sec", x, sleepsec(n, calls, selected))
<1> DEFINE k == THOUSAND_OF
           r == UINT32_RANGE
<1>1. k \in Nat \ {0} /\ r \in Nat \ {0} /\ n \in Nat
  BY TimersAssumption
<1>2. /\ n * (k * k) < r * k => (n * k) % r = n * k
      /\ n * (k * k * k) < r * k => /\ ((k * n) * k) % r = (k * n) * k /\ ~(n > (r - 1) \div k)
      /\ n * k >= r => n > (r - 1) \div k
  BY <1>1, ProductsFit, Zenon
<1>3. /\ UnitsOf("us") = k /\ UnitsOf("ms") = k * k /\ UnitsOf("sec") = k * k * k
      /\ "us" # "sec" /\ "ms" # "sec" /\ "us" # "ms"
  <2>1. "us" # "sec" /\ "ms" # "sec" /\ "us" # "ms"
    OBVIOUS
  <2>2. QED
    BY <2>1, Zenon DEF UnitsOf
<1>4. ASSUME NEW f, NEW out, n * UnitsOf(f) < r * k => SleptWell(calls, select, n * UnitsOf(f), out),
             f = "sec" /\ n * k >= r => out = Slept(EOVERFLOW, 0)
      PROVE  SleepKeeps(f, x, out)
  BY <1>4, Zenon DEF SleepKeeps, SleptWell
<1>5. SleepKeeps("us", x, sleepus(n, calls, selected))
  <2>1. SleptWell(calls, select, n * k, sleepus(n, calls, selected))
    BY <1>1, MicrosecondsAreSlept, Zenon
  <2>2. QED
    BY <1>3, <1>4, <2>1, Zenon
<1>6. SleepKeeps("ms", x, sleepms(n, calls, selected))
  <2>1. ASSUME n * UnitsOf("ms") < r * k PROVE SleptWell(calls, select, n * UnitsOf("ms"), sleepms(n, calls, selected))
    <3>1. (n * k) % r = n * k
      BY <1>2, <1>3, <2>1, Zenon
    <3>2. sleepms(n, calls, selected) = sleepus(n * k, calls, selected)
      BY <3>1, Zenon DEF sleepms
    <3>3. n * k \in Nat /\ (n * k) * k = n * (k * k)
      BY <1>1
    <3>4. SleptWell(calls, select, (n * k) * k, sleepus(n * k, calls, selected))
      BY <3>3, MicrosecondsAreSlept, Zenon
    <3>5. QED
      BY <1>3, <3>2, <3>3, <3>4, Zenon
  <2>2. QED
    BY <1>3, <1>4, <2>1, Zenon
<1>7. SleepKeeps("sec", x, sleepsec(n, calls, selected))
  <2>1. ASSUME n * UnitsOf("sec") < r * k PROVE SleptWell(calls, select, n * UnitsOf("sec"), sleepsec(n, calls, selected))
    <3>1. ((k * n) * k) % r = (k * n) * k /\ ~(n > (r - 1) \div k)
      BY <1>2, <1>3, <2>1, Zenon
    <3>2. sleepsec(n, calls, selected) = sleepus((k * n) * k, calls, selected)
      BY <3>1, Zenon DEF sleepsec, sleepms
    <3>3. (k * n) * k \in Nat /\ ((k * n) * k) * k = n * (k * k * k)
      BY <1>1
    <3>4. SleptWell(calls, select, ((k * n) * k) * k, sleepus((k * n) * k, calls, selected))
      BY <3>3, MicrosecondsAreSlept, Zenon
    <3>5. QED
      BY <1>3, <3>2, <3>3, <3>4, Zenon
  <2>2. ASSUME n * k >= r PROVE sleepsec(n, calls, selected) = Slept(EOVERFLOW, 0)
    BY <1>2, <2>2, Zenon DEF sleepsec
  <2>3. QED
    BY <1>4, <2>1, <2>2, Zenon
<1>8. QED
  BY <1>5, <1>6, <1>7

-----------------------------------------------------------------------------
(* The texts                                                               *)

LEMMA StampIsCorrect ==
    ASSUME NEW string \in {"", "CAL_TIME_NOT_AVAILABLE", "noon"}, NEW now \in {"noon", "error"}, NEW out,
           out = get_current_timestamp(string, now)
    PROVE  out.ok = (out.string = "noon") /\ (string = "noon" => out.ok)
<1>1. "" # "noon" /\ "CAL_TIME_NOT_AVAILABLE" # "noon" /\ "error" # "noon"
  OBVIOUS
<1> DEFINE Stamped(ok, text) == [ok |-> ok, string |-> text]
<1>0. \A ok, text : Stamped(ok, text).ok = ok /\ Stamped(ok, text).string = text
  OBVIOUS
<1>2. CASE string \in {"", "CAL_TIME_NOT_AVAILABLE"}
  <2>1. out = [ok |-> now # "error", string |-> IF now = "error" THEN "CAL_TIME_NOT_AVAILABLE" ELSE now]
    BY <1>2, Zenon DEF get_current_timestamp
  <2>2. string # "noon"
    BY <1>1, <1>2
  <2>3. CASE now = "error"
    <3>1. out = [ok |-> FALSE, string |-> "CAL_TIME_NOT_AVAILABLE"]
      BY <2>1, <2>3, Zenon
    <3>2. out.ok = FALSE /\ out.string = "CAL_TIME_NOT_AVAILABLE"
      BY <1>0, <3>1, Zenon
    <3>3. QED
      BY <1>1, <2>2, <3>2, Zenon
  <2>4. CASE now = "noon"
    <3>1. out = [ok |-> TRUE, string |-> "noon"]
      BY <1>1, <2>1, <2>4, Zenon
    <3>2. out.ok = TRUE /\ out.string = "noon"
      BY <1>0, <3>1, Zenon
    <3>3. QED
      BY <3>2, Zenon
  <2>5. QED
    BY <2>3, <2>4
<1>3. CASE string = "noon"
  <2>1. string \notin {"", "CAL_TIME_NOT_AVAILABLE"}
    BY <1>1, <1>3
  <2>2. out = [ok |-> TRUE, string |-> string]
    BY <2>1, Zenon DEF get_current_timestamp
  <2>3. out.ok = TRUE /\ out.string = "noon"
    BY <1>3, <2>2
  <2>4. QED
    BY <2>3, Zenon
<1>4. QED
  BY <1>2, <1>3, Zenon

LEMMA FileTimeIsCorrect ==
    ASSUME NEW intervals \in Int
    PROVE  win_filetime_to_struct_timespec(intervals).res <=> intervals >= 0
<1>1. ASSUME intervals < 0 PROVE win_filetime_to_struct_timespec(intervals).res = FALSE /\ ~(intervals >= 0)
  BY <1>1, SMT DEF win_filetime_to_struct_timespec, Timespec
<1>2. ASSUME ~(intervals < 0) PROVE win_filetime_to_struct_timespec(intervals).res = TRUE /\ intervals >= 0
  BY <1>2, SMT DEF win_filetime_to_struct_timespec, Timespec
<1>3. QED
  BY <1>1, <1>2, Zenon

-----------------------------------------------------------------------------
(* The years of the calendar                                               *)

Extra(leap) == IF leap THEN 1 ELSE 0

\* A multiple of k is where the quotient grows.
LEMMA QuotientGrows ==
    ASSUME NEW y \in Nat \ {0}
    PROVE  /\ y \div 4 = ((y - 1) \div 4) + IF y % 4 = 0 THEN 1 ELSE 0
           /\ y \div 100 = ((y - 1) \div 100) + IF y % 100 = 0 THEN 1 ELSE 0
           /\ y \div 400 = ((y - 1) \div 400) + IF y % 400 = 0 THEN 1 ELSE 0
           /\ y % 400 = 0 => y % 100 = 0
           /\ y % 100 = 0 => y % 4 = 0
<1>1. y \div 4 = ((y - 1) \div 4) + IF y % 4 = 0 THEN 1 ELSE 0
  OBVIOUS
<1>2. y \div 100 = ((y - 1) \div 100) + IF y % 100 = 0 THEN 1 ELSE 0
  OBVIOUS
<1>3. y \div 400 = ((y - 1) \div 400) + IF y % 400 = 0 THEN 1 ELSE 0
  OBVIOUS
<1>4. y % 400 = 0 => y % 100 = 0
  OBVIOUS
<1>5. y % 100 = 0 => y % 4 = 0
  OBVIOUS
<1>6. QED
  BY <1>1, <1>2, <1>3, <1>4, <1>5, Zenon

LEMMA LeapsGrow ==
    ASSUME NEW y \in Nat \ {0}
    PROVE  /\ Leaps(y) \in Int /\ Leaps(y - 1) \in Int
           /\ Leaps(y) = Leaps(y - 1) + Extra(is_Year_A_Leap_Year(y))
<1> DEFINE a == (y - 1) \div 4
           b == (y - 1) \div 100
           c == (y - 1) \div 400
           A == y \div 4
           B == y \div 100
           C == y \div 400
           r == y % 4
           s == y % 100
           u == y % 400
<1>1. a \in Int /\ b \in Int /\ c \in Int
  OBVIOUS
<1>2. /\ A = a + (IF r = 0 THEN 1 ELSE 0) /\ B = b + (IF s = 0 THEN 1 ELSE 0) /\ C = c + (IF u = 0 THEN 1 ELSE 0)
      /\ (u = 0 => s = 0) /\ (s = 0 => r = 0)
  BY QuotientGrows
<1>3. Leaps(y) = A - B + C /\ Leaps(y - 1) = a - b + c
  BY Zenon DEF Leaps
<1>4. Extra(is_Year_A_Leap_Year(y)) = IF r = 0 /\ (s # 0 \/ u = 0) THEN 1 ELSE 0
  BY Zenon DEF Extra, is_Year_A_Leap_Year
<1> HIDE DEF a, b, c, A, B, C, r, s, u
<1>5. A \in Int /\ B \in Int /\ C \in Int
  BY <1>1, <1>2
<1>6. QED
  BY <1>1, <1>2, <1>3, <1>4, <1>5

Years == {y \in Nat : y >= 1970}

LEMMA YearIsLong ==
    ASSUME NEW y \in Years
    PROVE  /\ DaysBeforeYear(y) \in Int /\ DaysBeforeYear(y + 1) \in Int
           /\ DaysBeforeYear(y + 1) = DaysBeforeYear(y) + 365 + Extra(is_Year_A_Leap_Year(y))
           /\ Extra(is_Year_A_Leap_Year(y)) \in {0, 1}
<1>0. y \in Nat /\ y >= 1970
  BY DEF Years
<1>1. /\ Leaps(y) \in Int /\ Leaps(y - 1) \in Int
      /\ Leaps(y) = Leaps(y - 1) + Extra(is_Year_A_Leap_Year(y))
  <2>1. y \in Nat \ {0}
    BY <1>0
  <2>2. QED
    BY <2>1, LeapsGrow
<1>2. Leaps(1969) \in Int
  <2>1. 1969 \in Nat \ {0}
    OBVIOUS
  <2>2. QED
    BY <2>1, LeapsGrow, SMT
<1>3. (y + 1) - 1 = y
  BY <1>0
<1>4. DaysBeforeYear(y) = 365 * (y - 1970) + Leaps(y - 1) - Leaps(1969)
  BY DEF DaysBeforeYear
<1>5. DaysBeforeYear(y + 1) = 365 * ((y + 1) - 1970) + Leaps(y) - Leaps(1969)
  BY <1>3 DEF DaysBeforeYear
<1>6. Extra(is_Year_A_Leap_Year(y)) \in {0, 1}
  BY DEF Extra
<1>7. QED
  BY <1>0, <1>1, <1>2, <1>4, <1>5, <1>6

\* So n years have between 365 and 366 times n days.
Apart(y, n) ==
    /\ 365 * n <= DaysBeforeYear(y + n) - DaysBeforeYear(y)
    /\ DaysBeforeYear(y + n) - DaysBeforeYear(y) <= 366 * n

LEMMA YearsApart ==
    ASSUME NEW y \in Years, NEW n \in Nat
    PROVE  Apart(y, n)
<1> DEFINE Lost == {k \in Nat : ~Apart(y, k)}
<1>1. SUFFICES ASSUME Lost # {} PROVE FALSE
  BY <1>1
<1> DEFINE k == Min(Lost)
<1>2. k \in Lost /\ \A j \in Lost : k <= j
  <2>1. Lost \subseteq Nat
    OBVIOUS
  <2> HIDE DEF Lost
  <2>2. QED
    BY <1>1, <2>1, LeastNumber, Zenon
<1> HIDE DEF k
<1>3. CASE k = 0
  <2>1. DaysBeforeYear(y) \in Int /\ y + 0 = y
    BY YearIsLong DEF Years
  <2>2. Apart(y, 0)
    BY <2>1 DEF Apart
  <2>3. QED
    BY <1>2, <1>3, <2>2
<1>4. CASE k # 0
  <2>1. k - 1 \in Nat /\ k \in Nat /\ k - 1 \notin Lost
    BY <1>2, <1>4
  <2>2. Apart(y, k - 1)
    BY <2>1
  <2> DEFINE z == y + (k - 1)
  <2>3. z \in Years /\ z + 1 = y + k
    BY <2>1 DEF Years
  <2>4. /\ DaysBeforeYear(z) \in Int /\ DaysBeforeYear(y + k) \in Int
        /\ DaysBeforeYear(y + k) = DaysBeforeYear(z) + 365 + Extra(is_Year_A_Leap_Year(z))
        /\ Extra(is_Year_A_Leap_Year(z)) \in {0, 1}
    <3> HIDE DEF z
    <3>1. QED
      BY <2>3, YearIsLong
  <2>5. DaysBeforeYear(y) \in Int
    BY YearIsLong
  <2>6. 365 * (k - 1) <= DaysBeforeYear(z) - DaysBeforeYear(y) /\ DaysBeforeYear(z) - DaysBeforeYear(y) <= 366 * (k - 1)
    BY <2>2 DEF Apart
  <2> HIDE DEF z
  <2>7. Apart(y, k)
    BY <2>1, <2>4, <2>5, <2>6 DEF Apart
  <2>8. QED
    BY <1>2, <2>7
<1>5. QED
  BY <1>3, <1>4

LEMMA FirstYear == DaysBeforeYear(1970) = 0
<1>1. Leaps(1969) \in Int
  <2>1. 1969 \in Nat \ {0}
    OBVIOUS
  <2>2. QED
    BY <2>1, LeapsGrow, SMT
<1>2. DaysBeforeYear(1970) = 365 * (1970 - 1970) + Leaps(1970 - 1) - Leaps(1969)
  BY DEF DaysBeforeYear
<1>3. 1970 - 1 = 1969 /\ 1970 - 1970 = 0
  OBVIOUS
<1>4. QED
  BY <1>1, <1>2, <1>3

\* The year of a day begins no later, and ends after it.
YearsUpTo(day) == {y \in 1970 + (day \div 366) .. 1970 + (day \div 365) : DaysBeforeYear(y) <= day}
YearOf(day) == Max(YearsUpTo(day))

LEMMA YearHoldsDay ==
    ASSUME NEW day \in Nat
    PROVE  /\ YearOf(day) \in Years
           /\ DaysBeforeYear(YearOf(day)) <= day /\ day < DaysBeforeYear(YearOf(day) + 1)
<1> DEFINE lo == day \div 366
           hi == day \div 365
           S  == YearsUpTo(day)
<1>1. lo \in Nat /\ hi \in Nat /\ lo <= hi /\ 366 * lo <= day /\ day < 365 * (hi + 1)
  OBVIOUS
<1>0. S = {y \in 1970 + lo .. 1970 + hi : DaysBeforeYear(y) <= day}
  BY DEF YearsUpTo
<1> HIDE DEF lo, hi, S
<1>2. \A n \in Nat : 365 * n <= DaysBeforeYear(1970 + n) /\ DaysBeforeYear(1970 + n) <= 366 * n
                     /\ DaysBeforeYear(1970 + n) \in Int
  <2>1. TAKE n \in Nat
  <2>2. 1970 \in Years /\ 1970 + n \in Years
    BY DEF Years
  <2>3. Apart(1970, n)
    BY <2>2, YearsApart
  <2>4. DaysBeforeYear(1970 + n) \in Int
    BY <2>2, YearIsLong
  <2>5. QED
    BY <2>3, <2>4, FirstYear DEF Apart
<1>3. 1970 + lo \in S
  <2>1. DaysBeforeYear(1970 + lo) <= day
    BY <1>1, <1>2
  <2>2. QED
    BY <1>0, <1>1, <2>1
<1>4. \E x \in S : \A y \in S : y <= x
  <2>1. S \subseteq 0 .. 1970 + hi
    BY <1>0, <1>1
  <2> DEFINE w == 1970 + hi
  <2>2. w \in Nat /\ S # {}
    BY <1>1, <1>3
  <2> HIDE DEF S, w
  <2>3. S \subseteq 0 .. w
    BY <2>1 DEF w
  <2>4. QED
    BY <2>2, <2>3, LargestNumber
<1>5. PICK x \in S : \A y \in S : y <= x
  BY <1>4
<1>6. YearOf(day) = x
  <2>1. S \subseteq Int
    BY <1>0, <1>1
  <2>2. YearOf(day) = Max(S)
    BY Zenon DEF YearOf, S
  <2>3. Max(S) = x
    BY <1>5, <2>1, MaxIs, Zenon
  <2>4. QED
    BY <2>2, <2>3
<1>7. x \in Nat /\ x >= 1970 /\ x \in Years /\ x <= 1970 + hi /\ x >= 1970 + lo /\ DaysBeforeYear(x) <= day
  BY <1>0, <1>1 DEF Years
<1>8. DaysBeforeYear(x + 1) \in Int
  BY <1>7, YearIsLong
<1>9. CASE x + 1 <= 1970 + hi
  <2>1. x + 1 \notin S
    BY <1>5, <1>7
  <2>2. ~(DaysBeforeYear(x + 1) <= day)
    BY <1>0, <1>1, <1>7, <1>9, <2>1
  <2>3. QED
    BY <1>6, <1>7, <1>8, <2>2
<1>10. CASE ~(x + 1 <= 1970 + hi)
  <2>1. x + 1 = 1970 + (hi + 1) /\ hi + 1 \in Nat
    BY <1>1, <1>7, <1>10
  <2>2. 365 * (hi + 1) <= DaysBeforeYear(x + 1)
    BY <1>2, <2>1
  <2>3. day < DaysBeforeYear(x + 1)
    BY <1>1, <1>8, <2>2
  <2>4. QED
    BY <1>6, <1>7, <2>3
<1>11. QED
  BY <1>9, <1>10

-----------------------------------------------------------------------------
(* The months                                                              *)

\* How long each month is.
Monthly(leap) == MonthLengths(leap)
MonthTable(leap, m) == FirstOfMonth[m + 1] + IF leap /\ m > 1 THEN 1 ELSE 0

LEMMA TableGrows ==
    ASSUME NEW leap \in BOOLEAN
    PROVE  /\ MonthTable(leap, 0) = 0 /\ MonthTable(leap, 11) = 334 + Extra(leap)
           /\ \A m \in 0 .. 11 : MonthTable(leap, m) \in Nat /\ Monthly(leap)[m + 1] \in 28 .. 31
           /\ \A m \in 1 .. 11 : MonthTable(leap, m) = MonthTable(leap, m - 1) + Monthly(leap)[m]
<1> DEFINE L == Monthly(leap)
           T(m) == MonthTable(leap, m)
           e == Extra(leap)
<1>1. /\ L[1] = 31 /\ L[2] = 28 + e /\ L[3] = 31 /\ L[4] = 30 /\ L[5] = 31 /\ L[6] = 30
      /\ L[7] = 31 /\ L[8] = 31 /\ L[9] = 30 /\ L[10] = 31 /\ L[11] = 30 /\ L[12] = 31
  BY DEF Monthly, MonthLengths, Extra
<1>2. /\ T(0) = 0 /\ T(1) = 31 /\ T(2) = 59 + e /\ T(3) = 90 + e /\ T(4) = 120 + e /\ T(5) = 151 + e
      /\ T(6) = 181 + e /\ T(7) = 212 + e /\ T(8) = 243 + e /\ T(9) = 273 + e /\ T(10) = 304 + e /\ T(11) = 334 + e
  BY DEF MonthTable, FirstOfMonth, Extra
<1>3. e \in {0, 1}
  BY DEF Extra
<1> HIDE DEF L, T, e
<1>4. ASSUME NEW m \in 1 .. 11
      PROVE  /\ T(m) = T(m - 1) + L[m] /\ T(m) \in Nat /\ L[m + 1] \in 28 .. 31
  <2>1. CASE m = 1
    BY <1>1, <1>2, <1>3, <2>1
  <2>2. CASE m = 2
    BY <1>1, <1>2, <1>3, <2>2
  <2>3. CASE m = 3
    BY <1>1, <1>2, <1>3, <2>3
  <2>4. CASE m = 4
    BY <1>1, <1>2, <1>3, <2>4
  <2>5. CASE m = 5
    BY <1>1, <1>2, <1>3, <2>5
  <2>6. CASE m = 6
    BY <1>1, <1>2, <1>3, <2>6
  <2>7. CASE m = 7
    BY <1>1, <1>2, <1>3, <2>7
  <2>8. CASE m = 8
    BY <1>1, <1>2, <1>3, <2>8
  <2>9. CASE m = 9
    BY <1>1, <1>2, <1>3, <2>9
  <2>10. CASE m = 10
    BY <1>1, <1>2, <1>3, <2>10
  <2>11. CASE m = 11
    BY <1>1, <1>2, <1>3, <2>11
  <2>12. QED
    BY <2>1, <2>2, <2>3, <2>4, <2>5, <2>6, <2>7, <2>8, <2>9, <2>10, <2>11
<1>5. T(0) \in Nat /\ L[0 + 1] \in 28 .. 31
  BY <1>1, <1>2
<1>6. \A m \in 0 .. 11 : m = 0 \/ m \in 1 .. 11
  OBVIOUS
<1>7. \A m \in 0 .. 11 : T(m) \in Nat /\ L[m + 1] \in 28 .. 31
  BY <1>4, <1>5, <1>6, Zenon
<1>8. QED
  BY <1>2, <1>4, <1>7, Zenon DEF L, T, e

\* The sum of the lengths is what the table has.
LEMMA MonthsAreSummed ==
    ASSUME NEW leap \in BOOLEAN, NEW month \in 0 .. 11
    PROVE  DaysBeforeMonth(leap, month) = MonthTable(leap, month)
<1> DEFINE Sums(g) == g = [m \in 0 .. month |-> IF m = 0 THEN 0 ELSE g[m - 1] + MonthLengths(leap)[m]]
           T(m) == MonthTable(leap, m)
           table == [m \in 0 .. month |-> T(m)]
           sum == CHOOSE g : Sums(g)
<1>1. /\ T(0) = 0 /\ \A m \in 0 .. 11 : T(m) \in Nat
      /\ \A m \in 1 .. 11 : T(m) = T(m - 1) + MonthLengths(leap)[m]
  BY TableGrows, Zenon DEF Monthly
<1> HIDE DEF T
<1>2. Sums(table)
  <2>1. ASSUME NEW m \in 0 .. month
        PROVE  table[m] = IF m = 0 THEN 0 ELSE table[m - 1] + MonthLengths(leap)[m]
    <3>1. CASE m = 0
      BY <1>1, <3>1
    <3>2. CASE m # 0
      <4>1. m \in 1 .. 11 /\ m - 1 \in 0 .. month
        BY <3>2
      <4>2. table[m - 1] = T(m - 1) /\ table[m] = T(m)
        BY <4>1
      <4>3. QED
        BY <1>1, <3>2, <4>1, <4>2
    <3>3. QED
      BY <3>1, <3>2
  <2>2. table = [m \in 0 .. month |-> table[m]]
    OBVIOUS
  <2> HIDE DEF table
  <2>3. QED
    BY <2>1, <2>2
<1>3. Sums(sum)
  <2> HIDE DEF Sums
  <2>1. QED
    BY <1>2, Zenon
<1>4. DaysBeforeMonth(leap, month) = sum[month]
  BY Zenon DEF DaysBeforeMonth
<1> HIDE DEF sum, table
<1> DEFINE Lost == {m \in 0 .. month : sum[m] # T(m)}
<1>5. Lost = {}
  <2> SUFFICES ASSUME Lost # {} PROVE FALSE
    OBVIOUS
  <2> DEFINE k == Min(Lost)
  <2>1. k \in Lost /\ \A j \in Lost : k <= j
    <3>1. Lost \subseteq Nat
      OBVIOUS
    <3> HIDE DEF Lost
    <3>2. QED
      BY <3>1, LeastNumber, Zenon
  <2> HIDE DEF k
  <2>2. k \in 0 .. month /\ sum[k] # T(k)
    BY <2>1
  <2>3. sum[k] = IF k = 0 THEN 0 ELSE sum[k - 1] + MonthLengths(leap)[k]
    BY <1>3, <2>2
  <2>4. CASE k = 0
    BY <1>1, <2>2, <2>3, <2>4
  <2>5. CASE k # 0
    <3>1. k \in 1 .. 11 /\ k - 1 \in 0 .. month /\ k - 1 \notin Lost
      BY <2>1, <2>2, <2>5
    <3>2. sum[k - 1] = T(k - 1)
      BY <3>1
    <3>3. QED
      BY <1>1, <2>2, <2>3, <2>5, <3>1, <3>2
  <2>6. QED
    BY <2>4, <2>5
<1>6. month \in 0 .. month /\ month \notin Lost
  BY <1>5
<1>7. sum[month] = T(month)
  BY <1>6
<1>8. QED
  BY <1>4, <1>7 DEF T

MonthOf(leap, yday) == Max({m \in 0 .. 11 : DaysBeforeMonth(leap, m) <= yday})

\* The month of a day of the year has that day.
LEMMA MonthHoldsDay ==
    ASSUME NEW leap \in BOOLEAN, NEW yday \in Nat, yday < 365 + Extra(leap)
    PROVE  /\ MonthOf(leap, yday) \in 0 .. 11
           /\ yday - DaysBeforeMonth(leap, MonthOf(leap, yday)) + 1 \in 1 .. Monthly(leap)[MonthOf(leap, yday) + 1]
<1> DEFINE T(m) == MonthTable(leap, m)
           L == Monthly(leap)
           S == {m \in 0 .. 11 : DaysBeforeMonth(leap, m) <= yday}
<1>1. /\ T(0) = 0 /\ T(11) = 334 + Extra(leap)
      /\ \A m \in 0 .. 11 : T(m) \in Nat /\ L[m + 1] \in 28 .. 31
      /\ \A m \in 1 .. 11 : T(m) = T(m - 1) + L[m]
  BY TableGrows, Zenon
<1>2. \A m \in 0 .. 11 : DaysBeforeMonth(leap, m) = T(m)
  BY MonthsAreSummed, Zenon
<1>3. Extra(leap) \in {0, 1} /\ L[12] = 31
  BY DEF Extra, Monthly, MonthLengths
<1> HIDE DEF T, L
<1>4. 0 \in S
  BY <1>1, <1>2
<1>5. PICK x \in S : \A y \in S : y <= x
  <2>1. S \subseteq 0 .. 11 /\ 11 \in Nat /\ S # {}
    BY <1>4
  <2> HIDE DEF S
  <2>2. QED
    BY <2>1, LargestNumber, Zenon
<1>6. MonthOf(leap, yday) = x
  <2>1. S \subseteq Int
    OBVIOUS
  <2>2. MonthOf(leap, yday) = Max(S)
    BY Zenon DEF MonthOf
  <2> HIDE DEF S
  <2>3. Max(S) = x
    BY <1>5, <2>1, MaxIs, Zenon
  <2>4. QED
    BY <2>2, <2>3
<1>7. x \in 0 .. 11 /\ T(x) <= yday
  BY <1>2
<1>8. yday - T(x) + 1 \in 1 .. L[x + 1]
  <2>1. CASE x = 11
    <3>1. T(x) = 334 + Extra(leap) /\ L[x + 1] = 31
      BY <1>1, <1>3, <2>1
    <3>2. QED
      BY <1>3, <1>7, <3>1
  <2>2. CASE x # 11
    <3>1. x + 1 \in 1 .. 11 /\ x + 1 \in 0 .. 11 /\ (x + 1) - 1 = x
      BY <1>7, <2>2
    <3>2. x + 1 \notin S
      BY <1>5, <1>7
    <3>3. ~(T(x + 1) <= yday)
      BY <1>2, <3>1, <3>2
    <3>4. T(x + 1) = T(x) + L[x + 1] /\ T(x) \in Nat /\ L[x + 1] \in 28 .. 31
      BY <1>1, <1>7, <3>1
    <3>5. QED
      BY <1>7, <3>3, <3>4
  <2>3. QED
    BY <2>1, <2>2
<1>9. QED
  BY <1>2, <1>6, <1>7, <1>8 DEF L

-----------------------------------------------------------------------------
(* The calendar                                                            *)

YearNumber(tm) == tm.year + 1900
ClockOf(tm) == (tm.hour * 3600) + (tm.min * 60) + tm.sec

\* A date and the time it is of.
Date(t, tm) ==
    LET leap == is_Year_A_Leap_Year(YearNumber(tm))
    IN /\ tm.year \in Nat /\ YearNumber(tm) \in Years
       /\ tm.mon \in 0 .. 11 /\ tm.mday \in 1 .. Monthly(leap)[tm.mon + 1]
       /\ tm.yday \in Nat /\ tm.yday < 365 + Extra(leap) /\ tm.yday = MonthTable(leap, tm.mon) + tm.mday - 1
       /\ t \div DAY = DaysBeforeYear(YearNumber(tm)) + tm.yday
       /\ tm.hour \in 0 .. 23 /\ tm.min \in 0 .. 59 /\ tm.sec \in 0 .. 59 /\ ClockOf(tm) = t % DAY
       /\ tm.wday = ((t \div DAY) + 4) % 7

LEMMA DaysOfTime ==
    ASSUME NEW t \in Nat
    PROVE  /\ t \div DAY \in Nat /\ t % DAY \in Nat /\ t % DAY < DAY /\ t = DAY * (t \div DAY) + (t % DAY)
           /\ DAY \in Nat \ {0}
BY DEF DAY

LEMMA PartsOfDay ==
    ASSUME NEW rest \in Nat, rest < DAY
    PROVE  /\ rest \div 3600 \in 0 .. 23 /\ (rest % 3600) \div 60 \in 0 .. 59 /\ rest % 60 \in 0 .. 59
           /\ ((rest \div 3600) * 3600) + (((rest % 3600) \div 60) * 60) + (rest % 60) = rest
<1> DEFINE h == rest \div 3600
           r == rest % 3600
           m == r \div 60
           s == rest % 60
<1>1. h \in Nat /\ r \in 0 .. 3599 /\ rest = 3600 * h + r
  OBVIOUS
<1>2. h <= 23
  BY <1>1 DEF DAY
<1>3. r % 60 = s
  OBVIOUS
<1> HIDE DEF h, r
<1>4. m \in 0 .. 59 /\ r = 60 * m + (r % 60) /\ r % 60 \in 0 .. 59
  BY <1>1
<1> HIDE DEF m, s
<1>5. s \in 0 .. 59 /\ r = 60 * m + s
  BY <1>3, <1>4
<1>6. h * 3600 + m * 60 + s = rest /\ h \in 0 .. 23
  BY <1>1, <1>2, <1>4, <1>5
<1>7. QED
  BY <1>4, <1>5, <1>6 DEF h, m, r, s

LEMMA CalendarDates ==
    ASSUME NEW t \in Nat
    PROVE  Date(t, Calendar(t))
<1> DEFINE tm    == Calendar(t)
           day   == t \div DAY
           rest  == t % DAY
           year  == YearOf(day)
           leap  == is_Year_A_Leap_Year(year)
           yday  == day - DaysBeforeYear(year)
           month == MonthOf(leap, yday)
<1>1. tm = [year |-> year - 1900, mon |-> month, yday |-> yday, wday |-> (day + 4) % 7,
            mday |-> yday - DaysBeforeMonth(leap, month) + 1,
            hour |-> rest \div 3600, min |-> (rest % 3600) \div 60, sec |-> rest % 60]
  BY DEF Calendar, YearOf, YearsUpTo, MonthOf
<1>2. day \in Nat /\ rest \in Nat /\ rest < DAY
  BY DaysOfTime, Zenon
<1> HIDE DEF tm, day, rest
<1>3. year \in Years /\ DaysBeforeYear(year) <= day /\ day < DaysBeforeYear(year + 1)
  BY <1>2, YearHoldsDay, Zenon
<1> HIDE DEF year
<1>4. /\ DaysBeforeYear(year) \in Int /\ DaysBeforeYear(year + 1) = DaysBeforeYear(year) + 365 + Extra(leap)
      /\ Extra(leap) \in {0, 1}
  BY <1>3, YearIsLong, Zenon
<1>5. leap \in BOOLEAN
  BY DEF is_Year_A_Leap_Year
<1> HIDE DEF leap
<1>6. yday \in Nat /\ yday < 365 + Extra(leap) /\ day = DaysBeforeYear(year) + yday
  BY <1>2, <1>3, <1>4
<1> HIDE DEF yday
<1>7. month \in 0 .. 11 /\ yday - DaysBeforeMonth(leap, month) + 1 \in 1 .. Monthly(leap)[month + 1]
  BY <1>5, <1>6, MonthHoldsDay, Zenon
<1> HIDE DEF month
<1>8. DaysBeforeMonth(leap, month) = MonthTable(leap, month)
  BY <1>5, <1>7, MonthsAreSummed, Zenon
<1>9. MonthTable(leap, month) \in Nat
  BY <1>5, <1>7, TableGrows, Zenon
<1> DEFINE mday == yday - MonthTable(leap, month) + 1
<1>10. mday \in 1 .. Monthly(leap)[month + 1] /\ yday = MonthTable(leap, month) + mday - 1
  BY <1>6, <1>7, <1>8, <1>9
<1>11. /\ rest \div 3600 \in 0 .. 23 /\ (rest % 3600) \div 60 \in 0 .. 59 /\ rest % 60 \in 0 .. 59
       /\ ((rest \div 3600) * 3600) + (((rest % 3600) \div 60) * 60) + (rest % 60) = rest
  BY <1>2, PartsOfDay
<1>12. year - 1900 \in Nat /\ (year - 1900) + 1900 = year
  BY <1>3 DEF Years
<1>13. /\ tm.year = year - 1900 /\ tm.mon = month /\ tm.yday = yday /\ tm.wday = (day + 4) % 7 /\ tm.mday = mday
       /\ tm.hour = rest \div 3600 /\ tm.min = (rest % 3600) \div 60 /\ tm.sec = rest % 60
  BY <1>1, <1>8
<1> HIDE DEF mday
<1>14. /\ tm.year \in Nat /\ YearNumber(tm) = year /\ is_Year_A_Leap_Year(YearNumber(tm)) = leap
  BY <1>12, <1>13 DEF leap, YearNumber
<1>15. tm.hour \in 0 .. 23 /\ tm.min \in 0 .. 59 /\ tm.sec \in 0 .. 59 /\ ClockOf(tm) = rest
  BY <1>11, <1>13 DEF ClockOf
<1>16. /\ YearNumber(tm) \in Years
       /\ tm.mon \in 0 .. 11 /\ tm.mday \in 1 .. Monthly(leap)[tm.mon + 1]
       /\ tm.yday \in Nat /\ tm.yday < 365 + Extra(leap) /\ tm.yday = MonthTable(leap, tm.mon) + tm.mday - 1
       /\ day = DaysBeforeYear(YearNumber(tm)) + tm.yday /\ tm.wday = (day + 4) % 7
  <2>1. YearNumber(tm) \in Years /\ tm.mon \in 0 .. 11 /\ tm.mday \in 1 .. Monthly(leap)[tm.mon + 1]
    BY <1>3, <1>7, <1>10, <1>13, <1>14
  <2>2. tm.yday \in Nat /\ tm.yday < 365 + Extra(leap) /\ tm.yday = MonthTable(leap, tm.mon) + tm.mday - 1
    BY <1>6, <1>10, <1>13
  <2>3. day = DaysBeforeYear(YearNumber(tm)) + tm.yday /\ tm.wday = (day + 4) % 7
    BY <1>6, <1>13, <1>14
  <2>4. QED
    BY <2>1, <2>2, <2>3, Zenon
<1>17. QED
  BY <1>14, <1>15, <1>16, Zenon DEF Date, tm, day, rest

-----------------------------------------------------------------------------
(* The reference for a date                                                *)

\* The years before a date, one by one.
OneYearMore(g, y) == IF y = 1970 THEN 0 ELSE g[y - 1] + (IF IsLeap(y - 1) THEN 366 ELSE 365)
YearsTo(last) == 1970 .. last
YearSum(g, last) == g = [y \in YearsTo(last) |-> OneYearMore(g, y)]
DaysUpTo(last) == CHOOSE g : YearSum(g, last)

LEMMA YearsAreSummed ==
    ASSUME NEW last \in Years
    PROVE  \E g : YearSum(g, last)
<1> DEFINE D(y) == DaysBeforeYear(y)
           g == [y \in 1970 .. last |-> D(y)]
<1>1. last \in Nat /\ last >= 1970
  BY DEF Years
<1>2. ASSUME NEW y \in 1970 .. last
      PROVE  g[y] = OneYearMore(g, y)
  <2>1. CASE y = 1970
    BY <2>1, FirstYear DEF OneYearMore
  <2>2. CASE y # 1970
    <3>1. y - 1 \in Years /\ y - 1 \in 1970 .. last /\ (y - 1) + 1 = y
      BY <1>1, <2>2 DEF Years
    <3>2. D(y) = D(y - 1) + 365 + Extra(is_Year_A_Leap_Year(y - 1)) /\ D(y - 1) \in Int
      BY <3>1, YearIsLong
    <3>3. 365 + Extra(is_Year_A_Leap_Year(y - 1)) = IF IsLeap(y - 1) THEN 366 ELSE 365
      BY DEF Extra, IsLeap, is_Year_A_Leap_Year
    <3>4. Extra(is_Year_A_Leap_Year(y - 1)) \in {0, 1}
      BY DEF Extra
    <3>5. g[y] = D(y) /\ g[y - 1] = D(y - 1)
      BY <3>1
    <3> HIDE DEF D, g
    <3>6. QED
      BY <2>2, <3>2, <3>3, <3>4, <3>5 DEF OneYearMore
  <2>3. QED
    BY <2>1, <2>2
<1>3. g = [y \in 1970 .. last |-> g[y]]
  OBVIOUS
<1> HIDE DEF g
<1>4. YearSum(g, last)
  BY <1>2, <1>3 DEF YearSum, YearsTo
<1>5. QED
  BY <1>4

LEMMA SumIsDays ==
    ASSUME NEW last \in Years, NEW g, YearSum(g, last)
    PROVE  g[last] = DaysBeforeYear(last)
<1> DEFINE Off(n) == n + 1970 <= last /\ g[n + 1970] # DaysBeforeYear(n + 1970)
           Lost == {n \in Nat : Off(n)}
<1>0. last \in Nat /\ last >= 1970
  BY DEF Years
<1>1. SUFFICES ASSUME Lost # {} PROVE FALSE
  <2>1. last - 1970 \in Nat /\ (last - 1970) + 1970 = last
    BY <1>0
  <2>2. g[last] # DaysBeforeYear(last) => Off(last - 1970)
    BY <1>0, <2>1
  <2> HIDE DEF Off
  <2>3. QED
    BY <1>1, <2>1, <2>2
<1> DEFINE k == Min(Lost)
<1>2. k \in Lost /\ \A j \in Lost : k <= j
  <2>1. Lost \subseteq Nat
    OBVIOUS
  <2> HIDE DEF Lost
  <2>2. QED
    BY <1>1, <2>1, LeastNumber, Zenon
<1> HIDE DEF k
<1>3. k \in Nat /\ k + 1970 \in 1970 .. last /\ g[k + 1970] # DaysBeforeYear(k + 1970)
  BY <1>0, <1>2
<1> DEFINE y == k + 1970
<1>4. g[y] = OneYearMore(g, y)
  <2>1. \A z \in YearsTo(last) : g[z] = OneYearMore(g, z)
    BY Zenon DEF YearSum
  <2>2. y \in YearsTo(last)
    BY <1>3 DEF YearsTo
  <2> HIDE DEF y
  <2>3. QED
    BY <2>1, <2>2
<1>5. CASE k = 0
  BY <1>3, <1>4, <1>5, FirstYear DEF OneYearMore
<1>6. CASE k # 0
  <2>1. k - 1 \in Nat /\ k - 1 \notin Lost /\ (k - 1) + 1970 = y - 1 /\ y - 1 \in Years /\ (y - 1) + 1 = y
    BY <1>2, <1>3, <1>6 DEF Years
  <2>2. y - 1 <= last /\ y # 1970
    BY <1>0, <1>3, <1>6
  <2>3. g[y - 1] = DaysBeforeYear(y - 1)
    BY <2>1, <2>2
  <2>4. DaysBeforeYear(y) = DaysBeforeYear(y - 1) + 365 + Extra(is_Year_A_Leap_Year(y - 1)) /\ DaysBeforeYear(y - 1) \in Int
    <3> HIDE DEF y
    <3>1. QED
      BY <2>1, YearIsLong
  <2>5. 365 + Extra(is_Year_A_Leap_Year(y - 1)) = IF IsLeap(y - 1) THEN 366 ELSE 365
    BY DEF Extra, IsLeap, is_Year_A_Leap_Year
  <2>6. Extra(is_Year_A_Leap_Year(y - 1)) \in {0, 1}
    BY DEF Extra
  <2>7. g[y] # DaysBeforeYear(y)
    BY <1>3
  <2> HIDE DEF y
  <2>8. QED
    BY <1>4, <2>2, <2>3, <2>4, <2>5, <2>6, <2>7 DEF OneYearMore
<1>7. QED
  BY <1>5, <1>6

LEMMA DaysOfYears ==
    ASSUME NEW last \in Years
    PROVE  DaysUpTo(last)[last] = DaysBeforeYear(last)
<1>1. YearSum(DaysUpTo(last), last)
  BY YearsAreSummed, Zenon DEF DaysUpTo
<1>2. QED
  BY <1>1, SumIsDays, Zenon

LEMMA MomentOfDate ==
    ASSUME NEW t \in Nat, NEW tm, Date(t, tm)
    PROVE  /\ Moment(tm).days = t \div DAY /\ Moment(tm).seconds = t % DAY /\ Moment(tm).yday = tm.yday
           /\ tm.mday \in 1 .. MonthLengths(IsLeap(tm.year + 1900))[tm.mon + 1]
<1> DEFINE year == YearNumber(tm)
           leap == is_Year_A_Leap_Year(year)
           yday == FirstOfMonth[tm.mon + 1] + (IF IsLeap(year) /\ tm.mon > 1 THEN 1 ELSE 0) + tm.mday - 1
           days == DaysUpTo(year)
<1>1. Moment(tm) = [days |-> days[year] + yday, yday |-> yday, seconds |-> ClockOf(tm)]
  BY DEF Moment, YearSum, YearsTo, OneYearMore, DaysUpTo, ClockOf, YearNumber
<1>2. /\ year \in Years /\ tm.mon \in 0 .. 11 /\ tm.mday \in 1 .. Monthly(leap)[tm.mon + 1] /\ tm.yday \in Nat
      /\ tm.yday = MonthTable(leap, tm.mon) + tm.mday - 1 /\ t \div DAY = DaysBeforeYear(year) + tm.yday
      /\ ClockOf(tm) = t % DAY
  BY Zenon DEF Date
<1>3. leap = IsLeap(year)
  BY Zenon DEF is_Year_A_Leap_Year, IsLeap
<1>4. yday = tm.yday
  BY <1>2, <1>3 DEF MonthTable
<1>5. days[year] = DaysBeforeYear(year)
  BY <1>2, DaysOfYears, Zenon
<1> HIDE DEF days, yday, year, leap
<1>6. Moment(tm).days = days[year] + yday /\ Moment(tm).yday = yday /\ Moment(tm).seconds = ClockOf(tm)
  BY <1>1
<1>7. tm.mday \in 1 .. MonthLengths(IsLeap(year))[tm.mon + 1]
  BY <1>2, <1>3, Zenon DEF Monthly
<1>8. QED
  BY <1>2, <1>4, <1>5, <1>6, <1>7 DEF year, YearNumber

-----------------------------------------------------------------------------
(* The days made of a struct tm                                            *)

LeapDayLeftOut(c) == (2100 + c * 100) % 400 # 0
SkippedUpTo(n) == {c \in 0 .. n - 1 : LeapDayLeftOut(c)}

LEMMA CenturySkips ==
    ASSUME NEW c \in Nat
    PROVE  LeapDayLeftOut(c) <=> (21 + c) % 4 # 0
<1> DEFINE q == (21 + c) \div 4
           r == (21 + c) % 4
<1>1. q \in Int /\ r \in 0 .. 3 /\ 21 + c = 4 * q + r
  OBVIOUS
<1> HIDE DEF q, r
<1>2. 2100 + c * 100 = 400 * q + 100 * r
  BY <1>1
<1>3. (400 * q + 100 * r) % 400 = 100 * r
  BY <1>1
<1>4. (2100 + c * 100) % 400 = 100 * r
  BY <1>2, <1>3
<1>5. QED
  BY <1>1, <1>4 DEF LeapDayLeftOut, r

\* Three of four centuries skip one.
Counted(n) ==
    /\ IsFiniteSet(SkippedUpTo(n)) /\ Cardinality(SkippedUpTo(n)) \in Nat
    /\ Cardinality(SkippedUpTo(n)) = n - ((20 + n) \div 4) + 5

LEMMA NoneSkipped ==
    ASSUME NEW n \in Int, n <= 0
    PROVE  SkippedUpTo(n) = {} /\ IsFiniteSet(SkippedUpTo(n)) /\ Cardinality(SkippedUpTo(n)) = 0
<1>1. SkippedUpTo(n) = {}
  BY DEF SkippedUpTo
<1>2. QED
  BY <1>1, FS_EmptySet, Zenon

LEMMA SkippedAreCounted ==
    ASSUME NEW n \in Nat
    PROVE  Counted(n)
<1> DEFINE Lost == {k \in Nat : ~Counted(k)}
<1>1. SUFFICES ASSUME Lost # {} PROVE FALSE
  BY <1>1
<1> DEFINE k == Min(Lost)
<1>2. k \in Lost /\ \A j \in Lost : k <= j
  <2>1. Lost \subseteq Nat
    OBVIOUS
  <2> HIDE DEF Lost
  <2>2. QED
    BY <1>1, <2>1, LeastNumber, Zenon
<1> HIDE DEF k
<1>3. CASE k = 0
  <2>1. IsFiniteSet(SkippedUpTo(0)) /\ Cardinality(SkippedUpTo(0)) = 0
    <3>1. 0 \in Int /\ 0 <= 0
      OBVIOUS
    <3>2. QED
      BY <3>1, NoneSkipped, Zenon
  <2>2. Counted(0)
    BY <2>1 DEF Counted
  <2>3. QED
    BY <1>2, <1>3, <2>2
<1>4. CASE k # 0
  <2> DEFINE m == k - 1
             S == SkippedUpTo(m)
             T == SkippedUpTo(k)
  <2>1. m \in Nat /\ k = m + 1 /\ m \notin Lost
    BY <1>2, <1>4
  <2>2. Counted(m)
    BY <2>1
  <2>3. /\ T = IF LeapDayLeftOut(m) THEN S \cup {m} ELSE S
        /\ m \notin S
    <3> HIDE DEF m
    <3>1. T = {c \in 0 .. m : LeapDayLeftOut(c)} /\ S = {c \in 0 .. m - 1 : LeapDayLeftOut(c)}
      BY <2>1 DEF SkippedUpTo
    <3>2. 0 .. m = (0 .. m - 1) \cup {m} /\ m \notin 0 .. m - 1
      BY <2>1
    <3> HIDE DEF S, T
    <3>3. QED
      BY <3>1, <3>2
  <2> HIDE DEF m, S, T
  <2>4. IsFiniteSet(S) /\ Cardinality(S) \in Nat /\ Cardinality(S) = m - ((20 + m) \div 4) + 5
    BY <2>2 DEF Counted, S
  <2>5. IsFiniteSet(T) /\ Cardinality(T) = Cardinality(S) + IF LeapDayLeftOut(m) THEN 1 ELSE 0
    <3>1. CASE LeapDayLeftOut(m)
      <4>1. T = S \cup {m}
        BY <2>3, <3>1
      <4>2. IsFiniteSet(S \cup {m}) /\ Cardinality(S \cup {m}) = Cardinality(S) + 1
        BY <2>3, <2>4, FS_AddElement
      <4>3. QED
        BY <3>1, <4>1, <4>2
    <3>2. CASE ~LeapDayLeftOut(m)
      BY <2>3, <2>4, <3>2
    <3>3. QED
      BY <3>1, <3>2
  <2>6. LeapDayLeftOut(m) <=> (21 + m) % 4 # 0
    BY <2>1, CenturySkips
  <2>7. (20 + (m + 1)) \div 4 = ((20 + m) \div 4) + IF (21 + m) % 4 # 0 THEN 0 ELSE 1
    BY <2>1
  <2>8. (20 + m) \div 4 \in Int
    BY <2>1
  <2>9. Cardinality(T) = k - ((20 + k) \div 4) + 5
    BY <2>1, <2>4, <2>5, <2>6, <2>7, <2>8
  <2>10. Counted(k)
    <3>1. Cardinality(T) \in Nat
      BY <2>4, <2>5
    <3>2. QED
      BY <2>5, <2>9, <3>1 DEF Counted, T
  <2>11. QED
    BY <1>2, <2>10
<1>5. QED
  BY <1>3, <1>4

\* The years after a leap day, and centuries counted only when they have come.
LEMMA LeapYearsCounted ==
    ASSUME NEW year \in Years, year % 4 \in {2, 3}, year < 2000 \/ year % 100 < 70
    PROVE  LET skipped == IF year >= 2000 THEN Cardinality(SkippedUpTo((year - 1970) \div 100)) ELSE 0
           IN skipped \in Int /\ ((year - 1970) \div 4) - skipped = Leaps(year - 1) - Leaps(1969)
<1>1. year \in Nat /\ year >= 1970
  BY DEF Years
<1> DEFINE a == (year - 1) \div 4
           b == (year - 1) \div 100
           c == (year - 1) \div 400
           n == (year - 1970) \div 100
<1>2. Leaps(year - 1) = a - b + c /\ Leaps(1969) = 477
  BY <1>1 DEF Leaps
<1>3. a \in Int /\ b \in Int /\ c \in Int /\ (year - 1970) \div 4 = a - 492
  <2>1. (year - 1970) \div 4 = ((year - 1) \div 4) - 492
    BY <1>1
  <2>2. QED
    BY <1>1, <2>1
<1>4. CASE year < 2000
  <2>1. b = 19 /\ c = 4
    BY <1>1, <1>4
  <2> HIDE DEF a, b, c, n
  <2>2. ~(year >= 2000)
    BY <1>1, <1>4
  <2>3. QED
    BY <1>2, <1>3, <2>1, <2>2
<1>5. CASE ~(year < 2000)
  <2>1. n \in Nat /\ b = n + 20
    <3> DEFINE Y == year \div 100
               e == year % 100
    <3>1. Y \in Int /\ e \in 0 .. 99 /\ year = 100 * Y + e /\ e < 70
      BY <1>1, <1>5
    <3>2. e # 0
      <4>1. e = 0 => year % 4 = 0
        BY <1>1, <3>1
      <4>2. QED
        BY <4>1
    <3> HIDE DEF Y, e
    <3>3. (year - 1) \div 100 = Y
      BY <3>1, <3>2
    <3>4. (year - 1970) \div 100 = Y - 20 /\ Y >= 20
      BY <1>1, <1>5, <3>1
    <3>5. QED
      BY <3>1, <3>3, <3>4
  <2>2. c = b \div 4
    <3>1. (year - 1) \div 400 = ((year - 1) \div 100) \div 4
      BY <1>1
    <3>2. QED
      BY <3>1
  <2> HIDE DEF n
  <2>3. Counted(n)
    BY <2>1, SkippedAreCounted, Zenon
  <2> DEFINE s == Cardinality(SkippedUpTo(n))
  <2>4. s \in Nat /\ s = n - ((20 + n) \div 4) + 5
    BY <2>3, Zenon DEF Counted
  <2>5. year >= 2000
    BY <1>1, <1>5
  <2> HIDE DEF a, b, c, n, s
  <2>6. c = (20 + n) \div 4 /\ (20 + n) \div 4 \in Int
    BY <2>1, <2>2
  <2>7. (a - 492) - s = (a - b + c) - 477
    BY <1>3, <2>1, <2>4, <2>6
  <2>8. QED
    BY <1>2, <1>3, <2>4, <2>5, <2>7 DEF n, s
<1>6. QED
  BY <1>4, <1>5

LEMMA DaysOfStruct ==
    ASSUME NEW t \in Nat, NEW tm, Date(t, tm), CountedRight(tm)
    PROVE  struct_tm_to_struct_timespec(tm) = t \div DAY
<1> DEFINE year      == YearNumber(tm)
           skipped   == Cardinality({c \in 0 .. ((year - 1970) \div 100) - 1 : year >= 2000 /\ (2100 + c * 100) % 400 # 0})
           early     == is_Year_A_Leap_Year(year) /\ (tm.mon = 0 \/ (tm.mon = 1 /\ tm.mday <= 29))
           leapyears == ((year - 1970) \div 4) - skipped - (IF early THEN 1 ELSE 0)
           counted   == IF year >= 2000 THEN Cardinality(SkippedUpTo((year - 1970) \div 100)) ELSE 0
<1>1. struct_tm_to_struct_timespec(tm) = tm.yday + leapyears + (year - 1970) * 365
  BY DEF struct_tm_to_struct_timespec, YearNumber
<1>2. tm.year \in Nat /\ year \in Years /\ tm.yday \in Nat /\ t \div DAY = DaysBeforeYear(year) + tm.yday
  BY Zenon DEF Date
<1>3. year % 4 \in {2, 3} /\ (year < 2000 \/ year % 100 < 70)
  BY <1>2 DEF CountedRight, YearNumber
<1> HIDE DEF year
<1>4. year \in Nat /\ year >= 1970
  BY <1>2 DEF Years
<1>5. skipped = counted
  <2>1. CASE year >= 2000
    <3>1. {c \in 0 .. ((year - 1970) \div 100) - 1 : year >= 2000 /\ (2100 + c * 100) % 400 # 0} =
            SkippedUpTo((year - 1970) \div 100)
      BY <2>1 DEF SkippedUpTo, LeapDayLeftOut
    <3>2. QED
      BY <2>1, <3>1
  <2>2. CASE ~(year >= 2000)
    <3>1. {c \in 0 .. ((year - 1970) \div 100) - 1 : year >= 2000 /\ (2100 + c * 100) % 400 # 0} = {}
      BY <2>2
    <3>2. Cardinality({}) = 0
      BY FS_EmptySet, Zenon
    <3>3. QED
      BY <2>2, <3>1, <3>2
  <2>3. QED
    BY <2>1, <2>2
<1>6. counted \in Int /\ ((year - 1970) \div 4) - counted = Leaps(year - 1) - Leaps(1969)
  BY <1>2, <1>3, LeapYearsCounted
<1>7. ~early
  BY <1>3, <1>4 DEF is_Year_A_Leap_Year
<1> HIDE DEF skipped, counted, early
<1>8. leapyears = Leaps(year - 1) - Leaps(1969)
  BY <1>4, <1>5, <1>6, <1>7
<1>9. DaysBeforeYear(year) = 365 * (year - 1970) + Leaps(year - 1) - Leaps(1969)
  BY DEF DaysBeforeYear
<1>10. Leaps(year - 1) \in Int /\ Leaps(1969) \in Int
  <2>1. year \in Nat \ {0} /\ 1969 \in Nat \ {0}
    BY <1>4
  <2>2. QED
    BY <2>1, LeapsGrow
<1> HIDE DEF leapyears
<1>11. QED
  BY <1>1, <1>2, <1>4, <1>8, <1>9, <1>10

\* The calendar of the milliseconds is right about the time of the day and the
\* day of the week.
LEMMA MilliKeepsClock ==
    ASSUME NEW t \in Nat
    PROVE  LET milli == milliseconds_Since_Unix_Epoch_To_Struct_TM(t)
           IN /\ (milli.hour * 3600) + (milli.min * 60) + milli.sec = t % DAY
              /\ milli.wday = ((t \div DAY) + 4) % 7
<1> DEFINE milli == milliseconds_Since_Unix_Epoch_To_Struct_TM(t)
           rest == t % DAY
<1>1. /\ milli.hour = rest \div 3600 /\ milli.min = (rest % 3600) \div 60 /\ milli.sec = rest % 60
      /\ milli.wday = ((t \div DAY) + 4) % 7
  BY DEF milliseconds_Since_Unix_Epoch_To_Struct_TM
<1>2. rest \in Nat /\ rest < DAY
  BY DaysOfTime, Zenon
<1> HIDE DEF rest, milli
<1>3. ((rest \div 3600) * 3600) + (((rest % 3600) \div 60) * 60) + (rest % 60) = rest
  BY <1>2, PartsOfDay
<1>4. (milli.hour * 3600) + (milli.min * 60) + milli.sec = rest
  BY <1>1, <1>3
<1>5. QED
  BY <1>1, <1>4 DEF rest, milli

LEMMA CalendarIsKept ==
    ASSUME NEW t \in Nat, NEW null, NEW x, x.t = t, x.null = null, NEW o,
           o.gm = impl_safe_gmtime(null, t), o.local = impl_safe_localtime(null, t),
           o.milli = milliseconds_Since_Unix_Epoch_To_Struct_TM(t), o.day = struct_tm_to_struct_timespec(Calendar(t))
    PROVE  CalendarKeeps(x, o)
<1> DEFINE tm == Calendar(t)
<1>1. CASE null # {}
  <2>1. o.gm = [errno |-> EINVAL, tm |-> "NULL"] /\ o.local = [errno |-> EINVAL, tm |-> "NULL"]
    BY <1>1, Zenon DEF impl_safe_gmtime, impl_safe_localtime, TimeResult
  <2>2. o.gm.errno = EINVAL /\ o.local.errno = EINVAL
    BY <2>1
  <2>3. QED
    BY <1>1, <2>2, Zenon DEF CalendarKeeps
<1>2. CASE null = {}
  <2>1. o.gm = [errno |-> 0, tm |-> tm] /\ o.local = [errno |-> 0, tm |-> tm]
    BY <1>2, Zenon DEF impl_safe_gmtime, impl_safe_localtime, TimeResult
  <2> HIDE DEF tm
  <2>2. o.gm.tm = tm /\ o.local = o.gm
    BY <2>1
  <2>3. Date(t, tm)
    BY CalendarDates, Zenon DEF tm
  <2>4. /\ Moment(tm).days = t \div DAY /\ Moment(tm).seconds = t % DAY /\ Moment(tm).yday = tm.yday
        /\ tm.mday \in 1 .. MonthLengths(IsLeap(tm.year + 1900))[tm.mon + 1]
    BY <2>3, MomentOfDate
  <2>5. CountedRight(tm) => o.day = t \div DAY
    BY <2>3, DaysOfStruct, Zenon DEF tm
  <2>6. (o.milli.hour * 3600) + (o.milli.min * 60) + o.milli.sec = t % DAY /\ o.milli.wday = tm.wday
    <3>1. tm.wday = ((t \div DAY) + 4) % 7
      BY <2>3, Zenon DEF Date
    <3>2. QED
      BY <3>1, MilliKeepsClock
  <2>7. QED
    BY <1>2, <2>2, <2>4, <2>5, <2>6 DEF CalendarKeeps
<1>3. QED
  BY <1>1, <1>2, Zenon

-----------------------------------------------------------------------------
(* A time in the future                                                    *)

\* What a unit holds and what it passes on make up what was added.
Carries(field, add, last, c) ==
    /\ c.field \in Nat /\ c.field <= last /\ c.over \in {0, 1}
    /\ field + add = c.field + (last + 1) * c.over

LEMMA CarryKeeps ==
    ASSUME NEW last \in Nat, NEW field \in Nat, field <= last, NEW add \in Nat, add <= last + 1
    PROVE  Carries(field, add, last, Carry(field, add, last))
<1> DEFINE c == Carry(field, add, last)
<1>1. CASE add > 0 /\ field + add > last
  <2>1. c.field = field + add - (last + 1) /\ c.over = 1
    BY <1>1 DEF Carry
  <2> HIDE DEF c
  <2>2. c.field \in Nat /\ c.field <= last /\ field + add = c.field + (last + 1) * c.over
    BY <1>1, <2>1
  <2>3. QED
    BY <2>1, <2>2 DEF Carries, c
<1>2. CASE ~(add > 0 /\ field + add > last)
  <2>1. c.field = field + add /\ c.over = 0
    BY <1>2 DEF Carry
  <2> HIDE DEF c
  <2>2. c.field \in Nat /\ c.field <= last /\ field + add = c.field + (last + 1) * c.over
    BY <1>2, <2>1
  <2>3. QED
    BY <2>1, <2>2 DEF Carries, c
<1>3. QED
  BY <1>1, <1>2

LEMMA CarryIs ==
    ASSUME NEW last \in Nat, NEW field \in Nat, NEW add \in Nat
    PROVE  /\ Carry(field, add, last).field \in Int /\ Carry(field, add, last).over \in {0, 1}
           /\ field + add <= last => Carry(field, add, last).field = field + add /\ Carry(field, add, last).over = 0
           /\ add > 0 /\ field + add > last =>
                 Carry(field, add, last).field = field + add - (last + 1) /\ Carry(field, add, last).over = 1
<1>1. CASE add > 0 /\ field + add > last
  BY <1>1 DEF Carry
<1>2. CASE ~(add > 0 /\ field + add > last)
  BY <1>2 DEF Carry
<1>3. QED
  BY <1>1, <1>2

\* The time of the day: the seconds carry into the minutes, those into the hours
\* and those into the days.
ClockAdded(h1, m1, s1, h2, m2, s2, sec, min, hour) ==
    /\ hour.over \in {0, 1} /\ hour.field \in Nat /\ min.field \in Nat /\ sec.field \in Nat
    /\ hour.field * 3600 + min.field * 60 + sec.field < DAY
    /\ (h1 * 3600 + m1 * 60 + s1) + (h2 * 3600 + m2 * 60 + s2) =
          (hour.field * 3600 + min.field * 60 + sec.field) + DAY * hour.over

LEMMA ClockIsAdded ==
    ASSUME NEW h1 \in 0 .. 23, NEW m1 \in 0 .. 59, NEW s1 \in 0 .. 59,
           NEW h2 \in 0 .. 23, NEW m2 \in 0 .. 59, NEW s2 \in 0 .. 59,
           NEW sec, sec = Carry(s1, s2, 59), NEW min, min = Carry(m1, m2 + sec.over, 59),
           NEW hour, hour = Carry(h1, h2 + min.over, 23)
    PROVE  ClockAdded(h1, m1, s1, h2, m2, s2, sec, min, hour)
<1>0. /\ s1 \in Nat /\ s1 <= 59 /\ s2 \in Nat /\ s2 <= 59 + 1 /\ m1 \in Nat /\ m1 <= 59 /\ h1 \in Nat /\ h1 <= 23
      /\ 59 \in Nat /\ 23 \in Nat
  OBVIOUS
<1>1. Carries(s1, s2, 59, sec)
  BY <1>0, CarryKeeps
<1>2. sec.field \in Nat /\ sec.field <= 59 /\ sec.over \in {0, 1} /\ s1 + s2 = sec.field + 60 * sec.over
  BY <1>1 DEF Carries
<1>3. m2 + sec.over \in Nat /\ m2 + sec.over <= 59 + 1
  BY <1>2
<1>4. Carries(m1, m2 + sec.over, 59, min)
  BY <1>0, <1>3, CarryKeeps
<1>5. min.field \in Nat /\ min.field <= 59 /\ min.over \in {0, 1} /\ m1 + (m2 + sec.over) = min.field + 60 * min.over
  BY <1>4 DEF Carries
<1>6. h2 + min.over \in Nat /\ h2 + min.over <= 23 + 1
  BY <1>5
<1>7. Carries(h1, h2 + min.over, 23, hour)
  BY <1>0, <1>6, CarryKeeps
<1>8. hour.field \in Nat /\ hour.field <= 23 /\ hour.over \in {0, 1} /\ h1 + (h2 + min.over) = hour.field + 24 * hour.over
  BY <1>7 DEF Carries
<1>9. DAY = 86400
  BY DEF DAY
<1> DEFINE sf == sec.field
           so == sec.over
           mf == min.field
           mo == min.over
           hf == hour.field
           ho == hour.over
<1> HIDE DEF sf, so, mf, mo, hf, ho
<1>10. /\ sf \in Nat /\ mf \in Nat /\ hf \in Nat /\ sf <= 59 /\ mf <= 59 /\ hf <= 23
       /\ so \in {0, 1} /\ mo \in {0, 1} /\ ho \in {0, 1}
       /\ s1 + s2 = sf + 60 * so /\ m1 + (m2 + so) = mf + 60 * mo /\ h1 + (h2 + mo) = hf + 24 * ho
  BY <1>2, <1>5, <1>8, Zenon DEF sf, so, mf, mo, hf, ho
<1>11. /\ hf * 3600 + mf * 60 + sf < DAY
       /\ (h1 * 3600 + m1 * 60 + s1) + (h2 * 3600 + m2 * 60 + s2) = (hf * 3600 + mf * 60 + sf) + DAY * ho
  BY <1>9, <1>10
<1>12. QED
  BY <1>10, <1>11 DEF sf, so, mf, mo, hf, ho, ClockAdded

\* The day that so many years and days after a date are made to be.
MadeDay(tm, more, days) ==
    LET yday  == Carry(tm.yday, days, 365)
        mday  == Carry(tm.mday, days, DaysInMonth(tm))
        mon   == Carry(tm.mon, mday.over, 11)
        years == (more + yday.over + mon.over) % YEARS_RANGE
    IN DayOf(1900 + (tm.year + years) + (mon.field \div 12), mon.field % 12, mday.field)

MadeOf(t, a, clock, over, o) ==
    /\ clock \in Nat /\ clock < DAY /\ over \in {0, 1}
    /\ (t % DAY) + (a % DAY) = clock + DAY * over
    /\ o = MadeDay(Calendar(t), ((a \div DAY) \div 365) % YEARS_RANGE, ((a \div DAY) % 365) + over) * DAY + clock

LEMMA DurationParts ==
    ASSUME NEW a \in Nat, NEW d, d = convert_Seconds_To_Displayable_Time(a)
    PROVE  /\ d.years = ((a \div DAY) \div 365) % YEARS_RANGE /\ d.days = (a \div DAY) % 365
           /\ d.hours \in 0 .. 23 /\ d.minutes \in 0 .. 59 /\ d.seconds \in 0 .. 59
           /\ d.hours * 3600 + d.minutes * 60 + d.seconds = a % DAY
<1> DEFINE minutes == a \div 60
           hours   == minutes \div 60
           days    == hours \div 24
<1>1. d = Duration((days \div 365) % YEARS_RANGE, days % 365, hours % 24, minutes % 60, a % 60)
  BY Zenon DEF convert_Seconds_To_Displayable_Time
<1>2. /\ days = a \div DAY /\ ((hours % 24) * 3600) + ((minutes % 60) * 60) + (a % 60) = a % DAY
      /\ hours % 24 \in 0 .. 23 /\ minutes % 60 \in 0 .. 59 /\ a % 60 \in 0 .. 59
  BY PartsOfSeconds
<1> HIDE DEF minutes, hours, days
<1>3. /\ d.years = (days \div 365) % YEARS_RANGE /\ d.days = days % 365 /\ d.hours = hours % 24
      /\ d.minutes = minutes % 60 /\ d.seconds = a % 60
  BY <1>1 DEF Duration
<1>4. QED
  BY <1>2, <1>3

LEMMA MadeDayIsNumber ==
    ASSUME NEW t \in Nat, NEW tm, Date(t, tm), NEW more \in Nat, NEW days \in Nat
    PROVE  MadeDay(tm, more, days) \in Int
<1> DEFINE yday  == Carry(tm.yday, days, 365)
           mday  == Carry(tm.mday, days, DaysInMonth(tm))
           mon   == Carry(tm.mon, mday.over, 11)
           years == (more + yday.over + mon.over) % YEARS_RANGE
           year  == 1900 + (tm.year + years) + (mon.field \div 12)
           month == mon.field % 12
<1>1. /\ tm.year \in Nat /\ tm.year >= 70 /\ tm.mon \in 0 .. 11 /\ tm.mday \in Nat /\ tm.yday \in Nat
      /\ DaysInMonth(tm) \in Nat
  <2>1. /\ tm.year \in Nat /\ YearNumber(tm) \in Years /\ tm.mon \in 0 .. 11 /\ tm.yday \in Nat
        /\ tm.mday \in 1 .. Monthly(is_Year_A_Leap_Year(YearNumber(tm)))[tm.mon + 1]
    BY Zenon DEF Date
  <2>2. tm.year >= 70
    BY <2>1 DEF YearNumber, Years
  <2>3. \A leap \in BOOLEAN : Monthly(leap)[tm.mon + 1] \in 28 .. 31
    BY <2>1, TableGrows, Zenon
  <2>4. is_Year_A_Leap_Year(YearNumber(tm)) \in BOOLEAN /\ is_Year_A_Leap_Year(tm.year) \in BOOLEAN
    BY Zenon DEF is_Year_A_Leap_Year
  <2>5. Monthly(is_Year_A_Leap_Year(YearNumber(tm)))[tm.mon + 1] \in 28 .. 31 /\ DaysInMonth(tm) \in 28 .. 31
    BY <2>3, <2>4, Zenon DEF DaysInMonth, Monthly
  <2>6. QED
    BY <2>1, <2>2, <2>5
<1>2. yday.over \in {0, 1}
  <2>1. 365 \in Nat
    OBVIOUS
  <2>2. QED
    BY <1>1, <2>1, CarryIs
<1>3. mday.over \in {0, 1} /\ mday.field \in Int
  BY <1>1, CarryIs
<1> HIDE DEF yday, mday
<1>4. mon.over \in {0, 1} /\ mon.field \in 0 .. 11
  <2>1. 11 \in Nat /\ tm.mon \in Nat /\ tm.mon <= 11 /\ mday.over \in Nat /\ mday.over <= 11 + 1
    BY <1>1, <1>3
  <2>2. Carries(tm.mon, mday.over, 11, mon)
    BY <2>1, CarryKeeps
  <2> HIDE DEF mon
  <2>3. QED
    BY <2>2 DEF Carries
<1> HIDE DEF mon
<1>5. years \in Nat
  <2>1. more + yday.over + mon.over \in Nat
    BY <1>2, <1>4
  <2>2. YEARS_RANGE \in Nat \ {0}
    BY TimeAssumption
  <2>3. QED
    BY <2>1, <2>2
<1> HIDE DEF years
<1>6. month \in 0 .. 11 /\ year \in Years
  BY <1>1, <1>4, <1>5 DEF Years
<1>7. MadeDay(tm, more, days) = DaysBeforeYear(year) + DaysBeforeMonth(is_Year_A_Leap_Year(year), month) + mday.field - 1
  BY DEF MadeDay, DayOf, yday, mday, mon, years
<1> HIDE DEF year, month
<1>8. DaysBeforeYear(year) \in Int
  BY <1>6, YearIsLong
<1>9. DaysBeforeMonth(is_Year_A_Leap_Year(year), month) \in Nat
  <2>1. is_Year_A_Leap_Year(year) \in BOOLEAN
    BY Zenon DEF is_Year_A_Leap_Year
  <2>2. QED
    BY <1>6, <2>1, MonthsAreSummed, TableGrows, Zenon
<1>10. QED
  BY <1>3, <1>7, <1>8, <1>9

LEMMA FutureIsMade ==
    ASSUME NEW t \in Nat, NEW a \in Nat
    PROVE  \E clock, over : MadeOf(t, a, clock, over, get_Future_Date_And_Time(t, a))
<1> DEFINE tm    == Calendar(t)
           d     == convert_Seconds_To_Displayable_Time(a)
           sec   == Carry(tm.sec, d.seconds, 59)
           min   == Carry(tm.min, d.minutes + sec.over, 59)
           hour  == Carry(tm.hour, d.hours + min.over, 23)
           days  == d.days + hour.over
           yday  == Carry(tm.yday, days, 365)
           mday  == Carry(tm.mday, days, DaysInMonth(tm))
           mon   == Carry(tm.mon, mday.over, 11)
           years == (d.years + yday.over + mon.over) % YEARS_RANGE
           y == tm.year + years
           o == mon.field
           w == mday.field
           h == hour.field
           m == min.field
           s == sec.field
           made == [year |-> y, mon |-> o, mday |-> w, hour |-> h, min |-> m, sec |-> s]
           day == MadeDay(tm, d.years, days)
           clock == h * 3600 + m * 60 + s
<1>1. get_Future_Date_And_Time(t, a) = mktime(made)
  BY Zenon DEF get_Future_Date_And_Time
<1>2. day = DayOf(1900 + y + (o \div 12), o % 12, w)
  BY DEF MadeDay
<1>3. /\ tm.hour \in 0 .. 23 /\ tm.min \in 0 .. 59 /\ tm.sec \in 0 .. 59
      /\ tm.hour * 3600 + tm.min * 60 + tm.sec = t % DAY /\ Date(t, tm)
  <2>1. Date(t, tm)
    BY CalendarDates, Zenon
  <2> HIDE DEF tm
  <2>2. QED
    BY <2>1 DEF Date, ClockOf
<1>4. /\ d.years = ((a \div DAY) \div 365) % YEARS_RANGE /\ d.days = (a \div DAY) % 365
      /\ d.hours \in 0 .. 23 /\ d.minutes \in 0 .. 59 /\ d.seconds \in 0 .. 59
      /\ d.hours * 3600 + d.minutes * 60 + d.seconds = a % DAY
  BY DurationParts
<1> HIDE DEF tm, d, years
<1>5. /\ hour.over \in {0, 1} /\ h \in Nat /\ m \in Nat /\ s \in Nat /\ clock < DAY
      /\ (tm.hour * 3600 + tm.min * 60 + tm.sec) + (d.hours * 3600 + d.minutes * 60 + d.seconds) =
            clock + DAY * hour.over
  <2>0. /\ tm.hour \in 0 .. 23 /\ tm.min \in 0 .. 59 /\ tm.sec \in 0 .. 59
        /\ d.hours \in 0 .. 23 /\ d.minutes \in 0 .. 59 /\ d.seconds \in 0 .. 59
    BY <1>3, <1>4
  <2>1. ClockAdded(tm.hour, tm.min, tm.sec, d.hours, d.minutes, d.seconds, sec, min, hour)
    BY <2>0, ClockIsAdded, Zenon
  <2> HIDE DEF sec, min, hour
  <2>2. QED
    BY <2>1 DEF ClockAdded
<1> DEFINE over == hour.over
<1>6. days = ((a \div DAY) % 365) + over
  BY <1>4
<1> HIDE DEF y, o, w, h, m, s, made, day, over, days
<1>7. made.year = y /\ made.mon = o /\ made.mday = w /\ made.hour = h /\ made.min = m /\ made.sec = s
  BY DEF made
<1>8. mktime(made) = DayOf(1900 + y + (o \div 12), o % 12, w) * DAY + h * 3600 + m * 60 + s
  BY <1>7 DEF mktime
<1>9. clock \in Nat /\ clock < DAY /\ over \in {0, 1} /\ (t % DAY) + (a % DAY) = clock + DAY * over
  BY <1>3, <1>4, <1>5 DEF over
<1>10. mktime(made) = day * DAY + clock
  <2>1. d.years \in Nat /\ days \in Nat
    <3>1. \A q \in Nat, r \in Nat \ {0} : (q \div 365) % r \in Nat /\ q % 365 \in Nat
      OBVIOUS
    <3>2. a \div DAY \in Nat /\ YEARS_RANGE \in Nat \ {0}
      BY DaysOfTime, TimeAssumption, Zenon
    <3>3. QED
      BY <1>4, <1>6, <1>9, <3>1, <3>2
  <2>0. day \in Int
    <3>1. Date(t, tm)
      BY <1>3
    <3>2. QED
      BY <2>1, <3>1, MadeDayIsNumber, Zenon DEF day
  <2>2. DAY \in Nat
    BY DEF DAY
  <2>3. day * DAY \in Int
    BY <2>0, <2>2
  <2>4. mktime(made) = day * DAY + h * 3600 + m * 60 + s
    BY <1>2, <1>8
  <2>5. QED
    BY <1>5, <2>3, <2>4 DEF clock
<1>11. day = MadeDay(Calendar(t), ((a \div DAY) \div 365) % YEARS_RANGE, ((a \div DAY) % 365) + over)
  BY <1>4, <1>6 DEF day, tm
<1> HIDE DEF clock
<1>12. MadeOf(t, a, clock, over, get_Future_Date_And_Time(t, a))
  BY <1>1, <1>9, <1>10, <1>11, Zenon DEF MadeOf
<1>13. QED
  BY <1>12, Zenon

\* Dates of one month that are no more than 31 days apart are of one year.
LEMMA OneMonth ==
    ASSUME NEW t \in Nat, NEW tm, Date(t, tm), NEW u \in Nat, NEW then, Date(u, then),
           then.mon = tm.mon, NEW days \in 0 .. 31, u \div DAY = (t \div DAY) + days
    PROVE  /\ YearNumber(then) = YearNumber(tm)
           /\ then.mday = tm.mday + days /\ then.yday = tm.yday + days
<1> DEFINE y == YearNumber(tm)
           z == YearNumber(then)
           m == tm.mon
           P == MonthTable(is_Year_A_Leap_Year(y), m)
           Q == MonthTable(is_Year_A_Leap_Year(z), m)
           B == DaysBeforeYear(y)
           C == DaysBeforeYear(z)
           L == Monthly(is_Year_A_Leap_Year(y))[m + 1]
           M == Monthly(is_Year_A_Leap_Year(z))[m + 1]
<1>1. /\ y \in Years /\ m \in 0 .. 11 /\ tm.mday \in 1 .. L /\ tm.yday = P + tm.mday - 1 /\ t \div DAY = B + tm.yday
  BY Zenon DEF Date
<1>2. /\ z \in Years /\ then.mday \in 1 .. M /\ then.yday = Q + then.mday - 1 /\ u \div DAY = C + then.yday
  BY Zenon DEF Date
<1>3. is_Year_A_Leap_Year(y) \in BOOLEAN /\ is_Year_A_Leap_Year(z) \in BOOLEAN
  BY Zenon DEF is_Year_A_Leap_Year
<1>4. P \in Nat /\ Q \in Nat /\ L \in 28 .. 31 /\ M \in 28 .. 31
  BY <1>1, <1>3, TableGrows, Zenon
<1>5. P - Q <= 1 /\ Q - P <= 1
  <2>1. P = FirstOfMonth[m + 1] + IF is_Year_A_Leap_Year(y) /\ m > 1 THEN 1 ELSE 0
    BY Zenon DEF MonthTable
  <2>2. Q = FirstOfMonth[m + 1] + IF is_Year_A_Leap_Year(z) /\ m > 1 THEN 1 ELSE 0
    BY Zenon DEF MonthTable
  <2>3. FirstOfMonth[m + 1] \in Nat
    BY <1>1 DEF FirstOfMonth
  <2> HIDE DEF P, Q, y, z
  <2>4. QED
    BY <2>1, <2>2, <2>3
<1>6. B \in Int /\ C \in Int
  BY <1>1, <1>2, YearIsLong, Zenon
<1>7. \A n \in Nat : (z = y + n => 365 * n <= C - B) /\ (y = z + n => 365 * n <= B - C)
  <2>1. TAKE n \in Nat
  <2> HIDE DEF y, z
  <2>2. Apart(y, n) /\ Apart(z, n)
    BY <1>1, <1>2, YearsApart
  <2>3. QED
    BY <2>2 DEF Apart
<1> HIDE DEF y, z, m, P, Q, B, C, L, M
<1>8. y \in Nat /\ z \in Nat
  BY <1>1, <1>2 DEF Years
<1>9. C + (Q + then.mday) = B + (P + tm.mday) + days
  BY <1>1, <1>2, <1>4, <1>6
<1>10. tm.mday \in Nat /\ tm.mday >= 1 /\ tm.mday <= 31 /\ then.mday \in Nat /\ then.mday >= 1 /\ then.mday <= 31
  BY <1>1, <1>2, <1>4
<1>11. C - B <= 63 /\ B - C <= 31
  BY <1>4, <1>5, <1>6, <1>9, <1>10
<1>12. ~(z > y)
  <2>1. SUFFICES ASSUME z > y PROVE FALSE
    OBVIOUS
  <2>2. z - y \in Nat /\ z = y + (z - y) /\ z - y >= 1
    BY <1>8, <2>1
  <2>3. 365 * (z - y) <= C - B
    BY <1>7, <2>2
  <2>4. QED
    BY <1>6, <1>11, <2>2, <2>3
<1>13. ~(y > z)
  <2>1. SUFFICES ASSUME y > z PROVE FALSE
    OBVIOUS
  <2>2. y - z \in Nat /\ y = z + (y - z) /\ y - z >= 1
    BY <1>8, <2>1
  <2>3. 365 * (y - z) <= B - C
    BY <1>7, <2>2
  <2>4. QED
    BY <1>6, <1>11, <2>2, <2>3
<1>14. y = z
  BY <1>8, <1>12, <1>13
<1>15. Q = P /\ C = B
  BY <1>14 DEF P, Q, B, C
<1>16. then.mday = tm.mday + days
  BY <1>4, <1>6, <1>9, <1>10, <1>15
<1>17. then.yday = tm.yday + days
  BY <1>1, <1>2, <1>4, <1>10, <1>15, <1>16
<1>18. QED
  BY <1>14, <1>16, <1>17 DEF y, z

LEMMA LengthsDiffer ==
    ASSUME NEW a \in BOOLEAN, NEW b \in BOOLEAN
    PROVE  /\ MonthLengths(a)[2] = IF a THEN 29 ELSE 28
           /\ \A m \in 0 .. 11 : m # 1 => MonthLengths(a)[m + 1] = MonthLengths(b)[m + 1]
<1> DEFINE A == MonthLengths(a)
           B == MonthLengths(b)
<1>1. /\ A[1] = 31 /\ A[2] = (IF a THEN 29 ELSE 28) /\ A[3] = 31 /\ A[4] = 30 /\ A[5] = 31 /\ A[6] = 30
      /\ A[7] = 31 /\ A[8] = 31 /\ A[9] = 30 /\ A[10] = 31 /\ A[11] = 30 /\ A[12] = 31
  BY DEF MonthLengths
<1>2. /\ B[1] = 31 /\ B[3] = 31 /\ B[4] = 30 /\ B[5] = 31 /\ B[6] = 30
      /\ B[7] = 31 /\ B[8] = 31 /\ B[9] = 30 /\ B[10] = 31 /\ B[11] = 30 /\ B[12] = 31
  BY DEF MonthLengths
<1> HIDE DEF A, B
<1>3. \A m \in 0 .. 11 : m # 1 => A[m + 1] = B[m + 1]
  <2>1. \A m \in 0 .. 11 : m # 1 => m + 1 = 1 \/ m + 1 \in 3 .. 12
    OBVIOUS
  <2>2. A[1] = B[1]
    BY <1>1, <1>2
  <2>3. ASSUME NEW k \in 3 .. 12 PROVE A[k] = B[k]
    <3>1. k = 3 \/ k = 4 \/ k = 5 \/ k = 6 \/ k = 7 \/ k = 8 \/ k = 9 \/ k = 10 \/ k = 11 \/ k = 12
      OBVIOUS
    <3>2. QED
      BY <1>1, <1>2, <3>1
  <2>4. QED
    BY <2>1, <2>2, <2>3
<1>4. QED
  BY <1>1, <1>3 DEF A, B

MadeExactly(tm, days, u) == MadeDay(tm, 0, days) = u \div DAY

\* Only a 29th of February is carried into the next month, and to the day before
\* its first.
LEMMA MadeDayIsExact ==
    ASSUME NEW t \in Nat, NEW tm, Date(t, tm), NEW u \in Nat, NEW then, Date(u, then),
           then.mon = tm.mon, NEW days \in 0 .. 31, u \div DAY = (t \div DAY) + days
    PROVE  MadeExactly(tm, days, u)
<1> SUFFICES MadeDay(tm, 0, days) = u \div DAY
  BY Zenon DEF MadeExactly
<1> DEFINE leap  == is_Year_A_Leap_Year(YearNumber(tm))
           m     == tm.mon
           len   == DaysInMonth(tm)
           yday  == Carry(tm.yday, days, 365)
           mday  == Carry(tm.mday, days, len)
           mon   == Carry(m, mday.over, 11)
           years == (0 + yday.over + mon.over) % YEARS_RANGE
           B     == DaysBeforeYear(YearNumber(tm))
           T(k)  == MonthTable(leap, k)
<1>1. YearNumber(then) = YearNumber(tm) /\ then.mday = tm.mday + days /\ then.yday = tm.yday + days
  BY OneMonth
<1>2. /\ tm.year \in Nat /\ YearNumber(tm) \in Years /\ m \in 0 .. 11
      /\ tm.mday \in 1 .. Monthly(leap)[m + 1] /\ tm.yday \in Nat
  BY Zenon DEF Date
<1>3. /\ then.mday \in 1 .. Monthly(leap)[m + 1] /\ then.yday \in Nat /\ then.yday < 365 + Extra(leap)
      /\ then.yday = T(m) + then.mday - 1 /\ u \div DAY = B + then.yday
  BY <1>1, Zenon DEF Date
<1>4. leap \in BOOLEAN /\ Extra(leap) \in {0, 1}
  BY Zenon DEF is_Year_A_Leap_Year, Extra
<1>5. B \in Int
  BY <1>2, YearIsLong, Zenon
<1>6. /\ Monthly(leap)[m + 1] \in 28 .. 31 /\ T(m) \in Nat
      /\ \A k \in 0 .. 11 : DaysBeforeMonth(leap, k) = T(k)
  BY <1>2, <1>4, TableGrows, MonthsAreSummed, Zenon
<1>7. yday.over = 0
  <2>1. tm.yday + days <= 365
    BY <1>1, <1>3, <1>4
  <2>2. ~(days > 0 /\ tm.yday + days > 365)
    BY <1>2, <2>1
  <2>3. QED
    BY <2>2 DEF Carry
<1>8. /\ len \in 28 .. 31
      /\ \/ len = Monthly(leap)[m + 1]
         \/ m = 1 /\ leap /\ len = 28
         \/ m = 1 /\ len = 29 /\ Monthly(leap)[m + 1] = 28
      /\ (m = 1 /\ leap => Monthly(leap)[m + 1] = 29)
  <2> DEFINE ly == is_Year_A_Leap_Year(tm.year)
             D == Monthly(leap)[m + 1]
  <2>1. ly \in BOOLEAN /\ len = MonthLengths(ly)[m + 1] /\ D = MonthLengths(leap)[m + 1] /\ D \in 28 .. 31
    BY <1>6, Zenon DEF DaysInMonth, Monthly, is_Year_A_Leap_Year
  <2> HIDE DEF ly, len, leap, D
  <2>2. m # 1 => len = D
    BY <1>2, <1>4, <2>1, LengthsDiffer
  <2>3. m = 1 => len = (IF ly THEN 29 ELSE 28) /\ D = (IF leap THEN 29 ELSE 28)
    <3>1. m = 1 => m + 1 = 2
      OBVIOUS
    <3>2. MonthLengths(ly)[2] = (IF ly THEN 29 ELSE 28) /\ MonthLengths(leap)[2] = (IF leap THEN 29 ELSE 28)
      BY <1>4, <2>1, LengthsDiffer
    <3>3. QED
      BY <2>1, <3>1, <3>2
  <2>4. len = D \/ (m = 1 /\ leap /\ len = 28) \/ (m = 1 /\ len = 29 /\ D = 28)
    BY <1>4, <2>1, <2>2, <2>3
  <2>5. QED
    BY <1>4, <2>1, <2>2, <2>3, <2>4 DEF D
<1>9. \A z \in Nat, k \in 0 .. 11, w \in Int :
        mon.field = k /\ mon.over = 0 /\ mday.field = w => MadeDay(tm, 0, days) = B + T(k) + w - 1
  <2>1. TAKE z \in Nat, k \in 0 .. 11, w \in Int
  <2>2. SUFFICES ASSUME mon.field = k, mon.over = 0, mday.field = w PROVE MadeDay(tm, 0, days) = B + T(k) + w - 1
    OBVIOUS
  <2>3. MadeDay(tm, 0, days) = DayOf(1900 + (tm.year + years) + (mon.field \div 12), mon.field % 12, mday.field)
    BY DEF MadeDay
  <2> HIDE DEF mday, mon, yday
  <2>4. years = 0
    <3>1. \A r \in Nat \ {0} : 0 % r = 0
      OBVIOUS
    <3>2. YEARS_RANGE \in Nat \ {0}
      BY TimeAssumption
    <3>3. QED
      BY <1>7, <2>2, <3>1, <3>2
  <2> HIDE DEF years
  <2>5. 1900 + (tm.year + years) + (mon.field \div 12) = YearNumber(tm) /\ mon.field % 12 = k
    BY <1>2, <2>2, <2>4 DEF YearNumber
  <2>6. MadeDay(tm, 0, days) = DayOf(YearNumber(tm), k, w)
    BY <2>2, <2>3, <2>5
  <2>7. DayOf(YearNumber(tm), k, w) = B + T(k) + w - 1
    BY <1>6 DEF DayOf
  <2>8. QED
    BY <2>6, <2>7
<1> HIDE DEF leap, m, len, B, T
<1>10. CASE ~(days > 0 /\ tm.mday + days > len)
  <2>1. mday.field = then.mday /\ mday.over = 0
    BY <1>1, <1>10 DEF Carry
  <2> HIDE DEF mday
  <2>2. mon.field = m /\ mon.over = 0
    <3>1. 11 \in Nat /\ m \in Nat /\ m + 0 <= 11 /\ 0 \in Nat /\ m + 0 = m
      BY <1>2
    <3>2. ~(mday.over > 0 /\ m + mday.over > 11)
      BY <2>1
    <3>3. mon.field = m + mday.over /\ mon.over = 0
      BY <3>2 DEF Carry
    <3> HIDE DEF mon
    <3>4. QED
      BY <2>1, <3>1, <3>3
  <2>3. MadeDay(tm, 0, days) = B + T(m) + then.mday - 1
    BY <1>2, <1>3, <1>6, <1>9, <2>1, <2>2
  <2>4. QED
    BY <1>3, <1>5, <1>6, <2>3
<1>11. CASE days > 0 /\ tm.mday + days > len
  <2>1. m = 1 /\ leap /\ len = 28 /\ then.mday = 29 /\ days > 0
    BY <1>1, <1>2, <1>3, <1>6, <1>8, <1>11
  <2>2. mday.field = 0 /\ mday.over = 1
    <3>1. tm.mday \in Nat /\ days \in Nat /\ tm.mday + days > len /\ tm.mday + days = 29
      BY <1>1, <1>2, <1>6, <2>1
    <3>2. mday.field = tm.mday + days - (len + 1) /\ mday.over = 1
      BY <2>1, <3>1 DEF Carry
    <3> HIDE DEF mday
    <3>3. QED
      BY <2>1, <3>1, <3>2
  <2> HIDE DEF mday
  <2>3. mon.field = 2 /\ mon.over = 0
    <3>1. 11 \in Nat /\ m \in Nat /\ m + 1 <= 11 /\ 1 \in Nat /\ m + 1 = 2
      BY <2>1
    <3>2. ~(mday.over > 0 /\ m + mday.over > 11)
      BY <2>1, <2>2
    <3>3. mon.field = m + mday.over /\ mon.over = 0
      BY <3>2 DEF Carry
    <3> HIDE DEF mon
    <3>4. QED
      BY <2>2, <3>1, <3>3
  <2>4. T(2) = 60 /\ T(1) = 31
    BY <2>1 DEF T, MonthTable, FirstOfMonth
  <2>5. MadeDay(tm, 0, days) = B + T(2) + 0 - 1
    <3>1. 2 \in 0 .. 11 /\ 0 \in Int /\ 0 \in Nat
      OBVIOUS
    <3>2. QED
      BY <1>9, <2>2, <2>3, <3>1
  <2>6. u \div DAY = B + 31 + 29 - 1
    <3>1. T(m) = 31
      BY <2>1, <2>4
    <3>2. QED
      BY <1>3, <1>5, <2>1, <3>1
  <2>7. QED
    BY <1>5, <2>4, <2>5, <2>6
<1>12. QED
  BY <1>10, <1>11

LEMMA FutureIsKept ==
    ASSUME NEW t \in Nat, NEW a \in Nat, NEW x, x.t = t, x.add = a, NEW o, o = get_Future_Date_And_Time(t, a)
    PROVE  FutureKeeps(x, o)
<1> DEFINE p == t \div DAY
           q == a \div DAY
           then == t + a
<1>1. PICK clock, over : MadeOf(t, a, clock, over, o)
  BY FutureIsMade, Zenon
<1>2. /\ clock \in Nat /\ clock < DAY /\ over \in {0, 1} /\ (t % DAY) + (a % DAY) = clock + DAY * over
      /\ o = MadeDay(Calendar(t), (q \div 365) % YEARS_RANGE, (q % 365) + over) * DAY + clock
  BY <1>1 DEF MadeOf
<1>3. /\ p \in Nat /\ q \in Nat /\ t % DAY \in Nat /\ a % DAY \in Nat /\ t = DAY * p + (t % DAY) /\ a = DAY * q + (a % DAY)
      /\ DAY \in Nat \ {0}
  BY DaysOfTime, Zenon
<1> HIDE DEF p, q
<1> DEFINE day == MadeDay(Calendar(t), (q \div 365) % YEARS_RANGE, (q % 365) + over)
<1>4. (q \div 365) % YEARS_RANGE \in Nat /\ (q % 365) + over \in Nat
  <2>1. \A r \in Nat \ {0} : (q \div 365) % r \in Nat
    BY <1>3
  <2>2. YEARS_RANGE \in Nat \ {0} /\ q % 365 \in Nat
    BY <1>3, TimeAssumption
  <2>3. QED
    BY <1>2, <2>1, <2>2
<1>5. day \in Int
  <2>1. Date(t, Calendar(t))
    BY CalendarDates, Zenon
  <2>2. QED
    BY <1>4, <2>1, MadeDayIsNumber
<1> HIDE DEF day
<1>6. then = DAY * (p + q + over) + clock /\ then \in Nat
  BY <1>2, <1>3
<1>7. o = DAY * day + clock
  BY <1>2, <1>3, <1>5 DEF day
<1>8. (o - then) % DAY = 0
  <2>1. o - then = DAY * (day - (p + q + over))
    BY <1>2, <1>3, <1>5, <1>6, <1>7
  <2>2. \A z \in Int : (DAY * z) % DAY = 0
    BY <1>3
  <2>3. day - (p + q + over) \in Int
    BY <1>2, <1>3, <1>5
  <2>4. QED
    BY <2>1, <2>2, <2>3
<1>9. ASSUME Calendar(t).mon = Calendar(then).mon, a < 31 * DAY PROVE o = then
  <2>1. q <= 30
    BY <1>3, <1>9
  <2>2. (q \div 365) % YEARS_RANGE = 0 /\ (q % 365) + over = q + over
    <3>1. q \div 365 = 0 /\ q % 365 = q
      BY <1>3, <2>1
    <3>2. \A r \in Nat \ {0} : 0 % r = 0
      OBVIOUS
    <3>3. YEARS_RANGE \in Nat \ {0}
      BY TimeAssumption
    <3>4. QED
      BY <1>2, <3>1, <3>2, <3>3
  <2>3. day = MadeDay(Calendar(t), 0, q + over)
    BY <2>2 DEF day
  <2>4. q + over \in 0 .. 31
    BY <1>2, <1>3, <2>1
  <2>5. then \div DAY = p + (q + over)
    <3>1. p + q + over \in Nat
      BY <1>2, <1>3
    <3>2. \A z \in Nat, c \in Nat : c < DAY => (DAY * z + c) \div DAY = z
      BY <1>3
    <3>3. then \div DAY = p + q + over
      BY <1>2, <1>6, <3>1, <3>2
    <3>4. QED
      BY <1>2, <1>3, <3>3
  <2>6. Date(t, Calendar(t)) /\ Date(then, Calendar(then))
    BY <1>6, CalendarDates, Zenon
  <2> DEFINE days == q + over
             here == Calendar(t)
             there == Calendar(then)
  <2>7. days \in 0 .. 31 /\ then \div DAY = (t \div DAY) + days
    BY <2>4, <2>5 DEF p
  <2>8. Date(t, here) /\ Date(then, there) /\ there.mon = here.mon
    BY <1>9, <2>6
  <2> HIDE DEF days, here, there, then
  <2>0. then \in Nat
    BY <1>6
  <2>9. MadeDay(here, 0, days) = then \div DAY
    <3>1. MadeExactly(here, days, then)
      BY <2>0, <2>7, <2>8, MadeDayIsExact, Zenon
    <3>2. QED
      BY <3>1, Zenon DEF MadeExactly
  <2>10. day = p + (q + over)
    BY <2>3, <2>5, <2>9 DEF days, here
  <2>11. day = p + q + over
    BY <1>2, <1>3, <2>10
  <2>12. QED
    BY <1>6, <1>7, <2>11
<1>10. QED
  BY <1>8, <1>9 DEF FutureKeeps

-----------------------------------------------------------------------------
(* The clock                                                               *)

LEMMA WholeMilliseconds ==
    ASSUME NEW milli \in Nat
    PROVE  (milli * 1000000) \div 1000000 = milli /\ 0 \div 1000000 = 0
BY SMT

\* What a clock that answers says, and the milliseconds of it.
Reads(read, sec, milli) == read.res => read.sec = sec /\ read.nsec = milli * 1000000

InMilliseconds(o, sec, milli) == o.ms = (sec * 1000) + milli

LEMMA MillisecondsOf ==
    ASSUME NEW sec \in Nat, NEW milli \in Nat, NEW spec, spec.res, spec.sec = sec, Reads(spec, sec, milli),
           NEW o, o.ms = get_Milliseconds_Since_Unix_Epoch(spec)
    PROVE  InMilliseconds(o, sec, milli)
<1>1. spec.nsec = milli * 1000000
  BY SMT DEF Reads
<1>2. get_Milliseconds_Since_Unix_Epoch(spec) = spec.sec * 1000 + (spec.nsec \div 1000000)
  BY SMT DEF get_Milliseconds_Since_Unix_Epoch
<1>3. QED
  BY <1>1, <1>2, WholeMilliseconds, SMT DEF InMilliseconds

LEMMA NoMilliseconds ==
    ASSUME NEW spec, ~spec.res
    PROVE  get_Milliseconds_Since_Unix_Epoch(spec) = 0
BY SMT DEF get_Milliseconds_Since_Unix_Epoch

LEMMA SinceMeans ==
    ASSUME NEW x, NEW o, NEW sec \in Nat, x.sec = sec, NEW milli \in Nat, x.milli = milli
    PROVE  /\ ~x.utc /\ o.ms = 0 /\ ~o.spec.res => SinceKeeps(x, o)
           /\ x.utc /\ x.res /\ InMilliseconds(o, sec, milli) => SinceKeeps(x, o)
           /\ x.utc /\ ~x.res /\ (CountedRight(Calendar(sec)) => InMilliseconds(o, sec, 0)) => SinceKeeps(x, o)
<1>1. ASSUME ~x.utc, o.ms = 0, ~o.spec.res PROVE SinceKeeps(x, o)
  BY <1>1, Zenon DEF SinceKeeps
<1>2. ASSUME x.utc, x.res, InMilliseconds(o, sec, milli) PROVE SinceKeeps(x, o)
  BY <1>2, Zenon DEF SinceKeeps, InMilliseconds
<1>3. ASSUME x.utc, ~x.res, CountedRight(Calendar(sec)) => InMilliseconds(o, sec, 0) PROVE SinceKeeps(x, o)
  BY <1>3, Zenon DEF SinceKeeps, InMilliseconds
<1>4. QED
  BY <1>1, <1>2, <1>3, Zenon

LEMMA SinceIsKept ==
    ASSUME NEW sec \in Nat, NEW milli \in Nat, NEW utc \in BOOLEAN, NEW read, Reads(read, sec, milli),
           NEW x, x.sec = sec, x.milli = milli, x.utc <=> utc, x.res <=> read.res,
           NEW o, NEW spec, spec = timespec_get(utc, read, Calendar(sec)), o.spec = spec,
           o.ms = get_Milliseconds_Since_Unix_Epoch(spec)
    PROVE  SinceKeeps(x, o)
<1> DEFINE tm == Calendar(sec)
           day == struct_tm_to_struct_timespec(tm)
<1>0. \A b, c : ~Timespec(FALSE, b, c).res
  BY DEF Timespec
<1>1. CASE ~utc
  <2>1. spec = Timespec(FALSE, 0, 0)
    BY <1>1, Zenon DEF timespec_get
  <2>2. ~spec.res
    BY <1>0, <2>1, Zenon
  <2>3. o.ms = 0
    BY <2>2, NoMilliseconds, Zenon
  <2>4. ~x.utc /\ ~o.spec.res
    BY <1>1, <2>2, Zenon
  <2>5. QED
    BY <2>3, <2>4, SinceMeans, Zenon
<1>2. CASE utc /\ read.res
  <2>1. spec = read
    BY <1>2, Zenon DEF timespec_get
  <2>2. read.sec = sec
    BY <1>2 DEF Reads
  <2>3. InMilliseconds(o, sec, milli)
    BY <1>2, <2>1, <2>2, MillisecondsOf, Zenon
  <2>4. QED
    BY <1>2, <2>3, SinceMeans, Zenon
<1>3. CASE utc /\ ~read.res
  <2>1. ASSUME CountedRight(tm) PROVE InMilliseconds(o, sec, 0)
    <3>1. Date(sec, tm)
      BY CalendarDates, Zenon
    <3>2. day = sec \div DAY
      BY <2>1, <3>1, DaysOfStruct, Zenon
    <3>3. tm.hour * 3600 + tm.min * 60 + tm.sec = sec % DAY /\ tm.hour \in Nat /\ tm.min \in Nat /\ tm.sec \in Nat
      <4> HIDE DEF tm
      <4>1. QED
        BY <3>1 DEF Date, ClockOf
    <3> DEFINE s == day * DAY + tm.hour * 3600 + tm.min * 60 + tm.sec
    <3>4. spec = Timespec(TRUE, s, 0)
      BY <1>3 DEF timespec_get
    <3> HIDE DEF tm, day
    <3>5. s = sec
      <4> DEFINE h == tm.hour
                 m == tm.min
                 c == tm.sec
                 q == sec \div DAY
                 e == sec % DAY
      <4>1. q \in Nat /\ DAY \in Nat /\ sec = DAY * q + e /\ e \in Nat
        BY DaysOfTime
      <4>2. h * 3600 + m * 60 + c = e /\ h \in Nat /\ m \in Nat /\ c \in Nat /\ s = q * DAY + h * 3600 + m * 60 + c
        BY <3>2, <3>3
      <4> HIDE DEF h, m, c, q, e, s
      <4>3. q * DAY = DAY * q /\ q * DAY \in Nat
        BY <4>1
      <4>4. QED
        BY <4>1, <4>2, <4>3
    <3> HIDE DEF s
    <3>6. spec.res /\ spec.sec = sec /\ spec.nsec = 0
      BY <3>4, <3>5 DEF Timespec
    <3>7. Reads(spec, sec, 0)
      BY <3>6, SMT DEF Reads
    <3>8. 0 \in Nat
      OBVIOUS
    <3>9. QED
      BY <3>6, <3>7, <3>8, MillisecondsOf, Zenon
  <2>2. QED
    BY <1>3, <2>1, SinceMeans, Zenon
<1>4. QED
  BY <1>1, <1>2, <1>3

-----------------------------------------------------------------------------
(* Texts of a date                                                         *)

TextWell(out, fits) == out.locale = "user" /\ (~fits => out.errno # 0) /\ (out.errno = 0 => out.text)

LEMMA FormattedText == \A e, l : Formatted(e, TRUE, l).text
BY DEF Formatted

LEMMA FormattedWell ==
    ASSUME NEW fits \in BOOLEAN, NEW errno, NEW text \in BOOLEAN, (errno = 0 => text), (~fits => errno # 0), NEW out,
           out = Formatted(errno, text, "user")
    PROVE  TextWell(out, fits) /\ out.errno = errno
<1>1. out.errno = errno /\ out.locale = "user"
  BY DEF Formatted
<1>2. CASE text
  <2>1. text = TRUE
    BY <1>2
  <2>2. out.text
    BY <2>1, FormattedText, Zenon
  <2>3. QED
    BY <1>1, <2>2, Zenon DEF TextWell
<1>3. CASE ~text
  <2>1. out.errno # 0
    BY <1>1, <1>3, Zenon
  <2>2. QED
    BY <1>1, <2>1, Zenon DEF TextWell
<1>4. QED
  BY <1>2, <1>3, Zenon

LEMMA TextIsWell ==
    ASSUME NEW created \in BOOLEAN, NEW saved \in BOOLEAN, NEW fits \in BOOLEAN
    PROVE  /\ TextWell(standardized_strftime_for_asctime("user", saved, fits), fits)
           /\ TextWell(posix_strftime_l_for_asctime("user", created, saved, fits), fits)
           /\ TextWell(msft_strftime_l_for_asctime("user", created, saved, fits), fits)
<1>0. EINVAL # 0 /\ ENOMEM # 0
  BY DEF EINVAL, ENOMEM
<1>1. ASSUME NEW errno, (errno = 0 => fits), (~fits => errno # 0) PROVE TextWell(Formatted(errno, fits, "user"), fits)
  BY <1>1, FormattedWell, Zenon
<1>2. TextWell(standardized_strftime_for_asctime("user", saved, fits), fits)
  <2> DEFINE e == IF ~fits THEN EINVAL ELSE IF saved THEN 0 ELSE ENOMEM
  <2>1. (e = 0 => fits) /\ (~fits => e # 0)
    BY <1>0
  <2> HIDE DEF e
  <2>2. TextWell(Formatted(e, fits, "user"), fits)
    BY <1>1, <2>1, Zenon
  <2>3. QED
    BY <2>2, Zenon DEF standardized_strftime_for_asctime, e
<1>3. TextWell(posix_strftime_l_for_asctime("user", created, saved, fits), fits)
  <2> DEFINE e == IF fits THEN 0 ELSE EINVAL
  <2>1. (e = 0 => fits) /\ (~fits => e # 0)
    BY <1>0
  <2> HIDE DEF e
  <2>2. TextWell(Formatted(e, fits, "user"), fits)
    BY <1>1, <2>1, Zenon
  <2>3. CASE created
    BY <2>2, <2>3, Zenon DEF posix_strftime_l_for_asctime, e
  <2>4. CASE ~created
    BY <1>2, <2>4, Zenon DEF posix_strftime_l_for_asctime
  <2>5. QED
    BY <2>3, <2>4
<1>4. QED
  BY <1>2, <1>3, Zenon DEF msft_strftime_l_for_asctime

Unasked(null, bufsz) == null # {} \/ bufsz < 26 \/ bufsz > TIME_RSIZE_MAX
TextOut(f, null, bufsz, t, off, created, saved, fits) ==
    AsText(f, null, bufsz, [Calendar(t) EXCEPT !.mon = @ + off], t, created, saved, fits)

AsctimeWell(null, bufsz, tm, fits, out) ==
    TextWell(out, fits) /\ (Unasked(null, bufsz) \/ ~InRange(tm) => out.errno # 0)

LEMMA AsctimeIsWell ==
    ASSUME NEW null, NEW bufsz, NEW tm, NEW created \in BOOLEAN, NEW saved \in BOOLEAN, NEW fits \in BOOLEAN
    PROVE  AsctimeWell(null, bufsz, tm, fits, impl_safe_asctime(null, bufsz, tm, "user", created, saved, fits))
<1> DEFINE out == impl_safe_asctime(null, bufsz, tm, "user", created, saved, fits)
<1>0. EINVAL # 0
  BY DEF EINVAL
<1>1. CASE Unasked(null, bufsz) \/ ~InRange(tm)
  <2>1. out = Formatted(EINVAL, FALSE, "user")
    BY <1>1, Zenon DEF impl_safe_asctime, Unasked
  <2>2. QED
    BY <1>0, <2>1, FormattedWell, Zenon DEF AsctimeWell
<1>2. CASE ~(Unasked(null, bufsz) \/ ~InRange(tm))
  <2>1. out = posix_strftime_l_for_asctime("user", created, saved, fits)
    BY <1>2, Zenon DEF impl_safe_asctime, Unasked
  <2>2. QED
    BY <1>2, <2>1, TextIsWell, Zenon DEF AsctimeWell
<1>3. QED
  BY <1>1, <1>2, Zenon

Asked(x, null, bufsz, off, fits) == x.null = null /\ x.bufsz = bufsz /\ x.off = off /\ x.fits = fits

Displayed(f, null, t, off, created, saved, fits) ==
    /\ f \in {"asctime", "ctime", "posix", "msft", "standard"} /\ null \in {{}, {"buffer"}}
    /\ t \in Nat /\ off \in {0, 12} /\ (f # "asctime" => off = 0)
    /\ created \in BOOLEAN /\ saved \in BOOLEAN /\ fits \in BOOLEAN

LEMMA TextIsKept ==
    ASSUME NEW f, NEW null, NEW bufsz, NEW t, NEW off, NEW created, NEW saved, NEW fits,
           Displayed(f, null, t, off, created, saved, fits), NEW x, Asked(x, null, bufsz, off, fits)
    PROVE  TextKeeps(f, x, TextOut(f, null, bufsz, t, off, created, saved, fits))
<1> DEFINE o == TextOut(f, null, bufsz, t, off, created, saved, fits)
           tm == [Calendar(t) EXCEPT !.mon = @ + off]
<1>0. /\ f \in {"asctime", "ctime", "posix", "msft", "standard"} /\ null \in {{}, {"buffer"}}
      /\ t \in Nat /\ off \in {0, 12} /\ (f # "asctime" => off = 0)
      /\ created \in BOOLEAN /\ saved \in BOOLEAN /\ fits \in BOOLEAN
  BY Zenon DEF Displayed
<1>1. /\ "asctime" # "ctime" /\ "asctime" # "posix" /\ "asctime" # "msft" /\ "asctime" # "standard"
      /\ "ctime" # "posix" /\ "ctime" # "msft" /\ "ctime" # "standard"
      /\ "posix" # "msft" /\ "posix" # "standard" /\ "msft" # "standard"
  OBVIOUS
<1>2. off > 0 => ~InRange(tm)
  <2> DEFINE c == Calendar(t)
  <2>1. c.mon \in 0 .. 11
    <3>1. Date(t, c)
      BY <1>0, CalendarDates, Zenon
    <3> HIDE DEF c
    <3>2. QED
      BY <3>1 DEF Date
  <2>2. tm.mon = c.mon + off
    BY DEF Calendar
  <2> HIDE DEF c, tm
  <2>3. off > 0 => tm.mon > 11
    BY <1>0, <2>1, <2>2
  <2>4. QED
    BY <2>1, <2>2, <2>3 DEF InRange
<1>3. (f = "asctime" \/ off = 0) /\ ~(0 > 0)
  BY <1>0
<1> SUFFICES TextKeeps(f, x, o)
  OBVIOUS
<1> HIDE DEF tm, o
<1>4. ASSUME TextWell(o, fits), f \in {"asctime", "ctime"} /\ Unasked(null, bufsz) => o.errno # 0, off > 0 => o.errno # 0
      PROVE  TextKeeps(f, x, o)
  <2>1. x.null = null /\ x.bufsz = bufsz /\ x.off = off /\ x.fits = fits
    BY Zenon DEF Asked
  <2>2. QED
    BY <1>4, <2>1, Zenon DEF TextKeeps, TextWell, Unasked
<1>9. \A z : AsctimeWell(null, bufsz, z, fits, impl_safe_asctime(null, bufsz, z, "user", created, saved, fits))
  BY <1>0, AsctimeIsWell
<1>5. CASE f = "asctime"
  <2>1. o = impl_safe_asctime(null, bufsz, tm, "user", created, saved, fits)
    BY <1>1, <1>5, Zenon DEF o, TextOut, AsText, tm
  <2>2. AsctimeWell(null, bufsz, tm, fits, o)
    BY <1>9, <2>1, Zenon
  <2>3. QED
    BY <1>2, <1>4, <2>2, Zenon DEF AsctimeWell
<1>6. CASE f = "ctime"
  <2>1. o = impl_safe_ctime(null, bufsz, t, "user", created, saved, fits)
    BY <1>1, <1>6, Zenon DEF o, TextOut, AsText
  <2>2. "timer" \notin null
    BY <1>0
  <2>3. o = impl_safe_asctime(null, bufsz, Calendar(t), "user", created, saved, fits)
    BY <2>1, <2>2, Zenon DEF impl_safe_ctime
  <2>4. AsctimeWell(null, bufsz, Calendar(t), fits, o)
    BY <1>9, <2>3, Zenon
  <2>5. ~(off > 0)
    BY <1>1, <1>3, <1>6
  <2>6. QED
    BY <1>4, <2>4, <2>5, Zenon DEF AsctimeWell
<1>7. CASE f \in {"posix", "msft", "standard"}
  <2>1. TextWell(o, fits)
    <3>1. CASE f = "posix"
      BY <1>1, <3>1, <1>0, TextIsWell, Zenon DEF o, TextOut, AsText
    <3>2. CASE f = "msft"
      BY <1>1, <3>2, <1>0, TextIsWell, Zenon DEF o, TextOut, AsText
    <3>3. CASE f = "standard"
      BY <1>1, <3>3, <1>0, TextIsWell, Zenon DEF o, TextOut, AsText
    <3>4. QED
      BY <1>7, <3>1, <3>2, <3>3
  <2>2. f \notin {"asctime", "ctime"} /\ ~(off > 0)
    BY <1>1, <1>3, <1>7
  <2>3. QED
    BY <1>4, <2>1, <2>2, Zenon
<1>8. QED
  BY <1>0, <1>5, <1>6, <1>7

-----------------------------------------------------------------------------
(* The calls                                                               *)

\* What a stamp is.
StampKeeps(x, o) == o.ok = (o.string = "noon") /\ (x.string = "noon" => o.ok)

CalendarKept(c) == c.family = "calendar" => CalendarKeeps(c.in, c.out)
DurationKept(c) == c.family = "duration" => DurationKeeps(c.in, c.out)
StampKept(c)    == c.family = "stamp" => StampKeeps(c.in, c.out)
FutureKept(c)   == c.family = "future" => FutureKeeps(c.in, c.out)
SinceKept(c)    == c.family = "since" => SinceKeeps(c.in, c.out)
FileTimeKept(c) == c.family = "filetime" => (c.out.res <=> c.in.intervals >= 0)
TextKept(c)     == c.family = "text" => TextKeeps(c.f, c.in, c.out)
SleepKept(c)    == c.family = "sleep" => SleepKeeps(c.f, c.in, c.out)
WatchKept(c)    == c.family = "watch" => WatchKeeps(c.in, c.out)

TimeKept(c) ==
    /\ CalendarKept(c) /\ DurationKept(c) /\ StampKept(c) /\ FutureKept(c) /\ SinceKept(c) /\ FileTimeKept(c)
    /\ TextKept(c) /\ SleepKept(c) /\ WatchKept(c)

LEMMA KeptIsTheProperty ==
    /\ TimeKept(call) => TimesAreKept
    /\ TimeKept(call') => TimesAreKept'
<1>1. TimeKept(call) => TimesAreKept
  BY Zenon DEF TimeKept, TimesAreKept, Is, CalendarKept, DurationKept, StampKept, StampKeeps, FutureKept, SinceKept,
               FileTimeKept, TextKept, SleepKept, WatchKept
<1>2. TimeKept(call') => TimesAreKept'
  BY Zenon DEF TimeKept, TimesAreKept, Is, CalendarKept, DurationKept, StampKept, StampKeeps, FutureKept, SinceKept,
               FileTimeKept, TextKept, SleepKept, WatchKept
<1>3. QED
  BY <1>1, <1>2, Zenon

LEMMA OthersKept ==
    ASSUME NEW c, c.family \notin TimeFamilies
    PROVE  TimeKept(c)
<1>1. /\ ~(c.family = "calendar") /\ ~(c.family = "duration") /\ ~(c.family = "stamp") /\ ~(c.family = "future")
      /\ ~(c.family = "since") /\ ~(c.family = "filetime") /\ ~(c.family = "text") /\ ~(c.family = "sleep")
      /\ ~(c.family = "watch")
  BY DEF TimeFamilies
<1>2. QED
  BY <1>1, Zenon DEF TimeKept, CalendarKept, DurationKept, StampKept, FutureKept, SinceKept, FileTimeKept, TextKept,
                     SleepKept, WatchKept

\* A call keeps its time when it does what its own family asks for.
FamilyKeeps(fam, f, x, o) ==
    \/ fam = "calendar" /\ CalendarKeeps(x, o)
    \/ fam = "duration" /\ DurationKeeps(x, o)
    \/ fam = "stamp" /\ StampKeeps(x, o)
    \/ fam = "future" /\ FutureKeeps(x, o)
    \/ fam = "since" /\ SinceKeeps(x, o)
    \/ fam = "filetime" /\ (o.res <=> x.intervals >= 0)
    \/ fam = "text" /\ TextKeeps(f, x, o)
    \/ fam = "sleep" /\ SleepKeeps(f, x, o)
    \/ fam = "delay"
    \/ fam = "watch" /\ WatchKeeps(x, o)

LEMMA OneTimeFamily ==
    ASSUME NEW fam, NEW f, NEW x, NEW o, Called(fam, f, x, o), FamilyKeeps(fam, f, x, o)
    PROVE  TimeKept(call')
<1> DEFINE c == call'
<1>1. c.family = fam /\ c.f = f /\ c.in = x /\ c.out = o
  BY DEF Called
<1> HIDE DEF c
<1>2. CASE fam = "calendar" /\ CalendarKeeps(x, o)
  <2>1. /\ fam # "duration" /\ fam # "stamp" /\ fam # "future" /\ fam # "since" /\ fam # "filetime" /\ fam # "text"
        /\ fam # "sleep" /\ fam # "watch"
    BY <1>2
  <2>2. QED
    BY <1>1, <1>2, <2>1, Zenon DEF TimeKept, CalendarKept, DurationKept, StampKept, FutureKept, SinceKept,
                                   FileTimeKept, TextKept, SleepKept, WatchKept, c
<1>3. CASE fam = "duration" /\ DurationKeeps(x, o)
  <2>1. /\ fam # "calendar" /\ fam # "stamp" /\ fam # "future" /\ fam # "since" /\ fam # "filetime" /\ fam # "text"
        /\ fam # "sleep" /\ fam # "watch"
    BY <1>3
  <2>2. QED
    BY <1>1, <1>3, <2>1, Zenon DEF TimeKept, CalendarKept, DurationKept, StampKept, FutureKept, SinceKept,
                                   FileTimeKept, TextKept, SleepKept, WatchKept, c
<1>4. CASE fam = "stamp" /\ StampKeeps(x, o)
  <2>1. /\ fam # "calendar" /\ fam # "duration" /\ fam # "future" /\ fam # "since" /\ fam # "filetime" /\ fam # "text"
        /\ fam # "sleep" /\ fam # "watch"
    BY <1>4
  <2>2. QED
    BY <1>1, <1>4, <2>1, Zenon DEF TimeKept, CalendarKept, DurationKept, StampKept, FutureKept, SinceKept,
                                   FileTimeKept, TextKept, SleepKept, WatchKept, c
<1>5. CASE fam = "future" /\ FutureKeeps(x, o)
  <2>1. /\ fam # "calendar" /\ fam # "duration" /\ fam # "stamp" /\ fam # "since" /\ fam # "filetime" /\ fam # "text"
        /\ fam # "sleep" /\ fam # "watch"
    BY <1>5
  <2>2. QED
    BY <1>1, <1>5, <2>1, Zenon DEF TimeKept, CalendarKept, DurationKept, StampKept, FutureKept, SinceKept,
                                   FileTimeKept, TextKept, SleepKept, WatchKept, c
<1>6. CASE fam = "since" /\ SinceKeeps(x, o)
  <2>1. /\ fam # "calendar" /\ fam # "duration" /\ fam # "stamp" /\ fam # "future" /\ fam # "filetime" /\ fam # "text"
        /\ fam # "sleep" /\ fam # "watch"
    BY <1>6
  <2>2. QED
    BY <1>1, <1>6, <2>1, Zenon DEF TimeKept, CalendarKept, DurationKept, StampKept, FutureKept, SinceKept,
                                   FileTimeKept, TextKept, SleepKept, WatchKept, c
<1>7. CASE fam = "filetime" /\ (o.res <=> x.intervals >= 0)
  <2>1. /\ fam # "calendar" /\ fam # "duration" /\ fam # "stamp" /\ fam # "future" /\ fam # "since" /\ fam # "text"
        /\ fam # "sleep" /\ fam # "watch"
    BY <1>7
  <2>2. QED
    BY <1>1, <1>7, <2>1, Zenon DEF TimeKept, CalendarKept, DurationKept, StampKept, FutureKept, SinceKept,
                                   FileTimeKept, TextKept, SleepKept, WatchKept, c
<1>8. CASE fam = "text" /\ TextKeeps(f, x, o)
  <2>1. /\ fam # "calendar" /\ fam # "duration" /\ fam # "stamp" /\ fam # "future" /\ fam # "since" /\ fam # "filetime"
        /\ fam # "sleep" /\ fam # "watch"
    BY <1>8
  <2>2. QED
    BY <1>1, <1>8, <2>1, Zenon DEF TimeKept, CalendarKept, DurationKept, StampKept, FutureKept, SinceKept,
                                   FileTimeKept, TextKept, SleepKept, WatchKept, c
<1>9. CASE fam = "sleep" /\ SleepKeeps(f, x, o)
  <2>1. /\ fam # "calendar" /\ fam # "duration" /\ fam # "stamp" /\ fam # "future" /\ fam # "since" /\ fam # "filetime"
        /\ fam # "text" /\ fam # "watch"
    BY <1>9
  <2>2. QED
    BY <1>1, <1>9, <2>1, Zenon DEF TimeKept, CalendarKept, DurationKept, StampKept, FutureKept, SinceKept,
                                   FileTimeKept, TextKept, SleepKept, WatchKept, c
<1>10. CASE fam = "delay"
  <2>1. /\ fam # "calendar" /\ fam # "duration" /\ fam # "stamp" /\ fam # "future" /\ fam # "since" /\ fam # "filetime"
        /\ fam # "text" /\ fam # "sleep" /\ fam # "watch"
    BY <1>10
  <2>2. QED
    BY <1>1, <1>10, <2>1, Zenon DEF TimeKept, CalendarKept, DurationKept, StampKept, FutureKept, SinceKept,
                                   FileTimeKept, TextKept, SleepKept, WatchKept, c
<1>11. CASE fam = "watch" /\ WatchKeeps(x, o)
  <2>1. /\ fam # "calendar" /\ fam # "duration" /\ fam # "stamp" /\ fam # "future" /\ fam # "since" /\ fam # "filetime"
        /\ fam # "text" /\ fam # "sleep"
    BY <1>11
  <2>2. QED
    BY <1>1, <1>11, <2>1, Zenon DEF TimeKept, CalendarKept, DurationKept, StampKept, FutureKept, SinceKept,
                                   FileTimeKept, TextKept, SleepKept, WatchKept, c
<1>12. QED
  BY <1>2, <1>3, <1>4, <1>5, <1>6, <1>7, <1>8, <1>9, <1>10, <1>11, Zenon DEF FamilyKeeps

LEMMA TellingIsCorrect == Telling => TimeKept(call')
<1>1. ASSUME NEW t \in Seconds, NEW null,
             Called("calendar", "calendar", [t |-> t, null |-> null],
                    [gm |-> impl_safe_gmtime(null, t), local |-> impl_safe_localtime(null, t),
                     milli |-> milliseconds_Since_Unix_Epoch_To_Struct_TM(t),
                     day |-> struct_tm_to_struct_timespec(Calendar(t))])
      PROVE  TimeKept(call')
  <2> DEFINE gm    == impl_safe_gmtime(null, t)
             local == impl_safe_localtime(null, t)
             milli == milliseconds_Since_Unix_Epoch_To_Struct_TM(t)
             day   == struct_tm_to_struct_timespec(Calendar(t))
             x     == [t |-> t, null |-> null]
             o     == [gm |-> gm, local |-> local, milli |-> milli, day |-> day]
  <2>1. t \in Nat
    BY TimeCallsAssumption
  <2>2. Called("calendar", "calendar", x, o)
    BY <1>1, Zenon
  <2> HIDE DEF gm, local, milli, day
  <2>3. x.t = t /\ x.null = null /\ o.gm = gm /\ o.local = local /\ o.milli = milli /\ o.day = day
    OBVIOUS
  <2> HIDE DEF x, o
  <2>4. CalendarKeeps(x, o)
    BY <2>1, <2>3, CalendarIsKept, Zenon DEF gm, local, milli, day
  <2>5. FamilyKeeps("calendar", "calendar", x, o)
    BY <2>4, Zenon DEF FamilyKeeps
  <2>6. QED
    BY <2>2, <2>5, OneTimeFamily, Zenon
<1>2. ASSUME NEW t \in Seconds,
             Called("duration", "duration", [t |-> t],
                    [d |-> convert_Seconds_To_Displayable_Time(t), double |-> convert_Seconds_To_Displayable_Time_Double(t),
                     shown |-> print_Time_To_Screen(convert_Seconds_To_Displayable_Time(t))])
      PROVE  TimeKept(call')
  <2> DEFINE d     == convert_Seconds_To_Displayable_Time(t)
             shown == print_Time_To_Screen(d)
             x     == [t |-> t]
             o     == [d |-> d, double |-> d, shown |-> shown]
  <2>1. t \in Nat
    BY TimeCallsAssumption
  <2>2. Called("duration", "duration", x, o)
    BY <1>2, Zenon DEF convert_Seconds_To_Displayable_Time_Double
  <2> HIDE DEF d, shown
  <2>3. x.t = t /\ o.d = d /\ o.double = o.d /\ o.shown = shown
    OBVIOUS
  <2> HIDE DEF x, o
  <2>4. shown = print_Time_To_Screen(o.d)
    BY <2>3, Zenon DEF shown
  <2>5. DurationKeeps(x, o)
    BY <2>1, <2>3, <2>4, DurationIsKept, Zenon DEF d
  <2>6. FamilyKeeps("duration", "duration", x, o)
    BY <2>5, Zenon DEF FamilyKeeps
  <2>7. QED
    BY <2>2, <2>6, OneTimeFamily, Zenon
<1>3. ASSUME NEW string \in {"", "CAL_TIME_NOT_AVAILABLE", "noon"}, NEW now \in {"noon", "error"},
             Called("stamp", "stamp", [string |-> string, now |-> now], get_current_timestamp(string, now))
      PROVE  TimeKept(call')
  <2> DEFINE x == [string |-> string, now |-> now]
             o == get_current_timestamp(string, now)
  <2>1. x.string = string
    OBVIOUS
  <2>2. Called("stamp", "stamp", x, o)
    BY <1>3, Zenon
  <2>3. o.ok = (o.string = "noon") /\ (string = "noon" => o.ok)
    BY StampIsCorrect, Zenon
  <2> HIDE DEF x, o
  <2>4. StampKeeps(x, o)
    BY <2>1, <2>3, Zenon DEF StampKeeps
  <2>5. FamilyKeeps("stamp", "stamp", x, o)
    BY <2>4, Zenon DEF FamilyKeeps
  <2>6. QED
    BY <2>2, <2>5, OneTimeFamily, Zenon
<1>4. QED
  BY <1>1, <1>2, <1>3, Zenon DEF Telling

LEMMA FutureCallIsCorrect ==
    ASSUME NEW t \in Seconds, NEW add \in Ahead,
           Called("future", "future", [t |-> t, add |-> add], get_Future_Date_And_Time(t, add))
    PROVE  TimeKept(call')
<1> DEFINE x == [t |-> t, add |-> add]
           o == get_Future_Date_And_Time(t, add)
<1>1. t \in Nat /\ add \in Nat
  BY TimeCallsAssumption
<1>2. x.t = t /\ x.add = add
  OBVIOUS
<1> HIDE DEF x
<1>3. FutureKeeps(x, o)
  BY <1>1, <1>2, FutureIsKept, Zenon
<1> HIDE DEF o
<1>4. FamilyKeeps("future", "future", x, o)
  BY <1>3, Zenon DEF FamilyKeeps
<1>5. Called("future", "future", x, o)
  BY Zenon DEF x, o
<1>6. QED
  BY <1>4, <1>5, OneTimeFamily, Zenon

\* What the clock of the build answers.
ReadFrom(source, res, sec, milli) ==
    IF source = "ftime64" THEN win_ftime64_to_struct_timespec(sec, milli) ELSE Timespec(res, sec, milli * 1000000)

LEMMA ClockReads ==
    ASSUME NEW source, NEW res \in BOOLEAN, NEW sec, NEW milli
    PROVE  Reads(ReadFrom(source, res, sec, milli), sec, milli)
<1>1. Reads(Timespec(res, sec, milli * 1000000), sec, milli)
  BY SMT DEF Timespec, Reads
<1>2. CASE source = "ftime64"
  BY <1>2, SMT DEF ReadFrom, Reads, win_ftime64_to_struct_timespec, Timespec
<1>3. CASE source # "ftime64"
  <2>1. ReadFrom(source, res, sec, milli) = Timespec(res, sec, milli * 1000000)
    BY <1>3, SMT DEF ReadFrom
  <2>2. QED
    BY <1>1, <2>1, SMT
<1>4. QED
  BY <1>2, <1>3

LEMMA SinceCallIsCorrect ==
    ASSUME NEW sec \in Readings, NEW milli \in Nat, NEW utc \in BOOLEAN, NEW source, NEW read, Reads(read, sec, milli),
           Called("since", source, [sec |-> sec, milli |-> milli, utc |-> utc, res |-> read.res],
                  [spec |-> timespec_get(utc, read, Calendar(sec)),
                   ms |-> get_Milliseconds_Since_Unix_Epoch(timespec_get(utc, read, Calendar(sec)))])
    PROVE  TimeKept(call')
<1> DEFINE res  == read.res
           spec == timespec_get(utc, read, Calendar(sec))
           ms   == get_Milliseconds_Since_Unix_Epoch(spec)
           x    == [sec |-> sec, milli |-> milli, utc |-> utc, res |-> res]
           o    == [spec |-> spec, ms |-> ms]
<1>1. sec \in Nat
  BY TimeCallsAssumption
<1>2. Called("since", source, x, o)
  BY Zenon
<1> HIDE DEF res, spec, ms
<1>3. x.sec = sec /\ x.milli = milli /\ x.utc = utc /\ x.res = res /\ o.spec = spec /\ o.ms = ms
  OBVIOUS
<1> HIDE DEF x, o
<1>4. (x.utc <=> utc) /\ (x.res <=> read.res)
  BY <1>3 DEF res
<1>5. SinceKeeps(x, o)
  BY <1>1, <1>3, <1>4, SinceIsKept, Zenon DEF spec, ms
<1>6. FamilyKeeps("since", source, x, o)
  BY <1>5, Zenon DEF FamilyKeeps
<1>7. QED
  BY <1>2, <1>6, OneTimeFamily, Zenon

LEMMA FileTimeCallIsCorrect ==
    ASSUME NEW intervals \in Int,
           Called("filetime", "filetime", [intervals |-> intervals], win_filetime_to_struct_timespec(intervals))
    PROVE  TimeKept(call')
<1> DEFINE x == [intervals |-> intervals]
           o == win_filetime_to_struct_timespec(intervals)
<1>1. x.intervals = intervals
  OBVIOUS
<1>2. o.res <=> intervals >= 0
  BY FileTimeIsCorrect, Zenon
<1>3. Called("filetime", "filetime", x, o)
  BY Zenon
<1> HIDE DEF x, o
<1>4. FamilyKeeps("filetime", "filetime", x, o)
  BY <1>1, <1>2, Zenon DEF FamilyKeeps
<1>5. QED
  BY <1>3, <1>4, OneTimeFamily, Zenon

LEMMA WaitingIsCorrect == Waiting => TimeKept(call')
<1> DEFINE Future == \E t \in Seconds, add \in Ahead :
                        Called("future", "future", [t |-> t, add |-> add], get_Future_Date_And_Time(t, add))
           Since(sec, milli, utc, res, source) ==
               LET read == ReadFrom(source, res, sec, milli)
                   spec == timespec_get(utc, read, Calendar(sec))
               IN Called("since", source, [sec |-> sec, milli |-> milli, utc |-> utc, res |-> read.res],
                         [spec |-> spec, ms |-> get_Milliseconds_Since_Unix_Epoch(spec)])
           Reading == \E sec \in Readings, milli \in {0, 1, 999}, utc, res \in BOOLEAN, source \in {"clock", "ftime64"} :
                         Since(sec, milli, utc, res, source)
           Intervals == {0 - 1, 0, 999999999, 1000000000, 2000000001}
           Filing == \E intervals \in Intervals :
                        Called("filetime", "filetime", [intervals |-> intervals], win_filetime_to_struct_timespec(intervals))
<1>1. Waiting <=> Future \/ Reading \/ Filing
  BY SMT DEF Waiting, ReadFrom
<1>2. Future => TimeKept(call')
  BY FutureCallIsCorrect, SMT
<1>3. Reading => TimeKept(call')
  <2>1. ASSUME NEW sec \in Readings, NEW milli \in {0, 1, 999}, NEW utc \in BOOLEAN, NEW res \in BOOLEAN,
               NEW source \in {"clock", "ftime64"}, Since(sec, milli, utc, res, source)
        PROVE  TimeKept(call')
    <3>1. milli \in Nat
      OBVIOUS
    <3> DEFINE read == ReadFrom(source, res, sec, milli)
    <3>2. Reads(read, sec, milli)
      BY ClockReads, SMT
    <3>3. Called("since", source, [sec |-> sec, milli |-> milli, utc |-> utc, res |-> read.res],
                 [spec |-> timespec_get(utc, read, Calendar(sec)),
                  ms |-> get_Milliseconds_Since_Unix_Epoch(timespec_get(utc, read, Calendar(sec)))])
      BY <2>1, SMT
    <3> HIDE DEF read
    <3>4. QED
      BY <3>1, <3>2, <3>3, SinceCallIsCorrect, SMT
  <2> HIDE DEF Since
  <2>2. QED
    BY <2>1, SMT
<1>4. Filing => TimeKept(call')
  <2>1. \A i \in Intervals : i \in Int
    BY SMT
  <2> HIDE DEF Intervals
  <2>2. QED
    BY <2>1, FileTimeCallIsCorrect, SMT
<1> HIDE DEF Future, Reading, Filing
<1>5. QED
  BY <1>1, <1>2, <1>3, <1>4, Zenon

LEMMA DisplayingIsCorrect == Displaying => TimeKept(call')
<1> DEFINE Functions == {"asctime", "ctime", "posix", "msft", "standard"}
           Sizes == {25, 26, TIME_RSIZE_MAX, TIME_RSIZE_MAX + 1}
           Times == {0, (2 * DAY) + 5}
           Show(t, null, bufsz, created, saved, fits, off, f) ==
               /\ f # "asctime" => off = 0
               /\ Called("text", f, [null |-> null, bufsz |-> bufsz, off |-> off, created |-> created, saved |-> saved, fits |-> fits],
                         TextOut(f, null, bufsz, t, off, created, saved, fits))
<1>1. Displaying <=> \E t \in Times, null \in {{}, {"buffer"}}, bufsz \in Sizes,
                        created, saved, fits \in BOOLEAN, off \in {0, 12}, f \in Functions :
                           Show(t, null, bufsz, created, saved, fits, off, f)
  BY SMT DEF Displaying, TextOut
<1>2. \A t \in Times : t \in Nat
  BY DaysOfTime DEF DAY
<1> HIDE DEF Times, Sizes
<1>3. ASSUME NEW t \in Times, NEW null \in {{}, {"buffer"}}, NEW bufsz \in Sizes, NEW created \in BOOLEAN,
             NEW saved \in BOOLEAN, NEW fits \in BOOLEAN, NEW off \in {0, 12}, NEW f \in Functions,
             Show(t, null, bufsz, created, saved, fits, off, f)
      PROVE  TimeKept(call')
  <2> DEFINE x == [null |-> null, bufsz |-> bufsz, off |-> off, created |-> created, saved |-> saved, fits |-> fits]
             o == TextOut(f, null, bufsz, t, off, created, saved, fits)
  <2>1. t \in Nat /\ (f # "asctime" => off = 0)
    BY <1>2, <1>3
  <2>0. Displayed(f, null, t, off, created, saved, fits)
    BY <2>1 DEF Displayed
  <2>2. Called("text", f, x, o)
    BY <1>3, Zenon
  <2>3. Asked(x, null, bufsz, off, fits)
    BY DEF Asked
  <2> HIDE DEF x, Show
  <2>4. TextKeeps(f, x, o)
    BY <2>0, <2>3, TextIsKept, Zenon
  <2> HIDE DEF o
  <2>5. FamilyKeeps("text", f, x, o)
    BY <2>4, Zenon DEF FamilyKeeps
  <2>6. QED
    BY <2>2, <2>5, OneTimeFamily, Zenon
<1> HIDE DEF Show, Functions
<1>4. QED
  BY <1>1, <1>3, SMT

LEMMA SleepingCallIsCorrect == Sleeping => TimeKept(call')
<1>1. ASSUME NEW fam, NEW f, NEW x, NEW o, Called(fam, f, x, o),
             (fam = "sleep" /\ SleepKeeps(f, x, o)) \/ fam = "delay"
      PROVE  TimeKept(call')
  <2>1. FamilyKeeps(fam, f, x, o)
    BY <1>1, Zenon DEF FamilyKeeps
  <2>2. QED
    BY <1>1, <2>1, OneTimeFamily, Zenon
<1>2. ASSUME NEW calls \in Sleeps, NEW n \in 1 .. UINT32_RANGE - 1, NEW select \in {"done", "signal"},
             NEW selected, selected = [ends |-> select, errno |-> EINVAL, slept |-> 0],
             NEW all, all = [calls |-> calls, n |-> n, select |-> select],
             \/ Called("sleep", "us", all, sleepus(n, calls, selected))
             \/ Called("sleep", "ms", all, sleepms(n, calls, selected))
             \/ Called("sleep", "sec", all, sleepsec(n, calls, selected))
             \/ Called("delay", "ms", all, delay_Milliseconds(n, calls, selected))
             \/ Called("delay", "sec", all, delay_Seconds(n, calls, selected))
      PROVE  TimeKept(call')
  <2>1. selected.ends = select /\ all.calls = calls /\ all.n = n /\ all.select = select
    BY <1>2
  <2>2. /\ SleepKeeps("us", all, sleepus(n, calls, selected))
        /\ SleepKeeps("ms", all, sleepms(n, calls, selected))
        /\ SleepKeeps("sec", all, sleepsec(n, calls, selected))
    BY <2>1, SleepingIsCorrect, Zenon
  <2>3. QED
    BY <1>1, <1>2, <2>2, Zenon
<1>3. QED
  BY <1>2, Zenon DEF Sleeping

LEMMA WatchingCallIsCorrect == Watching => TimeKept(call')
<1>1. ASSUME NEW start \in Ticks, NEW stop \in Ticks, NEW frequency \in Frequencies, NEW second \in Resolutions,
             NEW timer, timer = stop_Timer(start_Timer([timerStart |-> 3, timerStop |-> 4], start), stop),
             NEW nano, nano = get_Nano_Seconds(timer, frequency, second),
             Called("watch", "timer", [start |-> start, stop |-> stop, frequency |-> frequency, second |-> second],
                    [nano |-> nano, parts |-> <<get_Micro_Seconds(nano), get_Milli_Seconds(nano), get_Seconds(nano)>>])
      PROVE  TimeKept(call')
  <2> DEFINE x == [start |-> start, stop |-> stop, frequency |-> frequency, second |-> second]
             parts == <<get_Micro_Seconds(nano), get_Milli_Seconds(nano), get_Seconds(nano)>>
             o == [nano |-> nano, parts |-> parts]
  <2>1. start \in Int /\ stop \in Int /\ frequency \in Nat /\ second \in Nat
    BY <1>1, TimeCallsAssumption
  <2>2. Called("watch", "timer", x, o)
    BY <1>1, Zenon
  <2> HIDE DEF parts
  <2>3. x.start = start /\ x.stop = stop /\ x.frequency = frequency /\ x.second = second /\ o.nano = nano
    OBVIOUS
  <2> HIDE DEF x, o
  <2>4. WatchKeeps(x, o)
    BY <1>1, <2>1, <2>3, WatchingIsCorrect, Zenon
  <2>5. FamilyKeeps("watch", "timer", x, o)
    BY <2>4, Zenon DEF FamilyKeeps
  <2>6. QED
    BY <2>2, <2>5, OneTimeFamily, Zenon
<1>2. QED
  BY <1>1, Zenon DEF Watching

\* A calendar date, a duration and a clock give the seconds they were made of, a
\* time in the future is that much later within a month and at the right time of
\* the day always, a formatting leaves the locale as it was, a sleep that signals
\* interrupt sleeps the whole time, and a stop watch loses fewer nanoseconds than it
\* ticks in a second: for every time, every reading of the clocks and every list of interruptions.
THEOREM TimesCorrect == TimeSpec => []TimesAreKept
<1> DEFINE Other == OtherThan(TimeFamilies)
           Steps == Telling \/ Waiting \/ Displaying \/ Sleeping \/ Watching \/ Other
<1>1. call = Idle => TimeKept(call)
  <2>1. SUFFICES ASSUME call = Idle PROVE call.family \notin TimeFamilies
    BY OthersKept, Zenon
  <2>2. QED
    BY <2>1 DEF Idle, TimeFamilies
<1>2. TimeKept(call) /\ [Steps]_call => TimeKept(call')
  <2> SUFFICES ASSUME TimeKept(call), [Steps]_call
               PROVE  TimeKept(call')
    OBVIOUS
  <2>1. CASE Telling
    BY <2>1, TellingIsCorrect, Zenon
  <2>2. CASE Waiting
    BY <2>2, WaitingIsCorrect, Zenon
  <2>3. CASE Displaying
    BY <2>3, DisplayingIsCorrect, Zenon
  <2>4. CASE Sleeping
    BY <2>4, SleepingCallIsCorrect, Zenon
  <2>5. CASE Watching
    BY <2>5, WatchingCallIsCorrect, Zenon
  <2>6. CASE Other
    BY <2>6, OthersKept, Zenon DEF OtherThan
  <2>7. CASE UNCHANGED call
    BY <2>7, Zenon
  <2>8. QED
    BY <2>1, <2>2, <2>3, <2>4, <2>5, <2>6, <2>7, Zenon
<1>3. TimeKept(call) => TimesAreKept
  BY KeptIsTheProperty, Zenon
<1>4. TimeKept(call)' <=> TimeKept(call')
  BY Zenon DEF TimeKept, CalendarKept, DurationKept, StampKept, FutureKept, SinceKept, FileTimeKept, TextKept,
               SleepKept, WatchKept
<1>5. QED
  BY <1>1, <1>2, <1>3, <1>4, PTL DEF TimeSpec
===============================================================================
