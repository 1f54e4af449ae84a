---------------------------- MODULE AmountProofs ----------------------------
(***************************************************************************)
(* What the conversions of sums promise, for every amount.                 *)
(***************************************************************************)
EXTENDS Amounts, TLAPS

(* The two digits of the kopecks.                                          *)
LEMMA TwoDigits ==
  ASSUME NEW v \in Nat
  PROVE  /\ v \div 100 \in Nat /\ (v % 100) \div 10 \in Nat /\ v % 10 \in Nat
         /\ v = 100 * (v \div 100) + 10 * ((v % 100) \div 10) + (v % 10)
<1> DEFINE r == v % 100
           q == v \div 100
<1>1. q \in Nat /\ r \in 0..99 /\ v = 100 * q + r
  OBVIOUS
<1>2. r \div 10 \in Nat /\ r = 10 * (r \div 10) + (r % 10)
  BY <1>1
<1>3. v % 10 = r % 10 /\ r % 10 \in Nat
  <2> HIDE DEF q, r
  <2>1. (100 * q + r) % 10 = r % 10
    BY <1>1
  <2> QED BY <1>1, <2>1
<1> QED BY <1>1, <1>2, <1>3

Magnitude(k) == IF k < 0 THEN -k ELSE k

(* MarshalJSON writes a number of roubles that it and UnmarshalJSON read   *)
(* alike: sign, roubles, and two digits or none.                           *)
LEMMA EncodedParts ==
  ASSUME NEW k \in Int
  PROVE  /\ Encoded(k).neg = (k < 0)
         /\ Encoded(k).units = Magnitude(k) \div 100
         /\ DigitAt(Encoded(k), 1) = (Magnitude(k) % 100) \div 10
         /\ DigitAt(Encoded(k), 2) = Magnitude(k) % 10
         /\ DigitAt(Encoded(k), 3) = 0
<1> DEFINE v == Magnitude(k)
<1>0. v \in Nat
  BY DEF Magnitude
<1>1. CASE k = 0
  <2>1. Encoded(k).frac = <<>> /\ Len(<<>>) = 0
    BY <1>1 DEF Encoded
  <2>2. \A i \in 1..3 : DigitAt(Encoded(k), i) = 0
    BY <2>1 DEF DigitAt
  <2> QED BY <1>1, <2>2 DEF Encoded, Magnitude
<1>2. CASE k # 0
  <2>1. Encoded(k).frac = <<(v % 100) \div 10, v % 10>>
    BY <1>2 DEF Encoded, Magnitude
  <2>2. /\ DigitAt(Encoded(k), 1) = (v % 100) \div 10
        /\ DigitAt(Encoded(k), 2) = v % 10 /\ DigitAt(Encoded(k), 3) = 0
    BY <2>1 DEF DigitAt
  <2> QED BY <1>0, <2>2 DEF Encoded, Magnitude
<1> QED BY <1>1, <1>2

LEMMA EncodedKopecks ==
  ASSUME NEW k \in Int
  PROVE  Kopecks(Encoded(k)) = Magnitude(k)
<1>1. Magnitude(k) \in Nat
  BY DEF Magnitude
<1>2. Kopecks(Encoded(k)) = 100 * (Magnitude(k) \div 100)
        + 10 * ((Magnitude(k) % 100) \div 10) + (Magnitude(k) % 10)
  BY <1>1, EncodedParts, TwoDigits DEF Kopecks
<1> QED BY <1>1, <1>2, TwoDigits

LEMMA EncodedTenths == ASSUME NEW k \in Int PROVE Tenths(Encoded(k)) = 10 * k
<1>1. Kopecks(Encoded(k)) = Magnitude(k) /\ DigitAt(Encoded(k), 3) = 0
      /\ Encoded(k).neg = (k < 0)
  BY EncodedParts, EncodedKopecks
<1>2. Tenths(Encoded(k)) = Signed(k < 0, 10 * Magnitude(k) + 0)
  BY <1>1 DEF Tenths
<1>3. CASE k < 0
  BY <1>2, <1>3 DEF Signed, Magnitude
<1>4. CASE ~(k < 0)
  BY <1>2, <1>4 DEF Signed, Magnitude
<1> QED BY <1>3, <1>4

(* What MarshalJSON writes is the amount to the kopeck, whatever it is: no *)
(* padding is lost.  And UnmarshalJSON reads it back as the same kopecks,  *)
(* unless it is so large that a double cannot hold it.                     *)
THEOREM AnswersReadBack ==
  \A k \in Int : /\ Tenths(Encoded(k)) = 10 * k
                 /\ Precise(Encoded(k)) => Decoded(Encoded(k)) = {k}
<1> SUFFICES ASSUME NEW k \in Int
             PROVE  /\ Tenths(Encoded(k)) = 10 * k
                    /\ Precise(Encoded(k)) => Decoded(Encoded(k)) = {k}
  OBVIOUS
<1>1. Tenths(Encoded(k)) = 10 * k
  BY EncodedTenths
<1>2. ASSUME Precise(Encoded(k)) PROVE Decoded(Encoded(k)) = {k}
  <2>1. Decoded(Encoded(k)) =
          {j \in ((10 * k - 5) \div 10)..((10 * k + 5) \div 10) :
             10 * j - 10 * k \in -5..5}
    BY <1>1, <1>2 DEF Decoded, Precise
  <2>2. (10 * k - 5) \div 10 <= k /\ k <= (10 * k + 5) \div 10
    OBVIOUS
  <2> QED BY <2>1, <2>2
<1> QED BY <1>1, <1>2

(* SetAccrual, which cuts instead of rounding, reads the same kopecks too: *)
(* the two readings of the program agree on what it writes.                *)
THEOREM AccrualsReadBack == \A k \in Nat : Accrued(Encoded(k)) = k
<1> SUFFICES ASSUME NEW k \in Nat PROVE Accrued(Encoded(k)) = k
  OBVIOUS
<1>1. k \in Int /\ Magnitude(k) = k
  BY DEF Magnitude
<1>2. Kopecks(Encoded(k)) = k
  BY <1>1, EncodedKopecks
<1>3. ~(k < 0)
  OBVIOUS
<1>4. ~Encoded(k).neg
  BY <1>1, <1>3, EncodedParts, Zenon
<1> QED BY <1>2, <1>4 DEF Accrued

(* The parts of a decimal are numbers, and so is what is read of it.       *)
LEMMA DecimalParts ==
  ASSUME NEW d \in Decimal
  PROVE  /\ Kopecks(d) \in Nat /\ DigitAt(d, 3) \in Nat
         /\ Tenths(d) \in Int /\ Error(d) \in Nat
<1>1. /\ d.units \in Nat /\ d.neg \in BOOLEAN
      /\ \A i \in 1..3 : DigitAt(d, i) \in Digit
  <2>1. PICK n \in 0..3 : d.frac \in [1..n -> Digit]
    BY DEF Decimal, MaxDigits
  <2>2. Len(d.frac) = n /\ \A i \in 1..n : d.frac[i] \in Digit
    BY <2>1
  <2> QED BY <2>2 DEF DigitAt, Digit, Decimal
<1>2. DigitAt(d, 3) \in Nat /\ Kopecks(d) \in Nat
  BY <1>1 DEF Kopecks, Digit
<1>3. Tenths(d) \in Int
  BY <1>1, <1>2 DEF Tenths, Signed
<1>4. Error(d) \in Nat
  <2> DEFINE t == 10 * Kopecks(d) + DigitAt(d, 3)
  <2>1. t \in Nat
    BY <1>2
  <2>2. \A n \in Nat : (n \div 2^30) \div 2^21 \in Nat
    OBVIOUS
  <2> HIDE DEF t
  <2> QED BY <2>1, <2>2 DEF Error, t
<1> QED BY <1>2, <1>3, <1>4

LEMMA DecodedInt == ASSUME NEW d \in Decimal, NEW k \in Decoded(d) PROVE k \in Int
  BY DecimalParts DEF Decoded

(* A sum that a client types is debited to the nearest kopeck, if its      *)
(* double is precise enough.                                               *)
LEMMA SumsRoundToNearest ==
  ASSUME NEW d \in Decimal, NEW k \in Decoded(d), Precise(d) PROVE Nearest(k, d)
  BY DEF Decoded, Precise, Nearest
=============================================================================
