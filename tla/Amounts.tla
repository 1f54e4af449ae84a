------------------------------- MODULE Amounts -------------------------------
(***************************************************************************)
(* Sums of money: kopecks in the program, decimal numbers of roubles in    *)
(* JSON.  A decimal is its sign, its whole roubles and the digits after    *)
(* the point.  UnmarshalJSON reads the sums of clients, SetAccrual those   *)
(* of the accrual system, MarshalJSON writes every sum.                    *)
(***************************************************************************)
EXTENDS Integers, Sequences

Digit == 0..9

(* The digits looked at: two, and a third that decides how to round.       *)
MaxDigits == 3
Decimal == [neg : BOOLEAN, units : Nat,
            frac : UNION {[1..n -> Digit] : n \in 0..MaxDigits}]

DigitAt(d, i) == IF i <= Len(d.frac) THEN d.frac[i] ELSE 0

(* Cut after two digits, and what the cut digit is.                        *)
Kopecks(d) == 100 * d.units + 10 * DigitAt(d, 1) + DigitAt(d, 2)

Signed(neg, k) == IF neg THEN -k ELSE k

(* The decimal in tenths of a kopeck, exactly.                             *)
Tenths(d) == Signed(d.neg, 10 * Kopecks(d) + DigitAt(d, 3))

(* Reference: k kopecks are the decimal, give or take half a kopeck.       *)
Nearest(k, d) == 10 * k - Tenths(d) \in -5..5

(* Bound: kopecks that an int has; beyond it the conversion of a double to *)
(* an int, and the product in SetAccrual, are not defined.                 *)
FitsInt(d) == (d.units \div 2^30) \div 2^25 = 0

-----------------------------------------------------------------------------
(* Two roundings, of the decimal to a double and of its product by 100,    *)
(* are off by less than one part in 2^51 together, here in whole tenths.   *)
Error(d) == ((10 * Kopecks(d) + DigitAt(d, 3)) \div 2^30) \div 2^21

(* Sums whose double is off by less than a tenth: below 2*10^12 roubles.   *)
Precise(d) == Error(d) = 0

(* Accrual.UnmarshalJSON, math.Round(f * 100): a sum that ends in half a   *)
(* kopeck, or near it for its size, may be taken to either side.           *)
Decoded(d) ==
  LET t == Tenths(d)
      slack == 5 + Error(d)
  IN {k \in ((t - slack) \div 10)..((t + slack) \div 10) :
        10 * k - t \in -slack..slack}

(* Order.SetAccrual: the whole part and two digits, cut; the sign is that  *)
(* of the whole part, and -0 has none.                                     *)
Accrued(d) ==
  IF d.neg /\ d.units > 0 THEN -Kopecks(d) ELSE Kopecks(d)

(* Mutant: the sum is written without the zeros that pad it.               *)
EncodedUnpadded(k) ==
  LET val == IF k < 0 THEN -k ELSE k IN
  [neg |-> k < 0, units |-> val \div 100,
   frac |-> IF val % 100 < 10 THEN <<val % 10>>
                              ELSE <<(val % 100) \div 10, val % 10>>]

(* Accrual.MarshalJSON.                                                    *)
Encoded(k) ==
  LET val == IF k < 0 THEN -k ELSE k IN
  [neg |-> k < 0, units |-> val \div 100,
   frac |-> IF k = 0 THEN <<>> ELSE <<(val % 100) \div 10, val % 10>>]
=============================================================================
