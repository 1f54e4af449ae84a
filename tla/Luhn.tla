--------------------------------- MODULE Luhn ---------------------------------
(***************************************************************************)
(* The check digit of an order number, services/alg/lunh.go.  A number is  *)
(* the sequence of its characters: digits, and separators that the check   *)
(* ignores but that stay in the number that is stored.                     *)
(***************************************************************************)
EXTENDS Integers, Sequences, Functions

Space == 10
Dash == 11
Letter == 12       \* any other character
Character == 0..Letter

(* strings.ReplaceAll of spaces and dashes by nothing.                     *)
Stripped(s) ==
  LET upTo[i \in 0..Len(s)] ==
        IF i = 0 THEN <<>>
        ELSE IF s[i] \in {Space, Dash} THEN upTo[i - 1]
        ELSE Append(upTo[i - 1], s[i])
  IN upTo[Len(s)]

Doubled(d) == IF 2 * d > 9 THEN 2 * d - 9 ELSE 2 * d

Weighed(n) ==
  [i \in DOMAIN n |-> IF (i - 1) % 2 = Len(n) % 2 THEN Doubled(n[i]) ELSE n[i]]

(* Mutant: the nine is not cast out of a doubled digit.                    *)
LuhnUncast(s) ==
  LET n == Stripped(s) IN
    /\ \A i \in DOMAIN n : n[i] \in 0..9
    /\ SumFunction([i \in DOMAIN n |->
          IF (i - 1) % 2 = Len(n) % 2 THEN 2 * n[i] ELSE n[i]]) % 10 = 0

IsValidLuhn(s) ==
  LET n == Stripped(s) IN
    /\ \A i \in DOMAIN n : n[i] \in 0..9
    /\ SumFunction(Weighed(n)) % 10 = 0

-----------------------------------------------------------------------------
(* Slips of the pen: one digit mistaken for another, or two neighbours     *)
(* swapped (0 and 9 excepted, which weigh the same either way).            *)
Mistyped(n) == {[n EXCEPT ![i] = d] : i \in DOMAIN n, d \in 0..9} \ {n}
Swapped(n) ==
  {[n EXCEPT ![i] = n[i + 1], ![i + 1] = n[i]] :
     i \in {j \in 1..(Len(n) - 1) : /\ n[j] # n[j + 1]
                                   /\ {n[j], n[j + 1]} # {0, 9}}}
=============================================================================
