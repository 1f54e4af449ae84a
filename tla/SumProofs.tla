------------------------------ MODULE SumProofs ------------------------------
(***************************************************************************)
(* The sums of the program: a slice added up in a loop, a SUM of a query.  *)
(* The model writes them SumFunction, a fold over the indices in an order  *)
(* that CHOOSE fixes; here is what it is for any number of summands, and   *)
(* what that makes of the check digit.                                     *)
(***************************************************************************)
EXTENDS Luhn, FiniteSetTheorems, WellFoundedInduction, TLAPS

-----------------------------------------------------------------------------
(* Induction, over sets in the place of predicates: a set of numbers or of *)
(* subsets that is not empty has a least member.                           *)

LEMMA NatSetInduction ==
  ASSUME NEW N, 0 \in N, \A n \in Nat : n \in N => n + 1 \in N
  PROVE  Nat \subseteq N
<1> SUFFICES ASSUME Nat \ N # {} PROVE FALSE
  OBVIOUS
<1>1. PICK n \in Nat \ N : \A m \in Nat \ N : ~(<<m, n>> \in OpToRel(<, Nat))
  BY NatLessThanWellFounded, WFMin, Zenon
<1>2. n # 0 /\ n - 1 \in Nat /\ n - 1 \notin N
  BY SMT
<1>3. <<n - 1, n>> \in OpToRel(<, Nat)
  BY <1>2 DEF OpToRel
<1> QED BY <1>1, <1>2, <1>3

LEMMA SmallestSubset ==
  ASSUME NEW S, IsFiniteSet(S), NEW T \in SUBSET SUBSET S, T # {}
  PROVE  \E s \in T : \A t \in T : ~(t \subseteq s /\ t # s)
<1>1. IsWellFoundedOn(StrictSubsetOrdering(S), FiniteSubsetsOf(S))
  BY FS_StrictSubsetOrderingWellFounded
<1>2. FiniteSubsetsOf(S) = SUBSET S
  BY FS_FiniteSubsetsOfFinite
<1>3. PICK s \in T : \A t \in T : ~(<<t, s>> \in StrictSubsetOrdering(S))
  <2> DEFINE R == StrictSubsetOrdering(S)
  <2>1. IsWellFoundedOn(R, SUBSET S) /\ T \subseteq SUBSET S
    BY <1>1, <1>2
  <2> HIDE DEF R
  <2>2. \E s \in T : \A t \in T : ~(<<t, s>> \in R)
    BY <2>1, WFMin, Zenon
  <2> QED BY <2>2 DEF R
<1> QED BY <1>3, Zenon DEF StrictSubsetOrdering

-----------------------------------------------------------------------------
(* The recursive function behind SumFunctionOnSet exists, and is unique.   *)

Chosen(s) == CHOOSE x \in s : TRUE

Sums(f, S, g) ==
  g = [s \in SUBSET S |->
         IF s = {} THEN 0 ELSE f[Chosen(s)] + g[s \ {Chosen(s)}]]

LEMMA WithoutChosen ==
  ASSUME NEW S, IsFiniteSet(S), S # {}
  PROVE  /\ Chosen(S) \in S /\ S \ {Chosen(S)} # S
         /\ IsFiniteSet(S \ {Chosen(S)}) /\ Cardinality(S) \in Nat
         /\ Cardinality(S \ {Chosen(S)}) = Cardinality(S) - 1
<1>1. Chosen(S) \in S
  BY DEF Chosen
<1> QED BY <1>1, FS_RemoveElement, FS_CardinalityType

LEMMA SumsExist ==
  ASSUME NEW S, IsFiniteSet(S), NEW f
  PROVE  \E g : Sums(f, S, g)
<1> DEFINE Small(n) == {s \in SUBSET S : Cardinality(s) <= n}
           Part(n, g) ==
             g = [s \in Small(n) |->
                    IF s = {} THEN 0 ELSE f[Chosen(s)] + g[s \ {Chosen(s)}]]
           N == {n \in Nat : \E g : Part(n, g)}
<1>1. \A s \in SUBSET S : IsFiniteSet(s) /\ Cardinality(s) \in Nat
  BY FS_Subset, FS_CardinalityType
<1>2. \A s \in SUBSET S : Cardinality(s) <= Cardinality(S)
  BY FS_Subset
<1>3. 0 \in N
  <2>1. \A s \in Small(0) : s = {}
    BY <1>1, FS_EmptySet
  <2>2. Part(0, [s \in Small(0) |-> 0])
    BY <2>1
  <2> QED BY <2>2
<1>4. ASSUME NEW n \in Nat, n \in N PROVE n + 1 \in N
  <2>1. PICK g : Part(n, g)
    BY <1>4
  <2> DEFINE h == [s \in Small(n + 1) |->
                     IF s = {} THEN 0 ELSE f[Chosen(s)] + g[s \ {Chosen(s)}]]
  <2>2. ASSUME NEW s \in Small(n) PROVE s \in Small(n + 1) /\ h[s] = g[s]
    <3>1. s \in Small(n + 1)
      BY <1>1
    <3>2. h[s] = IF s = {} THEN 0 ELSE f[Chosen(s)] + g[s \ {Chosen(s)}]
      BY <3>1
    <3>3. g[s] = IF s = {} THEN 0 ELSE f[Chosen(s)] + g[s \ {Chosen(s)}]
      BY <2>1, Zenon
    <3> QED BY <3>1, <3>2, <3>3
  <2>3. ASSUME NEW s \in Small(n + 1), s # {}
        PROVE  s \ {Chosen(s)} \in Small(n)
    BY <1>1, <2>3, WithoutChosen
  <2>4. Part(n + 1, h)
    <3> DEFINE k == [s \in Small(n + 1) |->
                     IF s = {} THEN 0 ELSE f[Chosen(s)] + h[s \ {Chosen(s)}]]
    <3>1. ASSUME NEW s \in Small(n + 1) PROVE h[s] = k[s]
      <4>1. CASE s = {}
        BY <4>1
      <4>2. CASE s # {}
        <5>1. h[s \ {Chosen(s)}] = g[s \ {Chosen(s)}]
          BY <2>2, <2>3, <4>2
        <5> QED BY <4>2, <5>1
      <4> QED BY <4>1, <4>2
    <3>2. h = k
      BY <3>1
    <3> QED BY <3>2
  <2> HIDE DEF h, Part
  <2>5. \E k : Part(n + 1, k)
    BY <2>4
  <2> QED BY <2>5
<1>5. Cardinality(S) \in N
  <2> HIDE DEF N
  <2> QED BY <1>1, <1>3, <1>4, NatSetInduction
<1>6. Small(Cardinality(S)) = SUBSET S
  BY <1>2
<1>7. PICK g : Part(Cardinality(S), g)
  BY <1>5
<1> QED BY <1>6, <1>7 DEF Sums
(* So the fold is that function, for the subsets of S whichever they are.  *)
LEMMA SumsAgree ==
  ASSUME NEW S, IsFiniteSet(S), NEW T \in SUBSET S, NEW f, NEW g, NEW h,
         Sums(f, S, g), Sums(f, T, h)
  PROVE  h[T] = g[T]
<1> DEFINE Wrong == {s \in SUBSET T : h[s] # g[s]}
<1>1. IsFiniteSet(T)
  BY FS_Subset
<1> SUFFICES ASSUME Wrong # {} PROVE FALSE
  OBVIOUS
<1>2. PICK s \in Wrong : \A t \in Wrong : ~(t \subseteq s /\ t # s)
  <2>1. Wrong \in SUBSET SUBSET T
    OBVIOUS
  <2> HIDE DEF Wrong
  <2> QED BY <1>1, <2>1, SmallestSubset
<1>3. /\ h[s] = IF s = {} THEN 0 ELSE f[Chosen(s)] + h[s \ {Chosen(s)}]
      /\ g[s] = IF s = {} THEN 0 ELSE f[Chosen(s)] + g[s \ {Chosen(s)}]
  <2>1. s \in SUBSET T /\ s \in SUBSET S
    OBVIOUS
  <2> QED BY <2>1, Zenon DEF Sums
<1>4. s # {}
  BY <1>3
<1>5. s \ {Chosen(s)} # s /\ s \ {Chosen(s)} \subseteq s
  BY <1>4 DEF Chosen
<1>6. h[s \ {Chosen(s)}] = g[s \ {Chosen(s)}]
  BY <1>2, <1>5
<1> QED BY <1>3, <1>4, <1>6

LEMMA FoldSums ==
  ASSUME NEW S, IsFiniteSet(S), NEW f
  PROVE  \E g : Sums(f, S, g) /\ SumFunctionOnSet(f, S) = g[S]
<1> DEFINE iter[s \in SUBSET S] ==
             IF s = {} THEN 0 ELSE f[CHOOSE x \in s : TRUE]
                                   + iter[s \ {CHOOSE x \in s : TRUE}]
<1>1. SumFunctionOnSet(f, S) = iter[S]
  BY DEF SumFunctionOnSet, FoldFunctionOnSet, MapThenFoldSet
<1>2. \E g : Sums(f, S, g)
  BY SumsExist
<1>3. Sums(f, S, iter)
  BY <1>2 DEF Sums, Chosen
<1> QED BY <1>1, <1>3

LEMMA SumOfNothing == \A f : SumFunctionOnSet(f, {}) = 0
<1> TAKE f
<1>1. PICK g : Sums(f, {}, g) /\ SumFunctionOnSet(f, {}) = g[{}]
  BY FoldSums, FS_EmptySet
<1> QED BY <1>1 DEF Sums

LEMMA SumOfChosen ==
  ASSUME NEW S, IsFiniteSet(S), S # {}, NEW f
  PROVE  SumFunctionOnSet(f, S)
           = f[Chosen(S)] + SumFunctionOnSet(f, S \ {Chosen(S)})
<1> DEFINE T == S \ {Chosen(S)}
<1>1. PICK g : Sums(f, S, g) /\ SumFunctionOnSet(f, S) = g[S]
  BY FoldSums
<1>2. T \in SUBSET S /\ IsFiniteSet(T)
  BY WithoutChosen
<1>3. PICK h : Sums(f, T, h) /\ SumFunctionOnSet(f, T) = h[T]
  BY <1>2, FoldSums
<1>4. h[T] = g[T]
  BY <1>1, <1>2, <1>3, SumsAgree
<1>5. g[S] = f[Chosen(S)] + g[T]
  BY <1>1 DEF Sums
<1> QED BY <1>1, <1>3, <1>4, <1>5
-----------------------------------------------------------------------------
(* What a sum is: an integer, of the values alone, in whatever order.      *)

LEMMA SumType ==
  ASSUME NEW S, IsFiniteSet(S), NEW f, \A x \in S : f[x] \in Int
  PROVE  SumFunctionOnSet(f, S) \in Int
<1> DEFINE Wrong == {s \in SUBSET S : SumFunctionOnSet(f, s) \notin Int}
<1> SUFFICES ASSUME Wrong # {} PROVE FALSE
  OBVIOUS
<1>1. PICK s \in Wrong : \A t \in Wrong : ~(t \subseteq s /\ t # s)
  <2>1. Wrong \in SUBSET SUBSET S
    OBVIOUS
  <2> HIDE DEF Wrong
  <2> QED BY <2>1, SmallestSubset
<1> DEFINE T == s \ {Chosen(s)}
<1>2. IsFiniteSet(s) /\ s # {}
  <2>1. IsFiniteSet(s)
    BY FS_Subset
  <2>2. CASE s = {}
    BY <2>2, SumOfNothing
  <2> QED BY <2>1, <2>2
<1>3. Chosen(s) \in s /\ T # s /\ T \subseteq s
  BY <1>2, WithoutChosen
<1>4. SumFunctionOnSet(f, T) \in Int
  BY <1>1, <1>3
<1>5. SumFunctionOnSet(f, s) = f[Chosen(s)] + SumFunctionOnSet(f, T)
  BY <1>2, SumOfChosen
<1>6. f[Chosen(s)] \in Int
  BY <1>3
<1> QED BY <1>4, <1>5, <1>6

LEMMA SumSame ==
  ASSUME NEW S, IsFiniteSet(S), NEW f, NEW g, \A x \in S : f[x] = g[x]
  PROVE  SumFunctionOnSet(f, S) = SumFunctionOnSet(g, S)
<1> DEFINE Wrong ==
      {s \in SUBSET S : SumFunctionOnSet(f, s) # SumFunctionOnSet(g, s)}
<1> SUFFICES ASSUME Wrong # {} PROVE FALSE
  OBVIOUS
<1>1. PICK s \in Wrong : \A t \in Wrong : ~(t \subseteq s /\ t # s)
  <2>1. Wrong \in SUBSET SUBSET S
    OBVIOUS
  <2> HIDE DEF Wrong
  <2> QED BY <2>1, SmallestSubset
<1> DEFINE T == s \ {Chosen(s)}
<1>2. IsFiniteSet(s) /\ s # {}
  <2>1. IsFiniteSet(s)
    BY FS_Subset
  <2>2. CASE s = {}
    BY <2>2, SumOfNothing
  <2> QED BY <2>1, <2>2
<1>3. Chosen(s) \in s /\ T # s /\ T \subseteq s
  BY <1>2, WithoutChosen
<1>4. SumFunctionOnSet(f, T) = SumFunctionOnSet(g, T)
  BY <1>1, <1>3
<1>5. /\ SumFunctionOnSet(f, s) = f[Chosen(s)] + SumFunctionOnSet(f, T)
      /\ SumFunctionOnSet(g, s) = g[Chosen(s)] + SumFunctionOnSet(g, T)
  BY <1>2, SumOfChosen
<1>6. f[Chosen(s)] = g[Chosen(s)]
  BY <1>3
<1> QED BY <1>4, <1>5, <1>6

LEMMA SumWithout ==
  ASSUME NEW S, IsFiniteSet(S), NEW x \in S, NEW f, \A y \in S : f[y] \in Int
  PROVE  SumFunctionOnSet(f, S) = f[x] + SumFunctionOnSet(f, S \ {x})
<1> DEFINE Sum(s) == SumFunctionOnSet(f, s)
           Wrong == {s \in SUBSET S : \E y \in s : Sum(s) # f[y] + Sum(s \ {y})}
<1>1. \A s \in SUBSET S : IsFiniteSet(s) /\ Sum(s) \in Int
  BY FS_Subset, SumType
<1>2. \A s \in SUBSET S : s # {} =>
        Chosen(s) \in s /\ Sum(s) = f[Chosen(s)] + Sum(s \ {Chosen(s)})
  BY <1>1, WithoutChosen, SumOfChosen
<1> HIDE DEF Sum
<1>3. Wrong = {}
  <2> SUFFICES ASSUME Wrong # {} PROVE FALSE
    OBVIOUS
  <2>1. PICK s \in Wrong : \A t \in Wrong : ~(t \subseteq s /\ t # s)
    <3>1. Wrong \in SUBSET SUBSET S
      OBVIOUS
    <3> HIDE DEF Wrong
    <3> QED BY <3>1, SmallestSubset
  <2>2. PICK y \in s : Sum(s) # f[y] + Sum(s \ {y})
    OBVIOUS
  <2> DEFINE z == Chosen(s)
             t == s \ {y, z}
  <2>3. z \in s /\ Sum(s) = f[z] + Sum(s \ {z}) /\ z # y
    BY <1>2, <2>2
  <2> HIDE DEF z
  <2>4. /\ s \ {z} \in SUBSET S /\ s \ {z} # s /\ y \in s \ {z}
        /\ s \ {y} \in SUBSET S /\ s \ {y} # s /\ z \in s \ {y}
        /\ (s \ {z}) \ {y} = t /\ (s \ {y}) \ {z} = t /\ t \in SUBSET S
    BY <2>2, <2>3
  <2>5. Sum(s \ {z}) = f[y] + Sum(t)
    <3>1. s \ {z} \notin Wrong
      BY <2>1, <2>4
    <3> QED BY <2>4, <3>1
  <2>6. Sum(s \ {y}) = f[z] + Sum(t)
    <3>1. s \ {y} \notin Wrong
      BY <2>1, <2>4
    <3> QED BY <2>4, <3>1
  <2>7. f[y] \in Int /\ f[z] \in Int /\ Sum(t) \in Int
    BY <1>1, <2>3, <2>4
  <2> QED BY <2>2, <2>3, <2>5, <2>6, <2>7
<1>4. Sum(S) = f[x] + Sum(S \ {x})
  BY <1>3
<1> QED BY <1>4 DEF Sum

(* Two families that differ at one place.                                  *)
DifferAt(S, x, f, g) ==
  /\ IsFiniteSet(S) /\ x \in S
  /\ \A y \in S : f[y] \in Int /\ g[y] \in Int
  /\ \A y \in S \ {x} : f[y] = g[y]

LEMMA SumChanged ==
  ASSUME NEW S, NEW x, NEW f, NEW g, DifferAt(S, x, f, g)
  PROVE  SumFunctionOnSet(g, S) = SumFunctionOnSet(f, S) + (g[x] - f[x])
<1> USE DEF DifferAt
<1> DEFINE T == S \ {x}
<1>1. IsFiniteSet(T)
  BY FS_Subset
<1>2. /\ SumFunctionOnSet(f, S) = f[x] + SumFunctionOnSet(f, T)
      /\ SumFunctionOnSet(g, S) = g[x] + SumFunctionOnSet(g, T)
  BY SumWithout
<1>3. SumFunctionOnSet(f, T) = SumFunctionOnSet(g, T)
  BY <1>1, SumSame
<1>4. SumFunctionOnSet(f, T) \in Int
  BY <1>1, SumType
<1>5. f[x] \in Int /\ g[x] \in Int
  OBVIOUS
<1> QED BY <1>2, <1>3, <1>4, <1>5

(* A row more: the SUM over the table grows by its amount.                 *)
LEMMA SumAppended ==
  ASSUME NEW s \in Seq(Int), NEW k \in Int
  PROVE  /\ SumFunction(s) \in Int
         /\ SumFunction(Append(s, k)) = SumFunction(s) + k
<1> DEFINE r == Append(s, k)
           n == Len(s)
<1>1. /\ n \in Nat /\ DOMAIN s = 1..n /\ DOMAIN r = 1..(n + 1)
      /\ r[n + 1] = k /\ \A i \in 1..n : r[i] = s[i] /\ s[i] \in Int
  OBVIOUS
<1>2. IsFiniteSet(1..n) /\ IsFiniteSet(1..(n + 1))
  BY <1>1, FS_Interval
<1> HIDE DEF r, n
<1>3. SumFunctionOnSet(s, 1..n) \in Int
  BY <1>1, <1>2, SumType
<1>4. SumFunctionOnSet(s, 1..n) = SumFunctionOnSet(r, 1..n)
  BY <1>1, <1>2, SumSame
<1>5. SumFunctionOnSet(r, 1..(n + 1))
        = r[n + 1] + SumFunctionOnSet(r, (1..(n + 1)) \ {n + 1})
  <2>1. n + 1 \in 1..(n + 1) /\ \A i \in 1..(n + 1) : r[i] \in Int
    BY <1>1
  <2> QED BY <1>2, <2>1, SumWithout
<1>6. (1..(n + 1)) \ {n + 1} = 1..n
  BY <1>1
<1>7. SumFunction(s) = SumFunctionOnSet(s, 1..n)
      /\ SumFunction(r) = SumFunctionOnSet(r, 1..(n + 1))
  BY <1>1 DEF SumFunction
<1>8. SumFunction(r) = k + SumFunction(s)
  BY <1>1, <1>4, <1>5, <1>6, <1>7
<1>9. SumFunction(r) = SumFunction(s) + k /\ SumFunction(s) \in Int
  BY <1>3, <1>7, <1>8
<1> QED BY <1>9 DEF r

LEMMA SumOfEmpty == SumFunction(<<>>) = 0
<1>1. DOMAIN <<>> = {}
  OBVIOUS
<1> QED BY <1>1, SumOfNothing DEF SumFunction
-----------------------------------------------------------------------------
(* The number without its separators.                                      *)

Pass(s, n, g) ==
  g = [i \in 0..n |->
         IF i = 0 THEN <<>>
         ELSE IF s[i] \in {Space, Dash} THEN g[i - 1]
         ELSE Append(g[i - 1], s[i])]

LEMMA PassAt ==
  ASSUME NEW s, NEW n \in Nat, NEW g, Pass(s, n, g), NEW i \in 0..n
  PROVE  g[i] = IF i = 0 THEN <<>>
                ELSE IF s[i] \in {Space, Dash} THEN g[i - 1]
                ELSE Append(g[i - 1], s[i])
  BY Zenon DEF Pass

LEMMA PassNext ==
  ASSUME NEW s, NEW n \in Nat, NEW g, Pass(s, n, g), NEW i \in Nat, i + 1 <= n
  PROVE  g[i + 1] = IF s[i + 1] \in {Space, Dash} THEN g[i]
                    ELSE Append(g[i], s[i + 1])
<1> DEFINE j == i + 1
<1>1. j \in 0..n /\ j # 0 /\ j - 1 = i
  OBVIOUS
<1> HIDE DEF j
<1>2. g[j] = IF j = 0 THEN <<>>
             ELSE IF s[j] \in {Space, Dash} THEN g[j - 1]
             ELSE Append(g[j - 1], s[j])
  BY <1>1, PassAt
<1>3. g[j] = IF s[j] \in {Space, Dash} THEN g[i] ELSE Append(g[i], s[j])
  BY <1>1, <1>2
<1> QED BY <1>3 DEF j

LEMMA PassExists ==
  ASSUME NEW s, NEW n \in Nat
  PROVE  \E g : Pass(s, n, g)
<1> DEFINE N == {m \in Nat : \E g : Pass(s, m, g)}
<1>1. 0 \in N
  <2>1. Pass(s, 0, [i \in 0..0 |-> <<>>])
    BY DEF Pass
  <2> QED BY <2>1
<1>2. ASSUME NEW m \in Nat, m \in N PROVE m + 1 \in N
  <2>1. PICK g : Pass(s, m, g)
    BY <1>2
  <2> DEFINE h == [i \in 0..(m + 1) |->
                     IF i = 0 THEN <<>>
                     ELSE IF s[i] \in {Space, Dash} THEN g[i - 1]
                     ELSE Append(g[i - 1], s[i])]
  <2>2. ASSUME NEW i \in 0..m PROVE h[i] = g[i]
    <3>1. i \in 0..(m + 1)
      OBVIOUS
    <3> QED BY <2>1, <3>1, PassAt, Zenon
  <2>3. \A i \in 0..(m + 1) : i # 0 => i - 1 \in 0..m
    OBVIOUS
  <2>4. Pass(s, m + 1, h)
    BY <2>2, <2>3 DEF Pass
  <2> HIDE DEF h
  <2> QED BY <2>4
<1> HIDE DEF N
<1>3. n \in N
  BY <1>1, <1>2, NatSetInduction
<1> QED BY <1>3 DEF N

LEMMA StrippedPass ==
  ASSUME NEW s, Len(s) \in Nat
  PROVE  \E g : Pass(s, Len(s), g) /\ Stripped(s) = g[Len(s)]
<1> DEFINE upTo[i \in 0..Len(s)] ==
             IF i = 0 THEN <<>>
             ELSE IF s[i] \in {Space, Dash} THEN upTo[i - 1]
             ELSE Append(upTo[i - 1], s[i])
<1>1. Stripped(s) = upTo[Len(s)]
  BY DEF Stripped
<1>2. \E g : Pass(s, Len(s), g)
  BY PassExists
<1>3. Pass(s, Len(s), upTo)
  BY <1>2 DEF Pass
<1> QED BY <1>1, <1>3

LEMMA StrippedSeq ==
  ASSUME NEW s \in Seq(Character)
  PROVE  Stripped(s) \in Seq(Character)
<1>1. Len(s) \in Nat /\ \A i \in 1..Len(s) : s[i] \in Character
  OBVIOUS
<1>2. PICK g : Pass(s, Len(s), g) /\ Stripped(s) = g[Len(s)]
  BY <1>1, StrippedPass
<1> DEFINE N == {i \in Nat : i <= Len(s) => g[i] \in Seq(Character)}
<1>3. 0 \in N
  BY <1>1, <1>2 DEF Pass
<1>4. ASSUME NEW i \in Nat, i \in N PROVE i + 1 \in N
  <2> SUFFICES ASSUME i + 1 <= Len(s) PROVE g[i + 1] \in Seq(Character)
    OBVIOUS
  <2>1. g[i] \in Seq(Character) /\ s[i + 1] \in Character
    BY <1>1, <1>4
  <2>2. g[i + 1] = IF s[i + 1] \in {Space, Dash} THEN g[i]
                   ELSE Append(g[i], s[i + 1])
    BY <1>1, <1>2, PassNext
  <2> QED BY <2>1, <2>2
<1> HIDE DEF N
<1>5. Len(s) \in N
  BY <1>1, <1>3, <1>4, NatSetInduction
<1> QED BY <1>1, <1>2, <1>5 DEF N

LEMMA StrippedPlain ==
  ASSUME NEW s \in Seq(0..9)
  PROVE  Stripped(s) = s
<1>1. Len(s) \in Nat /\ \A i \in 1..Len(s) : s[i] \in 0..9
  OBVIOUS
<1>2. PICK g : Pass(s, Len(s), g) /\ Stripped(s) = g[Len(s)]
  BY <1>1, StrippedPass
<1> DEFINE N == {i \in Nat : i <= Len(s) => g[i] = SubSeq(s, 1, i)}
<1>3. 0 \in N
  BY <1>1, <1>2 DEF Pass
<1>4. ASSUME NEW i \in Nat, i \in N PROVE i + 1 \in N
  <2> SUFFICES ASSUME i + 1 <= Len(s) PROVE g[i + 1] = SubSeq(s, 1, i + 1)
    OBVIOUS
  <2>1. g[i] = SubSeq(s, 1, i) /\ s[i + 1] \notin {Space, Dash}
    BY <1>1, <1>4 DEF Space, Dash
  <2>2. g[i + 1] = IF s[i + 1] \in {Space, Dash} THEN g[i]
                   ELSE Append(g[i], s[i + 1])
    BY <1>1, <1>2, PassNext
  <2>3. Append(SubSeq(s, 1, i), s[i + 1]) = SubSeq(s, 1, i + 1)
    BY <1>1
  <2> QED BY <2>1, <2>2, <2>3
<1> HIDE DEF N
<1>5. Len(s) \in N
  BY <1>1, <1>3, <1>4, NatSetInduction
<1>6. SubSeq(s, 1, Len(s)) = s
  OBVIOUS
<1> QED BY <1>1, <1>2, <1>5, <1>6 DEF N
-----------------------------------------------------------------------------
(* The check digit.                                                        *)

(* The weight of digit d in place i of a number of length l.               *)
Weight(l, i, d) == IF (i - 1) % 2 = l % 2 THEN Doubled(d) ELSE d

LEMMA DoubledDigit ==
  ASSUME NEW d \in 0..9
  PROVE  Doubled(d) \in 0..9 /\ Doubled(d) - d \in -4..4
  BY DEF Doubled

LEMMA DoubledApart ==
  ASSUME NEW d \in 0..9, NEW e \in 0..9, d # e
  PROVE  /\ Doubled(d) # Doubled(e)
         /\ Doubled(d) - d = Doubled(e) - e => {d, e} = {0, 9}
  BY DEF Doubled

LEMMA Weights ==
  ASSUME NEW l \in Nat, NEW i \in Nat, NEW d \in 0..9, NEW e \in 0..9
  PROVE  /\ Weight(l, i, d) \in 0..9
         /\ Weight(l, i, d) = Weight(l, i, e) => d = e
  BY DoubledDigit, DoubledApart DEF Weight

(* Of two neighbours one is doubled.                                       *)
LEMMA NeighbourWeights ==
  ASSUME NEW l \in Nat, NEW i \in Nat
  PROVE  \/ \A d \in 0..9 : Weight(l, i, d) = Doubled(d) /\ Weight(l, i + 1, d) = d
         \/ \A d \in 0..9 : Weight(l, i, d) = d /\ Weight(l, i + 1, d) = Doubled(d)
<1>1. ((i - 1) % 2 = l % 2) <=> ~(((i + 1) - 1) % 2 = l % 2)
  OBVIOUS
<1> QED BY <1>1, Zenon DEF Weight

LEMMA WeighedParts ==
  ASSUME NEW n \in Seq(0..9)
  PROVE  /\ Len(n) \in Nat /\ DOMAIN n = 1..Len(n)
         /\ \A i \in 1..Len(n) : n[i] \in 0..9
         /\ DOMAIN Weighed(n) = 1..Len(n) /\ IsFiniteSet(1..Len(n))
         /\ \A i \in 1..Len(n) : /\ Weighed(n)[i] = Weight(Len(n), i, n[i])
                                /\ Weighed(n)[i] \in Int
         /\ SumFunction(Weighed(n)) \in Int
<1>1. /\ Len(n) \in Nat /\ DOMAIN n = 1..Len(n)
      /\ \A i \in 1..Len(n) : n[i] \in 0..9
  OBVIOUS
<1>2. /\ DOMAIN Weighed(n) = 1..Len(n)
      /\ \A i \in 1..Len(n) : Weighed(n)[i] = Weight(Len(n), i, n[i])
  BY <1>1 DEF Weighed, Weight
<1>3. ASSUME NEW i \in 1..Len(n) PROVE Weighed(n)[i] \in Int
  <2>1. n[i] \in 0..9 /\ i \in Nat
    BY <1>1
  <2>2. Weight(Len(n), i, n[i]) \in 0..9
    BY <1>1, <2>1, Weights
  <2> QED BY <1>2, <2>2
<1>4. IsFiniteSet(1..Len(n))
  BY <1>1, FS_Interval
<1>5. SumFunction(Weighed(n)) \in Int
  BY <1>2, <1>3, <1>4, SumType DEF SumFunction
<1> QED BY <1>1, <1>2, <1>3, <1>4, <1>5

(* A digit changed changes the sum by the difference of the weights.       *)
LEMMA WeighedChanged ==
  ASSUME NEW n \in Seq(0..9), NEW i \in 1..Len(n), NEW d \in 0..9
  PROVE  LET m == [n EXCEPT ![i] = d]
             l == Len(n)
         IN  /\ m \in Seq(0..9) /\ Len(m) = l
             /\ SumFunction(Weighed(m))
                  = SumFunction(Weighed(n)) + (Weight(l, i, d) - Weight(l, i, n[i]))
<1> DEFINE m == [n EXCEPT ![i] = d]
           l == Len(n)
<1>1. /\ m \in Seq(0..9) /\ Len(m) = l /\ l \in Nat
      /\ m[i] = d /\ \A j \in (1..l) \ {i} : m[j] = n[j]
  OBVIOUS
<1> HIDE DEF m
<1>2. /\ Weighed(m)[i] = Weight(l, i, d) /\ Weighed(n)[i] = Weight(l, i, n[i])
      /\ \A j \in 1..l : Weighed(n)[j] \in Int /\ Weighed(m)[j] \in Int
      /\ \A j \in (1..l) \ {i} : Weighed(n)[j] = Weighed(m)[j]
  BY <1>1, WeighedParts
<1>3. SumFunctionOnSet(Weighed(m), 1..l)
        = SumFunctionOnSet(Weighed(n), 1..l) + (Weighed(m)[i] - Weighed(n)[i])
  <2>1. IsFiniteSet(1..l)
    BY WeighedParts
  <2>2. DifferAt(1..l, i, Weighed(n), Weighed(m))
    BY <1>2, <2>1 DEF DifferAt
  <2> HIDE DEF l
  <2> QED BY <2>2, SumChanged, Zenon
<1>4. DOMAIN Weighed(n) = 1..l /\ DOMAIN Weighed(m) = 1..l
  BY <1>1, WeighedParts
<1> QED BY <1>1, <1>2, <1>3, <1>4 DEF SumFunction, m

LEMMA ValidDigits ==
  ASSUME NEW n \in Seq(0..9), IsValidLuhn(n)
  PROVE  SumFunction(Weighed(n)) % 10 = 0
  BY StrippedPlain DEF IsValidLuhn

LEMMA AcceptedDigits ==
  ASSUME NEW s \in Seq(Character), IsValidLuhn(s)
  PROVE  Stripped(s) \in Seq(0..9) /\ SumFunction(Weighed(Stripped(s))) % 10 = 0
<1> DEFINE n == Stripped(s)
<1>1. /\ n \in Seq(Character) /\ \A i \in DOMAIN n : n[i] \in 0..9
      /\ SumFunction(Weighed(n)) % 10 = 0
  BY StrippedSeq DEF IsValidLuhn
<1> HIDE DEF n
<1>2. n \in Seq(0..9)
  BY <1>1
<1> QED BY <1>1, <1>2 DEF n

LEMMA TensApart ==
  ASSUME NEW a \in Int, a % 10 = 0, NEW x \in -9..9, x # 0
  PROVE  (a + x) % 10 # 0
<1>1. PICK q \in Int : a = 10 * q
  <2>1. a = 10 * (a \div 10) + (a % 10) /\ (a \div 10) \in Int
    OBVIOUS
  <2> QED BY <2>1
<1>2. CASE x > 0
  <2>1. (10 * q + x) % 10 = x
    BY <1>2
  <2> QED BY <1>1, <2>1
<1>3. CASE x < 0
  <2>1. (10 * (q - 1) + (x + 10)) % 10 = x + 10
    BY <1>3
  <2>2. 10 * (q - 1) + (x + 10) = a + x
    BY <1>1
  <2> QED BY <1>3, <2>1, <2>2
<1> QED BY <1>2, <1>3

LEMMA MistypedRefused ==
  ASSUME NEW n \in Seq(0..9), SumFunction(Weighed(n)) % 10 = 0,
         NEW m \in Mistyped(n)
  PROVE  ~IsValidLuhn(m)
<1>1. PICK i \in 1..Len(n), d \in 0..9 : m = [n EXCEPT ![i] = d] /\ m # n
  BY WeighedParts DEF Mistyped
<1> DEFINE w == Weight(Len(n), i, d)
           v == Weight(Len(n), i, n[i])
           a == SumFunction(Weighed(n))
           b == SumFunction(Weighed(m))
<1>2. n[i] \in 0..9 /\ n[i] # d /\ i \in Nat /\ Len(n) \in Nat
  BY <1>1, WeighedParts
<1>3. w \in 0..9 /\ v \in 0..9 /\ w # v
  BY <1>2, Weights
<1>4. m \in Seq(0..9) /\ b = a + (w - v) /\ a \in Int
  BY <1>1, WeighedChanged, WeighedParts
<1>5. a % 10 = 0
  OBVIOUS
<1> HIDE DEF a, b, w, v
<1>6. b % 10 # 0
  <2>1. w - v \in -9..9 /\ w - v # 0
    BY <1>3
  <2> QED BY <1>4, <1>5, <2>1, TensApart
<1> QED BY <1>4, <1>6, ValidDigits DEF b

LEMMA SwappedRefused ==
  ASSUME NEW n \in Seq(0..9), SumFunction(Weighed(n)) % 10 = 0,
         NEW m \in Swapped(n)
  PROVE  ~IsValidLuhn(m)
<1>1. PICK i \in 1..(Len(n) - 1) :
        /\ n[i] # n[i + 1] /\ {n[i], n[i + 1]} # {0, 9}
        /\ m = [n EXCEPT ![i] = n[i + 1], ![i + 1] = n[i]]
  BY DEF Swapped
<1> DEFINE l == Len(n)
           d == n[i]
           e == n[i + 1]
           k == [n EXCEPT ![i] = e]
           a == SumFunction(Weighed(n))
           b == SumFunction(Weighed(k))
           c == SumFunction(Weighed(m))
<1>2. /\ l \in Nat /\ i \in Nat /\ i \in 1..l /\ i + 1 \in 1..l
      /\ d \in 0..9 /\ e \in 0..9 /\ d # e /\ {d, e} # {0, 9}
  <2>1. l \in Nat /\ \A j \in 1..l : n[j] \in 0..9
    BY WeighedParts
  <2>2. i \in Nat /\ i \in 1..l /\ i + 1 \in 1..l
    BY <2>1
  <2> QED BY <1>1, <2>1, <2>2
<1>3. /\ k \in Seq(0..9) /\ Len(k) = l /\ a \in Int
      /\ b = a + (Weight(l, i, e) - Weight(l, i, d))
  BY <1>2, WeighedChanged, WeighedParts
<1>4. m = [k EXCEPT ![i + 1] = d] /\ k[i + 1] = e
  BY <1>1, <1>2
<1> HIDE DEF k, d, e, l
<1>5. /\ m \in Seq(0..9)
      /\ c = b + (Weight(l, i + 1, d) - Weight(l, i + 1, e))
  BY <1>2, <1>3, <1>4, WeighedChanged
<1>6. \/ /\ Weight(l, i, d) = Doubled(d) /\ Weight(l, i + 1, d) = d
         /\ Weight(l, i, e) = Doubled(e) /\ Weight(l, i + 1, e) = e
      \/ /\ Weight(l, i, d) = d /\ Weight(l, i + 1, d) = Doubled(d)
         /\ Weight(l, i, e) = e /\ Weight(l, i + 1, e) = Doubled(e)
  <2>1. l \in Nat /\ i \in Nat /\ d \in 0..9 /\ e \in 0..9
    BY <1>2
  <2>2. \/ \A x \in 0..9 :
              Weight(l, i, x) = Doubled(x) /\ Weight(l, i + 1, x) = x
        \/ \A x \in 0..9 :
              Weight(l, i, x) = x /\ Weight(l, i + 1, x) = Doubled(x)
    BY <2>1, NeighbourWeights
  <2> QED BY <2>1, <2>2, Zenon
<1>8. /\ Doubled(d) - d \in -4..4 /\ Doubled(e) - e \in -4..4
      /\ Doubled(d) - d # Doubled(e) - e
      /\ Doubled(d) \in Int /\ Doubled(e) \in Int
  <2>1. Doubled(d) - d # Doubled(e) - e
    BY <1>2, DoubledApart
  <2>2. Doubled(d) \in 0..9 /\ Doubled(e) \in 0..9
    BY <1>2, DoubledDigit
  <2>3. Doubled(d) - d \in -4..4 /\ Doubled(e) - e \in -4..4
    BY <1>2, DoubledDigit
  <2> QED BY <2>1, <2>2, <2>3
<1>9. a % 10 = 0
  OBVIOUS
<1> HIDE DEF a, b, c
<1>10. c % 10 # 0
  <2> DEFINE x == (Doubled(e) - e) - (Doubled(d) - d)
  <2>1. x \in -9..9 /\ -x \in -9..9 /\ x # 0 /\ -x # 0
    <3> DEFINE u == Doubled(d) - d
               v == Doubled(e) - e
    <3>1. u \in -4..4 /\ v \in -4..4 /\ u # v
      BY <1>8
    <3> HIDE DEF u, v
    <3>2. v - u \in -9..9 /\ -(v - u) \in -9..9 /\ v - u # 0 /\ -(v - u) # 0
      BY <3>1
    <3> QED BY <3>2 DEF u, v
  <2>2. d \in Int /\ e \in Int
    BY <1>2
  <2>3. c = a + x \/ c = a + (-x)
    <3>1. /\ c = (a + (Weight(l, i, e) - Weight(l, i, d)))
                   + (Weight(l, i + 1, d) - Weight(l, i + 1, e))
          /\ a \in Int /\ Doubled(d) \in Int /\ Doubled(e) \in Int
      BY <1>3, <1>5, <1>8
    <3>2. \/ c = (a + (Doubled(e) - Doubled(d))) + (d - e)
          \/ c = (a + (e - d)) + (Doubled(d) - Doubled(e))
      BY <1>6, <3>1, Zenon
    <3> DEFINE u == Doubled(d)
               v == Doubled(e)
    <3>3. u \in Int /\ v \in Int
      BY <3>1
    <3> HIDE DEF u, v
    <3>4. c = (a + (v - u)) + (d - e) \/ c = (a + (e - d)) + (u - v)
      BY <3>2 DEF u, v
    <3>5. c = a + ((v - e) - (u - d)) \/ c = a + (-((v - e) - (u - d)))
      BY <2>2, <3>1, <3>3, <3>4
    <3> QED BY <3>5 DEF u, v
  <2> HIDE DEF x
  <2> QED BY <1>3, <1>9, <2>1, <2>3, TensApart
<1> QED BY <1>5, <1>10, ValidDigits DEF c

(* No slip of the pen gets past the check digit, however long the number   *)
(* and whatever its separators: isValidLuhn accepts no number that has one *)
(* digit mistaken, or two neighbours swapped, if it accepts the original.  *)
THEOREM SlipsRefused ==
  \A s \in Seq(Character) :
    IsValidLuhn(s) =>
      \A m \in Mistyped(Stripped(s)) \cup Swapped(Stripped(s)) : ~IsValidLuhn(m)
  BY AcceptedDigits, MistypedRefused, SwappedRefused
=============================================================================
