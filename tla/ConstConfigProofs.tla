-------------------------- MODULE ConstConfigProofs --------------------------
(***************************************************************************)
(* Machine-checked proofs about Numerals and ConstConfig: a number is read *)
(* back from enough of its digits, and a configuration from the word it is *)
(* packed in, whatever its values.                                         *)
(***************************************************************************)
EXTENDS ConstConfig, WellFoundedInduction, TLAPS

-----------------------------------------------------------------------------
(* Induction and recursion over the natural numbers, with sets and         *)
(* functions for what the library's theorems take as operators             *)

\* A set of natural numbers has a least one.
LEMMA LeastNat ==
    ASSUME NEW S \in SUBSET Nat, S # {} PROVE \E n \in S : \A m \in S : n <= m
<1> DEFINE less == {pair \in Nat \X Nat : pair[1] < pair[2]}
<1>1. IsWellFoundedOn(less, Nat)
  BY NatLessThanWellFounded DEF OpToRel
<1>2. PICK n \in S : \A m \in S : <<m, n>> \notin less
  BY <1>1, WFMin
<1>3. ASSUME NEW m \in S PROVE n <= m
  <2>1. n \in Nat /\ m \in Nat /\ <<m, n>> \in Nat \X Nat
    OBVIOUS
  <2>2. ~(m < n)
    BY <1>2, <2>1
  <2> QED BY <2>1, <2>2
<1> QED BY <1>3

\* What holds of 0 and goes on from each number to the next holds of all of them.
LEMMA SetInduction ==
    ASSUME NEW S, 0 \in S, \A n \in Nat : n \in S => n + 1 \in S
    PROVE  Nat \subseteq S
<1> SUFFICES ASSUME Nat \ S # {} PROVE FALSE
  OBVIOUS
<1>1. PICK n \in Nat \ S : \A m \in Nat \ S : n <= m
  BY LeastNat
<1>2. n # 0 /\ n - 1 \in Nat /\ n - 1 \in S
  BY <1>1
<1> QED BY <1>1, <1>2

\* The functions that follow the recursion as far as n
Approaches(S, first, step, n) ==
    {g \in [0..n -> S] : g[0] = first /\ \A i \in 0 .. n - 1 : g[i + 1] = step[i + 1][g[i]]}

\* There is one for each n.
LEMMA ApproachesExist ==
    ASSUME NEW S, NEW first \in S, NEW step \in [Nat -> [S -> S]]
    PROVE  \A n \in Nat : Approaches(S, first, step, n) # {}
<1> DEFINE T == {n \in Nat : Approaches(S, first, step, n) # {}}
<1>1. 0 \in T
  <2>1. [i \in 0..0 |-> first] \in Approaches(S, first, step, 0)
    BY DEF Approaches
  <2> QED BY <2>1
<1>2. ASSUME NEW n \in Nat, n \in T PROVE n + 1 \in T
  <2>1. PICK g : g \in Approaches(S, first, step, n)
    BY <1>2
  <2>2. g \in [0..n -> S] /\ g[0] = first /\ \A i \in 0 .. n - 1 : g[i + 1] = step[i + 1][g[i]]
    BY <2>1 DEF Approaches
  <2> DEFINE h == [i \in 0 .. n + 1 |-> IF i = n + 1 THEN step[i][g[n]] ELSE g[i]]
  <2>3. h \in [0 .. n + 1 -> S]
    <3>1. n + 1 \in Nat /\ n \in 0..n /\ step[n + 1] \in [S -> S] /\ step[n + 1][g[n]] \in S
      BY <2>2
    <3>2. \A i \in 0 .. n + 1 : i # n + 1 => i \in 0..n
      OBVIOUS
    <3> QED BY <2>2, <3>1, <3>2
  <2>4. h[0] = first
    BY <2>2
  <2>5. ASSUME NEW i \in 0 .. n + 1 - 1 PROVE h[i + 1] = step[i + 1][h[i]]
    <3>1. i \in 0..n /\ i # n + 1 /\ i \in 0 .. n + 1 /\ i + 1 \in 0 .. n + 1 /\ h[i] = g[i]
      OBVIOUS
    <3>2. CASE i = n
      BY <3>1, <3>2
    <3>3. CASE i # n
      <4>1. i \in 0 .. n - 1 /\ i + 1 # n + 1 /\ h[i + 1] = g[i + 1]
        BY <3>1, <3>3
      <4> QED BY <2>2, <3>1, <4>1
    <3> QED BY <3>2, <3>3
  <2>6. h \in Approaches(S, first, step, n + 1)
    <3> HIDE DEF h
    <3> QED BY <2>3, <2>4, <2>5 DEF Approaches
  <2> QED BY <2>6
<1>3. Nat \subseteq T
  <2> HIDE DEF T
  <2> QED BY <1>1, <1>2, SetInduction
<1> QED BY <1>3

\* They agree as far as they go.
LEMMA ApproachesAgree ==
    ASSUME NEW S, NEW first \in S, NEW step \in [Nat -> [S -> S]],
           NEW n \in Nat, NEW m \in Nat, n <= m,
           NEW g \in Approaches(S, first, step, n), NEW h \in Approaches(S, first, step, m)
    PROVE  \A i \in 0..n : g[i] = h[i]
<1> DEFINE T == {i \in Nat : i \in 0..n => g[i] = h[i]}
<1>1. 0 \in T
  BY DEF Approaches
<1>2. ASSUME NEW i \in Nat, i \in T PROVE i + 1 \in T
  <2> SUFFICES ASSUME i + 1 \in 0..n PROVE g[i + 1] = h[i + 1]
    OBVIOUS
  <2>1. i \in 0 .. n - 1 /\ i \in 0 .. m - 1 /\ i \in 0..n
    OBVIOUS
  <2>2. g[i + 1] = step[i + 1][g[i]] /\ h[i + 1] = step[i + 1][h[i]]
    BY <2>1 DEF Approaches
  <2> QED BY <1>2, <2>1, <2>2
<1>3. Nat \subseteq T
  <2> HIDE DEF T
  <2> QED BY <1>1, <1>2, SetInduction
<1> QED BY <1>3

Follows(f, S, first, step) ==
    /\ f \in [Nat -> S]
    /\ f[0] = first
    /\ \A i \in Nat : f[i + 1] = step[i + 1][f[i]]

\* A function is defined by its first value and by each value from the one before.
LEMMA Recursion ==
    ASSUME NEW S, NEW first \in S, NEW step \in [Nat -> [S -> S]]
    PROVE  \E f : Follows(f, S, first, step)
<1> DEFINE at == [n \in Nat |-> CHOOSE g : g \in Approaches(S, first, step, n)]
           f == [n \in Nat |-> at[n][n]]
<1>1. ASSUME NEW n \in Nat PROVE at[n] \in Approaches(S, first, step, n)
  BY ApproachesExist
<1> HIDE DEF at
<1>2. f \in [Nat -> S]
  <2>1. ASSUME NEW n \in Nat PROVE at[n][n] \in S
    <3>1. at[n] \in [0..n -> S] /\ n \in 0..n
      BY <1>1 DEF Approaches
    <3> QED BY <3>1
  <2> QED BY <2>1
<1>3. f[0] = first
  BY <1>1 DEF Approaches
<1>4. ASSUME NEW i \in Nat PROVE f[i + 1] = step[i + 1][f[i]]
  <2>1. at[i] \in Approaches(S, first, step, i) /\ at[i + 1] \in Approaches(S, first, step, i + 1)
    BY <1>1
  <2>2. at[i][i] = at[i + 1][i]
    <3>1. i + 1 \in Nat /\ i <= i + 1 /\ i \in 0..i
      OBVIOUS
    <3> QED BY <2>1, <3>1, ApproachesAgree
  <2>3. at[i + 1][i + 1] = step[i + 1][at[i + 1][i]]
    <3>1. i \in 0 .. (i + 1) - 1
      OBVIOUS
    <3> QED BY <2>1, <3>1 DEF Approaches
  <2>4. f[i] = at[i][i] /\ f[i + 1] = at[i + 1][i + 1]
    OBVIOUS
  <2> QED BY <2>2, <2>3, <2>4
<1> QED
  <2> HIDE DEF f
  <2> QED BY <1>2, <1>3, <1>4 DEF Follows

-----------------------------------------------------------------------------
(* What the recursive functions of Numerals are *)

\* Shifting one digit more divides what was left once more.
LEMMA ShiftsSteps ==
    ASSUME NEW n \in Nat, NEW base \in Nat \ {0}
    PROVE  /\ Shifts(n, base) \in [Nat -> Nat]
           /\ Shifts(n, base)[0] = n
           /\ \A i \in Nat : Shifts(n, base)[i + 1] = Shifts(n, base)[i] \div base
<1> DEFINE step == [i \in Nat |-> [r \in Nat |-> r \div base]]
<1>1. step \in [Nat -> [Nat -> Nat]]
  OBVIOUS
<1>2. PICK f : Follows(f, Nat, n, step)
  <2> HIDE DEF step
  <2> QED BY <1>1, Recursion
<1>f. f \in [Nat -> Nat] /\ f[0] = n /\ \A i \in Nat : f[i + 1] = step[i + 1][f[i]]
  BY <1>2 DEF Follows
<1>3. f = [i \in Nat |-> IF i = 0 THEN n ELSE f[i - 1] \div base]
  <2>1. ASSUME NEW i \in Nat PROVE f[i] = IF i = 0 THEN n ELSE f[i - 1] \div base
    <3>1. CASE i = 0
      BY <1>f, <3>1
    <3>2. CASE i # 0
      <4>1. i - 1 \in Nat /\ (i - 1) + 1 = i
        BY <3>2
      <4>2. f[i] = step[i][f[i - 1]] /\ f[i - 1] \in Nat
        BY <1>f, <4>1
      <4> QED BY <3>2, <4>2
    <3> QED BY <3>1, <3>2
  <2> QED BY <1>f, <2>1
<1> DEFINE g == Shifts(n, base)
<1>4. g = [i \in Nat |-> IF i = 0 THEN n ELSE g[i - 1] \div base]
  BY <1>3 DEF Shifts
<1> HIDE DEF g
<1>5. g[0] = n /\ \A i \in Nat : g[i + 1] = g[i] \div base
  <2>1. g[0] = n
    BY <1>4
  <2>2. ASSUME NEW i \in Nat PROVE g[i + 1] = g[i] \div base
    <3>1. i + 1 \in Nat /\ i + 1 # 0 /\ (i + 1) - 1 = i
      OBVIOUS
    <3> QED BY <1>4, <3>1
  <2> QED BY <2>1, <2>2
<1>6. ASSUME NEW i \in Nat PROVE g[i] \in Nat
  <2> DEFINE T == {j \in Nat : g[j] \in Nat}
  <2>1. 0 \in T
    BY <1>5
  <2>2. ASSUME NEW j \in Nat, j \in T PROVE j + 1 \in T
    <3>1. j \in Nat /\ g[j] \in Nat /\ g[j + 1] = g[j] \div base
      BY <1>5, <2>2
    <3>2. g[j] \div base \in Nat
      BY <3>1
    <3> QED BY <3>1, <3>2
  <2> HIDE DEF T
  <2>3. Nat \subseteq T
    BY <2>1, <2>2, SetInduction
  <2> QED BY <2>3 DEF T
<1>7. g \in [Nat -> Nat]
  BY <1>4, <1>6
<1> QED BY <1>5, <1>7 DEF g

\* The value of the first digits, from the highest one on, is what Numeral takes
\* one digit further at a time.
ValueSoFar(value, digits, base) ==
    /\ value \in [0..Len(digits) -> Nat]
    /\ value[0] = 0
    /\ \A i \in 1..Len(digits) : value[i] = digits[Len(digits) - i + 1] + base * value[i - 1]

\* Numeral is the last of these values.
LEMMA NumeralSteps ==
    ASSUME NEW base \in Nat, NEW digits \in Seq(Nat)
    PROVE  \E value : ValueSoFar(value, digits, base) /\ Numeral(digits, base) = value[Len(digits)]
<1> DEFINE len == Len(digits)
           step == [i \in Nat |-> [v \in Nat |->
                        IF i \in 1..len THEN digits[len - i + 1] + base * v ELSE 0]]
<1>0. len \in Nat
  OBVIOUS
<1>d. ASSUME NEW i \in 1..len PROVE digits[len - i + 1] \in Nat
  <2>1. len - i + 1 \in 1..len
    BY <1>0
  <2> QED BY <2>1
<1> HIDE DEF len
<1>1. step \in [Nat -> [Nat -> Nat]]
  <2>1. ASSUME NEW i \in Nat, NEW v \in Nat
        PROVE  (IF i \in 1..len THEN digits[len - i + 1] + base * v ELSE 0) \in Nat
    BY <1>d
  <2> QED BY <2>1
<1>2. PICK f : Follows(f, Nat, 0, step)
  <2> HIDE DEF step
  <2> QED BY <1>1, Recursion
<1>f. f \in [Nat -> Nat] /\ f[0] = 0 /\ \A i \in Nat : f[i + 1] = step[i + 1][f[i]]
  BY <1>2 DEF Follows
<1> DEFINE g == [i \in 0..len |-> f[i]]
<1>3. g = [i \in 0..len |-> IF i = 0 THEN 0 ELSE digits[len - i + 1] + base * g[i - 1]]
  <2>1. ASSUME NEW i \in 0..len
        PROVE  f[i] = IF i = 0 THEN 0 ELSE digits[len - i + 1] + base * g[i - 1]
    <3>1. CASE i = 0
      BY <1>f, <3>1
    <3>2. CASE i # 0
      <4>1. i - 1 \in Nat /\ (i - 1) + 1 = i /\ i \in 1..len /\ i \in Nat /\ i - 1 \in 0..len
        BY <1>0, <3>2
      <4>2. f[i] = step[i][f[i - 1]] /\ f[i - 1] \in Nat /\ g[i - 1] = f[i - 1]
        BY <1>f, <4>1
      <4>3. step[i][f[i - 1]] = digits[len - i + 1] + base * f[i - 1]
        BY <4>1, <4>2
      <4> QED BY <3>2, <4>2, <4>3
    <3> QED BY <3>1, <3>2
  <2> QED BY <2>1
<1> DEFINE value == CHOOSE h : h = [i \in 0..len |->
                        IF i = 0 THEN 0 ELSE digits[len - i + 1] + base * h[i - 1]]
<1>4. value = [i \in 0..len |-> IF i = 0 THEN 0 ELSE digits[len - i + 1] + base * value[i - 1]]
  <2> HIDE DEF g
  <2> QED BY <1>3
<1>5. Numeral(digits, base) = value[len]
  BY DEF Numeral, len
<1> HIDE DEF value
<1>6. value[0] = 0 /\ \A i \in 1..len : value[i] = digits[len - i + 1] + base * value[i - 1]
  <2>1. 0 \in 0..len
    BY <1>0
  <2>2. value[0] = 0
    BY <1>4, <2>1
  <2>3. ASSUME NEW i \in 1..len PROVE value[i] = digits[len - i + 1] + base * value[i - 1]
    <3>1. i \in 0..len /\ i # 0
      OBVIOUS
    <3> QED BY <1>4, <3>1
  <2> QED BY <2>2, <2>3
<1>7. ASSUME NEW i \in 0..len PROVE value[i] \in Nat
  <2> DEFINE T == {j \in Nat : j <= len => value[j] \in Nat}
  <2>1. 0 \in T
    BY <1>6
  <2>2. ASSUME NEW j \in Nat, j \in T PROVE j + 1 \in T
    <3> SUFFICES ASSUME j + 1 <= len PROVE value[j + 1] \in Nat
      OBVIOUS
    <3>1. j + 1 \in 1..len /\ (j + 1) - 1 = j /\ value[j] \in Nat
      BY <1>0, <2>2
    <3>2. value[j + 1] = digits[len - (j + 1) + 1] + base * value[j]
      BY <1>6, <3>1
    <3>3. digits[len - (j + 1) + 1] \in Nat
      BY <1>d, <3>1
    <3>4. base * value[j] \in Nat
      BY <3>1
    <3> QED BY <3>2, <3>3, <3>4
  <2> HIDE DEF T
  <2>3. Nat \subseteq T
    BY <2>1, <2>2, SetInduction
  <2>4. i \in Nat /\ i <= len /\ i \in T
    BY <1>0, <2>3
  <2> QED BY <2>4 DEF T
<1>8. value \in [0..len -> Nat]
  BY <1>4, <1>7
<1> QED BY <1>5, <1>6, <1>8 DEF ValueSoFar, len

\* Shifting 1 further to the left doubles it.
LEMMA PowerSteps ==
    /\ PowerOf2 \in [Nat -> Nat \ {0}]
    /\ PowerOf2[0] = 1
    /\ \A e \in Nat : PowerOf2[e + 1] = 2 * PowerOf2[e]
<1> DEFINE positive == Nat \ {0}
           step == [i \in Nat |-> [v \in positive |-> 2 * v]]
<1>1. step \in [Nat -> [positive -> positive]]
  OBVIOUS
<1>2. PICK f : Follows(f, positive, 1, step)
  <2>1. 1 \in positive
    OBVIOUS
  <2> HIDE DEF step, positive
  <2> QED BY <1>1, <2>1, Recursion
<1>f. f \in [Nat -> positive] /\ f[0] = 1 /\ \A i \in Nat : f[i + 1] = step[i + 1][f[i]]
  BY <1>2 DEF Follows
<1>3. ASSUME NEW e \in Nat PROVE f[e + 1] = 2 * f[e]
  <2>1. f[e] \in positive /\ e + 1 \in Nat /\ f[e + 1] = step[e + 1][f[e]]
    <3> HIDE DEF step, positive
    <3> QED BY <1>f
  <2> QED BY <2>1
<1>4. f = [e \in Nat |-> IF e = 0 THEN 1 ELSE 2 * f[e - 1]]
  <2>1. ASSUME NEW e \in Nat PROVE f[e] = IF e = 0 THEN 1 ELSE 2 * f[e - 1]
    <3>1. CASE e = 0
      BY <1>f, <3>1
    <3>2. CASE e # 0
      <4>1. e - 1 \in Nat /\ (e - 1) + 1 = e
        BY <3>2
      <4> QED BY <1>3, <3>2, <4>1
    <3> QED BY <3>1, <3>2
  <2> QED BY <1>f, <2>1
<1>5. PowerOf2 = [e \in Nat |-> IF e = 0 THEN 1 ELSE 2 * PowerOf2[e - 1]]
  BY <1>4 DEF PowerOf2
<1>6. PowerOf2[0] = 1
  BY <1>5
<1>7. ASSUME NEW e \in Nat PROVE PowerOf2[e + 1] = 2 * PowerOf2[e]
  <2>1. e + 1 \in Nat /\ e + 1 # 0 /\ (e + 1) - 1 = e
    OBVIOUS
  <2> QED BY <1>5, <2>1
<1>8. ASSUME NEW e \in Nat PROVE PowerOf2[e] \in positive
  <2> DEFINE T == {j \in Nat : PowerOf2[j] \in positive}
  <2>1. 0 \in T
    BY <1>6
  <2>2. ASSUME NEW j \in Nat, j \in T PROVE j + 1 \in T
    <3>1. PowerOf2[j] \in positive /\ PowerOf2[j + 1] = 2 * PowerOf2[j]
      BY <1>7, <2>2
    <3> QED BY <3>1
  <2> HIDE DEF T
  <2>3. Nat \subseteq T
    BY <2>1, <2>2, SetInduction
  <2> QED BY <2>3 DEF T
<1> QED BY <1>5, <1>6, <1>7, <1>8

-----------------------------------------------------------------------------
(* Numbers and their digits *)

\* Division by the base.
LEMMA Divided ==
    ASSUME NEW base \in Nat \ {0, 1}, NEW n \in Nat
    PROVE  /\ n \div base \in Nat /\ n % base \in 0 .. base - 1
           /\ n = (n % base) + base * (n \div base)
           /\ n # 0 => n \div base < n
<1>1. /\ n \div base \in Nat /\ n % base \in 0 .. base - 1
      /\ n = (n % base) + base * (n \div base)
  OBVIOUS
<1> DEFINE q == n \div base
           r == n % base
<1>2. q \in Nat /\ r \in Nat /\ n = r + base * q
  BY <1>1
<1> HIDE DEF q, r
<1>3. base * q >= 2 * q
  BY <1>2
<1>4. n # 0 => q < n
  BY <1>2, <1>3
<1> QED BY <1>1, <1>4 DEF q

\* Division keeps the order.
LEMMA DividedInOrder ==
    ASSUME NEW base \in Nat \ {0}, NEW m \in Nat, NEW n \in Nat, m <= n
    PROVE  m \div base <= n \div base
OBVIOUS

\* A smaller number is not left with more.
LEMMA ShiftsInOrder ==
    ASSUME NEW base \in Nat \ {0}, NEW m \in Nat, NEW n \in Nat, m <= n
    PROVE  \A i \in Nat : Shifts(m, base)[i] <= Shifts(n, base)[i]
<1> DEFINE f == Shifts(m, base)
           g == Shifts(n, base)
           T == {i \in Nat : f[i] <= g[i]}
<1>1. /\ f \in [Nat -> Nat] /\ f[0] = m /\ \A i \in Nat : f[i + 1] = f[i] \div base
      /\ g \in [Nat -> Nat] /\ g[0] = n /\ \A i \in Nat : g[i + 1] = g[i] \div base
  BY ShiftsSteps
<1> HIDE DEF f, g
<1>2. 0 \in T
  BY <1>1
<1>3. ASSUME NEW i \in Nat, i \in T PROVE i + 1 \in T
  <2>1. f[i] \in Nat /\ g[i] \in Nat /\ f[i] <= g[i]
    BY <1>1, <1>3
  <2>2. f[i] \div base <= g[i] \div base
    BY <2>1, DividedInOrder
  <2> QED BY <1>1, <2>2
<1>4. Nat \subseteq T
  <2> HIDE DEF T
  <2> QED BY <1>2, <1>3, SetInduction
<1> QED BY <1>4 DEF f, g

\* Once nothing is left, nothing is.
LEMMA NothingLeft ==
    ASSUME NEW base \in Nat \ {0}, NEW n \in Nat, NEW k \in Nat, Shifts(n, base)[k] = 0
    PROVE  \A i \in Nat : i >= k => Shifts(n, base)[i] = 0
<1> DEFINE f == Shifts(n, base)
           T == {i \in Nat : i >= k => f[i] = 0}
<1>1. f \in [Nat -> Nat] /\ f[k] = 0 /\ \A i \in Nat : f[i + 1] = f[i] \div base
  BY ShiftsSteps
<1> HIDE DEF f
<1>2. 0 \in T
  BY <1>1
<1>3. ASSUME NEW i \in Nat, i \in T PROVE i + 1 \in T
  <2> SUFFICES ASSUME i + 1 >= k PROVE f[i + 1] = 0
    OBVIOUS
  <2>1. CASE i + 1 = k
    BY <1>1, <2>1
  <2>2. CASE i >= k
    <3>1. f[i] = 0 /\ f[i + 1] = f[i] \div base
      BY <1>1, <1>3, <2>2
    <3> QED BY <3>1
  <2> QED BY <2>1, <2>2
<1>4. Nat \subseteq T
  <2> HIDE DEF T
  <2> QED BY <1>2, <1>3, SetInduction
<1> QED BY <1>4 DEF f

\* Every number has its digits: the loop that counts them ends, where nothing is left.
LEMMA DigitsEnd ==
    ASSUME NEW base \in Nat \ {0, 1}, NEW n \in Nat
    PROVE  /\ DigitsOf(n, base) \in 0..n
           /\ \A k \in Nat : DigitsOf(n, base) <= k <=> Shifts(n, base)[k] = 0
<1> DEFINE f == Shifts(n, base)
           T == {i \in Nat : f[i] = 0 \/ f[i] + i <= n}
<1>1. f \in [Nat -> Nat] /\ f[0] = n /\ \A i \in Nat : f[i + 1] = f[i] \div base
  BY ShiftsSteps
<1>2. \A k : f[k] = Shifts(n, base)[k]
  OBVIOUS
<1> HIDE DEF f
<1>3. 0 \in T
  BY <1>1
<1>4. ASSUME NEW i \in Nat, i \in T PROVE i + 1 \in T
  <2>1. f[i] \in Nat /\ f[i + 1] = f[i] \div base /\ f[i + 1] \in Nat
    BY <1>1
  <2>2. CASE f[i] = 0
    BY <2>1, <2>2
  <2>3. CASE f[i] # 0
    <3>1. f[i + 1] < f[i]
      BY <2>1, <2>3, Divided
    <3> QED BY <1>4, <2>1, <2>3, <3>1
  <2> QED BY <2>2, <2>3
<1>5. n \in T
  <2> HIDE DEF T
  <2> QED BY <1>3, <1>4, SetInduction
<1>6. f[n] = 0
  BY <1>1, <1>5
<1> DEFINE Z == {k \in Nat : f[k] = 0}
<1>7. PICK k \in Z : \A j \in Z : k <= j
  BY <1>6, LeastNat
<1>8. k \in 0..n /\ f[k] = 0 /\ \A j \in 0 .. k - 1 : f[j] # 0
  <2>1. k \in Nat /\ f[k] = 0 /\ k <= n
    BY <1>6, <1>7
  <2>2. ASSUME NEW j \in 0 .. k - 1 PROVE f[j] # 0
    BY <1>7, <2>1
  <2> QED BY <2>1, <2>2
<1> DEFINE d == DigitsOf(n, base)
<1>9. d \in 0..n /\ f[d] = 0 /\ \A j \in 0 .. d - 1 : f[j] # 0
  BY <1>2, <1>8 DEF DigitsOf
<1> HIDE DEF d
<1>10. ASSUME NEW j \in Nat PROVE d <= j <=> f[j] = 0
  <2>1. d <= j => f[j] = 0
    BY <1>2, <1>9, NothingLeft
  <2>2. d > j => f[j] # 0
    BY <1>9
  <2> QED BY <1>9, <2>1, <2>2
<1> QED BY <1>2, <1>9, <1>10 DEF d

\* Digits are digits.
LEMMA DigitsType ==
    ASSUME NEW base \in Nat \ {0, 1}, NEW n \in Nat, NEW len \in Nat
    PROVE  /\ Digits(n, base, len) \in Seq(0 .. base - 1)
           /\ Digits(n, base, len) \in Seq(Nat)
           /\ Len(Digits(n, base, len)) = len
           /\ \A i \in 1..len : Digits(n, base, len)[i] = Shifts(n, base)[i - 1] % base
<1>1. ASSUME NEW i \in 1..len PROVE Shifts(n, base)[i - 1] % base \in 0 .. base - 1
  <2>1. Shifts(n, base)[i - 1] \in Nat
    BY ShiftsSteps
  <2> QED BY <2>1, Divided
<1>2. Digits(n, base, len) \in [1..len -> 0 .. base - 1]
  BY <1>1 DEF Digits
<1>3. Digits(n, base, len) \in [1..len -> Nat]
  BY <1>2
<1> QED BY <1>2, <1>3 DEF Digits

\* A number is read back from some of its digits exactly if these are all it has.
LEMMA DigitsTell ==
    ASSUME NEW base \in Nat \ {0, 1}, NEW n \in Nat, NEW len \in Nat
    PROVE  Numeral(Digits(n, base, len), base) = n <=> Shifts(n, base)[len] = 0
<1> DEFINE digits == Digits(n, base, len)
           f == Shifts(n, base)
<1>1. /\ digits \in Seq(Nat) /\ Len(digits) = len
      /\ \A i \in 1..len : digits[i] = f[i - 1] % base
  BY DigitsType
<1>2. /\ f \in [Nat -> Nat] /\ f[0] = n
      /\ \A i \in Nat : f[i + 1] = f[i] \div base
  BY ShiftsSteps
<1> HIDE DEF digits, f
<1>3. PICK value : ValueSoFar(value, digits, base) /\ Numeral(digits, base) = value[len]
  BY <1>1, NumeralSteps
<1>4. /\ value \in [0..len -> Nat] /\ value[0] = 0
      /\ \A i \in 1..len : value[i] = digits[len - i + 1] + base * value[i - 1]
  BY <1>1, <1>3 DEF ValueSoFar
<1> DEFINE T == {i \in Nat : i <= len => (value[i] = f[len - i] <=> f[len] = 0)}
<1>5. 0 \in T
  <2>1. len - 0 = len /\ (value[0] = f[len] <=> f[len] = 0)
    BY <1>4
  <2> QED BY <2>1
<1>6. ASSUME NEW i \in Nat, i \in T PROVE i + 1 \in T
  <2> SUFFICES ASSUME i + 1 <= len 
               PROVE  value[i + 1] = f[len - (i + 1)] <=> f[len] = 0
    OBVIOUS
  <2> DEFINE j == len - (i + 1)
  <2>1. /\ j \in Nat /\ len - i = j + 1 /\ i + 1 \in 1..len /\ (i + 1) - 1 = i
        /\ len - (i + 1) + 1 = j + 1 /\ j + 1 \in 1..len /\ (j + 1) - 1 = j
    OBVIOUS
  <2>2. /\ value[i] = f[j + 1] <=> f[len] = 0
        /\ f[j + 1] = f[j] \div base /\ f[j] \in Nat /\ f[j + 1] \in Nat
    BY <1>2, <1>6, <2>1
  <2>3. value[i + 1] = digits[j + 1] + base * value[i]
    BY <1>4, <2>1
  <2>4. digits[j + 1] = f[j] % base
    BY <1>1, <2>1
  <2>5. f[j] = (f[j] % base) + base * (f[j] \div base)
    BY <2>2, Divided
  <2> HIDE DEF j
  <2>6. value[i + 1] = f[j] <=> value[i] = f[j + 1]
    <3> DEFINE v == value[i]
               w == f[j + 1]
               r == f[j] % base
    <3>1. v \in Nat /\ w \in Nat /\ r \in Nat
      <4>1. i \in 0..len
        OBVIOUS
      <4>2. f[j] % base \in 0 .. base - 1
        BY <2>2, Divided
      <4>3. r \in Nat
        BY <4>2
      <4> QED BY <1>4, <2>2, <4>1, <4>3
    <3>2. value[i + 1] = r + base * v /\ f[j] = r + base * w
      BY <2>2, <2>3, <2>4, <2>5
    <3> HIDE DEF v, w, r
    <3>3. v < w => base * v < base * w
      BY <3>1
    <3>4. w < v => base * w < base * v
      BY <3>1
    <3>5. base * v \in Nat /\ base * w \in Nat
      BY <3>1
    <3>6. r + base * v = r + base * w <=> v = w
      BY <3>1, <3>3, <3>4, <3>5
    <3> QED BY <3>2, <3>6 DEF v, w
  <2> QED BY <2>2, <2>6 DEF j
<1>7. len \in T
  <2> HIDE DEF T
  <2> QED BY <1>5, <1>6, SetInduction
<1>8. value[len] = f[0] <=> f[len] = 0
  <2>1. len <= len /\ len - len = 0
    OBVIOUS
  <2> QED BY <1>7, <2>1
<1> QED BY <1>2, <1>3, <1>8 DEF digits, f

-----------------------------------------------------------------------------
(* Words and numbers *)

\* The powers whose exponents are the widths of the fields.
LEMMA SomePowers ==
    /\ PowerOf2[0] = 1 /\ PowerOf2[1] = 2 /\ PowerOf2[2] = 4 /\ PowerOf2[3] = 8
    /\ PowerOf2[4] = 16 /\ PowerOf2[5] = 32 /\ PowerOf2[8] = 256
<1>1. /\ PowerOf2[0 + 1] = 2 * PowerOf2[0] /\ PowerOf2[1 + 1] = 2 * PowerOf2[1]
      /\ PowerOf2[2 + 1] = 2 * PowerOf2[2] /\ PowerOf2[3 + 1] = 2 * PowerOf2[3]
      /\ PowerOf2[4 + 1] = 2 * PowerOf2[4] /\ PowerOf2[5 + 1] = 2 * PowerOf2[5]
      /\ PowerOf2[6 + 1] = 2 * PowerOf2[6] /\ PowerOf2[7 + 1] = 2 * PowerOf2[7]
  BY PowerSteps
<1> QED BY <1>1, PowerSteps

\* Two powers are in the order of their exponents.
LEMMA PowersInOrder ==
    ASSUME NEW e \in Nat, NEW d \in Nat, e < d PROVE PowerOf2[e] < PowerOf2[d]
<1> DEFINE T == {i \in Nat : PowerOf2[e] < PowerOf2[e + i + 1]}
<1>1. 0 \in T
  BY PowerSteps
<1>2. ASSUME NEW i \in Nat, i \in T PROVE i + 1 \in T
  <2>1. /\ PowerOf2[e] \in Nat /\ PowerOf2[e + i + 1] \in Nat
        /\ PowerOf2[e + (i + 1) + 1] = 2 * PowerOf2[e + i + 1]
        /\ PowerOf2[e] < PowerOf2[e + i + 1]
    BY <1>2, PowerSteps
  <2> QED BY <2>1
<1>3. d - e - 1 \in T
  <2>1. d - e - 1 \in Nat
    OBVIOUS
  <2> HIDE DEF T
  <2> QED BY <1>1, <1>2, <2>1, SetInduction
<1>4. e + (d - e - 1) + 1 = d
  OBVIOUS
<1> QED BY <1>3, <1>4

\* ilog2() answers the exponent a power was made with.
LEMMA ExponentTold ==
    ASSUME NEW e \in 0..MaxExponent PROVE Exponent(PowerOf2[e]) = e
<1>1. ASSUME NEW d \in 0..MaxExponent, PowerOf2[d] = PowerOf2[e] PROVE d = e
  <2>1. d \in Nat /\ e \in Nat /\ PowerOf2[d] \in Nat
    BY PowerSteps
  <2>2. d < e => PowerOf2[d] < PowerOf2[e]
    BY <2>1, PowersInOrder
  <2>3. e < d => PowerOf2[e] < PowerOf2[d]
    BY <2>1, PowersInOrder
  <2> QED BY <1>1, <2>1, <2>2, <2>3
<1> DEFINE d == Exponent(PowerOf2[e])
<1>2. d \in 0..MaxExponent /\ PowerOf2[d] = PowerOf2[e]
  BY DEF Exponent
<1> HIDE DEF d
<1>3. d = e
  BY <1>1, <1>2
<1> QED BY <1>3 DEF d

\* A number below the k-th power has k bits.
LEMMA BitsOfNumber ==
    ASSUME NEW n \in Nat, NEW k \in Nat, n < PowerOf2[k]
    PROVE  Shifts(n, 2)[k] = 0
<1> DEFINE f == Shifts(n, 2)
           T == {i \in Nat : i <= k => f[i] < PowerOf2[k - i]}
<1>1. f \in [Nat -> Nat] /\ f[0] = n /\ \A i \in Nat : f[i + 1] = f[i] \div 2
  BY ShiftsSteps
<1> HIDE DEF f
<1>2. 0 \in T
  <2>1. k - 0 = k
    OBVIOUS
  <2> QED BY <1>1, <2>1
<1>3. ASSUME NEW i \in Nat, i \in T PROVE i + 1 \in T
  <2> SUFFICES ASSUME i + 1 <= k PROVE f[i + 1] < PowerOf2[k - (i + 1)]
    OBVIOUS
  <2> DEFINE j == k - (i + 1)
  <2>1. j \in Nat /\ k - i = j + 1
    OBVIOUS
  <2>2. f[i] < PowerOf2[j + 1] /\ PowerOf2[j + 1] = 2 * PowerOf2[j] /\ PowerOf2[j] \in Nat
    BY <1>3, <2>1, PowerSteps
  <2>3. f[i] \in Nat /\ f[i + 1] = f[i] \div 2
    BY <1>1
  <2> HIDE DEF j
  <2>4. f[i + 1] < PowerOf2[j]
    BY <2>2, <2>3
  <2> QED BY <2>4 DEF j
<1>4. k \in T
  <2> HIDE DEF T
  <2> QED BY <1>2, <1>3, SetInduction
<1>5. f[k] < PowerOf2[0] /\ f[k] \in Nat
  <2>1. k - k = 0 /\ k <= k
    OBVIOUS
  <2> QED BY <1>1, <1>4, <2>1
<1> QED BY <1>5, PowerSteps DEF f

\* The bits of a word tell a number.
LEMMA NumberType == ASSUME NEW word PROVE Number(word) \in Nat
<1> DEFINE bits == [i \in 1..16 |-> IF i - 1 \in word THEN 1 ELSE 0]
<1>1. bits \in Seq(Nat) /\ Len(bits) = 16
  OBVIOUS
<1> HIDE DEF bits
<1>2. PICK value : ValueSoFar(value, bits, 2) /\ Numeral(bits, 2) = value[16]
  BY <1>1, NumeralSteps
<1>3. value \in [0..16 -> Nat]
  BY <1>1, <1>2 DEF ValueSoFar
<1>4. Numeral(bits, 2) \in Nat
  BY <1>2, <1>3
<1> QED BY <1>4 DEF Number, bits

\* A number that fits in some bits takes no other ones, and is told by them.
LEMMA WordTells ==
    ASSUME NEW n \in Nat, NEW k \in 0..16, n < PowerOf2[k]
    PROVE  Word(n) \subseteq 0 .. k - 1 /\ Number(Word(n)) = n
<1>1. Shifts(n, 2)[k] = 0 /\ Shifts(n, 2)[16] = 0
  <2>1. Shifts(n, 2)[k] = 0
    BY BitsOfNumber
  <2> QED BY <2>1, NothingLeft
<1>2. \A i \in 1..16 : Digits(n, 2, 16)[i] = Shifts(n, 2)[i - 1] % 2
  <2>1. 2 \in Nat \ {0, 1} /\ 16 \in Nat
    OBVIOUS
  <2> QED BY <2>1, DigitsType
<1>3. \A i \in 1..16 : Digits(n, 2, 16)[i] \in 0..1
  <2>1. 2 \in Nat \ {0} /\ \A i \in 1..16 : i - 1 \in Nat
    OBVIOUS
  <2>2. Shifts(n, 2) \in [Nat -> Nat]
    BY <2>1, ShiftsSteps
  <2>3. \A r \in Nat : r % 2 \in 0..1
    OBVIOUS
  <2>4. ASSUME NEW i \in 1..16 PROVE Digits(n, 2, 16)[i] \in 0..1
    <3>1. Shifts(n, 2)[i - 1] \in Nat
      BY <2>1, <2>2
    <3>2. Shifts(n, 2)[i - 1] % 2 \in 0..1
      BY <2>3, <3>1
    <3> QED BY <1>2, <3>2
  <2> QED BY <2>4
<1>4. Word(n) = {i \in 0..15 : Digits(n, 2, 16)[i + 1] = 1}
  BY DEF Word
<1>5. ASSUME NEW i \in Word(n) PROVE i \in 0 .. k - 1
  <2>1. i \in 0..15 /\ i + 1 \in 1..16 /\ (i + 1) - 1 = i /\ Digits(n, 2, 16)[i + 1] = 1
    BY <1>4
  <2>2. Shifts(n, 2)[i] % 2 = 1
    BY <1>2, <2>1
  <2>3. i >= k => Shifts(n, 2)[i] = 0
    BY <1>1, <2>1, NothingLeft
  <2> QED BY <2>1, <2>2, <2>3
<1>6. Digits(n, 2, 16) = [i \in 1..16 |-> IF i - 1 \in Word(n) THEN 1 ELSE 0]
  <2>1. ASSUME NEW i \in 1..16
        PROVE  Digits(n, 2, 16)[i] = IF i - 1 \in Word(n) THEN 1 ELSE 0
    <3>1. i - 1 \in 0..15 /\ (i - 1) + 1 = i
      OBVIOUS
    <3> QED BY <1>3, <1>4, <3>1
  <2>2. Digits(n, 2, 16) = [i \in 1..16 |-> Digits(n, 2, 16)[i]]
    BY DEF Digits
  <2> QED BY <2>1, <2>2
<1>7. Numeral(Digits(n, 2, 16), 2) = n
  BY <1>1, DigitsTell
<1> QED BY <1>5, <1>6, <1>7 DEF Number

\* A power of two is told by the bits of its exponent.
LEMMA PowerTold ==
    ASSUME NEW w \in {4, 5}, NEW e \in 0..MaxExponent, e < PowerOf2[w]
    PROVE  /\ Word(Exponent(PowerOf2[e])) \subseteq 0 .. w - 1
           /\ PowerOf2[Number(Word(Exponent(PowerOf2[e])))] = PowerOf2[e]
BY ExponentTold, WordTells


-----------------------------------------------------------------------------
(* The fields of a word *)

LEMMA Ends ==
    ASSUME NEW lo \in Nat, NEW hi \in Nat, lo <= hi
    PROVE  Min(lo..hi) = lo /\ Max(lo..hi) = hi
<1>1. lo \in lo..hi /\ hi \in lo..hi /\ \A i \in lo..hi : lo <= i /\ i >= lo /\ hi >= i
  OBVIOUS
<1>2. Min(lo..hi) \in lo..hi /\ Min(lo..hi) <= lo
  <2>1. Min(lo..hi) \in lo..hi /\ \A i \in lo..hi : Min(lo..hi) <= i
    BY <1>1 DEF Min
  <2> QED BY <1>1, <2>1
<1>3. Max(lo..hi) \in lo..hi /\ Max(lo..hi) >= hi
  <2>1. Max(lo..hi) \in lo..hi /\ \A i \in lo..hi : Max(lo..hi) >= i
    BY <1>1 DEF Max
  <2> QED BY <1>1, <2>1
<1> QED BY <1>2, <1>3

\* What is stored in a field is what is read from it, and leaves the other bits alone.
LEMMA FieldStored ==
    ASSUME NEW lo \in Nat, NEW hi \in Nat, lo <= hi,
           NEW word, NEW value \in SUBSET (0 .. hi - lo)
    PROVE  /\ GetBits(SetBits(word, lo..hi, value), lo..hi) = value
           /\ \A bits : bits \cap lo..hi = {} => SetBits(word, lo..hi, value) \cap bits = word \cap bits
           /\ SetBits(word, lo..hi, value) \subseteq word \cup lo..hi
<1> DEFINE moved == {i + lo : i \in value}
<1>1. SetBits(word, lo..hi, value) = (word \ lo..hi) \cup moved
  BY Ends DEF SetBits
<1>2. moved \subseteq lo..hi
  OBVIOUS
<1>3. SetBits(word, lo..hi, value) \cap lo..hi = moved
  BY <1>1, <1>2
<1>4. {i - lo : i \in moved} = value
  <2>1. ASSUME NEW j \in value PROVE j + lo \in moved /\ (j + lo) - lo = j
    OBVIOUS
  <2>2. ASSUME NEW i \in moved PROVE i - lo \in value
    <3>1. PICK j \in value : i = j + lo
      OBVIOUS
    <3>2. i - lo = j
      BY <3>1
    <3> QED BY <3>2
  <2> HIDE DEF moved
  <2> QED BY <2>1, <2>2
<1>5. GetBits(SetBits(word, lo..hi, value), lo..hi) = {i - lo : i \in moved}
  BY <1>3, Ends DEF GetBits
<1> QED
  <2> HIDE DEF moved
  <2> QED BY <1>1, <1>2, <1>4, <1>5

\* The fields of a configuration, in the order they are stored
Low == <<0, 5, 10, 15, 20, 24, 35, 51>>
High == <<4, 9, 14, 19, 23, 34, 50, 59>>

\* None of them shares a bit with another one.
LEMMA FieldsApart ==
    /\ \A i \in 1..8 :
        /\ Order[i] \in DOMAIN Layout
        /\ Low[i] \in Nat /\ High[i] \in Nat /\ Low[i] <= High[i]
        /\ Layout[Order[i]] = Low[i] .. High[i]
    /\ \A i \in 1..8, j \in 1..8 : i < j => High[i] < Low[j]
    /\ \A f \in DOMAIN Layout : \E i \in 1..8 : f = Order[i]
<1>1. \A i \in 1..8 : i \in {1, 2, 3, 4, 5, 6, 7, 8}
  OBVIOUS
<1>2. \A i \in {1, 2, 3, 4, 5, 6, 7, 8} :
        /\ Order[i] \in DOMAIN Layout
        /\ Low[i] \in Nat /\ High[i] \in Nat /\ Low[i] <= High[i]
        /\ Layout[Order[i]] = Low[i] .. High[i]
  <2>1. /\ Order[1] = "sender_channel_size" /\ Order[2] = "receiver_channel_size"
        /\ Order[3] = "sender_max_msg_size" /\ Order[4] = "receiver_max_msg_size"
        /\ Order[5] = "flush_timeout_millis" /\ Order[6] = "retrying_strategy"
        /\ Order[7] = "socket_options" /\ Order[8] = "executor_instruments"
    BY DEF Order
  <2>2. /\ Layout["sender_channel_size"] = 0..4 /\ Layout["receiver_channel_size"] = 5..9
        /\ Layout["sender_max_msg_size"] = 10..14 /\ Layout["receiver_max_msg_size"] = 15..19
        /\ Layout["flush_timeout_millis"] = 20..23 /\ Layout["retrying_strategy"] = 24..34
        /\ Layout["socket_options"] = 35..50 /\ Layout["executor_instruments"] = 51..59
    BY DEF Layout
  <2>3. DOMAIN Layout = {"sender_channel_size", "receiver_channel_size", "sender_max_msg_size",
                         "receiver_max_msg_size", "flush_timeout_millis", "retrying_strategy",
                         "socket_options", "executor_instruments"}
    BY DEF Layout
  <2>4. /\ Low[1] = 0 /\ Low[2] = 5 /\ Low[3] = 10 /\ Low[4] = 15
        /\ Low[5] = 20 /\ Low[6] = 24 /\ Low[7] = 35 /\ Low[8] = 51
        /\ High[1] = 4 /\ High[2] = 9 /\ High[3] = 14 /\ High[4] = 19
        /\ High[5] = 23 /\ High[6] = 34 /\ High[7] = 50 /\ High[8] = 59
    BY DEF Low, High
  <2>5. \A i \in {1, 2, 3, 4, 5, 6, 7, 8} : Order[i] \in DOMAIN Layout
    BY <2>1, <2>3
  <2>6. \A i \in {1, 2, 3, 4, 5, 6, 7, 8} : Low[i] \in Nat /\ High[i] \in Nat /\ Low[i] <= High[i]
    BY <2>4
  <2>7. \A i \in {1, 2, 3, 4, 5, 6, 7, 8} : Layout[Order[i]] = Low[i] .. High[i]
    <3>1. /\ Layout[Order[1]] = Low[1] .. High[1] /\ Layout[Order[2]] = Low[2] .. High[2]
          /\ Layout[Order[3]] = Low[3] .. High[3] /\ Layout[Order[4]] = Low[4] .. High[4]
      BY <2>1, <2>2, <2>4
    <3>2. /\ Layout[Order[5]] = Low[5] .. High[5] /\ Layout[Order[6]] = Low[6] .. High[6]
          /\ Layout[Order[7]] = Low[7] .. High[7] /\ Layout[Order[8]] = Low[8] .. High[8]
      BY <2>1, <2>2, <2>4
    <3> QED BY <3>1, <3>2
  <2> QED BY <2>5, <2>6, <2>7
<1>3. \A i \in 1..8, j \in 1..8 : i < j => High[i] < Low[j]
  BY <1>1 DEF Low, High
<1>4. DOMAIN Layout = {Order[i] : i \in {1, 2, 3, 4, 5, 6, 7, 8}}
  BY DEF Layout, Order
<1> QED BY <1>1, <1>2, <1>3, <1>4

\* Whatever is stored in the fields, as long as it fits, is all there at the end.
LEMMA AllStored ==
    ASSUME NEW c, \A f \in DOMAIN Layout : Fits(Layout[f], Reprs(c)[f])
    PROVE  \A f \in DOMAIN Layout : GetBits(Into(c), Layout[f]) = Reprs(c)[f]
<1> DEFINE field(i) == Low[i] .. High[i]
           value(i) == Reprs(c)[Order[i]]
           step == [k \in Nat |-> [w \in SUBSET Int |->
                        IF k \in 1..8 THEN SetBits(w, field(k), value(k)) ELSE w]]
<1>0. ASSUME NEW i \in 1..8
      PROVE  /\ Layout[Order[i]] = field(i) /\ value(i) \in SUBSET (0 .. High[i] - Low[i])
             /\ Low[i] \in Nat /\ High[i] \in Nat /\ Low[i] <= High[i]
  <2>1. /\ Order[i] \in DOMAIN Layout /\ Layout[Order[i]] = field(i)
        /\ Low[i] \in Nat /\ High[i] \in Nat /\ Low[i] <= High[i]
    BY FieldsApart
  <2>2. value(i) \subseteq 0 .. Max(field(i)) - Min(field(i))
    BY <2>1 DEF Fits
  <2> QED BY <2>1, <2>2, Ends
<1> HIDE DEF value
<1>1. step \in [Nat -> [SUBSET Int -> SUBSET Int]]
  <2>1. ASSUME NEW k \in 1..8, NEW w \in SUBSET Int PROVE SetBits(w, field(k), value(k)) \in SUBSET Int
    <3>1. /\ value(k) \in SUBSET (0 .. High[k] - Low[k])
          /\ Low[k] \in Nat /\ High[k] \in Nat /\ Low[k] <= High[k]
      BY <1>0
    <3>2. Min(Low[k] .. High[k]) = Low[k]
      BY <3>1, Ends
    <3>3. {i + Low[k] : i \in value(k)} \subseteq Int
      BY <3>1
    <3>4. SetBits(w, field(k), value(k)) = (w \ field(k)) \cup {i + Low[k] : i \in value(k)}
      BY <3>2 DEF SetBits
    <3> QED BY <3>3, <3>4
  <2> QED BY <2>1
<1>2. PICK s : Follows(s, SUBSET Int, {}, step)
  <2> HIDE DEF step
  <2>1. {} \in SUBSET Int
    OBVIOUS
  <2> QED BY <1>1, <2>1, Recursion
<1>3. s \in [Nat -> SUBSET Int] /\ s[0] = {} /\ \A k \in Nat : s[k + 1] = step[k + 1][s[k]]
  BY <1>2 DEF Follows
<1> DEFINE g == [k \in 0..8 |-> s[k]]
<1>4. g = [k \in 0..8 |-> IF k = 0 THEN {}
                          ELSE SetBits(g[k - 1], Layout[Order[k]], Reprs(c)[Order[k]])]
  <2>1. ASSUME NEW k \in 0..8, k # 0
        PROVE  s[k] = SetBits(g[k - 1], Layout[Order[k]], Reprs(c)[Order[k]])
    <3>1. k - 1 \in Nat /\ (k - 1) + 1 = k /\ k \in 1..8 /\ k - 1 \in 0..8 /\ k \in Nat
      BY <2>1
    <3>2. s[k] = step[k][s[k - 1]] /\ s[k - 1] \in SUBSET Int /\ g[k - 1] = s[k - 1]
      BY <1>3, <3>1
    <3>3. s[k] = SetBits(s[k - 1], field(k), value(k))
      BY <3>1, <3>2
    <3> QED BY <1>0, <3>1, <3>2, <3>3 DEF value
  <2> QED BY <1>3, <2>1
<1> DEFINE stored == CHOOSE h : h = [k \in 0..8 |-> IF k = 0 THEN {}
                          ELSE SetBits(h[k - 1], Layout[Order[k]], Reprs(c)[Order[k]])]
<1>5. stored = [k \in 0..8 |-> IF k = 0 THEN {}
                          ELSE SetBits(stored[k - 1], Layout[Order[k]], Reprs(c)[Order[k]])]
  <2> HIDE DEF g
  <2> QED BY <1>4
<1>6. Into(c) = stored[8]
  BY DEF Into
<1> HIDE DEF stored, step, g
<1>7. ASSUME NEW k \in 1..8 PROVE stored[k] = SetBits(stored[k - 1], field(k), value(k))
  <2>1. k \in 0..8 /\ k # 0
    OBVIOUS
  <2> QED BY <1>0, <1>5, <2>1 DEF value
<1> DEFINE T == {k \in Nat : k <= 8 => \A i \in 1..k : GetBits(stored[k], field(i)) = value(i)}
<1>8. 0 \in T
  OBVIOUS
<1>9. ASSUME NEW k \in Nat, k \in T PROVE k + 1 \in T
  <2> SUFFICES ASSUME k + 1 <= 8, NEW i \in 1 .. k + 1
               PROVE  GetBits(stored[k + 1], field(i)) = value(i)
    OBVIOUS
  <2>1. k + 1 \in 1..8 /\ (k + 1) - 1 = k /\ i \in 1..8
    OBVIOUS
  <2>2. stored[k + 1] = SetBits(stored[k], field(k + 1), value(k + 1))
    BY <1>7, <2>1
  <2>3. CASE i = k + 1
    <3> HIDE DEF T
    <3>1. /\ value(i) \in SUBSET (0 .. High[i] - Low[i])
          /\ Low[i] \in Nat /\ High[i] \in Nat /\ Low[i] <= High[i]
      BY <1>0, <2>1
    <3>2. GetBits(SetBits(stored[k], Low[i] .. High[i], value(i)), Low[i] .. High[i]) = value(i)
      BY <3>1, FieldStored
    <3> QED BY <2>2, <2>3, <3>2
  <2>4. CASE i # k + 1
    <3>1. i < k + 1 /\ i \in 1..k /\ k <= 8
      BY <2>4
    <3>2. field(i) \cap field(k + 1) = {}
      <4>1. High[i] < Low[k + 1] /\ High[i] \in Nat /\ Low[k + 1] \in Nat
        BY <2>1, <3>1, FieldsApart
      <4> QED BY <4>1
    <3>3. GetBits(stored[k], field(i)) = value(i)
      BY <1>9, <3>1
    <3> HIDE DEF T
    <3>4. SetBits(stored[k], field(k + 1), value(k + 1)) \cap field(i) = stored[k] \cap field(i)
      <4> DEFINE j == k + 1
      <4>1. j \in 1..8
        BY <2>1
      <4> HIDE DEF j
      <4>2. /\ value(j) \in SUBSET (0 .. High[j] - Low[j])
            /\ Low[j] \in Nat /\ High[j] \in Nat /\ Low[j] <= High[j]
        BY <1>0, <4>1
      <4>3. \A bits : bits \cap Low[j] .. High[j] = {} =>
              SetBits(stored[k], Low[j] .. High[j], value(j)) \cap bits = stored[k] \cap bits
        BY <4>2, FieldStored
      <4> QED BY <3>2, <4>3 DEF j
    <3> QED BY <2>2, <3>3, <3>4 DEF GetBits
  <2> QED BY <2>3, <2>4
<1>10. 8 \in T
  <2> HIDE DEF T
  <2> QED BY <1>8, <1>9, SetInduction
<1>11. ASSUME NEW i \in 1..8 PROVE GetBits(Into(c), field(i)) = value(i)
  BY <1>6, <1>10
<1>12. ASSUME NEW f \in DOMAIN Layout PROVE GetBits(Into(c), Layout[f]) = Reprs(c)[f]
  <2>1. PICK i \in 1..8 : f = Order[i]
    BY FieldsApart
  <2> QED BY <1>0, <1>11, <2>1 DEF value
<1> QED BY <1>12


-----------------------------------------------------------------------------
(* The fields that pack several values *)

\* A power of two, of an exponent that fits, is read from where it was set.
LEMMA PowerStored ==
    ASSUME NEW lo \in Nat, NEW w \in {4, 5}, NEW e \in 0..MaxExponent, e < PowerOf2[w], NEW word
    PROVE  GetPowerOf2(SetPowerOf2(word, lo .. lo + w - 1, PowerOf2[e]), lo .. lo + w - 1)
             = PowerOf2[e]
<1> DEFINE hi == lo + w - 1
           v == Word(Exponent(PowerOf2[e]))
<1>1. hi \in Nat /\ lo <= hi /\ hi - lo = w - 1
  OBVIOUS
<1>2. v \subseteq 0 .. w - 1 /\ PowerOf2[Number(v)] = PowerOf2[e]
  BY PowerTold
<1> HIDE DEF hi, v
<1>3. v \in SUBSET (0 .. hi - lo)
  BY <1>1, <1>2
<1>4. GetBits(SetBits(word, lo..hi, v), lo..hi) = v
  BY <1>1, <1>3, FieldStored
<1> QED BY <1>2, <1>4 DEF GetPowerOf2, SetPowerOf2, hi, v

Untouched(before, after, taken) ==
    \A bits : bits \cap taken = {} => after \cap bits = before \cap bits

\* What a power of two takes: its bits, and no other ones.
LEMMA PowerTakes ==
    ASSUME NEW lo \in Nat, NEW w \in {4, 5}, NEW e \in 0..MaxExponent, e < PowerOf2[w], NEW word
    PROVE  /\ Untouched(word, SetPowerOf2(word, lo .. lo + w - 1, PowerOf2[e]), lo .. lo + w - 1)
           /\ SetPowerOf2(word, lo .. lo + w - 1, PowerOf2[e]) \subseteq word \cup lo .. lo + w - 1
<1> DEFINE hi == lo + w - 1
           v == Word(Exponent(PowerOf2[e]))
<1>1. hi \in Nat /\ lo <= hi /\ hi - lo = w - 1
  OBVIOUS
<1>2. v \subseteq 0 .. w - 1
  BY PowerTold
<1> HIDE DEF hi, v
<1>3. v \in SUBSET (0 .. hi - lo)
  BY <1>1, <1>2
<1>4. Untouched(word, SetBits(word, lo..hi, v), lo..hi)
  BY <1>1, <1>3, FieldStored DEF Untouched
<1>5. SetBits(word, lo..hi, v) \subseteq word \cup lo..hi
  BY <1>1, <1>3, FieldStored
<1> QED BY <1>4, <1>5 DEF SetPowerOf2, hi, v

\* The powers of two a field is given are those of the exponents it has bits for.
LEMMA PowersFit ==
    /\ \A n \in PowersUpTo(MaxExponent) : \E e \in 0..MaxExponent : n = PowerOf2[e] /\ e < PowerOf2[5]
    /\ \A n \in PowersUpTo(15) : \E e \in 0..MaxExponent : n = PowerOf2[e] /\ e < PowerOf2[4]
<1>1. \A e \in 0..MaxExponent : e < PowerOf2[5]
  BY SomePowers, ConstConfigAssumption DEF ConstConfigAssumption
<1>2. \A e \in 0..15 : e < PowerOf2[4] /\ e \in 0..MaxExponent
  BY SomePowers, ConstConfigAssumption DEF ConstConfigAssumption
<1> QED BY <1>1, <1>2 DEF PowersUpTo

\* A u8 fits in eight bits, a variant's tag in two or three.
LEMMA SmallFit ==
    /\ \A n \in 0..255 : Word(n) \subseteq 0..7 /\ Number(Word(n)) = n
    /\ \A n \in 0..4 : Word(n) \subseteq 0..2 /\ Number(Word(n)) = n
    /\ \A n \in 0..2 : Word(n) \subseteq 0..1 /\ Number(Word(n)) = n
<1>1. 8 \in 0..16 /\ 8 - 1 = 7 /\ 3 \in 0..16 /\ 3 - 1 = 2 /\ 2 \in 0..16 /\ 2 - 1 = 1
  OBVIOUS
<1>2. ASSUME NEW n \in 0..255 PROVE Word(n) \subseteq 0..7 /\ Number(Word(n)) = n
  <2>1. n \in Nat /\ n < PowerOf2[8]
    BY SomePowers
  <2> QED BY <1>1, <2>1, WordTells
<1>3. ASSUME NEW n \in 0..4 PROVE Word(n) \subseteq 0..2 /\ Number(Word(n)) = n
  <2>1. n \in Nat /\ n < PowerOf2[3]
    BY SomePowers
  <2> QED BY <1>1, <2>1, WordTells
<1>4. ASSUME NEW n \in 0..2 PROVE Word(n) \subseteq 0..1 /\ Number(Word(n)) = n
  <2>1. n \in Nat /\ n < PowerOf2[2]
    BY SomePowers
  <2> QED BY <1>1, <2>1, WordTells
<1> QED BY <1>2, <1>3, <1>4

\* A retrying strategy is told by its eleven bits.
LEMMA StrategyTold ==
    ASSUME NEW s \in LegalStrategies(0..255)
    PROVE  StrategyAsRepr(s) \subseteq 0..10 /\ StrategyFromRepr(StrategyAsRepr(s)) = s
<1>0. \E i \in 1..5, n \in 0..255 : s = Retrying(Variants[i], n)
  <2> DEFINE Alone == {Retrying(Variants[i], 0) : i \in 1..2}
             Counted == {Retrying(Variants[i], n) : i \in 3..5, n \in 0..255}
             Told == \E i \in 1..5, n \in 0..255 : s = Retrying(Variants[i], n)
  <2>1. s \in Alone \cup Counted
    BY SMTT(30) DEF LegalStrategies
  <2>2. ASSUME s \in Alone PROVE Told
    <3>1. PICK i \in 1..2 : s = Retrying(Variants[i], 0)
      BY <2>2
    <3>2. i \in 1..5 /\ 0 \in 0..255
      OBVIOUS
    <3> QED BY <3>1, <3>2
  <2>3. ASSUME s \in Counted PROVE Told
    <3>1. PICK i \in 3..5, n \in 0..255 : s = Retrying(Variants[i], n)
      BY <2>3, SMTT(30)
    <3>2. i \in 1..5
      OBVIOUS
    <3> QED BY <3>1, <3>2, ZenonT(30)
  <2>4. Told
    <3> HIDE DEF Alone, Counted, Told
    <3> QED BY <2>1, <2>2, <2>3
  <2> QED BY <2>4
<1>1. PICK i \in 1..5, n \in 0..255 : s = Retrying(Variants[i], n)
  BY <1>0
<1>2. Tag(Variants, Variants[i]) = i - 1
  <2>1. /\ DOMAIN Variants = 1..5
        /\ \A j \in 1..5, k \in 1..5 : Variants[j] = Variants[k] => j = k
    BY DEF Variants
  <2> DEFINE j == CHOOSE k \in DOMAIN Variants : Variants[k] = Variants[i]
  <2>2. j \in DOMAIN Variants /\ Variants[j] = Variants[i]
    BY <2>1
  <2> HIDE DEF j
  <2>3. j = i
    BY <2>1, <2>2
  <2> QED BY <2>3 DEF Tag, j
<1>3. s.variant = Variants[i] /\ s.n = n
  BY <1>1 DEF Retrying
<1> DEFINE tag == Word(i - 1)
           repr == SetBits(tag, 3..10, Word(n))
<1>4. StrategyAsRepr(s) = repr
  BY <1>2, <1>3 DEF StrategyAsRepr
<1>5. i - 1 \in 0..4 /\ (i - 1) + 1 = i
  OBVIOUS
<1>6. tag \subseteq 0..2 /\ Number(tag) = i - 1 /\ Word(n) \subseteq 0..7 /\ Number(Word(n)) = n
  BY <1>5, SmallFit
<1> HIDE DEF tag
<1>7. /\ GetBits(repr, 3..10) = Word(n)
      /\ \A bits : bits \cap 3..10 = {} => repr \cap bits = tag \cap bits
      /\ repr \subseteq tag \cup 3..10
  <2> DEFINE lo == 3
             hi == 10
  <2>1. lo \in Nat /\ hi \in Nat /\ lo <= hi /\ 0 .. hi - lo = 0..7
    OBVIOUS
  <2> HIDE DEF lo, hi
  <2>2. Word(n) \in SUBSET (0 .. hi - lo)
    BY <1>6, <2>1
  <2> QED BY <2>1, <2>2, FieldStored DEF lo, hi
<1>8. repr \subseteq 0..10
  <2>1. 0..2 \subseteq 0..10 /\ 3..10 \subseteq 0..10
    OBVIOUS
  <2> HIDE DEF repr
  <2> QED BY <1>6, <1>7, <2>1
<1> HIDE DEF repr
<1>9. repr \cap 0..2 = tag
  <2>1. 0..2 \cap 3..10 = {}
    OBVIOUS
  <2> QED BY <1>6, <1>7, <2>1
<1>10. StrategyFromRepr(repr) = s
  BY <1>1, <1>5, <1>6, <1>7, <1>9 DEF StrategyFromRepr
<1> QED BY <1>4, <1>8, <1>10


\* A message form is told by its seven bits.
LEMMA FormTold ==
    ASSUME NEW i \in 1..3, NEW size \in PowersUpTo(MaxExponent),
           NEW f_, f_ = [variant |-> MessageForms[i], size |-> size]
    PROVE  FormAsRepr(f_) \subseteq 0..6 /\ FormFromRepr(FormAsRepr(f_)) = f_
<1>1. PICK e \in 0..MaxExponent : size = PowerOf2[e] /\ e < PowerOf2[5]
  BY PowersFit
<1>2. Tag(MessageForms, MessageForms[i]) = i - 1
  <2>1. /\ DOMAIN MessageForms = 1..3
        /\ \A j \in 1..3, k \in 1..3 : MessageForms[j] = MessageForms[k] => j = k
    BY DEF MessageForms
  <2> DEFINE j == CHOOSE k \in DOMAIN MessageForms : MessageForms[k] = MessageForms[i]
  <2>2. j \in DOMAIN MessageForms /\ MessageForms[j] = MessageForms[i]
    BY <2>1
  <2> HIDE DEF j
  <2>3. j = i
    BY <2>1, <2>2
  <2> QED BY <2>3 DEF Tag, j
<1> DEFINE tag == Word(i - 1)
           lo == 2
           w == 5
           bits_ == lo .. lo + w - 1
           repr == SetPowerOf2(tag, bits_, PowerOf2[e])
<1>3. bits_ = 2..6 /\ lo \in Nat /\ w \in {4, 5} /\ e < PowerOf2[w]
  BY <1>1
<1>4. FormAsRepr(f_) = repr
  BY <1>1, <1>2, <1>3 DEF FormAsRepr
<1>5. i - 1 \in 0..2 /\ (i - 1) + 1 = i
  OBVIOUS
<1>6. tag \subseteq 0..1 /\ Number(tag) = i - 1
  BY <1>5, SmallFit
<1> HIDE DEF tag, lo, w
<1>7. /\ GetPowerOf2(repr, bits_) = PowerOf2[e]
      /\ Untouched(tag, repr, bits_)
      /\ repr \subseteq tag \cup bits_
  <2>1. GetPowerOf2(repr, bits_) = PowerOf2[e]
    BY <1>3, PowerStored
  <2>2. Untouched(tag, repr, bits_)
    BY <1>3, PowerTakes
  <2>3. repr \subseteq tag \cup bits_
    BY <1>3, PowerTakes
  <2> HIDE DEF repr, bits_
  <2> QED BY <2>1, <2>2, <2>3
<1> HIDE DEF repr, bits_
<1>8. repr \subseteq 0..6 /\ repr \cap 0..1 = tag
  <2>1. 0..1 \cap bits_ = {} /\ 0..1 \subseteq 0..6 /\ bits_ \subseteq 0..6
    BY <1>3
  <2> QED BY <1>6, <1>7, <2>1 DEF Untouched
<1>9. FormFromRepr(repr) = f_
  BY <1>1, <1>3, <1>5, <1>6, <1>7, <1>8 DEF FormFromRepr
<1> QED BY <1>4, <1>8, <1>9

\* The socket options are told by their sixteen bits.
LEMMA SocketTold ==
    ASSUME NEW s \in LegalSocketOptions(0..255)
    PROVE  SocketAsRepr(s) \subseteq 0..15 /\ SocketFromRepr(SocketAsRepr(s)) = s
<1> DEFINE A == IF s.no_delay = <<>> THEN {} ELSE {0} \cup IF s.no_delay[1] THEN {1} ELSE {}
           B == IF s.linger_millis = <<>> THEN {}
                ELSE {2} \cup IF s.linger_millis[1] = 0 THEN {}
                              ELSE SetPowerOf2({}, 3..7, s.linger_millis[1])
           C == IF s.hops_to_live = <<>> THEN {} ELSE SetBits({}, 8..15, Word(s.hops_to_live[1]))
           repr == SocketAsRepr(s)
<1>1. repr = A \cup B \cup C
  BY DEF SocketAsRepr
<1>2. s \in [no_delay : Options(BOOLEAN), linger_millis : Options(PowersUpTo(MaxExponent)),
             hops_to_live : Options((0..255) \ {0})]
  BY DEF LegalSocketOptions
<1>3. /\ s.no_delay \in Options(BOOLEAN) /\ s.linger_millis \in Options(PowersUpTo(MaxExponent))
      /\ s.hops_to_live \in Options((0..255) \ {0})
      /\ s = [no_delay |-> s.no_delay, linger_millis |-> s.linger_millis,
              hops_to_live |-> s.hops_to_live]
  BY <1>2
<1>4. A \subseteq 0..1 /\ (IF 0 \in A THEN <<1 \in A>> ELSE <<>>) = s.no_delay
  <2>1. CASE s.no_delay = <<>>
    BY <2>1
  <2>2. CASE \E v \in BOOLEAN : s.no_delay = <<v>>
    <3>1. PICK v \in BOOLEAN : s.no_delay = <<v>>
      BY <2>2
    <3>2. s.no_delay # <<>> /\ s.no_delay[1] = v
      BY <3>1
    <3>3. CASE v = TRUE
      <4>1. A = {0, 1}
        BY <3>2, <3>3
      <4> HIDE DEF A
      <4>2. A \subseteq 0..1 /\ 0 \in A /\ (1 \in A) = TRUE
        BY <4>1
      <4> QED BY <3>1, <3>3, <4>2
    <3>4. CASE v = FALSE
      <4>1. A = {0}
        BY <3>2, <3>4
      <4> HIDE DEF A
      <4>2. A \subseteq 0..1 /\ 0 \in A /\ (1 \in A) = FALSE
        BY <4>1
      <4> QED BY <3>1, <3>4, <4>2
    <3> QED BY <3>3, <3>4
  <2> QED BY <1>3, <2>1, <2>2 DEF Options
<1>5. /\ B \subseteq 2..7
      /\ (IF 2 \in B THEN <<GetPowerOf2(B, 3..7)>> ELSE <<>>) = s.linger_millis
  <2>1. CASE s.linger_millis = <<>>
    BY <2>1
  <2>2. CASE \E n \in PowersUpTo(MaxExponent) : s.linger_millis = <<n>>
    <3>1. PICK n \in PowersUpTo(MaxExponent) : s.linger_millis = <<n>>
      BY <2>2
    <3>2. PICK e \in 0..MaxExponent : n = PowerOf2[e] /\ e < PowerOf2[5]
      BY PowersFit
    <3>3. s.linger_millis # <<>> /\ s.linger_millis[1] = n
      BY <3>1
    <3>4. n # 0
      <4>1. PowerOf2[e] \in Nat \ {0}
        BY PowerSteps
      <4> QED BY <3>2, <4>1
    <3> DEFINE lo == 3
               w == 5
               bits_ == lo .. lo + w - 1
               power == SetPowerOf2({}, bits_, PowerOf2[e])
    <3>5. bits_ = 3..7 /\ lo \in Nat /\ w \in {4, 5} /\ e < PowerOf2[w]
      BY <3>2
    <3>6. B = {2} \cup power
      BY <3>2, <3>3, <3>4, <3>5
    <3> HIDE DEF B, lo, w
    <3>7. GetPowerOf2(power, bits_) = PowerOf2[e] /\ power \subseteq bits_
      <4>1. power \subseteq {} \cup bits_
        BY <3>5, PowerTakes
      <4>2. GetPowerOf2(power, bits_) = PowerOf2[e]
        BY <3>5, PowerStored, ZenonT(30)
      <4> QED BY <4>1, <4>2
    <3> HIDE DEF power, bits_
    <3>8. B \cap 3..7 = power \cap 3..7 /\ B \subseteq 2..7 /\ 2 \in B
      <4>1. 2 \notin 3..7 /\ 3..7 \subseteq 2..7 /\ 2 \in 2..7
        OBVIOUS
      <4> QED BY <3>5, <3>6, <3>7, <4>1
    <3>9. GetPowerOf2(B, 3..7) = GetPowerOf2(power, 3..7)
      BY <3>8 DEF GetPowerOf2, GetBits
    <3> QED BY <3>1, <3>2, <3>5, <3>7, <3>8, <3>9
  <2> QED BY <1>3, <2>1, <2>2 DEF Options
<1>6. /\ C \subseteq 8..15
      /\ LET hops == Number(GetBits(C, 8..15))
         IN  (IF hops > 0 THEN <<hops>> ELSE <<>>) = s.hops_to_live
  <2> DEFINE lo == 8
             hi == 15
  <2>0. lo..hi = 8..15 /\ lo \in Nat /\ hi \in Nat /\ lo <= hi /\ 0 .. hi - lo = 0..7
    OBVIOUS
  <2>1. CASE s.hops_to_live = <<>>
    <3>1. C = {}
      BY <2>1
    <3>2. GetBits(C, 8..15) = Word(0)
      <4>1. GetBits(C, 8..15) = {}
        BY <3>1 DEF GetBits
      <4>2. Word(0) = {}
        <5>1. 0 \in Nat /\ 0 \in 0..16 /\ 0 < PowerOf2[0] /\ 0 .. 0 - 1 = {}
          BY SomePowers
        <5> QED BY <5>1, WordTells
      <4> QED BY <4>1, <4>2
    <3>3. Number(Word(0)) = 0
      BY SmallFit
    <3> QED BY <2>1, <3>1, <3>2, <3>3
  <2>2. CASE \E n \in (0..255) \ {0} : s.hops_to_live = <<n>>
    <3>1. PICK n \in (0..255) \ {0} : s.hops_to_live = <<n>>
      BY <2>2
    <3>2. s.hops_to_live # <<>> /\ s.hops_to_live[1] = n
      BY <3>1
    <3>3. C = SetBits({}, lo..hi, Word(n))
      BY <3>2
    <3>4. Word(n) \subseteq 0..7 /\ Number(Word(n)) = n
      BY SmallFit
    <3> HIDE DEF C, lo, hi
    <3>5. Word(n) \in SUBSET (0 .. hi - lo)
      BY <2>0, <3>4
    <3>6. GetBits(C, lo..hi) = Word(n) /\ C \subseteq {} \cup lo..hi
      BY <2>0, <3>3, <3>5, FieldStored
    <3>7. Number(GetBits(C, 8..15)) = n /\ C \subseteq 8..15
      BY <2>0, <3>4, <3>6
    <3>8. n > 0
      OBVIOUS
    <3> QED BY <3>1, <3>7, <3>8
  <2> QED BY <1>3, <2>1, <2>2 DEF Options
<1> HIDE DEF A, B, C, repr
<1>7. /\ (0 \in repr) = (0 \in A) /\ (1 \in repr) = (1 \in A) /\ (2 \in repr) = (2 \in B)
      /\ repr \cap 3..7 = B \cap 3..7 /\ repr \cap 8..15 = C \cap 8..15 /\ repr \subseteq 0..15
  <2>1. /\ 0..1 \cap 2..7 = {} /\ 0..1 \cap 3..7 = {} /\ 0..1 \cap 8..15 = {} /\ 2..7 \cap 8..15 = {}
        /\ 3..7 \subseteq 2..7 /\ 0..1 \subseteq 0..15 /\ 2..7 \subseteq 0..15 /\ 8..15 \subseteq 0..15
        /\ 0 \in 0..1 /\ 1 \in 0..1 /\ 2 \in 2..7
    OBVIOUS
  <2> QED BY <1>1, <1>4, <1>5, <1>6, <2>1
<1>8. GetPowerOf2(repr, 3..7) = GetPowerOf2(B, 3..7) /\ GetBits(repr, 8..15) = GetBits(C, 8..15)
  BY <1>7 DEF GetPowerOf2, GetBits
<1>9. SocketFromRepr(repr) = s
  BY <1>3, <1>4, <1>5, <1>6, <1>7, <1>8 DEF SocketFromRepr
<1> QED BY <1>7, <1>9 DEF repr


-----------------------------------------------------------------------------
(* The whole configuration *)

\* What a field of a power of two is given.
LEMMA PowerField ==
    /\ \A n \in PowersUpTo(MaxExponent) :
            Word(Exponent(n)) \subseteq 0..4 /\ PowerOf2[Number(Word(Exponent(n)))] = n
    /\ \A n \in PowersUpTo(15) :
            Word(Exponent(n)) \subseteq 0..3 /\ PowerOf2[Number(Word(Exponent(n)))] = n
<1>0. 5 \in {4, 5} /\ 5 - 1 = 4 /\ 4 \in {4, 5} /\ 4 - 1 = 3
  OBVIOUS
<1>1. ASSUME NEW n \in PowersUpTo(MaxExponent)
      PROVE  Word(Exponent(n)) \subseteq 0..4 /\ PowerOf2[Number(Word(Exponent(n)))] = n
  <2>1. PICK e \in 0..MaxExponent : n = PowerOf2[e] /\ e < PowerOf2[5]
    BY PowersFit
  <2> QED BY <1>0, <2>1, PowerTold
<1>2. ASSUME NEW n \in PowersUpTo(15)
      PROVE  Word(Exponent(n)) \subseteq 0..3 /\ PowerOf2[Number(Word(Exponent(n)))] = n
  <2>1. PICK e \in 0..MaxExponent : n = PowerOf2[e] /\ e < PowerOf2[4]
    BY PowersFit
  <2> QED BY <1>0, <2>1, PowerTold
<1> QED BY <1>1, <1>2

\* What a legal configuration is made of
LEMMA LegalFields ==
    ASSUME NEW c, IsLegal(c)
    PROVE  /\ c.sender_channel_size \in PowersUpTo(MaxExponent)
           /\ c.receiver_channel_size \in PowersUpTo(MaxExponent)
           /\ c.sender_max_msg_size \in PowersUpTo(MaxExponent)
           /\ c.receiver_max_msg_size \in PowersUpTo(MaxExponent)
           /\ c.flush_timeout_millis \in PowersUpTo(15)
           /\ c.retrying_strategy \in LegalStrategies(0..255)
           /\ c.socket_options \in LegalSocketOptions(0..255)
           /\ c.executor_instruments \in 0..255
           /\ c = [sender_channel_size   |-> c.sender_channel_size,
                   receiver_channel_size |-> c.receiver_channel_size,
                   sender_max_msg_size   |-> c.sender_max_msg_size,
                   receiver_max_msg_size |-> c.receiver_max_msg_size,
                   flush_timeout_millis  |-> c.flush_timeout_millis,
                   retrying_strategy     |-> c.retrying_strategy,
                   socket_options        |-> c.socket_options,
                   executor_instruments  |-> c.executor_instruments]
<1>1. DOMAIN Layout = {"sender_channel_size", "receiver_channel_size", "sender_max_msg_size",
                       "receiver_max_msg_size", "flush_timeout_millis", "retrying_strategy",
                       "socket_options", "executor_instruments"}
  BY DEF Layout
<1>2. \A f \in DOMAIN Layout : c[f] \in Legal(0..255)[f]
  BY DEF IsLegal
<1>3. /\ Legal(0..255)["sender_channel_size"] = PowersUpTo(MaxExponent)
      /\ Legal(0..255)["receiver_channel_size"] = PowersUpTo(MaxExponent)
      /\ Legal(0..255)["sender_max_msg_size"] = PowersUpTo(MaxExponent)
      /\ Legal(0..255)["receiver_max_msg_size"] = PowersUpTo(MaxExponent)
      /\ Legal(0..255)["flush_timeout_millis"] = PowersUpTo(15)
      /\ Legal(0..255)["retrying_strategy"] = LegalStrategies(0..255)
      /\ Legal(0..255)["socket_options"] = LegalSocketOptions(0..255)
      /\ Legal(0..255)["executor_instruments"] = 0..255
  BY DEF Legal
<1>4. c = [f \in DOMAIN Layout |-> c[f]]
  BY DEF IsLegal
<1>5. c = [sender_channel_size   |-> c.sender_channel_size,
           receiver_channel_size |-> c.receiver_channel_size,
           sender_max_msg_size   |-> c.sender_max_msg_size,
           receiver_max_msg_size |-> c.receiver_max_msg_size,
           flush_timeout_millis  |-> c.flush_timeout_millis,
           retrying_strategy     |-> c.retrying_strategy,
           socket_options        |-> c.socket_options,
           executor_instruments  |-> c.executor_instruments]
  BY <1>1, <1>4
<1>6. /\ c.sender_channel_size \in PowersUpTo(MaxExponent)
      /\ c.receiver_channel_size \in PowersUpTo(MaxExponent)
      /\ c.sender_max_msg_size \in PowersUpTo(MaxExponent)
      /\ c.receiver_max_msg_size \in PowersUpTo(MaxExponent)
      /\ c.flush_timeout_millis \in PowersUpTo(15)
      /\ c.retrying_strategy \in LegalStrategies(0..255)
      /\ c.socket_options \in LegalSocketOptions(0..255)
      /\ c.executor_instruments \in 0..255
  BY <1>1, <1>2, <1>3
<1> QED BY <1>5, <1>6

\* The bits of a legal configuration fit, and the configuration is read back from them.
THEOREM ConfigTold ==
    ASSUME NEW c, IsLegal(c)
    PROVE  /\ \A f \in DOMAIN Layout : Fits(Layout[f], Reprs(c)[f])
           /\ From(Into(c)) = c
<1>1. /\ c.sender_channel_size \in PowersUpTo(MaxExponent)
      /\ c.receiver_channel_size \in PowersUpTo(MaxExponent)
      /\ c.sender_max_msg_size \in PowersUpTo(MaxExponent)
      /\ c.receiver_max_msg_size \in PowersUpTo(MaxExponent)
      /\ c.flush_timeout_millis \in PowersUpTo(15)
      /\ c.retrying_strategy \in LegalStrategies(0..255)
      /\ c.socket_options \in LegalSocketOptions(0..255)
      /\ c.executor_instruments \in 0..255
  BY LegalFields
<1>2. /\ Reprs(c)["sender_channel_size"] = Word(Exponent(c.sender_channel_size))
      /\ Reprs(c)["receiver_channel_size"] = Word(Exponent(c.receiver_channel_size))
      /\ Reprs(c)["sender_max_msg_size"] = Word(Exponent(c.sender_max_msg_size))
      /\ Reprs(c)["receiver_max_msg_size"] = Word(Exponent(c.receiver_max_msg_size))
      /\ Reprs(c)["flush_timeout_millis"] = Word(Exponent(c.flush_timeout_millis))
      /\ Reprs(c)["retrying_strategy"] = StrategyAsRepr(c.retrying_strategy)
      /\ Reprs(c)["socket_options"] = SocketAsRepr(c.socket_options)
      /\ Reprs(c)["executor_instruments"] = Word(c.executor_instruments)
  BY DEF Reprs
<1>3. /\ Layout["sender_channel_size"] = 0..4 /\ Layout["receiver_channel_size"] = 5..9
      /\ Layout["sender_max_msg_size"] = 10..14 /\ Layout["receiver_max_msg_size"] = 15..19
      /\ Layout["flush_timeout_millis"] = 20..23 /\ Layout["retrying_strategy"] = 24..34
      /\ Layout["socket_options"] = 35..50 /\ Layout["executor_instruments"] = 51..59
  BY DEF Layout
<1>4. DOMAIN Layout = {"sender_channel_size", "receiver_channel_size", "sender_max_msg_size",
                       "receiver_max_msg_size", "flush_timeout_millis", "retrying_strategy",
                       "socket_options", "executor_instruments"}
  BY DEF Layout
<1>5. \A i \in 1..8 : Reprs(c)[Order[i]] \subseteq 0 .. High[i] - Low[i]
  <2>1. /\ Reprs(c)["sender_channel_size"] \subseteq 0..4
        /\ Reprs(c)["receiver_channel_size"] \subseteq 0..4
        /\ Reprs(c)["sender_max_msg_size"] \subseteq 0..4
        /\ Reprs(c)["receiver_max_msg_size"] \subseteq 0..4
        /\ Reprs(c)["flush_timeout_millis"] \subseteq 0..3
    BY <1>1, <1>2, PowerField
  <2>2. /\ Reprs(c)["retrying_strategy"] \subseteq 0..10
        /\ Reprs(c)["socket_options"] \subseteq 0..15
    BY <1>1, <1>2, StrategyTold, SocketTold
  <2>3. Reprs(c)["executor_instruments"] \subseteq 0..8
    <3>1. 0..7 \subseteq 0..8
      OBVIOUS
    <3> QED BY <1>1, <1>2, <3>1, SmallFit
  <2>4. /\ High[1] - Low[1] = 4 /\ High[2] - Low[2] = 4 /\ High[3] - Low[3] = 4
        /\ High[4] - Low[4] = 4 /\ High[5] - Low[5] = 3 /\ High[6] - Low[6] = 10
        /\ High[7] - Low[7] = 15 /\ High[8] - Low[8] = 8
    BY DEF Low, High
  <2>5. /\ Order[1] = "sender_channel_size" /\ Order[2] = "receiver_channel_size"
        /\ Order[3] = "sender_max_msg_size" /\ Order[4] = "receiver_max_msg_size"
        /\ Order[5] = "flush_timeout_millis" /\ Order[6] = "retrying_strategy"
        /\ Order[7] = "socket_options" /\ Order[8] = "executor_instruments"
    BY DEF Order
  <2>6. /\ Reprs(c)[Order[1]] \subseteq 0 .. High[1] - Low[1]
        /\ Reprs(c)[Order[2]] \subseteq 0 .. High[2] - Low[2]
        /\ Reprs(c)[Order[3]] \subseteq 0 .. High[3] - Low[3]
        /\ Reprs(c)[Order[4]] \subseteq 0 .. High[4] - Low[4]
        /\ Reprs(c)[Order[5]] \subseteq 0 .. High[5] - Low[5]
        /\ Reprs(c)[Order[6]] \subseteq 0 .. High[6] - Low[6]
        /\ Reprs(c)[Order[7]] \subseteq 0 .. High[7] - Low[7]
        /\ Reprs(c)[Order[8]] \subseteq 0 .. High[8] - Low[8]
    BY <2>1, <2>2, <2>3, <2>4, <2>5
  <2> QED BY <2>6
<1>6. ASSUME NEW f \in DOMAIN Layout PROVE Fits(Layout[f], Reprs(c)[f])
  <2>1. PICK i \in 1..8 : f = Order[i]
    BY FieldsApart
  <2>2. /\ Low[i] \in Nat /\ High[i] \in Nat /\ Low[i] <= High[i]
        /\ Layout[f] = Low[i] .. High[i] /\ Reprs(c)[f] \subseteq 0 .. High[i] - Low[i]
    BY <1>5, <2>1, FieldsApart
  <2> QED BY <2>2, Ends DEF Fits
<1>7. \A f \in DOMAIN Layout : GetBits(Into(c), Layout[f]) = Reprs(c)[f]
  BY <1>6, AllStored
<1>8. /\ GetPowerOf2(Into(c), Layout["sender_channel_size"]) = c.sender_channel_size
      /\ GetPowerOf2(Into(c), Layout["receiver_channel_size"]) = c.receiver_channel_size
      /\ GetPowerOf2(Into(c), Layout["sender_max_msg_size"]) = c.sender_max_msg_size
      /\ GetPowerOf2(Into(c), Layout["receiver_max_msg_size"]) = c.receiver_max_msg_size
      /\ GetPowerOf2(Into(c), Layout["flush_timeout_millis"]) = c.flush_timeout_millis
  <2>1. \A f \in DOMAIN Layout : GetPowerOf2(Into(c), Layout[f]) = PowerOf2[Number(Reprs(c)[f])]
    BY <1>7 DEF GetPowerOf2
  <2> QED BY <1>1, <1>2, <1>4, <2>1, PowerField
<1>9. StrategyFromRepr(GetBits(Into(c), Layout["retrying_strategy"])) = c.retrying_strategy
  BY <1>1, <1>2, <1>4, <1>7, StrategyTold
<1>10. SocketFromRepr(GetBits(Into(c), Layout["socket_options"])) = c.socket_options
  BY <1>1, <1>2, <1>4, <1>7, SocketTold
<1>11. Number(GetBits(Into(c), Layout["executor_instruments"])) = c.executor_instruments
  BY <1>1, <1>2, <1>4, <1>7, SmallFit
<1>12. From(Into(c)) = c
  BY <1>8, <1>9, <1>10, <1>11, LegalFields DEF From
<1> QED BY <1>6, <1>12

\* A byte of a configuration is a byte: what is legal for some of them is legal.
LEMMA LegalOctets ==
    ASSUME NEW octets \in SUBSET (0..255), NEW f \in DOMAIN Layout
    PROVE  Legal(octets)[f] \subseteq Legal(0..255)[f]
<1>1. f \in {"sender_channel_size", "receiver_channel_size", "sender_max_msg_size",
             "receiver_max_msg_size", "flush_timeout_millis", "retrying_strategy",
             "socket_options", "executor_instruments"}
  BY DEF Layout
<1>2. LegalStrategies(octets) \subseteq LegalStrategies(0..255)
  <2> DEFINE Alone == {Retrying(Variants[i], 0) : i \in 1..2}
             Counted(values) == {Retrying(Variants[i], n) : i \in 3..5, n \in values}
  <2>1. /\ LegalStrategies(octets) = Alone \cup Counted(octets)
        /\ LegalStrategies(0..255) = Alone \cup Counted(0..255)
    BY DEF LegalStrategies
  <2>2. Counted(octets) \subseteq Counted(0..255)
    OBVIOUS
  <2> HIDE DEF Alone, Counted
  <2> QED BY <2>1, <2>2
<1>3. LegalSocketOptions(octets) \subseteq LegalSocketOptions(0..255)
  <2>1. Options(octets \ {0}) \subseteq Options((0..255) \ {0})
    BY DEF Options
  <2> QED BY <2>1 DEF LegalSocketOptions
<1>4. /\ Legal(octets)["retrying_strategy"] = LegalStrategies(octets)
      /\ Legal(octets)["socket_options"] = LegalSocketOptions(octets)
      /\ Legal(octets)["executor_instruments"] = octets
      /\ Legal(0..255)["retrying_strategy"] = LegalStrategies(0..255)
      /\ Legal(0..255)["socket_options"] = LegalSocketOptions(0..255)
      /\ Legal(0..255)["executor_instruments"] = 0..255
  BY DEF Legal
<1>5. f \in {"sender_channel_size", "receiver_channel_size", "sender_max_msg_size",
             "receiver_max_msg_size", "flush_timeout_millis"}
        => Legal(octets)[f] = Legal(0..255)[f]
  BY DEF Legal
<1>6. CASE f = "retrying_strategy"
  BY <1>2, <1>4, <1>6
<1>7. CASE f = "socket_options"
  BY <1>3, <1>4, <1>7
<1>8. CASE f = "executor_instruments"
  <2>1. Legal(octets)[f] = octets /\ Legal(0..255)[f] = 0..255
    BY <1>4, <1>8
  <2> QED BY <2>1
<1> QED BY <1>1, <1>5, <1>6, <1>7, <1>8

=============================================================================
