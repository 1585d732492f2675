------------------------------ MODULE Numerals ------------------------------
(***************************************************************************)
(* Numbers and their digits, as shifts read and write them: bits of the    *)
(* configuration (config.rs), bytes of a size (serialized_binary_dialog.rs *)
(* and the standard library's to_le_bytes()).                              *)
(***************************************************************************)
EXTENDS Integers, Sequences

\* What is left of n after each number of shifts to the right, by one digit
Shifts(n, base) ==
    LET rest[i \in Nat] == IF i = 0 THEN n ELSE rest[i - 1] \div base
    IN  rest

\* The len lowest digits of n, the lowest one first
Digits(n, base, len) == [i \in 1..len |-> Shifts(n, base)[i - 1] % base]

\* The number that has these digits
Numeral(digits, base) ==
    LET len == Len(digits)
        value[i \in 0..len] ==
            IF i = 0 THEN 0 ELSE digits[len - i + 1] + base * value[i - 1]
    IN  value[len]

\* How many digits n has: how many shifts make it 0
DigitsOf(n, base) ==
    CHOOSE k \in 0..n : Shifts(n, base)[k] = 0 /\ \A j \in 0 .. k - 1 : Shifts(n, base)[j] # 0

\* 1, shifted to the left by each number of bits
PowerOf2[e \in Nat] == IF e = 0 THEN 1 ELSE 2 * PowerOf2[e - 1]
=============================================================================
