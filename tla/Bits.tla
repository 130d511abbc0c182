-------------------------------- MODULE Bits --------------------------------
(***************************************************************************)
(* The operators &, | and ^ of C on numbers that are not negative, bit by   *)
(* bit from the lowest.                                                     *)
(***************************************************************************)
EXTENDS Integers

\* Table is a function on two bits.
BitByBit(a, b, Table) ==
    LET from[x \in Nat, y \in Nat] ==
            IF x = 0 /\ y = 0 THEN 0
            ELSE Table[x % 2, y % 2] + 2 * from[x \div 2, y \div 2]
    IN  from[a, b]

And(a, b) == BitByBit(a, b, [m, n \in 0 .. 1 |-> m * n])
Or(a, b) == BitByBit(a, b, [m, n \in 0 .. 1 |-> IF m + n = 0 THEN 0 ELSE 1])
Xor(a, b) == BitByBit(a, b, [m, n \in 0 .. 1 |-> IF m = n THEN 0 ELSE 1])
=============================================================================
