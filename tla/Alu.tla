-------------------------------- MODULE Alu --------------------------------
(***************************************************************************)
(* Words, condition flags and condition codes of the emulated core         *)
(* (src/core/cpu.c, the condition tests of executor.c), and what the host's *)
(* add, sub and logic instructions leave in EFLAGS, from which the code     *)
(* generator builds the same flags.  A word has any even number of values:  *)
(* Sign is the weight of its top bit, 2^31 in the code.                     *)
(***************************************************************************)
EXTENDS Integers

CONSTANT Sign
ASSUME SignAssumption == Sign \in Nat \ {0}

Modulus == 2 * Sign
Word == 0 .. Modulus - 1
Apsr == [n : BOOLEAN, z : BOOLEAN, c : BOOLEAN, v : BOOLEAN]

\* What u32 arithmetic keeps of a sum or a difference: at most one carry or
\* one borrow.
Wrap(x) == IF x >= Modulus THEN x - Modulus
           ELSE IF x < 0 THEN x + Modulus ELSE x
Inverted(x) == Modulus - 1 - x
Signed(x) == IF x >= Sign THEN x - Modulus ELSE x
Top(x) == x >= Sign
Bit(b) == IF b THEN 1 ELSE 0
-----------------------------------------------------------------------------
(* The interpreter's flags. *)

cpu_set_flags_nz(f, result) ==
    [f EXCEPT !.n = Top(result), !.z = (result = 0)]

\* ~(a ^ b) & (a ^ result) at the top bit: the operands agree and the result
\* does not.
cpu_set_flags_nzcv_add(a, b, result, carry) ==
    [n |-> Top(result),
     z |-> result = 0,
     c |-> a + b + carry >= Modulus,
     v |-> Top(a) = Top(b) /\ Top(a) # Top(result)]

\* (a ^ b) & (a ^ result) at the top bit.  Mutant: equal operands borrow.
FlagsSubBorrowing(a, b, result) ==
    [n |-> Top(result), z |-> result = 0, c |-> a > b,
     v |-> Top(a) # Top(b) /\ Top(a) # Top(result)]
cpu_set_flags_nzcv_sub(a, b, result) ==
    [n |-> Top(result),
     z |-> result = 0,
     c |-> a >= b,
     v |-> Top(a) # Top(b) /\ Top(a) # Top(result)]
-----------------------------------------------------------------------------
(* The host's flags after an instruction, and the sequences that turn them  *)
(* into APSR.                                                               *)

Zero(r) == r = 0
Carries(a, b) == a + b >= Modulus
Borrows(a, b) == a < b
Overflows(x) == x \notin -Sign .. Sign - 1

HostAdd(a, b) ==
    LET r == Wrap(a + b)
    IN  [sf |-> Top(r), zf |-> Zero(r), cf |-> Carries(a, b),
         of |-> Overflows(Signed(a) + Signed(b))]

HostSub(a, b) ==
    LET r == Wrap(a - b)
    IN  [sf |-> Top(r), zf |-> Zero(r), cf |-> Borrows(a, b),
         of |-> Overflows(Signed(a) - Signed(b))]

HostLogic(r) == [sf |-> Top(r), zf |-> Zero(r), cf |-> FALSE, of |-> FALSE]

\* ARM's carry after a subtraction is "no borrow": the host's, inverted.
\* Mutant: the host's.
CarryOfHost(cf) == cf
Cmc(cf) == ~cf
FlagsNzcv(h, is_sub) ==
    [n |-> h.sf, z |-> h.zf, c |-> IF is_sub THEN Cmc(h.cf) ELSE h.cf, v |-> h.of]
FlagsNz(f, h) == [f EXCEPT !.n = h.sf, !.z = h.zf]
-----------------------------------------------------------------------------
(* Condition codes: the function B<cond> uses, the copy inlined for an IT   *)
(* block and for B<cond>.W.                                                 *)

cond_pass(f, cond) ==
    CASE cond = 0  -> f.z
      [] cond = 1  -> ~f.z
      [] cond = 2  -> f.c
      [] cond = 3  -> ~f.c
      [] cond = 4  -> f.n
      [] cond = 5  -> ~f.n
      [] cond = 6  -> f.v
      [] cond = 7  -> ~f.v
      [] cond = 8  -> f.c /\ ~f.z
      [] cond = 9  -> ~f.c \/ f.z
      [] cond = 10 -> f.n = f.v
      [] cond = 11 -> f.n # f.v
      [] cond = 12 -> ~f.z /\ f.n = f.v
      [] cond = 13 -> f.z \/ f.n # f.v
      [] OTHER -> TRUE

it_pass(f, cond) == cond > 13 \/ cond_pass(f, cond)
wide_pass(f, cond) == cond <= 13 /\ cond_pass(f, cond)
-----------------------------------------------------------------------------
(* ARM's definition, for reference: the sum of two words and a carry, its   *)
(* carry out, and whether the signed sum is out of range.                   *)

AddWithCarry(a, b, carry) ==
    LET r == Wrap(a + b + carry)
    IN  [n |-> Top(r), z |-> r = 0, c |-> r # a + b + carry,
         v |-> Signed(r) # Signed(a) + Signed(b) + carry]
=============================================================================
