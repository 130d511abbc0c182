----------------------------- MODULE AluProofs -----------------------------
(***************************************************************************)
(* The flags of the interpreter are those of the ARM definition, and the    *)
(* native code's are the interpreter's, for words of any size.              *)
(***************************************************************************)
EXTENDS Alu, TLAPS

(* Wrap keeps sums and differences of words, with a carry, in the word. *)
LEMMA WrapInWord ==
    ASSUME NEW x \in Int, -Modulus <= x, x < 2 * Modulus
    PROVE  Wrap(x) \in Word
  BY SignAssumption DEF Wrap, Word, Modulus

(* cpu_set_flags_nzcv_add computes N, Z, carry and signed overflow of the   *)
(* sum with carry, whatever the size of a word.                             *)
THEOREM AddFlagsExact ==
    ASSUME NEW a \in Word, NEW b \in Word, NEW carry \in 0 .. 1
    PROVE  cpu_set_flags_nzcv_add(a, b, Wrap(a + b + carry), carry)
             = AddWithCarry(a, b, carry)
<1> DEFINE r == Wrap(a + b + carry)
<1>1. a + b + carry >= Modulus <=> r # a + b + carry
  BY SignAssumption DEF Wrap, Word, Modulus
<1>2. (Top(a) = Top(b) /\ Top(a) # Top(r))
        <=> Signed(r) # Signed(a) + Signed(b) + carry
  BY SignAssumption DEF Wrap, Word, Modulus, Top, Signed
<1> QED
  BY <1>1, <1>2 DEF cpu_set_flags_nzcv_add, AddWithCarry

(* cpu_set_flags_nzcv_sub computes the flags of a + ~b + 1: its carry, a >= b, *)
(* is the carry of that sum, and its overflow that of the difference.         *)
THEOREM SubFlagsExact ==
    ASSUME NEW a \in Word, NEW b \in Word
    PROVE  cpu_set_flags_nzcv_sub(a, b, Wrap(a - b))
             = AddWithCarry(a, Inverted(b), 1)
<1> DEFINE r == Wrap(a - b)
<1>1. Inverted(b) \in Word /\ r = Wrap(a + Inverted(b) + 1)
  BY SignAssumption DEF Wrap, Word, Modulus, Inverted
<1>2. a >= b <=> r # a + Inverted(b) + 1
  BY SignAssumption DEF Wrap, Word, Modulus, Inverted
<1>3. (Top(a) # Top(b) /\ Top(a) # Top(r))
        <=> Signed(r) # Signed(a) + Signed(Inverted(b)) + 1
  BY SignAssumption DEF Wrap, Word, Modulus, Inverted, Top, Signed
<1> QED
  BY <1>1, <1>2, <1>3 DEF cpu_set_flags_nzcv_sub, AddWithCarry

(* What emit_flags_nzcv reads from EFLAGS after an addition is what the      *)
(* interpreter computes from the operands.                                  *)
THEOREM NativeAddFlags ==
    ASSUME NEW a \in Word, NEW b \in Word
    PROVE  FlagsNzcv(HostAdd(a, b), FALSE)
             = cpu_set_flags_nzcv_add(a, b, Wrap(a + b), 0)
<1> DEFINE r == Wrap(a + b)
<1>1. (Top(a) = Top(b) /\ Top(a) # Top(r)) = Overflows(Signed(a) + Signed(b))
  BY SignAssumption DEF Wrap, Word, Modulus, Top, Signed, Overflows
<1>2. (a + b + 0 >= Modulus) = Carries(a, b)
  BY SignAssumption DEF Word, Modulus, Carries
<1>3. cpu_set_flags_nzcv_add(a, b, r, 0)
        = [n |-> Top(r), z |-> Zero(r), c |-> Carries(a, b),
           v |-> Overflows(Signed(a) + Signed(b))]
  BY <1>1, <1>2, Zenon DEF cpu_set_flags_nzcv_add, Zero
<1>4. FlagsNzcv(HostAdd(a, b), FALSE)
        = [n |-> Top(r), z |-> Zero(r), c |-> Carries(a, b),
           v |-> Overflows(Signed(a) + Signed(b))]
  <2>1. ASSUME NEW sf, NEW zf, NEW cf, NEW of
        PROVE  FlagsNzcv([sf |-> sf, zf |-> zf, cf |-> cf, of |-> of], FALSE)
                 = [n |-> sf, z |-> zf, c |-> cf, v |-> of]
    BY DEF FlagsNzcv
  <2>2. HostAdd(a, b)
          = [sf |-> Top(r), zf |-> Zero(r), cf |-> Carries(a, b),
             of |-> Overflows(Signed(a) + Signed(b))]
    BY DEF HostAdd
  <2>3. FlagsNzcv([sf |-> Top(r), zf |-> Zero(r), cf |-> Carries(a, b),
                   of |-> Overflows(Signed(a) + Signed(b))], FALSE)
          = [n |-> Top(r), z |-> Zero(r), c |-> Carries(a, b),
             v |-> Overflows(Signed(a) + Signed(b))]
    BY <2>1, Zenon
  <2> QED
    BY <2>2, <2>3, Zenon
<1> QED
  BY <1>3, <1>4

(* After a subtraction the host's carry is a borrow; inverted, it is the     *)
(* interpreter's.                                                           *)
THEOREM NativeSubFlags ==
    ASSUME NEW a \in Word, NEW b \in Word
    PROVE  FlagsNzcv(HostSub(a, b), TRUE)
             = cpu_set_flags_nzcv_sub(a, b, Wrap(a - b))
<1> DEFINE r == Wrap(a - b)
<1>1. (Top(a) # Top(b) /\ Top(a) # Top(r)) = Overflows(Signed(a) - Signed(b))
  BY SignAssumption DEF Wrap, Word, Modulus, Top, Signed, Overflows
<1>2. (a >= b) = Cmc(Borrows(a, b))
  BY SignAssumption DEF Word, Modulus, Borrows, Cmc
<1>3. cpu_set_flags_nzcv_sub(a, b, r)
        = [n |-> Top(r), z |-> Zero(r), c |-> Cmc(Borrows(a, b)),
           v |-> Overflows(Signed(a) - Signed(b))]
  BY <1>1, <1>2, Zenon DEF cpu_set_flags_nzcv_sub, Zero
<1>4. FlagsNzcv(HostSub(a, b), TRUE)
        = [n |-> Top(r), z |-> Zero(r), c |-> Cmc(Borrows(a, b)),
           v |-> Overflows(Signed(a) - Signed(b))]
  <2>1. ASSUME NEW sf, NEW zf, NEW cf, NEW of
        PROVE  FlagsNzcv([sf |-> sf, zf |-> zf, cf |-> cf, of |-> of], TRUE)
                 = [n |-> sf, z |-> zf, c |-> Cmc(cf), v |-> of]
    BY DEF FlagsNzcv
  <2>2. HostSub(a, b)
          = [sf |-> Top(r), zf |-> Zero(r), cf |-> Borrows(a, b),
             of |-> Overflows(Signed(a) - Signed(b))]
    BY DEF HostSub
  <2>3. FlagsNzcv([sf |-> Top(r), zf |-> Zero(r), cf |-> Borrows(a, b),
                   of |-> Overflows(Signed(a) - Signed(b))], TRUE)
          = [n |-> Top(r), z |-> Zero(r), c |-> Cmc(Borrows(a, b)),
             v |-> Overflows(Signed(a) - Signed(b))]
    BY <2>1, Zenon
  <2> QED
    BY <2>2, <2>3, Zenon
<1> QED
  BY <1>3, <1>4

(* The test inlined for IT blocks is cond_pass, and B<cond>.W agrees with it *)
(* on every condition an instruction can carry.                             *)
THEOREM ConditionCopiesAgree ==
    ASSUME NEW f \in Apsr, NEW cond \in 0 .. 15
    PROVE  /\ it_pass(f, cond) <=> cond_pass(f, cond)
           /\ cond <= 13 => (wide_pass(f, cond) <=> cond_pass(f, cond))
<1>1. CASE cond <= 13
  <2>1. ~(cond > 13)
    BY <1>1
  <2> QED
    BY <1>1, <2>1, Zenon DEF it_pass, wide_pass
<1>2. CASE cond > 13
  <2>1. cond_pass(f, cond)
    BY <1>2, SMT DEF cond_pass
  <2>2. ~(cond <= 13)
    BY <1>2
  <2> QED
    BY <1>2, <2>1, <2>2, Zenon DEF it_pass
<1>3. cond <= 13 \/ cond > 13
  OBVIOUS
<1> QED
  BY <1>1, <1>2, <1>3
=============================================================================
