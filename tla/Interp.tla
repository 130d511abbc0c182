------------------------------- MODULE Interp -------------------------------
(***************************************************************************)
(* execute of src/core/executor.c as a function: from the registers, flags, *)
(* IT state and memory before an instruction to those after it, with the    *)
(* early returns of the code.  Words have Width bits and a memory byte a    *)
(* quarter of that, so that a word is four bytes as in the code.            *)
(*                                                                          *)
(* A machine is [r, f, it, halted, m]: cpu_t's registers, APSR, ITSTATE and *)
(* halted flag, and the bytes of the flat regions.  Instructions that enter *)
(* or leave an exception, or touch masks and stack banks, are in ExcCore.   *)
(***************************************************************************)
EXTENDS Alu, Bits, SequencesExt

CONSTANTS Width,     \* bits of a word: 32 in the code
          Regions    \* the flat regions of the bus: [base, size, writable]

ASSUME WidthAssumption == /\ Width \in Nat /\ Width % 4 = 0
                          /\ 2 * Sign = 2 ^ Width

Sp == 13
Lr == 14
Pc == 15

\* A decoded instruction.
insn_t == [op : STRING, rd : 0 .. 15, rn : 0 .. 15, rm : 0 .. 15, rs : 0 .. 15, imm : Int,
           cond : 0 .. 15, size : {2, 4}, list : SUBSET (0 .. 15), set_flags : BOOLEAN,
           add : BOOLEAN, index : BOOLEAN, writeback : BOOLEAN, shift : STRING,
           shift_n : Nat, width : Nat, pc : Int]
Byte == 2 ^ (Width \div 4)
Half == 2 ^ (Width \div 2)
Mod(x) == x % Modulus
Aligned(a) == a - (a % 4)
-----------------------------------------------------------------------------
(* The bus: the first region that holds the address, which must hold the    *)
(* whole access.                                                            *)

Within(reg, a) == a >= reg.base /\ a < reg.base + reg.size
find_region(a) == SelectInSeq(Regions, LAMBDA reg : Within(reg, a))

\* Mutant of Accessible: only the first byte has to be in the region.
AccessibleByStart(a, n, write) ==
    \E k \in {find_region(a)} : k # 0 /\ (write => Regions[k].writable)
Accessible(a, n, write) ==
    \E k \in {find_region(a)} :
        /\ k # 0
        /\ write => Regions[k].writable
        /\ a - Regions[k].base + n <= Regions[k].size

\* Little-endian, as memcpy on the host.
ReadBytes(m, a, n) ==
    LET at[k \in 0 .. n] == IF k = n THEN 0 ELSE m[a + k] + Byte * at[k + 1]
    IN  at[0]
WriteBytes(m, a, n, v) ==
    [b \in DOMAIN m |-> IF b \in a .. a + n - 1
                        THEN (v \div Byte ^ (b - a)) % Byte ELSE m[b]]

bus_read(m, a, n) == IF Accessible(a, n, FALSE)
                     THEN [ok |-> TRUE, v |-> ReadBytes(m, a, n)]
                     ELSE [ok |-> FALSE, v |-> 0]
bus_write(m, a, n, v) == IF Accessible(a, n, TRUE)
                         THEN [ok |-> TRUE, m |-> WriteBytes(m, a, n, v)]
                         ELSE [ok |-> FALSE, m |-> m]
-----------------------------------------------------------------------------
(* Shifts.  A shift by a register takes its lowest byte, which is a whole   *)
(* word here.                                                               *)

Shifted(kind, v, n) ==
    CASE kind = "lsl" -> IF n >= Width THEN 0 ELSE Mod(v * 2 ^ n)
      [] kind = "lsr" -> IF n >= Width THEN 0 ELSE v \div 2 ^ n
      [] kind = "asr" -> IF n >= Width THEN (IF Top(v) THEN Modulus - 1 ELSE 0)
                         ELSE Mod(Signed(v) \div 2 ^ n)
      [] kind = "ror" -> LET k == n % Width
                         IN  (v \div 2 ^ k) + Mod(v * 2 ^ (Width - k))

\* The immediate of LSRS and ASRS means 32 when it is zero.  Mutant: zero.
ImmShiftAsIs(kind, n) == n
ImmShift(kind, n) == IF kind # "lsl" /\ n = 0 THEN Width ELSE n
RegShift(kind, n) == IF kind = "ror" THEN n % Width ELSE n
-----------------------------------------------------------------------------
(* Data processing: the operation, where its second operand comes from, and *)
(* whether it sets the flags: always, or when the S bit says so.            *)

Logical(fn, a, b) ==
    CASE fn = "mov" -> b
      [] fn = "mvn" -> Inverted(b)
      [] fn \in {"and", "tst"} -> And(a, b)
      [] fn = "bic" -> And(a, Inverted(b))
      [] fn = "orr" -> Or(a, b)
      [] fn = "orn" -> Or(a, Inverted(b))
      [] fn \in {"eor", "teq"} -> Xor(a, b)
      [] fn = "mul" -> Mod(a * b)

Logic(r, f) == [r |-> r, f |-> cpu_set_flags_nz(f, r)]
Sum(x, y, k) == LET r == Wrap(x + y + k)
                IN  [r |-> r, f |-> cpu_set_flags_nzcv_add(x, y, r, k)]
Diff(x, y) == LET r == Wrap(x - y)
              IN  [r |-> r, f |-> cpu_set_flags_nzcv_sub(x, y, r)]

AluResult(fn, a, b, f) ==
    CASE fn \in {"add", "cmn"} -> Sum(a, b, 0)
      [] fn \in {"adc", "sbc"} -> Sum(a, IF fn = "sbc" THEN Inverted(b) ELSE b, Bit(f.c))
      [] fn \in {"sub", "cmp"} -> Diff(a, b)
      [] fn = "rsb" -> Diff(b, a)
      [] OTHER -> Logic(Logical(fn, a, b), f)

Row(op, fn, second, flags) ==
    op :> [fn |-> fn, second |-> second, flags |-> flags]

\* The 16-bit forms; "rm_imm" and "rd_rm" are shifts.
NarrowSums ==
       Row("MOV_IMM", "mov", "imm", "always") @@ Row("ADD_REG", "add", "reg", "always")
    @@ Row("SUB_REG", "sub", "reg", "always") @@ Row("ADD_IMM3", "add", "imm", "always")
    @@ Row("ADD_IMM8", "add", "imm", "always") @@ Row("SUB_IMM3", "sub", "imm", "always")
    @@ Row("SUB_IMM8", "sub", "imm", "always") @@ Row("CMP_IMM", "cmp", "imm", "always")
    @@ Row("CMP_REG", "cmp", "reg", "always")
NarrowOthers ==
       Row("AND_REG", "and", "reg", "always") @@ Row("EOR_REG", "eor", "reg", "always")
    @@ Row("MUL", "mul", "reg", "always") @@ Row("ORR_REG", "orr", "reg", "always")
    @@ Row("BIC_REG", "bic", "reg", "always") @@ Row("MVN_REG", "mvn", "reg", "always")
    @@ Row("TST_REG", "tst", "reg", "always") @@ Row("CMN_REG", "cmn", "reg", "always")
    @@ Row("RSB_IMM", "rsb", "zero", "always") @@ Row("ADC_REG", "adc", "reg", "always")
    @@ Row("SBC_REG", "sbc", "reg", "always") @@ Row("LSL_IMM", "mov", "rm_imm", "always")
    @@ Row("LSR_IMM", "mov", "rm_imm", "always") @@ Row("ASR_IMM", "mov", "rm_imm", "always")
    @@ Row("LSL_REG", "mov", "rd_rm", "always") @@ Row("LSR_REG", "mov", "rd_rm", "always")
    @@ Row("ASR_REG", "mov", "rd_rm", "always") @@ Row("ROR_REG", "mov", "rd_rm", "always")

\* The 32-bit forms: modified and plain immediates, a shifted register, a shift.
WideImmediate ==
       Row("T32_AND_IMM", "and", "imm", "s") @@ Row("T32_BIC_IMM", "bic", "imm", "s")
    @@ Row("T32_ORR_IMM", "orr", "imm", "s") @@ Row("T32_ORN_IMM", "orn", "imm", "s")
    @@ Row("T32_EOR_IMM", "eor", "imm", "s") @@ Row("T32_TEQ_IMM", "teq", "imm", "always")
    @@ Row("T32_TST_IMM", "tst", "imm", "always") @@ Row("T32_ADD_IMM", "add", "imm", "s")
    @@ Row("T32_ADC_IMM", "adc", "imm", "s") @@ Row("T32_SBC_IMM", "sbc", "imm", "s")
    @@ Row("T32_SUB_IMM", "sub", "imm", "s") @@ Row("T32_RSB_IMM", "rsb", "imm", "s")
    @@ Row("T32_CMN_IMM", "cmn", "imm", "always") @@ Row("T32_CMP_IMM", "cmp", "imm", "always")
    @@ Row("T32_MOV_IMM", "mov", "imm", "s") @@ Row("T32_MVN_IMM", "mvn", "imm", "s")
    @@ Row("T32_ADDW", "add", "imm", "never") @@ Row("T32_SUBW", "sub", "imm", "never")
    @@ Row("T32_MOVW", "mov", "imm", "never")
WideRegister ==
       Row("T32_AND_REG", "and", "shift", "s") @@ Row("T32_BIC_REG", "bic", "shift", "s")
    @@ Row("T32_ORR_REG", "orr", "shift", "s") @@ Row("T32_ORN_REG", "orn", "shift", "s")
    @@ Row("T32_EOR_REG", "eor", "shift", "s") @@ Row("T32_TEQ_REG", "teq", "shift", "always")
    @@ Row("T32_TST_REG", "tst", "shift", "always") @@ Row("T32_MOV_REG", "mov", "shift", "s")
    @@ Row("T32_MVN_REG", "mvn", "shift", "s") @@ Row("T32_ADD_REG", "add", "shift", "s")
    @@ Row("T32_ADC_REG", "adc", "shift", "s") @@ Row("T32_SBC_REG", "sbc", "shift", "s")
    @@ Row("T32_SUB_REG", "sub", "shift", "s") @@ Row("T32_RSB_REG", "rsb", "shift", "s")
    @@ Row("T32_CMN_REG", "cmn", "shift", "always") @@ Row("T32_CMP_REG", "cmp", "shift", "always")
WideShift ==
       Row("T32_LSL_R", "mov", "rn_rm", "s") @@ Row("T32_LSR_R", "mov", "rn_rm", "s")
    @@ Row("T32_ASR_R", "mov", "rn_rm", "s") @@ Row("T32_ROR_R", "mov", "rn_rm", "s")

DataOps == NarrowSums @@ NarrowOthers @@ WideImmediate @@ WideRegister @@ WideShift
             @@ Row("T32_MUL", "mul", "reg", "never")

Comparisons == {"cmp", "cmn", "tst", "teq"}

Shiftings == {"shift", "rm_imm", "rd_rm", "rn_rm"}
ShiftValue(s, i, second) ==
    s.r[CASE second = "rd_rm" -> i.rd [] second = "rn_rm" -> i.rn [] OTHER -> i.rm]
ShiftAmount(s, i, second) ==
    CASE second = "shift" -> i.shift_n
      [] second = "rm_imm" -> ImmShift(i.shift, i.imm)
      [] OTHER -> RegShift(i.shift, s.r[i.rm])

SecondOperand(s, i, second) ==
    CASE second = "imm" -> i.imm
      [] second = "zero" -> 0
      [] second = "reg" -> s.r[i.rm]
      [] second \in Shiftings ->
            Shifted(i.shift, ShiftValue(s, i, second), ShiftAmount(s, i, second))

\* "Always" depends on nothing: these forms have no S bit.
SetsFlags(i, flags) == flags = "always" \/ (flags = "s" /\ i.set_flags)

Written(s, i, row, a) ==
    [s EXCEPT !.f = IF SetsFlags(i, row.flags) THEN a.f ELSE @,
              !.r[i.rd] = IF row.fn \in Comparisons THEN @ ELSE a.r]
Processed(s, i, row) ==
    Written(s, i, row, AluResult(row.fn, s.r[i.rn], SecondOperand(s, i, row.second), s.f))
-----------------------------------------------------------------------------
(* The forms that read PC as the instruction's address plus four, multiply, *)
(* divide, extend and move bit fields: what they leave in the registers.    *)

Read4(s, n) == IF n = Pc THEN s.r[Pc] + 4 ELSE s.r[n]
Set(s, n, v) == [s EXCEPT !.r[n] = Mod(v)]
SetPair(s, lo, hi, v) ==
    [s EXCEPT !.r = [@ EXCEPT ![lo] = v % Modulus, ![hi] = (v \div Modulus) % Modulus]]

\* The low bits of v, as a signed number of values up to n.
Extended(v, n) == LET low == v % n IN IF 2 * low >= n THEN low - n ELSE low
Ones(width) == IF width < 0 \/ width >= Width THEN Modulus - 1 ELSE 2 ^ width - 1
\* Mutant of FieldWidth: the most significant bit is not in the field.
FieldWidthShort(i) == IF i.op \in {"T32_BFI", "T32_BFC"} THEN i.width - i.imm ELSE i.width + 1
FieldWidth(i) == IF i.op \in {"T32_BFI", "T32_BFC"} THEN i.width - i.imm + 1
                 ELSE i.width + 1
Field(v, lsb, width) == And(v \div 2 ^ lsb, Ones(width))
Cleared(v, lsb, width) == And(v, Inverted(Mod(Ones(width) * 2 ^ lsb)))

\* Division of the code's i32: towards zero.  Mutant: downwards.
Downwards(a, b) == IF b > 0 THEN a \div b ELSE (-a) \div (-b)
Magnitude(a) == IF a < 0 THEN -a ELSE a
Toward0(a, b) == LET q == Magnitude(a) \div Magnitude(b)
                 IN  IF (a < 0) = (b < 0) THEN q ELSE -q
Quotient(a, b) ==
    IF b = 0 THEN 0
    ELSE IF Signed(b) = -1 /\ a = Sign THEN Sign
    ELSE Mod(Toward0(Signed(a), Signed(b)))

LeadingZeros(v) ==
    LET shift[x \in Word] == IF Top(x) THEN 0 ELSE 1 + shift[Mod(2 * x)]
    IN  IF v = 0 THEN Width ELSE shift[v]

\* The groups of k bits change places, pair by pair.
SwapGroups(v, k) ==
    LET low == FoldLeft(LAMBDA x, j : x + (2 ^ k - 1) * 2 ^ (2 * k * (j - 1)), 0,
                        [j \in 1 .. Width \div (2 * k) |-> j])
    IN  And(v \div 2 ^ k, low) + Mod(And(v, low) * 2 ^ k)
GroupSizes == SelectSeq(<<1, 2, 4, 8, 16>>, LAMBDA k : 2 * k <= Width)
Reversed(v) == FoldLeft(SwapGroups, v, GroupSizes)
BytesSwapped(v, n) ==     \* in each group of n bytes
    FoldLeft(LAMBDA x, b : x + ((v \div Byte ^ (b - 1)) % Byte)
                               * Byte ^ (n * ((b - 1) \div n) + n - 1 - ((b - 1) % n)),
             0, <<1, 2, 3, 4>>)

\* Addresses, extensions, reversals and the upper half of a register.
Moved(s, i) ==
    LET m == s.r[i.rm]
        here == Aligned(s.r[Pc] + 4)
    IN
    CASE i.op \in {"ADR", "T32_ADR_T3"} -> Set(s, i.rd, here + i.imm)
      [] i.op = "T32_ADR_T2" -> Set(s, i.rd, here - i.imm)
      [] i.op = "ADD_SP_IMM" -> Set(s, i.rd, s.r[Sp] + i.imm)
      [] i.op = "ADD_SP_SP" -> Set(s, Sp, s.r[Sp] + i.imm)
      [] i.op = "SUB_SP_SP" -> Set(s, Sp, s.r[Sp] - i.imm)
      [] i.op = "SXTH" -> Set(s, i.rd, Extended(m, Half))
      [] i.op = "SXTB" -> Set(s, i.rd, Extended(m, Byte))
      [] i.op = "UXTH" -> Set(s, i.rd, m % Half)
      [] i.op = "UXTB" -> Set(s, i.rd, m % Byte)
      [] i.op = "REV" -> Set(s, i.rd, BytesSwapped(m, 4))
      [] i.op = "REV16" -> Set(s, i.rd, BytesSwapped(m, 2))
      [] i.op = "REVSH" -> Set(s, i.rd, Extended(BytesSwapped(m, 2), Half))
      [] i.op = "T32_MOVT" -> Set(s, i.rd, (s.r[i.rd] % Half) + (i.imm % Half) * Half)
Moves == {"ADR", "T32_ADR_T3", "T32_ADR_T2", "ADD_SP_IMM", "ADD_SP_SP", "SUB_SP_SP",
          "SXTH", "SXTB", "UXTH", "UXTB", "REV", "REV16", "REVSH", "T32_MOVT"}

\* Products with an addend, in one register or two, and quotients.
Multiplied(s, i) ==
    LET n == s.r[i.rn]
        m == s.r[i.rm]
        both == s.r[i.rs] * Modulus + s.r[i.rd]
    IN
    CASE i.op = "T32_MLA" -> Set(s, i.rd, n * m + s.r[i.rs])
      [] i.op = "T32_MLS" -> Set(s, i.rd, s.r[i.rs] - n * m)
      [] i.op = "T32_UMULL" -> SetPair(s, i.rd, i.rs, n * m)
      [] i.op = "T32_SMULL" -> SetPair(s, i.rd, i.rs, Signed(n) * Signed(m))
      [] i.op = "T32_UMLAL" -> SetPair(s, i.rd, i.rs, both + n * m)
      [] i.op = "T32_SMLAL" -> SetPair(s, i.rd, i.rs, both + Signed(n) * Signed(m))
      [] i.op = "T32_UDIV" -> Set(s, i.rd, IF m = 0 THEN 0 ELSE n \div m)
      [] i.op = "T32_SDIV" -> Set(s, i.rd, Quotient(n, m))
Products == {"T32_MLA", "T32_MLS", "T32_UMULL", "T32_SMULL", "T32_UMLAL", "T32_SMLAL",
             "T32_UDIV", "T32_SDIV"}

\* Bit fields, counts and bit order.
FieldMoved(s, i) ==
    LET n == s.r[i.rn]
        width == FieldWidth(i)
        top == 2 ^ (width - 1)
    IN
    CASE i.op = "T32_BFI" ->
            Set(s, i.rd, Or(Cleared(s.r[i.rd], i.imm, width),
                            Mod(And(n, Ones(width)) * 2 ^ i.imm)))
      [] i.op = "T32_BFC" -> Set(s, i.rd, Cleared(s.r[i.rd], i.imm, width))
      [] i.op = "T32_UBFX" -> Set(s, i.rd, Field(n, i.imm, width))
      [] i.op = "T32_SBFX" -> Set(s, i.rd, Xor(Field(n, i.imm, width), top) - top)
      [] i.op = "T32_CLZ" -> Set(s, i.rd, LeadingZeros(s.r[i.rm]))
      [] i.op = "T32_RBIT" -> Set(s, i.rd, Reversed(s.r[i.rm]))
Fields == {"T32_BFI", "T32_BFC", "T32_UBFX", "T32_SBFX", "T32_CLZ", "T32_RBIT"}

\* The comparison of any two registers, IT, and the hints, which do nothing.
CompareHigh(s, i) ==
    LET a == Mod(Read4(s, i.rn))
        b == Mod(Read4(s, i.rm))
    IN  [s EXCEPT !.f = cpu_set_flags_nzcv_sub(a, b, Wrap(a - b))]
Hints == {"NOP", "T32_NOP", "YIELD", "WFE", "WFI", "SEV"}

Computed(s, i) ==
    CASE i.op \in Moves -> Moved(s, i)
      [] i.op \in Products -> Multiplied(s, i)
      [] i.op \in Fields -> FieldMoved(s, i)
      [] i.op \in Hints -> s
      [] i.op = "CMP_REG_T2" -> CompareHigh(s, i)
      [] i.op = "T32_IT" -> [s EXCEPT !.it = i.cond * 16 + i.imm]
Computations == Moves \union Products \union Fields \union Hints \union {"CMP_REG_T2", "T32_IT"}
-----------------------------------------------------------------------------
(* What an instruction leaves: the machine, the next PC, and whether execute *)
(* goes on to its common end or has returned early, with false or with true. *)

NextPc(s, i) == Mod(s.r[Pc] + i.size)
Go(s, pc) == [s |-> s, pc |-> Mod(pc), ret |-> "end"]
Fault(s) == [s |-> [s EXCEPT !.halted = TRUE], pc |-> s.r[Pc], ret |-> "false"]
StopHere(s) == [s |-> [s EXCEPT !.halted = TRUE], pc |-> s.r[Pc], ret |-> "true"]
WithThumb(a) == a        \* mutant of WithoutThumb
WithoutThumb(a) == a - (a % 2)

TableBranch(s, i, n) ==
    LET read == bus_read(s.m, Mod(Read4(s, i.rn) + n * s.r[i.rm]), n)
    IN  IF read.ok THEN Go(s, s.r[Pc] + 4 + 2 * read.v) ELSE Fault(s)

Branched(s, i) ==
    LET target == s.r[Pc] + 4 + i.imm
        sum == Mod(Read4(s, i.rn) + Read4(s, i.rm))
        moved == Mod(Read4(s, i.rm))
    IN
    CASE i.op = "B_UNCOND" -> Go(s, target)
      [] i.op = "B_COND" -> Go(s, IF cond_pass(s.f, i.cond) THEN target ELSE NextPc(s, i))
      [] i.op = "T32_B_COND" ->
            Go(s, IF wide_pass(s.f, i.cond) THEN target ELSE NextPc(s, i))
      [] i.op = "CBZ" -> Go(s, IF s.r[i.rn] = 0 THEN target ELSE NextPc(s, i))
      [] i.op = "CBNZ" -> Go(s, IF s.r[i.rn] # 0 THEN target ELSE NextPc(s, i))
      [] i.op = "T32_BL" ->
            Go(Set(s, Lr, WithoutThumb(s.r[Pc] + 4) + 1), WithoutThumb(Mod(target)))
      [] i.op = "BX" -> Go(s, WithoutThumb(s.r[i.rm]))
      [] i.op = "BLX_REG" ->
            Go(Set(s, Lr, WithoutThumb(s.r[Pc] + 2) + 1), WithoutThumb(s.r[i.rm]))
      [] i.op = "ADD_REG_T2" -> IF i.rd = Pc THEN Go(s, WithoutThumb(sum))
                                ELSE Go(Set(s, i.rd, sum), NextPc(s, i))
      [] i.op = "MOV_REG" -> IF i.rd = Pc THEN Go(s, WithoutThumb(moved))
                             ELSE Go(Set(s, i.rd, moved), NextPc(s, i))
      [] i.op = "T32_TBB" -> TableBranch(s, i, 1)
      [] i.op = "T32_TBH" -> TableBranch(s, i, 2)
      [] i.op = "BKPT" -> StopHere(s)
      [] i.op = "UDF" -> Fault(s)

Branches == {"B_UNCOND", "B_COND", "T32_B_COND", "CBZ", "CBNZ", "T32_BL", "BX", "BLX_REG",
             "ADD_REG_T2", "MOV_REG", "T32_TBB", "T32_TBH", "BKPT", "UDF"}
-----------------------------------------------------------------------------
(* Single loads and stores: direction, size, sign extension and the way the *)
(* address is formed.                                                       *)

Access(op, dir, size, signed, form) ==
    op :> [dir |-> dir, size |-> size, signed |-> signed, form |-> form]

NarrowAccesses ==
       Access("LDR_LIT", "load", 4, FALSE, "lit") @@ Access("LDR_IMM", "load", 4, FALSE, "imm")
    @@ Access("STR_IMM", "store", 4, FALSE, "imm") @@ Access("LDRB_IMM", "load", 1, FALSE, "imm")
    @@ Access("STRB_IMM", "store", 1, FALSE, "imm") @@ Access("LDRH_IMM", "load", 2, FALSE, "imm")
    @@ Access("STRH_IMM", "store", 2, FALSE, "imm") @@ Access("LDR_REG", "load", 4, FALSE, "reg")
    @@ Access("STR_REG", "store", 4, FALSE, "reg") @@ Access("LDRB_REG", "load", 1, FALSE, "reg")
    @@ Access("STRB_REG", "store", 1, FALSE, "reg") @@ Access("LDRH_REG", "load", 2, FALSE, "reg")
    @@ Access("STRH_REG", "store", 2, FALSE, "reg") @@ Access("LDRSB_REG", "load", 1, TRUE, "reg")
    @@ Access("LDRSH_REG", "load", 2, TRUE, "reg") @@ Access("LDR_SP", "load", 4, FALSE, "sp")
    @@ Access("STR_SP", "store", 4, FALSE, "sp")
WideAccesses ==
       Access("T32_LDR_LIT", "load", 4, FALSE, "wlit")
    @@ Access("T32_LDR_IMM", "load", 4, FALSE, "wide")
    @@ Access("T32_STR_IMM", "store", 4, FALSE, "wide")
    @@ Access("T32_LDRH_IMM", "load", 2, FALSE, "wide")
    @@ Access("T32_STRH_IMM", "store", 2, FALSE, "wide")
    @@ Access("T32_LDRB_IMM", "load", 1, FALSE, "wide")
    @@ Access("T32_STRB_IMM", "store", 1, FALSE, "wide")
    @@ Access("T32_LDRSB_IMM", "load", 1, TRUE, "wide")
    @@ Access("T32_LDRSH_IMM", "load", 2, TRUE, "wide")
    @@ Access("T32_LDR_REG", "load", 4, FALSE, "scaled")
    @@ Access("T32_STR_REG", "store", 4, FALSE, "scaled")
Accesses == NarrowAccesses @@ WideAccesses

Offset(s, i) == Mod(IF i.add THEN s.r[i.rn] + i.imm ELSE s.r[i.rn] - i.imm)
Indexed(s, i) == IF i.index THEN Offset(s, i) ELSE s.r[i.rn]
WrittenBack(s, t, i) == IF i.writeback THEN [t EXCEPT !.r[i.rn] = Offset(s, i)] ELSE t

Address(s, i, form) ==
    LET here == Aligned(s.r[Pc] + 4)
    IN  CASE form = "imm" -> Mod(s.r[i.rn] + i.imm)
          [] form = "reg" -> Mod(s.r[i.rn] + s.r[i.rm])
          [] form = "scaled" -> Mod(s.r[i.rn] + s.r[i.rm] * 2 ^ i.shift_n)
          [] form = "sp" -> Mod(s.r[Sp] + i.imm)
          [] form = "lit" -> Mod(here + i.imm)
          [] form = "wlit" -> Mod(IF i.add THEN here + i.imm ELSE here - i.imm)
          [] form = "wide" -> Indexed(s, i)

LoadDone(s, i, a, read) ==
    IF ~read.ok THEN Fault(s)
    ELSE LET t == Set(s, i.rd, IF a.signed THEN Extended(read.v, Byte ^ a.size) ELSE read.v)
         IN  Go(IF a.form = "wide" THEN WrittenBack(s, t, i) ELSE t, NextPc(s, i))
StoreDone(s, i, a, write) ==
    IF ~write.ok THEN Fault(s)
    ELSE LET t == [s EXCEPT !.m = write.m]
         IN  Go(IF a.form = "wide" THEN WrittenBack(s, t, i) ELSE t, NextPc(s, i))
TransferredAt(s, i, a, ea) ==
    IF a.dir = "load" THEN LoadDone(s, i, a, bus_read(s.m, ea, a.size))
    ELSE StoreDone(s, i, a, bus_write(s.m, ea, a.size, s.r[i.rd] % Byte ^ a.size))
Transferred(s, i, a) == TransferredAt(s, i, a, Address(s, i, a.form))
-----------------------------------------------------------------------------
(* Register lists, in ascending order and up to the access that fails.      *)

Listed(i) ==
    LET up[n \in 0 .. 16] == IF n = 0 THEN << >>
                             ELSE IF n - 1 \in i.list THEN up[n - 1] \o << n - 1 >> ELSE up[n - 1]
    IN  up[16]

StoreNext(acc, w) ==
    IF ~acc.ok THEN acc
    ELSE [acc EXCEPT !.s.m = w.m, !.a = Mod(@ + 4), !.ok = w.ok]
Stores(regs, from) ==
    FoldLeft(LAMBDA acc, n :
                 StoreNext(acc, bus_write(acc.s.m, acc.a, 4,
                                          Mod(IF n = Pc THEN acc.s.r[Pc] + 4 ELSE acc.s.r[n]))),
             from, regs)

\* PC is not written: it becomes the next PC.
LoadNext(acc, n, w) ==
    CASE ~acc.ok \/ ~w.ok -> [acc EXCEPT !.ok = FALSE]
      [] n = Pc -> [acc EXCEPT !.pc = WithoutThumb(w.v), !.a = Mod(@ + 4)]
      [] OTHER -> [acc EXCEPT !.s.r[n] = w.v, !.a = Mod(@ + 4)]
Loads(regs, from) ==
    FoldLeft(LAMBDA acc, n : LoadNext(acc, n, bus_read(acc.s.m, acc.a, 4)), from, regs)

ListBase(i) == IF i.op \in {"PUSH", "POP"} THEN Sp ELSE i.rn
ListDown(i) == i.op = "PUSH" \/ (i.op \in {"T32_LDM", "T32_STM"} /\ ~i.add)
ListFirst(s, i) ==
    Mod(IF ListDown(i) THEN s.r[ListBase(i)] - 4 * Len(Listed(i)) ELSE s.r[ListBase(i)])

\* The base, once all of the list has been moved and x.a is the address behind.
Rebased(i, x, first) ==
    CASE i.op = "PUSH" \/ (i.op = "LDM" /\ i.rn \in i.list) -> x.s
      [] i.op \in {"T32_LDM", "T32_STM"} /\ ~i.writeback -> x.s
      [] OTHER -> Set(x.s, ListBase(i), IF ListDown(i) THEN first ELSE x.a)
Relisted(i, x, first) ==
    IF ~x.ok THEN Fault(x.s) ELSE Go(Rebased(i, x, first), x.pc)

ListMoved(s, i, first) ==
    LET from(t) == [s |-> t, a |-> first, ok |-> TRUE, pc |-> NextPc(s, i)]
    IN  CASE i.op \in {"POP", "LDM", "T32_LDM"} ->
                Relisted(i, Loads(Listed(i), from(s)), first)
          [] i.op = "PUSH" -> Relisted(i, Stores(Listed(i), from(Set(s, Sp, first))), first)
          [] OTHER -> Relisted(i, Stores(Listed(i), from(s)), first)

LoadedPair(s, i, r0, r1) ==
    IF r0.ok /\ r1.ok
    THEN Go(WrittenBack(s, Set(Set(s, i.rd, r0.v), i.rs, r1.v), i), NextPc(s, i))
    ELSE Fault(s)
StoredSecond(s, i, w) ==
    IF w.ok THEN Go(WrittenBack(s, [s EXCEPT !.m = w.m], i), NextPc(s, i))
    ELSE Fault([s EXCEPT !.m = w.m])
StoredPair(s, i, w, ea) ==
    IF w.ok THEN StoredSecond(s, i, bus_write(w.m, Mod(ea + 4), 4, s.r[i.rs])) ELSE Fault(s)
Doubleword(s, i, ea) ==
    IF i.op = "T32_LDRD_IMM"
    THEN LoadedPair(s, i, bus_read(s.m, ea, 4), bus_read(s.m, Mod(ea + 4), 4))
    ELSE StoredPair(s, i, bus_write(s.m, ea, 4, s.r[i.rd]), ea)

Lists == {"PUSH", "POP", "STM", "LDM", "T32_LDM", "T32_STM"}
-----------------------------------------------------------------------------
(* execute: the IT condition, the instruction, and the common end.          *)

InIt(s) == s.it % 16 # 0

\* Mutant of cpu_it_advance: the base condition is shifted with the mask.
AdvancedWhole(it) == IF it % 8 = 0 THEN 0 ELSE (2 * it) % 256
cpu_it_advance(it) == IF it % 8 = 0 THEN 0 ELSE (it \div 32) * 32 + ((2 * it) % 32)

op_is_flagsetter(op) ==
    op \in {"CMP_IMM", "CMP_REG", "CMP_REG_T2", "CMN_REG", "TST_REG", "T32_CMP_IMM",
           "T32_CMP_REG", "T32_CMN_IMM", "T32_CMN_REG", "T32_TST_IMM", "T32_TST_REG",
           "T32_TEQ_IMM", "T32_TEQ_REG"}

Dispatched(s, i) ==
    IF i.op \in DOMAIN DataOps THEN Go(Processed(s, i, DataOps[i.op]), NextPc(s, i))
    ELSE IF i.op \in Computations THEN Go(Computed(s, i), NextPc(s, i))
    ELSE IF i.op \in Branches THEN Branched(s, i)
    ELSE IF i.op \in DOMAIN Accesses THEN Transferred(s, i, Accesses[i.op])
    ELSE IF i.op \in Lists THEN ListMoved(s, i, ListFirst(s, i))
    ELSE Doubleword(s, i, Indexed(s, i))

\* The IT state after an instruction that was covered by it.
Retired(s, i, t) ==
    IF ~InIt(s) THEN t
    ELSE [t EXCEPT !.f = IF op_is_flagsetter(i.op) THEN @ ELSE s.f,
                   !.it = IF i.op = "T32_IT" THEN @ ELSE cpu_it_advance(@)]

Ended(s, i, d) ==
    IF d.ret # "end" THEN [ok |-> d.ret = "true", s |-> d.s]
    ELSE [ok |-> TRUE, s |-> [Retired(s, i, d.s) EXCEPT !.r[Pc] = d.pc]]
execute(s, i) ==
    IF InIt(s) /\ ~it_pass(s.f, s.it \div 16)
    THEN [ok |-> TRUE, s |-> [s EXCEPT !.it = cpu_it_advance(@), !.r[Pc] = NextPc(s, i)]]
    ELSE Ended(s, i, Dispatched(s, i))
=============================================================================
