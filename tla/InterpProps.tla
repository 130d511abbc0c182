---------------------------- MODULE InterpProps ----------------------------
(***************************************************************************)
(* What the instructions executed by the interpreter must do, stated        *)
(* without its formulas: bit by bit, with exact integers, by the condition  *)
(* tables of the architecture, or by what another instruction undoes.  The  *)
(* properties are about whole programs, run from start to end by Run.       *)
(***************************************************************************)
EXTENDS Block

I == blk[1]
Single(ops) == Len(blk) = 1 /\ I.op \in ops
Result == s'.r[I.rd]
BitAt(v, n) == (v \div 2 ^ n) % 2
-----------------------------------------------------------------------------
(* Sums and differences, with ARM's definition of the carry and overflow.   *)

\* The operands and the carry in of AddWithCarry.
Addends(fn, a, b) ==
    CASE fn \in {"add", "cmn"} -> <<a, b, 0>>
      [] fn = "adc" -> <<a, b, Bit(s.f.c)>>
      [] fn \in {"sub", "cmp"} -> <<a, Inverted(b), 1>>
      [] fn = "sbc" -> <<a, Inverted(b), Bit(s.f.c)>>
      [] fn = "rsb" -> <<b, Inverted(a), 1>>

SumOps == { op \in DOMAIN DataOps :
               DataOps[op].fn \in {"add", "adc", "sub", "sbc", "rsb", "cmp", "cmn"} }

AddsUp(row, x) ==
    /\ s'.f = IF SetsFlags(I, row.flags) THEN AddWithCarry(x[1], x[2], x[3]) ELSE s.f
    /\ row.fn \notin Comparisons => Result = Wrap(x[1] + x[2] + x[3])

\* Every addition, subtraction and comparison leaves the sum and the four
\* flags of the architecture, whichever of the code's two flag functions it
\* takes with whichever carry (executor.c:118-301, cpu.c:26-68).
SumsExact ==
    [][Single(SumOps) =>
         \E row \in {DataOps[I.op]} :
            AddsUp(row, Addends(row.fn, s.r[I.rn], SecondOperand(s, I, row.second)))]_vars
-----------------------------------------------------------------------------
(* Shifts, one bit at a time.                                               *)

ByOne(kind, v) ==
    CASE kind = "lsl" -> Mod(2 * v)
      [] kind = "lsr" -> v \div 2
      [] kind = "asr" -> v \div 2 + (IF Top(v) THEN Sign ELSE 0)
      [] kind = "ror" -> v \div 2 + (v % 2) * Sign
ByBits(kind, v, bits) ==   \* a whole word of shifts leaves nothing, or all of a rotation
    LET n == IF kind = "ror" THEN bits % Width ELSE IF bits > Width THEN Width ELSE bits
        after[k \in 0 .. n] == IF k = 0 THEN v ELSE ByOne(kind, after[k - 1])
    IN  after[n]

ShiftOps == { op \in DOMAIN DataOps : DataOps[op].second \in {"rm_imm", "rd_rm", "rn_rm"} }
                \union {"T32_MOV_REG"}

\* A shift by an immediate (where zero means a whole word to the right) or
\* by a register of any value is that many shifts by one bit
\* (executor.c:45-55, 184-200, 262-301, 1275-1304).
ShiftsExact ==
    [][Single(ShiftOps) =>
         \E form \in {DataOps[I.op].second} :
         LET v == s.r[IF form = "rd_rm" THEN I.rd ELSE IF form = "rn_rm" THEN I.rn ELSE I.rm]
             n == CASE form = "shift" -> I.shift_n
                    [] form = "rm_imm" -> IF I.imm = 0 /\ I.shift # "lsl" THEN Width ELSE I.imm
                    [] OTHER -> s.r[I.rm]
         IN  Result = ByBits(I.shift, v, n)]_vars
-----------------------------------------------------------------------------
(* Products and quotients, with integers.                                   *)

Pair(t) == t.r[I.rs] * Modulus + t.r[I.rd]

\* Long products are exact, accumulation wraps at two words, and a quotient
\* is rounded towards zero, with a remainder of the dividend's sign; division
\* by zero gives zero and the one overflow gives the dividend
\* (executor.c:1170-1221).
ProductsExact ==
    [][LET n == s.r[I.rn]
           m == s.r[I.rm]
       IN  /\ Single({"T32_MUL"}) => (Result - n * m) % Modulus = 0
           /\ Single({"T32_MLA"}) => (Result - Signed(n) * Signed(m) - s.r[I.rs]) % Modulus = 0
           /\ Single({"T32_MLS"}) => (Result + Signed(n) * m - s.r[I.rs]) % Modulus = 0
           /\ Single({"T32_UMULL"}) => Pair(s') = n * m
           /\ Single({"T32_SMULL"}) =>
                Signed(s'.r[I.rs]) * Modulus + s'.r[I.rd] = Signed(n) * Signed(m)
           /\ Single({"T32_UMLAL"}) => (Pair(s') - Pair(s) - n * m) % (Modulus * Modulus) = 0
           /\ Single({"T32_SMLAL"}) =>
                (Pair(s') - Pair(s) - Signed(n) * Signed(m)) % (Modulus * Modulus) = 0
           /\ Single({"T32_UDIV"}) =>
                IF m = 0 THEN Result = 0 ELSE n - m * Result \in 0 .. m - 1
           /\ Single({"T32_SDIV"}) =>
                IF m = 0 THEN Result = 0
                ELSE \/ Signed(n) = -Sign /\ Signed(m) = -1 /\ Result = n
                     \/ LET rest == Signed(n) - Signed(m) * Signed(Result)
                        IN  /\ Magnitude(rest) < Magnitude(Signed(m))
                            /\ rest # 0 => (rest < 0) = (Signed(n) < 0)]_vars
-----------------------------------------------------------------------------
(* Bits that move.                                                          *)

ByteBits == Width \div 4
FromOtherByte(n, swap(_)) == swap(n \div ByteBits) * ByteBits + (n % ByteBits)
Neighbour(b) == IF b % 2 = 0 THEN b + 1 ELSE b - 1
Opposite(b) == 3 - b

\* Where bit n of the result comes from: bit number and register, or a
\* constant bit as <<-1, bit>>.
Origin(n) ==
    LET Keep(top) == <<I.rm, IF n < top THEN n ELSE top - 1>>
        Cut(top) == IF n < top THEN <<I.rm, n>> ELSE <<-1, 0>>
        inside == n \in I.imm .. I.width
    IN  CASE I.op = "T32_RBIT" -> <<I.rm, Width - 1 - n>>
          [] I.op = "REV" -> <<I.rm, FromOtherByte(n, Opposite)>>
          [] I.op = "REV16" -> <<I.rm, FromOtherByte(n, Neighbour)>>
          [] I.op = "REVSH" -> <<I.rm, FromOtherByte(IF n < 2 * ByteBits THEN n
                                                     ELSE 2 * ByteBits - 1, Neighbour)>>
          [] I.op = "SXTB" -> Keep(ByteBits)
          [] I.op = "SXTH" -> Keep(2 * ByteBits)
          [] I.op = "UXTB" -> Cut(ByteBits)
          [] I.op = "UXTH" -> Cut(2 * ByteBits)
          [] I.op = "T32_BFI" -> IF inside THEN <<I.rn, n - I.imm>> ELSE <<I.rd, n>>
          [] I.op = "T32_BFC" -> IF inside THEN <<-1, 0>> ELSE <<I.rd, n>>
          [] I.op = "T32_UBFX" -> IF n <= I.width THEN <<I.rn, I.imm + n>> ELSE <<-1, 0>>
          [] I.op = "T32_SBFX" -> <<I.rn, I.imm + (IF n <= I.width THEN n ELSE I.width)>>

BitMoves == {"T32_RBIT", "REV", "REV16", "REVSH", "SXTB", "SXTH", "UXTB", "UXTH", "T32_BFI",
             "T32_BFC", "T32_UBFX", "T32_SBFX"}

\* Reversals, extensions and bit fields move every bit where it belongs, and
\* CLZ counts the zeros above the first one, a whole word of them in zero
\* (executor.c:502-525, 1307-1358).
BitsExact ==
    [][/\ Single(BitMoves) =>
            \A n \in 0 .. Width - 1 :
                LET from == Origin(n)
                IN  BitAt(Result, n) = IF from[1] < 0 THEN from[2] ELSE BitAt(s.r[from[1]], from[2])
       /\ Single({"T32_CLZ"}) =>
            /\ Result \in 0 .. Width
            /\ s.r[I.rm] < 2 ^ (Width - Result)
            /\ Result < Width => s.r[I.rm] >= 2 ^ (Width - Result - 1)]_vars
-----------------------------------------------------------------------------
(* IT blocks.                                                               *)

\* ConditionPassed of the architecture: eight tests and their inversions.
Passes(cond, f) ==
    LET test == CASE cond \div 2 = 0 -> f.z [] cond \div 2 = 1 -> f.c
                  [] cond \div 2 = 2 -> f.n [] cond \div 2 = 3 -> f.v
                  [] cond \div 2 = 4 -> f.c /\ ~f.z [] cond \div 2 = 5 -> f.n = f.v
                  [] cond \div 2 = 6 -> f.n = f.v /\ ~f.z [] OTHER -> TRUE
    IN  IF cond % 2 = 1 /\ cond # 15 THEN ~test ELSE test

\* How many instructions the mask covers, and the condition of the k-th: the
\* first condition, with its lowest bit taken from the mask.
Covered(mask) == 4 - (CHOOSE n \in 0 .. 3 : BitAt(mask, n) = 1 /\ mask % 2 ^ n = 0)
ConditionOf(i, k) == IF k = 1 THEN i.cond ELSE i.cond - (i.cond % 2) + BitAt(i.imm, 5 - k)

\* An IT block executes exactly the instructions whose own condition holds;
\* covered arithmetic leaves the flags alone, a covered comparison that is
\* executed decides the conditions after it, and nothing behind the block is
\* conditional (executor.c:79-112, 1387-1399, cpu.c:43-58).
ItExact ==
    [][I.op = "T32_IT" =>
         LET n == Covered(I.imm)
             i(k) == blk[k + 1]
             compared == cpu_set_flags_nzcv_sub(s.r[i(2).rn], s.r[i(2).rm],
                                                Wrap(s.r[i(2).rn] - s.r[i(2).rm]))
             second == n < 2 \/ Passes(ConditionOf(I, 2), s.f)
             flags(k) == IF k > 2 /\ i(2).op = "CMP_REG" /\ second THEN compared ELSE s.f
             runs(k) == k > n \/ Passes(ConditionOf(I, k), flags(k))
         IN  /\ s'.it = 0
             /\ \A k \in 1 .. Len(blk) - 1 :
                    i(k).op = "ADD_IMM8" =>
                        s'.r[i(k).rd] = IF runs(k) THEN Mod(s.r[i(k).rd] + i(k).imm)
                                        ELSE s.r[i(k).rd]]_vars
-----------------------------------------------------------------------------
(* Memory.                                                                  *)

Lies(a, n, writing) ==
    \E k \in DOMAIN Regions : /\ a >= Regions[k].base
                              /\ a + n <= Regions[k].base + Regions[k].size
                              /\ writing => Regions[k].writable
Unchanged(bytes) == \A a \in bytes \intersect DOMAIN s.m : s'.m[a] = s.m[a]

\* A store of any width followed by a load of any width: an access that does
\* not lie in one region (a writable one, for the store) halts the core and
\* changes no byte; otherwise the bytes stored are those of the register and
\* no others change, and the load yields the bytes in memory, extended by
\* the top bit of the last one (executor.c:378-483, 896-950, bus.c:41-66).
AccessExact ==
    [][(/\ Len(blk) = 2
        /\ I.op \in DOMAIN Accesses
        /\ blk[2].op \in DOMAIN Accesses) =>
         \E st \in {Accesses[I.op]}, ld \in {Accesses[blk[2].op]} :
         LET to == Mod(s.r[1] + (IF st.form \notin {"imm", "wide"} THEN 0
                                 ELSE IF I.add \/ st.form = "imm" THEN I.imm ELSE -I.imm))
             from == s.r[3]
             value(n) == s'.m[from + n]
             top == from + ld.size - 1
         IN  IF ~Lies(to, st.size, TRUE) THEN s'.halted /\ Unchanged(DOMAIN s.m)
             ELSE /\ \A n \in 0 .. st.size - 1 :
                         s'.m[to + n] = (s.r[I.rd] \div Byte ^ n) % Byte
                  /\ Unchanged(DOMAIN s.m \ (to .. to + st.size - 1))
                  /\ st.form = "wide" => s'.r[1] = to
                  /\ s'.halted = ~Lies(from, ld.size, FALSE)
                  /\ ~s'.halted =>
                       /\ \A n \in 0 .. ld.size - 1 :
                              (s'.r[5] \div Byte ^ n) % Byte = value(n)
                       /\ ld.size < 4 =>
                              s'.r[5] \div Byte ^ ld.size =
                                  IF ld.signed /\ value(ld.size - 1) >= Byte \div 2
                                  THEN Byte ^ (4 - ld.size) - 1 ELSE 0]_vars

\* Registers pushed, overwritten and popped by the instruction that undoes
\* the push, in either direction, have their values again, and so has the
\* base; only the words of the list have been written; and POP {PC} goes
\* where LR pointed (executor.c:526-590, 1141-1167).
RoundTripExact ==
    [][(I.op \in Lists /\ Len(blk) > 1) =>
         LET base == IF I.op = "PUSH" THEN Sp ELSE I.rn
             bytes == 4 * Cardinality(I.list)
             up == I.op = "STM" \/ (I.op = "T32_STM" /\ I.add)
             first == IF up THEN s.r[base] ELSE s.r[base] - bytes
             last == blk[Len(blk)]
         IN  /\ s'.halted = ~Lies(Mod(first), bytes, TRUE)
             /\ Unchanged(DOMAIN s.m \ (first .. first + bytes - 1))
             /\ ~s'.halted => /\ \A n \in last.list \ {Pc} : s'.r[n] = s.r[n]
                              /\ s'.r[base] = s.r[base]
                              /\ Pc \in last.list => s'.r[Pc] = s.r[Lr] - 1]_vars
=============================================================================
