------------------------------ MODULE Codegen ------------------------------
(***************************************************************************)
(* The native code generator, src/core/codegen.c: the x86 instructions each *)
(* ARM instruction is turned into, with the bytes each takes.  The encoding *)
(* of an instruction is its operation; its length is kept, because the      *)
(* jumps inside a thunk are byte distances computed from formulas.          *)
(*                                                                          *)
(* An x86 instruction is [n, op, a, b]: its length and its operands.        *)
(***************************************************************************)
EXTENDS Fetch

CONSTANT SramBase      \* 0x20000000, where PUSH, POP, LDM and STM look for a flat region

X(n, op, a, b) == [n |-> n, op |-> op, a |-> a, b |-> b]

\* Guest registers and PC, in cpu_t behind r15.
ld(dst, r) == X(7, "ld", dst, r)
st(r, src) == X(7, "st", r, src)
st_pc(pc) == X(11, "st_pc", Mod(pc), 0)
mov_eax_imm(v) == X(5, "mov_imm", "eax", Mod(v))
op_ec(fn) == X(2, "alu", fn, 0)
alu_imm(fn, v) == X(5, "alu_imm", fn, Mod(v))
add_imm(v) == alu_imm("add", v)
sub_imm(v) == alu_imm("sub", v)
test_eax == X(2, "test_eax", 0, 0)
emit_flags_nzcv(is_sub) == X(IF is_sub THEN 101 ELSE 94, "nzcv", is_sub, 0)
emit_flags_nz == X(63, "nz", 0, 0)

\* Calls of bus_read and bus_write.
sub_rsp_16 == X(4, "sub_rsp", 2, 0)
add_rsp_16 == X(4, "add_rsp", 2, 0)
mov_rcx_r14 == X(3, "mov_bus", 0, 0)
mov_edx_eax == X(2, "mov", "edx", "eax")
add_edx_imm(v) == X(6, "add_edx", v, 0)
mov_r8d_imm(v) == X(6, "mov_imm", "r8", v)
lea_r9_rsp0 == X(4, "lea_slot", 0, 0)
mov_r9d_reg(r) == X(7, "ld", "r9", r)
mov_r9d_imm(v) == X(6, "mov_imm", "r9", Mod(v))
and_r9d_imm(v) == X(7, "and", "r9", v)
mov_rax_call(helper) == << X(10, "mov_helper", helper, 0), X(2, "call", helper, 0) >>
mov_ecx_rsp0 == X(3, "ld_slot", 0, 0)
and_ecx_imm(v) == X(6, "and", "ecx", v)
test_al_jnz(skip) == << X(2, "test_al", 0, 0), X(2, "jcc", "nz", skip) >>
or_bl_1 == X(3, "or_bl", 0, 0)
jmp_short(n) == X(2, "jmp", n, 0)
jmp_near(n) == X(5, "jmp", n, 0)

\* The fast path over the host's copy of SRAM.
cmp_eax_imm32(v) == X(5, "cmp_eax", v, 0)
jcc_rel8(cond, n) == X(2, "jcc", cond, n)
mov_r10_buf == X(10, "mov_buf", 0, 0)
mov_r11d_eax == X(3, "mov", "r11", "eax")
add_r11_r10 == X(3, "add_r11", 0, 0)
sub_r11_imm32(v) == X(7, "sub_r11", v, 0)
mov_r11_off(off, src) == X(7, "host_st", off, src)
mov_ecx_r11_off(off) == X(7, "host_ld", off, 0)

\* Condition tests on byte 3 of APSR.
ld_al_apsr_byte3 == X(7, "ld_al_apsr", 0, 0)
shr_al(n) == X(3, "shr_al", n, 0)
test_al_imm8(v) == X(2, "test_al_imm", v, 0)
and_al_imm8(v) == X(2, "and_al", v, 0)
cmp_al_imm8(v) == X(2, "cmp_al", v, 0)
mov_ah_al == X(2, "mov_ah_al", 0, 0)
shr_ah(n) == X(3, "shr_ah", n, 0)
xor_al_ah == X(2, "xor_al_ah", 0, 0)
jcc_rel32(cond, n) == X(6, "jcc", cond, n)

Each(regs, F(_, _)) == FlattenSeq([k \in 1 .. Len(regs) |-> F(k, regs[k])])
Total(sizes) ==
    LET sum[k \in 0 .. Len(sizes)] == IF k = 0 THEN 0 ELSE sum[k - 1] + sizes[k]
    IN  sum[Len(sizes)]
-----------------------------------------------------------------------------
(* The frame of a thunk: four non-volatile registers and shadow space.      *)

push(r) == X(IF r \in {"r15", "r14"} THEN 2 ELSE 1, "push", r, 0)
pop(r) == X(IF r \in {"r15", "r14"} THEN 2 ELSE 1, "pop", r, 0)

emit_prologue ==
    << push("r15"), push("r14"), push("rbx"), push("rsi"), X(4, "sub_rsp", 4, 0),
       X(3, "own", "r15", "cpu"), X(3, "own", "r14", "bus") >>
emit_clear_fail == << X(2, "own", "rbx", "ok") >>

\* Mutant of Unwind: pop rcx (59) for pop rsi (5E), which frees the slot of rsi
\* and restores nothing.
UnwindSkipsRsi(result) ==
    << X(4, "add_rsp", 4, 0), X(1, "add_rsp", 1, 0), pop("rbx"), pop("r14"), pop("r15"),
       X(2, "mov_al", result, 0), X(1, "ret", 0, 0) >>
Unwind(result) ==
    << X(4, "add_rsp", 4, 0), pop("rsi"), pop("rbx"), pop("r14"), pop("r15"),
       X(2, "mov_al", result, 0), X(1, "ret", 0, 0) >>
emit_epilogue_check ==
    << X(2, "test_bl", 0, 0), jcc_rel8("z", 21), X(8, "halt", 0, 0) >>
    \o Unwind(FALSE) \o Unwind(TRUE)
-----------------------------------------------------------------------------
(* Single loads and stores.                                                 *)

Masked(masking, size) == IF size = 4 THEN << >> ELSE << masking >>

emit_load_from_eax(rd, size) ==
    << sub_rsp_16, mov_rcx_r14, mov_edx_eax, mov_r8d_imm(size), lea_r9_rsp0 >>
    \o mov_rax_call("bus_read") \o << mov_ecx_rsp0, add_rsp_16 >>
    \o Masked(and_ecx_imm(Byte ^ size - 1), size)
    \o test_al_jnz(5) \o << or_bl_1, jmp_short(7), st(rd, "ecx") >>

Based(rn, imm) == << ld("eax", rn) >> \o (IF imm # 0 THEN << add_imm(imm) >> ELSE << >>)
emit_load(rd, rn, imm, size) == Based(rn, imm) \o emit_load_from_eax(rd, size)

StoreAtEax(rd, size) ==
    << sub_rsp_16, mov_rcx_r14, mov_edx_eax, mov_r8d_imm(size), mov_r9d_reg(rd) >>
    \o Masked(and_r9d_imm(Byte ^ size - 1), size)
    \o mov_rax_call("bus_write") \o << add_rsp_16 >> \o test_al_jnz(3) \o << or_bl_1 >>
emit_store(rd, rn, imm, size) == Based(rn, imm) \o StoreAtEax(rd, size)
-----------------------------------------------------------------------------
(* Register lists: a fast path when the whole list lies in SRAM, with the   *)
(* slow path behind it; only the slow path when a short jump cannot reach   *)
(* over the fast one.                                                       *)

bus_find_flat(base) == SelectInSeq(Regions, LAMBDA reg : reg.base = base)

\* Mutant of FastSetup: the address in the buffer is formed without the add.
FastSetupShort(fbase) == << mov_r10_buf, mov_r11d_eax, sub_r11_imm32(fbase) >>
FastSetup(fbase) ==
    << mov_r10_buf, mov_r11d_eax, add_r11_r10, sub_r11_imm32(fbase) >>

FastOrSlow(cnt, fast_body, slow_body, fast, slow) ==
    LET k == bus_find_flat(SramBase)
        jmp_sz == IF slow_body <= 127 THEN 2 ELSE 5
        jb_target == 5 + 2 + fast_body + jmp_sz
        ja_target == fast_body + jmp_sz
        hi == Mod(Regions[k].base + Regions[k].size - cnt * 4)
    IN  IF k = 0 \/ jb_target > 127 \/ ja_target > 127 THEN slow
        ELSE << cmp_eax_imm32(SramBase), jcc_rel8("b", jb_target),
                cmp_eax_imm32(hi), jcc_rel8("a", ja_target) >>
             \o FastSetup(SramBase) \o fast
             \o << IF slow_body <= 127 THEN jmp_short(slow_body) ELSE jmp_near(slow_body) >>
             \o slow

\* One word of the slow path, with the address recomputed: the call before
\* it has clobbered eax.
SlowStore(address, off, value) ==
    address \o << sub_rsp_16, mov_rcx_r14, mov_edx_eax, add_edx_imm(off), mov_r8d_imm(4), value >>
    \o mov_rax_call("bus_write") \o << add_rsp_16 >> \o test_al_jnz(3) \o << or_bl_1 >>
SlowLoad(address, off, r) ==
    address \o << sub_rsp_16, mov_rcx_r14, mov_edx_eax, add_edx_imm(off), mov_r8d_imm(4),
                  lea_r9_rsp0 >>
    \o mov_rax_call("bus_read") \o << mov_ecx_rsp0, add_rsp_16 >>
    \o test_al_jnz(5) \o << or_bl_1, jmp_short(7), st(r, "ecx") >>
FastLoad(k, r) == << mov_ecx_r11_off(4 * (k - 1)), st(r, "ecx") >>
FastStore(k, r) == << ld("ecx", r), mov_r11_off(4 * (k - 1), "ecx") >>

Adjusted(r, fn, v) == << ld("eax", r), alu_imm(fn, v), st(r, "eax") >>

emit_push_v(i) ==
    LET regs == Listed(i)
        cnt == Len(regs)
        SlowPush(k, r) == SlowStore(<< ld("eax", Sp) >>, 4 * (k - 1), mov_r9d_reg(r))
    IN  IF cnt = 0 THEN << >>
        ELSE Adjusted(Sp, "sub", 4 * cnt)
             \o FastOrSlow(cnt, 23 + cnt * 14, cnt * 58,
                           Each(regs, FastStore), Each(regs, SlowPush))

emit_pop(i) ==
    LET regs == Listed(i)
        cnt == Len(regs)
        SlowPop(k, r) == SlowLoad(<< ld("eax", Sp) >>, 4 * (k - 1), r)
        update == Adjusted(Sp, "add", 4 * cnt)
    IN  IF cnt = 0 THEN << >>
        ELSE << ld("eax", Sp) >>
             \o FastOrSlow(cnt, 23 + cnt * 14 + 19, cnt * (7 + 60) + 7 + 5 + 7,
                           Each(regs, FastLoad) \o update, Each(regs, SlowPop) \o update)

emit_ldm_stm(i) ==
    LET regs == Listed(i)
        cnt == Len(regs)
        is_load == i.op = "T32_LDM"
        down == IF i.add THEN << >> ELSE << sub_imm(cnt * 4) >>
        start == << ld("eax", i.rn) >> \o down
        Fast(k, r) ==
            IF is_load THEN FastLoad(k, r)
            ELSE IF r = Pc
                 THEN << mov_eax_imm(i.pc + 4), mov_r11_off(4 * (k - 1), "eax") >> \o start
                 ELSE FastStore(k, r)
        FastBytes(r) == IF ~is_load /\ r = Pc
                        THEN 5 + 7 + 7 + 5 - (IF i.add THEN 5 ELSE 0) ELSE 14
        Slow(k, r) ==
            IF is_load THEN SlowLoad(start, 4 * (k - 1), r)
            ELSE SlowStore(start, 4 * (k - 1),
                           IF r = Pc THEN mov_r9d_imm(i.pc + 4) ELSE mov_r9d_reg(r))
        SlowBytes(r) == 7 + (IF i.add THEN 0 ELSE 5)
                        + (IF is_load THEN 60 ELSE IF r = Pc THEN 50 ELSE 51)
        back == IF i.writeback THEN Adjusted(i.rn, IF i.add THEN "add" ELSE "sub", cnt * 4)
                ELSE << >>
        wb_bytes == IF i.writeback THEN 7 + 5 + 7 ELSE 0
    IN  IF cnt = 0 THEN << >>
        ELSE start \o FastOrSlow(cnt, 23 + Total([k \in 1 .. cnt |-> FastBytes(regs[k])]) + wb_bytes,
                                 Total([k \in 1 .. cnt |-> SlowBytes(regs[k])]) + wb_bytes,
                                 Each(regs, Fast) \o back, Each(regs, Slow) \o back)
-----------------------------------------------------------------------------
(* Branches.                                                                *)

CondTest(cond) ==
    LET bit(m) == << test_al_imm8(m) >>
        low == << shr_al(4) >>
        signs(m) == low \o << mov_ah_al, shr_ah(3), xor_al_ah, test_al_imm8(m) >>
    IN  CASE cond \in {0, 1} -> bit(64)
          [] cond \in {2, 3} -> bit(32)
          [] cond \in {4, 5} -> bit(128)
          [] cond \in {6, 7} -> bit(16)
          [] cond \in {8, 9} -> low \o << and_al_imm8(6), cmp_al_imm8(2) >>
          [] cond \in {10, 11} -> signs(1)
          [] cond \in {12, 13} -> signs(5)

TakenWhen(cond) == IF cond \in {0, 2, 4, 6, 9, 11, 13} THEN "nz" ELSE "z"

emit_b_cond_fast(i) ==
    LET tgt == i.pc + 4 + i.imm
        fal == i.pc + i.size
    IN  CASE i.cond = 14 -> << st_pc(tgt) >>
          [] i.cond = 15 -> << st_pc(fal) >>
          [] OTHER -> << ld_al_apsr_byte3 >> \o CondTest(i.cond)
                      \o << jcc_rel32(TakenWhen(i.cond), 13),
                            st_pc(fal), jmp_short(11), st_pc(tgt) >>

emit_t32_bl(i) ==
    << mov_eax_imm(WithoutThumb(i.pc + i.size) + 1), st(Lr, "eax"),
       st_pc(WithoutThumb(Mod(i.pc + 4 + i.imm))) >>
-----------------------------------------------------------------------------
(* One instruction.  Native names, for each data operation compiled, what   *)
(* the generator emits: loads, the operation, the flags, the store.         *)

NativeData ==
    {"MOV_IMM", "MOV_REG", "ADD_REG", "SUB_REG", "ADD_IMM3", "ADD_IMM8", "SUB_IMM3",
     "SUB_IMM8", "AND_REG", "ORR_REG", "EOR_REG", "T32_MOV_IMM", "T32_ADD_IMM",
     "T32_SUB_IMM", "T32_AND_IMM", "T32_ORR_IMM", "T32_EOR_IMM", "T32_ADDW", "T32_SUBW",
     "T32_MOVW", "CMP_IMM", "CMP_REG", "CMP_REG_T2", "CMN_REG", "TST_REG", "T32_CMP_IMM",
     "T32_CMP_REG", "T32_CMN_IMM", "T32_CMN_REG"}
NativeAccess ==
    {"LDR_IMM", "STR_IMM", "LDRB_IMM", "STRB_IMM", "LDRH_IMM", "STRH_IMM", "LDR_SP", "STR_SP",
     "LDR_LIT", "LDR_REG", "STR_REG", "T32_LDR_IMM", "T32_STR_IMM", "T32_LDRB_IMM",
     "T32_STRB_IMM", "T32_LDRH_IMM", "T32_STRH_IMM", "T32_LDR_LIT", "T32_LDR_REG",
     "T32_STR_REG"}
NativeOther ==
    {"NOP", "T32_NOP", "T32_LDRD_IMM", "T32_STRD_IMM", "PUSH", "POP", "T32_LDM", "T32_STM",
     "B_COND", "T32_B_COND", "B_UNCOND", "T32_BL"}

codegen_supports(op) == op \in NativeData \union NativeAccess \union NativeOther

\* MOV_REG and CMP_REG_T2 are not rows of DataOps: the interpreter treats PC
\* apart, the generator does not.
Generated(op) ==
    CASE op = "MOV_REG" -> [fn |-> "mov", second |-> "reg", flags |-> "s"]
      [] op = "CMP_REG_T2" -> [fn |-> "cmp", second |-> "reg", flags |-> "always"]
      [] OTHER -> DataOps[op]

HostOp(fn) == CASE fn = "cmp" -> "sub" [] fn = "cmn" -> "add" [] fn = "tst" -> "and"
                [] OTHER -> fn

emit_compute(i, row) ==
    CASE row.fn = "mov" /\ row.second = "imm" -> << mov_eax_imm(i.imm) >>
      [] row.fn = "mov" -> << ld("eax", i.rm) >>
      [] row.second = "imm" -> << ld("eax", i.rn), alu_imm(HostOp(row.fn), i.imm) >>
      [] OTHER -> << ld("eax", i.rn), ld("ecx", i.rm), op_ec(HostOp(row.fn)) >>
emit_flags(host) ==
    CASE host = "mov" -> << test_eax, emit_flags_nz >>
      [] host \in {"add", "sub"} -> << emit_flags_nzcv(host = "sub") >>
      [] OTHER -> << emit_flags_nz >>
emit_data(i, row) ==
    emit_compute(i, row)
    \o (IF SetsFlags(i, row.flags) THEN emit_flags(HostOp(row.fn)) ELSE << >>)
    \o (IF row.fn \in Comparisons THEN << >> ELSE << st(i.rd, "eax") >>)

emit_address(i, form) ==
    CASE form \in {"imm", "wide"} -> Based(i.rn, i.imm)
      [] form = "sp" -> Based(Sp, i.imm)
      [] form \in {"lit", "wlit"} -> << mov_eax_imm(Aligned(i.pc + 4) + i.imm) >>
      [] OTHER -> << ld("eax", i.rn), ld("ecx", i.rm), op_ec("add") >>
emit_access(i, a) ==
    emit_address(i, a.form)
    \o (IF a.dir = "load" THEN emit_load_from_eax(i.rd, a.size) ELSE StoreAtEax(i.rd, a.size))

emit_op(i) ==
    CASE i.op \in NativeData -> emit_data(i, Generated(i.op))
      [] i.op \in NativeAccess -> emit_access(i, Accesses[i.op])
      [] i.op \in {"NOP", "T32_NOP"} -> << >>
      [] i.op = "T32_LDRD_IMM" -> emit_load(i.rd, i.rn, i.imm, 4)
                                  \o emit_load(i.rs, i.rn, i.imm + 4, 4)
      [] i.op = "T32_STRD_IMM" -> emit_store(i.rd, i.rn, i.imm, 4)
                                  \o emit_store(i.rs, i.rn, i.imm + 4, 4)
      [] i.op = "PUSH" -> emit_push_v(i)
      [] i.op = "POP" -> emit_pop(i)
      [] i.op \in {"T32_LDM", "T32_STM"} -> emit_ldm_stm(i)
      [] i.op = "B_UNCOND" -> << st_pc(i.pc + 4 + i.imm) >>
      [] i.op \in {"B_COND", "T32_B_COND"} -> emit_b_cond_fast(i)
      [] i.op = "T32_BL" -> emit_t32_bl(i)
-----------------------------------------------------------------------------
(* A block: what is compiled at all, and the thunk with its frame.          *)

insn_native_ok(i) ==
    /\ i.op \in {"T32_LDR_IMM", "T32_STR_IMM", "T32_LDRB_IMM", "T32_STRB_IMM",
                 "T32_LDRH_IMM", "T32_STRH_IMM", "T32_LDRD_IMM", "T32_STRD_IMM"}
          => i.add /\ i.index /\ ~i.writeback
    /\ i.op \in {"POP", "T32_LDM"} => Pc \notin i.list

Compilable(ins) ==
    \A k \in DOMAIN ins : codegen_supports(ins[k].op) /\ insn_native_ok(ins[k])

wrote_pc(i) == i.op \in {"B_COND", "T32_B_COND", "B_UNCOND", "T32_BL"}

codegen_emit(ins) ==
    emit_prologue \o emit_clear_fail
    \o FlattenSeq([k \in DOMAIN ins |-> emit_op(ins[k])])
    \o (IF wrote_pc(Last(ins)) THEN << >> ELSE << st_pc(Last(ins).pc + Last(ins).size) >>)
    \o emit_epilogue_check

Estimate(n) == n * 160 + 64
=============================================================================
