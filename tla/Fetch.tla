-------------------------------- MODULE Fetch --------------------------------
(***************************************************************************)
(* The instructions of a basic block, as compile_block of src/core/jit.c    *)
(* finds them: decode is called one instruction after the other, up to a    *)
(* terminator.  A stream is what decode answers at these addresses.         *)
(***************************************************************************)
EXTENDS Interp

MaxBlockLen == 32

Terminators == {"B_COND", "B_UNCOND", "BX", "BLX_REG", "T32_BL", "T32_B_COND", "CBZ", "CBNZ",
                "POP", "T32_LDM", "UDF", "SVC", "BKPT", "T32_TBB", "T32_TBH"}

\* Only the data-processing groups with an S bit write set_flags; insn_t of
\* the others keeps what the instruction before left on the stack.
WritesS(i) == /\ i.op \in DOMAIN DataOps
              /\ \/ DataOps[i.op].flags = "s"
                 \/ i.op \in {"T32_CMP_IMM", "T32_CMN_IMM", "T32_TST_IMM", "T32_TEQ_IMM",
                              "T32_CMP_REG", "T32_CMN_REG", "T32_TST_REG", "T32_TEQ_REG"}

\* The block at address 0; junk is what set_flags holds at first.
Decoded(stream, junk) ==
    FoldLeft(LAMBDA acc, i :
                 IF acc.end \/ Len(acc.ins) = MaxBlockLen THEN acc
                 ELSE LET d == [i EXCEPT !.pc = acc.cur,
                                         !.set_flags = IF WritesS(i) THEN @ ELSE acc.junk]
                      IN  [ins |-> Append(acc.ins, d), cur |-> acc.cur + i.size,
                           junk |-> d.set_flags, end |-> i.op \in Terminators],
             [ins |-> << >>, cur |-> 0, junk |-> junk, end |-> FALSE], stream).ins
=============================================================================
