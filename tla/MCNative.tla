------------------------------ MODULE MCNative ------------------------------
(* Blocks for Native: every compiled operation, register lists on both       *)
(* sides of every jump range, conditional branches behind a comparison, and *)
(* blocks the generator refuses.                                            *)
EXTENDS Native

Flash == [base |-> 0, size |-> 40, writable |-> FALSE]
Sram == [base |-> 64, size |-> 24, writable |-> TRUE]
MCRegions == << Flash, Sram >>

Ins(op) == [op |-> op, rd |-> 0, rn |-> 1, rm |-> 2, rs |-> 3, imm |-> 0, cond |-> 0,
            size |-> 2, list |-> {}, set_flags |-> FALSE, add |-> TRUE, index |-> TRUE,
            writeback |-> FALSE, shift |-> "lsl", shift_n |-> 0, width |-> 0, pc |-> 0]

\* SubSeq makes TLC evaluate the elements once.
Map(F(_), seq) == SubSeq([n \in DOMAIN seq |-> F(seq[n])], 1, Len(seq))
-----------------------------------------------------------------------------
\* Data processing, with and without the S bit.
DataBlock(op) == << [Ins(op) EXCEPT !.imm = 129] >>
DataBlocks == Map(DataBlock,
    <<"MOV_IMM", "ADD_REG", "SUB_REG", "ADD_IMM3", "ADD_IMM8", "SUB_IMM3", "SUB_IMM8", "AND_REG",
      "ORR_REG", "EOR_REG", "T32_MOV_IMM", "T32_ADD_IMM", "T32_SUB_IMM", "T32_AND_IMM",
      "T32_ORR_IMM", "T32_EOR_IMM", "T32_ADDW", "T32_SUBW", "T32_MOVW", "CMP_IMM", "CMP_REG",
      "CMP_REG_T2", "CMN_REG", "TST_REG", "T32_CMP_IMM", "T32_CMP_REG", "T32_CMN_IMM",
      "T32_CMN_REG", "MOV_REG">>)
SBlock(op) == << [Ins(op) EXCEPT !.imm = 255, !.set_flags = TRUE] >>
SBlocks == Map(SBlock, <<"T32_MOV_IMM", "T32_ADD_IMM", "T32_SUB_IMM", "T32_AND_IMM",
                         "T32_ORR_IMM", "T32_EOR_IMM">>)

\* Single loads and stores, with an instruction behind them that the thunk
\* still executes when the access fails.
AccessBlock(op) == << [Ins(op) EXCEPT !.imm = 2], [Ins("ADD_IMM8") EXCEPT !.rn = 0, !.imm = 7] >>
AccessBlocks == Map(AccessBlock,
    <<"LDR_IMM", "STR_IMM", "LDRB_IMM", "STRB_IMM", "LDRH_IMM", "STRH_IMM", "LDR_SP", "STR_SP",
      "LDR_LIT", "LDR_REG", "STR_REG", "T32_LDR_IMM", "T32_STR_IMM", "T32_LDRB_IMM",
      "T32_STRB_IMM", "T32_LDRH_IMM", "T32_STRH_IMM", "T32_LDR_LIT", "T32_LDR_REG",
      "T32_STR_REG", "T32_LDRD_IMM", "T32_STRD_IMM">>)

\* Lists: one register, as many as a short jump reaches over, one more, and
\* one more than the fast path is emitted for.
Up(n) == 4 .. 3 + n
ListBlock(op, list, add, wb) ==
    << [Ins(op) EXCEPT !.list = list, !.add = add, !.writeback = wb], Ins("ADD_REG") >>
ListBlocks ==
    Map(LAMBDA n : ListBlock("PUSH", Up(n), FALSE, TRUE), <<1, 2, 3, 6, 7>>)
    \o Map(LAMBDA n : ListBlock("POP", Up(n), TRUE, TRUE), <<1, 2, 5, 6>>)
    \o Map(LAMBDA n : ListBlock("T32_STM", Up(n), TRUE, TRUE), <<2, 3, 6>>)
    \o Map(LAMBDA n : ListBlock("T32_STM", Up(n) \union {Pc}, FALSE, FALSE), <<1, 2, 5>>)
    \o Map(LAMBDA n : ListBlock("T32_STM", Up(n) \union {Pc}, TRUE, TRUE), <<1>>)
    \o Map(LAMBDA n : ListBlock("T32_LDM", Up(n), TRUE, TRUE), <<1, 2, 6>>)
    \o Map(LAMBDA n : ListBlock("T32_LDM", Up(n), FALSE, FALSE), <<1, 2, 6>>)

\* Branches: on any flags, and on those a native comparison has left.
CondBlock(op, c) == << Ins("NOP"), [Ins(op) EXCEPT !.cond = c, !.imm = 20] >>
ComparedBlock(c) == << [Ins("CMP_REG") EXCEPT !.rn = 1, !.rm = 2],
                       [Ins("B_COND") EXCEPT !.cond = c, !.imm = 20] >>
Conditions == [n \in 1 .. 14 |-> n - 1]
CondBlocks == Map(LAMBDA c : CondBlock("B_COND", c), Conditions)
              \o Map(LAMBDA c : CondBlock("T32_B_COND", c), Conditions)
              \o << << [Ins("B_UNCOND") EXCEPT !.imm = 30] >>,
                    << [Ins("T32_BL") EXCEPT !.imm = 30, !.size = 4] >> >>
ComparedBlocks == Map(ComparedBlock, Conditions)

\* Blocks left to the interpreter, one for each reason.
RefusedBlocks ==
    << << [Ins("MOV_IMM") EXCEPT !.rd = 4, !.imm = 9], Ins("T32_UDIV"), Ins("BX") >>,
       << [Ins("PUSH") EXCEPT !.list = {4, Lr}], Ins("ADD_REG"),
          [Ins("POP") EXCEPT !.list = {4, Pc}] >>,
       << [Ins("T32_LDR_IMM") EXCEPT !.imm = 4, !.writeback = TRUE], Ins("T32_TBB") >>,
       << [Ins("T32_IT") EXCEPT !.cond = 1, !.imm = 12], Ins("ADD_REG"), Ins("CMP_REG"),
          [Ins("CBZ") EXCEPT !.imm = 4] >>,
       << Ins("BKPT") >>, << Ins("UDF") >> >>
-----------------------------------------------------------------------------
MCStreams == DataBlocks \o SBlocks \o AccessBlocks \o ListBlocks \o CondBlocks
                          \o ComparedBlocks \o RefusedBlocks
MCBlocks == { Decoded(MCStreams[n], FALSE) : n \in DOMAIN MCStreams }

\* A register move behind an instruction that sets the flags.
MovBlocks == { Decoded(<< [Ins("T32_MOV_IMM") EXCEPT !.rd = 1, !.imm = v, !.set_flags = flag],
                          Ins("MOV_REG") >>, FALSE) : v \in {0, 1}, flag \in BOOLEAN }

NoFlags == [n |-> FALSE, z |-> FALSE, c |-> FALSE, v |-> FALSE]
AllFlags == [n |-> TRUE, z |-> TRUE, c |-> TRUE, v |-> TRUE]
Memory == [a \in 0 .. 43 \union 60 .. 91 |-> (7 * a) % Byte]
Machine(r1, r2, sp, f) ==
    [r |-> [n \in 0 .. 15 |-> CASE n = 1 -> r1 [] n = 2 -> r2 [] n = Sp -> sp [] n = Lr -> 21
                                [] n = Pc -> 0 [] OTHER -> 16 + n],
     f |-> f, it |-> 0, halted |-> FALSE, m |-> Memory]

Edges == { 0, 1, 127, 128, 255 }
MCStarts(b) ==
    LET ops == { b[n].op : n \in DOMAIN b }
    IN  IF ops \intersect {"B_COND", "T32_B_COND"} # {} /\ b[1].op = "NOP"
        THEN { Machine(0, 0, 80, f) : f \in Apsr }
        ELSE IF ops \intersect Lists # {}
        THEN { Machine(a, 0, a, NoFlags) : a \in {0, 36, 60, 64, 68, 76, 80, 84, 88, 92} }
        ELSE IF ops \intersect (DOMAIN Accesses \union {"T32_LDRD_IMM", "T32_STRD_IMM"}) # {}
        THEN { Machine(a, 2, a, NoFlags) : a \in {34, 36, 37, 58, 62, 63, 76, 80, 82, 83, 84, 86} }
        ELSE { Machine(x1, x2, 80, f) : x1 \in Edges, x2 \in Edges, f \in {NoFlags, AllFlags} }
=============================================================================
