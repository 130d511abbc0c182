------------------------------ MODULE MCBlock ------------------------------
(* Programs for Block: one instruction of every arithmetic form on boundary *)
(* values, IT blocks, stores and loads of every width around the ends of    *)
(* the regions, and lists that are pushed and popped.                       *)
EXTENDS InterpProps

Flash == [base |-> 0, size |-> 40, writable |-> FALSE]
Sram == [base |-> 64, size |-> 24, writable |-> TRUE]
MCRegions == << Flash, Sram >>

Ins(op) == [op |-> op, rd |-> 0, rn |-> 1, rm |-> 2, rs |-> 3, imm |-> 0, cond |-> 0,
            size |-> 2, list |-> {}, set_flags |-> FALSE, add |-> TRUE, index |-> TRUE,
            writeback |-> FALSE, shift |-> "lsl", shift_n |-> 0, width |-> 0, pc |-> 0]
-----------------------------------------------------------------------------
With(S) == { << i >> : i \in S }

SumBlocks ==
    With({ [Ins(op) EXCEPT !.imm = n, !.set_flags = TRUE] :
               op \in { o \in SumOps : DataOps[o].second = "imm" }, n \in {0, 1, 128} }
         \union { [Ins(op) EXCEPT !.set_flags = flag] :
               op \in { o \in SumOps : DataOps[o].second # "imm" }, flag \in BOOLEAN })

ShiftKind(op) == CASE op \in {"LSL_IMM", "LSL_REG", "T32_LSL_R"} -> "lsl"
                   [] op \in {"LSR_IMM", "LSR_REG", "T32_LSR_R"} -> "lsr"
                   [] op \in {"ASR_IMM", "ASR_REG", "T32_ASR_R"} -> "asr"
                   [] OTHER -> "ror"
ShiftBlocks ==
    With({ [Ins(op) EXCEPT !.imm = n, !.shift = ShiftKind(op)] :
               op \in ShiftOps \ {"T32_MOV_REG"}, n \in {0, 1, 7} }
         \union { [Ins("T32_MOV_REG") EXCEPT !.shift = kind, !.shift_n = n] :
               kind \in {"lsl", "lsr", "asr", "ror"}, n \in {1, 4, 7} })

ProductOps == {"T32_MUL", "T32_MLA", "T32_MLS", "T32_UMULL", "T32_SMULL", "T32_UMLAL",
               "T32_SMLAL", "T32_UDIV", "T32_SDIV"}
ProductBlocks == With({ Ins(op) : op \in ProductOps })

BitBlocks ==
    With({ Ins(op) : op \in BitMoves \ {"T32_BFI", "T32_BFC", "T32_UBFX", "T32_SBFX"} }
         \union { Ins("T32_CLZ") }
         \union { [Ins(op) EXCEPT !.imm = lsb, !.width = msb] :
               op \in {"T32_BFI", "T32_BFC"}, lsb \in {0, 3}, msb \in {3, 7} }
         \union { [Ins(op) EXCEPT !.imm = f[1], !.width = f[2]] :
               op \in {"T32_UBFX", "T32_SBFX"}, f \in { <<0, 0>>, <<2, 3>>, <<0, 7>>, <<4, 3>> } })
-----------------------------------------------------------------------------
\* IT with every mask and three conditions; the second covered instruction
\* may compare, so that the rest of the block sees new flags.
Marker(n) == [Ins("ADD_IMM8") EXCEPT !.rd = n, !.rn = n, !.imm = 200]
Compare == [Ins("CMP_REG") EXCEPT !.rn = 0, !.rm = 1]
ItBlocks == { << [Ins("T32_IT") EXCEPT !.cond = c, !.imm = mask],
                 Marker(4), second, Marker(6), Marker(7), Marker(8) >> :
                  c \in {0, 3, 10}, mask \in 1 .. 15, second \in {Marker(5), Compare} }
-----------------------------------------------------------------------------
Singles == { op \in DOMAIN Accesses : Accesses[op].form \in {"imm", "reg", "wide", "scaled"} }
Loaded(op) == [Ins(op) EXCEPT !.rd = 5, !.rn = 3, !.rm = 0]
Stored(op) == [Ins(op) EXCEPT !.rd = 4, !.imm = 2, !.writeback = TRUE, !.add = op # "T32_STRH_IMM"]
Pairs == { p \in Singles \X Singles :
               /\ Accesses[p[1]].dir = "store" /\ Accesses[p[2]].dir = "load"
               /\ \/ p[1] \in {"STR_IMM", "STRB_REG", "STRH_IMM"}
                  \/ p[2] \in {"LDR_IMM", "LDRSB_REG"} }
AccessBlocks == { << Stored(p[1]), Loaded(p[2]) >> : p \in Pairs }

\* Registers saved, overwritten, and restored by every pair of instructions
\* that undo each other.
Clobber(regs) == [k \in DOMAIN Listed([list |-> regs]) |->
                     [Ins("T32_MOVW") EXCEPT !.rd = Listed([list |-> regs])[k], !.imm = 3]]
Move(op, regs, up) == [Ins(op) EXCEPT !.list = regs, !.add = up, !.writeback = TRUE]
Undoing == { <<"PUSH", FALSE, "POP", TRUE>>, <<"T32_STM", FALSE, "T32_LDM", TRUE>>,
             <<"T32_STM", FALSE, "LDM", TRUE>>, <<"T32_STM", TRUE, "T32_LDM", FALSE>>,
             <<"STM", TRUE, "T32_LDM", FALSE>> }
RoundTrip(p, regs, back) ==
    << Move(p[1], regs, p[2]) >> \o Clobber(regs) \o << Move(p[3], back, p[4]) >>
RoundTrips ==
    { RoundTrip(p, regs, regs) : p \in Undoing, regs \in { {4}, {4, 5, 7}, {4, Lr} } }
    \union { RoundTrip(<<"PUSH", FALSE, "POP", TRUE>>, {4, Lr}, {4, Pc}) }
-----------------------------------------------------------------------------
MCBlocks == { Decoded(b, FALSE) : b \in SumBlocks \union ShiftBlocks \union ProductBlocks
                  \union BitBlocks \union ItBlocks \union AccessBlocks \union RoundTrips }

ClearFlags == [n |-> FALSE, z |-> FALSE, c |-> FALSE, v |-> FALSE]
SetAllFlags == [n |-> TRUE, z |-> TRUE, c |-> TRUE, v |-> TRUE]
\* With the addresses just behind the regions.
Memory == [a \in 0 .. 43 \union 64 .. 91 |-> a % Byte]
Machine(r0, r1, r2, r3, sp, f) ==
    [r |-> [n \in 0 .. 15 |-> CASE n = 0 -> r0 [] n = 1 -> r1 [] n = 2 -> r2 [] n = 3 -> r3
                                [] n = Sp -> sp [] n = Lr -> 21 [] n = Pc -> 0 [] OTHER -> 16 + n],
     f |-> f, it |-> 0, halted |-> FALSE, m |-> Memory]

\* Words around zero, the sign bit and the largest one; addresses around the
\* ends of the regions.
Edges == { 0, 1, 2, 127, 128, 255 }
Patterns == { 0, 1, 90, 128, 213, 255 }
MCStarts(b) ==
    LET op == b[1].op
    IN  CASE op \in SumOps \union ShiftOps \union ProductOps ->
               { Machine(a, x, y, 77, 80, f) :
                     a \in {90, 255}, x \in Edges, y \in Edges, f \in {ClearFlags, SetAllFlags} }
          [] op \in BitMoves \union {"T32_CLZ"} ->
               { Machine(a, x, x, 77, 80, ClearFlags) : a \in Patterns, x \in Edges \union Patterns }
          [] op = "T32_IT" -> { Machine(a, 5, 2, 77, 80, f) : a \in {4, 5}, f \in Apsr }
          [] op \in DOMAIN Accesses ->
               { Machine(0, a, 0, x, 80, ClearFlags) :
                     a \in {38, 62, 64, 69, 84, 85, 86}, x \in {36, 37, 39, 64, 68, 86, 87} }
          [] op \in Lists ->
               { Machine(0, a, 0, 0, a, ClearFlags) : a \in {4, 36, 64, 68, 72, 80, 84, 88} }
=============================================================================
