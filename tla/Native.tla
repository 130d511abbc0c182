------------------------------- MODULE Native -------------------------------
(***************************************************************************)
(* jit_run of src/core/jit.c for one block: its native thunk when there is  *)
(* one, the pre-decoded instructions otherwise or when the thunk reports a  *)
(* failure.  The host executes the thunk instruction by instruction, at     *)
(* byte offsets; what it does to cpu_t and to memory is seen when jit_run   *)
(* returns.  The block means what module Block says.                        *)
(***************************************************************************)
EXTENDS Codegen

CONSTANTS Blocks,      \* the decoded blocks: a set of sequences of instructions
          Starts(_)    \* the machines a block is started with

IsMachine(t) ==
    /\ t = [r |-> t.r, f |-> t.f, it |-> t.it, halted |-> t.halted, m |-> t.m]
    /\ t.r \in [0 .. 15 -> Word] /\ t.f \in Apsr /\ t.it \in 0 .. 255 /\ t.halted \in BOOLEAN

ASSUME BlocksAssumption ==
    \A b \in Blocks : /\ b \in Seq(insn_t) \ {<< >>}
                      /\ \A t \in Starts(b) : IsMachine(t)

VolatileJunk == Modulus - 3      \* what a call leaves in volatile registers

VARIABLES blk, s, steps, mode,
          thunk,       \* what codegen_emit has made of the block
          x,           \* the host: the instruction, registers, flags, stack
          k,           \* the interpreted instruction
          start        \* s when jit_run was called
vars == <<blk, s, steps, mode, thunk, x, k, start>>
-----------------------------------------------------------------------------
(* The thunk of a block: its instructions, and the byte offset of each.     *)

Placed(code) ==
    LET end[n \in 0 .. Len(code)] == IF n = 0 THEN 0 ELSE end[n - 1] + code[n].n
    IN  [code |-> code, at |-> SubSeq([n \in DOMAIN code |-> end[n - 1]], 1, Len(code))]

NoThunk == [code |-> << >>, at |-> << >>]
Thunk(b) == IF Compilable(b) THEN Placed(codegen_emit(b)) ELSE NoThunk
-----------------------------------------------------------------------------
(* The host.                                                                *)

Registers == {"eax", "ecx", "edx", "r8", "r9", "r10", "r11"}
NonVolatile == {"r15", "r14", "rbx", "rsi"}

Host == [rip |-> 1, reg |-> [r \in Registers |-> VolatileJunk], ah |-> 0,
         h |-> HostLogic(1), nv |-> [r \in NonVolatile |-> r], stk |-> << >>, result |-> TRUE]

Op == thunk.code[x.rip]
At(ops) == /\ mode = "native"
           /\ x.rip \in DOMAIN thunk.code
           /\ Op.op \in ops
Advance(y) == [y EXCEPT !.rip = @ + 1]

\* Where a jump over so many bytes arrives: nowhere, unless an instruction
\* starts there.
Landing(distance) ==
    LET at == thunk.at
    IN  SelectInSeq(at, LAMBDA o : o = at[x.rip] + Op.n + distance)

\* Moves and arithmetic on the host's registers.
AluHost(fn, a, b) ==
    CASE fn = "add" -> [r |-> Wrap(a + b), h |-> HostAdd(a, b)]
      [] fn = "sub" -> [r |-> Wrap(a - b), h |-> HostSub(a, b)]
      [] fn = "and" -> [r |-> And(a, b), h |-> HostLogic(And(a, b))]
      [] fn = "orr" -> [r |-> Or(a, b), h |-> HostLogic(Or(a, b))]
      [] fn = "eor" -> [r |-> Xor(a, b), h |-> HostLogic(Xor(a, b))]

Into(r, v) == [x EXCEPT !.reg[r] = v]
Flagged(r, y) == [Into(r, y.r) EXCEPT !.h = y.h]

HostResult ==
    CASE Op.op = "mov" -> Into(Op.a, x.reg[Op.b])
      [] Op.op = "mov_imm" -> Into(Op.a, Op.b)
      [] Op.op \in {"mov_bus", "mov_helper", "lea_slot", "mov_buf"} -> x
      [] Op.op = "alu" -> Flagged("eax", AluHost(Op.a, x.reg["eax"], x.reg["ecx"]))
      [] Op.op = "alu_imm" -> Flagged("eax", AluHost(Op.a, x.reg["eax"], Op.b))
      [] Op.op = "add_edx" -> Flagged("edx", AluHost("add", x.reg["edx"], Op.a))
      [] Op.op = "and" -> Flagged(Op.a, AluHost("and", x.reg[Op.a], Op.b))
      [] Op.op = "cmp_eax" -> [x EXCEPT !.h = HostSub(x.reg["eax"], Op.a)]
      [] Op.op = "test_eax" -> [x EXCEPT !.h = HostLogic(x.reg["eax"])]
      \* r11 is a host pointer: an offset from the buffer that may be negative.
      [] Op.op = "add_r11" -> x
      [] Op.op = "sub_r11" -> Into("r11", x.reg["r11"] - Op.a)
      \* al and ah, for the condition tests.
      [] Op.op = "test_al" -> [x EXCEPT !.h = HostLogic(x.reg["eax"] % 2)]
      [] Op.op = "shr_al" -> Into("eax", x.reg["eax"] \div 2 ^ Op.a)
      [] Op.op = "test_al_imm" -> [x EXCEPT !.h = HostLogic(And(x.reg["eax"], Op.a))]
      [] Op.op = "and_al" -> Flagged("eax", AluHost("and", x.reg["eax"], Op.a))
      [] Op.op = "cmp_al" -> [x EXCEPT !.h = HostSub(x.reg["eax"], Op.a)]
      [] Op.op = "mov_ah_al" -> [x EXCEPT !.ah = x.reg["eax"]]
      [] Op.op = "shr_ah" -> [x EXCEPT !.ah = @ \div 2 ^ Op.a]
      [] Op.op = "xor_al_ah" -> Flagged("eax", AluHost("eor", x.reg["eax"], x.ah))

Compute ==
    /\ At({"mov", "mov_imm", "mov_bus", "mov_helper", "lea_slot", "mov_buf", "alu", "alu_imm",
           "add_edx", "and", "cmp_eax", "test_eax", "add_r11", "sub_r11", "test_al", "shr_al",
           "test_al_imm", "and_al", "cmp_al", "mov_ah_al", "shr_ah", "xor_al_ah"})
    /\ x' = Advance(HostResult)
    /\ UNCHANGED <<blk, thunk, s, steps, mode, k, start>>

\* Accesses to cpu_t through r15.
Byte3(f) == 128 * Bit(f.n) + 64 * Bit(f.z) + 32 * Bit(f.c) + 16 * Bit(f.v)

LoadGuest ==
    /\ At({"ld", "ld_al_apsr"})
    /\ x.nv["r15"] = "cpu"
    /\ x' = Advance(IF Op.op = "ld" THEN Into(Op.a, s.r[Op.b]) ELSE Into("eax", Byte3(s.f)))
    /\ UNCHANGED <<blk, thunk, s, steps, mode, k, start>>

StoreGuest ==
    /\ At({"st", "st_pc", "halt"})
    /\ x.nv["r15"] = "cpu"
    /\ s' = CASE Op.op = "st" -> [s EXCEPT !.r[Op.a] = x.reg[Op.b]]
              [] Op.op = "st_pc" -> [s EXCEPT !.r[Pc] = Op.a]
              [] Op.op = "halt" -> [s EXCEPT !.halted = TRUE]
    /\ x' = Advance(x)
    /\ UNCHANGED <<blk, thunk, steps, mode, k, start>>

\* emit_flags_nzcv and emit_flags_nz: EFLAGS into APSR; eax is kept, the
\* scratch registers are not, rsi among them, in which the flags are gathered and
\* which belongs to the caller.  The last host flags are those of an OR.
UpdateFlags ==
    /\ At({"nzcv", "nz"})
    /\ x.nv["r15"] = "cpu"
    /\ s' = [s EXCEPT !.f = IF Op.op = "nzcv" THEN FlagsNzcv(x.h, Op.a) ELSE FlagsNz(@, x.h)]
    /\ LET scratch == [x.reg EXCEPT !["ecx"] = IF Op.op = "nzcv" THEN VolatileJunk ELSE @,
                                    !["edx"] = VolatileJunk, !["r10"] = VolatileJunk,
                                    !["r11"] = x.reg["eax"]]
           y == [x EXCEPT !.reg = scratch, !.h = HostLogic(1)]
       IN  x' = Advance([y EXCEPT !.nv = [@ EXCEPT !["rsi"] = "flags"]])
    /\ UNCHANGED <<blk, thunk, steps, mode, k, start>>

\* The fast path, directly in the buffer of the SRAM region.
HostAccess ==
    /\ At({"host_ld", "host_st"})
    /\ LET a == SramBase + x.reg["r11"] + Op.a
       IN  IF Op.op = "host_ld"
           THEN x' = Advance(Into("ecx", ReadBytes(s.m, a, 4))) /\ UNCHANGED s
           ELSE /\ s' = [s EXCEPT !.m = WriteBytes(@, a, 4, x.reg[Op.b])]
                /\ x' = Advance(x)
    /\ UNCHANGED <<blk, thunk, steps, mode, k, start>>

\* A call of bus_read or bus_write: the volatile registers are lost, al is
\* the result, and the word read is in the slot at the top of the stack.
CallBus ==
    /\ At({"call"})
    /\ x.nv["r14"] = "bus"
    /\ \E bus \in { IF Op.a = "bus_read" THEN bus_read(s.m, x.reg["edx"], x.reg["r8"])
                    ELSE bus_write(s.m, x.reg["edx"], x.reg["r8"], x.reg["r9"]) } :
        LET lost == [r \in Registers |-> IF r = "eax" THEN Bit(bus.ok) ELSE VolatileJunk]
            read == IF bus.ok THEN bus.v ELSE Last(x.stk)
        IN  IF Op.a = "bus_read"
            THEN /\ x' = Advance([x EXCEPT !.reg = lost, !.stk = [@ EXCEPT ![Len(@)] = read]])
                 /\ UNCHANGED s
            ELSE /\ x' = Advance([x EXCEPT !.reg = lost])
                 /\ s' = [s EXCEPT !.m = bus.m]
    /\ UNCHANGED <<blk, thunk, steps, mode, k, start>>

\* The stack: eight bytes an element.
Stack ==
    /\ At({"push", "pop", "sub_rsp", "add_rsp", "own", "ld_slot"})
    /\ x' = Advance(
        CASE Op.op = "push" -> [x EXCEPT !.stk = Append(@, x.nv[Op.a])]
          [] Op.op = "pop" -> [x EXCEPT !.stk = Front(@), !.nv = [@ EXCEPT ![Op.a] = Last(x.stk)]]
          [] Op.op = "sub_rsp" -> [x EXCEPT !.stk = @ \o [n \in 1 .. Op.a |-> VolatileJunk]]
          [] Op.op = "add_rsp" -> [x EXCEPT !.stk = SubSeq(@, 1, Len(@) - Op.a)]
          [] Op.op = "own" -> [x EXCEPT !.nv[Op.a] = Op.b]
          [] Op.op = "ld_slot" -> Into("ecx", Last(x.stk)))
    /\ UNCHANGED <<blk, thunk, s, steps, mode, k, start>>

\* The failure flag in bl, and the result in al.
FailFlag ==
    /\ At({"or_bl", "test_bl", "mov_al"})
    /\ x' = Advance(CASE Op.op = "or_bl" -> [x EXCEPT !.nv = [@ EXCEPT !["rbx"] = "failed"]]
                    [] Op.op = "test_bl" -> [x EXCEPT !.h = HostLogic(Bit(x.nv["rbx"] = "failed"))]
                    [] Op.op = "mov_al" -> [x EXCEPT !.result = Op.a])
    /\ UNCHANGED <<blk, thunk, s, steps, mode, k, start>>

Holds(cond) == CASE cond = "z" -> x.h.zf
                 [] cond = "nz" -> ~x.h.zf
                 [] cond = "b" -> x.h.cf
                 [] cond = "a" -> ~x.h.cf /\ ~x.h.zf

Jump ==
    /\ At({"jcc", "jmp"})
    /\ LET distance == IF Op.op = "jmp" THEN Op.a ELSE IF Holds(Op.a) THEN Op.b ELSE 0
       IN  x' = [x EXCEPT !.rip = Landing(distance)]
    /\ UNCHANGED <<blk, thunk, s, steps, mode, k, start>>

Native == Compute \/ LoadGuest \/ StoreGuest \/ UpdateFlags \/ HostAccess \/ CallBus
            \/ Stack \/ FailFlag \/ Jump
-----------------------------------------------------------------------------
(* jit_run.                                                                 *)

Init == /\ blk \in Blocks
        /\ thunk = Thunk(blk)
        /\ s \in Starts(blk)
        /\ start = s
        /\ steps = 0
        /\ mode = "call"
        /\ x = Host
        /\ k = 1

Call ==
    /\ mode = "call"
    /\ mode' = IF thunk = NoThunk THEN "interp" ELSE "native"
    /\ UNCHANGED <<blk, thunk, s, steps, x, k, start>>

\* The thunk returns: all of the block has been done, or the block is left
\* to the interpreter.
Return ==
    /\ At({"ret"})
    /\ steps' = IF x.result THEN Len(blk) ELSE 0
    /\ mode' = IF x.result THEN "done" ELSE "interp"
    /\ UNCHANGED <<blk, thunk, s, x, k, start>>

\* One pre-decoded instruction, at its own address.
Interpret ==
    /\ mode = "interp"
    /\ k <= Len(blk) /\ ~s.halted
    /\ \E e \in { execute([s EXCEPT !.r[Pc] = blk[k].pc], blk[k]) } :
           /\ s' = e.s
           /\ steps' = steps + Bit(e.ok)
           /\ mode' = IF e.ok /\ blk[k].op \notin Terminators THEN "interp" ELSE "done"
    /\ k' = k + 1
    /\ UNCHANGED <<blk, thunk, x, start>>

EndOfBlock ==
    /\ mode = "interp"
    /\ k > Len(blk) \/ s.halted
    /\ mode' = "done"
    /\ UNCHANGED <<blk, thunk, s, steps, x, k, start>>

Next == Call \/ Native \/ Return \/ Interpret \/ EndOfBlock
Spec == Init /\ [][Next]_vars /\ WF_vars(Next)
-----------------------------------------------------------------------------
(* Properties.                                                              *)

Finished == mode = "done"
Promise == INSTANCE Block WITH s <- IF Finished THEN s ELSE start,
                               steps <- IF Finished THEN steps ELSE 0,
                               finished <- Finished

\* Whatever way jit_run takes, the registers, flags, PC, memory and step count
\* it returns with are those of interpreting the block, and a failing access
\* halts the core: the thunk, which may be half way when it fails, is never
\* completed by the interpreter behind it (jit.c:64-109, codegen.c:294-315).
RunsAsInterpreted == Promise!Atomic

\* The native APSR is the interpreter's, whatever the block decoded before left
\* in the fields that decode does not write (jit.c:49-56).
ApsrAsInterpreted ==
    Finished /\ ~s.halted => s.f = Promise!Interpreted(blk, start).s.f

\* jit_run comes back, and every jump inside a thunk, whose distance is
\* computed from byte counts of code not yet emitted, lands on an instruction
\* (codegen.c:498-995).
Returns == <>Finished

\* The caller of a thunk gets back its non-volatile registers and its stack,
\* on the path that succeeds and on the one that fails, although the body
\* overwrites all four: r15, r14 and rbx are set in front, and every update of the
\* flags gathers them in rsi (codegen.c:205-315).
CalleeSaved ==
    mode = "native" /\ x.rip \in DOMAIN thunk.code /\ Op.op = "ret" =>
        x.stk = << >> /\ x.nv = Host.nv
=============================================================================
