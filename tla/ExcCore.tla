------------------------------- MODULE ExcCore -------------------------------
(***************************************************************************)
(* Exception entry and return of the emulated core: exc_enter, exc_return  *)
(* and raise_fault (core/nvic.c), the instructions of core/executor.c that *)
(* change the state they read, and the dispatch at the end of every        *)
(* iteration of run_steps_full_gc (core/run.c), interpreter path.          *)
(*                                                                         *)
(* A stack slot stands for what one push occupies: an eight-word frame or  *)
(* the words of a PUSH.  bus_write fails on the first, lowest, word of a   *)
(* frame exactly when the stack ran off the bottom of its region, so a     *)
(* frame is written whole or not at all.                                   *)
(*                                                                         *)
(* pc names the code that runs, not an address: Main for thread code, e    *)
(* for the handler of exception e, Lost for an address nothing is mapped   *)
(* at (a plain branch to an EXC_RETURN value).                             *)
(***************************************************************************)
EXTENDS Integers, FiniteSets

CONSTANTS
  Irqs,       \* NVIC lines in use, a subset of 0..239
  Prios,      \* priority bytes firmware writes
  Ram,        \* writable stack slots
  MspInit,    \* initial main stack pointer (slots grow downwards)
  PspInit,    \* process stack pointer the firmware sets up
  MaxPush,    \* bound on the words that are pushed at one time
  ItMax,      \* longest IT block (0..4); 0 leaves IT out
  NvicWired,  \* g_nvic_for_run # NULL: the legacy entry points, not board_run
  Uses        \* the optional facilities the firmware uses

\* nested: handlers execute SVC or undefined instructions.
Facilities == {"psp", "faultmask", "basepri", "pendst", "undefined", "nested"}

ASSUME ExcAssumption ==
  /\ IsFiniteSet(Irqs) /\ Irqs \subseteq 0..239
  /\ Prios \subseteq 0..255
  /\ Ram \subseteq Int
  /\ MspInit \in Int /\ PspInit \in Int
  /\ MaxPush \in Nat /\ ItMax \in 0..4
  /\ NvicWired \in BOOLEAN /\ Uses \subseteq Facilities

VARIABLES
  cpu,        \* the fields of cpu_t the exception model reads or writes
  mem,        \* stack memory
  enable, pending, active, prio,       \* nvic_t
  stPending,  \* systick_t.irq_pending
  psvPending, \* scb_t.pendsv_pending
  stManual,   \* scb_t.systick_pending_manual
  phase,      \* "exec": about to fetch; "irq": executed, tick and dispatch next
  \* History, read by no action of the code:
  live,       \* slots holding words pushed and not yet popped
  base,       \* stack pointer the running handler started with
  saved       \* context of the thread when it was last interrupted

nvicVars == <<enable, pending, active, prio>>
pendVars == <<stPending, psvPending, stManual>>
ghosts   == <<live, base, saved>>
vars == <<cpu, mem, nvicVars, pendVars, phase, ghosts>>

(* Exception numbers (nvic.h). *)
HardFault  == 3
UsageFault == 6
SvCall     == 11
PendSv     == 14
SysTick    == 15
ExcOf(irq) == 16 + irq
Excs == {HardFault, UsageFault, SvCall, PendSv, SysTick} \cup {ExcOf(i) : i \in Irqs}

Main == 0
Lost == -1
None == -1

ExcReturns == {"F9", "FD"}           \* the EXC_RETURN values exc_enter produces
LinkValues == ExcReturns \cup {"code"}

Slots == [tag : {"word", "frame"}, lr : LinkValues, pc : Excs \cup {Main, Lost},
          xpsr : Excs \cup {0}, base : Int]
Word(lr) == [tag |-> "word", lr |-> lr, pc |-> Lost, xpsr |-> 0, base |-> 0]

\* The fields of cpu_t that are kept.
Cpus == [mode : {"thread", "handler"}, ipsr : Excs \cup {0}, spsel : BOOLEAN,
         primask : BOOLEAN, faultmask : BOOLEAN, basepri : BOOLEAN, it : 0..4,
         sp : Int, msp : Int, psp : Int, lr : LinkValues,
         pc : Excs \cup {Main, Lost}, halted : BOOLEAN,
         fsr : SUBSET {"UNDEFINSTR", "FORCED"}]

\* What a thread resumes with.
Contexts == [sp : Int, spsel : BOOLEAN, lr : LinkValues, it : 0..4, pc : Excs \cup {Main, Lost}]
ContextOf(c) == [sp |-> c.sp, spsel |-> c.spsel, lr |-> c.lr, it |-> c.it, pc |-> c.pc]
Origin == [sp |-> MspInit, spsel |-> FALSE, lr |-> "code", it |-> 0, pc |-> Main]

-----------------------------------------------------------------------------
(* core/nvic.c on the core's own state *)

UsePsp(c) == c.mode = "thread" /\ c.spsel

\* Mutant of EntrySlot: the frame goes below the banked copy, not below r[SP].
EntrySlotStale(c) == (IF UsePsp(c) THEN c.psp ELSE c.msp) - 1
EntrySlot(c) == c.sp - 1

\* exc_enter first copies the active stack pointer to its bank, also when the
\* push then fails.  Mutant: always to the main one.
SyncedMsp(c) == [c EXCEPT !.msp = c.sp]
Synced(c) == IF UsePsp(c) THEN [c EXCEPT !.psp = c.sp] ELSE [c EXCEPT !.msp = c.sp]

Entered(c, e) ==
  LET s == EntrySlot(c)
      m == IF UsePsp(c) THEN c.msp ELSE s
  IN [c EXCEPT !.psp = IF UsePsp(c) THEN s ELSE @,
               !.msp = m, !.sp = m, !.mode = "handler",
               !.lr = IF UsePsp(c) THEN "FD" ELSE "F9",
               !.pc = e, !.ipsr = e, !.it = 0]

\* The stacked xPSR carries the number of the exception being taken.
Frame(c, e) == [tag |-> "frame", lr |-> c.lr, pc |-> c.pc, xpsr |-> e, base |-> base]

\* exc_enter(c, e): TRUE is returned exactly when EntrySlot(c) is writable.
exc_enter(c, e) ==
  IF EntrySlot(c) \in Ram
  THEN /\ cpu' = Entered(c, e)
       /\ mem' = [mem EXCEPT ![EntrySlot(c)] = Frame(c, e)]
       /\ base' = Entered(c, e).sp
       /\ saved' = IF c.mode = "thread" THEN ContextOf(c) ELSE saved
  ELSE /\ cpu' = Synced(c)
       /\ UNCHANGED <<mem, base, saved>>

\* The active bits the returning IRQ leaves behind.  Mutant: none is cleared.
ActiveKept(c) == active
ActiveAfter(c) ==
  IF NvicWired THEN active \ {i \in Irqs : ExcOf(i) = c.ipsr} ELSE active

\* The banked stack pointer that is popped.  Mutant: always the main one.
PopMsp(c, v) == c.msp
PopBank(c, v) == IF v = "FD" THEN c.psp ELSE c.msp

\* Mutant of Returned: CONTROL.SPSEL is left as the handler had it.
ReturnedKeepingSpsel(c, v, f) ==
  [c EXCEPT !.lr = f.lr, !.pc = f.pc, !.ipsr = f.xpsr,
            !.psp = IF v = "FD" THEN @ + 1 ELSE @, !.msp = IF v = "FD" THEN @ ELSE @ + 1,
            !.sp = PopBank(c, v) + 1, !.mode = "thread", !.it = 0]
Returned(c, v, f) ==
  LET s == PopBank(c, v) + 1
  IN [c EXCEPT !.lr = f.lr, !.pc = f.pc, !.ipsr = f.xpsr,
               !.psp = IF v = "FD" THEN s ELSE @,
               !.msp = IF v = "FD" THEN @ ELSE s,
               !.sp = s, !.mode = "thread", !.spsel = (v = "FD"), !.it = 0]

\* exc_return pops from the banked stack pointer, whatever r[SP] holds; a
\* failed read halts the core (the callers in executor.c).
exc_return(c, v) ==
  LET from == PopBank(c, v)
  IN /\ active' = ActiveAfter(c)
     /\ IF from \in Ram
        THEN /\ cpu' = Returned(c, v, mem[from])
             /\ base' = mem[from].base
             /\ saved' = Origin
             /\ phase' = "irq"
        ELSE /\ cpu' = [c EXCEPT !.halted = TRUE]
             /\ UNCHANGED <<base, saved, phase>>
     /\ UNCHANGED <<mem, enable, pending, prio, pendVars>>

-----------------------------------------------------------------------------
(* core/executor.c: one action per kind of instruction *)

\* cpu_it_advance.  Mutant: the end of the block is not looked for.
AdvancedPastEnd(c) == [c EXCEPT !.it = @ - 1]
Advanced(c) == [c EXCEPT !.it = IF @ = 0 THEN 0 ELSE @ - 1]

Running == phase = "exec" /\ ~cpu.halted
\* Code is fetched from a mapped address; handlers that nest are optional.
Fetched == Running /\ cpu.pc # Lost
Nestable == "nested" \in Uses \/ cpu.pc = Main

Retire(c) == cpu' = Advanced(c) /\ phase' = "irq"

\* Any instruction whose effect the model does not see (WFI and WFE among
\* them), and one whose IT condition fails.
Plain == Fetched /\ Retire(cpu) /\ UNCHANGED <<mem, nvicVars, pendVars, ghosts>>

\* IT; a new IT inside a block is unpredictable and not emitted by compilers.
ItBlock ==
  /\ Fetched /\ cpu.it = 0
  /\ \E n \in 1..ItMax : cpu' = [cpu EXCEPT !.it = n]
  /\ phase' = "irq"
  /\ UNCHANGED <<mem, nvicVars, pendVars, ghosts>>

\* PUSH {.., LR}; r[SP] is moved before the first write is tried.
Push ==
  /\ Fetched /\ Cardinality(live) < MaxPush
  /\ LET s == cpu.sp - 1 IN
       IF s \in Ram
       THEN /\ Retire([cpu EXCEPT !.sp = s])
            /\ mem' = [mem EXCEPT ![s] = Word(cpu.lr)]
            /\ live' = live \cup {s}
       ELSE /\ cpu' = [cpu EXCEPT !.sp = s, !.halted = TRUE]
            /\ UNCHANGED <<phase, mem, live>>
  /\ UNCHANGED <<nvicVars, pendVars, base, saved>>

\* POP of registers other than PC: code pops what it pushed, no more.
Pop ==
  /\ Fetched /\ cpu.sp \in live
  /\ cpu.pc = Main \/ cpu.sp < base
  /\ Retire([cpu EXCEPT !.sp = @ + 1])
  /\ live' = live \ {cpu.sp}
  /\ UNCHANGED <<mem, nvicVars, pendVars, base, saved>>

\* BX LR at the end of a handler: an exception return in Handler mode only,
\* a branch to an unmapped address otherwise.
HandlerReturnBx ==
  /\ Fetched /\ cpu.pc # Main /\ cpu.lr \in ExcReturns /\ cpu.sp = base
  /\ IF cpu.mode = "handler"
     THEN exc_return(cpu, cpu.lr)
     ELSE /\ Retire([cpu EXCEPT !.pc = Lost])
          /\ UNCHANGED <<mem, nvicVars, pendVars, base, saved>>
  /\ UNCHANGED live

\* POP {.., PC} at the end of a handler that saved LR on entry.
HandlerReturnPop ==
  /\ Fetched /\ cpu.pc # Main /\ cpu.sp \in live /\ cpu.sp + 1 = base
  /\ mem[cpu.sp].lr \in ExcReturns
  /\ LET popped == [cpu EXCEPT !.sp = @ + 1] IN
       IF cpu.mode = "handler"
       THEN exc_return(popped, mem[cpu.sp].lr)
       ELSE /\ Retire([popped EXCEPT !.pc = Lost])
            /\ UNCHANGED <<mem, nvicVars, pendVars, base, saved>>
  /\ live' = live \ {cpu.sp}

\* SVC enters the handler at once and returns before the IT advance.
Svc ==
  /\ Fetched /\ Nestable
  /\ IF EntrySlot(cpu) \in Ram
     THEN exc_enter(cpu, SvCall) /\ phase' = "irq"
     ELSE /\ cpu' = [Synced(cpu) EXCEPT !.halted = TRUE]
          /\ UNCHANGED <<phase, mem, base, saved>>
  /\ UNCHANGED <<nvicVars, pendVars, live>>

\* raise_fault: escalation when in a handler; the result of exc_enter is not
\* looked at.
Undefined ==
  /\ Running
  /\ cpu.pc = Lost \/ ("undefined" \in Uses /\ Nestable)
  /\ exc_enter([cpu EXCEPT !.fsr = @ \cup
                  (IF cpu.mode = "handler" THEN {"UNDEFINSTR", "FORCED"} ELSE {"UNDEFINSTR"})],
               IF cpu.mode = "handler" THEN HardFault ELSE UsageFault)
  /\ phase' = "irq"
  /\ UNCHANGED <<nvicVars, pendVars, live>>

\* UDF, or a load or store that no region answers: execute returns false and
\* the run loop leaves without a tick.
Stop ==
  /\ Fetched
  /\ cpu' = [cpu EXCEPT !.halted = TRUE]
  /\ UNCHANGED <<mem, nvicVars, pendVars, phase, ghosts>>

\* BKPT halts but returns true: tick and dispatch still run.
Breakpoint ==
  /\ Fetched
  /\ cpu' = [cpu EXCEPT !.halted = TRUE]
  /\ phase' = "irq"
  /\ UNCHANGED <<mem, nvicVars, pendVars, ghosts>>

\* CPSIE / CPSID, and MSR to PRIMASK, FAULTMASK or BASEPRI.
SetMasks ==
  /\ Fetched
  /\ \/ \E v, i, f \in BOOLEAN :
          /\ f => "faultmask" \in Uses
          /\ Retire([cpu EXCEPT !.primask = IF i THEN v ELSE @, !.faultmask = IF f THEN v ELSE @])
     \/ \E v \in BOOLEAN :
          /\ "basepri" \in Uses
          /\ Retire([cpu EXCEPT !.basepri = v])
  /\ UNCHANGED <<mem, nvicVars, pendVars, ghosts>>

\* MSR PSP, while the main stack is in use: the process stack is set up once.
MsrPsp ==
  /\ Fetched /\ "psp" \in Uses /\ cpu.pc = Main /\ ~cpu.spsel /\ cpu.psp = 0
  /\ Retire([cpu EXCEPT !.psp = PspInit])
  /\ UNCHANGED <<mem, nvicVars, pendVars, ghosts>>

\* MSR CONTROL: in Thread mode r[SP] is banked out and the other one in.
MsrControl ==
  /\ Fetched /\ cpu.psp # 0
  /\ \E v \in BOOLEAN :
       Retire(IF cpu.mode = "thread" /\ v # cpu.spsel
              THEN [cpu EXCEPT !.spsel = v, !.sp = IF v THEN cpu.psp ELSE cpu.msp,
                               !.msp = IF v THEN cpu.sp ELSE @,
                               !.psp = IF v THEN @ ELSE cpu.sp]
              ELSE [cpu EXCEPT !.spsel = v])
  /\ UNCHANGED <<mem, nvicVars, pendVars, ghosts>>

-----------------------------------------------------------------------------
(* Stores to the SCB and the NVIC, and the host *)

\* ICSR: each set bit is applied before its clear bit.
IcsrWrite ==
  /\ Fetched
  /\ \E psvset, psvclr, stset, stclr \in BOOLEAN :
       /\ stset => "pendst" \in Uses
       /\ psvPending' = ((psvPending \/ psvset) /\ ~psvclr)
       /\ stManual' = ((stManual \/ stset) /\ ~stclr)
  /\ Retire(cpu)
  /\ UNCHANGED <<mem, nvicVars, stPending, ghosts>>

\* A bit of CFSR or HFSR is cleared by writing one to it.
FaultStatusClear ==
  /\ Fetched
  /\ \E bit \in cpu.fsr : Retire([cpu EXCEPT !.fsr = @ \ {bit}])
  /\ UNCHANGED <<mem, nvicVars, pendVars, ghosts>>

\* ISER, ICER, ISPR and ICPR take a word of bits, IPR the priority of a line.
NvicWrite ==
  /\ Fetched
  /\ \/ \E bits \in SUBSET Irqs :
          \/ enable' \in {enable \cup bits, enable \ bits} /\ UNCHANGED <<pending, prio>>
          \/ pending' \in {pending \cup bits, pending \ bits} /\ UNCHANGED <<enable, prio>>
     \/ \E i \in Irqs, p \in Prios : prio' = [prio EXCEPT ![i] = p] /\ UNCHANGED <<enable, pending>>
  /\ Retire(cpu)
  /\ UNCHANGED <<active, mem, pendVars, ghosts>>

\* board_inject_irq, or a replayed event: between two calls of the run loop.
InjectIrq ==
  /\ phase = "exec"
  /\ \E i \in Irqs : pending' = pending \cup {i}
  /\ UNCHANGED <<cpu, mem, enable, active, prio, pendVars, phase, ghosts>>

-----------------------------------------------------------------------------
(* The end of an iteration of run_steps_full_gc *)

\* nvic_pick scans upwards and keeps a strictly better priority than the 0xFF
\* it starts from.
Ready == (enable \cap pending) \ active
Better(i, j) == prio[i] < prio[j] \/ (prio[i] = prio[j] /\ i <= j)
Eligible == {i \in Ready : prio[i] < 255}
Pick == IF Eligible = {} THEN None
        ELSE CHOOSE i \in Eligible : \A j \in Eligible : Better(i, j)

Unmasked == cpu.mode = "thread" /\ ~cpu.primask /\ ~cpu.basepri

\* Pending state is taken back before exc_enter is tried, whose result is not
\* looked at.
DispatchSysTick ==
  /\ stPending' = FALSE /\ exc_enter(cpu, SysTick)
  /\ UNCHANGED <<psvPending, nvicVars>>

DispatchPendSv(tick) ==
  /\ ~tick /\ psvPending
  /\ psvPending' = FALSE /\ exc_enter(cpu, PendSv)
  /\ stPending' = tick
  /\ UNCHANGED nvicVars

\* Mutant of DispatchIrq: the whole pending word is taken back.
DispatchIrqWord(tick) ==
  /\ ~tick /\ ~psvPending /\ Pick # None
  /\ pending' = pending \ Ready
  /\ active' = active \cup {Pick}
  /\ exc_enter(cpu, ExcOf(Pick))
  /\ stPending' = tick
  /\ UNCHANGED <<psvPending, enable, prio>>
DispatchIrq(tick) ==
  /\ ~tick /\ ~psvPending /\ Pick # None
  /\ pending' = pending \ {Pick}
  /\ active' = active \cup {Pick}
  /\ exc_enter(cpu, ExcOf(Pick))
  /\ stPending' = tick
  /\ UNCHANGED <<psvPending, enable, prio>>

DispatchNothing(tick) ==
  /\ Unmasked => ~tick /\ ~psvPending /\ Pick = None
  /\ stPending' = tick
  /\ UNCHANGED <<cpu, mem, base, saved, psvPending, nvicVars>>

\* systick_tick may raise SysTick; the counter itself is not modelled here.
TickAndDispatch ==
  /\ phase = "irq" /\ phase' = "exec"
  /\ \E fire \in BOOLEAN :
       LET tick == stPending \/ fire IN
         \/ Unmasked /\ tick /\ DispatchSysTick
         \/ Unmasked /\ DispatchPendSv(tick)
         \/ Unmasked /\ DispatchIrq(tick)
         \/ DispatchNothing(tick)
  /\ UNCHANGED <<stManual, live>>

Init ==
  /\ cpu = [mode |-> "thread", ipsr |-> 0, spsel |-> FALSE, primask |-> FALSE,
            faultmask |-> FALSE, basepri |-> FALSE, it |-> 0, sp |-> MspInit,
            msp |-> MspInit, psp |-> 0, lr |-> "code", pc |-> Main,
            halted |-> FALSE, fsr |-> {}]
  /\ mem = [s \in Ram |-> Word("code")]
  /\ enable = {} /\ pending = {} /\ active = {}
  /\ prio = [i \in Irqs |-> 0]
  /\ stPending = FALSE /\ psvPending = FALSE /\ stManual = FALSE
  /\ phase = "exec"
  /\ live = {} /\ base = MspInit
  /\ saved = Origin

Next ==
  \/ Plain \/ ItBlock \/ Push \/ Pop \/ HandlerReturnBx \/ HandlerReturnPop
  \/ Svc \/ Undefined \/ Stop \/ Breakpoint
  \/ SetMasks \/ MsrPsp \/ MsrControl
  \/ IcsrWrite \/ FaultStatusClear \/ NvicWrite \/ InjectIrq
  \/ TickAndDispatch

Spec == Init /\ [][Next]_vars

-----------------------------------------------------------------------------
(* Properties *)

\* Every variable keeps its type: the ranges nvic_t, scb_t and cpu_t give them.
TypeOK ==
  /\ cpu \in Cpus
  /\ mem \in [Ram -> Slots]
  /\ enable \subseteq Irqs /\ pending \subseteq Irqs /\ active \subseteq Irqs
  /\ prio \in [Irqs -> Prios \cup {0}]
  /\ stPending \in BOOLEAN /\ psvPending \in BOOLEAN /\ stManual \in BOOLEAN
  /\ phase \in {"exec", "irq"}
  /\ live \subseteq Ram /\ base \in Int /\ saved \in Contexts

\* The code that runs is the code the mode says: thread code in Thread mode,
\* in Handler mode the handler of the exception IPSR names.  It takes matching
\* frames on the right stack through every entry and return.
ControlIntegrity ==
  \/ cpu.mode = "thread"  /\ cpu.pc = Main
  \/ cpu.mode = "handler" /\ cpu.pc = cpu.ipsr

\* No exception frame is ever written over words that code pushed and has yet
\* to pop, whichever stack it was using when it was interrupted.
LiveWordsIntact == \A s \in live : mem[s].tag = "word"

\* An active interrupt is one whose handler is running: dispatch sets the bit
\* and the return of that very handler takes it back.
ActiveIsRunning == \A i \in active : cpu.mode = "handler" /\ cpu.ipsr = ExcOf(i)

\* Thread code resumes after an exception with the stack, the stack selection
\* and the link register it was interrupted with, at the same place, whatever
\* the handler did to CONTROL and to its own stack.
ResumesThread ==
  cpu.mode = "handler" /\ cpu'.mode = "thread"
    => /\ cpu'.sp = saved.sp /\ cpu'.spsel = saved.spsel
       /\ cpu'.lr = saved.lr /\ cpu'.pc = saved.pc
ThreadResumes == [][ResumesThread]_vars

\* A pending interrupt is only given up by the dispatcher by entering its
\* handler (firmware may clear it through ICPR).
NoInterruptDropped ==
  [][ \A i \in pending : i \notin pending' /\ phase = "irq"
        => cpu'.pc = ExcOf(i) /\ cpu'.mode = "handler" ]_vars

-----------------------------------------------------------------------------
(* The inductive invariant behind ControlIntegrity, LiveWordsIntact and    *)
(* ThreadResumes, for firmware whose handlers do not nest and whose two    *)
(* stacks cannot run into one another.                                     *)

FlatFirmware ==
  /\ "nested" \notin Uses
  /\ \A s \in Ram : s > 0
  /\ PspInit > 0
  /\ \E g \in PspInit .. (MspInit - 1) : g \notin Ram

\* An unmapped slot between the two stacks.
Gap == CHOOSE g \in PspInit .. (MspInit - 1) : g \notin Ram

\* The words W of a stack lie between its pointer and its origin; of the
\* process stack only once it has been set up.
MainStackAt(W, m) == /\ Gap < m /\ m <= MspInit
                     /\ \A s \in W : s > Gap => m <= s /\ s < MspInit
ProcStackAt(W, p) == /\ 0 <= p /\ p <= PspInit
                     /\ \A s \in W : s < Gap => p # 0 /\ p <= s /\ s < PspInit

ThreadStacks ==
  /\ cpu.mode = "thread"
  /\ \/ cpu.spsel /\ cpu.sp # 0 /\ MainStackAt(live, cpu.msp) /\ ProcStackAt(live, cpu.sp)
     \/ ~cpu.spsel /\ MainStackAt(live, cpu.sp) /\ ProcStackAt(live, cpu.psp)

\* The slot the handler's EXC_RETURN value pops.
FrameAt == PopBank(cpu, cpu.lr)

HandlerStacks ==
  /\ cpu.mode = "handler" /\ cpu.ipsr \in Excs /\ cpu.lr \in ExcReturns
  /\ base = cpu.msp /\ cpu.sp <= base
  /\ MainStackAt(live, cpu.sp) /\ base <= MspInit /\ ProcStackAt(live, cpu.psp)
  /\ \A s \in live : s > Gap /\ s < base => mem[s].lr = cpu.lr
  /\ FrameAt \in Ram /\ FrameAt \notin live
  /\ FrameAt < IF cpu.lr = "FD" THEN PspInit ELSE MspInit
  /\ saved.pc = Main /\ saved.sp = FrameAt + 1 /\ saved.spsel = (cpu.lr = "FD")
  /\ mem[FrameAt].pc = Main /\ mem[FrameAt].lr = saved.lr

\* A core that stopped in the middle of an instruction does not run again.
Dead == cpu.halted /\ phase = "exec"

\* Each stack pointer stays within its own stack, and a handler's return value
\* always leads to the frame exc_enter pushed for it: no overflow, MSR CONTROL
\* or early return makes a handler pop another frame.
StackDiscipline == Dead \/ ThreadStacks \/ HandlerStacks

StackInv == ControlIntegrity /\ LiveWordsIntact /\ StackDiscipline

-----------------------------------------------------------------------------
(* A statement of the sources the code does not keep *)

\* nvic.c:125: EXC_RETURN 0001 returns to Handler mode, so the code of a
\* handler never runs in Thread mode.
HandlerCodeInHandlerMode == cpu.pc \in Excs => cpu.mode = "handler"
=============================================================================
