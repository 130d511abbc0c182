# LECERF in TLA+

LECERF is an emulator of ARM Cortex-M cores in C11: an interpreter and a block
JIT over a memory bus with a handful of peripherals, with exceptions and
interrupts, recording and time travel, a gdb stub, and a small C and Python
API.  This directory holds a verification project for it: modules translated
from the C sources, configurations that check them with TLC on small instances,
and proofs for all values of the constants with TLAPS.

Paths below are relative to the repository (`core/` is `src/core/`, `periph/` is
`src/periph/`).

## 1. The system

Everything runs in the host's own thread.  There is no parallelism inside a
board; what makes the code hard is *where in the instruction stream* things
happen: a handler is entered between any two instructions, the host calls in
between any two runs, a chain of compiled blocks hides instruction boundaries,
and time travel replays all of it from the middle.

| component | state | operations | interacts with | what is hard | what makes it correct |
|---|---|---|---|---|---|
| exception model, `core/nvic.c` | mode, IPSR, CONTROL, r[SP] with its two banks, the frames in memory; NVIC enable, pending, active, priority | `exc_enter`, `exc_return`, `raise_fault`, register writes, `nvic_pick` | executor (SVC, faults, BX/POP to EXC_RETURN), run loop (dispatch), bus (stacking can fail) | three copies of two stack pointers, entry at any instruction, failing half way, nesting | a frame never lands on live words; return finds the frame of its entry; a thread resumes as it was; active = running; no pending line lost |
| SCB, `periph/scb.c` | PendSV and SysTick pending, fault status | ICSR, CFSR, HFSR writes | dispatch | set and clear in one store | a request is taken back by dispatch or firmware only |
| run loop, `core/run.c` | decode cache (process global) | `run_steps_full_gc`, `_gdb`, `run_until_cycle`, `irq_safe_budget` | all of them | order of execute, tick, dispatch; a chain stands for many iterations | every pending exception is looked at after every instruction or block; a chain equals its instructions |
| JIT, `core/jit.c` | blocks, direct-mapped lookup, hit counters | `jit_run`, `jit_run_chained`, `jit_flush` | code generator, run loop, snapshots | two addresses in an entry, table full, flush in the middle | what lookup answers is the block of that address in this generation; budget kept; code fresh |
| code generator, `core/codegen.c` | code buffer and cursor | `codegen_emit` | JIT, bus (helper calls) | estimate against real size; jump distances added up by hand; host flags turned into APSR; two exits | thunks apart, buffer not overrun, thunks whole; a thunk does what the interpreter does, returns, and gives the host its registers back |
| time travel, `core/tt.c` | event log, frame store, snapshots and index, replay flag | record, `tt_on_cycle`, `tt_rewind`, `tt_step_back`, `tt_replay` | run loop, NVIC, ETH, UART, JIT | events of one cycle, zero-cycle instructions, full tables, going back and on | going back ends in a recorded state of the target cycle, always returns |
| executor, `core/executor.c`, `core/cpu.c` | registers, flags, IT state, halted | one instruction | bus, exception model, JIT | IT blocks, carries and shifts at the ends of the word, lists that fail half way | sums, shifts, products and bits as in the architecture; an IT block executes what its conditions say; a push is undone by its pop |
| decoder, FPU | none | one halfword or word; one float operation | executor, JIT | fields left unwritten | one meaning for each pattern (pure) |
| bus, `core/bus.c` | regions | read, write | all | width at a region's end, first match | an access lies in one region or does nothing |
| SysTick, DWT, MPU, UART, ETH, STM32 stubs | registers | MMIO, tick | run loop, time travel | reload in a batch of ticks, ring overflow | every period raises one request |
| gdb stub, `core/gdb.c` | breakpoints, stepping, connection | serve, should_stop | run loop, JIT, a debugger over a socket | acknowledgements not told from other bytes, a breakpoint inside a chain, connection loss | answers match questions; stops when asked and only then; the two ends never both wait |
| board and C API | all of a core's parts | create, flash, run, inject, drain, destroy | Python package | two boards in one process | boards do not see each other |

`PROJECT.json` lists all of them under "components" with what is not modelled
and why, and every hazard at its line.

## 2. Modules

### ExcCore: exceptions, stacks and dispatch

State: the part of `cpu_t` that `exc_enter` and `exc_return` read or write
(`cpu`), the stack memory (`mem`), the NVIC words as sets of lines, the three
pending flags outside the NVIC, and `phase`, which splits an iteration of
`run_steps_full_gc` into "execute" and "tick and dispatch".  Three history
variables serve the properties only: `live` (slots holding pushed words),
`base` (the stack pointer a handler started with) and `saved` (what the
interrupted thread looked like).

* One action per kind of instruction, with all it calls: `Push`, `Pop`, `Svc`,
  `HandlerReturnBx`, `HandlerReturnPop`, `Undefined`, `MsrControl`, ... `Plain`
  stands for every instruction that touches none of this state.
* `exc_enter`, `exc_return`, `Entered`, `Returned`, `Synced` follow the C
  functions statement by statement, the failing paths included: a failed push
  has already synchronised the bank, a failed return has already cleared the
  active bit.
* `TickAndDispatch` is the label `check_irqs_gc`: SysTick, PendSV, `nvic_pick`,
  in that order, in Thread mode with masks open, and the result of `exc_enter`
  thrown away.  Whether SysTick fires is a free choice.
* Abstractions: a stack slot is a frame or what one push occupies (regions are
  contiguous, so stacking fails on the first, lowest, word or not at all);
  `pc` names the code that runs; general registers other than SP and LR are
  left out, as are the vectors (a vector table is mapped).  Firmware is free but
  pops what it pushed, sets up its process stack once, and returns from a
  handler by BX LR or POP {PC} at the stack depth it was entered with.
* `Uses` switches facilities on (process stack, FAULTMASK, BASEPRI, PENDSTSET,
  undefined instructions, nesting) so that each run can afford what it is about.
  `NvicWired` tells the legacy entry points (`g_nvic_for_run` set) from
  `board_run`, where it is NULL.

### JitCache, MCJitCache: block cache and code buffer

State: `blocks`, `nBlocks`, the lookup table, counters, `used` (the cursor of
the code buffer), and the call of `jit_run_chained` in progress.  Actions: the
run loop starts a chain with any budget, a block is found and run (`JitHit`),
counted (`JitCount`: the chain ends) or compiled and run (`JitCompile`, with the
generation reset inside), the chain ends, one instruction is interpreted, and a
snapshot is restored with its flush (`tt_attach_jit` has been called).  What
instructions do is left out: after a block any address may be next, the core may
have halted and PendSV may be requested.  `Codes` says what memory can hold at
an address: how many instructions to the terminator, whether all have a native
form, and how many bytes it takes.  Firmware may store to its own code.
A counter that reached the threshold stays there in the model: `jit_run` only
compares it with the threshold.
`jit_flush` is always called from one thread and between or before blocks.

### RunLoop: where time passes and exceptions are looked at

State: the SysTick registers (`st`), PendSV, "an NVIC line can be picked", mode
and masks, and where `run_steps_full_gc` is: its counter, the call of
`jit_run_chained` (`chain`) and of `jit_run` (`block`) under it.  One action per
turn: budget and entry of the chain, start of a block, one instruction of it
(completing, failing inside native code, halting), return of the chain with the
batched tick, the interpreter's instruction with its tick, dispatch.  Firmware
does anything at any instruction: programs SysTick, requests or clears PendSV,
pends and enables lines, masks, enters and leaves handlers, halts; native blocks
are limited to what `codegen_supports`.  Whether an address is compiled is free.
History: `ref`, a
SysTick that is ticked at every instruction; `wait`, for how many instructions
PendSV could have been taken; `retired`.

### TimeTravel: record, snapshot, rewind, replay

State: a machine `m` that remembers all it has observed (what was pending before
which instruction), the log, frame store, snapshots, a blob of the host's, and
the call in progress, followed step by step.  If this machine ends in a recorded
state, every deterministic one does, because it keeps strictly more history.
`prog` gives each instruction a cost of a cycle or none: SVC, exception returns
and undefined instructions leave `execute` before `cycles` is advanced.  The
host may run, inject, take snapshots and go back in any order; `past` is what
the recording went through.  The searches `ev_log_seek` and `tt_bsearch_le` are written
as their loops: one round (`Halved`, `SnapHalved`) is a function on ranges, and
`Iterated` applies it as often as there are entries, after which a round changes
nothing.  The loop of `run_until_cycle` injects one due event per step
(`InjectEvent`) before it executes (`GoOn`).  The UART queue, the checksum and the
snapshot files are left out, and so is the size check of `snap_save`.

### Alu: words, flags, conditions

Operators only, for words of any even number of values (`Sign` is the weight of
the top bit): the flag functions of `core/cpu.c`, what the host's `add`, `sub` and
logic instructions leave in EFLAGS and what `emit_flags_nzcv` makes of them, the
three copies of the condition test in `core/executor.c`, and ARM's
`AddWithCarry` as the reference.

### Interp, Fetch, Bits: one instruction, one block

Interp is `execute` as a function from a machine (registers, APSR, ITSTATE,
halted, memory bytes) and a decoded instruction to the machine after it and the
answer of `execute`.  A word has `Width` bits and a byte a quarter of them, so
that a word is four bytes as in the code.  What the switch of `execute` writes out
for each operation is kept in two tables, `DataOps` (function, second operand,
when flags are set) and `Accesses` (direction, size, sign, how the address is
formed); IT blocks, branches, register lists, bit fields, products, table
branches and compare-and-branch have operators of their own.  `insn_t` is the set
of decoded instructions.  Module Bits defines the operators `&`, `|` and `^` of C
on numbers, from the lowest bit up.  The order of the
checks and of the writes is that of the code: a list that meets the end of a
region leaves what it has done, the base is written last, PC is advanced unless
the instruction wrote it.  `bus_read` and `bus_write` are the region search of
`core/bus.c`.  Operations that enter or leave exceptions or touch masks and stack
banks are in ExcCore.

Fetch is the decoding loop of `compile_block`: one `insn_t` on the stack for all
instructions of a block, of which `decode` writes only the fields of its group.
`Decoded` hands `set_flags` on from one instruction to the next accordingly.

### Block, InterpProps, MCBlock: what a block means

Block is the abstract specification of running a block: one step, from the
machine before to the machine after interpreting its instructions at PC one by
one (`Run`).  `Atomic` is what every implementation may do; it leaves open how far
a block got whose access failed, because then the core is halted.  InterpProps
states what programs must do without the formulas of Interp: by exact integers,
bit by bit, by ARM's condition table, or by what the next instruction undoes.
MCBlock has the programs and the machines they start with.

### Codegen, Native, MCNative: compiled blocks

Codegen translates `codegen_emit` with all `emit_*` functions: each ARM instruction
becomes a sequence of x86 instructions, records of operation, operands and length
in bytes.  Encodings are abstracted to that; lengths are kept because the jumps in
a thunk are byte distances that the C code adds up by hand.  `codegen_supports`
and `insn_native_ok` are there, so a block is compiled exactly if the code does.

Native is `jit_run` for one block.  The host is a record of registers, EFLAGS,
stack and position; one step executes one x86 instruction, calls of `bus_read`
and `bus_write` clobber the volatile registers, an update of the flags clobbers
its scratch registers and the caller's rsi, and a jump goes to the instruction
at its byte distance, or nowhere.  A block without a thunk, or whose thunk reports
failure, goes to the loop of `jit.c:92-106`, which does nothing once the core is
halted and sets PC to the next decoded address whatever the instruction before
it did.  `BlocksAssumption` says what `jit_run` is given: a block is a nonempty
sequence of `insn_t`, and the machines it starts with are machines (`IsMachine`, the part of
`cpu_t` and the memory that instructions see).  Native implements Block: `Promise` is an instance of
Block in which the machine is the one `jit_run` was called with until it has
returned.  Blocks with a known difference (section 3) are not among MCNative's.

### Gdb, MCGdb: remote debugging

State: `gdb_t` (`g`), PC and halted, where `run_steps_full_gdb` and `gdb_serve`
are (`phase`, `back`), both directions of the connection, and the debugger at the
other end, which is external: it sends a packet at its prompt, waits for the
acknowledgement and the answer, acknowledges answers, may send the interrupt byte
while the program runs, and may go away at any moment.  Actions of the stub:
`gdb_send` up to its blocking read of one byte, `gdb_recv_packet` with what it
skips, one action per command.  Actions of the loop: the test of
`gdb_should_stop`, the chain of compiled blocks (whose budget and length are
free), the interpreter, dispatch (PC may become a handler's).  The program is a
graph of addresses.  History: `resumed`, how the program was resumed and how many
instructions it has executed since.  `ProgramClosed` says that instructions and
exceptions lead to addresses of the program.  Memory and register reads are one command;
only writing PC matters to what is modelled.  A packet is sent whole or not at
all.

### Abstraction levels

Native implements Block (checked refinement), and Block is Interp folded over
Fetch.  RunLoop is `TickAndDispatch` of ExcCore seen from the clock's side.  The
other modules compose by shared interface: JitCache, RunLoop, Gdb and TimeTravel
see the core as "an instruction or a block ran", and the properties of one level
are what the others assume (a found block is fresh; a block is its
instructions; the machine is deterministic).

## 3. Runs

Every configuration is a question.  `pass` runs explore everything within their
bounds.

| run | bounds | states | what it shows |
|---|---|---|---|
| `exc_irqs` | 2 lines, 2 priorities, IT of 1, BASEPRI, faults, room for 2 frames | 269k | `ActiveIsRunning`, `NoInterruptDropped`: two lines are needed for one to be pending while the other is picked, two priorities to pick against number order |
| `exc_stacks` | 1 line, main stack of 2 slots, process stack of 1, 2 pushes | 692k | `ControlIntegrity`, `LiveWordsIntact`, `StackDiscipline`, `ThreadResumes`: both stacks can hold a word and overflow, and the slot between them is unmapped |
| `jit_cache` | 3 addresses on 2 entries, 2 blocks, threshold 2, blocks of 1 and 2, one of them longer than its estimate | 1.4M | `LookupSound`, `ThunksApart`, `WithinBuffer`, `NoOvershoot`, `FreshCode`, `EstimatedIsWhole`: two addresses collide, the table fills, the buffer is too small for all, and firmware stores to its own code |
| `run_loop` | runs of 4, blocks of 2, reload 0 or 3 | 751k | `TickExact`, `OneReloadPerChain`, `PendsvPrompt`, `RunExact`, and `RunReturns` under fairness: a chain of two blocks fits a run, a block fits the period with one instruction over, and a chain may start at any point of the period |
| `time_travel` | 3 instructions, 2 events, 2 frames, 2 snapshots | 307k | `SeekExact`, `BackToThePast`, `BackInTime`: two events at one cycle, before and after a snapshot, with any number of rewinds |
| `time_travel_limits` | log of 1, store of 1, zero-cycle instructions, host runs on after going back | 724k | `SnapsSpaced`, `FramesMatch`, and `CallReturns` under fairness |
| `interp` | words of 8 bits, bytes of 2; a read-only region [0, 40) and a writable one [64, 88); every arithmetic form on words around zero, the sign bit and the largest; all 15 IT masks, 3 conditions, all flags; addresses around the ends of the regions | 36k | `SumsExact`, `ShiftsExact`, `ProductsExact`, `BitsExact`, `ItExact`, `AccessExact`, `RoundTripExact` |
| `native` | the same words and regions; every compiled operation; lists one shorter, as long as and one longer than each jump reaches over; 14 conditions on all flags and behind comparisons; a block for each reason not to compile | 102k | `RunsAsInterpreted` (Native implements Block), `CalleeSaved`, and `Returns` under fairness |
| `gdb` | 2 addresses in a loop, table of 2, blocks of 2, runs of 4, 6 packets or interrupt bytes | 458k | `InSync`, `StopsAsAsked`, and `Replied` under fairness |

Two events of one cycle, one entry too many for a table, one collision and one
address that stays apart are the cases these modules branch on; a third of any
takes the same branches.  Eight bits hold every case of the arithmetic: each
formula of the code looks at the top bit, a carry, or a byte border, and the flag
functions are proved for every width.  Shift amounts of a whole word and more are
8 and above there.  The regions are shorter than the longest list, so every access
can fail at its first, a middle and its last word.  In `gdb` six packets are
enough to fill the table, meet the refusal, remove the first of two entries,
resume, break in and stop again.

Deadlock is not checked in the JitCache runs (a halted core), in the TimeTravel
runs (halted firmware and a host with nothing left to do), in `interp` and `native`
(a finished block) and in the Gdb runs (a run that has ended); there the liveness
properties say what must be reached.

**Fairness.**  `CallReturns` assumes weak fairness of `Back`, `RunReturns` of `Loop`,
`Returns` of Native's `Next`: code of the calling thread (`run_until_cycle`,
`run_steps_full_gc`, `jit_run` and the thunk), which goes on as long as it is
scheduled.  `Replied` assumes weak fairness of the stub and the loop together, one
thread, and of the debugger's reading (`Hear`).  Nothing is assumed about the
host, the firmware, or what the debugger's user does.

**Violations.**  These runs state a sentence of the sources and show an execution
of the code that does not keep it; `PROJECT.json` "findings" quotes each:

* `exc_nested`: an exception taken in a handler returns to Thread mode.
* `native_flags`: behind an instruction with the S bit, a compiled MOV Rd,Rm sets
  N and Z, which the interpreter leaves alone.
* `gdb_breaks`: a breakpoint inside a chain of compiled blocks is passed.

**Other disagreements** met while modelling.  The modules do what the code does;
no run is spent on them:

* After a return to thread code IPSR is the number of the exception left, as
  `exc_enter` stacks the new number (nvic.c:107; cpu.h:35 "0 if Thread mode").
* r[SP] and its bank differ after any push; MRS MSP/PSP reads the bank
  (executor.c:1235; cpu.h:52 "r[SP] aliases active SP").
* BKPT halts the core and an interrupt may still be entered in the same
  iteration (executor.c:596; cpu.h:65 "CPU stopped").
* A line of priority 0xFF is never picked (nvic.c:61; nvic.h:50).
* A hit counter is shared by all addresses of a table entry, so a block may be
  compiled on its first start (jit.c:76; jit.h:10).
* A thunk cut off at the end of the code buffer is installed as native: nine
  registers of a PUSH take three times the 160 bytes set aside (codegen.c:16,
  1372; jit.h:32 "non-NULL = compiled to x86 machine code").
* `run_until_cycle` ends early when an instruction takes no cycle (run.c:264;
  tt.h:188 "stops when c->cycles >= target_cycle").
* Inside a chain SysTick and CYCCNT stand still: firmware polling COUNTFLAG or
  CYCCNT spins to the end of the budget (run.c:101-103; dwt.h:9 "free-running").
* A chain that begins with a failing native block counts nothing, and one more
  instruction of the halted core is interpreted (run.c:99; cpu.h:65).
* A block whose code firmware has stored to stays in use (jit.c:80), while a
  snapshot restore drops it: a rewound run may then differ from the original
  (README.md:107).  `FreshCode` says that this is the only such case.
* After `tt_rewind` a plain run meets none of the logged events (tt.c:302;
  README.md:107 "forward-runs byte-equally").
* `tt_replay` returns false for a target before the snapshot after it has
  restored the snapshot (tt.c:231; tt.h:196).
* An interrupted IT block is not resumed: entry and return clear ITSTATE without
  stacking it (nvic.c:137, 187; cpu.h:57 "T bit + IT state", cpu.h:66).
* Under `board_run` an interrupt line is taken once: the active bit is cleared
  through a global that only the legacy entry points set (nvic.c:144; nvic.c:143
  "Clear active bit for the IRQ we are returning from").  ExcCore has both wirings.
* A SysTick request that is unmasked inside a chain waits for the next reload, and
  one of the two is lost (jit.c:120, run.c:75; run.c:56-57 "each reload fires as a
  separate irq_pending event (not silently coalesced)").
* A replay misplaces events around instructions that take no cycle: the log orders
  by cycle only (run.c:254; README.md:87-88 "a pure function of (initial state,
  ARM cycles, external events)").
* Recording after a rewind appends smaller cycles, and the binary search runs on an
  unsorted log (tt.c:302; tt.c:42 "index of first entry with cycle >= target").
* The enable and pending words have bits for lines 240 to 255, for which the pick
  reads past `prio[239]` (nvic.c:20, 61).
* PENDSTSET sets `systick_pending_manual`, which nothing reads (run.c:122).
* `snap_save` refuses boards with less than 256 KB of SRAM, so they record no
  snapshot, and the caller does not look (tt.c:117, 282).
* Native code does not advance `cycles` (jit.c:85), so cycle stamps depend on
  which blocks are compiled.  On other hosts than Windows `board_create` leaves
  `jit` NULL (board.c:41-50).
* Interpreter and architecture, without a document that says otherwise: shifts
  leave the carry; LSR and ASR of a shifted operand with amount 0 do not shift by 32
  (executor.c:45-55); LDM {.., PC} does not recognise EXC_RETURN (executor.c:1154);
  B<cond>.W with condition AL is not taken.
* Native code and interpreter (14-03-PLAN.md and 14-02-PLAN.md promise equality
  for what their tests cover).  MCNative leaves these forms out: the shift of LDR.W,
  STR.W, CMP.W and CMN.W with registers is ignored (codegen.c:1214-1281); the
  literal load subtracts nothing (codegen.c:1260); PC as an operand of MOV and CMP
  reads the address of the block's start; LDRD whose first register is the base; LDM with
  the base in its list; a block that starts inside an IT block.  After a failing
  access a thunk goes on to the end of the block; the core is halted then, which
  `Atomic` allows for.
* An interpreted block overrides a PC that an instruction in its middle has
  written (MOV PC, ADD PC, a fault entered by `raise_fault`; jit.c:100).
* The out slot of the helper calls is at [rsp+0] of a frame without room for the
  callee's four words (codegen.c, `sub_rsp_16`; 14-02-PLAN.md:18).  The model keeps
  the slot intact.  The helpers are called with rsp at 8 mod 16, as it is at the
  entry of the thunk (codegen.c:262-264), where Win64 asks for 0 and 14-02-PLAN.md:18
  promises "rsp 16B-aligned at call"; the alignment of rsp is not modelled.
* Bytes 44 89 C8 commented `mov r10d, ecx` (codegen.c:697, 741, 896, 949) encode
  `mov eax, r9d`; they are in the PC paths that `insn_native_ok` makes unreachable.
* gdb: the first `s` after connecting executes nothing (run.c:150-157); an
  interrupt byte while the program runs waits for the next stop and is answered
  with an empty packet (gdb.c:47); a write to memory invalidates neither decoded
  nor compiled code; after the connection is lost the program runs on; a
  breakpoint set twice takes two removals.

## 4. Proofs

| module | theorem | assumption beyond the module's | statement |
|---|---|---|---|
| ExcProofs | `TypeCorrect` | | `Spec => []TypeOK` |
| ExcProofs | `ControlKept`, `StacksKept`, `FramesFound` | `FlatFirmware` | `Spec => []ControlIntegrity`, `[]LiveWordsIntact`, `[]StackDiscipline` |
| ExcProofs | `ThreadsResumeExactly` | `FlatFirmware` | `Spec => ThreadResumes` |
| ExcProofs | `ActiveRuns` | `FlatFirmware`, `DeepStacks`, `NvicWired` | `Spec => []ActiveIsRunning` |
| ExcProofs | `NothingDropped` | the same | `Spec => NoInterruptDropped` |
| JitCacheProofs | `TypeCorrect`, `CacheSound`, `NativeCodeApart`, `BufferKept` | | `Spec => []TypeOK`, `[]LookupSound`, `[]ThunksApart`, `[]WithinBuffer` |
| JitCacheProofs | `BudgetKept` | | `Spec => []NoOvershoot` |
| JitCacheProofs | `CodeStaysFresh` | | `Spec => []FreshCode` |
| JitCacheProofs | `NativeIsWhole` | | `Spec => []EstimatedIsWhole` |
| RunLoopProofs | `TypeCorrect`, `RunsToTheStep` | | `Spec => []TypeOK`, `[]RunExact` |
| RunLoopProofs | `OneRequestPerPeriod` | | `Spec => []OneReloadPerChain` |
| RunLoopProofs | `PendsvWithinBlock` | | `Spec => []PendsvPrompt` |
| RunLoopProofs | `TicksExactly` | | `Spec => []TickExact` |
| TimeTravelProofs | `TypeCorrect`, `SnapsStaySpaced`, `FramesStayMatched` | | `Spec => []TypeOK`, `[]SnapsSpaced`, `[]FramesMatch` |
| TimeTravelProofs | `SeekCorrect`, `SnapFound` | | the two binary searches find the entry they are for, in every sorted table |
| TimeTravelProofs | `SeekStaysExact` | `"inject" \notin After` | `Spec => []SeekExact` |
| TimeTravelProofs | `BacksIntoThePast`, `BacksInTime` | `PureRecording` | `Spec => BackToThePast`, `Spec => BackInTime` |
| GdbProofs | `StaysInSync` | | `Spec => []InSync` |
| GdbProofs | `StopsWhereAsked` | | `Spec => StopsAsAsked` |
| AluProofs | `AddFlagsExact`, `SubFlagsExact` | | the two flag functions compute result, carry and overflow of ARM's `AddWithCarry` |
| AluProofs | `NativeAddFlags`, `NativeSubFlags` | | EFLAGS after the host's `add` and `sub`, the carry of the latter complemented, make the interpreter's APSR |
| CodegenProofs | `ThunkSound` | | what `codegen_emit` makes of any compilable block is `Sound`: stack and saved registers are in step at every instruction, failure is reported by a halted core only, and every jump distance leads to the start of one |
| NativeProofs | `TheCallerGetsItsRegistersBack` | | `Spec => []CalleeSaved` |
| NativeProofs | `JumpsLandOnInstructions` | | `Spec => []InsideThunk`: native code is at an instruction of its thunk until RET |
| NativeProofs | `AccessesFindTheirStructures` | | `Spec => []FrameHeld`: r15 and r14 hold what accesses and calls need |
| NativeProofs | `ExecutedOnce` | | `Spec => NeverTwice`: no instruction of a block with a thunk is interpreted |
| NativeProofs | `ThunksRunForward` | | `Spec => OnlyForward` |
| AluProofs | `ConditionCopiesAgree` | | the IT copy of the condition test is `cond_pass`; the one of B<cond>.W agrees below AL |

*Stacks.*  `FlatFirmware` says that handlers take no exception and that an
unmapped slot separates the two stacks.  Neither `ControlIntegrity` nor
`ThreadResumes` is inductive: that a return finds its frame depends on where
every stack pointer may be.  `StackInv` adds `StackDiscipline`: the pushed words
of a stack lie between its pointer and its origin, in Thread mode for the pair
(r[SP], other bank), in Handler mode for r[SP] and the process bank; the frame
the link register leads to (`FrameAt`) is in memory, not among the pushed words,
and holds the thread's context; a pushed link register equals the handler's; and
a core that stopped inside an instruction stays stopped (`Dead`).  The proof has
one lemma per operation that moves a stack pointer (`Push`, `Pop`, entry from
either mode, return, `MSR`), one that says a step leaving the stack fields alone
keeps the invariant, and a case split over `Next`.  TLC checks `StackDiscipline`
in `exc_stacks`.  Without `FlatFirmware` the first two properties are false
(`exc_nested`).

*Interrupts.*  That an active line is the one whose handler runs is not inductive:
dispatch sets the active bit first and does not look at the result of
`exc_enter`, so where the frame does not fit the bit stays set in Thread mode and
the interrupt is lost.  Hence `DeepStacks`: every stack in use has room for the
words firmware pushes and a frame.  `ActiveInv` conjoins `ActiveIsRunning` with
what makes stacking succeed: no more than `MaxPush` words are pushed (`Few`),
firmware without a process stack does not select one (`OneStack`), and, unless
the core stopped inside an instruction, every slot between a stack pointer and
its origin holds a pushed word or the frame (`Unbroken`), so that the depth of a
stack is the number of its words.  `NvicWired` is needed because `board_run`
never clears an active bit (section 3).

*Cache.*  The invariant conjoins `TypeOK`, `LookupSound`, `ThunksApart`,
`WithinBuffer` and the chain's budget; compilation is the one interesting step,
split on whether the table was full.  `FreshCode` needs one history variable,
`stored`, the addresses firmware stored to since they were last compiled.
`EstimatedIsWhole` is about blocks whose bytes stay within what `codegen_emit`
sets aside, which the real encoder does not guarantee.

*Run loop.*  None of the properties is inductive: `RunExact` speaks of the end of a
run only, `OneReloadPerChain` needs the budget a chain was given.  `LoopInv`
conjoins `TypeOK` and five parts: at every place of the loop what is not in use is
at rest (`Places`); the chain's budget fits what is left of the run, and the next
block fits the budget (`Room`); what has completed is the counter plus what is not
counted yet (`Counted`); the budget of a chain does not exceed the period
(`Capped`); and PendSV has waited for no longer than the current block (`Waits`).
`RunAssumption` asks for blocks of more than one instruction (the code has 32):
where the entry of SysTick fails, PendSV waits for one instruction more.
`TickExact` is inductive relative to `LoopInv`;
its substance is the lemma `TickAdds`, `Tick(Tick(s, n), 1) = Tick(s, n + 1)` for
all registers and all n, which rests on what `%` does at the next number.

*Time travel.*  `SnapsSpaced` and `FramesMatch` are inductive beside `TypeOK`, also
when the host goes back and runs on.  The searches are proved by a lemma on loops
(`LoopEnds`: rounds that stay in a set and shrink a size reach size 0), itself by
induction over a set of numbers (`NatSetInduction`, from the least element that
`WellFoundedInduction` provides).  `SeekExact` needs the log in order, which
injecting after going back destroys.  `PastInv` is the invariant of going back.
The log is in order and its frames are in the store (`InOrder`, `FramesMatch`,
`Stored`); while recording, the state, the log and the snapshots are those of one
history (`Recording`), whose state at each cycle can be written down from the
log: `Arrival` before the events of that cycle, then each event in turn
(`Passed`); snapshots and the host's blob are states of that history (`Kept`);
and a call under way has reproduced the history up to the current cycle, with
exactly the events before its position in the log injected (`Replaying`).
`PureRecording` asks for instructions of at least one cycle, no overflow of log
and store, and a host that does nothing new after going back.  Each is needed:
the disagreements in section 3 are what happens without them.  The theorems say
where a call ends if it ends; that it ends is `CallReturns`.

*Debugger.*  `SyncInv` is `Typed` with `Conversation`: what may be in the two
directions of the connection, in the debugger's state and in the stub's phase, at
the same time.  The point is that `gdb_send` takes any byte for an
acknowledgement.  At its prompt the debugger's last acknowledgement may still be
under way; a command it has sent is followed by one acknowledgement and one
answer and by nothing else that it could take for its answer, for any number of
interrupt bytes and of reports nobody asked for.  `StopInv` adds `BreaksAgree`,
that the stub's table holds every address as often as the debugger believes, once the answer under way is
counted, and `Underway`, that `stepping` and what has been executed fit the way
the program was resumed.  TLC finds both kept within the bounds of `gdb`.

*Flags.*  `SignAssumption` is all that is asked of the word: `Sign \in Nat \ {0}`.
Overflow is stated as "the signed sum is not the signed result", the code tests
three top bits; the proofs split on the top bits of the operands and leave
linear arithmetic to the solver.

*Native code.*  That a thunk gives the caller its registers back says something of
its last instruction only; that the host ever gets there in good order depends on
every jump of every emitter.  CodegenProofs therefore describes a thunk by a
*plan*: a shape for each place (how far the frame is built, whether a helper's slot
is on the stack, whether the core is halted) and the byte offset of each
instruction.  `Rel` says between which shapes an instruction may stand, `LegAt`
that offsets are sums of lengths and that a jump goes forward, from the body into
the body, to the offset of an instruction; code is `Sound` if it has a plan.  Sound
pieces compose (a concatenation, a piece in front of which a jump skips it, the
pair of a fast and a slow path), with induction over the registers of a list and
the instructions of a block, where `Total`, the sum of the bytes the C code adds
up in advance, must equal the length of what is emitted.  There is a lemma for each
emitter, the three forms of the paths of PUSH, POP and LDM/STM among them, and
`ThunkSound` puts the whole block together.  NativeProofs shows first that
`Placed` gives the offsets of the plan and that `Landing` finds the instruction
the plan names, since offsets increase.  `Shape` then says what the host looks like
at each place: what is on the stack, which non-volatile registers are as the
caller left them (none in the body, which sets r15, r14 and rbx for itself and
gathers the flags in rsi), that r15 and r14 hold their pointers, and that the failure
result is returned only with the core halted.  `NativeInv`: in
native code the host is somewhere on a plan of its thunk; the interpreter follows
a thunk only when the core is halted.  One lemma per action shows that the host
goes on along the plan, or leaves it by RET.  The only assumption is
`BlocksAssumption`, that blocks are nonempty sequences of decoded instructions and that they
start with machines; nothing is asked of memory, of the regions or of the width of
a word.  `InsideThunk`, `FrameHeld` and `NeverTwice` are stated in NativeProofs;
they hold for the 102k states of `native` as well.

Every assumption beyond a module's own is a formula on constants, and the
configuration of the run that checks the property meets it (`exc_stacks`,
`exc_irqs`, `time_travel`), so no theorem is about nothing.

Only model-checked: Interp, InterpProps and Block, and with them the refinement
`RunsAsInterpreted`: their operators use powers of two and bitwise operations and
fold over instructions, and what they compute for every input needs induction
over data; what a thunk computes, as opposed to where it goes, is likewise left
to the run `native`.  And every liveness property (`CallReturns`, `RunReturns`,
`Returns`, `Replied`), since TLAPS proves none under fairness.  Of `Returns`, the
safety half is proved: a thunk stays inside itself (`JumpsLandOnInstructions`) and
only goes forward (`ThunksRunForward`), so that it has no more steps than
instructions.

## 5. Not modelled

* Bit patterns of the decoder, floating point: pure functions over large inputs;
  of the decoder only which fields it writes and where a block ends are modelled.
* UART, MPU, DWT and the STM32 register stubs: registers without control, but for
  the UART ring, which overwrites unread bytes when it is full (uart.c:36).
* Two boards in one process, which share the decode cache (run.c:33), the decode
  cache itself, and the life cycle of a board.
* x86 encodings and their register numbers; what a thunk's instructions do is
  taken from the comments and the operation each emitter is named for.
* gdb's hexadecimal formats, bad checksums, a packet cut off by a disconnection.
* The Python wrapper, tools, firmware images, tests, Docker files: I/O and
  formatting.  The context-threaded `exc_return_ctx` has the body of `exc_return`
  and no caller.

## 6. Plan

Done: ExcCore, JitCache, RunLoop, TimeTravel, Alu, Gdb, Codegen and Native with
their proofs; Interp, Fetch and Block (a block interpreted, and the refinement by
Native, model-checked).

Left, in this order:

1. An abstract exception service (entered, returned, in LIFO order) implemented by
   ExcCore, and an abstract one-instruction-at-a-time clock implemented by RunLoop;
   step simulation proved.
2. `FlatFirmware` weakened: handlers that nest, for code whose inner handlers
   leave before they return.
3. The UART with its queue in time travel; DWT beside SysTick in RunLoop.
4. TwoBoards: the shared decode cache under interleaved `board_run` calls.
5. NvicScan: the bit scan of `nvic_pick` shown to compute `Pick`.
