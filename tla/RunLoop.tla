-------------------------------- MODULE RunLoop --------------------------------
(***************************************************************************)
(* The run loop of core/run.c, run_steps_full_gc, with the SysTick timer   *)
(* (periph/systick.c) it drives and jit_run_chained (core/jit.c) under it: *)
(* where in the stream of instructions time passes and exceptions are      *)
(* looked at.  Whether an address is compiled, and what is dispatched to   *)
(* where, are the matter of JitCache and ExcCore.                          *)
(***************************************************************************)
EXTENDS Integers

CONSTANTS
  MaxLen,     \* JIT_MAX_BLOCK_LEN
  Reloads,    \* values firmware writes to the reload register
  MaxRun,     \* longest run the host asks for
  Native      \* whether blocks may have native code

ASSUME RunAssumption ==
  /\ MaxLen \in Nat \ {0, 1} /\ MaxRun \in Nat \ {0}
  /\ Reloads \subseteq Nat /\ Native \in BOOLEAN

VARIABLES
  st,                 \* systick_t
  pendsv,             \* scb_t.pendsv_pending
  irq,                \* nvic_pick finds a line
  mode, masked,       \* of cpu_t; masked: PRIMASK or BASEPRI set
  halted,
  phase,              \* where the loop is
  i, max,             \* its counter, and max_steps
  chain,              \* the call of jit_run_chained: budget, total
  block,              \* the call of jit_run: instructions done, native or not
  ref, touched,       \* history: SysTick ticked at every instruction; firmware
                      \*   has used its registers inside this chain
  retired,            \* history: instructions completed in this run
  wait                \* history: instructions for which PendSV could have been
                      \*   taken and was not (at most MaxLen)

core == <<pendsv, irq, mode, masked, halted>>
history == <<ref, touched, retired, wait>>
vars == <<st, core, phase, i, max, chain, block, history>>

NoChain == [budget |-> 0, total |-> 0]
NoBlock == [done |-> 0, native |-> FALSE, failed |-> FALSE]

-----------------------------------------------------------------------------
(* periph/systick.c *)

\* The counter systick_tick starts from; irq_safe_budget uses the same.
Start(s) == IF s.cvr = 0 THEN s.rvr ELSE s.cvr

\* systick_tick: n cycles at once.  Its loop subtracts the counter, then the
\* reload value as often as it fits.  Mutant: the rest after a reload is lost.
Reloaded(s, n) == s.enable /\ Start(s) # 0 /\ n >= Start(s)
AfterReload(s, n) ==
  [s EXCEPT !.cvr = IF s.rvr = 0 THEN 0 ELSE s.rvr - ((n - Start(s)) % s.rvr),
            !.flag = TRUE, !.pending = s.pending \/ s.tickint]
TickDrops(s, n) ==
  IF Reloaded(s, n) THEN [AfterReload(s, n) EXCEPT !.cvr = s.rvr]
  ELSE IF s.enable /\ Start(s) # 0 THEN [s EXCEPT !.cvr = Start(s) - n]
  ELSE s
Tick(s, n) ==
  IF Reloaded(s, n) THEN AfterReload(s, n)
  ELSE IF s.enable /\ Start(s) # 0 THEN [s EXCEPT !.cvr = Start(s) - n]
  ELSE s

\* How often systick_tick reloads.
ReloadCount(s, n) ==
  IF ~Reloaded(s, n) THEN 0
  ELSE IF s.rvr = 0 THEN 1 ELSE 1 + (n - Start(s)) \div s.rvr

\* st_write, and the read of CSR, which clears COUNTFLAG.
Registers(s) ==
  {[s EXCEPT !.enable = c[1], !.tickint = c[2]] : c \in BOOLEAN \X BOOLEAN}
    \cup {[s EXCEPT !.rvr = r] : r \in Reloads}
    \cup {[s EXCEPT !.cvr = 0, !.flag = FALSE], [s EXCEPT !.flag = FALSE]}

-----------------------------------------------------------------------------
(* What one instruction may do *)

Takeable == mode = "thread" /\ ~masked
Interrupting(s) == s.enable /\ s.tickint

\* What native code is made of: arithmetic, branches, loads and stores, which
\* reach ICSR (PENDSVSET and PENDSVCLR), the NVIC, and SysTick (used): it is
\* left as new.
Store(new, used) ==
  /\ UNCHANGED <<mode, masked>>
  /\ \/ used /\ new \in Registers(st) /\ UNCHANGED <<pendsv, irq>>
     \/ ~used /\ new = st /\ pendsv' \in BOOLEAN /\ UNCHANGED irq
     \/ ~used /\ new = st /\ irq' \in BOOLEAN /\ UNCHANGED pendsv

\* What only the interpreter runs: CPSID, CPSIE and MSR; SVC and undefined
\* instructions; BX and POP to EXC_RETURN, which leave any handler for Thread
\* mode.
System(new, used) ==
  /\ ~used /\ new = st /\ UNCHANGED <<pendsv, irq>>
  /\ \/ masked' = ~masked /\ UNCHANGED mode
     \/ mode' = "handler" /\ UNCHANGED masked
     \/ mode = "handler" /\ mode' = "thread" /\ UNCHANGED masked

Returns == mode = "handler" /\ mode' = "thread"

\* History of an instruction done: SysTick, had it been ticked here.
Waited ==
  IF ~pendsv \/ ~Takeable THEN 0 ELSE IF wait < MaxLen THEN wait + 1 ELSE wait
Done ==
  /\ retired' = retired + 1
  /\ wait' = Waited

-----------------------------------------------------------------------------
(* run_steps_full_gc *)

\* irq_safe_budget.  Mutant: without its cap on SysTick.
PendsvCap(left) == IF pendsv /\ MaxLen < left THEN MaxLen ELSE left
BudgetUncapped(left) == PendsvCap(left)
Budget(left) ==
  IF Interrupting(st) /\ Start(st) # 0 /\ Start(st) < PendsvCap(left)
  THEN Start(st) ELSE PendsvCap(left)

RunStart ==
  /\ phase = "idle" /\ phase' = "loop"
  /\ i' = 0 /\ max' \in 1 .. MaxRun /\ retired' = 0
  /\ UNCHANGED <<st, core, chain, block, ref, touched, wait>>

\* board_inject between two runs.
HostPends ==
  /\ phase = "idle" /\ ~irq /\ irq' = TRUE
  /\ UNCHANGED <<st, pendsv, mode, masked, halted, phase, i, max, chain, block, history>>

LoopEnds ==
  /\ phase = "loop" /\ (i >= max \/ halted)
  /\ phase' = "idle"
  /\ UNCHANGED <<st, core, i, max, chain, block, history>>

LoopChains ==
  /\ phase = "loop" /\ i < max /\ ~halted
  /\ phase' = "chain" /\ chain' = [budget |-> Budget(max - i), total |-> 0]
  /\ UNCHANGED <<st, core, i, max, block, history>>

\* Mutant of Going: the stop flag is not looked at.
GoingOn(c) == c.budget - c.total >= MaxLen /\ ~halted
Going(c) == c.budget - c.total >= MaxLen /\ ~halted /\ ~pendsv

\* jit_run finds a block, or compiles one.
BlockStart ==
  /\ phase = "chain" /\ Going(chain)
  /\ \E native \in {FALSE, Native} : block' = [NoBlock EXCEPT !.native = native]
  /\ phase' = "block"
  /\ UNCHANGED <<st, core, i, max, chain, history>>

\* The block goes on, or ends: at a terminator, or at its full length.  If an
\* access failed in native code the thunk ran to its end, halts the core there
\* and answers false: the block counts for nothing.
BlockOn(b, terminator) ==
  IF terminator \/ b.done = MaxLen
  THEN /\ phase' = "chain" /\ block' = NoBlock /\ halted' = b.failed
       /\ chain' = IF b.failed THEN chain ELSE [chain EXCEPT !.total = @ + b.done]
  ELSE phase' = "block" /\ block' = b /\ UNCHANGED <<chain, halted>>

BlockInstr ==
  /\ phase = "block"
  /\ \E new \in {st} \cup Registers(st), used, terminator, fails \in BOOLEAN :
       /\ \/ Store(new, used) /\ (fails => block.native)
          \/ System(new, used) /\ ~block.native /\ ~fails /\ (Returns => terminator)
       /\ st' = new
       /\ touched' = (touched \/ used)
       /\ ref' = IF touched' THEN new ELSE Tick(ref, 1)
       /\ BlockOn([block EXCEPT !.done = @ + 1, !.failed = @ \/ fails], terminator)
  /\ Done
  /\ UNCHANGED <<i, max>>

\* The interpreter leaves a block at an instruction that halts the core: BKPT
\* is counted, one that fails is not.
BlockHalts ==
  /\ phase = "block" /\ ~block.native
  /\ halted' = TRUE /\ phase' = "chain" /\ block' = NoBlock
  /\ \E n \in {block.done, block.done + 1} : chain' = [chain EXCEPT !.total = @ + n]
  /\ UNCHANGED <<st, pendsv, irq, mode, masked, i, max, history>>

\* Nothing ran, or the address is not compiled: the loop takes one instruction.
\* Mutant: an empty chain counts as a turn.
ChainEmptyTurns ==
  /\ phase = "chain" /\ chain.total = 0
  /\ phase' = "loop" /\ chain' = NoChain
  /\ UNCHANGED <<st, core, i, max, block, history>>
ChainEmpty ==
  /\ phase = "chain" /\ chain.total = 0
  /\ phase' = "interp" /\ chain' = NoChain
  /\ UNCHANGED <<st, core, i, max, block, history>>

\* Something ran: SysTick is ticked for all of it at once.  Mutant of Advanced:
\* the increment of the loop itself is forgotten.
AdvancedTwice(n) == i + n
Advanced(n) == i + n - 1
ChainReturns ==
  /\ phase = "chain" /\ chain.total > 0
  /\ st' = Tick(st, chain.total)
  /\ ref' = IF touched THEN st' ELSE ref
  /\ touched' = FALSE
  /\ i' = Advanced(chain.total)
  /\ phase' = "check" /\ chain' = NoChain
  /\ UNCHANGED <<core, max, block, retired, wait>>

\* cache_decode, execute, systick_tick(1): also after a chain that has halted the
\* core and counts for nothing.
Interpret ==
  /\ phase = "interp"
  /\ \E new \in {st} \cup Registers(st), used \in BOOLEAN :
       /\ Store(new, used) \/ System(new, used)
       /\ st' = Tick(new, 1)
       /\ ref' = IF used THEN st' ELSE Tick(ref, 1)
  /\ halted' \in {halted, TRUE}
  /\ phase' = "check"
  /\ Done
  /\ UNCHANGED <<i, max, chain, block, touched>>

InterpretFails ==
  /\ phase = "interp"
  /\ halted' = TRUE /\ phase' = "idle"
  /\ UNCHANGED <<st, pendsv, irq, mode, masked, i, max, chain, block, history>>

\* check_irqs_gc, and the increment of the loop.  exc_enter may fail before the
\* core is in Handler mode.
TakesTick == Takeable /\ st.pending
TakesPendsv == Takeable /\ ~st.pending /\ pendsv
TakesIrq == Takeable /\ ~st.pending /\ ~pendsv /\ irq
Taken ==
  /\ mode' \in {"handler", mode}
  /\ wait' = 0
CheckIrqs ==
  /\ phase = "check" /\ phase' = "loop" /\ i' = i + 1
  /\ \/ /\ TakesTick /\ Taken
        /\ st' = [st EXCEPT !.pending = FALSE] /\ ref' = [ref EXCEPT !.pending = FALSE]
        /\ UNCHANGED <<pendsv, irq>>
     \/ TakesPendsv /\ Taken /\ pendsv' = FALSE /\ UNCHANGED <<st, ref, irq>>
     \/ TakesIrq /\ Taken /\ irq' \in BOOLEAN /\ UNCHANGED <<st, ref, pendsv>>
     \/ /\ ~TakesTick /\ ~TakesPendsv /\ ~TakesIrq
        /\ UNCHANGED <<st, ref, pendsv, irq, mode, wait>>
  /\ UNCHANGED <<masked, halted, max, chain, block, touched, retired>>

Reset == [enable |-> FALSE, tickint |-> FALSE, rvr |-> 0, cvr |-> 0,
          flag |-> FALSE, pending |-> FALSE]

Init ==
  /\ st = Reset /\ pendsv = FALSE /\ irq = FALSE
  /\ mode = "thread" /\ masked = FALSE /\ halted = FALSE
  /\ phase = "idle" /\ i = 0 /\ max = 0
  /\ chain = NoChain /\ block = NoBlock
  /\ ref = Reset /\ touched = FALSE /\ retired = 0
  /\ wait = 0

Loop ==
  \/ LoopEnds \/ LoopChains \/ BlockStart \/ BlockInstr \/ BlockHalts
  \/ ChainEmpty \/ ChainReturns \/ Interpret \/ InterpretFails \/ CheckIrqs

Next == RunStart \/ HostPends \/ Loop

Spec == Init /\ [][Next]_vars

\* The loop is code of the calling thread.
FairSpec == Spec /\ WF_vars(Loop)

-----------------------------------------------------------------------------
(* Properties *)

Systicks == [enable : BOOLEAN, tickint : BOOLEAN, rvr : Nat, cvr : Nat,
             flag : BOOLEAN, pending : BOOLEAN]

TypeOK ==
  /\ st \in Systicks /\ ref \in Systicks
  /\ pendsv \in BOOLEAN /\ irq \in BOOLEAN /\ masked \in BOOLEAN /\ halted \in BOOLEAN
  /\ mode \in {"thread", "handler"}
  /\ phase \in {"idle", "loop", "chain", "block", "interp", "check"}
  /\ i \in 0 .. MaxRun /\ max \in 0 .. MaxRun
  /\ chain \in [budget : Nat, total : Nat]
  /\ block \in [done : 0 .. MaxLen - 1, native : BOOLEAN, failed : BOOLEAN]
  /\ touched \in BOOLEAN /\ retired \in Nat
  /\ wait \in 0 .. MaxLen

\* Instructions done and not ticked yet.
Unticked == chain.total + block.done

\* Ticking SysTick once for a whole chain leaves it as ticking it after every
\* instruction would, counter, COUNTFLAG and request, over any number of
\* chains, blocks and single steps: unless firmware used its registers in the
\* middle of the chain (run.c:101).
TickExact ==
  ~halted /\ ~touched => ref = IF Unticked > 0 THEN Tick(st, Unticked) ELSE st

\* A chain spans at most one reload that requests an interrupt, as
\* irq_safe_budget promises (run.c:56): two of them would be one request.
OneReloadPerChain ==
  Interrupting(st) /\ ~touched /\ Unticked > 0 => ReloadCount(st, Unticked) <= 1

\* Once PendSV can be taken it waits for less than a block (run.c:58-60),
\* through chains, masks, exception returns and runs of the host.
PendsvPrompt == ~halted => wait < MaxLen

\* A run is of the length asked for, to the instruction, unless the core halts:
\* what run_until_cycle and board_run count on.
RunExact == phase = "idle" => i <= max /\ (~halted => i = max /\ retired = max)

\* A run comes to its end: every turn of the loop, whether a chain returns, comes
\* back empty or is not entered, brings the counter on.
RunReturns == phase # "idle" ~> phase = "idle"
===============================================================================
