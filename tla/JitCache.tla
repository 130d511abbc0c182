------------------------------- MODULE JitCache -------------------------------
(***************************************************************************)
(* The block cache of core/jit.c with the code buffer codegen_emit fills   *)
(* (core/codegen.c): the direct-mapped lookup table, its hit counters,     *)
(* compilation, the generation reset, and jit_run_chained as the run loop  *)
(* calls it.  What an instruction does to the core is left out: after a    *)
(* block any address may be next.                                          *)
(***************************************************************************)
EXTENDS Integers

CONSTANTS
  Pcs,        \* addresses at which a block can start, in halfwords
  Blocks,     \* JIT_MAX_BLOCKS: blocks, and entries of the lookup table
  MaxLen,     \* JIT_MAX_BLOCK_LEN
  Threshold,  \* JIT_HOT_THRESHOLD
  Capacity,   \* CG_BUFFER_SIZE
  Unit, Slack,\* what codegen_emit sets aside: Unit bytes per instruction and Slack
  Codes,      \* what memory can hold at an address, up to the next terminator
  MaxSteps    \* longest run the caller asks for

\* len: instructions; ok: all of them have a native form; bytes: what emit_op
\* and the prologue and epilogue write for them.
ASSUME JitAssumption ==
  /\ Pcs \subseteq Nat
  /\ Blocks \in Nat \ {0} /\ MaxLen \in Nat \ {0} /\ Threshold \in Nat \ {0}
  /\ Capacity \in Nat /\ Unit \in Nat /\ Slack \in Nat \ {0} /\ MaxSteps \in Nat
  /\ Codes \subseteq [len : 1..MaxLen, ok : BOOLEAN, bytes : Nat \ {0}]

VARIABLES
  mem,        \* the firmware's code
  blocks, nBlocks,
  lookupPc, lookupIdx, counters,
  used,       \* codegen_t.used
  pc, halted, \* of cpu_t
  pendsv,     \* *stop: scb_t.pendsv_pending
  chain,      \* the call of jit_run_chained in progress
  stored      \* history: addresses stored to since they were last compiled

table == <<blocks, nBlocks, lookupPc, lookupIdx, counters, used>>
vars == <<mem, table, pc, halted, pendsv, chain, stored>>

Idxs == 0 .. Blocks - 1
Hash(p) == p % Blocks

\* The bytes of the code buffer a thunk occupies; none for a block without one.
NoThunk == [from |-> 0, to |-> 0, whole |-> TRUE]
Block(p, code, thunk) == [start |-> p, code |-> code, thunk |-> thunk]
Native(bk) == bk.thunk.to > bk.thunk.from

Idle == [running |-> FALSE, max |-> 0, total |-> 0]

-----------------------------------------------------------------------------
(* The pieces of jit_run *)

\* lookup
Cached(p) == lookupIdx[Hash(p)] >= 0 /\ lookupPc[Hash(p)] = p

\* codegen_emit after u bytes: refused when the estimate does not fit; emit_b
\* drops what is past the end of the buffer.
\* Mutant of Fits: the reserve is not counted in.  Mutant of Thunk: emit_b does
\* not look at the capacity.
FitsLoose(code, u) == code.ok /\ u + Slack <= Capacity
Fits(code, u) == code.ok /\ u + code.len * Unit + Slack <= Capacity
ThunkUnchecked(code, u) ==
  IF ~Fits(code, u) THEN NoThunk ELSE [from |-> u, to |-> u + code.bytes, whole |-> TRUE]
Thunk(code, u) ==
  IF ~Fits(code, u) THEN NoThunk
  ELSE IF u + code.bytes <= Capacity THEN [from |-> u, to |-> u + code.bytes, whole |-> TRUE]
  ELSE [from |-> u, to |-> Capacity, whole |-> FALSE]

\* The lookup table compile_block starts from, empty after a flush.  Mutant of
\* KeptIdx: the flush forgets it.
StaleIdx(flush, h) == lookupIdx[h]
KeptIdx(flush, h) == IF flush THEN -1 ELSE lookupIdx[h]

\* cg.used is taken back by a flush only.  Mutant of UsedFrom: by every
\* compilation.
UsedZero(flush) == 0
UsedFrom(flush) == IF flush THEN 0 ELSE used

\* Mutant of Full: the table is found full one block too late.
FullLate(n) == n > Blocks
Full(n) == n >= Blocks

\* compile_block: decode, emit, install.
Compiled(p) == Block(p, mem[p], Thunk(mem[p], UsedFrom(Full(nBlocks))))
Compile(p) ==
  LET flush == Full(nBlocks)
      n  == IF flush THEN 0 ELSE nBlocks
      th == Compiled(p).thunk
  IN /\ blocks' = [blocks EXCEPT ![n] = Compiled(p)]
     /\ nBlocks' = n + 1
     /\ lookupPc'  = [h \in Idxs |-> IF h = Hash(p) THEN p ELSE IF flush THEN 0 ELSE lookupPc[h]]
     /\ lookupIdx' = [h \in Idxs |-> IF h = Hash(p) THEN n ELSE KeptIdx(flush, h)]
     /\ counters'  = [h \in Idxs |-> IF flush THEN 0
                                     ELSE IF h = Hash(p) THEN Threshold ELSE counters[h]]
     /\ used' = UsedFrom(flush) + th.to - th.from

\* jit_flush
Flush ==
  /\ nBlocks' = 0 /\ used' = UsedFrom(TRUE)
  /\ lookupIdx' = [h \in Idxs |-> KeptIdx(TRUE, h)] /\ lookupPc' = [h \in Idxs |-> 0]
  /\ counters' = [h \in Idxs |-> 0]
  /\ UNCHANGED blocks

\* Firmware may store to its own code; `before' is `stored' when it starts.
FirmwareStores(before) ==
  \/ UNCHANGED mem /\ stored' = before
  \/ \E p \in Pcs, code \in Codes :
       mem' = [mem EXCEPT ![p] = code] /\ stored' = before \cup {p}

\* Firmware runs: it goes somewhere, may halt, may request PendSV, may store.
FirmwareRuns(before) ==
  /\ pc' \in Pcs /\ halted' \in BOOLEAN /\ pendsv' \in {pendsv, TRUE}
  /\ FirmwareStores(before)

\* Steps a block of len instructions takes in the interpreter: it stops after
\* one that halts or faults, a fault not being counted.  A native thunk takes
\* all of them, or halts the core and takes none.
Taken(bk) == IF Native(bk) THEN {0, bk.code.len} ELSE 0 .. bk.code.len

RunBlock(bk, before) ==
  \E steps \in Taken(bk) :
    /\ FirmwareRuns(before)
    /\ steps < bk.code.len => halted'
    /\ chain' = IF steps = 0 THEN Idle ELSE [chain EXCEPT !.total = @ + steps]

-----------------------------------------------------------------------------
(* jit_run_chained *)

\* The run loop enters the chain with what irq_safe_budget leaves.
ChainStart ==
  /\ ~chain.running /\ ~halted
  /\ \E max \in 1 .. MaxSteps : chain' = [running |-> TRUE, max |-> max, total |-> 0]
  /\ UNCHANGED <<mem, table, pc, halted, pendsv, stored>>

\* Mutant of Roomy: a block may start while any budget is left.
RoomyLoose(c) == c.total < c.max
Roomy(c) == c.total < c.max /\ c.max - c.total >= MaxLen

Going == chain.running /\ ~halted /\ Roomy(chain) /\ ~pendsv

\* jit_run on a cached block.
JitHit ==
  /\ Going /\ Cached(pc)
  /\ RunBlock(blocks[lookupIdx[Hash(pc)]], stored)
  /\ UNCHANGED table

\* jit_run counts a start; the slot is claimed for pc, with the hits that the
\* counter already holds.  The chain ends.
JitCount ==
  /\ Going /\ ~Cached(pc)
  /\ LET h == Hash(pc) IN
       /\ counters[h] + 1 < Threshold
       /\ counters' = [counters EXCEPT ![h] = @ + 1]
       /\ lookupPc' = [lookupPc EXCEPT ![h] = pc]
       /\ lookupIdx' = [lookupIdx EXCEPT ![h] = -2]
  /\ chain' = Idle
  /\ UNCHANGED <<mem, blocks, nBlocks, used, pc, halted, pendsv, stored>>

\* jit_run on a block that is hot now: compiled, then run.  (A counter stays at
\* the threshold, from which every value behaves alike.)
JitCompile ==
  /\ Going /\ ~Cached(pc)
  /\ counters[Hash(pc)] + 1 >= Threshold
  /\ Compile(pc)
  /\ RunBlock(Compiled(pc), stored \ {pc})

ChainEnd ==
  /\ chain.running /\ ~Going
  /\ chain' = Idle
  /\ UNCHANGED <<mem, table, pc, halted, pendsv, stored>>

\* The run loop interprets one instruction, and takes a pending PendSV back.
Interpret ==
  /\ ~chain.running /\ ~halted
  /\ pc' \in Pcs /\ pendsv' \in BOOLEAN
  /\ FirmwareStores(stored)
  /\ UNCHANGED <<table, halted, chain>>

\* snap_restore: another memory image, then jit_flush.
SnapRestore ==
  /\ ~chain.running
  /\ mem' \in [Pcs -> Codes] /\ pc' \in Pcs /\ halted' \in BOOLEAN /\ pendsv' \in BOOLEAN
  /\ Flush /\ stored' = {}
  /\ UNCHANGED chain

Init ==
  /\ mem \in [Pcs -> Codes]
  /\ blocks = [i \in Idxs |-> Block(0, [len |-> 1, ok |-> FALSE, bytes |-> 1], NoThunk)]
  /\ nBlocks = 0 /\ used = 0
  /\ lookupPc = [h \in Idxs |-> 0] /\ lookupIdx = [h \in Idxs |-> -1]
  /\ counters = [h \in Idxs |-> 0]
  /\ pc \in Pcs /\ halted = FALSE /\ pendsv = FALSE
  /\ chain = Idle /\ stored = {}

Next ==
  \/ ChainStart \/ JitHit \/ JitCount \/ JitCompile \/ ChainEnd
  \/ Interpret \/ SnapRestore

Spec == Init /\ [][Next]_vars

-----------------------------------------------------------------------------
(* Properties *)

Thunks == [from : Nat, to : Nat, whole : BOOLEAN]
AnyCode == [len : 1..MaxLen, ok : BOOLEAN, bytes : Nat \ {0}]

TypeOK ==
  /\ mem \in [Pcs -> Codes]
  /\ blocks \in [Idxs -> [start : Nat, code : AnyCode, thunk : Thunks]]
  /\ nBlocks \in 0..Blocks /\ used \in Nat
  /\ lookupPc \in [Idxs -> Nat] /\ lookupIdx \in [Idxs -> -2 .. Blocks - 1]
  /\ counters \in [Idxs -> 0..Threshold]
  /\ pc \in Pcs /\ halted \in BOOLEAN /\ pendsv \in BOOLEAN
  /\ chain \in [running : BOOLEAN, max : Nat, total : Nat]
  /\ stored \subseteq Pcs

\* What lookup answers is a block of this generation that starts at the
\* address asked for, through claims, collisions and generation resets.
LookupSound ==
  \A h \in Idxs : lookupIdx[h] >= 0 =>
    /\ lookupIdx[h] < nBlocks
    /\ blocks[lookupIdx[h]].start = lookupPc[h]
    /\ Hash(lookupPc[h]) = h

\* No two thunks of a generation share a byte of the code buffer, and the next
\* one is emitted past them all: a compilation never writes over native code
\* that a lookup can still reach.
Generation == 0 .. nBlocks - 1
ThunksApart ==
  /\ \A i \in Generation : blocks[i].thunk.to <= used
  /\ \A i, j \in Generation :
       i < j /\ Native(blocks[i]) /\ Native(blocks[j]) => blocks[i].thunk.to <= blocks[j].thunk.from

\* The buffer is not overrun, whatever the estimate of codegen_emit is worth.
WithinBuffer == used <= Capacity

\* jit_run_chained runs no further than the caller's budget: the run loop can
\* take what it returns off the SysTick counter.
NoOvershoot == chain.total <= chain.max

\* A block that is found runs the code that memory holds, also after a
\* generation reset or a snapshot that brought in another image: unless
\* firmware stored to that code after it was compiled, which nothing catches.
FreshCode ==
  \A p \in Pcs \ stored : Cached(p) => blocks[lookupIdx[Hash(p)]].code = mem[p]

\* jit.h:32: native is "non-NULL = compiled to x86 machine code", all of it:
\* true of code that keeps within what codegen_emit sets aside for it.  A longer
\* one may be cut off at the end of the buffer and is installed all the same.
Estimated(code) == code.bytes <= code.len * Unit + Slack
EstimatedIsWhole ==
  \A i \in Generation : Native(blocks[i]) /\ Estimated(blocks[i].code) => blocks[i].thunk.whole
=============================================================================
