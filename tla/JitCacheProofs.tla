--------------------------- MODULE JitCacheProofs ---------------------------
(***************************************************************************)
(* The block cache is sound for every size of the table, the blocks and    *)
(* the code buffer, and for every program.                                 *)
(***************************************************************************)
EXTENDS JitCache, TLAPS

LEMMA HashIndex ==
  ASSUME NEW p \in Nat
  PROVE  Hash(p) \in Idxs
  BY JitAssumption DEF Hash, Idxs

LEMMA CodeFacts ==
  ASSUME NEW code \in Codes
  PROVE  code \in AnyCode /\ code.len \in 1..MaxLen /\ code.bytes \in Nat \ {0}
  BY JitAssumption DEF AnyCode

\* What is emitted after u bytes starts there and ends within the buffer.
LEMMA ThunkFacts ==
  ASSUME NEW code \in Codes, NEW u \in Nat, u <= Capacity
  PROVE  LET th == Thunk(code, u)
         IN  /\ th \in Thunks /\ th.from <= th.to
             /\ u + th.to - th.from \in Nat /\ u + th.to - th.from <= Capacity
             /\ th.to <= u + th.to - th.from
             /\ th.to > th.from => th.from = u
<1>1. code.bytes \in Nat \ {0} /\ Capacity \in Nat
  BY CodeFacts, JitAssumption
<1>2. CASE Thunk(code, u) = NoThunk
  BY <1>1, <1>2 DEF NoThunk, Thunks
<1>3. CASE Thunk(code, u) = [from |-> u, to |-> u + code.bytes, whole |-> TRUE]
           /\ u + code.bytes <= Capacity
  BY <1>1, <1>3 DEF Thunks
<1>4. CASE Thunk(code, u) = [from |-> u, to |-> Capacity, whole |-> FALSE]
  BY <1>1, <1>4 DEF Thunks
<1>5. QED BY <1>1, <1>2, <1>3, <1>4 DEF Thunk

-----------------------------------------------------------------------------
(* What a compilation does *)

CacheInv == TypeOK /\ LookupSound /\ ThunksApart /\ WithinBuffer

\* Where the new block goes, and the code buffer before it.
Slot == IF Full(nBlocks) THEN 0 ELSE nBlocks
Before == UsedFrom(Full(nBlocks))

LEMMA CompileFacts ==
  ASSUME CacheInv, Compile(pc)
  PROVE  /\ Slot \in Idxs /\ Before \in Nat /\ Before <= Capacity
         /\ blocks' = [blocks EXCEPT ![Slot] = Block(pc, mem[pc], Thunk(mem[pc], Before))]
         /\ nBlocks' = Slot + 1
         /\ used' = Before + Thunk(mem[pc], Before).to - Thunk(mem[pc], Before).from
         /\ pc \in Nat /\ mem[pc] \in Codes
         /\ \A i \in 0 .. Slot - 1 : i \in Generation /\ blocks[i].thunk.to <= Before
<1>1. /\ nBlocks \in 0..Blocks /\ used \in Nat /\ used <= Capacity /\ Blocks \in Nat \ {0}
      /\ Capacity \in Nat /\ pc \in Pcs /\ Pcs \subseteq Nat
  BY JitAssumption DEF CacheInv, TypeOK, WithinBuffer
<1>2. mem[pc] \in Codes
  BY DEF CacheInv, TypeOK
<1>3. Slot \in Idxs /\ Before \in Nat /\ Before <= Capacity
  BY <1>1 DEF Slot, Before, UsedFrom, Full, Idxs
<1>4. \A i \in 0 .. Slot - 1 : i \in Generation /\ blocks[i].thunk.to <= Before
  BY <1>1 DEF Slot, Before, UsedFrom, Full, Generation, CacheInv, ThunksApart
<1>5. /\ blocks' = [blocks EXCEPT ![Slot] = Block(pc, mem[pc], Thunk(mem[pc], Before))]
      /\ nBlocks' = Slot + 1
      /\ used' = Before + Thunk(mem[pc], Before).to - Thunk(mem[pc], Before).from
  BY DEF Compile, Compiled, Block, Slot, Before
<1>6. QED BY <1>1, <1>2, <1>3, <1>4, <1>5

LEMMA CompileKeeps ==
  ASSUME CacheInv, Compile(pc)
  PROVE  /\ blocks' \in [Idxs -> [start : Nat, code : AnyCode, thunk : Thunks]]
         /\ nBlocks' \in 0..Blocks /\ used' \in Nat
         /\ lookupPc' \in [Idxs -> Nat] /\ lookupIdx' \in [Idxs -> -2 .. Blocks - 1]
         /\ counters' \in [Idxs -> 0..Threshold]
         /\ LookupSound' /\ ThunksApart' /\ WithinBuffer'
         /\ lookupIdx'[Hash(pc)] = Slot
<1> DEFINE th == Thunk(mem[pc], Before)
           bk == Block(pc, mem[pc], th)
<1>1. /\ Slot \in Idxs /\ Before \in Nat /\ Before <= Capacity /\ pc \in Nat /\ mem[pc] \in Codes
      /\ blocks' = [blocks EXCEPT ![Slot] = bk] /\ nBlocks' = Slot + 1
      /\ used' = Before + th.to - th.from
      /\ \A i \in 0 .. Slot - 1 : i \in Generation /\ blocks[i].thunk.to <= Before
  BY CompileFacts
<1>2. /\ th \in Thunks /\ th.from <= th.to /\ used' \in Nat /\ used' <= Capacity
      /\ th.to <= used' /\ (th.to > th.from => th.from = Before)
      /\ th.from \in Nat /\ th.to \in Nat /\ Before <= used'
  <2>1. /\ th \in Thunks /\ th.from <= th.to /\ used' \in Nat /\ used' <= Capacity
        /\ th.to <= used' /\ (th.to > th.from => th.from = Before)
    BY <1>1, ThunkFacts
  <2>2. th.from \in Nat /\ th.to \in Nat
    <3> HIDE DEF th
    <3> QED BY <2>1 DEF Thunks
  <2> HIDE DEF th
  <2>3. QED BY <1>1, <2>1, <2>2
<1>3. Blocks \in Nat \ {0} /\ Threshold \in Nat \ {0} /\ nBlocks \in 0..Blocks
  BY JitAssumption DEF CacheInv, TypeOK
<1>4. bk \in [start : Nat, code : AnyCode, thunk : Thunks]
  <2> HIDE DEF th
  <2> QED BY <1>1, <1>2, CodeFacts DEF Block
<1>5. bk.start = pc /\ bk.thunk = th
  BY DEF Block
<1> HIDE DEF bk, th
<1>6. blocks \in [Idxs -> [start : Nat, code : AnyCode, thunk : Thunks]]
  BY DEF CacheInv, TypeOK
<1>7. /\ blocks' \in [Idxs -> [start : Nat, code : AnyCode, thunk : Thunks]]
      /\ blocks'[Slot] = bk /\ \A i \in Idxs \ {Slot} : blocks'[i] = blocks[i]
  BY <1>1, <1>4, <1>6
<1>8. nBlocks' \in 0..Blocks
  BY <1>1, <1>3 DEF Idxs
<1>9. Hash(pc) \in Idxs /\ Slot \in Int
  BY <1>1, HashIndex DEF Idxs
<1>10. /\ lookupPc' = [h \in Idxs |-> IF h = Hash(pc) THEN pc
                                      ELSE IF Full(nBlocks) THEN 0 ELSE lookupPc[h]]
       /\ lookupIdx' = [h \in Idxs |-> IF h = Hash(pc) THEN Slot
                                       ELSE IF Full(nBlocks) THEN -1 ELSE lookupIdx[h]]
       /\ counters' = [h \in Idxs |-> IF Full(nBlocks) THEN 0
                                      ELSE IF h = Hash(pc) THEN Threshold ELSE counters[h]]
  BY DEF Compile, Slot, KeptIdx
<1>11. /\ lookupPc \in [Idxs -> Nat] /\ lookupIdx \in [Idxs -> -2 .. Blocks - 1]
       /\ counters \in [Idxs -> 0..Threshold]
  BY DEF CacheInv, TypeOK
<1>12. lookupPc' \in [Idxs -> Nat] /\ counters' \in [Idxs -> 0..Threshold]
  BY <1>1, <1>3, <1>10, <1>11
<1>13. lookupIdx' \in [Idxs -> -2 .. Blocks - 1]
  <2>1. Slot \in -2 .. Blocks - 1 /\ -1 \in -2 .. Blocks - 1
    BY <1>1, <1>3, <1>9 DEF Idxs
  <2> QED  BY <2>1, <1>10, <1>11
<1>14. LookupSound'
  <2> SUFFICES ASSUME NEW h \in Idxs, lookupIdx'[h] >= 0
               PROVE  /\ lookupIdx'[h] < nBlocks' /\ blocks'[lookupIdx'[h]].start = lookupPc'[h]
                      /\ Hash(lookupPc'[h]) = h
    BY DEF LookupSound, Hash
  <2>1. CASE h = Hash(pc)
    BY <1>1, <1>5, <1>7, <1>9, <1>10, <2>1
  <2>2. CASE h # Hash(pc)
    <3>1. ~Full(nBlocks) /\ lookupIdx'[h] = lookupIdx[h] /\ lookupPc'[h] = lookupPc[h]
      BY <1>10, <2>2
    <3>2. /\ lookupIdx[h] < nBlocks /\ blocks[lookupIdx[h]].start = lookupPc[h]
          /\ Hash(lookupPc[h]) = h
      BY <3>1 DEF CacheInv, LookupSound
    <3>3. Slot = nBlocks /\ lookupIdx[h] \in Idxs \ {Slot}
      BY <1>3, <1>11, <3>1, <3>2 DEF Slot, Idxs
    <3>4. QED BY <1>1, <1>3, <1>7, <1>11, <3>1, <3>2, <3>3
  <2>3. QED BY <2>1, <2>2
<1>15. ThunksApart'
  <2>1. \A i \in 0 .. Slot - 1 : i \in Idxs \ {Slot} /\ blocks'[i] = blocks[i]
    BY <1>1, <1>3, <1>7, <1>9 DEF Idxs
  <2>2. \A i \in Idxs : blocks[i].thunk.to \in Nat /\ blocks[i].thunk.from \in Nat
    BY <1>6 DEF Thunks
  <2>3. \A i \in 0 .. nBlocks' - 1 : blocks'[i].thunk.to <= used'
    <3> SUFFICES ASSUME NEW i \in 0 .. nBlocks' - 1 PROVE blocks'[i].thunk.to <= used'
      OBVIOUS
    <3>1. CASE i = Slot
      BY <1>2, <1>5, <1>7, <3>1
    <3>2. CASE i # Slot
      BY <1>1, <1>2, <1>9, <2>1, <2>2, <3>2
    <3>3. QED BY <3>1, <3>2
  <2>4. ASSUME NEW i \in 0 .. nBlocks' - 1, NEW j \in 0 .. nBlocks' - 1, i < j,
               Native(blocks'[i]), Native(blocks'[j])
        PROVE  blocks'[i].thunk.to <= blocks'[j].thunk.from
    <3>1. i \in 0 .. Slot - 1
      BY <1>1, <1>9, <2>4
    <3>2. CASE j = Slot
      BY <1>1, <1>2, <1>5, <1>7, <2>1, <2>4, <3>1, <3>2 DEF Native
    <3>3. CASE j # Slot
      <4>1. j \in 0 .. Slot - 1
        BY <1>1, <1>9, <2>4, <3>3
      <4>2. QED BY <1>1, <2>1, <2>4, <3>1, <4>1 DEF CacheInv, ThunksApart
    <3>4. QED BY <3>2, <3>3
  <2>5. QED BY <2>3, <2>4 DEF ThunksApart, Generation, Native
<1>16. WithinBuffer'
  BY <1>2 DEF WithinBuffer
<1>17. QED
  BY <1>2, <1>7, <1>8, <1>9, <1>10, <1>12, <1>13, <1>14, <1>15, <1>16

-----------------------------------------------------------------------------
(* The invariant of the table and of the buffer *)

\* A block that runs leaves the table alone.
LEMMA RunBlockKeeps ==
  ASSUME TypeOK, NEW bk, bk.code.len \in Nat, NEW before \in SUBSET Pcs, RunBlock(bk, before)
  PROVE  /\ mem' \in [Pcs -> Codes] /\ pc' \in Pcs
         /\ halted' \in BOOLEAN /\ pendsv' \in BOOLEAN
         /\ chain' \in [running : BOOLEAN, max : Nat, total : Nat]
         /\ stored' \subseteq Pcs
<1>1. PICK steps \in Taken(bk) :
        /\ FirmwareRuns(before)
        /\ chain' = IF steps = 0 THEN Idle ELSE [chain EXCEPT !.total = @ + steps]
  BY DEF RunBlock
<1>2. steps \in Nat
  BY DEF Taken
<1>3. chain' \in [running : BOOLEAN, max : Nat, total : Nat]
  BY <1>1, <1>2 DEF TypeOK, Idle
<1>4. /\ mem' \in [Pcs -> Codes] /\ pc' \in Pcs /\ halted' \in BOOLEAN /\ pendsv' \in BOOLEAN
      /\ stored' \subseteq Pcs
  BY <1>1 DEF FirmwareRuns, FirmwareStores, TypeOK
<1>5. QED BY <1>3, <1>4

\* The conditions on the table alone.
LEMMA TableUnchanged ==
  ASSUME CacheInv, UNCHANGED <<blocks, nBlocks, lookupPc, lookupIdx, used>>
  PROVE  LookupSound' /\ ThunksApart' /\ WithinBuffer'
  BY DEF CacheInv, LookupSound, ThunksApart, WithinBuffer, Generation, Native, Hash

LEMMA CacheInit ==
  ASSUME Init
  PROVE  CacheInv
<1>1. Block(0, [len |-> 1, ok |-> FALSE, bytes |-> 1], NoThunk)
        \in [start : Nat, code : AnyCode, thunk : Thunks]
  <2>1. [len |-> 1, ok |-> FALSE, bytes |-> 1] \in AnyCode
    BY JitAssumption DEF AnyCode
  <2>2. NoThunk \in Thunks
    BY DEF NoThunk, Thunks
  <2>3. QED BY <2>1, <2>2 DEF Block
<1>2. blocks \in [Idxs -> [start : Nat, code : AnyCode, thunk : Thunks]]
  BY <1>1 DEF Init
<1>3. TypeOK
  <2>1. mem \in [Pcs -> Codes] /\ nBlocks \in 0..Blocks /\ used \in Nat
    BY JitAssumption DEF Init
  <2>2. lookupPc \in [Idxs -> Nat] /\ counters \in [Idxs -> 0..Threshold]
    BY JitAssumption DEF Init
  <2>3. lookupIdx \in [Idxs -> -2 .. Blocks - 1]
    <3>1. -1 \in -2 .. Blocks - 1
      BY JitAssumption
    <3>2. QED BY <3>1 DEF Init
  <2>4. /\ pc \in Pcs /\ halted \in BOOLEAN /\ pendsv \in BOOLEAN
        /\ chain \in [running : BOOLEAN, max : Nat, total : Nat] /\ stored \subseteq Pcs
    BY DEF Init, Idle
  <2>5. QED BY <1>2, <2>1, <2>2, <2>3, <2>4 DEF TypeOK
<1>4. LookupSound
  BY DEF Init, LookupSound
<1>5. ThunksApart
  BY DEF Init, ThunksApart, Generation
<1>6. WithinBuffer
  BY JitAssumption DEF Init, WithinBuffer
<1>7. QED BY <1>3, <1>4, <1>5, <1>6 DEF CacheInv

LEMMA HitBlock ==
  ASSUME TypeOK, NEW p \in Pcs, Cached(p)
  PROVE  lookupIdx[Hash(p)] \in Idxs /\ blocks[lookupIdx[Hash(p)]].code.len \in 1..MaxLen
<1>1. Hash(p) \in Idxs
  BY HashIndex, JitAssumption
<1>2. lookupIdx[Hash(p)] \in Idxs
  BY <1>1, JitAssumption DEF Cached, TypeOK, Idxs
<1>3. QED BY <1>2 DEF TypeOK, AnyCode

LEMMA CompiledLen ==
  ASSUME TypeOK
  PROVE  Compiled(pc).code.len \in 1..MaxLen
<1>1. mem[pc] \in Codes /\ Compiled(pc).code = mem[pc]
  BY DEF TypeOK, Compiled, Block
<1>2. QED BY <1>1, CodeFacts

LEMMA CacheStep ==
  ASSUME CacheInv, [Next]_vars
  PROVE  CacheInv'
<1>1. CASE ChainStart
  <2>1. TypeOK'
    BY <1>1, JitAssumption DEF ChainStart, CacheInv, TypeOK, table
  <2>2. QED BY <1>1, <2>1, TableUnchanged DEF ChainStart, table, CacheInv
<1>2. CASE JitHit
  <2>1. /\ RunBlock(blocks[lookupIdx[Hash(pc)]], stored) /\ pc \in Pcs /\ Cached(pc) /\ TypeOK
        /\ stored \in SUBSET Pcs
    BY <1>2 DEF JitHit, CacheInv, TypeOK
  <2>2. blocks[lookupIdx[Hash(pc)]].code.len \in Nat
    BY <2>1, HitBlock, JitAssumption
  <2>3. /\ mem' \in [Pcs -> Codes] /\ pc' \in Pcs /\ halted' \in BOOLEAN /\ pendsv' \in BOOLEAN
        /\ chain' \in [running : BOOLEAN, max : Nat, total : Nat] /\ stored' \subseteq Pcs
    BY <2>1, <2>2, RunBlockKeeps
  <2>4. TypeOK'
    BY <1>2, <2>3 DEF JitHit, CacheInv, TypeOK, table
  <2>5. QED BY <1>2, <2>4, TableUnchanged DEF JitHit, table, CacheInv
<1>3. CASE JitCount
  <2>1. pc \in Nat /\ Hash(pc) \in Idxs
    BY JitAssumption, HashIndex DEF CacheInv, TypeOK
  <2>2. /\ lookupPc' \in [Idxs -> Nat] /\ lookupIdx' \in [Idxs -> -2 .. Blocks - 1]
        /\ counters' \in [Idxs -> 0..Threshold]
    BY <1>3, <2>1, JitAssumption DEF JitCount, CacheInv, TypeOK
  <2>3. TypeOK'
    BY <1>3, <2>2 DEF JitCount, CacheInv, TypeOK, Idle
  <2>4. LookupSound'
    BY <1>3, <2>1 DEF JitCount, CacheInv, TypeOK, LookupSound, Hash
  <2>5. ThunksApart' /\ WithinBuffer'
    BY <1>3 DEF JitCount, CacheInv, ThunksApart, WithinBuffer, Generation, Native
  <2>6. QED BY <2>3, <2>4, <2>5 DEF CacheInv
<1>4. CASE JitCompile
  <2>1. /\ Compile(pc) /\ RunBlock(Compiled(pc), stored \ {pc}) /\ TypeOK
        /\ stored \ {pc} \in SUBSET Pcs
    BY <1>4 DEF JitCompile, CacheInv, TypeOK
  <2>2. /\ blocks' \in [Idxs -> [start : Nat, code : AnyCode, thunk : Thunks]]
        /\ nBlocks' \in 0..Blocks /\ used' \in Nat
        /\ lookupPc' \in [Idxs -> Nat] /\ lookupIdx' \in [Idxs -> -2 .. Blocks - 1]
        /\ counters' \in [Idxs -> 0..Threshold]
        /\ LookupSound' /\ ThunksApart' /\ WithinBuffer'
        /\ lookupIdx'[Hash(pc)] = Slot /\ Slot \in Idxs
    BY <2>1, CompileKeeps, CompileFacts
  <2>3. Compiled(pc).code.len \in Nat
    BY <2>1, CompiledLen, JitAssumption
  <2>4. /\ mem' \in [Pcs -> Codes] /\ pc' \in Pcs /\ halted' \in BOOLEAN /\ pendsv' \in BOOLEAN
        /\ chain' \in [running : BOOLEAN, max : Nat, total : Nat] /\ stored' \subseteq Pcs
    BY <2>1, <2>3, RunBlockKeeps
  <2>5. TypeOK'
    BY <2>2, <2>4 DEF TypeOK
  <2>6. QED BY <2>2, <2>5 DEF CacheInv
<1>5. CASE ChainEnd
  <2>1. TypeOK'
    BY <1>5 DEF ChainEnd, CacheInv, TypeOK, table, Idle
  <2>2. QED BY <1>5, <2>1, TableUnchanged DEF ChainEnd, table, CacheInv
<1>6. CASE Interpret
  <2>1. mem' \in [Pcs -> Codes] /\ stored' \subseteq Pcs
    BY <1>6 DEF Interpret, FirmwareStores, CacheInv, TypeOK
  <2>2. TypeOK'
    BY <1>6, <2>1 DEF Interpret, CacheInv, TypeOK, table
  <2>3. QED BY <1>6, <2>2, TableUnchanged DEF Interpret, table, CacheInv
<1>7. CASE SnapRestore
  <2>1. /\ nBlocks' = 0 /\ used' = 0 /\ blocks' = blocks
        /\ lookupIdx' = [h \in Idxs |-> -1] /\ lookupPc' = [h \in Idxs |-> 0]
        /\ counters' = [h \in Idxs |-> 0]
    BY <1>7 DEF SnapRestore, Flush, KeptIdx, UsedFrom
  <2>2. TypeOK'
    BY <1>7, <2>1, JitAssumption DEF SnapRestore, CacheInv, TypeOK
  <2>3. LookupSound' /\ ThunksApart' /\ WithinBuffer'
    BY <2>1, JitAssumption DEF LookupSound, ThunksApart, WithinBuffer, Generation
  <2>4. QED BY <2>2, <2>3 DEF CacheInv
<1>8. CASE UNCHANGED vars
  <2>1. TypeOK'
    BY <1>8 DEF vars, table, CacheInv, TypeOK
  <2>2. QED BY <1>8, <2>1, TableUnchanged DEF vars, table, CacheInv
<1>9. QED
  BY <1>1, <1>2, <1>3, <1>4, <1>5, <1>6, <1>7, <1>8 DEF Next

LEMMA Invariance == Spec => []CacheInv
BY CacheInit, CacheStep, PTL DEF Spec

\* The table, the blocks and the counters of jit_t keep their ranges, for every
\* size of them: an index of the lookup table never leaves the block array.
THEOREM TypeCorrect == Spec => []TypeOK
<1>1. CacheInv => TypeOK
  BY DEF CacheInv
<1>2. QED BY <1>1, Invariance, PTL

\* lookup never answers with a block of another address or of an earlier
\* generation, for any table and any program.
THEOREM CacheSound == Spec => []LookupSound
<1>1. CacheInv => LookupSound
  BY DEF CacheInv
<1>2. QED BY <1>1, Invariance, PTL

\* No two blocks of a generation share native code, and codegen_emit goes on
\* behind all of it, whatever its estimate is worth.
THEOREM NativeCodeApart == Spec => []ThunksApart
<1>1. CacheInv => ThunksApart
  BY DEF CacheInv
<1>2. QED BY <1>1, Invariance, PTL

\* emit_b keeps within the code buffer, for every capacity, estimate and program.
THEOREM BufferKept == Spec => []WithinBuffer
<1>1. CacheInv => WithinBuffer
  BY DEF CacheInv
<1>2. QED BY <1>1, Invariance, PTL

-----------------------------------------------------------------------------
(* The budget *)

\* A chained run takes no more steps than irq_safe_budget allowed it: a block
\* starts only when the longest one still fits.
THEOREM BudgetKept == Spec => []NoOvershoot
<1> DEFINE BudgetInv == CacheInv /\ NoOvershoot
<1>1. Init => BudgetInv
  <2>1. Init => chain.total = 0 /\ chain.max = 0
    BY DEF Init, Idle
  <2>2. QED BY <2>1, CacheInit DEF NoOvershoot
<1>2. BudgetInv /\ [Next]_vars => BudgetInv'
  <2> SUFFICES ASSUME CacheInv, NoOvershoot, [Next]_vars PROVE NoOvershoot'
    BY CacheStep
  <2>1. ASSUME NEW bk, bk.code.len \in 1..MaxLen, NEW before, RunBlock(bk, before), Going PROVE NoOvershoot'
    <3>1. PICK steps \in Taken(bk) :
            chain' = IF steps = 0 THEN Idle ELSE [chain EXCEPT !.total = @ + steps]
      BY <2>1 DEF RunBlock
    <3>2. steps \in 0 .. bk.code.len
      BY <2>1, JitAssumption DEF Taken
    <3>3. chain.max \in Nat /\ chain.total \in Nat /\ chain.max - chain.total >= MaxLen
      BY <2>1 DEF Going, Roomy, CacheInv, TypeOK
    <3>4. CASE steps = 0
      BY <3>1, <3>4 DEF Idle, NoOvershoot
    <3>5. CASE steps # 0
      <4>1. chain'.total = chain.total + steps /\ chain'.max = chain.max
        BY <3>1, <3>5 DEF CacheInv, TypeOK
      <4>2. QED BY <2>1, <3>2, <3>3, <4>1, JitAssumption DEF NoOvershoot
    <3>6. QED BY <3>4, <3>5
  <2>2. CASE JitHit
    <3>1. blocks[lookupIdx[Hash(pc)]].code.len \in 1..MaxLen
      BY <2>2, HitBlock DEF JitHit, CacheInv, TypeOK
    <3>2. QED BY <2>1, <2>2, <3>1 DEF JitHit
  <2>3. CASE JitCompile
    <3>1. Compiled(pc).code.len \in 1..MaxLen
      BY CompiledLen DEF CacheInv
    <3>2. QED BY <2>1, <2>3, <3>1 DEF JitCompile
  <2>4. CASE ChainStart
    BY <2>4 DEF ChainStart, NoOvershoot
  <2>5. CASE JitCount \/ ChainEnd
    BY <2>5 DEF JitCount, ChainEnd, NoOvershoot, Idle
  <2>6. CASE Interpret \/ SnapRestore \/ UNCHANGED vars
    BY <2>6 DEF Interpret, SnapRestore, vars, NoOvershoot
  <2>7. QED BY <2>2, <2>3, <2>4, <2>5, <2>6 DEF Next
<1>3. QED BY <1>1, <1>2, PTL DEF Spec

-----------------------------------------------------------------------------
(* What a cached block runs *)

\* As long as firmware does not store to its own code, a cached block is the
\* code in memory: the flush of snap_restore is all the coherence it takes.
THEOREM CodeStaysFresh == Spec => []FreshCode
<1> DEFINE FreshInv == CacheInv /\ FreshCode
<1>1. Init => FreshInv
  <2>1. ASSUME Init PROVE \A p \in Pcs : ~Cached(p)
    BY <2>1, HashIndex, JitAssumption DEF Init, Cached
  <2>2. QED BY <2>1, CacheInit DEF FreshCode
<1>2. FreshInv /\ [Next]_vars => FreshInv'
  <2> SUFFICES ASSUME CacheInv, FreshCode, [Next]_vars PROVE FreshCode'
    BY CacheStep
  <2>1. CASE /\ \A p \in Pcs \ stored' : p \notin stored /\ mem'[p] = mem[p]
             /\ UNCHANGED <<blocks, lookupPc, lookupIdx>>
    BY <2>1 DEF FreshCode, Cached, Hash
  <2>2. ChainStart \/ JitHit \/ ChainEnd \/ Interpret \/ UNCHANGED vars
          => /\ UNCHANGED <<mem, stored>> \/ FirmwareStores(stored)
             /\ UNCHANGED <<blocks, lookupPc, lookupIdx>>
    BY DEF ChainStart, JitHit, ChainEnd, Interpret, vars, table, RunBlock, FirmwareRuns
  <2>3. FirmwareStores(stored) => \A p \in Pcs \ stored' : p \notin stored /\ mem'[p] = mem[p]
    BY DEF FirmwareStores, CacheInv, TypeOK
  <2>4. CASE JitCount
    <3> SUFFICES ASSUME NEW p \in Pcs \ stored', Cached(p)'
                 PROVE  blocks'[lookupIdx'[Hash(p)]].code = mem'[p]
      BY DEF FreshCode, Hash
    <3>1. Hash(p) \in Idxs /\ Hash(pc) \in Idxs
      BY JitAssumption, HashIndex DEF CacheInv, TypeOK
    <3>2. lookupIdx'[Hash(p)] >= 0 /\ lookupPc'[Hash(p)] = p
      BY DEF Cached, Hash
    <3>3. Hash(p) # Hash(pc)
      BY <2>4, <3>1, <3>2 DEF JitCount, CacheInv, TypeOK
    <3>4. Cached(p) /\ lookupIdx'[Hash(p)] = lookupIdx[Hash(p)]
      BY <2>4, <3>1, <3>2, <3>3 DEF JitCount, CacheInv, TypeOK, Cached
    <3>5. QED BY <2>4, <3>4 DEF JitCount, FreshCode
  <2>5. CASE JitCompile
    <3> SUFFICES ASSUME NEW p \in Pcs \ stored', Cached(p)'
                 PROVE  blocks'[lookupIdx'[Hash(p)]].code = mem'[p]
      BY DEF FreshCode, Hash
    <3>1. Compile(pc) /\ mem'[p] = mem[p] /\ p \notin stored \ {pc}
      BY <2>5 DEF JitCompile, RunBlock, FirmwareRuns, FirmwareStores, CacheInv, TypeOK
    <3>2. /\ Slot \in Idxs /\ blocks \in [Idxs -> [start : Nat, code : AnyCode, thunk : Thunks]]
          /\ blocks' = [blocks EXCEPT ![Slot] = Block(pc, mem[pc], Thunk(mem[pc], Before))]
          /\ lookupIdx'[Hash(pc)] = Slot
      BY <3>1, CompileFacts, CompileKeeps DEF CacheInv, TypeOK
    <3>3. Hash(p) \in Idxs /\ Hash(pc) \in Idxs
      BY JitAssumption, HashIndex DEF CacheInv, TypeOK
    <3>4. lookupIdx'[Hash(p)] >= 0 /\ lookupPc'[Hash(p)] = p
      BY DEF Cached, Hash
    <3>5. CASE Hash(p) = Hash(pc)
      <4>1. p = pc
        BY <3>1, <3>3, <3>4, <3>5 DEF Compile
      <4>2. blocks'[Slot].code = mem[pc]
        BY <3>2 DEF Block
      <4>3. QED BY <3>1, <3>2, <4>1, <4>2
    <3>6. CASE Hash(p) # Hash(pc)
      <4>1. /\ lookupIdx'[Hash(p)] = KeptIdx(Full(nBlocks), Hash(p))
            /\ lookupPc'[Hash(p)] = IF Full(nBlocks) THEN 0 ELSE lookupPc[Hash(p)]
        BY <3>1, <3>3, <3>6 DEF Compile
      <4>2. ~Full(nBlocks) /\ Cached(p) /\ lookupIdx'[Hash(p)] = lookupIdx[Hash(p)]
        BY <3>4, <4>1 DEF KeptIdx, Cached
      <4>3. lookupIdx[Hash(p)] \in Idxs \ {Slot}
        <5>1. lookupIdx[Hash(p)] < nBlocks /\ lookupIdx[Hash(p)] \in Idxs
          BY <3>3, <4>2, HitBlock DEF CacheInv, LookupSound, Cached
        <5>2. Slot = nBlocks /\ nBlocks \in Nat
          BY <4>2 DEF Slot, CacheInv, TypeOK
        <5>3. QED BY <5>1, <5>2 DEF Idxs
      <4>4. blocks'[lookupIdx[Hash(p)]] = blocks[lookupIdx[Hash(p)]]
        BY <3>2, <4>3
      <4>5. p \notin stored
        BY <3>1, <3>6
      <4>6. QED BY <3>1, <4>2, <4>4, <4>5 DEF FreshCode
    <3>7. QED BY <3>5, <3>6
  <2>6. CASE SnapRestore
    <3>1. lookupIdx' = [h \in Idxs |-> -1]
      BY <2>6 DEF SnapRestore, Flush, KeptIdx
    <3>2. \A p \in Pcs : ~(Cached(p)')
      BY <3>1, HashIndex, JitAssumption DEF Cached, Hash
    <3>3. QED BY <3>2 DEF FreshCode
  <2>7. QED BY <2>1, <2>2, <2>3, <2>4, <2>5, <2>6 DEF Next
<1>3. QED BY <1>1, <1>2, PTL DEF Spec

\* Native code is whole wherever codegen_emit's estimate bounds what emit_op
\* writes; a longer encoding (a PUSH of many registers) may be cut off.
THEOREM NativeIsWhole == Spec => []EstimatedIsWhole
<1> DEFINE WholeInv == CacheInv /\ EstimatedIsWhole
<1>1. Init => WholeInv
  <2>1. Init => Generation = {}
    BY DEF Init, Generation
  <2>2. QED BY <2>1, CacheInit DEF EstimatedIsWhole
<1>2. WholeInv /\ [Next]_vars => WholeInv'
  <2> SUFFICES ASSUME CacheInv, EstimatedIsWhole, [Next]_vars PROVE EstimatedIsWhole'
    BY CacheStep
  <2>1. CASE UNCHANGED <<blocks, nBlocks>>
    BY <2>1 DEF EstimatedIsWhole, Generation, Native
  <2>2. ChainStart \/ JitHit \/ JitCount \/ ChainEnd \/ Interpret \/ UNCHANGED vars
          => UNCHANGED <<blocks, nBlocks>>
    BY DEF ChainStart, JitHit, JitCount, ChainEnd, Interpret, vars, table
  <2>3. CASE JitCompile
    <3> DEFINE th == Thunk(mem[pc], Before)
    <3>1. /\ Slot \in Idxs /\ Before \in Nat /\ mem[pc] \in Codes
          /\ blocks' = [blocks EXCEPT ![Slot] = Block(pc, mem[pc], th)]
          /\ nBlocks' = Slot + 1 /\ \A i \in 0 .. Slot - 1 : i \in Generation
      BY <2>3, CompileFacts DEF JitCompile
    <3>2. ASSUME Estimated(mem[pc]) PROVE th.whole
      <4>1. /\ mem[pc].bytes \in Nat /\ Capacity \in Nat
            /\ mem[pc].bytes <= mem[pc].len * Unit + Slack /\ mem[pc].len * Unit \in Nat /\ Slack \in Nat
        BY <3>1, <3>2, CodeFacts, JitAssumption DEF Estimated
      <4>2. Fits(mem[pc], Before) => Before + mem[pc].bytes <= Capacity
        BY <3>1, <4>1 DEF Fits
      <4>3. QED BY <4>2 DEF Thunk, NoThunk
    <3>3. blocks \in [Idxs -> [start : Nat, code : AnyCode, thunk : Thunks]]
      BY DEF CacheInv, TypeOK
    <3>4. ASSUME Estimated(blocks'[Slot].code) PROVE blocks'[Slot].thunk.whole
      <4>1. blocks'[Slot] = Block(pc, mem[pc], th)
        BY <3>1, <3>3
      <4> HIDE DEF th
      <4>2. Block(pc, mem[pc], th).thunk = th /\ Block(pc, mem[pc], th).code = mem[pc]
        BY DEF Block
      <4>3. QED BY <3>2, <3>4, <4>1, <4>2
    <3> HIDE DEF th
    <3>5. ASSUME NEW i \in 0 .. nBlocks' - 1, Native(blocks'[i]), Estimated(blocks'[i].code)
          PROVE  blocks'[i].thunk.whole
      <4>1. CASE i = Slot
        BY <3>4, <3>5, <4>1
      <4>2. CASE i # Slot
        <5>1. i \in 0 .. Slot - 1 /\ i \in Idxs
          BY <3>1, <3>5, <4>2, JitAssumption DEF Idxs
        <5>2. blocks'[i] = blocks[i] /\ i \in Generation
          BY <3>1, <3>3, <4>2, <5>1
        <5>3. QED BY <3>5, <5>2 DEF EstimatedIsWhole
      <4>3. QED BY <4>1, <4>2
    <3>6. QED BY <3>5 DEF EstimatedIsWhole, Generation, Native
  <2>4. CASE SnapRestore
    BY <2>4 DEF SnapRestore, Flush, EstimatedIsWhole, Generation
  <2>5. QED BY <2>1, <2>2, <2>3, <2>4 DEF Next
<1>3. QED BY <1>1, <1>2, PTL DEF Spec
=============================================================================
