----------------------------- MODULE RunLoopProofs -----------------------------
(***************************************************************************)
(* The run loop keeps to its budget, to the SysTick period it was capped   *)
(* by, does not keep PendSV waiting, and ticks SysTick as if after every   *)
(* instruction: for every block length, reload value and length of run.    *)
(***************************************************************************)
EXTENDS RunLoop, TLAPS

-----------------------------------------------------------------------------
(* SysTick *)

\* A batched tick leaves registers.
LEMMA TickType ==
  ASSUME NEW s \in Systicks, NEW n \in Nat
  PROVE  Tick(s, n) \in Systicks
<1>1. Start(s) \in Nat
  BY DEF Start, Systicks
<1>2. CASE Reloaded(s, n)
  <2>1. CASE s.rvr = 0
    BY <1>2, <2>1 DEF Tick, AfterReload, Systicks
  <2>2. CASE s.rvr # 0
    <3>1. n - Start(s) \in Nat
      BY <1>1, <1>2 DEF Reloaded
    <3>2. s.rvr \in Nat \ {0}
      BY <2>2 DEF Systicks
    <3>3. (n - Start(s)) % s.rvr \in 0 .. s.rvr - 1
      BY <3>1, <3>2
    <3>4. s.rvr - ((n - Start(s)) % s.rvr) \in Nat
      BY <3>2, <3>3
    <3>5. AfterReload(s, n) \in Systicks
      BY <2>2, <3>4 DEF AfterReload, Systicks
    <3> QED  BY <1>2, <3>5 DEF Tick
  <2> QED  BY <2>1, <2>2
<1>3. CASE ~Reloaded(s, n) /\ s.enable /\ Start(s) # 0
  <2>1. n < Start(s)
    BY <1>1, <1>3 DEF Reloaded
  <2>2. Start(s) - n \in Nat
    BY <1>1, <2>1
  <2> QED  BY <1>3, <2>2 DEF Tick, Systicks
<1>4. CASE ~Reloaded(s, n) /\ ~(s.enable /\ Start(s) # 0)
  BY <1>4 DEF Tick
<1> QED  BY <1>2, <1>3, <1>4

\* What firmware makes of the registers are registers.
LEMMA RegistersType ==
  ASSUME NEW s \in Systicks
  PROVE  Registers(s) \subseteq Systicks
<1> SUFFICES ASSUME NEW new \in Registers(s)
             PROVE  new \in Systicks
  OBVIOUS
<1>1. \A c \in BOOLEAN \X BOOLEAN : [s EXCEPT !.enable = c[1], !.tickint = c[2]] \in Systicks
  BY DEF Systicks
<1>2. \A r \in Reloads : [s EXCEPT !.rvr = r] \in Systicks
  BY RunAssumption DEF Systicks
<1>3. [s EXCEPT !.cvr = 0, !.flag = FALSE] \in Systicks /\ [s EXCEPT !.flag = FALSE] \in Systicks
  BY DEF Systicks
<1>4. CASE \E c \in BOOLEAN \X BOOLEAN : new = [s EXCEPT !.enable = c[1], !.tickint = c[2]]
  BY <1>1, <1>4, Zenon
<1>5. CASE \E r \in Reloads : new = [s EXCEPT !.rvr = r]
  BY <1>2, <1>5, Zenon
<1>6. CASE new \in {[s EXCEPT !.cvr = 0, !.flag = FALSE], [s EXCEPT !.flag = FALSE]}
  BY <1>3, <1>6, Zenon
<1>7. \/ new \in {[s EXCEPT !.enable = c[1], !.tickint = c[2]] : c \in BOOLEAN \X BOOLEAN}
      \/ new \in {[s EXCEPT !.rvr = r] : r \in Reloads}
      \/ new \in {[s EXCEPT !.cvr = 0, !.flag = FALSE], [s EXCEPT !.flag = FALSE]}
  BY Zenon DEF Registers
<1> QED  BY <1>4, <1>5, <1>6, <1>7, Zenon

\* As many instructions as the counter allows meet one reload at most.
LEMMA OneReload ==
  ASSUME NEW s \in Systicks, NEW n \in Nat, Start(s) # 0 => n <= Start(s)
  PROVE  ReloadCount(s, n) <= 1
<1>1. Start(s) \in Nat
  BY DEF Start, Systicks
<1>2. CASE Reloaded(s, n) /\ s.rvr # 0
  <2>1. n - Start(s) = 0
    BY <1>1, <1>2 DEF Reloaded
  <2>2. s.rvr \in Nat \ {0}
    BY <1>2 DEF Systicks
  <2>3. 0 \div s.rvr = 0
    BY <2>2
  <2> QED  BY <1>2, <2>1, <2>3 DEF ReloadCount
<1>3. CASE ~(Reloaded(s, n) /\ s.rvr # 0)
  BY <1>3 DEF ReloadCount
<1> QED  BY <1>2, <1>3

\* A quotient and a remainder are the quotient and the remainder.
LEMMA RemainderIs ==
  ASSUME NEW k \in Nat, NEW r \in Nat \ {0}, NEW q \in Nat, NEW m \in 0 .. r - 1, k = r * q + m
  PROVE  k % r = m
OBVIOUS

\* The remainder of the next number.
LEMMA NextRemainder ==
  ASSUME NEW k \in Nat, NEW r \in Nat \ {0}
  PROVE  (k + 1) % r = IF k % r = r - 1 THEN 0 ELSE (k % r) + 1
<1>1. /\ (k % r) \in 0 .. r - 1 /\ k \div r \in Nat
      /\ k = r * (k \div r) + (k % r)
  OBVIOUS
<1> DEFINE q == k \div r
           m == k % r
<1> HIDE DEF q, m
<1>2. q \in Nat /\ m \in 0 .. r - 1 /\ k = r * q + m
  BY <1>1 DEF q, m
<1>3. CASE m = r - 1
  <2>1. k + 1 = r * (q + 1) + 0 /\ q + 1 \in Nat /\ 0 \in 0 .. r - 1
    BY <1>2, <1>3
  <2>2. (k + 1) % r = 0
    BY <2>1, RemainderIs
  <2> QED  BY <1>3, <2>2 DEF m
<1>4. CASE m # r - 1
  <2>1. k + 1 = r * q + (m + 1) /\ m + 1 \in 0 .. r - 1
    BY <1>2, <1>4
  <2>2. (k + 1) % r = m + 1
    BY <1>2, <2>1, RemainderIs
  <2> QED  BY <1>4, <2>2 DEF m
<1> QED  BY <1>3, <1>4


\* Registers that agree are the same.
LEMMA SameFields ==
  ASSUME NEW a \in Systicks, NEW b \in Systicks,
         a.cvr = b.cvr, a.rvr = b.rvr, a.enable = b.enable,
         a.tickint = b.tickint, a.flag = b.flag, a.pending = b.pending
  PROVE  a = b
BY DEF Systicks

\* n cycles from s to t, with a reload and without.
WithReload(s, n, t) ==
  /\ t.rvr = s.rvr /\ t.enable = s.enable /\ t.tickint = s.tickint
  /\ t.flag = TRUE /\ t.pending = (s.pending \/ s.tickint)
  /\ t.cvr = IF s.rvr = 0 THEN 0 ELSE s.rvr - ((n - Start(s)) % s.rvr)
WithoutReload(s, n, t) ==
  /\ t.rvr = s.rvr /\ t.enable = s.enable /\ t.tickint = s.tickint
  /\ t.flag = s.flag /\ t.pending = s.pending
  /\ t.cvr = Start(s) - n

\* A tick on which the counter reaches zero, one on which it does not, and
\* one of a stopped timer.
LEMMA TickReloads ==
  ASSUME NEW s \in Systicks, NEW n \in Nat, Reloaded(s, n)
  PROVE  WithReload(s, n, Tick(s, n))
<1> SUFFICES ASSUME NEW t, t = Tick(s, n) PROVE WithReload(s, n, t)
  OBVIOUS
<1> DEFINE v == IF s.rvr = 0 THEN 0 ELSE s.rvr - ((n - Start(s)) % s.rvr)
           p == s.pending \/ s.tickint
<1>1. t = [s EXCEPT !.cvr = v, !.flag = TRUE, !.pending = p]
  BY Zenon DEF Tick, AfterReload
<1>2. v \in Nat
  <2>1. CASE s.rvr # 0
    <3>1. n - Start(s) \in Nat /\ s.rvr \in Nat \ {0}
      BY <2>1 DEF Reloaded, Start, Systicks
    <3>2. (n - Start(s)) % s.rvr \in 0 .. s.rvr - 1
      BY <3>1
    <3> QED  BY <2>1, <3>1, <3>2
  <2> QED  BY <2>1
<1>3. p \in BOOLEAN
  BY Zenon
<1> HIDE DEF v, p
<1>4. /\ t.cvr = v /\ t.rvr = s.rvr /\ t.enable = s.enable
      /\ t.tickint = s.tickint /\ t.flag = TRUE /\ t.pending = p
  BY <1>1, <1>2, <1>3 DEF Systicks
<1> QED  BY <1>4, Zenon DEF v, p, WithReload

LEMMA TickCounts ==
  ASSUME NEW s \in Systicks, NEW n \in Nat, ~Reloaded(s, n), s.enable, Start(s) # 0
  PROVE  WithoutReload(s, n, Tick(s, n))
<1> SUFFICES ASSUME NEW t, t = Tick(s, n) PROVE WithoutReload(s, n, t)
  OBVIOUS
<1>1. Start(s) - n \in Nat
  BY DEF Reloaded, Start, Systicks
<1>2. t = [s EXCEPT !.cvr = Start(s) - n]
  BY DEF Tick
<1> DEFINE v == Start(s) - n
<1> HIDE DEF v
<1>3. v \in Nat /\ t = [s EXCEPT !.cvr = v]
  BY <1>1, <1>2 DEF v
<1>4. /\ t.cvr = v /\ t.rvr = s.rvr /\ t.enable = s.enable
      /\ t.tickint = s.tickint /\ t.flag = s.flag /\ t.pending = s.pending
  BY <1>3 DEF Systicks
<1> QED  BY <1>4, Zenon DEF v, WithoutReload

LEMMA TickStops ==
  ASSUME NEW s \in Systicks, NEW n \in Nat, ~(s.enable /\ Start(s) # 0)
  PROVE  Tick(s, n) = s
BY Zenon DEF Tick, Reloaded

\* Ticking n times and once more is ticking n + 1 times.
LEMMA TickAdds ==
  ASSUME NEW s \in Systicks, NEW n \in Nat \ {0}
  PROVE  Tick(Tick(s, n), 1) = Tick(s, n + 1)
<1>1. SUFFICES ASSUME NEW t, t = Tick(s, n), NEW a, a = Tick(t, 1),
                      NEW b, b = Tick(s, n + 1)
               PROVE  a = b
  OBVIOUS
<1>2. /\ Start(s) \in Nat /\ s.rvr \in Nat
      /\ n \in Nat /\ 1 \in Nat /\ n + 1 \in Nat
  BY DEF Start, Systicks
<1>3. t \in Systicks /\ a \in Systicks /\ b \in Systicks
  BY <1>1, <1>2, TickType, Zenon
<1>4. CASE ~(s.enable /\ Start(s) # 0)
  <2>1. t = s /\ b = s
    BY <1>1, <1>2, <1>4, TickStops, Zenon
  <2> QED  BY <1>1, <1>2, <1>4, <2>1, TickStops, Zenon
<1>5. CASE s.enable /\ Start(s) # 0 /\ n < Start(s)
  <2>1. ~Reloaded(s, n)
    BY <1>2, <1>5 DEF Reloaded
  <2>2. WithoutReload(s, n, t)
    BY <1>1, <1>2, <1>5, <2>1, TickCounts, Zenon
  <2>3. Start(t) = Start(s) - n /\ Start(t) \in Nat \ {0}
    BY <1>2, <1>5, <2>2 DEF Start, WithReload, WithoutReload
  <2>4. CASE n + 1 = Start(s)
    <3>1. Reloaded(t, 1) /\ Reloaded(s, n + 1)
      BY <1>2, <1>5, <2>2, <2>3, <2>4 DEF Reloaded, WithReload, WithoutReload
    <3>2. WithReload(t, 1, a)
      BY <1>1, <1>2, <1>3, <3>1, TickReloads, Zenon
    <3>3. WithReload(s, n + 1, b)
      BY <1>1, <1>2, <3>1, TickReloads, Zenon
    <3>4. 1 - Start(t) = 0 /\ (n + 1) - Start(s) = 0
      BY <1>2, <2>3, <2>4
    <3>5. a.cvr = b.cvr
      BY <2>2, <3>2, <3>3, <3>4 DEF WithReload, WithoutReload
    <3>6. /\ a.pending = b.pending /\ a.flag = b.flag /\ a.rvr = b.rvr
          /\ a.enable = b.enable /\ a.tickint = b.tickint
      BY <2>2, <3>2, <3>3, Zenon DEF WithReload, WithoutReload
    <3> QED  BY <1>3, <3>5, <3>6, SameFields, Zenon
  <2>5. CASE n + 1 # Start(s)
    <3>1. ~Reloaded(t, 1) /\ ~Reloaded(s, n + 1) /\ Start(t) # 0 /\ t.enable
      BY <1>2, <1>5, <2>2, <2>3, <2>5 DEF Reloaded, WithReload, WithoutReload
    <3>2. WithoutReload(t, 1, a)
      BY <1>1, <1>2, <1>3, <3>1, TickCounts, Zenon
    <3>3. WithoutReload(s, n + 1, b)
      BY <1>1, <1>2, <1>5, <3>1, TickCounts, Zenon
    <3>4. Start(t) - 1 = Start(s) - (n + 1)
      BY <1>2, <2>3
    <3>5. /\ a.cvr = b.cvr /\ a.pending = b.pending /\ a.flag = b.flag
          /\ a.rvr = b.rvr /\ a.enable = b.enable /\ a.tickint = b.tickint
      BY <2>2, <3>2, <3>3, <3>4, Zenon DEF WithReload, WithoutReload
    <3> QED  BY <1>3, <3>5, SameFields, Zenon
  <2> QED  BY <2>4, <2>5
<1>6. CASE s.enable /\ Start(s) # 0 /\ n >= Start(s)
  <2>1. Reloaded(s, n) /\ Reloaded(s, n + 1)
    BY <1>2, <1>6 DEF Reloaded
  <2>2. WithReload(s, n, t)
    BY <1>1, <1>2, <2>1, TickReloads, Zenon
  <2>3. WithReload(s, n + 1, b)
    BY <1>1, <1>2, <2>1, TickReloads, Zenon
  <2> DEFINE k == n - Start(s)
  <2>4. k \in Nat /\ n - Start(s) = k /\ (n + 1) - Start(s) = k + 1
    BY <1>2, <1>6
  <2> HIDE DEF k
  <2>5. CASE s.rvr = 0
    <3>1. t.cvr = 0 /\ b.cvr = 0 /\ t.rvr = 0
      BY <2>2, <2>3, <2>5 DEF WithReload, WithoutReload
    <3>2. a = t
      <4>1. Start(t) = 0
        BY <3>1 DEF Start
      <4> QED  BY <1>1, <1>2, <1>3, <4>1, TickStops, Zenon
    <3>3. /\ t.cvr = b.cvr /\ t.pending = b.pending /\ t.flag = b.flag
          /\ t.rvr = b.rvr /\ t.enable = b.enable /\ t.tickint = b.tickint
      BY <2>2, <2>3, <3>1, Zenon DEF WithReload, WithoutReload
    <3> QED  BY <1>3, <3>2, <3>3, SameFields, Zenon
  <2>6. CASE s.rvr # 0
    <3>1. s.rvr \in Nat \ {0}
      BY <1>2, <2>6
    <3>2. (k % s.rvr) \in 0 .. s.rvr - 1
      BY <2>4, <3>1
    <3>3. (k + 1) % s.rvr = IF k % s.rvr = s.rvr - 1 THEN 0 ELSE (k % s.rvr) + 1
      BY <2>4, <3>1, NextRemainder
    <3>4. t.cvr = s.rvr - (k % s.rvr) /\ b.cvr = s.rvr - ((k + 1) % s.rvr)
      BY <2>2, <2>3, <2>4, <2>6 DEF WithReload, WithoutReload
    <3>5. Start(t) = s.rvr - (k % s.rvr) /\ Start(t) \in Nat \ {0}
      BY <3>1, <3>2, <3>4 DEF Start
    <3>6. CASE k % s.rvr = s.rvr - 1
      <4>1. Start(t) = 1 /\ Reloaded(t, 1) /\ 1 - Start(t) = 0
        BY <1>6, <2>2, <3>1, <3>5, <3>6 DEF Reloaded, WithReload, WithoutReload
      <4>2. WithReload(t, 1, a)
        BY <1>1, <1>2, <1>3, <4>1, TickReloads, Zenon
      <4>3. 0 % s.rvr = 0
        BY <3>1
      <4>4. a.cvr = b.cvr
        BY <2>2, <3>1, <3>3, <3>4, <3>6, <4>1, <4>2, <4>3 DEF WithReload, WithoutReload
      <4>5. /\ a.pending = b.pending /\ a.flag = b.flag /\ a.rvr = b.rvr
            /\ a.enable = b.enable /\ a.tickint = b.tickint
        BY <2>2, <2>3, <4>2, Zenon DEF WithReload, WithoutReload
      <4> QED  BY <1>3, <4>4, <4>5, SameFields, Zenon
    <3>7. CASE k % s.rvr # s.rvr - 1
      <4>1. ~Reloaded(t, 1) /\ Start(t) # 0 /\ t.enable
        BY <1>6, <2>2, <3>1, <3>2, <3>5, <3>7 DEF Reloaded, WithReload, WithoutReload
      <4>2. WithoutReload(t, 1, a)
        BY <1>1, <1>2, <1>3, <4>1, TickCounts, Zenon
      <4>3. a.cvr = b.cvr
        BY <3>1, <3>2, <3>3, <3>4, <3>5, <3>7, <4>2 DEF WithReload, WithoutReload
      <4>4. /\ a.pending = b.pending /\ a.flag = b.flag /\ a.rvr = b.rvr
            /\ a.enable = b.enable /\ a.tickint = b.tickint
        BY <2>2, <2>3, <4>2, Zenon DEF WithReload, WithoutReload
      <4> QED  BY <1>3, <4>3, <4>4, SameFields, Zenon
    <3> QED  BY <3>6, <3>7
  <2> QED  BY <2>5, <2>6
<1> QED  BY <1>2, <1>4, <1>5, <1>6

-----------------------------------------------------------------------------
(* The inductive invariant *)

InChain == phase \in {"chain", "block"}

\* Where the loop is, and what is at rest there.
Places ==
  /\ phase = "block" => ~halted
  /\ ~InChain => chain = NoChain
  /\ phase # "block" => block = NoBlock

\* The counter leaves room for what the chain may still run.
Room ==
  /\ i <= max
  /\ phase \notin {"idle", "loop"} => i < max
  /\ InChain => chain.total <= chain.budget /\ chain.budget <= max - i
  /\ phase = "block" => chain.budget - chain.total >= MaxLen

\* What is completed is counted, ticked or not.
Counted ==
  ~halted =>
    /\ retired = i + chain.total + block.done + (IF phase = "check" THEN 1 ELSE 0)
    /\ phase = "idle" => i = max

\* The chain ends with the period.
Capped ==
  InChain /\ ~touched /\ Interrupting(st) /\ Start(st) # 0 => chain.budget <= Start(st)

\* PendSV can be waiting only since the block, or the chain, began.
NoWait == pendsv /\ Takeable => wait = 0
Waits ==
  ~halted =>
    /\ wait < MaxLen
    /\ phase \in {"idle", "loop", "interp"} => NoWait
    /\ phase = "chain" /\ chain.total = 0 => NoWait
    /\ phase = "block" => IF block.done = 0 THEN ~pendsv ELSE wait < block.done

LoopInv == TypeOK /\ Places /\ Room /\ Counted /\ Capped /\ Waits

LEMMA InitInv == Init => LoopInv
<1> SUFFICES ASSUME Init
             PROVE  LoopInv
  OBVIOUS
<1>1. Reset \in Systicks
  BY DEF Reset, Systicks
<1>2. TypeOK
  <2>1. 0 \in 0 .. MaxRun /\ 0 \in 0 .. MaxLen - 1 /\ 0 \in 0 .. MaxLen
    BY RunAssumption
  <2> QED  BY <1>1, <2>1 DEF Init, NoChain, NoBlock, TypeOK
<1>3. Places /\ Room /\ Counted /\ Capped
  BY DEF Init, NoChain, NoBlock, Places, Room, Counted, Capped, InChain
<1>4. Waits
  BY RunAssumption DEF Init, Waits, NoWait
<1> QED  BY <1>2, <1>3, <1>4 DEF LoopInv

LEMMA RunStartInv == LoopInv /\ RunStart => LoopInv'
BY RunAssumption
   DEF RunStart, core, NoChain, NoBlock, LoopInv, TypeOK, Places, Room, Counted, Capped, InChain,
       Waits, NoWait, Takeable

LEMMA HostPendsInv == LoopInv /\ HostPends => LoopInv'
BY DEF HostPends, history, LoopInv, TypeOK, Places, Room, Counted, Capped, InChain,
       Waits, NoWait, Takeable

LEMMA LoopEndsInv == LoopInv /\ LoopEnds => LoopInv'
BY DEF LoopEnds, core, history, LoopInv, TypeOK, Places, Room, Counted, Capped, InChain,
       Waits, NoWait, Takeable

\* The budget is within what is left, and within the period.
LEMMA BudgetBounds ==
  ASSUME TypeOK, NEW left \in Nat
  PROVE  /\ Budget(left) \in Nat /\ Budget(left) <= left
         /\ Interrupting(st) /\ Start(st) # 0 => Budget(left) <= Start(st)
<1>1. Start(st) \in Nat
  BY DEF Start, TypeOK, Systicks
<1>2. PendsvCap(left) \in Nat /\ PendsvCap(left) <= left
  BY RunAssumption DEF PendsvCap
<1> QED  BY <1>1, <1>2 DEF Budget

LEMMA LoopChainsInv == LoopInv /\ LoopChains => LoopInv'
<1> SUFFICES ASSUME LoopInv, LoopChains
             PROVE  LoopInv'
  OBVIOUS
<1>1. max - i \in Nat
  BY RunAssumption DEF LoopInv, TypeOK, LoopChains
<1>2. /\ Budget(max - i) \in Nat /\ Budget(max - i) <= max - i
      /\ Interrupting(st) /\ Start(st) # 0 => Budget(max - i) <= Start(st)
  BY <1>1, BudgetBounds DEF LoopInv
<1>3. chain' = [budget |-> Budget(max - i), total |-> 0]
  BY DEF LoopChains
<1>4. TypeOK'
  BY <1>2, <1>3 DEF LoopInv, TypeOK, LoopChains, core, history
<1>5. Places' /\ Room' /\ Counted'
  BY <1>2, <1>3 DEF LoopInv, TypeOK, LoopChains, core, history, Places, Room, Counted, InChain, NoChain
<1>6. Capped'
  BY <1>2, <1>3 DEF LoopChains, core, history, Capped, Interrupting, Start
<1>7. Waits'
  BY DEF LoopInv, LoopChains, core, history, Waits, NoWait, Takeable
<1> QED  BY <1>4, <1>5, <1>6, <1>7 DEF LoopInv

LEMMA BlockStartInv == LoopInv /\ BlockStart => LoopInv'
<1> SUFFICES ASSUME LoopInv, BlockStart
             PROVE  LoopInv'
  OBVIOUS
<1>1. /\ block' \in [done : 0 .. MaxLen - 1, native : BOOLEAN, failed : BOOLEAN]
      /\ block'.done = 0
  <2>1. PICK native \in {FALSE, Native} : block' = [NoBlock EXCEPT !.native = native]
    BY DEF BlockStart
  <2>2. native \in BOOLEAN
    BY RunAssumption, Zenon
  <2>3. 0 \in 0 .. MaxLen - 1
    BY RunAssumption
  <2>5. block' = [done |-> 0, native |-> native, failed |-> FALSE]
    BY <2>1 DEF NoBlock
  <2>6. block'.done = 0
    BY <2>5
  <2>7. [done |-> 0, native |-> native, failed |-> FALSE]
          \in [done : 0 .. MaxLen - 1, native : BOOLEAN, failed : BOOLEAN]
    BY <2>2, <2>3
  <2> QED  BY <2>5, <2>6, <2>7
<1>2. TypeOK'
  BY <1>1 DEF LoopInv, TypeOK, BlockStart, core, history
<1>3. Places' /\ Room'
  BY DEF LoopInv, BlockStart, Going, core, history, Places, Room, InChain
<1>4. block = NoBlock
  BY DEF LoopInv, BlockStart, Places
<1>5. Counted'
  BY <1>1, <1>4 DEF LoopInv, BlockStart, core, history, Counted, NoBlock
<1>6. Capped'
  BY DEF LoopInv, BlockStart, core, history, Capped, InChain, Interrupting, Start
<1>7. Waits'
  BY <1>1 DEF LoopInv, BlockStart, Going, core, history, Waits
<1> QED  BY <1>2, <1>3, <1>5, <1>6, <1>7 DEF LoopInv

\* What the end of a block leaves, or its going on.
LEMMA BlockOnKeeps ==
  ASSUME TypeOK, Room, phase = "block", NEW terminator \in BOOLEAN,
         NEW b \in [done : 1 .. MaxLen, native : BOOLEAN, failed : BOOLEAN],
         BlockOn(b, terminator), UNCHANGED <<i, max>>
  PROVE  /\ phase' \in {"chain", "block"} /\ halted' \in BOOLEAN
         /\ chain' \in [budget : Nat, total : Nat] /\ chain'.budget = chain.budget
         /\ block' \in [done : 0 .. MaxLen - 1, native : BOOLEAN, failed : BOOLEAN]
         /\ phase' = "block" => block' = b /\ chain' = chain /\ halted' = halted
         /\ phase' = "chain" => block' = NoBlock /\ halted' = b.failed
         /\ phase' = "chain" /\ ~b.failed => chain'.total = chain.total + b.done
         /\ chain'.total <= chain.budget
<1>1. chain \in [budget : Nat, total : Nat] /\ MaxLen \in Nat /\ MaxLen > 1
  BY RunAssumption DEF TypeOK
<1>2. chain.budget - chain.total >= MaxLen
  BY DEF Room
<1>3. CASE terminator \/ b.done = MaxLen
  <2>1. /\ phase' = "chain" /\ block' = NoBlock /\ halted' = b.failed
        /\ chain' = IF b.failed THEN chain ELSE [chain EXCEPT !.total = @ + b.done]
    BY <1>3 DEF BlockOn
  <2>2. NoBlock \in [done : 0 .. MaxLen - 1, native : BOOLEAN, failed : BOOLEAN]
    BY <1>1 DEF NoBlock
  <2> QED  BY <1>1, <1>2, <2>1, <2>2
<1>4. CASE ~(terminator \/ b.done = MaxLen)
  <2>1. phase' = "block" /\ block' = b /\ UNCHANGED <<chain, halted>>
    BY <1>4 DEF BlockOn
  <2>2. b.done \in 0 .. MaxLen - 1
    BY <1>1, <1>4
  <2>3. b \in [done : 0 .. MaxLen - 1, native : BOOLEAN, failed : BOOLEAN]
    BY <2>2
  <2> QED  BY <1>1, <1>2, <2>1, <2>3 DEF TypeOK
<1> QED  BY <1>3, <1>4

\* What an instruction does to the histories.
LEMMA DoneKeeps ==
  ASSUME TypeOK, Done
  PROVE  /\ retired' \in Nat /\ retired' = retired + 1
         /\ wait' \in 0 .. MaxLen
         /\ wait' <= IF pendsv /\ Takeable THEN wait + 1 ELSE 0
<1>1. wait \in 0 .. MaxLen /\ pendsv \in BOOLEAN
  BY DEF TypeOK
<1>2. Waited \in 0 .. MaxLen /\ Waited <= IF pendsv /\ Takeable THEN wait + 1 ELSE 0
  BY <1>1, RunAssumption DEF Waited
<1>3. wait' = Waited
  BY DEF Done
<1>4. retired' \in Nat /\ retired' = retired + 1
  BY DEF Done, TypeOK
<1> QED  BY <1>1, <1>2, <1>3, <1>4

\* What an instruction that completes does to the rest of the core.
LEMMA InstrKeeps ==
  ASSUME TypeOK, NEW new \in {st} \cup Registers(st), NEW used \in BOOLEAN,
         Store(new, used) \/ System(new, used)
  PROVE  /\ new \in Systicks
         /\ pendsv' \in BOOLEAN /\ irq' \in BOOLEAN /\ masked' \in BOOLEAN
         /\ mode' \in {"thread", "handler"}
         /\ ~used => new = st
<1>1. new \in Systicks
  BY RegistersType DEF TypeOK
<1>2. CASE Store(new, used)
  BY <1>1, <1>2 DEF Store, TypeOK
<1>3. CASE System(new, used)
  BY <1>1, <1>3 DEF System, TypeOK
<1> QED  BY <1>2, <1>3

LEMMA BlockInstrInv == LoopInv /\ BlockInstr => LoopInv'
<1> SUFFICES ASSUME LoopInv, BlockInstr
             PROVE  LoopInv'
  OBVIOUS
<1> USE DEF LoopInv
<1>1. PICK new \in {st} \cup Registers(st), used \in BOOLEAN, terminator \in BOOLEAN, fails \in BOOLEAN :
        /\ Store(new, used) \/ System(new, used)
        /\ st' = new /\ touched' = (touched \/ used)
        /\ ref' = IF touched' THEN new ELSE Tick(ref, 1)
        /\ BlockOn([block EXCEPT !.done = @ + 1, !.failed = @ \/ fails], terminator)
  BY DEF BlockInstr
<1> DEFINE b == [block EXCEPT !.done = @ + 1, !.failed = @ \/ fails]
<1>2. /\ phase = "block" /\ ~halted /\ UNCHANGED <<i, max>> /\ Done
      /\ MaxLen \in Nat /\ MaxLen > 1
  BY RunAssumption DEF BlockInstr, Places
<1>3. /\ block \in [done : 0 .. MaxLen - 1, native : BOOLEAN, failed : BOOLEAN]
      /\ b \in [done : 1 .. MaxLen, native : BOOLEAN, failed : BOOLEAN]
      /\ b.done = block.done + 1
  <2>1. block \in [done : 0 .. MaxLen - 1, native : BOOLEAN, failed : BOOLEAN]
    BY DEF TypeOK
  <2>2. block.done + 1 \in 1 .. MaxLen /\ (block.failed \/ fails) \in BOOLEAN
    BY <1>2, <2>1
  <2> QED  BY <2>1, <2>2
<1>4. /\ phase' \in {"chain", "block"} /\ halted' \in BOOLEAN
      /\ chain' \in [budget : Nat, total : Nat] /\ chain'.budget = chain.budget
      /\ block' \in [done : 0 .. MaxLen - 1, native : BOOLEAN, failed : BOOLEAN]
      /\ phase' = "block" => block' = b /\ chain' = chain /\ halted' = halted
      /\ phase' = "chain" => block' = NoBlock /\ halted' = b.failed
      /\ phase' = "chain" /\ ~b.failed => chain'.total = chain.total + b.done
      /\ chain'.total <= chain.budget
  <2> HIDE DEF b
  <2>1. BlockOn(b, terminator)
    BY <1>1 DEF b
  <2> QED  BY <1>2, <1>3, <2>1, BlockOnKeeps
<1>5. /\ new \in Systicks /\ (~used => new = st)
      /\ pendsv' \in BOOLEAN /\ irq' \in BOOLEAN /\ masked' \in BOOLEAN
      /\ mode' \in {"thread", "handler"}
  BY <1>1, InstrKeeps
<1>6. /\ retired' \in Nat /\ retired' = retired + 1
      /\ wait' \in 0 .. MaxLen
      /\ wait' <= IF pendsv /\ Takeable THEN wait + 1 ELSE 0
  BY <1>2, DoneKeeps
<1>7. ref' \in Systicks /\ touched' \in BOOLEAN
  <2>1. Tick(ref, 1) \in Systicks
    BY TickType DEF TypeOK
  <2>2. touched' \in BOOLEAN
    BY <1>1
  <2> QED  BY <1>1, <1>5, <2>1, <2>2
<1> HIDE DEF b
<1>8. TypeOK'
  BY <1>1, <1>2, <1>4, <1>5, <1>6, <1>7 DEF TypeOK
<1>9. Places' /\ Room'
  <2>1. phase' = "block" => ~halted'
    BY <1>2, <1>4
  <2>2. phase' # "block" => block' = NoBlock
    BY <1>4
  <2> QED  BY <1>2, <1>4, <2>1, <2>2 DEF Places, Room, InChain
<1>10. Counted'
  <2>1. retired = i + chain.total + block.done
    BY <1>2 DEF Counted, TypeOK
  <2>2. CASE phase' = "block"
    <3>1. block'.done = block.done + 1 /\ chain'.total = chain.total
      BY <1>3, <1>4, <2>2
    <3> QED  BY <1>2, <1>3, <1>6, <2>1, <2>2, <3>1 DEF Counted, TypeOK
  <2>3. CASE phase' = "chain" /\ ~b.failed
    <3>1. block'.done = 0 /\ chain'.total = chain.total + block.done + 1
      BY <1>3, <1>4, <2>3 DEF NoBlock, TypeOK
    <3> QED  BY <1>2, <1>3, <1>6, <2>1, <2>3, <3>1 DEF Counted, TypeOK
  <2> QED  BY <1>4, <2>2, <2>3 DEF Counted
<1>11. Capped'
  <2>1. ~touched' => st' = st /\ ~touched
    BY <1>1, <1>5
  <2> QED  BY <1>2, <1>4, <2>1 DEF Capped, InChain, Interrupting, Start
<1>12. Waits'
  <2>1. wait' <= block.done
    <3>1. wait \in Nat /\ block.done \in Nat /\ wait' \in Nat
      BY <1>2, <1>3, <1>6 DEF TypeOK
    <3>2. IF block.done = 0 THEN ~pendsv ELSE wait < block.done
      BY <1>2 DEF Waits
    <3>3. CASE pendsv /\ Takeable
      BY <1>6, <3>1, <3>2, <3>3
    <3>4. CASE ~(pendsv /\ Takeable)
      BY <1>6, <3>1, <3>4
    <3> QED  BY <3>3, <3>4
  <2>2. wait' < MaxLen
    BY <1>2, <1>3, <1>6, <2>1
  <2>3. CASE phase' = "block"
    <3>1. block'.done = block.done + 1
      BY <1>3, <1>4, <2>3
    <3> QED  BY <1>3, <1>6, <2>1, <2>2, <2>3, <3>1 DEF Waits
  <2>4. CASE phase' = "chain"
    <3>1. ~halted' => chain'.total # 0
      BY <1>3, <1>4, <2>4 DEF TypeOK
    <3> QED  BY <2>2, <2>4, <3>1 DEF Waits
  <2> QED  BY <1>4, <2>3, <2>4
<1> QED  BY <1>8, <1>9, <1>10, <1>11, <1>12

LEMMA BlockHaltsInv == LoopInv /\ BlockHalts => LoopInv'
<1> SUFFICES ASSUME LoopInv, BlockHalts
             PROVE  LoopInv'
  OBVIOUS
<1> USE DEF LoopInv
<1>1. PICK n \in {block.done, block.done + 1} : chain' = [chain EXCEPT !.total = @ + n]
  BY DEF BlockHalts
<1>2. /\ chain \in [budget : Nat, total : Nat] /\ MaxLen \in Nat /\ MaxLen > 1
      /\ block.done \in 0 .. MaxLen - 1
  BY RunAssumption DEF TypeOK
<1>3. n \in 0 .. MaxLen /\ chain.budget - chain.total >= MaxLen
  BY <1>1, <1>2 DEF BlockHalts, Room
<1>4. /\ chain' \in [budget : Nat, total : Nat] /\ chain'.budget = chain.budget
      /\ chain'.total <= chain.budget
  BY <1>1, <1>2, <1>3
<1>5. /\ halted' = TRUE /\ phase' = "chain" /\ block' = NoBlock
      /\ UNCHANGED <<st, pendsv, irq, mode, masked, i, max, history>>
  BY DEF BlockHalts
<1>6. NoBlock \in [done : 0 .. MaxLen - 1, native : BOOLEAN, failed : BOOLEAN]
  BY <1>2 DEF NoBlock
<1>7. TypeOK'
  BY <1>4, <1>5, <1>6 DEF TypeOK, history
<1>8. Places' /\ Room'
  BY <1>4, <1>5 DEF BlockHalts, Places, Room, InChain
<1>9. Capped'
  BY <1>4, <1>5 DEF BlockHalts, Capped, InChain, Interrupting, Start, history
<1>10. Counted' /\ Waits'
  BY <1>5 DEF Counted, Waits
<1> QED  BY <1>7, <1>8, <1>9, <1>10

LEMMA ChainEmptyInv == LoopInv /\ ChainEmpty => LoopInv'
<1> SUFFICES ASSUME LoopInv, ChainEmpty
             PROVE  LoopInv'
  OBVIOUS
<1> USE DEF LoopInv
<1>1. /\ phase = "chain" /\ chain.total = 0 /\ phase' = "interp" /\ chain' = NoChain
      /\ UNCHANGED <<st, core, i, max, block, history>>
  BY DEF ChainEmpty
<1>2. TypeOK'
  BY <1>1 DEF TypeOK, core, history, NoChain
<1>3. Room' /\ Counted'
  BY <1>1 DEF Room, Counted, InChain, core, history, NoChain, TypeOK
<1>4. Capped' /\ Waits'
  BY <1>1 DEF Capped, Waits, NoWait, Takeable, InChain, core, history
<1>5. Places'
  BY <1>1 DEF Places, InChain, core, history
<1> QED  BY <1>2, <1>3, <1>4, <1>5

LEMMA ChainReturnsInv == LoopInv /\ ChainReturns => LoopInv'
<1> SUFFICES ASSUME LoopInv, ChainReturns
             PROVE  LoopInv'
  OBVIOUS
<1> USE DEF LoopInv
<1>1. /\ phase = "chain" /\ chain.total > 0 /\ phase' = "check" /\ chain' = NoChain
      /\ touched' = FALSE /\ i' = i + chain.total - 1
      /\ UNCHANGED <<core, max, block, retired, wait>>
  BY DEF ChainReturns, Advanced
<1>2. /\ chain \in [budget : Nat, total : Nat] /\ i \in 0 .. MaxRun /\ max \in 0 .. MaxRun
      /\ MaxRun \in Nat
      /\ chain.total <= chain.budget /\ chain.budget <= max - i
  BY <1>1, RunAssumption DEF TypeOK, Room, InChain
<1>3. i' \in 0 .. MaxRun /\ i' < max
  BY <1>1, <1>2
<1>4. st' \in Systicks /\ ref' \in Systicks
  <2>1. st \in Systicks /\ ref \in Systicks
    BY DEF TypeOK
  <2>2. Tick(st, chain.total) \in Systicks
    BY <1>2, <2>1, TickType
  <2> QED  BY <2>1, <2>2 DEF ChainReturns
<1>5. TypeOK'
  BY <1>1, <1>3, <1>4 DEF TypeOK, core, NoChain
<1>6. Places' /\ Room' /\ Capped'
  BY <1>1, <1>2, <1>3 DEF Places, Room, Capped, InChain, core
<1>7. Counted'
  BY <1>1, <1>2 DEF Counted, Places, core, NoChain, NoBlock, TypeOK
<1>8. Waits'
  BY <1>1 DEF Waits, core
<1> QED  BY <1>5, <1>6, <1>7, <1>8

LEMMA InterpretInv == LoopInv /\ Interpret => LoopInv'
<1> SUFFICES ASSUME LoopInv, Interpret
             PROVE  LoopInv'
  OBVIOUS
<1> USE DEF LoopInv
<1>1. PICK new \in {st} \cup Registers(st), used \in BOOLEAN :
        /\ Store(new, used) \/ System(new, used)
        /\ st' = Tick(new, 1)
        /\ ref' = IF used THEN st' ELSE Tick(ref, 1)
  BY DEF Interpret
<1>2. /\ phase = "interp" /\ phase' = "check" /\ halted' \in {halted, TRUE}
      /\ UNCHANGED <<i, max, chain, block, touched>> /\ Done
  BY DEF Interpret
<1>3. /\ new \in Systicks
      /\ pendsv' \in BOOLEAN /\ irq' \in BOOLEAN /\ masked' \in BOOLEAN
      /\ mode' \in {"thread", "handler"}
  BY <1>1, InstrKeeps
<1>4. /\ retired' \in Nat /\ retired' = retired + 1
      /\ wait' \in 0 .. MaxLen
      /\ wait' <= IF pendsv /\ Takeable THEN wait + 1 ELSE 0
  BY <1>2, DoneKeeps
<1>5. st' \in Systicks /\ ref' \in Systicks
  <2>1. Tick(new, 1) \in Systicks /\ Tick(ref, 1) \in Systicks
    BY <1>3, TickType DEF TypeOK
  <2> QED  BY <1>1, <2>1
<1>6. halted' \in BOOLEAN /\ (~halted' => ~halted)
  <2>1. CASE halted' = halted
    BY <2>1 DEF TypeOK
  <2>2. CASE halted' = TRUE
    BY <2>2
  <2> QED  BY <1>2, <2>1, <2>2
<1>7. TypeOK'
  BY <1>2, <1>3, <1>4, <1>5, <1>6 DEF TypeOK
<1>8. Places' /\ Room' /\ Capped'
  BY <1>2 DEF Places, Room, Capped, InChain
<1>9. Counted'
  BY <1>2, <1>4, <1>6 DEF Counted, Places, NoChain, NoBlock, InChain, TypeOK
<1>10. Waits'
  <2> MaxLen \in Nat /\ MaxLen > 1
    BY RunAssumption
  <2>1. ~halted' => wait' <= 1
    BY <1>2, <1>4, <1>6 DEF Waits, NoWait, TypeOK
  <2> QED  BY <1>2, <1>4, <2>1 DEF Waits
<1> QED  BY <1>7, <1>8, <1>9, <1>10

LEMMA InterpretFailsInv == LoopInv /\ InterpretFails => LoopInv'
BY DEF InterpretFails, history, LoopInv, TypeOK, Places, Room, Counted, Capped, InChain, Waits

LEMMA CheckIrqsInv == LoopInv /\ CheckIrqs => LoopInv'
<1> SUFFICES ASSUME LoopInv, CheckIrqs
             PROVE  LoopInv'
  OBVIOUS
<1> USE DEF LoopInv
<1>1. /\ phase = "check" /\ phase' = "loop" /\ i' = i + 1
      /\ UNCHANGED <<masked, halted, max, chain, block, touched, retired>>
  BY DEF CheckIrqs
<1>2. /\ st' \in Systicks /\ ref' \in Systicks /\ pendsv' \in BOOLEAN /\ irq' \in BOOLEAN
      /\ mode' \in {"thread", "handler"}
      /\ wait' \in 0 .. MaxLen
      /\ wait' = 0 \/ wait' = wait
      /\ NoWait'
  <2> MaxLen \in Nat /\ 0 \in 0 .. MaxLen
    BY RunAssumption
  <2> /\ st \in Systicks /\ ref \in Systicks /\ pendsv \in BOOLEAN /\ irq \in BOOLEAN
      /\ mode \in {"thread", "handler"} /\ wait \in 0 .. MaxLen
    BY DEF TypeOK
  <2>1. CASE Taken
    <3>1. /\ mode' \in {"handler", mode} /\ wait' = 0
      BY <2>1 DEF Taken
    <3>2. st' \in {st, [st EXCEPT !.pending = FALSE]} /\ ref' \in {ref, [ref EXCEPT !.pending = FALSE]}
      BY DEF CheckIrqs
    <3>3. st' \in Systicks /\ ref' \in Systicks
      BY <3>2 DEF Systicks
    <3>4. pendsv' \in BOOLEAN /\ irq' \in BOOLEAN
      BY DEF CheckIrqs
    <3> QED  BY <3>1, <3>3, <3>4 DEF NoWait
  <2>2. CASE /\ ~TakesTick /\ ~TakesPendsv /\ ~TakesIrq
             /\ UNCHANGED <<st, ref, pendsv, irq, mode, wait>>
    <3>1. ~(pendsv /\ Takeable)
      BY <2>2 DEF TakesTick, TakesPendsv
    <3> QED  BY <1>1, <2>2, <3>1 DEF NoWait, Takeable
  <2> QED  BY <2>1, <2>2 DEF CheckIrqs
<1>3. i < max /\ i \in 0 .. MaxRun /\ max \in 0 .. MaxRun /\ MaxRun \in Nat
  BY <1>1, RunAssumption DEF Room, TypeOK
<1>4. TypeOK'
  BY <1>1, <1>2, <1>3 DEF TypeOK
<1>5. Places' /\ Room' /\ Capped'
  BY <1>1, <1>3 DEF Places, Room, Capped, InChain
<1>6. Counted'
  BY <1>1, <1>3 DEF Counted, Places, InChain, NoChain, NoBlock, TypeOK
<1>7. Waits'
  BY <1>1, <1>2, RunAssumption DEF Waits
<1> QED  BY <1>4, <1>5, <1>6, <1>7

LEMMA Inductive == LoopInv /\ [Next]_vars => LoopInv'
<1> SUFFICES ASSUME LoopInv, [Next]_vars
             PROVE  LoopInv'
  OBVIOUS
<1>1. CASE UNCHANGED vars
  BY <1>1 DEF vars, core, history, LoopInv, TypeOK, Places, Room, Counted, Capped, InChain, Waits, NoWait,
              Takeable, Interrupting, Start
<1>2. CASE Next
  BY <1>2, RunStartInv, HostPendsInv, LoopEndsInv, LoopChainsInv, BlockStartInv, BlockInstrInv,
     BlockHaltsInv, ChainEmptyInv, ChainReturnsInv, InterpretInv, InterpretFailsInv, CheckIrqsInv
     DEF Next, Loop
<1> QED  BY <1>1, <1>2

\* The invariant says what the properties say.
LEMMA InvImplies ==
  LoopInv => TypeOK /\ RunExact /\ OneReloadPerChain /\ PendsvPrompt
<1> SUFFICES ASSUME LoopInv
             PROVE  TypeOK /\ RunExact /\ OneReloadPerChain /\ PendsvPrompt
  OBVIOUS
<1> USE DEF LoopInv
<1>1. RunExact
  BY DEF RunExact, Room, Counted, Places, InChain, NoChain, NoBlock, TypeOK
<1>2. OneReloadPerChain
  <2> SUFFICES ASSUME Interrupting(st), ~touched, Unticked > 0
               PROVE  ReloadCount(st, Unticked) <= 1
    BY DEF OneReloadPerChain
  <2>1. /\ chain \in [budget : Nat, total : Nat] /\ MaxLen \in Nat /\ st \in Systicks
        /\ block.done \in 0 .. MaxLen - 1
    BY RunAssumption DEF TypeOK
  <2>2. InChain
    BY <2>1 DEF Places, InChain, Unticked, NoChain, NoBlock
  <2>3. Unticked \in Nat /\ Unticked <= chain.budget
    BY <2>1, <2>2 DEF Unticked, Room, Places, InChain, NoBlock
  <2>4. Start(st) # 0 => Unticked <= Start(st)
    <3>1. Start(st) \in Nat
      BY <2>1 DEF Start, Systicks
    <3> QED  BY <2>1, <2>2, <2>3, <3>1 DEF Capped
  <2> QED  BY <2>1, <2>3, <2>4, OneReload
<1>3. PendsvPrompt
  BY DEF PendsvPrompt, Waits
<1> QED  BY <1>1, <1>2, <1>3

LEMMA Invariance == Spec => []LoopInv
BY InitInv, Inductive, PTL DEF Spec

\* The counters of the run loop stay within the run and the chain within the
\* budget it can be given, whatever the block lengths and the reload values.
THEOREM TypeCorrect == Spec => []TypeOK
BY Invariance, InvImplies, PTL

\* A run takes exactly the steps it was asked for (run.c:95-105): whatever the
\* block lengths, the reload values and what firmware does.
THEOREM RunsToTheStep == Spec => []RunExact
BY Invariance, InvImplies, PTL

\* irq_safe_budget keeps its promise (run.c:54-57) for chains in which firmware
\* leaves SysTick alone.
THEOREM OneRequestPerPeriod == Spec => []OneReloadPerChain
BY Invariance, InvImplies, PTL

\* The stop flag of jit_run_chained keeps PendSV waiting for less than a block
\* (run.c:58-60).
THEOREM PendsvWithinBlock == Spec => []PendsvPrompt
BY Invariance, InvImplies, PTL

-----------------------------------------------------------------------------
(* One batched tick is as many single ticks *)

\* An instruction of a block, and a step on its own, is one more tick.
LEMMA BlockInstrTicks == LoopInv /\ TickExact /\ BlockInstr => TickExact'
<1> SUFFICES ASSUME LoopInv, TickExact, BlockInstr, ~halted', ~touched'
             PROVE  ref' = IF Unticked' > 0 THEN Tick(st', Unticked') ELSE st'
  BY DEF TickExact
<1>1. PICK new \in {st} \cup Registers(st), used \in BOOLEAN, terminator \in BOOLEAN, fails \in BOOLEAN :
        /\ Store(new, used) \/ System(new, used)
        /\ st' = new /\ touched' = (touched \/ used)
        /\ ref' = IF touched' THEN new ELSE Tick(ref, 1)
        /\ BlockOn([block EXCEPT !.done = @ + 1, !.failed = @ \/ fails], terminator)
  BY DEF BlockInstr
<1>2. ~used /\ ~touched /\ ref' = Tick(ref, 1)
  BY <1>1
<1>3. TypeOK /\ ~halted
  BY DEF LoopInv, Places, BlockInstr
<1>4. st' = st
  BY <1>1, <1>2, <1>3, InstrKeeps, Zenon
<1>5. st \in Systicks /\ Unticked \in Nat /\ Unticked' = Unticked + 1
  <2>1. /\ chain \in [budget : Nat, total : Nat] /\ st \in Systicks /\ MaxLen \in Nat
        /\ block \in [done : 0 .. MaxLen - 1, native : BOOLEAN, failed : BOOLEAN]
    BY <1>3, RunAssumption DEF TypeOK
  <2> DEFINE b == [block EXCEPT !.done = @ + 1, !.failed = @ \/ fails]
  <2>2. b.done = block.done + 1
    BY <2>1
  <2>3. BlockOn(b, terminator)
    BY <1>1
  <2> HIDE DEF b
  <2>4. \/ chain' = chain /\ block' = b
        \/ chain' = [chain EXCEPT !.total = @ + b.done] /\ block' = NoBlock
    BY <2>3 DEF BlockOn
  <2> QED  BY <2>1, <2>2, <2>4 DEF Unticked, NoBlock
<1>6. ref' = IF Unticked > 0 THEN Tick(Tick(st, Unticked), 1) ELSE Tick(st, 1)
  BY <1>2, <1>3 DEF TickExact
<1>7. CASE Unticked > 0
  <2>1. Tick(Tick(st, Unticked), 1) = Tick(st, Unticked + 1)
    BY <1>5, <1>7, TickAdds
  <2> QED  BY <1>4, <1>5, <1>6, <1>7, <2>1
<1>8. CASE Unticked = 0
  BY <1>4, <1>5, <1>6, <1>8
<1> QED  BY <1>5, <1>7, <1>8

LEMMA InterpretTicks == LoopInv /\ TickExact /\ Interpret => TickExact'
<1> SUFFICES ASSUME LoopInv, TickExact, Interpret, ~halted', ~touched'
             PROVE  ref' = IF Unticked' > 0 THEN Tick(st', Unticked') ELSE st'
  BY DEF TickExact
<1>1. PICK new \in {st} \cup Registers(st), used \in BOOLEAN :
        /\ Store(new, used) \/ System(new, used)
        /\ st' = Tick(new, 1)
        /\ ref' = IF used THEN st' ELSE Tick(ref, 1)
  BY DEF Interpret
<1>2. TypeOK /\ UNCHANGED <<chain, block, touched>> /\ chain = NoChain /\ block = NoBlock
  BY DEF LoopInv, Places, InChain, Interpret
<1>3. Unticked = 0 /\ Unticked' = 0
  BY <1>2 DEF Unticked, NoChain, NoBlock
<1>4. ~halted
  BY <1>2 DEF Interpret, TypeOK
<1>5. ref = st
  BY <1>2, <1>3, <1>4 DEF TickExact
<1>6. CASE used
  BY <1>1, <1>3, <1>6
<1>7. CASE ~used
  <2>1. new = st
    BY <1>1, <1>2, <1>7, InstrKeeps, Zenon
  <2> QED  BY <1>1, <1>3, <1>5, <1>7, <2>1
<1> QED  BY <1>6, <1>7

LEMMA TickInductive == LoopInv /\ TickExact /\ [Next]_vars => TickExact'
<1> SUFFICES ASSUME LoopInv, TickExact, [Next]_vars
             PROVE  TickExact'
  OBVIOUS
<1>1. ASSUME UNCHANGED <<st, ref, touched, halted>>, Unticked' = Unticked
      PROVE  TickExact'
  BY <1>1 DEF TickExact
<1>2. CASE UNCHANGED vars
  BY <1>1, <1>2 DEF vars, core, history, Unticked
<1>3. CASE RunStart \/ HostPends \/ LoopEnds
  BY <1>1, <1>3 DEF RunStart, HostPends, LoopEnds, core, history, Unticked
<1>4. CASE LoopChains
  <2>1. chain.total = 0 /\ chain'.total = 0
    BY <1>4 DEF LoopInv, Places, InChain, NoChain, LoopChains
  <2> QED  BY <1>1, <1>4, <2>1 DEF LoopChains, core, history, Unticked
<1>5. CASE BlockStart
  <2>1. block.done = 0 /\ block'.done = 0
    BY <1>5 DEF LoopInv, Places, NoBlock, BlockStart
  <2> QED  BY <1>1, <1>5, <2>1 DEF BlockStart, core, history, Unticked
<1>6. CASE BlockInstr
  BY <1>6, BlockInstrTicks
<1>7. CASE BlockHalts \/ InterpretFails
  BY <1>7 DEF BlockHalts, InterpretFails, TickExact
<1>8. CASE ChainEmpty
  <2>1. chain.total = 0 /\ chain'.total = 0
    BY <1>8 DEF NoChain, ChainEmpty
  <2> QED  BY <1>1, <1>8, <2>1 DEF ChainEmpty, core, history, Unticked
<1>9. CASE ChainReturns
  <2>1. block.done = 0 /\ block' = block /\ chain'.total = 0 /\ chain.total \in Nat \ {0}
        /\ halted' = halted
    BY <1>9 DEF LoopInv, Places, NoBlock, NoChain, ChainReturns, core, TypeOK
  <2>2. Unticked' = 0 /\ Unticked = chain.total
    BY <2>1 DEF Unticked
  <2>3. ~halted /\ ~touched => ref = st'
    BY <1>9, <2>1, <2>2 DEF ChainReturns, TickExact
  <2> QED  BY <1>9, <2>1, <2>2, <2>3 DEF ChainReturns, TickExact
<1>10. CASE Interpret
  BY <1>10, InterpretTicks
<1>11. CASE CheckIrqs
  <2>1. Unticked = 0 /\ Unticked' = 0 /\ UNCHANGED <<touched, halted>>
    BY <1>11 DEF LoopInv, Places, InChain, NoChain, NoBlock, CheckIrqs, Unticked
  <2>2. \/ st' = [st EXCEPT !.pending = FALSE] /\ ref' = [ref EXCEPT !.pending = FALSE]
        \/ UNCHANGED <<st, ref>>
    BY <1>11 DEF CheckIrqs
  <2>3. ~halted /\ ~touched => ref = st
    BY <2>1 DEF TickExact
  <2>4. ~halted' /\ ~touched' => ref' = st'
    BY <2>1, <2>2, <2>3
  <2>5. ~(Unticked' > 0)
    BY <2>1
  <2> QED  BY <2>4, <2>5 DEF TickExact
<1> QED  BY <1>2, <1>3, <1>4, <1>5, <1>6, <1>7, <1>8, <1>9, <1>10, <1>11 DEF Next, Loop

\* Batching is exact (run.c:101): SysTick ticked once for a chain is SysTick
\* ticked after every instruction, whatever the reload value and the chain.
THEOREM TicksExactly == Spec => []TickExact
<1>1. Init => TickExact
  BY DEF Init, NoChain, NoBlock, TickExact, Unticked
<1> QED  BY <1>1, TickInductive, Invariance, PTL DEF Spec
===============================================================================
