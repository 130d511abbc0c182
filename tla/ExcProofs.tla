------------------------------ MODULE ExcProofs ------------------------------
(***************************************************************************)
(* Proofs about ExcCore for every set of interrupt lines, every memory and *)
(* every choice of firmware facilities: types; stacks, frames and what a    *)
(* thread resumes with (StackInv); active and pending interrupts            *)
(* (ActiveInv).                                                             *)
(***************************************************************************)
EXTENDS ExcCore, WellFoundedInduction, FiniteSetTheorems, TLAPS

\* Entering an exception, synchronising the bank, returning through a frame
\* and advancing the IT block keep a core state a core state.
LEMMA EnteredType ==
  ASSUME NEW c \in Cpus, NEW e \in Excs
  PROVE  Entered(c, e) \in Cpus /\ Synced(c) \in Cpus /\ ContextOf(c) \in Contexts
<1> DEFINE s == c.sp - 1
           m == IF UsePsp(c) THEN c.msp ELSE s
           q == IF UsePsp(c) THEN s ELSE c.psp
           l == IF UsePsp(c) THEN "FD" ELSE "F9"
           d == [c EXCEPT !.psp = q, !.msp = m, !.sp = m, !.mode = "handler"]
           g == [d EXCEPT !.lr = l, !.pc = e]
           h == [g EXCEPT !.ipsr = e]
<1>1. s \in Int /\ m \in Int /\ q \in Int /\ l \in LinkValues
  BY DEF Cpus, LinkValues, ExcReturns
<1>2. d \in Cpus
  <2> HIDE DEF s, m, q
  <2> QED BY <1>1 DEF Cpus
<1>3. g \in Cpus
  <2> HIDE DEF d, l
  <2> QED BY <1>1, <1>2 DEF Cpus
<1>4. Entered(c, e) \in Cpus
  <2>1. h \in Cpus
    <3> HIDE DEF g
    <3> QED BY <1>3 DEF Cpus
  <2>2. [h EXCEPT !.it = 0] \in Cpus
    <3> HIDE DEF h
    <3> QED BY <2>1 DEF Cpus
  <2>3. QED BY <2>2 DEF Entered, EntrySlot
<1>5. QED BY <1>4 DEF Synced, ContextOf, Contexts, Cpus

LEMMA ReturnedType ==
  ASSUME NEW c \in Cpus, NEW v \in ExcReturns, NEW f \in Slots
  PROVE  Returned(c, v, f) \in Cpus
<1> DEFINE s == PopBank(c, v) + 1
           q == IF v = "FD" THEN s ELSE c.psp
           m == IF v = "FD" THEN c.msp ELSE s
           b == (v = "FD")
           d == [c EXCEPT !.lr = f.lr, !.pc = f.pc, !.ipsr = f.xpsr]
           g == [d EXCEPT !.psp = q, !.msp = m, !.sp = s]
           h == [g EXCEPT !.mode = "thread", !.spsel = b]
<1>1. s \in Int /\ m \in Int /\ q \in Int /\ b \in BOOLEAN
  BY DEF Cpus, PopBank
<1>2. d \in Cpus /\ d.psp = c.psp /\ d.msp = c.msp
  BY DEF Cpus, Slots
<1>3. g \in Cpus
  <2> HIDE DEF d, s, m, q
  <2> QED BY <1>1, <1>2 DEF Cpus
<1>4. h \in Cpus
  <2> HIDE DEF g, b
  <2> QED BY <1>1, <1>3 DEF Cpus
<1>5. [h EXCEPT !.it = 0] \in Cpus
  <2> HIDE DEF h
  <2> QED BY <1>4 DEF Cpus
<1>6. Returned(c, v, f) = [h EXCEPT !.it = 0]
  BY <1>2 DEF Returned
<1>7. QED BY <1>5, <1>6

LEMMA AdvancedType ==
  ASSUME NEW c \in Cpus
  PROVE  Advanced(c) \in Cpus
  BY DEF Advanced, Cpus

-----------------------------------------------------------------------------
(* What the pieces shared by the actions do to the types *)

\* exc_enter, tried or done, on any well-typed core and any exception.
LEMMA EnterType ==
  ASSUME TypeOK, NEW c \in Cpus, NEW e \in Excs, exc_enter(c, e)
  PROVE  cpu' \in Cpus /\ mem' \in [Ram -> Slots] /\ base' \in Int /\ saved' \in Contexts
<1>1. CASE EntrySlot(c) \in Ram
  <2>1. Frame(c, e) \in Slots
    BY DEF Frame, Slots, Cpus, TypeOK
  <2>2. mem' \in [Ram -> Slots]
    BY <1>1, <2>1 DEF exc_enter, TypeOK
  <2>3. Entered(c, e).sp \in Int
    BY EnteredType DEF Cpus
  <2>4. QED BY <1>1, <2>2, <2>3, EnteredType DEF exc_enter, TypeOK
<1>2. CASE EntrySlot(c) \notin Ram
  BY <1>2, EnteredType DEF exc_enter, TypeOK
<1>3. QED BY <1>1, <1>2

LEMMA ReturnType ==
  ASSUME TypeOK, NEW c \in Cpus, NEW v \in ExcReturns, exc_return(c, v)
  PROVE  /\ cpu' \in Cpus /\ base' \in Int /\ saved' \in Contexts
         /\ active' \subseteq Irqs /\ phase' \in {"exec", "irq"}
<1>1. active' \subseteq Irqs
  BY DEF exc_return, ActiveAfter, TypeOK
<1>2. CASE PopBank(c, v) \in Ram
  <2>1. mem[PopBank(c, v)] \in Slots
    BY <1>2 DEF TypeOK
  <2>2. Returned(c, v, mem[PopBank(c, v)]) \in Cpus /\ mem[PopBank(c, v)].base \in Int
    BY <2>1, ReturnedType DEF Slots
  <2>3. Origin \in Contexts
    BY ExcAssumption DEF Origin, Contexts, LinkValues
  <2>4. QED BY <1>1, <1>2, <2>2, <2>3 DEF exc_return
<1>3. CASE PopBank(c, v) \notin Ram
  <2>1. [c EXCEPT !.halted = TRUE] \in Cpus
    BY DEF Cpus
  <2>2. QED BY <1>1, <1>3, <2>1 DEF exc_return, TypeOK
<1>4. QED BY <1>2, <1>3

\* A non-empty set of natural numbers has a least element.
LEMMA LeastNat ==
  ASSUME NEW S, S \subseteq Nat, S # {}
  PROVE  \E m \in S : \A k \in S : m <= k
<1>1. PICK m \in S : \A k \in S : <<k, m>> \notin OpToRel(<, Nat)
  BY WFMin, NatLessThanWellFounded, Zenon
<1>2. \A k \in S : ~(k < m)
  BY <1>1, Zenon DEF OpToRel
<1>3. QED BY <1>2

\* nvic_pick finds an eligible interrupt whenever there is one: among the best
\* priorities there is a lowest number.
LEMMA PickEligible ==
  ASSUME TypeOK, Eligible # {}
  PROVE  Pick \in Eligible
<1> DEFINE best == {prio[i] : i \in Eligible}
<1>1. Eligible \subseteq Nat /\ best \subseteq Nat /\ best # {}
  <2> DEFINE P == Prios \cup {0}
  <2>a. Irqs \subseteq Nat /\ P \subseteq Nat
    BY ExcAssumption
  <2>b. Eligible \subseteq Irqs /\ prio \in [Irqs -> P]
    BY DEF Eligible, Ready, TypeOK
  <2>1. Eligible \subseteq Irqs /\ Irqs \subseteq Nat /\ prio \in [Irqs -> Nat]
    <3> HIDE DEF P
    <3> QED BY <2>a, <2>b
  <2>2. \A i \in Eligible : prio[i] \in Nat
    BY <2>1
  <2>3. best \subseteq Nat /\ best # {}
    BY <2>2, Zenon
  <2>4. QED BY <2>1, <2>3
<1>2. PICK p \in best : \A q \in best : p <= q
  <2> HIDE DEF best
  <2> QED BY <1>1, LeastNat
<1> DEFINE first == {i \in Eligible : prio[i] = p}
<1>3. first \subseteq Nat /\ first # {}
  BY <1>1, <1>2
<1>4. PICK i \in first : \A j \in first : i <= j
  <2> HIDE DEF first
  <2> QED BY <1>3, LeastNat
<1>5. i \in Eligible /\ \A j \in Eligible : Better(i, j)
  <2>1. SUFFICES ASSUME NEW j \in Eligible PROVE Better(i, j)
    BY <1>4
  <2>2. prio[i] \in Nat /\ prio[j] \in Nat /\ prio[i] <= prio[j]
    BY <1>1, <1>2, <1>4
  <2>3. QED BY <2>2, <1>4 DEF Better
<1>6. QED BY <1>5 DEF Pick

\* What is dispatched is a line of the model, and its exception one of Excs.
LEMMA PickType ==
  ASSUME TypeOK, Pick # None
  PROVE  Pick \in Irqs /\ ExcOf(Pick) \in Excs
<1>1. Eligible # {}
  BY DEF Pick
<1>2. QED BY <1>1, PickEligible DEF Eligible, Ready, TypeOK, Excs

\* Retiring an instruction that left a well-typed core.
LEMMA RetireType ==
  ASSUME NEW c \in Cpus, Retire(c)
  PROVE  cpu' \in Cpus /\ phase' \in {"exec", "irq"}
  BY AdvancedType DEF Retire

-----------------------------------------------------------------------------
(* Every reachable state is well typed, whatever the firmware does, nested  *)
(* exceptions, stack overflows and the board's unwired NVIC included.       *)
THEOREM TypeCorrect == Spec => []TypeOK
<1>1. Init => TypeOK
  <2>1. Origin \in Contexts /\ Word("code") \in Slots
    BY ExcAssumption DEF Origin, Contexts, Word, Slots, LinkValues
  <2>2. Init => cpu \in Cpus
    BY ExcAssumption DEF Init, Cpus, LinkValues
  <2>3. QED BY <2>1, <2>2, ExcAssumption DEF Init, TypeOK
<1>2. TypeOK /\ [Next]_vars => TypeOK'
  <2> SUFFICES ASSUME TypeOK, [Next]_vars PROVE TypeOK'
    OBVIOUS
  <2>0. cpu \in Cpus
    BY DEF TypeOK
  <2>1. CASE Plain
    BY <2>0, <2>1, RetireType DEF Plain, TypeOK, nvicVars, pendVars, ghosts
  <2>2. CASE ItBlock
    <3>1. PICK n \in 1..ItMax : cpu' = [cpu EXCEPT !.it = n]
      BY <2>2 DEF ItBlock
    <3>2. n \in 0..4
      BY ExcAssumption
    <3>3. cpu' \in Cpus
      BY <2>0, <3>1, <3>2 DEF Cpus
    <3>4. QED BY <2>2, <3>3 DEF ItBlock, TypeOK, nvicVars, pendVars, ghosts
  <2>3. CASE Push
    <3> DEFINE s == cpu.sp - 1
               moved == [cpu EXCEPT !.sp = s]
    <3>1. s \in Int
      BY <2>0 DEF Cpus
    <3>2. moved \in Cpus /\ Word(cpu.lr) \in Slots
      BY <2>0, <3>1 DEF Cpus, Slots, Word
    <3>3. [moved EXCEPT !.halted = TRUE] \in Cpus
      BY <3>2 DEF Cpus
    <3>4. CASE s \in Ram
      BY <2>3, <3>2, <3>4, RetireType DEF Push, TypeOK, nvicVars, pendVars
    <3>5. CASE s \notin Ram
      BY <2>3, <3>3, <3>5 DEF Push, TypeOK, nvicVars, pendVars
    <3>6. QED BY <3>4, <3>5
  <2>4. CASE Pop
    <3>1. [cpu EXCEPT !.sp = @ + 1] \in Cpus
      BY <2>0 DEF Cpus
    <3>2. cpu' \in Cpus /\ phase' \in {"exec", "irq"}
      BY <2>4, <3>1, RetireType DEF Pop
    <3>3. QED BY <2>4, <3>2 DEF Pop, TypeOK, nvicVars, pendVars
  <2>5. CASE HandlerReturnBx
    <3>1. CASE cpu.mode = "handler"
      BY <2>0, <2>5, <3>1, ReturnType DEF HandlerReturnBx, exc_return, TypeOK, pendVars
    <3>2. CASE cpu.mode # "handler"
      <4>1. [cpu EXCEPT !.pc = Lost] \in Cpus
        BY <2>0 DEF Cpus
      <4>2. QED BY <2>5, <3>2, <4>1, RetireType
                   DEF HandlerReturnBx, TypeOK, nvicVars, pendVars
    <3>3. QED BY <3>1, <3>2
  <2>6. CASE HandlerReturnPop
    <3> DEFINE popped == [cpu EXCEPT !.sp = @ + 1]
    <3>1. popped \in Cpus
      BY <2>0 DEF Cpus
    <3>2. live' \subseteq Ram
      BY <2>6 DEF HandlerReturnPop, TypeOK
    <3>3. CASE cpu.mode = "handler"
      <4> HIDE DEF popped
      <4>1. exc_return(popped, mem[cpu.sp].lr) /\ mem[cpu.sp].lr \in ExcReturns
        BY <2>6, <3>3 DEF HandlerReturnPop, popped
      <4>2. QED BY <3>1, <3>2, <4>1, ReturnType DEF exc_return, TypeOK, pendVars
    <3>4. CASE cpu.mode # "handler"
      <4>1. [popped EXCEPT !.pc = Lost] \in Cpus
        <5> HIDE DEF popped
        <5> QED BY <3>1 DEF Cpus
      <4>2. QED BY <2>6, <3>2, <3>4, <4>1, RetireType
                   DEF HandlerReturnPop, TypeOK, nvicVars, pendVars
    <3>5. QED BY <3>3, <3>4
  <2>7. CASE Svc
    <3>1. SvCall \in Excs
      BY DEF Excs
    <3>2. CASE EntrySlot(cpu) \in Ram
      BY <2>0, <2>7, <3>1, <3>2, EnterType DEF Svc, TypeOK, nvicVars, pendVars
    <3>3. CASE EntrySlot(cpu) \notin Ram
      <4>1. Synced(cpu) \in Cpus
        BY <2>0, <3>1, EnteredType
      <4>2. [Synced(cpu) EXCEPT !.halted = TRUE] \in Cpus
        BY <4>1 DEF Cpus
      <4>3. QED BY <2>7, <3>3, <4>2 DEF Svc, TypeOK, nvicVars, pendVars
    <3>4. QED BY <3>2, <3>3
  <2>8. CASE Undefined
    <3> DEFINE status == cpu.fsr \cup (IF cpu.mode = "handler" THEN {"UNDEFINSTR", "FORCED"}
                                       ELSE {"UNDEFINSTR"})
               c == [cpu EXCEPT !.fsr = status]
               e == IF cpu.mode = "handler" THEN HardFault ELSE UsageFault
    <3>1. status \subseteq {"UNDEFINSTR", "FORCED"}
      BY <2>0 DEF Cpus
    <3>2. c \in Cpus
      <4> HIDE DEF status
      <4> QED BY <2>0, <3>1 DEF Cpus
    <3>3. e \in Excs
      BY DEF Excs
    <3>4. exc_enter(c, e)
      BY <2>8 DEF Undefined
    <3>5. QED
      <4> HIDE DEF c, e
      <4> QED BY <2>8, <3>2, <3>3, <3>4, EnterType DEF Undefined, TypeOK, nvicVars, pendVars
  <2>9. CASE Stop \/ Breakpoint
    <3>1. [cpu EXCEPT !.halted = TRUE] \in Cpus
      BY <2>0 DEF Cpus
    <3>2. QED BY <2>9, <3>1 DEF Stop, Breakpoint, TypeOK, nvicVars, pendVars, ghosts
  <2>10. CASE SetMasks
    <3>1. ASSUME NEW v \in BOOLEAN, NEW i \in BOOLEAN, NEW f \in BOOLEAN
          PROVE  [cpu EXCEPT !.primask = IF i THEN v ELSE @,
                             !.faultmask = IF f THEN v ELSE @] \in Cpus
      <4> DEFINE p == IF i THEN v ELSE cpu.primask
                 q == IF f THEN v ELSE cpu.faultmask
                 d == [cpu EXCEPT !.primask = p]
      <4>1. p \in BOOLEAN /\ q \in BOOLEAN
        BY <2>0 DEF Cpus
      <4>2. d \in Cpus /\ d.faultmask = cpu.faultmask
        <5> HIDE DEF p
        <5> QED BY <2>0, <4>1 DEF Cpus
      <4>3. [d EXCEPT !.faultmask = q] \in Cpus
        <5> HIDE DEF d, q
        <5> QED BY <4>1, <4>2 DEF Cpus
      <4>4. QED BY <4>2, <4>3
    <3>2. \A v \in BOOLEAN : [cpu EXCEPT !.basepri = v] \in Cpus
      BY <2>0 DEF Cpus
    <3>3. cpu' \in Cpus /\ phase' \in {"exec", "irq"}
      BY <2>10, <3>1, <3>2, RetireType DEF SetMasks
    <3>4. QED BY <2>10, <3>3 DEF SetMasks, TypeOK, nvicVars, pendVars, ghosts
  <2>11. CASE MsrPsp
    <3>1. [cpu EXCEPT !.psp = PspInit] \in Cpus
      BY <2>0, ExcAssumption DEF Cpus
    <3>2. QED BY <2>11, <3>1, RetireType DEF MsrPsp, TypeOK, nvicVars, pendVars, ghosts
  <2>12. CASE MsrControl
    <3>1. ASSUME NEW v \in BOOLEAN
          PROVE  [cpu EXCEPT !.spsel = v] \in Cpus
      BY <2>0 DEF Cpus
    <3>2. ASSUME NEW v \in BOOLEAN, NEW x \in Int, NEW y \in Int, NEW z \in Int
          PROVE  [cpu EXCEPT !.spsel = v, !.sp = x, !.msp = y, !.psp = z] \in Cpus
      BY <2>0 DEF Cpus
    <3>3. cpu.sp \in Int /\ cpu.msp \in Int /\ cpu.psp \in Int
      BY <2>0 DEF Cpus
    <3>4. ASSUME NEW v \in BOOLEAN
          PROVE  [cpu EXCEPT !.spsel = v, !.sp = IF v THEN cpu.psp ELSE cpu.msp,
                             !.msp = IF v THEN cpu.sp ELSE @,
                             !.psp = IF v THEN @ ELSE cpu.sp] \in Cpus
      BY ZenonT(40), <2>0, <3>2, <3>3 DEF Cpus
    <3>5. cpu' \in Cpus /\ phase' \in {"exec", "irq"}
      BY <2>12, <3>1, <3>4, RetireType DEF MsrControl
    <3>6. QED BY <2>12, <3>5 DEF MsrControl, TypeOK, nvicVars, pendVars, ghosts
  <2>13. CASE IcsrWrite
    BY <2>0, <2>13, RetireType DEF IcsrWrite, TypeOK, nvicVars, ghosts
  <2>14. CASE FaultStatusClear
    <3> PICK bit \in cpu.fsr : Retire([cpu EXCEPT !.fsr = @ \ {bit}])
      BY <2>14 DEF FaultStatusClear
    <3>1. [cpu EXCEPT !.fsr = @ \ {bit}] \in Cpus
      BY <2>0 DEF Cpus
    <3>2. QED BY <2>14, <3>1, RetireType
                 DEF FaultStatusClear, TypeOK, nvicVars, pendVars, ghosts
  <2>15. CASE NvicWrite
    <3>1. cpu' \in Cpus /\ phase' \in {"exec", "irq"}
      BY <2>0, <2>15, RetireType DEF NvicWrite
    <3>2. /\ enable' \subseteq Irqs /\ pending' \subseteq Irqs
          /\ prio' \in [Irqs -> Prios \cup {0}]
      BY <2>15 DEF NvicWrite, TypeOK
    <3>3. QED BY <2>15, <3>1, <3>2 DEF NvicWrite, TypeOK, pendVars, ghosts
  <2>16. CASE InjectIrq
    BY <2>16 DEF InjectIrq, TypeOK, pendVars, ghosts
  <2>17. CASE TickAndDispatch
    <3>1. phase' \in {"exec", "irq"} /\ stManual' = stManual /\ live' = live
      BY <2>17 DEF TickAndDispatch
    <3>2. PICK fire \in BOOLEAN :
             LET tick == stPending \/ fire IN
               \/ Unmasked /\ tick /\ DispatchSysTick
               \/ Unmasked /\ DispatchPendSv(tick)
               \/ Unmasked /\ DispatchIrq(tick)
               \/ DispatchNothing(tick)
      BY <2>17 DEF TickAndDispatch
    <3> DEFINE tick == stPending \/ fire
    <3>3. tick \in BOOLEAN
      OBVIOUS
    <3>4. SysTick \in Excs /\ PendSv \in Excs
      BY DEF Excs
    <3> HIDE DEF tick
    <3>5. CASE DispatchSysTick
      BY <2>0, <3>1, <3>4, <3>5, EnterType DEF DispatchSysTick, TypeOK, nvicVars
    <3>6. CASE DispatchPendSv(tick)
      BY <2>0, <3>1, <3>3, <3>4, <3>6, EnterType DEF DispatchPendSv, TypeOK, nvicVars
    <3>7. CASE DispatchIrq(tick)
      <4>1. Pick # None /\ exc_enter(cpu, ExcOf(Pick))
        BY <3>7 DEF DispatchIrq
      <4>2. Pick \in Irqs /\ ExcOf(Pick) \in Excs
        BY <4>1, PickType
      <4>3. cpu' \in Cpus /\ mem' \in [Ram -> Slots] /\ base' \in Int /\ saved' \in Contexts
        BY <2>0, <4>1, <4>2, EnterType
      <4>4. QED BY <3>1, <3>3, <3>7, <4>2, <4>3 DEF DispatchIrq, TypeOK
    <3>8. CASE DispatchNothing(tick)
      BY <3>1, <3>3, <3>8 DEF DispatchNothing, TypeOK, nvicVars
    <3>9. QED BY <3>2, <3>5, <3>6, <3>7, <3>8 DEF tick
  <2>18. CASE UNCHANGED vars
    BY <2>18 DEF vars, nvicVars, pendVars, ghosts, TypeOK
  <2>19. QED
    BY <2>1, <2>2, <2>3, <2>4, <2>5, <2>6, <2>7, <2>8, <2>9, <2>10, <2>11, <2>12,
       <2>13, <2>14, <2>15, <2>16, <2>17, <2>18 DEF Next
<1>3. QED
  BY <1>1, <1>2, PTL DEF Spec
-----------------------------------------------------------------------------
(***************************************************************************)
(* Firmware whose handlers do not nest keeps its two stacks through every  *)
(* exception: StackInv of ExcCore is inductive, for every memory with an   *)
(* unmapped slot between the stacks, whatever the handlers push, pop or    *)
(* write to CONTROL, and however far either stack overflows.               *)
(***************************************************************************)

\* What FlatFirmware says of the slot between the stacks.
LEMMA GapFacts ==
  ASSUME FlatFirmware
  PROVE  Gap \in Int /\ Gap \notin Ram /\ PspInit <= Gap /\ Gap < MspInit
<1>1. Gap \in PspInit .. (MspInit - 1) /\ Gap \notin Ram
  BY Zenon DEF FlatFirmware, Gap
<1>2. QED BY <1>1, ExcAssumption

\* Handler code is never the thread's, nor an unmapped address.
LEMMA HandlerCode ==
  ASSUME NEW e \in Excs
  PROVE  e # Main /\ e # Lost
  BY ExcAssumption DEF Excs, Main, Lost, ExcOf, HardFault, UsageFault, SvCall, PendSv, SysTick

\* The fields of a core state after the three ways to build one.
LEMMA EnteredFields ==
  ASSUME NEW c \in Cpus, NEW e \in Excs
  PROVE  /\ Entered(c, e).mode = "handler"
         /\ Entered(c, e).pc = e /\ Entered(c, e).ipsr = e
         /\ Entered(c, e).lr = (IF UsePsp(c) THEN "FD" ELSE "F9")
         /\ Entered(c, e).psp = (IF UsePsp(c) THEN c.sp - 1 ELSE c.psp)
         /\ Entered(c, e).msp = (IF UsePsp(c) THEN c.msp ELSE c.sp - 1)
         /\ Entered(c, e).sp = Entered(c, e).msp
  BY DEF Entered, EntrySlot, Cpus

LEMMA ReturnedFields ==
  ASSUME NEW c \in Cpus, NEW v \in ExcReturns, NEW f \in Slots
  PROVE  /\ Returned(c, v, f).mode = "thread"
         /\ Returned(c, v, f).spsel = (v = "FD")
         /\ Returned(c, v, f).pc = f.pc /\ Returned(c, v, f).lr = f.lr
         /\ Returned(c, v, f).sp = PopBank(c, v) + 1
         /\ Returned(c, v, f).psp = (IF v = "FD" THEN c.psp + 1 ELSE c.psp)
         /\ Returned(c, v, f).msp = (IF v = "FD" THEN c.msp ELSE c.msp + 1)
  BY DEF Returned, PopBank, Cpus

\* Two core states that differ in no field the stacks depend on.
SameStack(c, d) ==
  /\ d.mode = c.mode /\ d.ipsr = c.ipsr /\ d.spsel = c.spsel /\ d.pc = c.pc
  /\ d.sp = c.sp /\ d.msp = c.msp /\ d.psp = c.psp /\ d.lr = c.lr

LEMMA AdvancedSame ==
  ASSUME NEW c \in Cpus
  PROVE  SameStack(c, Advanced(c))
  BY DEF Cpus, Advanced, SameStack

\* An instruction that touches neither stack keeps the invariant.
LEMMA QuietStep ==
  ASSUME StackInv, ~Dead, SameStack(cpu, cpu'), UNCHANGED <<mem, ghosts>>
  PROVE  StackInv'
<1>1. ControlIntegrity' /\ LiveWordsIntact'
  BY DEF StackInv, ControlIntegrity, LiveWordsIntact, SameStack, ghosts
<1>2. CASE ThreadStacks
  BY <1>1, <1>2 DEF StackInv, StackDiscipline, ThreadStacks, SameStack, ghosts,
                    MainStackAt, ProcStackAt
<1>3. CASE HandlerStacks
  BY <1>1, <1>3 DEF StackInv, StackDiscipline, HandlerStacks, SameStack, ghosts,
                    MainStackAt, ProcStackAt, FrameAt, PopBank
<1>4. QED BY <1>2, <1>3 DEF StackInv, StackDiscipline

\* A core that has stopped stays as it is, apart from injected interrupts.
LEMMA DeadStep ==
  ASSUME StackInv, Dead, Next
  PROVE  StackInv'
<1>1. UNCHANGED <<cpu, mem, phase, ghosts>>
  BY DEF Dead, Next, Plain, ItBlock, Push, Pop, HandlerReturnBx, HandlerReturnPop, Svc,
         Undefined, Stop, Breakpoint, SetMasks, MsrPsp, MsrControl, IcsrWrite,
         FaultStatusClear, NvicWrite, InjectIrq, TickAndDispatch, Fetched, Running, ghosts
<1>2. QED
  BY <1>1 DEF Dead, StackInv, ControlIntegrity, LiveWordsIntact, StackDiscipline, ghosts

-----------------------------------------------------------------------------
(* Entry and return *)

\* Thread code is interrupted, or stays in thread code with its stack pointer
\* copied to the bank when its stack is full.
LEMMA EnterKeeps ==
  ASSUME FlatFirmware, TypeOK, StackInv, ThreadStacks, cpu.pc = Main,
         NEW c \in Cpus, SameStack(cpu, c), NEW e \in Excs,
         exc_enter(c, e), live' = live
  PROVE  StackInv'
<1> DEFINE s == cpu.sp - 1
<1>1. /\ c.sp \in Int /\ c.msp \in Int /\ c.psp \in Int /\ cpu.sp = c.sp
      /\ cpu.msp = c.msp /\ cpu.psp = c.psp
  BY DEF Cpus, SameStack
<1>b. cpu.spsel \in BOOLEAN
  BY DEF TypeOK, Cpus
<1>2. /\ c.mode = "thread" /\ c.pc = Main /\ c.spsel = cpu.spsel /\ c.lr = cpu.lr
      /\ UsePsp(c) = cpu.spsel
  BY DEF SameStack, ThreadStacks, UsePsp, TypeOK, Cpus
<1>3. EntrySlot(c) = s
  BY <1>1 DEF EntrySlot
<1>4. CASE s \in Ram
  <2>1. /\ cpu' = Entered(c, e) /\ mem' = [mem EXCEPT ![s] = Frame(c, e)]
        /\ base' = Entered(c, e).sp /\ saved' = ContextOf(c)
    BY <1>2, <1>3, <1>4 DEF exc_enter
  <2>2. s \notin live
    BY <1>1, <1>4, GapFacts, ExcAssumption
       DEF ThreadStacks, MainStackAt, ProcStackAt, TypeOK, Cpus
  <2>3. s > 0 /\ s # Gap
    BY <1>4, GapFacts DEF FlatFirmware
  <2>4. mem'[s] = Frame(c, e) /\ \A t \in live : mem'[t] = mem[t]
    BY <1>4, <2>1, <2>2 DEF TypeOK
  <2>5. mem'[s].pc = Main /\ mem'[s].lr = cpu.lr
    BY <1>2, <2>4 DEF Frame
  <2>6. saved'.pc = Main /\ saved'.sp = cpu.sp /\ saved'.spsel = cpu.spsel /\ saved'.lr = cpu.lr
    BY <1>1, <1>2, <2>1 DEF ContextOf
  <2>7. /\ cpu'.mode = "handler" /\ cpu'.pc = e /\ cpu'.ipsr = e /\ cpu'.sp = cpu'.msp
        /\ base' = cpu'.sp
        /\ cpu'.lr = (IF cpu.spsel THEN "FD" ELSE "F9")
        /\ cpu'.psp = (IF cpu.spsel THEN s ELSE cpu.psp)
        /\ cpu'.msp = (IF cpu.spsel THEN cpu.msp ELSE s)
    BY <1>1, <1>2, <2>1, EnteredFields
  <2>8. ControlIntegrity' /\ LiveWordsIntact'
    BY <2>4, <2>7 DEF StackInv, LiveWordsIntact, ControlIntegrity
  <2>9. FrameAt' = s
    BY <2>7 DEF FrameAt, PopBank
  <2>10. CASE cpu.spsel
    <3>0. MainStackAt(live, cpu.msp) /\ ProcStackAt(live, cpu.sp)
      BY <2>10 DEF ThreadStacks
    <3>1. /\ MainStackAt(live', cpu.msp) /\ ProcStackAt(live', s)
          /\ s < PspInit /\ cpu.msp <= MspInit
      BY <1>1, <2>3, <3>0, ExcAssumption, GapFacts DEF MainStackAt, ProcStackAt, TypeOK
    <3>2. \A t \in live : t > Gap => cpu.msp <= t
      BY <2>10 DEF ThreadStacks, MainStackAt
    <3>3. /\ cpu'.lr = "FD" /\ cpu'.sp = cpu.msp /\ cpu'.psp = s /\ base' = cpu.msp
          /\ cpu'.msp = cpu.msp
      BY <2>7, <2>10
    <3>4. cpu'.mode = "handler" /\ cpu'.ipsr \in Excs /\ cpu'.lr \in ExcReturns
      BY <2>7, <3>3 DEF ExcReturns
    <3>5. /\ base' = cpu'.msp /\ cpu'.sp <= base' /\ base' <= MspInit
          /\ MainStackAt(live', cpu'.sp) /\ ProcStackAt(live', cpu'.psp)
      BY <1>1, <3>1, <3>3, ExcAssumption
    <3>6. \A t \in live' : t > Gap /\ t < base' => mem'[t].lr = cpu'.lr
      BY <1>1, <3>2, <3>3, ExcAssumption DEF TypeOK
    <3>a. saved'.spsel = (cpu'.lr = "FD")
      <4>1. cpu.spsel = TRUE /\ (cpu'.lr = "FD") = TRUE
        BY <1>b, <2>10, <3>3, Zenon
      <4>2. QED BY <2>6, <4>1
    <3>b. /\ FrameAt' \in Ram /\ FrameAt' \notin live'
          /\ FrameAt' < (IF cpu'.lr = "FD" THEN PspInit ELSE MspInit)
      BY <1>4, <2>2, <2>9, <3>1, <3>3
    <3>c. mem'[FrameAt'].pc = Main /\ mem'[FrameAt'].lr = saved'.lr
      BY <2>5, <2>6, <2>9
    <3>d. saved'.pc = Main /\ saved'.sp = FrameAt' + 1
      BY <1>1, <2>6, <2>9
    <3>7. /\ FrameAt' \in Ram /\ FrameAt' \notin live'
          /\ FrameAt' < (IF cpu'.lr = "FD" THEN PspInit ELSE MspInit)
          /\ saved'.pc = Main /\ saved'.sp = FrameAt' + 1 /\ saved'.spsel = (cpu'.lr = "FD")
          /\ mem'[FrameAt'].pc = Main /\ mem'[FrameAt'].lr = saved'.lr
      BY <3>a, <3>b, <3>c, <3>d
    <3>8. HandlerStacks'
      <4> HIDE DEF FrameAt
      <4> QED BY <3>4, <3>5, <3>6, <3>7 DEF HandlerStacks
    <3>9. QED BY <2>8, <3>8 DEF StackInv, StackDiscipline
  <2>11. CASE ~cpu.spsel
    <3>0. MainStackAt(live, cpu.sp) /\ ProcStackAt(live, cpu.psp)
      BY <2>11 DEF ThreadStacks
    <3>1. MainStackAt(live', s) /\ ProcStackAt(live', cpu.psp) /\ s < MspInit
      BY <1>1, <2>3, <3>0, ExcAssumption, GapFacts DEF MainStackAt, ProcStackAt, TypeOK
    <3>2. \A t \in live : t > Gap => ~(t < s)
      BY <1>1, <3>0, ExcAssumption DEF MainStackAt, TypeOK
    <3>3. /\ cpu'.lr = "F9" /\ cpu'.sp = s /\ cpu'.psp = cpu.psp /\ base' = s
          /\ cpu'.msp = s
      BY <2>7, <2>11
    <3>4. cpu'.mode = "handler" /\ cpu'.ipsr \in Excs /\ cpu'.lr \in ExcReturns
      BY <2>7, <3>3 DEF ExcReturns
    <3>5. /\ base' = cpu'.msp /\ cpu'.sp <= base' /\ base' <= MspInit
          /\ MainStackAt(live', cpu'.sp) /\ ProcStackAt(live', cpu'.psp)
      BY <1>1, <3>1, <3>3, ExcAssumption
    <3>6. \A t \in live' : t > Gap /\ t < base' => mem'[t].lr = cpu'.lr
      BY <1>1, <3>2, <3>3, ExcAssumption DEF TypeOK
    <3>7. /\ FrameAt' \in Ram /\ FrameAt' \notin live'
          /\ FrameAt' < (IF cpu'.lr = "FD" THEN PspInit ELSE MspInit)
          /\ saved'.pc = Main /\ saved'.sp = FrameAt' + 1 /\ saved'.spsel = (cpu'.lr = "FD")
          /\ mem'[FrameAt'].pc = Main /\ mem'[FrameAt'].lr = saved'.lr
      BY <1>1, <1>b, <1>4, <2>2, <2>5, <2>6, <2>9, <2>11, <3>1, <3>3
    <3>8. HandlerStacks'
      <4> HIDE DEF FrameAt
      <4> QED BY <3>4, <3>5, <3>6, <3>7 DEF HandlerStacks
    <3>9. QED BY <2>8, <3>8 DEF StackInv, StackDiscipline
  <2>12. QED BY <2>10, <2>11
<1>5. CASE s \notin Ram
  <2>1. cpu' = Synced(c) /\ UNCHANGED <<mem, base, saved, live>>
    BY <1>3, <1>5 DEF exc_enter
  <2>2. /\ cpu'.mode = "thread" /\ cpu'.pc = Main /\ cpu'.spsel = cpu.spsel /\ cpu'.sp = cpu.sp
        /\ cpu'.msp = (IF cpu.spsel THEN cpu.msp ELSE cpu.sp)
        /\ cpu'.psp = (IF cpu.spsel THEN cpu.sp ELSE cpu.psp)
    BY <1>1, <1>2, <2>1 DEF Synced, Cpus
  <2>3. ThreadStacks'
    BY <2>1, <2>2 DEF ThreadStacks, MainStackAt, ProcStackAt
  <2>4. QED
    BY <2>1, <2>2, <2>3 DEF StackInv, ControlIntegrity, LiveWordsIntact, StackDiscipline
<1>6. QED BY <1>4, <1>5

\* A handler returns, with its own words popped: c is the core, v the value it
\* branches to.  The thread's context is back, and both stacks are in order.
LEMMA ReturnKeeps ==
  ASSUME FlatFirmware, TypeOK, StackInv, HandlerStacks,
         NEW c \in Cpus, c.lr = cpu.lr, c.sp = base, c.msp = cpu.msp, c.psp = cpu.psp,
         c.mode = cpu.mode, c.pc = cpu.pc, c.ipsr = cpu.ipsr,
         NEW words \in SUBSET live, live' = words,
         \A t \in words : t > Gap => base <= t,
         exc_return(c, cpu.lr)
  PROVE  StackInv' /\ ResumesThread
<1> DEFINE f == mem[FrameAt]
<1>1. /\ cpu.sp \in Int /\ cpu.msp \in Int /\ cpu.psp \in Int /\ base \in Int
      /\ base = cpu.msp
  BY DEF TypeOK, Cpus, HandlerStacks
<1>2. PopBank(c, cpu.lr) = FrameAt /\ FrameAt \in Ram /\ cpu.lr \in ExcReturns /\ f \in Slots
  BY DEF PopBank, FrameAt, HandlerStacks, TypeOK
<1>3. cpu' = Returned(c, cpu.lr, f) /\ mem' = mem
  BY <1>2 DEF exc_return
<1>4. /\ cpu'.mode = "thread" /\ cpu'.pc = Main /\ cpu'.lr = f.lr
      /\ cpu'.spsel = (cpu.lr = "FD") /\ cpu'.sp = FrameAt + 1
      /\ cpu'.psp = (IF cpu.lr = "FD" THEN cpu.psp + 1 ELSE cpu.psp)
      /\ cpu'.msp = (IF cpu.lr = "FD" THEN cpu.msp ELSE cpu.msp + 1)
  BY <1>2, <1>3, ReturnedFields DEF HandlerStacks
<1>5. ResumesThread
  BY <1>4 DEF ResumesThread, HandlerStacks
<1>6. ControlIntegrity' /\ LiveWordsIntact'
  BY <1>3, <1>4 DEF StackInv, ControlIntegrity, LiveWordsIntact
<1>7. CASE cpu.lr = "FD"
  <2>1. FrameAt = cpu.psp /\ cpu.psp < PspInit
    BY <1>7 DEF FrameAt, PopBank, HandlerStacks
  <2>2. MainStackAt(live', cpu.msp)
    BY <1>1, GapFacts, ExcAssumption DEF HandlerStacks, MainStackAt
  <2>3. ProcStackAt(live', cpu.psp + 1)
    BY <1>1, <2>1, GapFacts, ExcAssumption DEF HandlerStacks, ProcStackAt, TypeOK
  <2>4. ThreadStacks'
    <3>0. cpu.psp + 1 # 0
      BY <1>1 DEF HandlerStacks, ProcStackAt
    <3>1. cpu'.mode = "thread" /\ cpu'.spsel /\ cpu'.msp = cpu.msp /\ cpu'.sp = cpu.psp + 1
      BY <1>4, <1>7, <2>1
    <3>2. MainStackAt(live', cpu'.msp) /\ ProcStackAt(live', cpu'.sp) /\ cpu'.sp # 0
      BY <2>2, <2>3, <3>0, <3>1
    <3>3. QED BY <3>1, <3>2 DEF ThreadStacks
  <2>5. QED BY <1>5, <1>6, <2>4 DEF StackInv, StackDiscipline
<1>8. CASE cpu.lr # "FD"
  <2>1. FrameAt = cpu.msp /\ cpu.msp < MspInit
    BY <1>8 DEF FrameAt, PopBank, HandlerStacks
  <2>2. MainStackAt(live', cpu.msp + 1)
    BY <1>1, <2>1, GapFacts, ExcAssumption DEF HandlerStacks, MainStackAt, TypeOK
  <2>3. ProcStackAt(live', cpu.psp)
    BY <1>1, GapFacts, ExcAssumption DEF HandlerStacks, ProcStackAt, TypeOK
  <2>4. ThreadStacks'
    <3>1. /\ cpu'.mode = "thread" /\ ~cpu'.spsel /\ cpu'.sp = cpu.msp + 1 /\ cpu'.psp = cpu.psp
      BY <1>1, <1>4, <1>8, <2>1
    <3>2. MainStackAt(live', cpu'.sp) /\ ProcStackAt(live', cpu'.psp)
      BY <2>2, <2>3, <3>1
    <3>3. QED BY <3>1, <3>2 DEF ThreadStacks
  <2>5. QED BY <1>5, <1>6, <2>4 DEF StackInv, StackDiscipline
<1>9. QED BY <1>7, <1>8

-----------------------------------------------------------------------------
(* The words code pushes and pops itself *)

LEMMA PushKeeps ==
  ASSUME FlatFirmware, TypeOK, StackInv, Push
  PROVE  StackInv' /\ cpu'.mode = cpu.mode
<1> DEFINE s == cpu.sp - 1
<1>1. /\ cpu.sp \in Int /\ cpu.msp \in Int /\ cpu.psp \in Int /\ base \in Int
      /\ cpu \in Cpus /\ ~cpu.halted /\ UNCHANGED <<base, saved>>
  BY DEF TypeOK, Cpus, Push, Fetched, Running
<1>2. CASE s \notin Ram
  <2>1. /\ cpu' = [cpu EXCEPT !.sp = s, !.halted = TRUE] /\ UNCHANGED <<phase, mem, live>>
        /\ phase = "exec"
    BY <1>2 DEF Push, Fetched, Running
  <2>2. cpu'.halted /\ cpu'.mode = cpu.mode /\ cpu'.pc = cpu.pc /\ cpu'.ipsr = cpu.ipsr
    BY <1>1, <2>1 DEF Cpus
  <2>3. QED BY <2>1, <2>2 DEF Dead, StackInv, StackDiscipline, ControlIntegrity, LiveWordsIntact
<1>3. CASE s \in Ram
  <2> DEFINE moved == [cpu EXCEPT !.sp = s]
  <2>1. /\ Retire(moved) /\ mem' = [mem EXCEPT ![s] = Word(cpu.lr)]
        /\ live' = live \cup {s}
    BY <1>3 DEF Push
  <2>2. SameStack(moved, cpu')
    <3>1. moved \in Cpus
      BY <1>1 DEF Cpus
    <3> HIDE DEF moved
    <3>2. QED BY <2>1, <3>1, AdvancedSame DEF Retire
  <2>3. /\ cpu'.mode = cpu.mode /\ cpu'.ipsr = cpu.ipsr /\ cpu'.spsel = cpu.spsel
        /\ cpu'.pc = cpu.pc /\ cpu'.sp = s /\ cpu'.msp = cpu.msp /\ cpu'.psp = cpu.psp
        /\ cpu'.lr = cpu.lr
    BY <1>1, <2>2 DEF SameStack, Cpus
  <2>4. mem'[s].tag = "word" /\ mem'[s].lr = cpu.lr /\ \A t \in Ram \ {s} : mem'[t] = mem[t]
    BY <1>3, <2>1 DEF TypeOK, Word
  <2>5. s > 0 /\ s # Gap
    BY <1>3, GapFacts DEF FlatFirmware
  <2>6. ControlIntegrity' /\ LiveWordsIntact'
    BY <2>1, <2>3, <2>4 DEF StackInv, ControlIntegrity, LiveWordsIntact, TypeOK
  <2>7. ~Dead
    BY <1>1 DEF Dead
  <2>8. CASE ThreadStacks
    <3>1. CASE cpu.spsel
      <4>1. MainStackAt(live, cpu.msp) /\ ProcStackAt(live, cpu.sp)
        BY <2>8, <3>1 DEF ThreadStacks
      <4>2. MainStackAt(live', cpu.msp) /\ ProcStackAt(live', s)
        BY <1>1, <2>1, <2>5, <4>1, GapFacts, ExcAssumption DEF MainStackAt, ProcStackAt, TypeOK
      <4>3. MainStackAt(live', cpu'.msp) /\ ProcStackAt(live', cpu'.sp) /\ cpu'.sp # 0
        BY <2>3, <2>5, <4>2
      <4>4. ThreadStacks'
        BY <2>3, <2>8, <3>1, <4>3 DEF ThreadStacks
      <4>5. QED BY <2>3, <2>6, <4>4 DEF StackInv, StackDiscipline
    <3>2. CASE ~cpu.spsel
      <4>1. MainStackAt(live, cpu.sp) /\ ProcStackAt(live, cpu.psp)
        BY <2>8, <3>2 DEF ThreadStacks
      <4>2. MainStackAt(live', s) /\ ProcStackAt(live', cpu.psp)
        BY <1>1, <2>1, <2>5, <4>1, GapFacts, ExcAssumption DEF MainStackAt, ProcStackAt, TypeOK
      <4>3. MainStackAt(live', cpu'.sp) /\ ProcStackAt(live', cpu'.psp)
        BY <2>3, <4>2
      <4>4. ThreadStacks'
        BY <2>3, <2>8, <3>2, <4>3 DEF ThreadStacks
      <4>5. QED BY <2>3, <2>6, <4>4 DEF StackInv, StackDiscipline
    <3>3. QED BY <3>1, <3>2
  <2>9. CASE HandlerStacks
    <3>1. MainStackAt(live, cpu.sp) /\ ProcStackAt(live, cpu.psp)
      BY <2>9 DEF HandlerStacks
    <3>2. MainStackAt(live', s) /\ ProcStackAt(live', cpu.psp)
      BY <1>1, <2>1, <2>5, <3>1, GapFacts, ExcAssumption DEF MainStackAt, ProcStackAt, TypeOK
    <3>3. MainStackAt(live', cpu'.sp) /\ ProcStackAt(live', cpu'.psp)
      BY <2>3, <3>2
    <3>4. FrameAt' = FrameAt
      BY <2>3 DEF FrameAt, PopBank
    <3>5. FrameAt # s
      BY <1>1, <2>5, <2>9, <3>1, GapFacts, ExcAssumption
         DEF HandlerStacks, FrameAt, PopBank, MainStackAt, ProcStackAt
    <3>6. \A t \in live' : t > Gap /\ t < base' => mem'[t].lr = cpu'.lr
      BY <1>1, <2>1, <2>3, <2>4, <2>9 DEF HandlerStacks, TypeOK
    <3>7. /\ base' = cpu'.msp /\ cpu'.sp <= base' /\ base' <= MspInit
          /\ cpu'.mode = "handler" /\ cpu'.ipsr \in Excs /\ cpu'.lr \in ExcReturns
      BY <1>1, <2>3, <2>9, ExcAssumption DEF HandlerStacks
    <3>8. /\ FrameAt' \in Ram /\ FrameAt' \notin live'
          /\ FrameAt' < (IF cpu'.lr = "FD" THEN PspInit ELSE MspInit)
          /\ saved'.pc = Main /\ saved'.sp = FrameAt' + 1 /\ saved'.spsel = (cpu'.lr = "FD")
          /\ mem'[FrameAt'].pc = Main /\ mem'[FrameAt'].lr = saved'.lr
      <4> HIDE DEF FrameAt
      <4>1. FrameAt \in Ram /\ FrameAt \notin live' /\ mem'[FrameAt] = mem[FrameAt]
        BY <2>1, <2>4, <2>9, <3>5 DEF HandlerStacks
      <4>2. QED BY <1>1, <2>3, <2>9, <3>4, <4>1 DEF HandlerStacks
    <3>9. HandlerStacks'
      <4> HIDE DEF FrameAt
      <4> QED BY <3>3, <3>6, <3>7, <3>8 DEF HandlerStacks
    <3>10. QED BY <2>3, <2>6, <3>9 DEF StackInv, StackDiscipline
  <2>10. QED BY <2>7, <2>8, <2>9 DEF StackInv, StackDiscipline
<1>4. QED BY <1>2, <1>3

LEMMA PopKeeps ==
  ASSUME FlatFirmware, TypeOK, StackInv, Pop
  PROVE  StackInv' /\ cpu'.mode = cpu.mode
<1> DEFINE s == cpu.sp
           moved == [cpu EXCEPT !.sp = @ + 1]
<1>1. /\ cpu.sp \in Int /\ cpu.msp \in Int /\ cpu.psp \in Int /\ base \in Int
      /\ cpu \in Cpus /\ ~Dead
  BY DEF TypeOK, Cpus, Pop, Fetched, Running, Dead
<1>2. /\ Retire(moved) /\ live' = live \ {s} /\ s \in live /\ UNCHANGED <<mem, base, saved>>
      /\ cpu.pc = Main \/ s < base
  BY DEF Pop
<1>3. SameStack(moved, cpu')
  <2>1. moved \in Cpus
    BY <1>1 DEF Cpus
  <2> HIDE DEF moved
  <2>2. QED BY <1>2, <2>1, AdvancedSame DEF Retire
<1>4. /\ cpu'.mode = cpu.mode /\ cpu'.ipsr = cpu.ipsr /\ cpu'.spsel = cpu.spsel
      /\ cpu'.pc = cpu.pc /\ cpu'.sp = s + 1 /\ cpu'.msp = cpu.msp /\ cpu'.psp = cpu.psp
      /\ cpu'.lr = cpu.lr
  BY <1>1, <1>3 DEF SameStack, Cpus
<1>5. s > 0 /\ s # Gap /\ s \in Ram
  BY <1>2, GapFacts DEF FlatFirmware, TypeOK
<1>6. ControlIntegrity' /\ LiveWordsIntact'
  BY <1>2, <1>4 DEF StackInv, ControlIntegrity, LiveWordsIntact
<1>7. CASE ThreadStacks
  <2>1. CASE cpu.spsel
    <3>1. MainStackAt(live, cpu.msp) /\ ProcStackAt(live, s)
      BY <1>7, <2>1 DEF ThreadStacks
    <3>2. MainStackAt(live', cpu.msp) /\ ProcStackAt(live', s + 1) /\ s + 1 # 0
      BY <1>1, <1>2, <1>5, <3>1, GapFacts, ExcAssumption DEF MainStackAt, ProcStackAt, TypeOK
    <3>3. MainStackAt(live', cpu'.msp) /\ ProcStackAt(live', cpu'.sp) /\ cpu'.sp # 0
      BY <1>4, <3>2
    <3>4. ThreadStacks'
      BY <1>4, <1>7, <2>1, <3>3 DEF ThreadStacks
    <3>5. QED BY <1>4, <1>6, <3>4 DEF StackInv, StackDiscipline
  <2>2. CASE ~cpu.spsel
    <3>1. MainStackAt(live, s) /\ ProcStackAt(live, cpu.psp)
      BY <1>7, <2>2 DEF ThreadStacks
    <3>2. MainStackAt(live', s + 1) /\ ProcStackAt(live', cpu.psp)
      BY <1>1, <1>2, <1>5, <3>1, GapFacts, ExcAssumption DEF MainStackAt, ProcStackAt, TypeOK
    <3>3. MainStackAt(live', cpu'.sp) /\ ProcStackAt(live', cpu'.psp)
      BY <1>4, <3>2
    <3>4. ThreadStacks'
      BY <1>4, <1>7, <2>2, <3>3 DEF ThreadStacks
    <3>5. QED BY <1>4, <1>6, <3>4 DEF StackInv, StackDiscipline
  <2>3. QED BY <2>1, <2>2
<1>8. CASE HandlerStacks
  <2>1. MainStackAt(live, s) /\ ProcStackAt(live, cpu.psp) /\ s < base
    BY <1>2, <1>8, HandlerCode DEF HandlerStacks, StackInv, ControlIntegrity
  <2>2. MainStackAt(live', s + 1) /\ ProcStackAt(live', cpu.psp)
    BY <1>1, <1>2, <1>5, <2>1, GapFacts, ExcAssumption DEF MainStackAt, ProcStackAt, TypeOK
  <2>3. MainStackAt(live', cpu'.sp) /\ ProcStackAt(live', cpu'.psp) /\ cpu'.sp <= base
    BY <1>1, <1>4, <2>1, <2>2
  <2>4. FrameAt' = FrameAt
    BY <1>4 DEF FrameAt, PopBank
  <2>5. HandlerStacks'
    <3> HIDE DEF FrameAt
    <3> QED BY <1>2, <1>4, <1>8, <2>3, <2>4 DEF HandlerStacks
  <2>6. QED BY <1>4, <1>6, <2>5 DEF StackInv, StackDiscipline
<1>9. QED BY <1>1, <1>7, <1>8 DEF StackInv, StackDiscipline

LEMMA ReturnActions ==
  ASSUME FlatFirmware, TypeOK, StackInv, HandlerReturnBx \/ HandlerReturnPop
  PROVE  StackInv' /\ ResumesThread
<1>1. /\ cpu \in Cpus /\ cpu.sp \in Int /\ base \in Int /\ ~Dead /\ cpu.pc # Main
  BY DEF TypeOK, Cpus, HandlerReturnBx, HandlerReturnPop, Fetched, Running, Dead
<1>2. cpu.mode = "handler" /\ HandlerStacks
  BY <1>1 DEF StackInv, ControlIntegrity, StackDiscipline, ThreadStacks
<1>3. CASE HandlerReturnBx
  <2>1. exc_return(cpu, cpu.lr) /\ cpu.sp = base /\ live' = live
    BY <1>2, <1>3 DEF HandlerReturnBx
  <2>2. \A t \in live : t > Gap => base <= t
    BY <1>2, <2>1 DEF HandlerStacks, MainStackAt
  <2>3. QED BY <1>1, <1>2, <2>1, <2>2, ReturnKeeps
<1>4. CASE HandlerReturnPop
  <2> DEFINE popped == [cpu EXCEPT !.sp = @ + 1]
  <2>1. /\ exc_return(popped, mem[cpu.sp].lr) /\ cpu.sp \in live /\ cpu.sp + 1 = base
        /\ live' = live \ {cpu.sp}
    BY <1>2, <1>4 DEF HandlerReturnPop
  <2>2. MainStackAt(live, cpu.sp)
    BY <1>2 DEF HandlerStacks
  <2>3. cpu.sp > Gap /\ cpu.sp < base
    BY <1>1, <2>1, <2>2, GapFacts DEF MainStackAt
  <2>4. mem[cpu.sp].lr = cpu.lr
    BY <1>2, <2>1, <2>3 DEF HandlerStacks
  <2>5. \A t \in live \ {cpu.sp} : t > Gap => base <= t
    BY <1>1, <2>1, <2>2, GapFacts, ExcAssumption DEF MainStackAt, TypeOK
  <2>6. /\ popped \in Cpus /\ popped.lr = cpu.lr /\ popped.sp = base
        /\ popped.msp = cpu.msp /\ popped.psp = cpu.psp /\ popped.mode = cpu.mode
        /\ popped.pc = cpu.pc /\ popped.ipsr = cpu.ipsr
    BY <1>1, <2>1 DEF Cpus
  <2>7. live \ {cpu.sp} \in SUBSET live
    OBVIOUS
  <2> HIDE DEF popped
  <2>8. QED BY <1>2, <2>1, <2>4, <2>5, <2>6, <2>7, ReturnKeeps
<1>5. QED BY <1>3, <1>4

-----------------------------------------------------------------------------
(* Exceptions taken by an instruction, and the stack pointers set by MSR *)

\* What runs outside a handler is thread code.
LEMMA InThread ==
  ASSUME StackInv, ~Dead, cpu.pc \in {Main, Lost} \/ cpu.mode = "thread"
  PROVE  ThreadStacks /\ cpu.pc = Main
<1>1. CASE HandlerStacks
  BY <1>1, HandlerCode DEF HandlerStacks, StackInv, ControlIntegrity
<1>2. CASE ThreadStacks
  BY <1>2 DEF ThreadStacks, StackInv, ControlIntegrity
<1>3. QED BY <1>1, <1>2 DEF StackInv, StackDiscipline

LEMMA SvcKeeps ==
  ASSUME FlatFirmware, TypeOK, StackInv, Svc
  PROVE  StackInv' /\ ~(cpu.mode = "handler" /\ cpu'.mode = "thread")
<1>1. cpu.pc = Main /\ cpu \in Cpus /\ ~Dead /\ live' = live /\ phase = "exec"
  BY DEF Svc, Nestable, FlatFirmware, TypeOK, Fetched, Running, Dead
<1>2. ThreadStacks
  BY <1>1, InThread
<1>3. SameStack(cpu, cpu) /\ SvCall \in Excs
  BY DEF SameStack, Excs
<1>4. CASE EntrySlot(cpu) \in Ram
  BY <1>1, <1>2, <1>3, <1>4, EnterKeeps DEF Svc, ThreadStacks
<1>5. CASE EntrySlot(cpu) \notin Ram
  <2>1. /\ cpu' = [Synced(cpu) EXCEPT !.halted = TRUE] /\ UNCHANGED <<phase, mem>>
    BY <1>5 DEF Svc
  <2>2. cpu'.halted /\ cpu'.mode = cpu.mode /\ cpu'.pc = cpu.pc /\ cpu'.ipsr = cpu.ipsr
    BY <1>1, <2>1 DEF Synced, Cpus
  <2>3. QED
    BY <1>1, <1>2, <2>1, <2>2
       DEF Dead, StackInv, StackDiscipline, ControlIntegrity, LiveWordsIntact, ThreadStacks
<1>6. QED BY <1>4, <1>5

LEMMA UndefinedKeeps ==
  ASSUME FlatFirmware, TypeOK, StackInv, Undefined
  PROVE  StackInv' /\ ~(cpu.mode = "handler" /\ cpu'.mode = "thread")
<1> DEFINE status == cpu.fsr \cup (IF cpu.mode = "handler" THEN {"UNDEFINSTR", "FORCED"}
                                   ELSE {"UNDEFINSTR"})
           c == [cpu EXCEPT !.fsr = status]
           e == IF cpu.mode = "handler" THEN HardFault ELSE UsageFault
<1>1. cpu.pc \in {Main, Lost} /\ cpu \in Cpus /\ ~Dead /\ live' = live
  BY DEF Undefined, Nestable, FlatFirmware, TypeOK, Running, Dead
<1>2. ThreadStacks /\ cpu.pc = Main
  BY <1>1, InThread
<1>3. c \in Cpus /\ SameStack(cpu, c)
  <2>1. status \in SUBSET {"UNDEFINSTR", "FORCED"}
    BY <1>1 DEF Cpus
  <2> HIDE DEF status
  <2>2. QED BY <1>1, <2>1 DEF Cpus, SameStack
<1>4. e \in Excs /\ exc_enter(c, e)
  BY DEF Undefined, Excs
<1> HIDE DEF c, e
<1>5. QED BY <1>1, <1>2, <1>3, <1>4, EnterKeeps DEF ThreadStacks

LEMMA MsrKeeps ==
  ASSUME FlatFirmware, TypeOK, StackInv, MsrPsp \/ MsrControl
  PROVE  StackInv' /\ cpu'.mode = cpu.mode
<1>1. /\ cpu \in Cpus /\ ~Dead /\ UNCHANGED <<mem, live, base, saved>>
      /\ cpu.sp \in Int /\ cpu.msp \in Int /\ cpu.psp \in Int
  BY DEF MsrPsp, MsrControl, Fetched, Running, Dead, TypeOK, ghosts, Cpus
<1>2. CASE MsrPsp
  <2> DEFINE set == [cpu EXCEPT !.psp = PspInit]
  <2>1. /\ Retire(set) /\ ~cpu.spsel /\ cpu.psp = 0 /\ cpu.pc = Main
    BY <1>2 DEF MsrPsp
  <2>2. SameStack(set, cpu')
    <3>1. set \in Cpus
      BY <1>1, ExcAssumption DEF Cpus
    <3> HIDE DEF set
    <3>2. QED BY <2>1, <3>1, AdvancedSame DEF Retire
  <2>3. /\ cpu'.mode = cpu.mode /\ cpu'.spsel = cpu.spsel /\ cpu'.pc = cpu.pc
        /\ cpu'.sp = cpu.sp /\ cpu'.psp = PspInit /\ cpu'.ipsr = cpu.ipsr
    BY <1>1, <2>2 DEF SameStack, Cpus
  <2>4. ThreadStacks
    BY <1>1, <2>1, InThread
  <2>5. MainStackAt(live, cpu.sp) /\ ProcStackAt(live, 0)
    BY <2>1, <2>4 DEF ThreadStacks
  <2>6. ProcStackAt(live, PspInit)
    BY <2>5, ExcAssumption DEF ProcStackAt, FlatFirmware
  <2>7. ThreadStacks'
    <3>1. MainStackAt(live', cpu'.sp) /\ ProcStackAt(live', cpu'.psp)
      BY <1>1, <2>3, <2>5, <2>6
    <3>2. QED BY <2>1, <2>3, <2>4, <3>1 DEF ThreadStacks
  <2>8. QED
    BY <1>1, <2>3, <2>7 DEF StackInv, StackDiscipline, ControlIntegrity, LiveWordsIntact
<1>3. CASE MsrControl
  <2>1. PICK v \in BOOLEAN :
          Retire(IF cpu.mode = "thread" /\ v # cpu.spsel
                 THEN [cpu EXCEPT !.spsel = v, !.sp = IF v THEN cpu.psp ELSE cpu.msp,
                                  !.msp = IF v THEN cpu.sp ELSE @,
                                  !.psp = IF v THEN @ ELSE cpu.sp]
                 ELSE [cpu EXCEPT !.spsel = v])
    BY <1>3 DEF MsrControl
  <2>2. cpu.psp # 0 /\ cpu.spsel \in BOOLEAN
    BY <1>1, <1>3 DEF MsrControl, Cpus
  <2>3. CASE cpu.mode = "thread" /\ v # cpu.spsel
    <3> DEFINE swapped == [cpu EXCEPT !.spsel = v, !.sp = IF v THEN cpu.psp ELSE cpu.msp,
                                      !.msp = IF v THEN cpu.sp ELSE @,
                                      !.psp = IF v THEN @ ELSE cpu.sp]
    <3>1. /\ swapped.mode = cpu.mode /\ swapped.spsel = v /\ swapped.pc = cpu.pc
          /\ swapped.ipsr = cpu.ipsr
          /\ swapped.sp = (IF v THEN cpu.psp ELSE cpu.msp)
          /\ swapped.msp = (IF v THEN cpu.sp ELSE cpu.msp)
          /\ swapped.psp = (IF v THEN cpu.psp ELSE cpu.sp)
      BY <1>1 DEF Cpus
    <3>2. cpu' = Advanced(swapped)
      BY <2>1, <2>3 DEF Retire
    <3>3. SameStack(swapped, cpu')
      <4>1. swapped \in Cpus
        BY <1>1 DEF Cpus
      <4> HIDE DEF swapped
      <4>2. QED BY <3>2, <4>1, AdvancedSame
    <3> HIDE DEF swapped
    <3>4. /\ cpu'.mode = cpu.mode /\ cpu'.spsel = v /\ cpu'.pc = cpu.pc /\ cpu'.ipsr = cpu.ipsr
          /\ cpu'.sp = (IF v THEN cpu.psp ELSE cpu.msp)
          /\ cpu'.msp = (IF v THEN cpu.sp ELSE cpu.msp)
          /\ cpu'.psp = (IF v THEN cpu.psp ELSE cpu.sp)
      BY <3>1, <3>3 DEF SameStack
    <3>5. ThreadStacks
      BY <1>1, <2>3, InThread
    <3>6. ThreadStacks'
      <4>1. CASE v
        <5>1. MainStackAt(live, cpu.sp) /\ ProcStackAt(live, cpu.psp)
          BY <2>2, <2>3, <3>5, <4>1 DEF ThreadStacks
        <5>2. MainStackAt(live', cpu'.msp) /\ ProcStackAt(live', cpu'.sp) /\ cpu'.sp # 0
          BY <1>1, <2>2, <3>4, <4>1, <5>1
        <5>3. QED BY <2>3, <3>4, <4>1, <5>2 DEF ThreadStacks
      <4>2. CASE ~v
        <5>1. MainStackAt(live, cpu.msp) /\ ProcStackAt(live, cpu.sp)
          BY <2>2, <2>3, <3>5, <4>2 DEF ThreadStacks
        <5>2. MainStackAt(live', cpu'.sp) /\ ProcStackAt(live', cpu'.psp)
          BY <1>1, <3>4, <4>2, <5>1
        <5>3. QED BY <2>3, <3>4, <4>2, <5>2 DEF ThreadStacks
      <4>3. QED BY <4>1, <4>2
    <3>7. QED
      BY <1>1, <3>4, <3>6 DEF StackInv, StackDiscipline, ControlIntegrity, LiveWordsIntact
  <2>4. CASE ~(cpu.mode = "thread" /\ v # cpu.spsel)
    <3> DEFINE chosen == [cpu EXCEPT !.spsel = v]
    <3>1. cpu' = Advanced(chosen)
      BY <2>1, <2>4 DEF Retire
    <3>2. SameStack(chosen, cpu')
      <4>1. chosen \in Cpus
        BY <1>1 DEF Cpus
      <4> HIDE DEF chosen
      <4>2. QED BY <3>1, <4>1, AdvancedSame
    <3>3. /\ cpu'.mode = cpu.mode /\ cpu'.spsel = v /\ cpu'.pc = cpu.pc /\ cpu'.ipsr = cpu.ipsr
          /\ cpu'.sp = cpu.sp /\ cpu'.msp = cpu.msp /\ cpu'.psp = cpu.psp /\ cpu'.lr = cpu.lr
      BY <1>1, <3>2 DEF SameStack, Cpus
    <3>4. ControlIntegrity' /\ LiveWordsIntact'
      BY <1>1, <3>3 DEF StackInv, ControlIntegrity, LiveWordsIntact
    <3>5. CASE ThreadStacks
      <4>1. v = cpu.spsel
        BY <2>4, <3>5 DEF ThreadStacks
      <4>2. SameStack(cpu, cpu')
        BY <3>3, <4>1 DEF SameStack
      <4>3. QED BY <1>1, <3>3, <4>2, QuietStep DEF ghosts
    <3>6. CASE HandlerStacks
      <4>1. FrameAt' = FrameAt
        BY <3>3 DEF FrameAt, PopBank
      <4>2. MainStackAt(live', cpu'.sp) /\ ProcStackAt(live', cpu'.psp)
        BY <1>1, <3>3, <3>6 DEF HandlerStacks
      <4>3. HandlerStacks'
        <5> HIDE DEF FrameAt
        <5> QED BY <1>1, <3>3, <3>6, <4>1, <4>2 DEF HandlerStacks
      <4>4. QED BY <3>3, <3>4, <4>3 DEF StackInv, StackDiscipline
    <3>7. QED BY <1>1, <3>5, <3>6 DEF StackInv, StackDiscipline
  <2>5. QED BY <2>3, <2>4
<1>4. QED BY <1>2, <1>3

-----------------------------------------------------------------------------
(* Instructions the stacks do not see, and the dispatcher *)

LEMMA QuietSame ==
  ASSUME TypeOK,
         \/ Plain \/ ItBlock \/ Breakpoint \/ SetMasks \/ IcsrWrite \/ FaultStatusClear
         \/ NvicWrite \/ InjectIrq
  PROVE  SameStack(cpu, cpu') /\ UNCHANGED <<mem, ghosts, active>>
<1>1. cpu \in Cpus /\ UNCHANGED <<mem, ghosts, active>>
  BY DEF TypeOK, Plain, ItBlock, Breakpoint, SetMasks, IcsrWrite, FaultStatusClear, NvicWrite,
         InjectIrq, ghosts, nvicVars
<1>2. CASE Plain \/ IcsrWrite \/ NvicWrite
  BY <1>1, <1>2, AdvancedSame DEF Plain, IcsrWrite, NvicWrite, Retire
<1>3. CASE ItBlock \/ Breakpoint \/ InjectIrq
  BY <1>1, <1>3 DEF ItBlock, Breakpoint, InjectIrq, SameStack, Cpus
<1>4. CASE FaultStatusClear
  <2> PICK bit \in cpu.fsr : Retire([cpu EXCEPT !.fsr = @ \ {bit}])
    BY <1>4 DEF FaultStatusClear
  <2>1. /\ [cpu EXCEPT !.fsr = @ \ {bit}] \in Cpus
        /\ SameStack(cpu, [cpu EXCEPT !.fsr = @ \ {bit}])
    BY <1>1 DEF Cpus, SameStack
  <2>2. QED BY <1>1, <2>1, AdvancedSame DEF Retire, SameStack
<1>5. CASE SetMasks
  BY <1>1, <1>5 DEF SetMasks, Retire, Advanced, SameStack, Cpus
<1>6. QED BY <1>2, <1>3, <1>4, <1>5

LEMMA QuietActions ==
  ASSUME TypeOK, StackInv,
         \/ Plain \/ ItBlock \/ Breakpoint \/ SetMasks \/ IcsrWrite \/ FaultStatusClear
         \/ NvicWrite \/ InjectIrq
  PROVE  StackInv' /\ cpu'.mode = cpu.mode
<1>1. SameStack(cpu, cpu') /\ UNCHANGED <<mem, ghosts>>
  BY QuietSame
<1>2. CASE InjectIrq
  BY <1>1, <1>2 DEF InjectIrq, StackInv, ControlIntegrity, LiveWordsIntact, StackDiscipline, Dead,
                    ThreadStacks, HandlerStacks, FrameAt, PopBank, ghosts
<1>3. CASE ~InjectIrq
  <2>1. ~Dead
    BY <1>3 DEF Plain, ItBlock, Breakpoint, SetMasks, IcsrWrite, FaultStatusClear, NvicWrite,
                Fetched, Running, Dead
  <2>2. QED BY <1>1, <2>1, QuietStep DEF SameStack
<1>4. QED BY <1>2, <1>3

LEMMA DispatchCases ==
  ASSUME TickAndDispatch
  PROVE  \E tick \in BOOLEAN :
           \/ Unmasked /\ tick /\ DispatchSysTick
           \/ Unmasked /\ DispatchPendSv(tick)
           \/ Unmasked /\ DispatchIrq(tick)
           \/ DispatchNothing(tick)
<1>1. PICK fire \in BOOLEAN :
        LET tick == stPending \/ fire IN
          \/ Unmasked /\ tick /\ DispatchSysTick
          \/ Unmasked /\ DispatchPendSv(tick)
          \/ Unmasked /\ DispatchIrq(tick)
          \/ DispatchNothing(tick)
  BY DEF TickAndDispatch
<1>2. (stPending \/ fire) \in BOOLEAN
  OBVIOUS
<1>3. QED BY <1>1, <1>2

LEMMA DispatchKeeps ==
  ASSUME FlatFirmware, TypeOK, StackInv, TickAndDispatch
  PROVE  StackInv' /\ ~(cpu.mode = "handler" /\ cpu'.mode = "thread")
<1>1. cpu \in Cpus /\ ~Dead /\ live' = live /\ SameStack(cpu, cpu)
  BY DEF TickAndDispatch, TypeOK, Dead, SameStack
<1>2. PICK tick \in BOOLEAN :
        \/ Unmasked /\ tick /\ DispatchSysTick
        \/ Unmasked /\ DispatchPendSv(tick)
        \/ Unmasked /\ DispatchIrq(tick)
        \/ DispatchNothing(tick)
  BY DispatchCases
<1>3. ASSUME Unmasked, NEW e \in Excs, exc_enter(cpu, e)
      PROVE  StackInv' /\ ~(cpu.mode = "handler" /\ cpu'.mode = "thread")
  <2>1. ThreadStacks /\ cpu.pc = Main
    BY <1>1, <1>3, InThread DEF Unmasked
  <2>2. QED BY <1>1, <1>3, <2>1, EnterKeeps DEF ThreadStacks
<1>4. CASE Unmasked /\ DispatchSysTick
  BY <1>3, <1>4 DEF DispatchSysTick, Excs
<1>5. CASE Unmasked /\ DispatchPendSv(tick)
  BY <1>3, <1>5 DEF DispatchPendSv, Excs
<1>6. CASE Unmasked /\ DispatchIrq(tick)
  <2>1. Pick # None /\ exc_enter(cpu, ExcOf(Pick))
    BY <1>6 DEF DispatchIrq
  <2>2. ExcOf(Pick) \in Excs
    BY <2>1, PickType
  <2>3. QED BY <1>3, <1>6, <2>1, <2>2
<1>7. CASE DispatchNothing(tick)
  BY <1>1, <1>7, QuietStep DEF DispatchNothing, ghosts
<1>8. QED BY <1>2, <1>4, <1>5, <1>6, <1>7

-----------------------------------------------------------------------------
\* One step keeps the invariant, and resumes a thread where it was left.
LEMMA StackStep ==
  ASSUME FlatFirmware, TypeOK, StackInv, [Next]_vars
  PROVE  StackInv' /\ [ResumesThread]_vars
<1>1. CASE Plain \/ ItBlock \/ Breakpoint \/ SetMasks \/ IcsrWrite \/ FaultStatusClear
           \/ NvicWrite \/ InjectIrq
  BY <1>1, QuietActions DEF ResumesThread
<1>2. CASE Push
  BY <1>2, PushKeeps DEF ResumesThread
<1>3. CASE Pop
  BY <1>3, PopKeeps DEF ResumesThread
<1>4. CASE HandlerReturnBx \/ HandlerReturnPop
  BY <1>4, ReturnActions
<1>5. CASE Svc
  BY <1>5, SvcKeeps DEF ResumesThread
<1>6. CASE Undefined
  BY <1>6, UndefinedKeeps DEF ResumesThread
<1>7. CASE MsrPsp \/ MsrControl
  BY <1>7, MsrKeeps DEF ResumesThread
<1>8. CASE Stop
  <2>1. /\ cpu'.halted /\ cpu'.mode = cpu.mode /\ cpu'.pc = cpu.pc /\ cpu'.ipsr = cpu.ipsr
        /\ phase = "exec" /\ UNCHANGED <<mem, phase, live>>
    BY <1>8 DEF Stop, Fetched, Running, TypeOK, Cpus, ghosts
  <2>2. StackInv'
    BY <2>1 DEF StackInv, StackDiscipline, Dead, ControlIntegrity, LiveWordsIntact
  <2>3. QED BY <2>1, <2>2 DEF ResumesThread
<1>9. CASE TickAndDispatch
  BY <1>9, DispatchKeeps DEF ResumesThread
<1>10. CASE UNCHANGED vars
  <2>1. StackInv'
    BY <1>10 DEF vars, ghosts, StackInv, ControlIntegrity, LiveWordsIntact, StackDiscipline, Dead,
                 ThreadStacks, HandlerStacks, FrameAt, PopBank
  <2>2. QED BY <1>10, <2>1
<1>11. QED
  BY <1>1, <1>2, <1>3, <1>4, <1>5, <1>6, <1>7, <1>8, <1>9, <1>10 DEF Next

LEMMA StackInit ==
  ASSUME FlatFirmware, Init
  PROVE  StackInv
<1>1. /\ cpu.mode = "thread" /\ cpu.pc = Main /\ ~cpu.spsel /\ cpu.sp = MspInit /\ cpu.psp = 0
      /\ live = {}
  BY DEF Init
<1>2. MainStackAt(live, cpu.sp) /\ ProcStackAt(live, cpu.psp)
  BY <1>1, GapFacts, ExcAssumption DEF MainStackAt, ProcStackAt, FlatFirmware
<1>3. QED
  BY <1>1, <1>2 DEF StackInv, StackDiscipline, ThreadStacks, ControlIntegrity, LiveWordsIntact

LEMMA StacksInvariant ==
  ASSUME FlatFirmware
  PROVE  Spec => []StackInv
<1>1. Init => StackInv
  BY StackInit
<1>2. TypeOK /\ StackInv /\ [Next]_vars => StackInv'
  BY StackStep
<1>3. QED BY <1>1, <1>2, TypeCorrect, PTL DEF Spec

\* exc_enter and exc_return keep pc, mode and IPSR together, through any stack
\* overflow, provided handlers do not nest and the two stacks are apart.
THEOREM ControlKept ==
  ASSUME FlatFirmware
  PROVE  Spec => []ControlIntegrity
<1>1. StackInv => ControlIntegrity
  BY DEF StackInv
<1>2. QED BY <1>1, StacksInvariant, PTL

\* exc_enter never writes a frame over words in use, on either stack.
THEOREM StacksKept ==
  ASSUME FlatFirmware
  PROVE  Spec => []LiveWordsIntact
<1>1. StackInv => LiveWordsIntact
  BY DEF StackInv
<1>2. QED BY <1>1, StacksInvariant, PTL

\* The EXC_RETURN value of a handler leads to the frame exc_enter pushed for
\* it, whatever the depth of the stacks and whatever CONTROL says meanwhile.
THEOREM FramesFound ==
  ASSUME FlatFirmware
  PROVE  Spec => []StackDiscipline
<1>1. StackInv => StackDiscipline
  BY DEF StackInv
<1>2. QED BY <1>1, StacksInvariant, PTL

\* A thread resumes with the stack, the stack selection, the link register and
\* the place it was interrupted with, whatever its handler did to CONTROL.
THEOREM ThreadsResumeExactly ==
  ASSUME FlatFirmware
  PROVE  Spec => ThreadResumes
<1>1. Init => StackInv
  BY StackInit
<1>2. TypeOK /\ StackInv /\ [Next]_vars => StackInv' /\ [ResumesThread]_vars
  BY StackStep
<1>3. QED BY <1>1, <1>2, TypeCorrect, PTL DEF Spec, ThreadResumes
-----------------------------------------------------------------------------
(***************************************************************************)
(* The active bits of the NVIC and the exception that runs, for firmware   *)
(* whose handlers do not nest and whose stacks hold what it pushes and one *)
(* frame.  The second matters: the dispatcher sets the active bit and      *)
(* takes the pending one back before it calls exc_enter, whose result it   *)
(* does not look at, so on a full stack the bit stays set in Thread mode   *)
(* and the interrupt is lost.                                              *)
(***************************************************************************)

\* Each stack that is used holds MaxPush words and a frame.
DeepStacks == \A k \in 1 .. MaxPush + 1 :
  MspInit - k \in Ram /\ ("psp" \in Uses => PspInit - k \in Ram)

\* The main stack pointer and the process stack pointer, wherever they are.
MainPtr == IF UsePsp(cpu) THEN cpu.msp ELSE cpu.sp
ProcPtr == IF UsePsp(cpu) THEN cpu.sp ELSE cpu.psp

\* What the stacks hold: words pushed, and a handler's frame.
Words == IF cpu.mode = "thread" THEN live ELSE live \cup {FrameAt}

\* No slot between a stack's pointer and its origin is free.
Unbroken ==
  /\ MainPtr .. MspInit - 1 \subseteq Words
  /\ ProcPtr # 0 => ProcPtr .. PspInit - 1 \subseteq Words

Few == IsFiniteSet(live) /\ Cardinality(live) <= MaxPush
OneStack == "psp" \notin Uses => cpu.psp = 0 /\ ~cpu.spsel

ActiveInv == ActiveIsRunning /\ Few /\ OneStack /\ (Dead \/ Unbroken)

-----------------------------------------------------------------------------
(* The stacks *)

LEMMA Numbers ==
  ASSUME TypeOK
  PROVE  /\ cpu \in Cpus /\ cpu.sp \in Int /\ cpu.msp \in Int /\ cpu.psp \in Int /\ base \in Int
         /\ MspInit \in Int /\ PspInit \in Int /\ MaxPush \in Nat /\ cpu.spsel \in BOOLEAN
         /\ cpu.mode \in {"thread", "handler"} /\ live \subseteq Ram /\ Ram \subseteq Int
BY ExcAssumption DEF TypeOK, Cpus

\* A slot of one stack is none of the other.
LEMMA Apart ==
  ASSUME FlatFirmware, TypeOK, ThreadStacks \/ HandlerStacks
  PROVE  Gap < MainPtr /\ ProcPtr <= PspInit /\ PspInit <= Gap /\ MainPtr <= MspInit
         /\ Gap \in Int /\ MainPtr \in Int /\ ProcPtr \in Int /\ Gap \notin Ram
<1>1. CASE ThreadStacks
  BY <1>1, GapFacts, Numbers DEF ThreadStacks, MainStackAt, ProcStackAt, MainPtr, ProcPtr, UsePsp
<1>2. CASE HandlerStacks
  BY <1>2, GapFacts, Numbers DEF HandlerStacks, MainStackAt, ProcStackAt, MainPtr, ProcPtr, UsePsp
<1>3. QED BY <1>1, <1>2

LEMMA QuietUnbroken ==
  ASSUME Unbroken, SameStack(cpu, cpu'), UNCHANGED live
  PROVE  Unbroken'
<1>1. MainPtr' = MainPtr /\ ProcPtr' = ProcPtr /\ Words' = Words
  BY DEF SameStack, MainPtr, ProcPtr, Words, UsePsp, FrameAt, PopBank
<1>2. QED BY <1>1 DEF Unbroken

\* A thread has room for the frame of an exception.
LEMMA RoomForFrame ==
  ASSUME FlatFirmware, DeepStacks, TypeOK, Few, OneStack, Unbroken, ThreadStacks
  PROVE  cpu.sp - 1 \in Ram
<1>1. ASSUME NEW a \in Int, NEW b \in Int, a <= b, a .. b - 1 \subseteq live
      PROVE  b - a + 1 \in 1 .. MaxPush + 1
  <2>1. IsFiniteSet(live) /\ Cardinality(live) \in Nat /\ Cardinality(live) <= MaxPush
    BY FS_CardinalityType DEF Few
  <2>2. Cardinality(a .. b - 1) <= Cardinality(live)
    BY <1>1, <2>1, FS_Subset
  <2>3. Cardinality(a .. b - 1) = IF a > b - 1 THEN 0 ELSE (b - 1) - a + 1
    BY <1>1, FS_Interval
  <2>4. QED BY <1>1, <2>1, <2>2, <2>3, Numbers
<1>2. CASE cpu.spsel
  <2>1. /\ cpu.sp .. PspInit - 1 \subseteq live /\ cpu.sp <= PspInit /\ cpu.sp \in Int
        /\ PspInit \in Int
    BY <1>2, Apart, Numbers DEF Unbroken, ThreadStacks, ProcPtr, UsePsp, Words
  <2>2. PspInit - cpu.sp + 1 \in 1 .. MaxPush + 1
    BY <1>1, <2>1
  <2>3. PspInit - (PspInit - cpu.sp + 1) \in Ram
    BY <1>2, <2>2 DEF DeepStacks, OneStack
  <2>4. PspInit - (PspInit - cpu.sp + 1) = cpu.sp - 1
    BY <2>1
  <2>5. QED BY <2>3, <2>4
<1>3. CASE ~cpu.spsel
  <2>1. /\ cpu.sp .. MspInit - 1 \subseteq live /\ cpu.sp <= MspInit /\ cpu.sp \in Int
        /\ MspInit \in Int
    BY <1>3, Apart, Numbers DEF Unbroken, ThreadStacks, MainPtr, UsePsp, Words
  <2>2. MspInit - cpu.sp + 1 \in 1 .. MaxPush + 1
    BY <1>1, <2>1
  <2>3. MspInit - (MspInit - cpu.sp + 1) \in Ram
    BY <2>2 DEF DeepStacks
  <2>4. MspInit - (MspInit - cpu.sp + 1) = cpu.sp - 1
    BY <2>1
  <2>5. QED BY <2>3, <2>4
<1>4. QED BY <1>2, <1>3

\* An exception taken by thread code always finds room, and is entered.
LEMMA EnterActive ==
  ASSUME FlatFirmware, DeepStacks, TypeOK, Few, OneStack, Unbroken, ThreadStacks,
         NEW c \in Cpus, SameStack(cpu, c), NEW e \in Excs, exc_enter(c, e), live' = live
  PROVE  /\ cpu'.mode = "handler" /\ cpu'.pc = e /\ cpu'.ipsr = e
         /\ Unbroken' /\ OneStack'
<1> DEFINE s == cpu.sp - 1
<1>1. c.sp = cpu.sp /\ UsePsp(c) = cpu.spsel /\ UsePsp(cpu) = cpu.spsel
      /\ c.msp = cpu.msp /\ c.psp = cpu.psp /\ c.spsel = cpu.spsel
  BY Numbers DEF SameStack, UsePsp, ThreadStacks
<1>2. cpu' = Entered(c, e)
  BY <1>1, RoomForFrame DEF exc_enter, EntrySlot
<1>3. /\ cpu'.mode = "handler" /\ cpu'.pc = e /\ cpu'.ipsr = e /\ cpu'.sp = cpu'.msp
      /\ cpu'.lr = (IF cpu.spsel THEN "FD" ELSE "F9")
      /\ cpu'.psp = (IF cpu.spsel THEN s ELSE cpu.psp)
      /\ cpu'.msp = (IF cpu.spsel THEN cpu.msp ELSE s)
  BY <1>1, <1>2, EnteredFields
<1>4. cpu'.spsel = cpu.spsel
  BY <1>1, <1>2 DEF Entered, Cpus
<1>5. /\ MainPtr' = cpu'.msp /\ ProcPtr' = cpu'.psp /\ Words' = live \cup {s}
  BY <1>3 DEF MainPtr, ProcPtr, UsePsp, Words, FrameAt, PopBank
<1>6. Unbroken'
  <2>1. /\ MainPtr .. MspInit - 1 \subseteq live
        /\ ProcPtr # 0 => ProcPtr .. PspInit - 1 \subseteq live
    BY DEF Unbroken, Words, ThreadStacks
  <2>2. cpu.sp \in Int /\ cpu.msp \in Int /\ MspInit \in Int /\ PspInit \in Int
    BY Numbers
  <2>3. CASE cpu.spsel
    <3>1. MainPtr' = MainPtr /\ ProcPtr = cpu.sp /\ ProcPtr' = s /\ ProcPtr # 0
      BY <1>1, <1>3, <1>5, <2>3 DEF MainPtr, ProcPtr, ThreadStacks
    <3>2. s .. PspInit - 1 \subseteq live \cup {s}
      BY <2>1, <2>2, <3>1
    <3>3. QED BY <1>5, <2>1, <3>1, <3>2 DEF Unbroken
  <2>4. CASE ~cpu.spsel
    <3>1. MainPtr' = s /\ MainPtr = cpu.sp /\ ProcPtr' = ProcPtr
      BY <1>1, <1>3, <1>5, <2>4 DEF MainPtr, ProcPtr
    <3>2. s .. MspInit - 1 \subseteq live \cup {s}
      BY <2>1, <2>2, <3>1
    <3>3. QED BY <1>5, <2>1, <3>1, <3>2 DEF Unbroken
  <2>5. QED BY <2>3, <2>4
<1>7. OneStack'
  BY <1>3, <1>4 DEF OneStack
<1>8. QED BY <1>3, <1>6, <1>7

-----------------------------------------------------------------------------
(* Words pushed and popped *)

LEMMA PushActive ==
  ASSUME FlatFirmware, TypeOK, StackInv, Few, OneStack, Unbroken, Push
  PROVE  Few' /\ OneStack' /\ (Dead' \/ Unbroken') /\ cpu'.mode = cpu.mode /\ cpu'.ipsr = cpu.ipsr
<1> DEFINE s == cpu.sp - 1
<1>1. cpu \in Cpus /\ cpu.sp \in Int /\ MspInit \in Int /\ PspInit \in Int /\ MaxPush \in Nat
  BY Numbers
<1>2. ThreadStacks \/ HandlerStacks
  BY DEF StackInv, StackDiscipline, Dead, Push, Fetched, Running
<1>3. CASE s \notin Ram
  <2>1. cpu' = [cpu EXCEPT !.sp = s, !.halted = TRUE] /\ UNCHANGED <<phase, live>> /\ phase = "exec"
    BY <1>3 DEF Push, Fetched, Running
  <2>2. /\ cpu'.halted /\ cpu'.mode = cpu.mode /\ cpu'.ipsr = cpu.ipsr
        /\ cpu'.psp = cpu.psp /\ cpu'.spsel = cpu.spsel
    BY <1>1, <2>1 DEF Cpus
  <2>3. QED BY <2>1, <2>2 DEF Dead, Few, OneStack
<1>4. CASE s \in Ram
  <2> DEFINE moved == [cpu EXCEPT !.sp = s]
  <2>1. Retire(moved) /\ live' = live \cup {s} /\ Cardinality(live) < MaxPush
    BY <1>4 DEF Push
  <2>2. SameStack(moved, cpu')
    <3>1. moved \in Cpus
      BY <1>1 DEF Cpus
    <3> HIDE DEF moved
    <3>2. QED BY <2>1, <3>1, AdvancedSame DEF Retire
  <2>3. /\ cpu'.mode = cpu.mode /\ cpu'.ipsr = cpu.ipsr /\ cpu'.spsel = cpu.spsel
        /\ cpu'.sp = s /\ cpu'.msp = cpu.msp /\ cpu'.psp = cpu.psp /\ cpu'.lr = cpu.lr
    BY <1>1, <2>2 DEF SameStack, Cpus
  <2>4. Few'
    <3>1. IsFiniteSet(live) /\ Cardinality(live) \in Nat
      BY FS_CardinalityType DEF Few
    <3>2. IsFiniteSet(live \cup {s}) /\ Cardinality(live \cup {s}) <= Cardinality(live) + 1
      BY <3>1, FS_AddElement
    <3>3. Cardinality(live \cup {s}) \in Nat
      BY <3>2, FS_CardinalityType
    <3>4. QED BY <1>1, <2>1, <3>1, <3>2, <3>3 DEF Few
  <2>5. Words' = Words \cup {s}
    BY <2>1, <2>3 DEF Words, FrameAt, PopBank
  <2>6. Unbroken'
    <3>1. CASE UsePsp(cpu)
      <4>1. MainPtr' = MainPtr /\ ProcPtr = cpu.sp /\ ProcPtr' = s /\ ProcPtr # 0
        BY <1>2, <2>3, <3>1 DEF MainPtr, ProcPtr, UsePsp, ThreadStacks, HandlerStacks
      <4>2. QED BY <1>1, <2>5, <4>1 DEF Unbroken
    <3>2. CASE ~UsePsp(cpu)
      <4>1. MainPtr = cpu.sp /\ MainPtr' = s /\ ProcPtr' = ProcPtr
        BY <2>3, <3>2 DEF MainPtr, ProcPtr, UsePsp
      <4>2. QED BY <1>1, <2>5, <4>1 DEF Unbroken
    <3>3. QED BY <3>1, <3>2
  <2>7. QED BY <2>3, <2>4, <2>6 DEF OneStack
<1>5. QED BY <1>3, <1>4

LEMMA FewLess ==
  ASSUME Few, NEW s, live' = live \ {s} \/ live' = live, MaxPush \in Nat
  PROVE  Few'
<1>1. IsFiniteSet(live) /\ Cardinality(live) \in Nat
  BY FS_CardinalityType DEF Few
<1>2. IsFiniteSet(live \ {s}) /\ Cardinality(live \ {s}) <= Cardinality(live)
  BY <1>1, FS_Subset
<1>3. Cardinality(live \ {s}) \in Nat
  BY <1>2, FS_CardinalityType
<1>4. QED BY <1>1, <1>2, <1>3 DEF Few

LEMMA PopActive ==
  ASSUME FlatFirmware, TypeOK, StackInv, Few, OneStack, Unbroken, Pop
  PROVE  Few' /\ OneStack' /\ Unbroken' /\ cpu'.mode = cpu.mode /\ cpu'.ipsr = cpu.ipsr
<1> DEFINE s == cpu.sp
           moved == [cpu EXCEPT !.sp = @ + 1]
<1>1. /\ cpu \in Cpus /\ s \in Int /\ MspInit \in Int /\ PspInit \in Int /\ MaxPush \in Nat
      /\ live \subseteq Ram
  BY Numbers
<1>2. ThreadStacks \/ HandlerStacks
  BY DEF StackInv, StackDiscipline, Dead, Pop, Fetched, Running
<1>3. Retire(moved) /\ live' = live \ {s} /\ s \in live
  BY DEF Pop
<1>4. SameStack(moved, cpu')
  <2>1. moved \in Cpus
    BY <1>1 DEF Cpus
  <2> HIDE DEF moved
  <2>2. QED BY <1>3, <2>1, AdvancedSame DEF Retire
<1>5. /\ cpu'.mode = cpu.mode /\ cpu'.ipsr = cpu.ipsr /\ cpu'.spsel = cpu.spsel
      /\ cpu'.sp = s + 1 /\ cpu'.msp = cpu.msp /\ cpu'.psp = cpu.psp /\ cpu'.lr = cpu.lr
  BY <1>1, <1>4 DEF SameStack, Cpus
<1>6. /\ Gap < MainPtr /\ ProcPtr <= PspInit /\ PspInit <= Gap
      /\ Gap \in Int /\ MainPtr \in Int /\ ProcPtr \in Int /\ s # Gap
  BY <1>1, <1>2, <1>3, Apart
<1>7. Words \ {s} \subseteq Words'
  BY <1>3, <1>5 DEF Words, FrameAt, PopBank
<1>8. Unbroken'
  <2>1. CASE UsePsp(cpu)
    <3>1. MainPtr' = MainPtr /\ ProcPtr = s /\ ProcPtr' = s + 1 /\ ProcPtr # 0
      BY <1>2, <1>5, <2>1 DEF MainPtr, ProcPtr, UsePsp, ThreadStacks, HandlerStacks
    <3>2. MainPtr .. MspInit - 1 \subseteq Words' /\ s + 1 .. PspInit - 1 \subseteq Words'
      BY <1>1, <1>6, <1>7, <3>1 DEF Unbroken
    <3>3. QED BY <3>1, <3>2 DEF Unbroken
  <2>2. CASE ~UsePsp(cpu)
    <3>1. MainPtr = s /\ MainPtr' = s + 1 /\ ProcPtr' = ProcPtr
      BY <1>5, <2>2 DEF MainPtr, ProcPtr, UsePsp
    <3>2. /\ s + 1 .. MspInit - 1 \subseteq Words'
          /\ ProcPtr # 0 => ProcPtr .. PspInit - 1 \subseteq Words'
      BY <1>1, <1>6, <1>7, <3>1 DEF Unbroken
    <3>3. QED BY <3>1, <3>2 DEF Unbroken
  <2>3. QED BY <2>1, <2>2
<1>9. QED BY <1>1, <1>3, <1>5, <1>8, FewLess DEF OneStack


\* A handler returns: c is the core with the handler's own words popped, at
\* most one of them by the return itself.
LEMMA ReturnActive ==
  ASSUME FlatFirmware, NvicWired, TypeOK, HandlerStacks, ActiveIsRunning, Few, OneStack, Unbroken,
         NEW c \in Cpus, c.msp = cpu.msp, c.psp = cpu.psp, c.ipsr = cpu.ipsr,
         \/ live' = live
         \/ live' = live \ {cpu.sp} /\ cpu.sp < base,
         exc_return(c, cpu.lr)
  PROVE  active' = {} /\ Few' /\ OneStack' /\ Unbroken'
<1> DEFINE f == mem[FrameAt]
<1>1. /\ cpu.sp \in Int /\ base \in Int /\ MspInit \in Int /\ PspInit \in Int /\ MaxPush \in Nat
      /\ cpu.psp \in Int /\ live \subseteq Ram /\ Ram \subseteq Int
  BY Numbers
<1>2. /\ PopBank(c, cpu.lr) = FrameAt /\ FrameAt \in Ram /\ cpu.lr \in ExcReturns /\ f \in Slots
      /\ base = cpu.msp /\ cpu.mode = "handler" /\ cpu.sp <= base
      /\ FrameAt < IF cpu.lr = "FD" THEN PspInit ELSE MspInit
  BY DEF PopBank, FrameAt, HandlerStacks, TypeOK
<1>3. cpu' = Returned(c, cpu.lr, f) /\ active' = ActiveAfter(c)
  BY <1>2 DEF exc_return
<1>4. /\ cpu'.mode = "thread" /\ cpu'.spsel = (cpu.lr = "FD") /\ cpu'.sp = FrameAt + 1
      /\ cpu'.psp = (IF cpu.lr = "FD" THEN cpu.psp + 1 ELSE cpu.psp)
      /\ cpu'.msp = (IF cpu.lr = "FD" THEN cpu.msp ELSE cpu.msp + 1)
  BY <1>2, <1>3, ReturnedFields
<1>5. active' = {}
  BY <1>3 DEF ActiveAfter, ActiveIsRunning, TypeOK
<1>6. /\ MainPtr = cpu.sp /\ ProcPtr = cpu.psp /\ Words = live \cup {FrameAt} /\ Words' = live'
  BY <1>2, <1>4 DEF MainPtr, ProcPtr, UsePsp, Words
<1>7. Gap < cpu.sp /\ PspInit <= Gap /\ Gap \in Int /\ FrameAt > 0
  BY <1>2, <1>6, Apart DEF FlatFirmware
<1>8. CASE cpu.lr = "FD"
  <2>1. FrameAt = cpu.psp /\ cpu.psp # 0
    BY <1>1, <1>7, <1>8 DEF FrameAt, PopBank
  <2>2. MainPtr' = base /\ ProcPtr' = cpu.psp + 1
    BY <1>2, <1>4, <1>8, <2>1 DEF MainPtr, ProcPtr, UsePsp
  <2> HIDE DEF FrameAt
  <2>3. ASSUME NEW t \in base .. MspInit - 1 PROVE t \in live'
    <3>1. t \in cpu.sp .. MspInit - 1 /\ t # FrameAt
      BY <1>1, <1>2, <1>7, <1>8
    <3>2. t \in live
      BY <1>6, <3>1 DEF Unbroken
    <3>3. QED BY <1>1, <3>2
  <2>4. ASSUME NEW t \in cpu.psp + 1 .. PspInit - 1 PROVE t \in live'
    <3>1. t \in cpu.psp .. PspInit - 1 /\ t # FrameAt /\ t # cpu.sp
      BY <1>1, <1>7, <2>1
    <3>2. t \in live
      BY <1>6, <2>1, <3>1 DEF Unbroken
    <3>3. QED BY <3>1, <3>2
  <2>5. OneStack'
    BY <2>1 DEF OneStack
  <2>6. Unbroken'
    BY <1>6, <2>2, <2>3, <2>4 DEF Unbroken
  <2>7. QED BY <1>1, <1>5, <2>5, <2>6, FewLess
<1>9. CASE cpu.lr # "FD"
  <2>1. FrameAt = base
    BY <1>2, <1>9 DEF FrameAt, PopBank
  <2>2. MainPtr' = base + 1 /\ ProcPtr' = cpu.psp
    BY <1>2, <1>4, <1>9, <2>1 DEF MainPtr, ProcPtr, UsePsp
  <2> HIDE DEF FrameAt
  <2>3. ASSUME NEW t \in base + 1 .. MspInit - 1 PROVE t \in live'
    <3>1. t \in cpu.sp .. MspInit - 1 /\ t # FrameAt /\ t # cpu.sp
      BY <1>1, <1>2, <2>1
    <3>2. t \in live
      BY <1>6, <3>1 DEF Unbroken
    <3>3. QED BY <3>1, <3>2
  <2>4. ASSUME cpu.psp # 0, NEW t \in cpu.psp .. PspInit - 1 PROVE t \in live'
    <3>1. t # FrameAt /\ t # cpu.sp
      BY <1>1, <1>2, <1>7, <2>1
    <3>2. t \in live
      BY <1>6, <2>4, <3>1 DEF Unbroken
    <3>3. QED BY <3>1, <3>2
  <2>5. OneStack'
    BY <1>4, <1>9 DEF OneStack
  <2>6. Unbroken'
    BY <1>6, <2>2, <2>3, <2>4 DEF Unbroken
  <2>7. QED BY <1>1, <1>5, <2>5, <2>6, FewLess
<1>10. QED BY <1>8, <1>9

LEMMA ReturnsActive ==
  ASSUME FlatFirmware, NvicWired, TypeOK, StackInv, ActiveInv, HandlerReturnBx \/ HandlerReturnPop
  PROVE  active' = {} /\ Few' /\ OneStack' /\ Unbroken'
<1>1. cpu \in Cpus /\ cpu.sp \in Int /\ base \in Int /\ ~Dead /\ cpu.pc # Main
  BY Numbers DEF HandlerReturnBx, HandlerReturnPop, Fetched, Running, Dead
<1>2. /\ cpu.mode = "handler" /\ HandlerStacks
      /\ ActiveIsRunning /\ Few /\ OneStack /\ Unbroken
  BY <1>1 DEF StackInv, ControlIntegrity, StackDiscipline, ThreadStacks, ActiveInv
<1>3. CASE HandlerReturnBx
  <2>1. exc_return(cpu, cpu.lr) /\ live' = live
    BY <1>2, <1>3 DEF HandlerReturnBx
  <2>2. QED BY <1>1, <1>2, <2>1, ReturnActive
<1>4. CASE HandlerReturnPop
  <2> DEFINE popped == [cpu EXCEPT !.sp = @ + 1]
  <2>1. /\ exc_return(popped, mem[cpu.sp].lr) /\ cpu.sp \in live /\ cpu.sp + 1 = base
        /\ live' = live \ {cpu.sp}
    BY <1>2, <1>4 DEF HandlerReturnPop
  <2>2. cpu.sp > Gap /\ cpu.sp < base
    BY <1>1, <1>2, <2>1, GapFacts DEF HandlerStacks, MainStackAt
  <2>3. mem[cpu.sp].lr = cpu.lr
    BY <1>2, <2>1, <2>2 DEF HandlerStacks
  <2>4. /\ popped \in Cpus /\ popped.msp = cpu.msp /\ popped.psp = cpu.psp
        /\ popped.ipsr = cpu.ipsr
    BY <1>1 DEF Cpus
  <2> HIDE DEF popped
  <2>5. QED BY <1>2, <2>1, <2>2, <2>3, <2>4, ReturnActive
<1>5. QED BY <1>3, <1>4

-----------------------------------------------------------------------------
(* The other instructions *)

LEMMA MsrActive ==
  ASSUME FlatFirmware, TypeOK, StackInv, OneStack, Unbroken, MsrPsp \/ MsrControl
  PROVE  OneStack' /\ Unbroken' /\ cpu'.mode = cpu.mode /\ cpu'.ipsr = cpu.ipsr
<1>1. /\ cpu \in Cpus /\ ~Dead /\ live' = live /\ cpu.sp \in Int /\ cpu.msp \in Int
      /\ cpu.psp \in Int /\ cpu.mode \in {"thread", "handler"} /\ cpu.spsel \in BOOLEAN
  BY Numbers DEF MsrPsp, MsrControl, Fetched, Running, Dead, ghosts
<1>2. CASE MsrPsp
  <2> DEFINE set == [cpu EXCEPT !.psp = PspInit]
  <2>1. Retire(set) /\ ~cpu.spsel /\ cpu.psp = 0 /\ cpu.pc = Main /\ "psp" \in Uses
    BY <1>2 DEF MsrPsp
  <2>2. SameStack(set, cpu')
    <3>1. set \in Cpus
      BY <1>1, ExcAssumption DEF Cpus
    <3> HIDE DEF set
    <3>2. QED BY <2>1, <3>1, AdvancedSame DEF Retire
  <2>3. /\ cpu'.mode = cpu.mode /\ cpu'.spsel = cpu.spsel /\ cpu'.msp = cpu.msp
        /\ cpu'.sp = cpu.sp /\ cpu'.psp = PspInit /\ cpu'.ipsr = cpu.ipsr
    BY <1>1, <2>2 DEF SameStack, Cpus
  <2>4. ThreadStacks
    BY <1>1, <2>1, InThread
  <2>5. MainPtr' = MainPtr /\ ProcPtr' = PspInit /\ Words' = Words
    BY <1>1, <2>1, <2>3, <2>4 DEF MainPtr, ProcPtr, UsePsp, Words, ThreadStacks
  <2>6. QED BY <2>1, <2>3, <2>5, ExcAssumption DEF Unbroken, OneStack
<1>3. CASE MsrControl
  <2>1. PICK v \in BOOLEAN :
          Retire(IF cpu.mode = "thread" /\ v # cpu.spsel
                 THEN [cpu EXCEPT !.spsel = v, !.sp = IF v THEN cpu.psp ELSE cpu.msp,
                                  !.msp = IF v THEN cpu.sp ELSE @,
                                  !.psp = IF v THEN @ ELSE cpu.sp]
                 ELSE [cpu EXCEPT !.spsel = v])
    BY <1>3 DEF MsrControl
  <2>2. OneStack'
    <3>1. "psp" \in Uses
      BY <1>3 DEF MsrControl, OneStack
    <3>2. QED BY <3>1 DEF OneStack
  <2>3. CASE cpu.mode = "thread" /\ v # cpu.spsel
    <3> DEFINE swapped == [cpu EXCEPT !.spsel = v, !.sp = IF v THEN cpu.psp ELSE cpu.msp,
                                      !.msp = IF v THEN cpu.sp ELSE @,
                                      !.psp = IF v THEN @ ELSE cpu.sp]
    <3>1. /\ swapped.mode = cpu.mode /\ swapped.spsel = v /\ swapped.ipsr = cpu.ipsr
          /\ swapped.sp = (IF v THEN cpu.psp ELSE cpu.msp)
          /\ swapped.msp = (IF v THEN cpu.sp ELSE cpu.msp)
          /\ swapped.psp = (IF v THEN cpu.psp ELSE cpu.sp)
      BY <1>1 DEF Cpus
    <3>2. SameStack(swapped, cpu')
      <4>1. swapped \in Cpus
        BY <1>1 DEF Cpus
      <4>2. cpu' = Advanced(swapped)
        BY <2>1, <2>3 DEF Retire
      <4> HIDE DEF swapped
      <4>3. QED BY <4>1, <4>2, AdvancedSame
    <3> HIDE DEF swapped
    <3>3. /\ cpu'.mode = cpu.mode /\ cpu'.spsel = v /\ cpu'.ipsr = cpu.ipsr
          /\ cpu'.sp = (IF v THEN cpu.psp ELSE cpu.msp)
          /\ cpu'.msp = (IF v THEN cpu.sp ELSE cpu.msp)
          /\ cpu'.psp = (IF v THEN cpu.psp ELSE cpu.sp)
      BY <3>1, <3>2 DEF SameStack
    <3>4. MainPtr' = MainPtr /\ ProcPtr' = ProcPtr /\ Words' = Words
      <4>1. UsePsp(cpu) = cpu.spsel /\ UsePsp(cpu') = v /\ cpu.spsel = ~v
        BY <1>1, <2>3, <3>3 DEF UsePsp
      <4>2. QED BY <1>1, <2>3, <3>3, <4>1 DEF MainPtr, ProcPtr, UsePsp, Words
    <3>5. QED BY <2>2, <3>3, <3>4 DEF Unbroken
  <2>4. CASE ~(cpu.mode = "thread" /\ v # cpu.spsel)
    <3> DEFINE chosen == [cpu EXCEPT !.spsel = v]
    <3>1. SameStack(chosen, cpu')
      <4>1. chosen \in Cpus
        BY <1>1 DEF Cpus
      <4>2. cpu' = Advanced(chosen)
        BY <2>1, <2>4 DEF Retire
      <4> HIDE DEF chosen
      <4>3. QED BY <4>1, <4>2, AdvancedSame
    <3>2. /\ cpu'.mode = cpu.mode /\ cpu'.spsel = v /\ cpu'.ipsr = cpu.ipsr
          /\ cpu'.sp = cpu.sp /\ cpu'.msp = cpu.msp /\ cpu'.psp = cpu.psp /\ cpu'.lr = cpu.lr
      BY <1>1, <3>1 DEF SameStack, Cpus
    <3>3. MainPtr' = MainPtr /\ ProcPtr' = ProcPtr /\ Words' = Words
      BY <1>1, <2>4, <3>2 DEF MainPtr, ProcPtr, UsePsp, Words, FrameAt, PopBank
    <3>4. QED BY <2>2, <3>2, <3>3 DEF Unbroken
  <2>5. QED BY <2>3, <2>4
<1>4. QED BY <1>2, <1>3

-----------------------------------------------------------------------------
(* The active bits *)

LEMMA ActiveSame ==
  ASSUME ActiveIsRunning, UNCHANGED active, cpu'.mode = cpu.mode, cpu'.ipsr = cpu.ipsr
  PROVE  ActiveIsRunning'
BY DEF ActiveIsRunning

LEMMA NoneActive ==
  ASSUME ActiveIsRunning, ThreadStacks
  PROVE  active = {}
BY DEF ActiveIsRunning, ThreadStacks

\* What raise_fault, SVC and the dispatcher have in common.
LEMMA TakenActive ==
  ASSUME FlatFirmware, DeepStacks, TypeOK, ActiveInv, ~Dead, ThreadStacks,
         NEW c \in Cpus, SameStack(cpu, c), NEW e \in Excs, exc_enter(c, e), live' = live,
         \A i \in active' : e = ExcOf(i)
  PROVE  ActiveInv' /\ cpu'.mode = "handler" /\ cpu'.pc = e
<1>1. Few /\ OneStack /\ Unbroken
  BY DEF ActiveInv
<1>2. cpu'.mode = "handler" /\ cpu'.pc = e /\ cpu'.ipsr = e /\ Unbroken' /\ OneStack'
  BY <1>1, EnterActive
<1>3. ActiveIsRunning'
  BY <1>2 DEF ActiveIsRunning
<1>4. Few'
  BY <1>1 DEF Few
<1>5. QED BY <1>2, <1>3, <1>4 DEF ActiveInv

LEMMA SvcActive ==
  ASSUME FlatFirmware, DeepStacks, TypeOK, StackInv, ActiveInv, Svc
  PROVE  ActiveInv'
<1>1. /\ cpu.pc = Main /\ cpu \in Cpus /\ ~Dead /\ live' = live /\ active' = active
      /\ Few /\ OneStack /\ Unbroken /\ ActiveIsRunning
  BY DEF Svc, Nestable, FlatFirmware, TypeOK, Fetched, Running, Dead, nvicVars, ActiveInv
<1>2. ThreadStacks /\ active = {}
  BY <1>1, InThread, NoneActive
<1>3. EntrySlot(cpu) \in Ram
  BY <1>1, <1>2, RoomForFrame DEF EntrySlot
<1>4. exc_enter(cpu, SvCall) /\ SameStack(cpu, cpu) /\ SvCall \in Excs
  BY <1>3 DEF Svc, SameStack, Excs
<1>5. QED BY <1>1, <1>2, <1>4, TakenActive

LEMMA UndefinedActive ==
  ASSUME FlatFirmware, DeepStacks, TypeOK, StackInv, ActiveInv, Undefined
  PROVE  ActiveInv'
<1> DEFINE status == cpu.fsr \cup (IF cpu.mode = "handler" THEN {"UNDEFINSTR", "FORCED"}
                                   ELSE {"UNDEFINSTR"})
           c == [cpu EXCEPT !.fsr = status]
           e == IF cpu.mode = "handler" THEN HardFault ELSE UsageFault
<1>1. /\ cpu.pc \in {Main, Lost} /\ cpu \in Cpus /\ ~Dead /\ live' = live /\ active' = active
      /\ ActiveIsRunning
  BY DEF Undefined, Nestable, FlatFirmware, TypeOK, Running, Dead, nvicVars, ActiveInv
<1>2. ThreadStacks /\ active = {}
  BY <1>1, InThread, NoneActive
<1>3. c \in Cpus /\ SameStack(cpu, c)
  <2>1. status \in SUBSET {"UNDEFINSTR", "FORCED"}
    BY <1>1 DEF Cpus
  <2> HIDE DEF status
  <2>2. QED BY <1>1, <2>1 DEF Cpus, SameStack
<1>4. e \in Excs /\ exc_enter(c, e)
  BY DEF Undefined, Excs
<1> HIDE DEF c, e
<1>5. QED BY <1>1, <1>2, <1>3, <1>4, TakenActive

\* An interrupt whose pending bit the dispatcher takes back is entered.
Given(i) == i \notin pending' /\ phase = "irq" => cpu'.pc = ExcOf(i) /\ cpu'.mode = "handler"

LEMMA DispatchActive ==
  ASSUME FlatFirmware, DeepStacks, TypeOK, StackInv, ActiveInv, TickAndDispatch
  PROVE  ActiveInv' /\ \A i \in pending : Given(i)
<1>1. cpu \in Cpus /\ ~Dead /\ live' = live /\ SameStack(cpu, cpu) /\ ActiveIsRunning
  BY DEF TickAndDispatch, TypeOK, Dead, SameStack, ActiveInv
<1>2. PICK tick \in BOOLEAN :
        \/ Unmasked /\ tick /\ DispatchSysTick
        \/ Unmasked /\ DispatchPendSv(tick)
        \/ Unmasked /\ DispatchIrq(tick)
        \/ DispatchNothing(tick)
  BY DispatchCases
<1>3. ASSUME Unmasked PROVE ThreadStacks /\ active = {}
  BY <1>1, <1>3, InThread, NoneActive DEF Unmasked
<1>4. CASE Unmasked /\ (DispatchSysTick \/ DispatchPendSv(tick))
  <2>1. PICK e \in Excs : exc_enter(cpu, e)
    BY <1>4 DEF DispatchSysTick, DispatchPendSv, Excs
  <2>2. pending' = pending /\ active' = active
    BY <1>4 DEF DispatchSysTick, DispatchPendSv, nvicVars
  <2>3. ActiveInv'
    BY <1>1, <1>3, <1>4, <2>1, <2>2, TakenActive
  <2>4. QED BY <2>2, <2>3 DEF Given
<1>5. CASE Unmasked /\ DispatchIrq(tick)
  <2>1. /\ Pick # None /\ exc_enter(cpu, ExcOf(Pick))
        /\ pending' = pending \ {Pick} /\ active' = active \cup {Pick}
    BY <1>5 DEF DispatchIrq
  <2>2. ExcOf(Pick) \in Excs
    BY <2>1, PickType
  <2>3. PICK p : p = Pick
    OBVIOUS
  <2>4. \A i \in active' : ExcOf(p) = ExcOf(i)
    BY <1>3, <1>5, <2>1, <2>3
  <2>5. ActiveInv' /\ cpu'.mode = "handler" /\ cpu'.pc = ExcOf(p)
    BY <1>1, <1>3, <1>5, <2>1, <2>2, <2>3, <2>4, TakenActive
  <2>6. \A i \in pending : Given(i)
    BY <2>1, <2>3, <2>5 DEF Given
  <2>7. QED BY <2>5, <2>6
<1>6. CASE DispatchNothing(tick)
  <2>1. UNCHANGED <<cpu, pending, active>>
    BY <1>6 DEF DispatchNothing, nvicVars
  <2>2. Unbroken'
    BY <1>1, <2>1, QuietUnbroken DEF ActiveInv, SameStack
  <2>3. ActiveInv'
    BY <1>1, <2>1, <2>2, ActiveSame DEF ActiveInv, Few, OneStack
  <2>4. QED BY <2>1, <2>3 DEF Given
<1>7. QED BY <1>2, <1>4, <1>5, <1>6

LEMMA ActiveStep ==
  ASSUME FlatFirmware, DeepStacks, NvicWired, TypeOK, StackInv, ActiveInv, [Next]_vars
  PROVE  ActiveInv' /\ \A i \in pending : Given(i)
<1>1. ActiveIsRunning /\ Few /\ OneStack /\ (~Dead => Unbroken) /\ MaxPush \in Nat
  BY Numbers DEF ActiveInv
<1>2. CASE Plain \/ ItBlock \/ Breakpoint \/ SetMasks \/ IcsrWrite \/ FaultStatusClear
           \/ NvicWrite \/ InjectIrq
  <2>1. SameStack(cpu, cpu') /\ UNCHANGED <<live, active>>
    BY <1>2, QuietSame DEF ghosts
  <2>2. Dead' \/ Unbroken'
    <3>1. CASE Dead
      BY <1>2, <3>1 DEF Plain, ItBlock, Breakpoint, SetMasks, IcsrWrite, FaultStatusClear,
                        NvicWrite, InjectIrq, Fetched, Running, Dead
    <3>2. CASE ~Dead
      BY <1>1, <2>1, <3>2, QuietUnbroken
    <3>3. QED BY <3>1, <3>2
  <2>3. ActiveInv'
    BY <1>1, <2>1, <2>2, ActiveSame DEF ActiveInv, Few, OneStack, SameStack
  <2>4. ASSUME NEW i \in pending PROVE Given(i)
    BY <1>2 DEF Given, Plain, ItBlock, Breakpoint, SetMasks, IcsrWrite, FaultStatusClear,
                NvicWrite, InjectIrq, Fetched, Running, nvicVars
  <2>5. QED BY <2>3, <2>4
<1>3. CASE Push \/ Pop \/ MsrPsp \/ MsrControl
  <2>1. ~Dead /\ phase = "exec" /\ UNCHANGED active
    BY <1>3 DEF Push, Pop, MsrPsp, MsrControl, Fetched, Running, Dead, nvicVars
  <2>2. live' = live => Few'
    BY <1>1 DEF Few
  <2>3. Few' /\ OneStack' /\ (Dead' \/ Unbroken') /\ cpu'.mode = cpu.mode /\ cpu'.ipsr = cpu.ipsr
    <3>1. CASE Push \/ Pop
      BY <1>1, <2>1, <3>1, PushActive, PopActive
    <3>2. CASE MsrPsp \/ MsrControl
      <4>1. live' = live
        BY <3>2 DEF MsrPsp, MsrControl, ghosts
      <4>2. QED BY <1>1, <2>1, <2>2, <3>2, <4>1, MsrActive
    <3>3. QED BY <1>3, <3>1, <3>2
  <2>4. QED BY <1>1, <2>1, <2>3, ActiveSame DEF ActiveInv, Given
<1>4. CASE HandlerReturnBx \/ HandlerReturnPop
  <2>1. active' = {} /\ Few' /\ OneStack' /\ Unbroken'
    BY <1>4, ReturnsActive
  <2>2. phase = "exec"
    BY <1>4 DEF HandlerReturnBx, HandlerReturnPop, Fetched, Running
  <2>3. QED BY <2>1, <2>2 DEF ActiveInv, ActiveIsRunning, Given
<1>5. CASE Svc \/ Undefined
  <2>1. phase = "exec"
    BY <1>5 DEF Svc, Undefined, Fetched, Running
  <2>2. QED BY <1>5, <2>1, SvcActive, UndefinedActive DEF Given
<1>6. CASE Stop
  <2>1. /\ cpu'.halted /\ cpu'.mode = cpu.mode /\ cpu'.ipsr = cpu.ipsr /\ cpu'.psp = cpu.psp
        /\ cpu'.spsel = cpu.spsel /\ phase = "exec" /\ UNCHANGED <<phase, live, active>>
    BY <1>6, Numbers DEF Stop, Fetched, Running, Cpus, ghosts, nvicVars
  <2>2. QED BY <1>1, <2>1, ActiveSame DEF ActiveInv, Few, OneStack, Dead, Given
<1>7. CASE TickAndDispatch
  BY <1>7, DispatchActive
<1>8. CASE UNCHANGED vars
  <2>1. UNCHANGED <<cpu, active, pending, phase, live>>
    BY <1>8 DEF vars, nvicVars, ghosts
  <2>2. Dead' \/ Unbroken'
    BY <1>1, <2>1, QuietUnbroken DEF Dead, SameStack
  <2>3. QED BY <1>1, <2>1, <2>2, ActiveSame DEF ActiveInv, Few, OneStack, Given
<1>9. QED BY <1>2, <1>3, <1>4, <1>5, <1>6, <1>7, <1>8 DEF Next

LEMMA ActiveInit ==
  ASSUME FlatFirmware, Init
  PROVE  ActiveInv
<1>1. /\ cpu.mode = "thread" /\ ~cpu.spsel /\ cpu.sp = MspInit /\ cpu.psp = 0
      /\ live = {} /\ active = {}
  BY DEF Init
<1>2. MainPtr .. MspInit - 1 = {} /\ ProcPtr = 0
  BY <1>1, ExcAssumption DEF MainPtr, ProcPtr, UsePsp
<1>3. Few
  BY <1>1, FS_EmptySet, ExcAssumption DEF Few
<1>4. QED BY <1>1, <1>2, <1>3 DEF ActiveInv, ActiveIsRunning, OneStack, Unbroken

\* An active interrupt is one whose handler runs: the dispatcher sets the bit,
\* the return of that handler clears it, nothing else touches it.
THEOREM ActiveRuns ==
  ASSUME FlatFirmware, DeepStacks, NvicWired
  PROVE  Spec => []ActiveIsRunning
<1>1. TypeOK /\ StackInv /\ ActiveInv /\ [Next]_vars => ActiveInv'
  BY ActiveStep
<1>2. ActiveInv => ActiveIsRunning
  BY DEF ActiveInv
<1>3. Init => ActiveInv
  BY ActiveInit
<1>4. QED BY <1>1, <1>2, <1>3, StacksInvariant, TypeCorrect, PTL DEF Spec

\* The dispatcher takes a pending bit back only to enter the handler.
THEOREM NothingDropped ==
  ASSUME FlatFirmware, DeepStacks, NvicWired
  PROVE  Spec => NoInterruptDropped
<1>1. TypeOK /\ StackInv /\ ActiveInv /\ [Next]_vars => ActiveInv'
  BY ActiveStep
<1>2. TypeOK /\ StackInv /\ ActiveInv /\ [Next]_vars
      => [\A i \in pending : i \notin pending' /\ phase = "irq"
            => cpu'.pc = ExcOf(i) /\ cpu'.mode = "handler"]_vars
  BY ActiveStep DEF Given
<1>3. Init => ActiveInv
  BY ActiveInit
<1>4. QED BY <1>1, <1>2, <1>3, StacksInvariant, TypeCorrect, PTL DEF Spec, NoInterruptDropped
=============================================================================
