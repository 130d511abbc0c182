------------------------------- MODULE Block -------------------------------
(***************************************************************************)
(* What running a basic block means: its instructions are fetched at PC and *)
(* executed one after the other by the interpreter, and nobody sees the     *)
(* states in between.  A block that meets a failing access halts the core;  *)
(* how far it got is left open.                                             *)
(***************************************************************************)
EXTENDS Fetch

CONSTANTS Blocks,      \* the decoded blocks: a set of sequences of instructions
          Starts(_)    \* the machines a block is started with

VARIABLES blk,         \* the block
          s,           \* the machine
          steps,       \* instructions accounted for
          finished
vars == <<blk, s, steps, finished>>

\* One instruction of the run loop: fetch at PC, unless the run has ended.
Accounted(acc, i, e) ==
    [s |-> e.s, steps |-> acc.steps + Bit(e.ok), failed |-> ~e.ok,
     go |-> e.ok /\ ~e.s.halted /\ i.op \notin Terminators]
FetchedAt(ins, acc, k) ==
    IF ~acc.go \/ k = 0 THEN [acc EXCEPT !.go = FALSE]
    ELSE Accounted(acc, ins[k], execute(acc.s, ins[k]))
Fetched(ins, acc) ==
    FetchedAt(ins, acc, SelectInSeq(ins, LAMBDA i : i.pc = acc.s.r[Pc]))

Interpreted(ins, t) ==
    FoldLeft(LAMBDA acc, k : Fetched(ins, acc),
             [s |-> t, steps |-> 0, failed |-> FALSE, go |-> ~t.halted], ins)

Init == /\ blk \in Blocks
        /\ s \in Starts(blk)
        /\ steps = 0
        /\ finished = FALSE

\* What the interpreter does.
Run == /\ ~finished
       /\ finished' = TRUE
       /\ UNCHANGED blk
       /\ \E run \in {Interpreted(blk, s)} :
              s' = run.s /\ steps' = run.steps

Spec == Init /\ [][Run]_vars /\ WF_vars(Run)

\* What every way to run a block may do.
RunSomehow == /\ ~finished
              /\ finished' = TRUE
              /\ UNCHANGED blk
              /\ \E run \in {Interpreted(blk, s)} :
                 IF run.failed
                     THEN s'.halted /\ s'.it = run.s.it /\ steps' <= run.steps
                     ELSE s' = run.s /\ steps' = run.steps

Atomic == Init /\ [][RunSomehow]_vars
=============================================================================
