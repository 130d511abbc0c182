----------------------------- MODULE MCJitCache -----------------------------
(* Values of the constants of JitCache that a configuration cannot write. *)
EXTENDS JitCache

\* Two instructions that keep within what codegen_emit sets aside, and one
\* that does not: PUSH of nine registers takes over 500 bytes of 160.
NativeCodes == {[len |-> 2, ok |-> TRUE, bytes |-> 3], [len |-> 1, ok |-> TRUE, bytes |-> 4]}
=============================================================================
