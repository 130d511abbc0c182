-------------------------------- MODULE MCGdb --------------------------------
(* A loop of two instructions: a branch that may be taken to itself, and the *)
(* instruction before it.                                                    *)
EXTENDS Gdb

MCFlow(a) == IF a = 1 THEN {2} ELSE {1, 2}
=============================================================================
