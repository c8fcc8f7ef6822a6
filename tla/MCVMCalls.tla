------------------------------- MODULE MCVMCalls -------------------------------
(* Small instances of VMCalls for TLC: two instances, one of them the      *)
(* target of a with-block, or both.                                        *)
EXTENDS VMCalls, TLC

CONSTANTS a, b

Two == {a, b}
Lists == {<<b, a>>}
===============================================================================
