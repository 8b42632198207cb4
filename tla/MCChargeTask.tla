---------------------------- MODULE MCChargeTask ----------------------------
(* Two AGVs, one pile, three tasks in a run, in any order. *)
EXTENDS ChargeTask, TLC

CONSTANTS a1, a2, p1

MCAgvs == {a1, a2}
MCPiles == {p1}
Symmetry == Permutations(MCAgvs)
=============================================================================
