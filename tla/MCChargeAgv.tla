---------------------------- MODULE MCChargeAgv -----------------------------
(* Two AGVs and two piles at most; a run's cfg says which of them it takes. *)
EXTENDS ChargeAgv, TLC

CONSTANTS a1, a2, p1, p2

MCAgvs == {a1, a2}
OneAgv == {a1}
MCPiles == {p1, p2}
OnePile == {p1}
MCSymmetry == Permutations(MCAgvs) \cup Permutations(MCPiles)

Cancels == {"cancel"}
Unlocks == {"unlock"}
CancelsAndUnlocks == {"cancel", "unlock"}

AllLevels == {"LOW", "LIMIT", "OK"}
AboveLow == {"OK"}
=============================================================================
