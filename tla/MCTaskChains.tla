---------------------------- MODULE MCTaskChains ----------------------------
(* Two AGVs; a run's cfg says how many orders and stations there are. *)
EXTENDS TaskChains, TLC

CONSTANTS a1, a2, o1, o2, s1, s2, s3, P1, P2, P3

MCAgvs == {a1, a2}
OneOrder == {o1}
MCOrders == {o1, o2}
MCStorages == {s1, s2, s3}
OneStart == [o \in Orders |-> s1]
MCTarget == [o \in Orders |-> IF o = o1 THEN s2 ELSE s3]

NoParks == {}
MCParks == {P1, P2, P3}
MCReleased == {P1, P2}

NoButtons == {}
Cancels == {"cancel"}

AllButtons == {"cancel", "unlock", "redo"}
MCSymmetry == Permutations(MCAgvs)

(* Both orders come from s1: they may be swapped together with their targets. *)
SwapOrders == (o1 :> o2) @@ (o2 :> o1) @@ (s2 :> s3) @@ (s3 :> s2)
OrderSymmetry == MCSymmetry \cup {SwapOrders}
=============================================================================
