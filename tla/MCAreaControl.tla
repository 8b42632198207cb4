---------------------------- MODULE MCAreaControl ----------------------------
(* AreaControl with two areas that do not overlap, both for one AGV. *)
EXTENDS AreaControl

MCAreas == <<"A", "B">>
MCLimit == [a \in Area |-> 1]
MCPlaces == {Outside, {"A"}, {"B"}}
=============================================================================
