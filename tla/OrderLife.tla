----------------------------- MODULE OrderLife -----------------------------
(***************************************************************************)
(* What the WCS promises about an order: each time it is asked for, an AGV *)
(* that carries nothing else takes it once, and what is reported follows   *)
(* what is done.  It is on its way to the target only after the goods were *)
(* got and DONE only after they were put; otherwise it is given up and     *)
(* reported ERR.  Either way it is taken anew only when it is asked for    *)
(* again.  Asked for again while an AGV has it, it is REPEATED: more AGVs  *)
(* may take it, and nothing is told of it until the last has ended.        *)
(* TaskChains implements this module.                                      *)
(***************************************************************************)
EXTENDS FiniteSets

CONSTANTS Agvs, Orders

VARIABLES
  stage,     \* how far an order is
  carriers,  \* the AGVs that have it, one at most unless it is REPEATED
  carried,   \* what was really done since it was taken
  wanted     \* the orders asked for and not taken yet

vars == <<stage, carriers, carried, wanted>>

UnderWay == {"FETCHING", "BRINGING", "BROUGHT"}

Init ==
  /\ stage = [o \in Orders |-> "none"]
  /\ carriers = [o \in Orders |-> {}]
  /\ carried = {}
  /\ wanted = Orders

Ask(o) ==
  /\ stage[o] # "none"
  /\ wanted' = wanted \cup {o}
  /\ stage' = IF carriers[o] = {} THEN stage ELSE [stage EXCEPT ![o] = "REPEATED"]
  /\ UNCHANGED <<carriers, carried>>

(* Nobody has it, or it was asked for again. *)
Take(a, o) ==
  /\ o \in wanted
  /\ carriers[o] = {} \/ stage[o] = "REPEATED"
  /\ \A q \in Orders : a \notin carriers[q]
  /\ wanted' = wanted \ {o}
  /\ stage' = IF carriers[o] = {} THEN [stage EXCEPT ![o] = "NEW"] ELSE stage
  /\ carriers' = [carriers EXCEPT ![o] = @ \cup {a}]
  /\ carried' = IF carriers[o] = {} THEN {c \in carried : c[1] # o} ELSE carried

(* From one stage to the next, with the AGV that has the order. *)
Advance(o, from, to) ==
  /\ stage[o] = from
  /\ stage' = [stage EXCEPT ![o] = to]
  /\ UNCHANGED <<carriers, carried, wanted>>

Begin(o) == Advance(o, "NEW", "FETCHING")
Got(o) == <<o, "GET">> \in carried /\ Advance(o, "FETCHING", "BRINGING")
Brought(o) == <<o, "PUT">> \in carried /\ Advance(o, "BRINGING", "BROUGHT")

(* One button may end several chains. *)
GiveUp(S) ==
  /\ \A o \in S : stage[o] \in UnderWay
  /\ stage' = [o \in Orders |-> IF o \in S THEN "GIVEN UP" ELSE stage[o]]
  /\ UNCHANGED <<carriers, carried, wanted>>

End(o, from, to) ==
  /\ stage[o] = from
  /\ stage' = [stage EXCEPT ![o] = to]
  /\ carriers' = [carriers EXCEPT ![o] = {}]
  /\ UNCHANGED <<carried, wanted>>

Done(o) == End(o, "BROUGHT", "DONE")
Fail(o) == End(o, "GIVEN UP", "ERR")

(* What becomes of a REPEATED order: DONE only if somebody put the goods. *)
Result(o, to) == to = "ERR" \/ (to = "DONE" /\ <<o, "PUT">> \in carried)

(* An AGV ends with a REPEATED order, the last one for all of them. *)
Leave(a, o, to) ==
  /\ stage[o] = "REPEATED"
  /\ a \in carriers[o]
  /\ Result(o, to)
  /\ stage' = IF carriers[o] = {a} THEN [stage EXCEPT ![o] = to] ELSE stage
  /\ carriers' = [carriers EXCEPT ![o] = @ \ {a}]
  /\ UNCHANGED <<carried, wanted>>

(* The program ends: nobody knows what becomes of an order that an AGV has. *)
Forget(S) ==
  /\ \A o \in S : stage[o] = "REPEATED" /\ Result(o, "DONE")
  /\ stage' = [o \in Orders |->
                 IF carriers[o] = {} THEN stage[o] ELSE IF o \in S THEN "DONE" ELSE "ERR"]
  /\ carriers' = [o \in Orders |-> {}]
  /\ UNCHANGED <<carried, wanted>>

(* The ACS gets or puts goods, for whomever it was told to. *)
Carry(o, goal) ==
  /\ carried' = carried \cup {<<o, goal>>}
  /\ UNCHANGED <<stage, carriers, wanted>>

Next ==
  \/ \E S \in SUBSET Orders : GiveUp(S) \/ Forget(S)
  \/ \E o \in Orders : Ask(o) \/ Begin(o) \/ Got(o) \/ Brought(o) \/ Done(o) \/ Fail(o)
  \/ \E a \in Agvs, o \in Orders : Take(a, o)
  \/ \E a \in Agvs, o \in Orders, to \in {"DONE", "ERR"} : Leave(a, o, to)
  \/ \E o \in Orders, goal \in {"GET", "PUT"} : Carry(o, goal)

Spec == Init /\ [][Next]_vars
=============================================================================
