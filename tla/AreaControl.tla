----------------------------- MODULE AreaControl -----------------------------
(***************************************************************************)
(* Area_Manage::areaControl: in every tick, of the AGVs in an area those    *)
(* that came first go on, up to the number in the area's TYPE, and the      *)
(* others are paused through rows of task_op_interface that the ACS reads.  *)
(* The order of arrival is kept in the area's INFO and outlives a restart;  *)
(* Area_Running, which AGV has been told what, does not.                    *)
(***************************************************************************)
EXTENDS Integers, Sequences, SequencesExt, FiniteSets

CONSTANTS
    Agv,         \* AGV_ID
    Areas,       \* the IDs of the areas in the order of the map, a sequence
    Limit,       \* of an area: control_num
    Places,      \* the sets of areas that a point of the map can be in
    Buttons,     \* does the operator unlock AGVs?
    MaxRows,     \* bound: a tick begins with no more rows unread of an AGV
    MaxRestarts  \* bound: how often the program ends

Area == Range(Areas)
Outside == {}
Blank == 0       \* the empty string that split leaves behind the last comma

ASSUME AreasAssumption ==
    /\ Agv \subseteq Nat \ {Blank} /\ IsFiniteSet(Agv)
    /\ Areas \in Seq(Area) /\ IsInjective(Areas)
    /\ Limit \in [Area -> Nat]
    /\ Places \subseteq SUBSET Area /\ Outside \in Places
    /\ Buttons \in BOOLEAN /\ MaxRows \in Nat /\ MaxRestarts \in Nat

VARIABLES
    place,        \* the areas an AGV is in
    halted,       \* has the ACS paused it?
    ops,          \* its rows of task_op_interface, oldest first
    info,         \* INFO of an area
    seen,         \* the place of an AGV that AGV_Pos_ shows
    area_running, \* Area_Running: 0 nothing told, 1 to go on, 2 to pause
    at,           \* 0 started, i: about to control Areas[i], Len + 1: at rest
    restarts,
    \* History.
    let,          \* the AGVs that an area has let go on since they came
    freed,        \* the AGVs the operator unlocked while they were paused
    still,        \* has nothing moved between the last two ticks?
    torn          \* the AGVs an area told anew when the program ended in its
                  \* midst, that it has told nothing since

agvs == <<place, halted>>
history == <<let, freed, still, torn>>
vars == <<agvs, ops, info, seen, area_running, at, restarts, history>>

AtRest == Len(Areas) + 1

-----------------------------------------------------------------------------
(* The map that agvsInfoInArea fills goes through its AGVs by their numbers, *)
(* and erase keeps the others in order.                                      *)

Nth(S, i) == CHOOSE n \in S : Cardinality({m \in S : m <= n}) = i

Ascending(S) == [i \in 1..Cardinality(S) |-> Nth(S, i)]

\* Of a list, those in S.
Keep ==
    [S \in SUBSET (Agv \cup {Blank}) |-> [s \in Seq(Agv \cup {Blank}) |->
        LET kept == {i \in DOMAIN s : s[i] \in S}
        IN  [i \in 1..Cardinality(kept) |-> s[Nth(kept, i)]]]]

-----------------------------------------------------------------------------
(* One area.  The list is INFO, and behind it the blank, which is left out   *)
(* of the new INFO but takes a place before the AGVs that are new.           *)

Inside(a) == {v \in Agv : a \in seen[v]}

RunningList(a) == IF info[a] = <<>> THEN <<>> ELSE Append(info[a], Blank)

Exited(a) == Keep[Agv \ Inside(a)][info[a]]

(* Mutant: AGVs that are on the list already are not left out. *)
EnteredAgain(a) == Ascending(Inside(a))

Entered(a) == Ascending(Inside(a) \ Range(info[a]))

(* Mutant: the AGVs that are new go before the others. *)
WaitingNewFirst(a) == Entered(a) \o Keep[Inside(a) \cup {Blank}][RunningList(a)]

Waiting(a) == Keep[Inside(a) \cup {Blank}][RunningList(a)] \o Entered(a)

(* Mutant: the index is compared with <=. *)
GoOnOneMore(a) == {Waiting(a)[i] : i \in (1..Limit[a] + 1) \cap DOMAIN Waiting(a)}

GoOn(a) == {Waiting(a)[i] : i \in (1..Limit[a]) \cap DOMAIN Waiting(a)}

NewInfo(a) == Keep[Agv][Waiting(a)]

\* The AGVs that are told something, in that order, and what they are told.
Told(a) == Exited(a) \o NewInfo(a)

(* Mutant: an AGV that is no longer in the area is only taken off the list. *)
CommandOnExit(a, v) == IF v \in GoOn(a) THEN 1 ELSE IF v \in Range(Exited(a))
                       THEN area_running[v] ELSE 2

Command(a, v) == IF v \in Range(Exited(a)) \cup GoOn(a) THEN 1 ELSE 2

Op == <<"force continue", "force pause">>

(* Mutant: a row only for an AGV that has been told something before. *)
RowsNotAfterStart(a, S) ==
    [v \in Agv |-> IF v \in S /\ area_running[v] \notin {0, Command(a, v)}
                   THEN Append(ops[v], Op[Command(a, v)]) ELSE ops[v]]

\* areaSetAgvContinue and areaSetAgvPause for those in S: a row only if
\* Area_Running changes.
Rows(a, S) ==
    [v \in Agv |-> IF v \in S /\ area_running[v] # Command(a, v)
                   THEN Append(ops[v], Op[Command(a, v)]) ELSE ops[v]]

-----------------------------------------------------------------------------
Init ==
    /\ place = [v \in Agv |-> Outside] /\ seen = [v \in Agv |-> Outside]
    /\ halted = [v \in Agv |-> FALSE]
    /\ ops = [v \in Agv |-> <<>>]
    /\ info = [a \in Area |-> <<>>]
    /\ area_running = [v \in Agv |-> 0]
    /\ at = 0 /\ restarts = 0
    /\ let = [a \in Area |-> {}] /\ freed = {} /\ still = FALSE
    /\ torn = [a \in Area |-> {}]

\* Update_AGV_Data_From_ACS_Event, and areaControl has begun.
BeginTick ==
    /\ at \in {0, AtRest}
    /\ \A v \in Agv : Len(ops[v]) <= MaxRows
    /\ seen' = place /\ at' = 1
    /\ still' = (at = AtRest /\ place = seen)
    /\ UNCHANGED <<agvs, ops, info, area_running, restarts, let, freed, torn>>

ControlArea ==
    /\ at \in 1..Len(Areas)
    /\ LET a == Areas[at] IN
         /\ ops' = Rows(a, Range(Told(a)))
         /\ area_running' = [v \in Agv |-> IF v \in Range(Told(a)) THEN Command(a, v)
                                           ELSE area_running[v]]
         /\ info' = [info EXCEPT ![a] = NewInfo(a)]
         /\ let' = [let EXCEPT ![a] = GoOn(a) \ {Blank}]
         /\ torn' = [torn EXCEPT ![a] = @ \ Range(Told(a))]
         /\ freed' = freed \ {v \in Range(Told(a)) : Command(a, v) # area_running[v]}
    /\ at' = at + 1
    /\ UNCHANGED <<agvs, seen, restarts, still>>

\* The AGVs of S were told, and INFO is not written.
CutOff(a, S) ==
    /\ ops' = Rows(a, S)
    /\ let' = [let EXCEPT ![a] = (@ \ S) \cup (GoOn(a) \cap S)]
    /\ torn' = [torn EXCEPT ![a] = @ \cup (S \ let[a])]

\* The program ends and starts again: between two areas, or with rows written
\* for some of the AGVs of an area and its INFO not.
Restart ==
    /\ restarts < MaxRestarts
    /\ \/ UNCHANGED <<ops, let, torn>>
       \/ /\ at \in 1..Len(Areas)
          /\ LET a == Areas[at] IN \E k \in 1..Len(Told(a)) :
               CutOff(a, Range(SubSeq(Told(a), 1, k)))
    /\ restarts' = restarts + 1 /\ at' = 0
    /\ area_running' = [v \in Agv |-> 0] /\ freed' = {}
    /\ UNCHANGED <<agvs, info, seen, still>>

\* The operator unlocks an AGV that stands paused: a row, and Area_Running
\* stays as it is.
UnlockAGV(v) ==
    /\ Buttons /\ halted[v] /\ ops[v] = <<>>
    /\ ops' = [ops EXCEPT ![v] = Append(@, "force continue")]
    /\ freed' = freed \cup {v}
    /\ UNCHANGED <<agvs, info, seen, area_running, at, restarts, let, still, torn>>

\* The ACS takes the oldest row of an AGV.
ReadRow(v) ==
    /\ ops[v] # <<>>
    /\ halted' = [halted EXCEPT ![v] = Head(ops[v]) = "force pause"]
    /\ ops' = [ops EXCEPT ![v] = Tail(@)]
    /\ UNCHANGED <<place, info, seen, area_running, at, restarts, history>>

\* An AGV that is not paused drives on; some tick has seen where it was, since
\* the timer is short against the way through an area.
Drive(v, p) ==
    /\ ~halted[v] /\ place[v] = seen[v] /\ p # place[v]
    /\ place' = [place EXCEPT ![v] = p]
    /\ UNCHANGED <<halted, ops, info, seen, area_running, at, restarts, history>>

Next ==
    \/ BeginTick \/ ControlArea \/ Restart
    \/ \E v \in Agv : UnlockAGV(v) \/ ReadRow(v)
    \/ \E v \in Agv, p \in Places : Drive(v, p)

Spec == Init /\ [][Next]_vars

\* The timer ticks, the ACS reads, and an AGV that is not paused leaves the
\* areas.
Fairness ==
    /\ WF_vars(BeginTick) /\ WF_vars(ControlArea)
    /\ \A v \in Agv :
         /\ WF_vars(ReadRow(v))
         /\ WF_vars(Drive(v, Outside))

FairSpec == Spec /\ Fairness

-----------------------------------------------------------------------------
(* What an AGV does once the ACS has read its rows. *)
ToldToPause(v) == IF ops[v] = <<>> THEN halted[v] ELSE Last(ops[v]) = "force pause"

(* Everything is of its kind, and no AGV is twice in the list of an area. *)
AreaTypeOK ==
    /\ place \in [Agv -> Places] /\ seen \in [Agv -> Places]
    /\ halted \in [Agv -> BOOLEAN]
    /\ ops \in [Agv -> Seq(Range(Op))]
    /\ info \in [Area -> Seq(Agv)] /\ \A a \in Area : IsInjective(info[a])
    /\ area_running \in [Agv -> 0..2]
    /\ at \in 0..AtRest /\ restarts \in 0..MaxRestarts
    /\ let \in [Area -> SUBSET Agv] /\ freed \subseteq Agv
    /\ still \in BOOLEAN /\ torn \in [Area -> SUBSET Agv]

(* When two ticks have seen the same and the program has not ended between   *)
(* them, no more AGVs of an area are told to go on than its number allows,   *)
(* those aside that the operator let go (areaControl, "所有区域内符合数量要求的").  *)
(* One tick is not enough: an AGV that leaves a later area for an earlier    *)
(* one is paused by the one and let go by the other.                         *)
LimitKept ==
    at = AtRest /\ still =>
        \A a \in Area :
            Cardinality({v \in Inside(a) : ~ToldToPause(v) /\ v \notin freed}) <= Limit[a]

(* Has an area told the AGV something new, and the program ended before INFO *)
(* was written?                                                              *)
Torn(v) == \E a \in Area : v \in torn[a]

(* An AGV that a tick has seen outside of every area is not left paused, be  *)
(* its pause read late or by a program that has restarted since; only a      *)
(* program that ends between its row and INFO can forget it.                 *)
NoneForgotten ==
    at = AtRest =>
        \A v \in Agv : seen[v] = Outside /\ ~Torn(v) => ~ToldToPause(v)

(* An AGV that an area has let go on is not paused by it, or left off the    *)
(* list, before it has been seen outside, whoever comes, also after restarts;*)
(* only an AGV let go by an area whose INFO was not written any more may     *)
(* lose its turn.                                                            *)
FirstComeFirstServed ==
    [][\A a \in Area, v \in Agv :
         /\ v \in let[a] \ torn[a] /\ a \in seen[v]
         /\ let'[a] # let[a]
         => v \in let'[a]]_vars

(* An AGV that the ACS has paused goes on in the end, unless the program has *)
(* ended between its row and INFO.                                           *)
WaitEnds == \A v \in Agv : []<>(~halted[v] \/ Torn(v))
=============================================================================
