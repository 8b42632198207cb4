------------------------------ MODULE ChargeAgv ------------------------------
(***************************************************************************)
(* Why the main thread starts and stops charging tasks: the flags of an    *)
(* AGV (AGV_Manage.cpp), the battery monitors (Battery_Manage.cpp), the    *)
(* charging task chain (Task_Chain.cpp, Task_Chain_Manage.cpp), the orders *)
(* that call an AGV away (Event_Handler.cpp) and the operator's two        *)
(* buttons (TaskMonitor.cpp, AGVMonitor.cpp).  It composes these with the  *)
(* threads of ChargeTask.tla.                                              *)
(*                                                                         *)
(* The main thread runs its handlers one after another on a timer and the  *)
(* operator's buttons between two ticks; here any handler may come next.   *)
(* An AGV carries an order somewhere else and ends it at any place that no *)
(* other AGV occupies.                                                     *)
(***************************************************************************)
EXTENDS ChargeTask

CONSTANTS
  Away,      \* the AGV is not at a pile
  Operator,  \* what the operator does: a subset of {"cancel", "unlock"}
  Levels     \* bound: what the batteries report

ASSUME AwayAssumption == Away \notin Piles \cup {NoPile}
ASSUME OperatorAssumption == Operator \subseteq {"cancel", "unlock"}

(* Below battery_low_range_, at it, and above it. *)
BatteryLevels == {"LOW", "LIMIT", "OK"}
ASSUME LevelsAssumption == Levels \subseteq BatteryLevels

VARIABLES
  charging,   \* Is_Charging_ of each AGV
  locked,     \* Resource_Status_ is LOCKED
  chain,      \* the status of the AGV's charging chain, if it has one
  ordered,    \* an order for the AGV waits in Executing_List_
  carrying,   \* the AGV has a carry chain
  place,      \* the pile at which the AGV stands, or Away
  level       \* Battery_Level_ of each AGV against battery_low_range_

agvVars == <<charging, locked, chain, ordered, carrying, place, level>>
allVars == <<vars, agvVars>>

ChargingValues == {"STOP", "PENDING", "CHARGING", "PAUSE"}
ChainValues == {"none", "BEGIN", "IS_CHARGING", "OVER", "ABORT"}

(* A pile has room for one AGV. *)
PlacesApart == \A a, b \in Agvs : a # b /\ place[a] # Away => place[a] # place[b]

(* The program starts with nothing connected, wherever the AGVs stand. *)
AgvInit ==
  /\ Init
  /\ charging = [a \in Agvs |-> "STOP"]
  /\ locked = [a \in Agvs |-> FALSE]
  /\ chain = [a \in Agvs |-> "none"]
  /\ ordered = [a \in Agvs |-> FALSE]
  /\ carrying = [a \in Agvs |-> FALSE]
  /\ place \in [Agvs -> Piles \cup {Away}]
  /\ PlacesApart
  /\ level \in [Agvs -> Levels]
-----------------------------------------------------------------------------
(* Battery_Manage *)

(* The ACS reports the battery; it may fall and rise as it likes. *)
Battery(a) ==
  /\ main = Idle
  /\ \E l \in Levels : level' = [level EXCEPT ![a] = l]
  /\ UNCHANGED <<vars, charging, locked, chain, ordered, carrying, place>>

(* Mutant: Is_Charging_ is not looked at. *)
StartChargingAgain(a) ==
  /\ ~locked[a]
  /\ place[a] # Away
  /\ InitBattery(a, place[a])
  /\ charging' = [charging EXCEPT ![a] = "PENDING"]
  /\ locked' = [locked EXCEPT ![a] = level[a] # "OK"]
  /\ UNCHANGED <<chain, ordered, carrying, place, level>>

(***************************************************************************)
(* A free AGV at a pile that is not charging is given a charging task; a   *)
(* low battery locks it, a merely not full one does not.                   *)
(***************************************************************************)
StartCharging(a) ==
  /\ ~locked[a]
  /\ charging[a] = "STOP"
  /\ place[a] # Away
  /\ InitBattery(a, place[a])
  /\ charging' = [charging EXCEPT ![a] = "PENDING"]
  /\ locked' = [locked EXCEPT ![a] = level[a] # "OK"]
  /\ UNCHANGED <<chain, ordered, carrying, place, level>>

(* The rest of createChargingTaskChain. *)
BeginChain ==
  /\ AddTask
  /\ charging' = [charging EXCEPT ![main.agv] = "CHARGING"]
  /\ chain' = [chain EXCEPT ![main.agv] = "BEGIN"]
  /\ UNCHANGED <<locked, ordered, carrying, place, level>>

(***************************************************************************)
(* Charging_AGV_Monitor gives an AGV back while it charges on, at a level  *)
(* well above the low range.  An order has paused the charging by then: it *)
(* is handled earlier in the tick.                                         *)
(***************************************************************************)
UnlockCharged(a) ==
  /\ main = Idle
  /\ locked[a]
  /\ charging[a] = "CHARGING"
  /\ level[a] = "OK"
  /\ ~ordered[a]
  /\ locked' = [locked EXCEPT ![a] = FALSE]
  /\ UNCHANGED <<vars, charging, chain, ordered, carrying, place, level>>
-----------------------------------------------------------------------------
(* Orders *)

(* Task_Fetcher_Event locks a free AGV for the order it has read, unless Check_Low_Power. *)
FetchOrder(a) ==
  /\ main = Idle
  /\ ~locked[a]
  /\ level[a] # "LOW"
  /\ locked' = [locked EXCEPT ![a] = TRUE]
  /\ ordered' = [ordered EXCEPT ![a] = TRUE]
  /\ UNCHANGED <<vars, charging, chain, carrying, place, level>>

(* stopCharging: a chain not yet dispatched is over, and the task is asked to stop. *)
StopCharging(a) ==
  /\ main = Idle
  /\ IF IsOver(a) THEN UNCHANGED vars ELSE FindTask(a)

(***************************************************************************)
(* createOutStorageTaskChain, the AGV being charged: charging is stopped   *)
(* first if the battery is above the low range, else the order waits.      *)
(***************************************************************************)
PauseCharging(a) ==
  /\ ordered[a]
  /\ charging[a] = "CHARGING" /\ level[a] = "OK"
  /\ StopCharging(a)
  /\ charging' = [charging EXCEPT ![a] = "PAUSE"]
  /\ chain' = [chain EXCEPT ![a] = IF @ = "BEGIN" THEN "OVER" ELSE @]
  /\ UNCHANGED <<locked, ordered, carrying, place, level>>

KeepCharging(a) ==
  /\ main = Idle
  /\ ordered[a]
  /\ charging[a] = "CHARGING" /\ level[a] # "OK"
  /\ locked' = [locked EXCEPT ![a] = TRUE]
  /\ UNCHANGED <<vars, charging, chain, ordered, carrying, place, level>>

(* Mutant: find_charge_task_is_over is not asked. *)
BeginCarryEarly(a) ==
  /\ main = Idle
  /\ ordered[a]
  /\ charging[a] = "STOP"
  /\ ordered' = [ordered EXCEPT ![a] = FALSE]
  /\ carrying' = [carrying EXCEPT ![a] = TRUE]
  /\ locked' = [locked EXCEPT ![a] = TRUE]
  /\ UNCHANGED <<vars, charging, chain, place, level>>

(* createOutStorageTaskChain, charging being over: the order has its chain. *)
BeginCarry(a) ==
  /\ main = Idle
  /\ ordered[a]
  /\ IsOver(a)
  /\ charging[a] = "STOP"
  /\ ordered' = [ordered EXCEPT ![a] = FALSE]
  /\ carrying' = [carrying EXCEPT ![a] = TRUE]
  /\ locked' = [locked EXCEPT ![a] = TRUE]
  /\ UNCHANGED <<vars, charging, chain, place, level>>

(* The AGV drives off once its task is dispatched... *)
Leave(a) ==
  /\ carrying[a]
  /\ place[a] # Away
  /\ place' = [place EXCEPT ![a] = Away]
  /\ UNCHANGED <<vars, charging, locked, chain, ordered, carrying, level>>

(* ...and is free where the order ends. *)
EndCarry(a) ==
  /\ main = Idle
  /\ carrying[a]
  /\ place[a] = Away
  /\ carrying' = [carrying EXCEPT ![a] = FALSE]
  /\ locked' = [locked EXCEPT ![a] = FALSE]
  /\ \E p \in {Away} \cup {q \in Piles : \A b \in Agvs : place[b] # q} :
       place' = [place EXCEPT ![a] = p]
  /\ UNCHANGED <<vars, charging, chain, ordered, level>>
-----------------------------------------------------------------------------
(* Task_Status_Check_Event on the charging chain of an AGV. *)

ChainTo(a, from, to) ==
  /\ main = Idle
  /\ chain[a] = from
  /\ chain' = [chain EXCEPT ![a] = to]
  /\ UNCHANGED <<vars, locked, ordered, carrying, place, level>>

CheckBegin(a) ==
  /\ ChainTo(a, "BEGIN", "IS_CHARGING")
  /\ UNCHANGED charging

CheckCharging(a) ==
  /\ IsOver(a)
  /\ ChainTo(a, "IS_CHARGING", "OVER")
  /\ UNCHANGED charging

(* Mutant: Is_Charging_ keeps its value. *)
CheckOverKeeps(a) ==
  /\ ChainTo(a, "OVER", "none")
  /\ UNCHANGED charging

CheckOver(a) ==
  /\ ChainTo(a, "OVER", "none")
  /\ charging' = [charging EXCEPT ![a] = "STOP"]

(* The AGV keeps its lock and Is_Charging_ its value. *)
CheckAbort(a) ==
  /\ ChainTo(a, "ABORT", "none")
  /\ UNCHANGED charging

Check(a) == CheckBegin(a) \/ CheckCharging(a) \/ CheckOver(a) \/ CheckAbort(a)
-----------------------------------------------------------------------------
(* The operator. *)

(* cancelTaskChain on a charging chain. *)
Cancel(a) ==
  /\ "cancel" \in Operator
  /\ chain[a] \in {"BEGIN", "IS_CHARGING", "OVER"}
  /\ StopCharging(a)
  /\ chain' = [chain EXCEPT ![a] = "ABORT"]
  /\ UNCHANGED <<charging, locked, ordered, carrying, place, level>>

(* Unlock_AGV.  The operator heeds the prompt: the AGV "has no task assigned". *)
Unlock(a) ==
  /\ "unlock" \in Operator
  /\ main = Idle
  /\ chain[a] = "none" /\ ~ordered[a] /\ ~carrying[a]
  /\ locked' = [locked EXCEPT ![a] = FALSE]
  /\ charging' = [charging EXCEPT ![a] = "STOP"]
  /\ UNCHANGED <<vars, chain, ordered, carrying, place, level>>
-----------------------------------------------------------------------------
Threads ==
  /\ \/ WriteStop
     \/ \E t \in Tasks : TaskStep(t) \/ Monitor(t)
     \/ \E p \in Piles : PileStep(p) \/ Reconnect(p)
  /\ UNCHANGED agvVars

MainNext(a) ==
  \/ Battery(a) \/ StartCharging(a) \/ UnlockCharged(a)
  \/ FetchOrder(a) \/ PauseCharging(a) \/ KeepCharging(a) \/ BeginCarry(a)
  \/ Leave(a) \/ EndCarry(a)
  \/ Check(a) \/ Cancel(a) \/ Unlock(a)

AgvNext == Threads \/ BeginChain \/ \E a \in Agvs : MainNext(a)

AgvSpec == AgvInit /\ [][AgvNext]_allVars

(***************************************************************************)
(* The timer keeps the main thread's handlers running and every thread of  *)
(* a task runs: they are never blocked for good, since a task waits for    *)
(* nothing but Sleep and the queue's mutex.  PauseCharging is one branch   *)
(* of a handler, and happens if the level stays above the low range; what  *)
(* the battery reports, the operator, new orders and the piles are under   *)
(* no fairness.                                                            *)
(***************************************************************************)
Fairness ==
  /\ WF_allVars(WriteStop /\ UNCHANGED agvVars)
  /\ WF_allVars(BeginChain)
  /\ \A a \in Agvs : WF_allVars(PauseCharging(a)) /\ WF_allVars(BeginCarry(a))
  /\ \A a \in Agvs : WF_allVars(CheckCharging(a)) /\ WF_allVars(CheckOver(a))
  /\ \A t \in Tasks : WF_allVars(TaskStep(t) /\ UNCHANGED agvVars)

FairSpec == AgvSpec /\ Fairness
-----------------------------------------------------------------------------
(* Every variable has its type. *)
AgvTypeOK ==
  /\ TypeOK
  /\ charging \in [Agvs -> ChargingValues]
  /\ locked \in [Agvs -> BOOLEAN]
  /\ chain \in [Agvs -> ChainValues]
  /\ ordered \in [Agvs -> BOOLEAN]
  /\ carrying \in [Agvs -> BOOLEAN]
  /\ place \in [Agvs -> Piles \cup {Away}]
  /\ level \in [Agvs -> Levels]

(***************************************************************************)
(* No two charging tasks run for one AGV or at one pile.  The tasks of an  *)
(* AGV share one agv_battery, whose table entry the first of them to end   *)
(* clears (agv_battery.cpp:510-521), and those of a pile one arm.  Nothing *)
(* in the code looks for a running task before a new one is created: the   *)
(* flags tested by the battery monitors (Battery_Manage.cpp:28, 50) have   *)
(* to say so, and they are set and reset in five other places.             *)
(***************************************************************************)
Running == {t \in Tasks : state[t] \in Working}
TasksApart ==
  \A t, u \in Running : t # u => agv[t] # agv[u] /\ pile[t] # pile[u]

(***************************************************************************)
(* An AGV drives off a pile only when no task of it runs and its battery   *)
(* is disconnected (Task_Chain.cpp:212-217, charge_task.cpp:501-518).      *)
(***************************************************************************)
DepartDisconnected ==
  [][\A a \in Agvs : place[a] # Away /\ place'[a] = Away =>
       /\ \A t \in Running : agv[t] # a
       /\ ~DbFails => ~contactor[a]]_allVars

(***************************************************************************)
(* It drives off with the arm of the pile back, if the pile answers and    *)
(* keeps up: three ARM_IN and six seconds are all the code does for it     *)
(* (charge_task.cpp:466-499).                                              *)
(***************************************************************************)
DepartArmIn ==
  [][\A a \in Agvs :
       /\ place[a] # Away /\ place'[a] = Away
       /\ Prompt /\ ~LinkFails
       => arm[place[a]] = "in"]_allVars

(***************************************************************************)
(* A pile is told to deliver current only with its arm at the AGV, as long *)
(* as its link holds: START_CHARGE is posted by one task, after that       *)
(* task's ARM_OUT and before its ARM_IN, whenever it is stopped            *)
(* (charge_task.cpp:286-304, 322-365).                                     *)
(***************************************************************************)
CurrentAtArm ==
  [][\A p \in Piles :
       /\ ~LinkFails
       /\ commands[p] # << >> /\ commands'[p] = Tail(commands[p])
       /\ Head(commands[p]) = "START_CHARGE"
       => arm[p] = "out"]_allVars

(***************************************************************************)
(* An order for an AGV gets its carry chain, though the AGV may be at any  *)
(* point of a charge and its pile may be down for good, unless it is found *)
(* charging at or below the low range again and again                      *)
(* (Task_Chain.cpp:195-237).  At a pile that delivers nothing it may be.   *)
(***************************************************************************)
OrderServed ==
  \A a \in Agvs :
    ordered[a] ~> carrying[a] \/ (charging[a] = "CHARGING" /\ level[a] # "OK")
=============================================================================
