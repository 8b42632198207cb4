----------------------------- MODULE ChargeTask -----------------------------
(***************************************************************************)
(* The charging of AGVs at charging piles (src/Lib/Core/charge_task.cpp,   *)
(* charge_station.cpp, agv_battery.cpp).                                   *)
(*                                                                         *)
(* A charging task is a thread that runs a state machine: it closes the    *)
(* contactor of the AGV's battery through the database, posts commands to  *)
(* the queue of a pile, waits by counting, and opens the contactor again.  *)
(* A pile is served by a thread that takes the commands one by one and     *)
(* sends them over a TCP link that may fail.  The main thread creates      *)
(* tasks, keeps them in a registry, and asks them to stop.                 *)
(*                                                                         *)
(* Nothing restricts here when the main thread creates a task or stops     *)
(* one: ChargeAgv.tla adds its reasons.  The charging current is abstract: *)
(* a START_CHARGE carries whatever current was last set.                   *)
(***************************************************************************)
EXTENDS Integers, Sequences, FiniteSets

CONSTANTS
  Agvs, NoAgv,     \* AGVs; the NULL entry of the battery table
  Piles, NoPile,   \* charging piles; a NULL entry of p_cs
  MaxTasks,        \* bound: charging tasks created in a run
  Capacity,        \* QUEUE_MSG_SIZE
  ArmSends,        \* times an arm command is posted
  ArmOutWait,      \* turns of the pile waited after ARM_OUT
  ArmInWait,       \* turns of the pile waited after ARM_IN
  MaxAdjust,       \* bound: changes of the current by one task
  Prompt,          \* a pile takes a turn while a task counts one
  LinkFails,       \* the link of a pile may fail
  DbFails          \* an insertTask may fail

ASSUME NullAssumption == NoAgv \notin Agvs /\ NoPile \notin Piles
ASSUME FiniteAssumption == IsFiniteSet(Agvs)
ASSUME BoundsAssumption ==
  /\ MaxTasks \in Nat \ {0}
  /\ Capacity \in Nat \ {0}
  /\ ArmSends \in Nat
  /\ ArmOutWait \in Nat
  /\ ArmInWait \in Nat
  /\ MaxAdjust \in Nat
ASSUME SwitchAssumption == {Prompt, LinkFails, DbFails} \subseteq BOOLEAN

(* Tasks are numbered in the order of their creation. *)
Tasks == 1 .. MaxTasks

VARIABLES
  state,       \* state_ of each task and what became of its thread
  agv, pile,   \* p_battery_'s AGV and p_charge_ of each task
  index,       \* the counter of run_entry; in TASK_CHARGE_STATE the changes made
  stops,       \* STOP_CHARGE_TASK messages in the task's own queue
  registered,  \* g_charge_task
  main,        \* what the main thread is in the middle of
  battery,     \* p_battery[0 .. battery_index - 1]: the AGV of each entry
  contactor,   \* the ACS was last told to close the contactor of the AGV
  commands,    \* the queue of each pile
  link,        \* the TCP link of each pile's thread
  arm,         \* the arm of each pile
  counted      \* the tasks that have counted since their pile's last turn

taskVars == <<state, agv, pile, index, stops>>
pileVars == <<commands, link, arm>>
vars == <<taskVars, registered, main, battery, contactor, pileVars, counted>>

Working ==
  {"TASK_CHARGE_START", "TASK_ARM_OUT_STATE", "TASK_WAIT_ARM_OUT_STATE",
   "TASK_CHARGE_CURRENT", "TASK_CHARGE_STATE", "TASK_ARM_IN_STATE",
   "TASK_WAIT_ARM_IN_STATE", "TASK_CHARGE_STOP", "TASK_OVER"}

(* NULL_ARG: created with a NULL pointer.  STOPPED: stop_ is set. *)
States ==
  Working \cup {"none", "NULL_ARG", "RETURNED", "STOPPED", "UNLISTED", "DELETED"}

Commands == {"ARM_OUT", "ARM_IN", "START_CHARGE"}

Idle == [op |-> "idle"]
MainStates ==
  [op : {"idle"}]
    \cup [op : {"create"}, agv : Agvs, pile : Piles \cup {NoPile}, slot : Nat \ {0}]
    \cup [op : {"stop"}, task : Tasks]

Init ==
  /\ state = [t \in Tasks |-> "none"]
  /\ agv = [t \in Tasks |-> NoAgv]
  /\ pile = [t \in Tasks |-> NoPile]
  /\ index = [t \in Tasks |-> 0]
  /\ stops = [t \in Tasks |-> 0]
  /\ registered = {}
  /\ main = Idle
  /\ battery = << >>
  /\ contactor = [a \in Agvs |-> FALSE]
  /\ commands = [p \in Piles |-> << >>]
  /\ link \in [Piles -> IF LinkFails THEN {"up", "down", "dead"} ELSE {"up"}]
  /\ arm = [p \in Piles |-> "in"]
  /\ counted = {}
-----------------------------------------------------------------------------
(* The main thread.                                                        *)

(* find_charge_task: the oldest entry of the AGV. *)
Entries(a) == {t \in registered : agv[t] = a}
Oldest(S) == CHOOSE t \in S : \A u \in S : t <= u

(* find_charge_task_is_over *)
IsOver(a) == Entries(a) = {}

Slots(a) == {i \in DOMAIN battery : battery[i] = a}

(* Mutant: a new entry is numbered from 0. *)
SlotOfFromZero(a) ==
  LET free == Slots(NoAgv)
  IN  IF Slots(a) # {} THEN Oldest(Slots(a))
      ELSE IF free # {} THEN Oldest(free)
      ELSE Len(battery)

(* init_sys_battery: the AGV's entry, else a free one, else a new one. *)
SlotOf(a) ==
  LET free == Slots(NoAgv)
  IN  IF Slots(a) # {} THEN Oldest(Slots(a))
      ELSE IF free # {} THEN Oldest(free)
      ELSE Len(battery) + 1
WithSlot(a) ==
  [i \in 1 .. (IF SlotOf(a) > Len(battery) THEN SlotOf(a) ELSE Len(battery)) |->
      IF i = SlotOf(a) THEN a ELSE battery[i]]

(* createChargingTaskChain until it has the battery's position... *)
InitBattery(a, p) ==
  /\ main = Idle
  /\ state[MaxTasks] = "none"
  /\ battery' = WithSlot(a)
  /\ main' = [op |-> "create", agv |-> a, pile |-> p, slot |-> SlotOf(a)]
  /\ UNCHANGED <<taskVars, registered, contactor, pileVars, counted>>

(* ...and from there on: the entry is read again, another thread may have cleared it. *)
AddTask ==
  /\ main.op = "create"
  /\ LET t == Oldest({u \in Tasks : state[u] = "none"})
         null == battery[main.slot] = NoAgv \/ main.pile = NoPile
     IN  /\ state' = [state EXCEPT ![t] = IF null THEN "NULL_ARG" ELSE "TASK_CHARGE_START"]
         /\ agv' = [agv EXCEPT ![t] = main.agv]
         /\ pile' = [pile EXCEPT ![t] = main.pile]
         /\ registered' = registered \cup {t}
  /\ main' = Idle
  /\ UNCHANGED <<index, stops, battery, contactor, pileVars, counted>>

(* AGV_Manage::stopCharging finds the task... *)
FindTask(a) ==
  /\ main = Idle
  /\ ~IsOver(a)
  /\ main' = [op |-> "stop", task |-> Oldest(Entries(a))]
  /\ UNCHANGED <<taskVars, registered, battery, contactor, pileVars, counted>>

(* Mutant: the queue's limit is forgotten. *)
WriteStopUnbounded ==
  /\ main.op = "stop"
  /\ stops' = IF state[main.task] = "DELETED" THEN stops
              ELSE [stops EXCEPT ![main.task] = @ + 1]
  /\ main' = Idle
  /\ UNCHANGED <<state, agv, pile, index, registered, battery, contactor, pileVars, counted>>

(* ...and writes to its queue.  The task may be gone by then; what is written *)
(* to a freed queue reaches nobody.                                           *)
WriteStop ==
  /\ main.op = "stop"
  /\ stops' = IF state[main.task] = "DELETED" \/ stops[main.task] = Capacity
              THEN stops
              ELSE [stops EXCEPT ![main.task] = @ + 1]
  /\ main' = Idle
  /\ UNCHANGED <<state, agv, pile, index, registered, battery, contactor, pileVars, counted>>
-----------------------------------------------------------------------------
(* The thread of a charging task.                                          *)

(* Mutant: a stop message ends the task where it is. *)
CurrentStopsDirectly(t) == IF stops[t] > 0 THEN "TASK_OVER" ELSE state[t]

(* A stop message sends the state machine to TASK_ARM_IN_STATE, wherever it is. *)
Current(t) == IF stops[t] > 0 THEN "TASK_ARM_IN_STATE" ELSE state[t]
(* Mutant: the counter is not reset by a stop message. *)
IndexKept(t) == index[t]

Index(t) == IF stops[t] > 0 THEN 0 ELSE index[t]

(* One iteration in state s: a message is read first, then the state's case runs. *)
Iterate(t, s, next, count) ==
  /\ state[t] \in Working
  /\ Current(t) = s
  /\ state' = [state EXCEPT ![t] = next]
  /\ index' = [index EXCEPT ![t] = count]
  /\ stops' = [stops EXCEPT ![t] = IF @ > 0 THEN @ - 1 ELSE 0]
  /\ UNCHANGED <<agv, pile, registered, main>>

(* write_msg: what a full queue refuses is lost. *)
Post(t, m) ==
  commands' = [commands EXCEPT ![pile[t]] =
                 IF Len(@) < Capacity THEN Append(@, m) ELSE @]

(* insertTask, whose result nobody looks at. *)
SetContactor(t, closed) ==
  \/ contactor' = [contactor EXCEPT ![agv[t]] = closed]
  \/ DbFails /\ UNCHANGED contactor

(* Half a second or more: a pile that keeps up has a turn meanwhile. *)
Sleep(t) ==
  /\ Prompt => t \notin counted
  /\ counted' = IF Prompt THEN counted \cup {t} ELSE counted

(* return FALSE on a NULL pointer. *)
ReturnFalse(t) ==
  /\ state[t] = "NULL_ARG"
  /\ state' = [state EXCEPT ![t] = "RETURNED"]
  /\ UNCHANGED <<agv, pile, index, stops, registered, main, battery, contactor, pileVars, counted>>

(* Mutant: current is asked for together with the contactor. *)
ChargeStartDelivers(t) ==
  /\ Iterate(t, "TASK_CHARGE_START", "TASK_ARM_OUT_STATE", Index(t))
  /\ SetContactor(t, TRUE)
  /\ Post(t, "START_CHARGE")
  /\ Sleep(t)
  /\ UNCHANGED <<battery, link, arm>>

ChargeStart(t) ==
  /\ Iterate(t, "TASK_CHARGE_START", "TASK_ARM_OUT_STATE", Index(t))
  /\ SetContactor(t, TRUE)
  /\ Sleep(t)
  /\ UNCHANGED <<battery, pileVars>>

(* An arm command is posted ArmSends times. *)
SendArm(t, s, m) ==
  /\ Index(t) < ArmSends
  /\ Iterate(t, s, s, Index(t) + 1)
  /\ Post(t, m)
  /\ UNCHANGED <<battery, contactor, link, arm, counted>>

ArmSent(t, s, next) ==
  /\ Index(t) >= ArmSends
  /\ Iterate(t, s, next, 0)
  /\ UNCHANGED <<battery, contactor, pileVars, counted>>

(* A wait counts; nothing is asked of the pile. *)
Count(t, s, bound) ==
  /\ Index(t) < bound
  /\ Iterate(t, s, s, Index(t) + 1)
  /\ Sleep(t)
  /\ UNCHANGED <<battery, contactor, pileVars>>

Waited(t, s, bound, next) ==
  /\ Index(t) >= bound
  /\ Iterate(t, s, next, 0)
  /\ UNCHANGED <<battery, contactor, pileVars, counted>>

ChargeCurrent(t) ==
  /\ Iterate(t, "TASK_CHARGE_CURRENT", "TASK_CHARGE_STATE", 0)
  /\ Post(t, "START_CHARGE")
  /\ Sleep(t)
  /\ UNCHANGED <<battery, contactor, link, arm>>

(* The current is raised or lowered, once in 200 passes. *)
Adjust(t) ==
  /\ Index(t) < MaxAdjust
  /\ Iterate(t, "TASK_CHARGE_STATE", "TASK_CHARGE_STATE", Index(t) + 1)
  /\ Post(t, "START_CHARGE")
  /\ Sleep(t)
  /\ UNCHANGED <<battery, contactor, link, arm>>

(* The battery discharges: current 0 is set and sent before the exit. *)
ExitFault(t) ==
  /\ Iterate(t, "TASK_CHARGE_STATE", "TASK_ARM_IN_STATE", 0)
  /\ Post(t, "START_CHARGE")
  /\ UNCHANGED <<battery, contactor, link, arm, counted>>

(* The battery is charged, or accepts no more than 10 A. *)
ExitCharged(t) ==
  /\ Iterate(t, "TASK_CHARGE_STATE", "TASK_ARM_IN_STATE", 0)
  /\ UNCHANGED <<battery, contactor, pileVars, counted>>

ChargeStop(t) ==
  /\ Iterate(t, "TASK_CHARGE_STOP", "TASK_OVER", Index(t))
  /\ SetContactor(t, FALSE)
  /\ Sleep(t)
  /\ UNCHANGED <<battery, pileVars>>

(* set_stop and clean_sys_battery. *)
Cleaned(a) ==
  IF Slots(a) = {} THEN battery ELSE [battery EXCEPT ![Oldest(Slots(a))] = NoAgv]
Over(t) ==
  /\ Iterate(t, "TASK_OVER", "STOPPED", Index(t))
  /\ battery' = Cleaned(agv[t])
  /\ UNCHANGED <<contactor, pileVars, counted>>

(* Mutant: every entry of the AGV is removed, not the task's own. *)
UnlistByAgv(t) ==
  /\ state[t] = "STOPPED"
  /\ state' = [state EXCEPT ![t] = "UNLISTED"]
  /\ registered' = registered \ Entries(agv[t])
  /\ UNCHANGED <<agv, pile, index, stops, main, battery, contactor, pileVars, counted>>

(* del_charge_task_by_ptr, then delete. *)
Unlist(t) ==
  /\ state[t] = "STOPPED"
  /\ state' = [state EXCEPT ![t] = "UNLISTED"]
  /\ registered' = registered \ {t}
  /\ UNCHANGED <<agv, pile, index, stops, main, battery, contactor, pileVars, counted>>

Delete(t) ==
  /\ state[t] = "UNLISTED"
  /\ state' = [state EXCEPT ![t] = "DELETED"]
  /\ stops' = [stops EXCEPT ![t] = 0]
  /\ counted' = counted \ {t}
  /\ UNCHANGED <<agv, pile, index, registered, main, battery, contactor, pileVars>>

TaskStep(t) ==
  \/ ReturnFalse(t)
  \/ ChargeStart(t)
  \/ SendArm(t, "TASK_ARM_OUT_STATE", "ARM_OUT")
  \/ ArmSent(t, "TASK_ARM_OUT_STATE", "TASK_WAIT_ARM_OUT_STATE")
  \/ Count(t, "TASK_WAIT_ARM_OUT_STATE", ArmOutWait)
  \/ Waited(t, "TASK_WAIT_ARM_OUT_STATE", ArmOutWait, "TASK_CHARGE_CURRENT")
  \/ ChargeCurrent(t)
  \/ SendArm(t, "TASK_ARM_IN_STATE", "ARM_IN")
  \/ ArmSent(t, "TASK_ARM_IN_STATE", "TASK_WAIT_ARM_IN_STATE")
  \/ Count(t, "TASK_WAIT_ARM_IN_STATE", ArmInWait)
  \/ Waited(t, "TASK_WAIT_ARM_IN_STATE", ArmInWait, "TASK_CHARGE_STOP")
  \/ ChargeStop(t)
  \/ Over(t)
  \/ Unlist(t)
  \/ Delete(t)

(* What the battery decides. *)
Monitor(t) == Adjust(t) \/ ExitFault(t) \/ ExitCharged(t)
-----------------------------------------------------------------------------
(* The thread of a pile.                                                   *)

(* Its tasks may count again. *)
Turn(p) == counted' = {t \in counted : pile[t] # p}

Moved(p, m) ==
  arm' = [arm EXCEPT ![p] = IF m = "ARM_OUT" THEN "out" ELSE IF m = "ARM_IN" THEN "in" ELSE @]

(***************************************************************************)
(* A command is taken, sent, and its answer read half a second later.      *)
(* Whatever fails marks the link, and the command is not sent again.       *)
(***************************************************************************)
Handle(p) ==
  /\ link[p] = "up"
  /\ commands[p] # << >>
  /\ commands' = [commands EXCEPT ![p] = Tail(@)]
  /\ \/ /\ Moved(p, Head(commands[p]))
        /\ link' \in {link} \cup (IF LinkFails THEN {[link EXCEPT ![p] = "down"]} ELSE {})
     \/ /\ LinkFails
        /\ link' = [link EXCEPT ![p] = "down"]
        /\ UNCHANGED arm
  /\ Turn(p)
  /\ UNCHANGED <<taskVars, registered, main, battery, contactor>>

(* The queue is empty: Sleep(100). *)
Rest(p) ==
  /\ link[p] = "up"
  /\ commands[p] = << >>
  /\ Turn(p)
  /\ UNCHANGED <<taskVars, registered, main, battery, contactor, pileVars>>

(* connect_session until it succeeds. *)
Reconnect(p) ==
  /\ link[p] = "down"
  /\ link' = [link EXCEPT ![p] = "up"]
  /\ UNCHANGED <<taskVars, registered, main, battery, contactor, commands, arm, counted>>

PileStep(p) == Handle(p) \/ Rest(p)

Next ==
  \/ \E a \in Agvs, p \in Piles \cup {NoPile} : InitBattery(a, p)
  \/ AddTask
  \/ \E a \in Agvs : FindTask(a)
  \/ WriteStop
  \/ \E t \in Tasks : TaskStep(t) \/ Monitor(t)
  \/ \E p \in Piles : PileStep(p) \/ Reconnect(p)

Spec == Init /\ [][Next]_vars
-----------------------------------------------------------------------------
(* Every variable has its type. *)
TypeOK ==
  /\ state \in [Tasks -> States]
  /\ agv \in [Tasks -> Agvs \cup {NoAgv}]
  /\ pile \in [Tasks -> Piles \cup {NoPile}]
  /\ index \in [Tasks -> Nat]
  /\ stops \in [Tasks -> 0 .. Capacity]
  /\ registered \subseteq Tasks
  /\ main \in MainStates
  /\ battery \in Seq(Agvs \cup {NoAgv})
  /\ contactor \in [Agvs -> BOOLEAN]
  /\ commands \in [Piles -> Seq(Commands)]
  /\ link \in [Piles -> {"up", "down", "dead"}]
  /\ arm \in [Piles -> {"in", "out"}]
  /\ counted \subseteq Tasks

(***************************************************************************)
(* A closed contactor has a task of that AGV that is still going to open   *)
(* it: no order of starts, stops and endings, of one task or of several    *)
(* tasks of one AGV, leaves a battery connected with nobody in charge      *)
(* (charge_task.cpp:286-304, 309-320, 501-508).  It rests on every         *)
(* insertTask succeeding.                                                  *)
(***************************************************************************)
Attends(t, a) ==
  /\ agv[t] = a
  /\ state[t] \in Working \ {"TASK_CHARGE_START", "TASK_OVER"}
ContactorAttended ==
  ~DbFails => \A a \in Agvs : contactor[a] => \E t \in Tasks : Attends(t, a)

(***************************************************************************)
(* When the registry reports the charging of an AGV as over, no thread is  *)
(* working for it and its contactor is open (charge_task.cpp:108-117).     *)
(* This is what the dispatch of orders relies on (Task_Chain.cpp:212).     *)
(***************************************************************************)
OverIsSafe ==
  \A a \in Agvs : IsOver(a) =>
    /\ \A t \in Tasks : agv[t] = a => state[t] \notin Working
    /\ ~DbFails => ~contactor[a]

(***************************************************************************)
(* The battery table has one entry an AGV at most and so never more        *)
(* entries than there are AGVs, however tasks come and go                  *)
(* (agv_battery.cpp:475-521).                                              *)
(***************************************************************************)
BatteryTableBounded ==
  /\ Len(battery) <= Cardinality(Agvs)
  /\ \A i, j \in DOMAIN battery : battery[i] = battery[j] /\ battery[i] # NoAgv => i = j
=============================================================================
