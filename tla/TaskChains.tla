----------------------------- MODULE TaskChains -----------------------------
(***************************************************************************)
(* How an order becomes a chain of sub-tasks and a chain ends: the fetch   *)
(* and the dispatch of orders (Event_Handler.cpp, WCS_Database.cpp), the   *)
(* carry and parking chains (Task_Chain.cpp, Task_Chain_Manage.cpp), the   *)
(* parking stations (Parking_Manage.cpp), what the operator may do, and a  *)
(* restart.  The ACS executes the sub-tasks; it reads and writes tables of *)
(* the database and acts at any time.                                      *)
(*                                                                         *)
(* A tick of the main thread is a sequence of phases: fetch, dispatch,     *)
(* check, feedback.  It is idle between ticks, when the operator's buttons *)
(* are handled.  Charging is left to ChargeAgv.                            *)
(***************************************************************************)
EXTENDS Integers, FiniteSets

CONSTANTS
  Agvs, Orders,
  NoOrder,       \* the order of a parking chain
  Storages, Start, Target,   \* the storages of an order
  Parks,         \* the stations P1 .. P7
  Charging,      \* those with a pile
  Released,      \* those whose names the code compares with, P1 and P2
  Away,          \* an AGV is at no parking station
  Nothing,       \* no chain, no task
  MaxId,         \* bound on the ids of sub-tasks
  MaxRestarts,   \* bound on the restarts of the program
  Operator,      \* what the operator does: a subset of {"cancel", "unlock", "redo"}
  LowPower,      \* batteries may be low
  Rejects,       \* the ACS may reject, fail or abort a task
  Refuses        \* the dispatch of a sub-task may have to wait for other AGVs

ASSUME OrdersAssumption ==
  /\ Start \in [Orders -> Storages]
  /\ Target \in [Orders -> Storages]
  /\ NoOrder \notin Orders
ASSUME ParksAssumption ==
  /\ Charging \subseteq Parks
  /\ Away \notin Parks
ASSUME BoundsAssumption == MaxId \in Nat /\ MaxRestarts \in Nat
ASSUME OptionsAssumption == {LowPower, Rejects, Refuses} \subseteq BOOLEAN

VARIABLES
  phase,       \* where the main thread is
  standing,    \* AGV_Status_ is 0, as read at the head of the tick
  low,         \* the battery is low, as read then
  todo,        \* the chains that this tick has still to check
  locked,      \* Resource_Status_ is LOCKED
  executing,   \* Executing_List_
  chain,       \* Active_Task_List_; a chain's key is the id of its first sub-task
  lastId,      \* Task_ID_ of Task_Chain_Manage
  orderStatus, \* STATUS in kh_order_info
  report,      \* the values of STATUS in the order's rows of kh_report_order_info
  going,       \* storages whose resource_status is GOING
  park,        \* STATUS in parking_manage
  history,     \* the ids in task_in_history
  inbox,       \* the rows of task_in_table
  running,     \* the task that the ACS has each AGV do
  aborts,      \* the ids of the abort rows in task_op_interface
  feedback,    \* the status in task_feedback_table
  place,       \* where an AGV stands
  carried,     \* history variable: what was really done for the orders
  again,       \* history variable: the orders that the operator redid while an AGV has them
  restarts     \* how often the program was restarted

tickVars == <<phase, standing, low, todo>>
wcsVars == <<locked, executing, chain, lastId>>
orderVars == <<orderStatus, report, going, again>>
acsVars == <<inbox, running, aborts, feedback, place, carried>>
vars == <<tickVars, wcsVars, orderVars, park, history, acsVars, restarts>>

Ids == 1 .. MaxId
Tasks ==
  [id : Ids, agv : Agvs, goal : {"GET", "PUT"}, order : Orders, to : {Away}]
    \cup [id : Ids, agv : Agvs, goal : {"PARK"}, order : {NoOrder}, to : Parks]
CarryStatus ==
  {"BEGIN", "EQUIP_GET", "EQUIP_GET_CHECK", "EQUIP_PUT", "EQUIP_PUT_CHECK", "OVER", "ABORT", "ERR"}
ParkStatus == {"BEGIN", "PARKING", "PARKING_CHECK", "OVER", "ABORT", "ERR"}
Answers == {"none", "DONE", "FAILED", "ABORTED"}
CarryChains ==
  [agv : Agvs, order : Orders, to : {Away},
   id : 0 .. MaxId, status : CarryStatus, answer : Answers]
ParkChains ==
  [agv : Agvs, order : {NoOrder}, to : Parks,
   id : 0 .. MaxId, status : ParkStatus, answer : Answers]
Chains == CarryChains \cup ParkChains
ASSUME NothingAssumption == Nothing \notin Chains \cup Tasks

Active == {k \in Ids : chain[k] # Nothing}
Carries(k) == chain[k].order # NoOrder

Init ==
  /\ phase = "idle"
  /\ standing = {} /\ low = {} /\ todo = {}
  /\ locked = [a \in Agvs |-> FALSE]
  /\ executing = {}
  /\ chain = [k \in Ids |-> Nothing]
  /\ lastId = 0
  /\ orderStatus = [o \in Orders |-> "NEW"]
  /\ report = [o \in Orders |-> {}]
  /\ going = {}
  /\ history = {}
  /\ inbox = {}
  /\ running = [a \in Agvs |-> Nothing]
  /\ aborts = {}
  /\ feedback = [i \in Ids |-> "none"]
  /\ place \in [Agvs -> Parks \cup {Away}]
  /\ \A a, b \in Agvs : a # b /\ place[a] # Away => place[a] # place[b]
  /\ park = [p \in Parks |-> IF \E a \in Agvs : place[a] = p THEN "BUSY" ELSE "IDLE"]
  /\ carried = {} /\ again = {}
  /\ restarts = 0
-----------------------------------------------------------------------------
(* Fetch *)

(***************************************************************************)
(* Update_AGV_Data_From_ACS_Event, then the AGVs of Executing_List_ are    *)
(* locked anew.                                                            *)
(***************************************************************************)
BeginTick ==
  /\ phase = "idle"
  /\ phase' = "fetch"
  /\ standing' = {a \in Agvs : running[a] = Nothing}
  /\ low' \in IF LowPower THEN SUBSET Agvs ELSE {{}}
  /\ park' = [p \in Parks |->
                IF \E a \in Agvs : place[a] = p /\ ~locked[a] THEN "BUSY" ELSE park[p]]
  /\ locked' = [a \in Agvs |-> locked[a] \/ \E e \in executing : e.agv = a]
  /\ UNCHANGED <<todo, executing, chain, lastId, orderVars, history, acsVars, restarts>>

Free == {a \in standing : ~locked[a]}
Open == {o \in Orders : orderStatus[o] \in {"NEW", "IDLE"}}

(* Mutant: only the other orders of the storage change. *)
AfterFetchOthers(o) ==
  [q \in Orders |->
     IF orderStatus[q] = "NEW" /\ Start[q] = Start[o] THEN "IDLE" ELSE orderStatus[q]]

(* Mutant: the order is marked as it is reported. *)
AfterFetchDoing(o) ==
  [q \in Orders |->
     IF q = o THEN "DOING"
     ELSE IF orderStatus[q] = "NEW" /\ Start[q] = Start[o] THEN "IDLE"
     ELSE orderStatus[q]]

(* updateCurrentOrderOver: the other orders from the same storage become IDLE. *)
AfterFetch(o) ==
  [q \in Orders |->
     IF q = o THEN "OVER"
     ELSE IF orderStatus[q] = "NEW" /\ Start[q] = Start[o] THEN "IDLE"
     ELSE orderStatus[q]]

(* An order waits for its AGV or has a chain. *)
OnOrder(o) ==
  (\E e \in executing : e.order = o) \/ (\E k \in Active : chain[k].order = o)

(* There are ids for the chains of n orders; MaxId bounds them, not the code. *)
IdsFor(n) == lastId + 2 * n <= MaxId
AnotherFits == IdsFor(Cardinality(executing) + 1)

(* A free AGV takes an order, which gets one more row in the report; one order a tick. *)
TakeOrder(a, o) ==
  /\ phase = "fetch"
  /\ a \in Free \ low
  /\ o \in Open
  /\ AnotherFits
  /\ locked' = [locked EXCEPT ![a] = TRUE]
  /\ going' = going \cup {Target[o]}
  /\ orderStatus' = AfterFetch(o)
  /\ report' = [report EXCEPT ![o] = @ \cup {"NEW"}]
  /\ executing' = executing \cup {[agv |-> a, order |-> o]}
  /\ carried' = IF OnOrder(o) THEN carried ELSE {c \in carried : c[1] # o}
  /\ phase' = "dispatch"
  /\ UNCHANGED <<standing, low, todo, chain, lastId, again, park, history, inbox, running,
                 aborts, feedback, place, restarts>>

IdleParks == {p \in Parks : park[p] = "IDLE"}

(* Auto_Parking_System: the stations to which the AGV may be sent. *)
Offered(a) ==
  IF a \in low /\ IdleParks \cap Charging # {} THEN IdleParks \cap Charging
  ELSE IF place[a] = Away THEN IdleParks
  ELSE {}
SentToPark(a) ==
  /\ a \in Free
  /\ \/ place[a] = Away /\ (a \in low \/ Open = {})
     \/ place[a] # Away /\ place[a] \notin Charging /\ a \in low

(* A chain created: its sub-tasks take the next ids. *)
NewChain(a, o, p, id) ==
  [agv |-> a, order |-> o, to |-> p, id |-> id, status |-> "BEGIN", answer |-> "none"]

(* Mutant: the station is not reserved. *)
SendToParkUnreserved(a, p) ==
  /\ phase = "fetch"
  /\ SentToPark(a)
  /\ p \in Offered(a)
  /\ lastId < MaxId
  /\ locked' = [locked EXCEPT ![a] = TRUE]
  /\ lastId' = lastId + 1
  /\ chain' = [chain EXCEPT ![lastId + 1] = NewChain(a, NoOrder, p, 0)]
  /\ UNCHANGED <<tickVars, executing, orderVars, park, history, acsVars, restarts>>

SendToPark(a, p) ==
  /\ phase = "fetch"
  /\ SentToPark(a)
  /\ p \in Offered(a)
  /\ lastId < MaxId
  /\ park' = [park EXCEPT ![p] = "BUSY"]
  /\ locked' = [locked EXCEPT ![a] = TRUE]
  /\ lastId' = lastId + 1
  /\ chain' = [chain EXCEPT ![lastId + 1] = NewChain(a, NoOrder, p, 0)]
  /\ UNCHANGED <<tickVars, executing, orderVars, history, acsVars, restarts>>

EndFetch ==
  /\ phase = "fetch"
  /\ Free \ low = {} \/ Open = {} \/ ~AnotherFits
  /\ \A a \in Free : SentToPark(a) => Offered(a) = {} \/ lastId = MaxId
  /\ phase' = "dispatch"
  /\ UNCHANGED <<standing, low, todo, wcsVars, orderVars, park, history, acsVars, restarts>>
-----------------------------------------------------------------------------
(* Dispatch *)

(***************************************************************************)
(* Create_Task_Chain.  The chain carries the last id generated so far, and *)
(* its own only when a sub-task of it is dispatched.  Every row of the     *)
(* order becomes DOING.                                                    *)
(***************************************************************************)
Dispatch(e) ==
  /\ phase = "dispatch"
  /\ e \in executing
  /\ e.agv \in standing
  /\ IdsFor(1)
  /\ lastId' = lastId + 2
  /\ chain' = [chain EXCEPT ![lastId + 1] = NewChain(e.agv, e.order, Away, lastId)]
  /\ report' = [report EXCEPT ![e.order] = {"DOING"}]
  /\ executing' = executing \ {e}
  /\ locked' = [locked EXCEPT ![e.agv] = TRUE]
  /\ UNCHANGED <<tickVars, orderStatus, going, again, park, history, acsVars, restarts>>

EndDispatch ==
  /\ phase = "dispatch"
  /\ \A e \in executing : e.agv \in standing => ~IdsFor(1)
  /\ phase' = "check"
  /\ todo' = Active
  /\ UNCHANGED <<standing, low, wcsVars, orderVars, park, history, acsVars, restarts>>
-----------------------------------------------------------------------------
(* Task_Status_Check_Event, one chain after another; its AGV is locked anew. *)

Checks(k) ==
  /\ phase = "check"
  /\ k \in todo
  /\ \A j \in todo : k <= j
  /\ todo' = todo \ {k}
  /\ UNCHANGED <<phase, standing, low, executing, lastId, restarts>>

Relock(k) == locked' = [locked EXCEPT ![chain[k].agv] = TRUE]

(* The chain goes on in another status. *)
GoOn(k, status) ==
  /\ Checks(k)
  /\ Relock(k)
  /\ chain' = [chain EXCEPT ![k].status = status]
  /\ UNCHANGED <<orderVars, park, history, acsVars>>

CheckBegin(k) ==
  /\ chain[k].status = "BEGIN"
  /\ GoOn(k, IF Carries(k) THEN "EQUIP_GET" ELSE "PARKING")

Inserted(k, id, status) == [chain[k] EXCEPT !.id = id, !.status = status]

(* Sub_Task_Dispatch_Event: the row is inserted and the chain takes its id. *)
Insert(k, id, goal, status) ==
  /\ Checks(k)
  /\ Relock(k)
  /\ inbox' = inbox \cup {[id |-> id, agv |-> chain[k].agv, goal |-> goal,
                           order |-> chain[k].order, to |-> chain[k].to]}
  /\ history' = history \cup {id}
  /\ chain' = [chain EXCEPT ![k] = Inserted(k, id, status)]
  /\ UNCHANGED <<orderVars, running, aborts, feedback, place, carried>>

(* An AGV that leaves P1 or P2 gives it back. *)
Release(a) ==
  park' = IF place[a] \in Released THEN [park EXCEPT ![place[a]] = "IDLE"] ELSE park

SendGet(k) ==
  /\ chain[k].status = "EQUIP_GET"
  /\ Insert(k, k, "GET", "EQUIP_GET_CHECK")
  /\ Release(chain[k].agv)

SendPut(k) ==
  /\ chain[k].status = "EQUIP_PUT"
  /\ Insert(k, k + 1, "PUT", "EQUIP_PUT_CHECK")
  /\ UNCHANGED park

SendPark(k) ==
  /\ chain[k].status = "PARKING"
  /\ Insert(k, k, "PARK", "PARKING_CHECK")
  /\ Release(chain[k].agv)

(* Not in service, a station in the way reserved, an area occupied, no path found. *)
Refused(k) ==
  /\ Refuses
  /\ chain[k].status \in {"EQUIP_GET", "EQUIP_PUT", "PARKING"}
  /\ GoOn(k, chain[k].status)

(* Check_Feedback and what each ..._CHECK makes of it. *)
After(status) == IF status = "EQUIP_GET_CHECK" THEN "EQUIP_PUT" ELSE "OVER"

(* Mutant: ABORTED is not looked for. *)
CheckAnswerNoAbort(k) ==
  LET s == chain[k].status
      f == chain[k].answer
  IN  /\ s \in {"EQUIP_GET_CHECK", "EQUIP_PUT_CHECK", "PARKING_CHECK"}
      /\ GoOn(k, IF f = "DONE" THEN After(s) ELSE IF f = "FAILED" THEN "ERR" ELSE s)

CheckAnswer(k) ==
  LET s == chain[k].status
      f == chain[k].answer
  IN  /\ s \in {"EQUIP_GET_CHECK", "EQUIP_PUT_CHECK", "PARKING_CHECK"}
      /\ GoOn(k, IF f = "DONE" THEN After(s)
                 ELSE IF f = "FAILED" THEN "ERR"
                 ELSE IF f = "ABORTED" THEN "ABORT"
                 ELSE s)

Remove(k) == chain' = [chain EXCEPT ![k] = Nothing]

(* The order's last AGV is rid of it. *)
Ended == again' = {o \in again : OnOrder(o)'}

(* The AGV is free again; every row of the order becomes DONE. *)
CheckOver(k) ==
  /\ chain[k].status = "OVER"
  /\ Checks(k)
  /\ Remove(k)
  /\ locked' = [locked EXCEPT ![chain[k].agv] = FALSE]
  /\ Ended
  /\ report' = IF Carries(k) THEN [report EXCEPT ![chain[k].order] = {"DONE"}] ELSE report
  /\ UNCHANGED <<orderStatus, going, park, history, acsVars>>

(* Mutant: an order that was taken is opened as well. *)
ReopenedTaken(o) ==
  [q \in Orders |-> IF Start[q] = Start[o] THEN "NEW" ELSE orderStatus[q]]

(* redoErrStart *)
Reopened(o) ==
  [q \in Orders |->
     IF Start[q] = Start[o] /\ orderStatus[q] = "IDLE" THEN "NEW" ELSE orderStatus[q]]

(* Mutant: the rows looked for are those that wait. *)
FailedWaiting(rows) == IF "NEW" \in rows THEN {"ERR"} ELSE rows

(* updateOrderStatusToErr: every row, if one of them is DOING. *)
Failed(rows) == IF "DOING" \in rows THEN {"ERR"} ELSE rows

(* Mutant: an aborted chain gives its AGV back. *)
CheckErrorUnlocks(k) ==
  /\ chain[k].status \in {"ABORT", "ERR"}
  /\ Checks(k)
  /\ Remove(k)
  /\ Ended
  /\ locked' = [locked EXCEPT ![chain[k].agv] = FALSE]
  /\ IF Carries(k)
       THEN /\ report' = [report EXCEPT ![chain[k].order] = Failed(@)]
            /\ orderStatus' = Reopened(chain[k].order)
            /\ going' = going \ {Target[chain[k].order]}
       ELSE UNCHANGED <<report, orderStatus, going>>
  /\ UNCHANGED <<park, history, acsVars>>

(* Mutant: a chain that was aborted keeps its target. *)
CheckErrorKeeps(k) ==
  /\ chain[k].status \in {"ABORT", "ERR"}
  /\ Checks(k)
  /\ Remove(k)
  /\ Ended
  /\ Relock(k)
  /\ IF Carries(k)
       THEN /\ report' = [report EXCEPT ![chain[k].order] = Failed(@)]
            /\ orderStatus' = Reopened(chain[k].order)
            /\ going' = IF chain[k].status = "ERR" THEN going \ {Target[chain[k].order]} ELSE going
       ELSE UNCHANGED <<report, orderStatus, going>>
  /\ UNCHANGED <<park, history, acsVars>>

(* The AGV stays locked until the operator unlocks it. *)
CheckError(k) ==
  /\ chain[k].status \in {"ABORT", "ERR"}
  /\ Checks(k)
  /\ Remove(k)
  /\ Ended
  /\ Relock(k)
  /\ IF Carries(k)
       THEN /\ report' = [report EXCEPT ![chain[k].order] = Failed(@)]
            /\ orderStatus' = Reopened(chain[k].order)
            /\ going' = going \ {Target[chain[k].order]}
       ELSE UNCHANGED <<report, orderStatus, going>>
  /\ UNCHANGED <<park, history, acsVars>>

Check(k) ==
  \/ CheckBegin(k) \/ SendGet(k) \/ SendPut(k) \/ SendPark(k) \/ Refused(k)
  \/ CheckAnswer(k) \/ CheckOver(k) \/ CheckError(k)

EndCheck ==
  /\ phase = "check"
  /\ todo = {}
  /\ phase' = "feedback"
  /\ UNCHANGED <<standing, low, todo, wcsVars, orderVars, park, history, acsVars, restarts>>

(* Feedback_Event: every chain reads the status of the id that it carries. *)
ReadFeedback ==
  /\ phase = "feedback"
  /\ phase' = "idle"
  /\ standing' = {} /\ low' = {}
  /\ chain' = [k \in Ids |->
                 IF k \notin Active THEN Nothing
                 ELSE [chain[k] EXCEPT !.answer =
                         IF chain[k].id = 0 THEN "none" ELSE feedback[chain[k].id]]]
  /\ UNCHANGED <<todo, locked, executing, lastId, orderVars, park, history, acsVars, restarts>>
-----------------------------------------------------------------------------
(* The operator, between two ticks. *)

OnDuty(a) ==
  (\E e \in executing : e.agv = a) \/ (\E k \in Active : chain[k].agv = a)
AcsTasks == inbox \cup {running[a] : a \in {b \in Agvs : running[b] # Nothing}}

(* cancelTaskChain: whatever carries the id of the chain chosen. *)
Cancel(k) ==
  /\ "cancel" \in Operator
  /\ phase = "idle"
  /\ k \in Active
  /\ aborts' = aborts \cup ({chain[k].id} \cap Ids)
  /\ chain' = [j \in Ids |->
                 IF j \in Active /\ chain[j].id = chain[k].id
                   THEN [chain[j] EXCEPT !.status = "ABORT"]
                   ELSE chain[j]]
  /\ UNCHANGED <<tickVars, locked, executing, lastId, orderVars, park, history, inbox, running,
                 feedback, place, carried, restarts>>

(***************************************************************************)
(* Unlock_AGV, by an operator who heeds the prompt that the AGV has no     *)
(* task and the message to bring it back to a parking station first.       *)
(***************************************************************************)
Unlock(a) ==
  /\ "unlock" \in Operator
  /\ phase = "idle"
  /\ locked[a]
  /\ ~OnDuty(a)
  /\ \A t \in AcsTasks : t.agv # a
  /\ locked' = [locked EXCEPT ![a] = FALSE]
  /\ \E p \in {Away} \cup {q \in Parks : \A b \in Agvs \ {a} : place[b] # q} :
       place' = [place EXCEPT ![a] = p]
  /\ UNCHANGED <<tickVars, executing, chain, lastId, orderVars, park, history, inbox, running,
                 aborts, feedback, carried, restarts>>

(* redoErrOrder, of any order that the monitor lists: it has a row in the report. *)
Redo(o) ==
  /\ "redo" \in Operator
  /\ phase = "idle"
  /\ report[o] # {}
  /\ AnotherFits
  /\ orderStatus' = [orderStatus EXCEPT ![o] = "NEW"]
  /\ again' = IF OnOrder(o) THEN again \cup {o} ELSE again
  /\ UNCHANGED <<tickVars, wcsVars, report, going, park, history, acsVars, restarts>>
-----------------------------------------------------------------------------
Largest(S) == IF S = {} THEN {0} ELSE {i \in S : \A j \in S : j <= i}

(* updateOrderStatusToErr of a start: what is not DONE is ERR. *)
Forgotten(r) == IF r = "DONE" THEN "DONE" ELSE "ERR"

(* Mutant: the ids start at 1 again. *)
RestartIdsAnew ==
  /\ restarts < MaxRestarts
  /\ restarts' = restarts + 1
  /\ phase' = "idle"
  /\ standing' = {} /\ low' = {} /\ todo' = {}
  /\ locked' = [a \in Agvs |-> FALSE]
  /\ executing' = {}
  /\ chain' = [k \in Ids |-> Nothing]
  /\ lastId' = 0
  /\ history' = {}
  /\ feedback' = [i \in Ids |-> "none"]
  /\ report' = [o \in Orders |-> {Forgotten(r) : r \in report[o]}]
  /\ going' = {} /\ again' = {}
  /\ park' = [p \in Parks |-> IF \E a \in Agvs : place[a] = p THEN "BUSY" ELSE "IDLE"]
  /\ UNCHANGED <<orderStatus, inbox, running, aborts, place, carried>>

(***************************************************************************)
(* The program ends anywhere and starts again.  getMaxTaskId reads the     *)
(* history before it is emptied; the rows for the ACS stay.                *)
(***************************************************************************)
Restart ==
  /\ restarts < MaxRestarts
  /\ restarts' = restarts + 1
  /\ phase' = "idle"
  /\ standing' = {} /\ low' = {} /\ todo' = {}
  /\ locked' = [a \in Agvs |-> FALSE]
  /\ executing' = {}
  /\ chain' = [k \in Ids |-> Nothing]
  /\ lastId' \in Largest(history)
  /\ history' = {}
  /\ feedback' = [i \in Ids |-> "none"]
  /\ report' = [o \in Orders |-> {Forgotten(r) : r \in report[o]}]
  /\ going' = {} /\ again' = {}
  /\ park' = [p \in Parks |-> IF \E a \in Agvs : place[a] = p THEN "BUSY" ELSE "IDLE"]
  /\ UNCHANGED <<orderStatus, inbox, running, aborts, place, carried>>
-----------------------------------------------------------------------------
(* The ACS. *)

(* An AGV without a task accepts one and drives off. *)
Accept(t) ==
  /\ t \in inbox
  /\ running[t.agv] = Nothing
  /\ inbox' = inbox \ {t}
  /\ running' = [running EXCEPT ![t.agv] = t]
  /\ place' = [place EXCEPT ![t.agv] = Away]
  /\ UNCHANGED <<tickVars, wcsVars, orderVars, park, history, aborts, feedback, carried, restarts>>

Finish(a) ==
  /\ running[a] # Nothing
  /\ running[a].to # Away => \A b \in Agvs \ {a} : place[b] # running[a].to
  /\ running' = [running EXCEPT ![a] = Nothing]
  /\ feedback' = [feedback EXCEPT ![running[a].id] = "DONE"]
  /\ place' = [place EXCEPT ![a] = running[a].to]
  /\ carried' = IF running[a].goal = "PARK" THEN carried
                ELSE carried \cup {<<running[a].order, running[a].goal>>}
  /\ UNCHANGED <<tickVars, wcsVars, orderVars, park, history, inbox, aborts, restarts>>

(* A task ends without having been done, whether accepted or not. *)
EndTask(t, answer) ==
  /\ t \in AcsTasks
  /\ inbox' = inbox \ {t}
  /\ running' = IF running[t.agv] = t THEN [running EXCEPT ![t.agv] = Nothing] ELSE running
  /\ feedback' = [feedback EXCEPT ![t.id] = answer]

Fail(t, answer) ==
  /\ Rejects
  /\ EndTask(t, answer)
  /\ UNCHANGED <<tickVars, wcsVars, orderVars, park, history, aborts, place, carried, restarts>>

(* An abort row is read; the task may have ended before. *)
ReadAbort(i) ==
  /\ i \in aborts
  /\ aborts' = aborts \ {i}
  /\ \/ \E t \in AcsTasks : t.id = i /\ EndTask(t, "ABORTED")
     \/ /\ \A t \in AcsTasks : t.id # i
        /\ UNCHANGED <<inbox, running, feedback>>
  /\ UNCHANGED <<tickVars, wcsVars, orderVars, park, history, place, carried, restarts>>
-----------------------------------------------------------------------------
Tick ==
  \/ BeginTick
  \/ \E a \in Agvs, o \in Orders : TakeOrder(a, o)
  \/ \E a \in Agvs, p \in Parks : SendToPark(a, p)
  \/ EndFetch
  \/ \E e \in executing : Dispatch(e)
  \/ EndDispatch
  \/ \E k \in todo : Check(k)
  \/ EndCheck
  \/ ReadFeedback

Buttons ==
  \/ \E k \in Active : Cancel(k)
  \/ \E a \in Agvs : Unlock(a)
  \/ \E o \in Orders : Redo(o)

Acs ==
  \/ \E t \in inbox : Accept(t)
  \/ \E a \in Agvs : Finish(a)
  \/ \E t \in AcsTasks, answer \in {"FAILED", "ABORTED"} : Fail(t, answer)
  \/ \E i \in aborts : ReadAbort(i)

ChainsNext == Tick \/ Buttons \/ Acs \/ Restart

Spec == Init /\ [][ChainsNext]_vars

(***************************************************************************)
(* The timer keeps the ticks coming, whatever each finds to do, and the    *)
(* ACS ends every task that it has accepted and accepts what it can.       *)
(***************************************************************************)
FairSpec ==
  /\ Spec
  /\ WF_vars(Tick)
  /\ \A a \in Agvs : WF_vars(Finish(a)) /\ WF_vars(\E t \in inbox : t.agv = a /\ Accept(t))
-----------------------------------------------------------------------------
(* Every variable has its type. *)
TypeOK ==
  /\ phase \in {"idle", "fetch", "dispatch", "check", "feedback"}
  /\ standing \subseteq Agvs /\ low \subseteq Agvs /\ todo \subseteq Ids
  /\ locked \in [Agvs -> BOOLEAN]
  /\ executing \subseteq [agv : Agvs, order : Orders]
  /\ chain \in [Ids -> Chains \cup {Nothing}]
  /\ lastId \in 0 .. MaxId
  /\ orderStatus \in [Orders -> {"NEW", "IDLE", "OVER"}]
  /\ report \in [Orders -> SUBSET {"NEW", "DOING", "DONE", "ERR"}]
  /\ going \subseteq Storages
  /\ park \in [Parks -> {"IDLE", "BUSY"}]
  /\ history \subseteq Ids
  /\ inbox \subseteq Tasks
  /\ running \in [Agvs -> Tasks \cup {Nothing}]
  /\ aborts \subseteq Ids
  /\ feedback \in [Ids -> Answers]
  /\ place \in [Agvs -> Parks \cup {Away}]
  /\ carried \subseteq Orders \X {"GET", "PUT"} /\ again \subseteq Orders
  /\ restarts \in 0 .. MaxRestarts

(***************************************************************************)
(* An AGV has one order or chain at a time and is locked meanwhile, and an *)
(* order is with one AGV, unless the operator redid it while an AGV had    *)
(* it: redoErrOrder puts any order back to NEW, and then a second AGV may  *)
(* take it (WCS_Database.cpp:1399-1415).  Only the lock and the status     *)
(* OVER keep a tick from giving an AGV or an order out twice; they are set *)
(* and reset in six places (WCS_Database.cpp:39-258,                       *)
(* Event_Handler.cpp:85-143, 271-298, Task_Chain_Manage.cpp:224-228,       *)
(* 649-799).                                                               *)
(***************************************************************************)
OneDuty ==
  /\ \A e, f \in executing :
       e.agv = f.agv \/ (e.order = f.order /\ e.order \notin again) => e = f
  /\ \A j, k \in Active :
       \/ chain[j].agv = chain[k].agv
       \/ Carries(j) /\ chain[j].order = chain[k].order /\ chain[j].order \notin again
       => j = k
  /\ \A e \in executing, k \in Active :
       e.agv # chain[k].agv /\ (e.order = chain[k].order => e.order \in again)
  /\ \A a \in Agvs : OnDuty(a) => locked[a]

(***************************************************************************)
(* The report tells the truth about an order that was taken: a row that is *)
(* NEW waits for its AGV, one that is DOING has a chain.  Conversely an    *)
(* order that waits or has a chain is reported so, unless it was redone    *)
(* meanwhile and two AGVs write the same rows.  Chains may end and the     *)
(* program may start again anyhow (WCS_Database.cpp:600-759, 3488-3504).   *)
(***************************************************************************)
ReportTrue ==
  \A o \in Orders :
    /\ "NEW" \in report[o] => \E e \in executing : e.order = o
    /\ "DOING" \in report[o] => \E k \in Active : chain[k].order = o
    /\ o \notin again =>
         /\ (\E e \in executing : e.order = o) => "NEW" \in report[o]
         /\ (\E k \in Active : chain[k].order = o) => "DOING" \in report[o]
    /\ orderStatus[o] = "OVER" => report[o] # {}

(***************************************************************************)
(* A chain goes on to the put only after the ACS has got the goods of its  *)
(* order, and the order is DONE only after they were put, since it was     *)
(* taken by an AGV when no other had it.  The chain looks at nothing but   *)
(* the status of the id that it carries, an id of another order until its  *)
(* own is dispatched (Task_Chain.cpp:40, 396-422,                          *)
(* Event_Handler.cpp:78-83, 213).                                          *)
(***************************************************************************)
DoneWasCarried ==
  /\ \A k \in Active : Carries(k) =>
       /\ chain[k].status \in {"EQUIP_PUT", "EQUIP_PUT_CHECK"} => <<chain[k].order, "GET">> \in carried
       /\ chain[k].status = "OVER" => <<chain[k].order, "PUT">> \in carried
  /\ \A o \in Orders : report[o] = {"DONE"} => <<o, "PUT">> \in carried

(***************************************************************************)
(* The ACS has nothing to do for an AGV that is unlocked: a chain that was *)
(* aborted here may still be driven there, so only a chain that is over    *)
(* gives its AGV back (Task_Chain_Manage.cpp:649-799).  A restart forgets  *)
(* the locks.                                                              *)
(***************************************************************************)
FreeAtRest == restarts = 0 => \A t \in AcsTasks : locked[t.agv]

(***************************************************************************)
(* No two AGVs are sent to one station, nor is one sent to where the ACS   *)
(* still drives another or another stands, unless that one drives away or  *)
(* is stranded: its chain failed after its station had been given back,    *)
(* and it is locked without a duty until the operator fetches it.  A       *)
(* station is given back before its AGV has left, and the status of the    *)
(* station is all that is looked at (Parking_Manage.cpp:207-280,           *)
(* Task_Chain_Manage.cpp:364-374, 706-799).  A restart derives the         *)
(* stations anew from where the AGVs stand, whatever the ACS does.         *)
(***************************************************************************)
HasPlanned(a, p) == \E k \in Active : chain[k].agv = a /\ chain[k].to = p
SentTo(a, p) == HasPlanned(a, p) \/ \E t \in AcsTasks : t.agv = a /\ t.to = p
Stays(a) ==
  \/ ~locked[a]
  \/ \E e \in executing : e.agv = a
  \/ \E k \in Active : chain[k].agv = a /\ chain[k].status \in {"BEGIN", "EQUIP_GET", "PARKING"}
StationsApart ==
  restarts = 0 =>
    \A a, b \in Agvs, p \in Parks :
      a # b /\ SentTo(a, p) => ~SentTo(b, p) /\ (place[b] = p => ~Stays(b))

(***************************************************************************)
(* A storage is reserved only for an order that waits for it, is carried   *)
(* to it or was brought there.  Reserved when an order is taken, it is     *)
(* freed only by the chain of that order when it fails, two handlers and   *)
(* many ticks later, or by the next start (Event_Handler.cpp:283,          *)
(* Task_Chain_Manage.cpp:729, 773, DatabaseManage.cpp:85).                 *)
(***************************************************************************)
NoneReservedInVain ==
  \A s \in going :
    \E o \in Orders : Target[o] = s /\ report[o] \cap {"NEW", "DOING", "DONE"} # {}

(* How far an order is: its report, and while it is DOING the status of its chain. *)
Progress(status) ==
  IF status \in {"BEGIN", "EQUIP_GET", "EQUIP_GET_CHECK"} THEN "FETCHING"
  ELSE IF status \in {"EQUIP_PUT", "EQUIP_PUT_CHECK"} THEN "BRINGING"
  ELSE IF status = "OVER" THEN "BROUGHT"
  ELSE "GIVEN UP"
ChainsOf(o) == {k \in Ids : chain[k] # Nothing /\ chain[k].order = o}
stage ==
  [o \in Orders |->
     IF o \in again THEN "REPEATED"
     ELSE IF "DOING" \in report[o] THEN Progress(chain[CHOOSE k \in ChainsOf(o) : TRUE].status)
     ELSE IF "NEW" \in report[o] THEN "NEW"
     ELSE IF "ERR" \in report[o] THEN "ERR"
     ELSE IF "DONE" \in report[o] THEN "DONE"
     ELSE "none"]
carriers ==
  [o \in Orders |->
     {e.agv : e \in {f \in executing : f.order = o}} \cup {chain[k].agv : k \in ChainsOf(o)}]
wanted == {o \in Orders : orderStatus[o] # "OVER"}

Life == INSTANCE OrderLife

(***************************************************************************)
(* The ticks, the chains, the buttons and a restart carry orders as        *)
(* OrderLife promises: an order is taken once each time it is asked for,   *)
(* by an AGV that has no other, it is on its way only when the goods were  *)
(* got and DONE only when they were put.  The row, the report, the list    *)
(* and the chains are changed by different handlers                        *)
(* (WCS_Database.cpp:39-258, Event_Handler.cpp:85-143, 271-298,            *)
(* Task_Chain_Manage.cpp:208-475, 649-835).                                *)
(***************************************************************************)
ImplementsOrders == Life!Spec

(***************************************************************************)
(* An order that an AGV has taken comes to an end, done or failed,         *)
(* whatever the ACS answers (Task_Chain_Manage.cpp:208-835).               *)
(***************************************************************************)
OrderEnds ==
  \A o \in Orders : "NEW" \in report[o] ~> report[o] \in {{"DONE"}, {"ERR"}}
=============================================================================
