--------------------------- MODULE ChargeTaskThms ---------------------------
(* Theorems about ChargeTask.tla, for any AGVs, piles, tasks and bounds. *)
EXTENDS ChargeTask, SequenceTheorems, FiniteSetTheorems, WellFoundedInduction, TLAPS

(* The oldest of some tasks is one of them, and no younger than any. *)
LEMMA OldestIn ==
  ASSUME NEW S, S \subseteq Nat, S # {}
  PROVE  Oldest(S) \in S /\ \A u \in S : Oldest(S) <= u
<1> DEFINE R == OpToRel(<, Nat)
<1>1. IsWellFoundedOn(R, Nat)
  BY NatLessThanWellFounded
<1>2. PICK x \in S : \A y \in S : ~ (<<y, x>> \in R)
  <2> HIDE DEF R
  <2> QED  BY <1>1, WFMin
<1>3. \A y \in S : ~ (y < x)
  BY <1>2 DEF OpToRel
<1>4. \A y \in S : x <= y
  BY <1>3
<1> QED  BY <1>4 DEF Oldest

LEMMA TaskFacts == MaxTasks \in Tasks /\ Tasks \subseteq Nat
BY BoundsAssumption DEF Tasks
-----------------------------------------------------------------------------
(***************************************************************************)
(* What the safety properties rest on: the registry lists exactly the      *)
(* tasks between their creation and their removal, and a task being        *)
(* created finds an unused number.                                         *)
(***************************************************************************)
Listed == registered = {t \in Tasks : state[t] \notin {"none", "UNLISTED", "DELETED"}}
RoomToCreate == main.op = "create" => state[MaxTasks] = "none"

TaskInv == TypeOK /\ Listed /\ RoomToCreate /\ ContactorAttended

LEMMA InitTaskInv == Init => TaskInv
<1> SUFFICES ASSUME Init PROVE TaskInv
  OBVIOUS
<1> USE DEF Init
<1>1. TypeOK
  <2>1. 0 \in 0 .. Capacity
    BY BoundsAssumption
  <2>2. stops \in [Tasks -> 0 .. Capacity]
    BY <2>1
  <2>3. << >> \in Seq(Commands) /\ << >> \in Seq(Agvs \cup {NoAgv})
    OBVIOUS
  <2>4. link \in [Piles -> {"up", "down", "dead"}]
    <3>1. CASE LinkFails
      BY <3>1
    <3>2. CASE ~LinkFails
      BY <3>2
    <3> QED  BY <3>1, <3>2
  <2> QED  BY <2>2, <2>3, <2>4 DEF TypeOK, States, MainStates, Idle
<1>2. Listed
  BY DEF Listed
<1>3. RoomToCreate
  BY DEF RoomToCreate, Idle
<1>4. ContactorAttended
  BY DEF ContactorAttended
<1> QED  BY <1>1, <1>2, <1>3, <1>4 DEF TaskInv
-----------------------------------------------------------------------------
(* An iteration of a task's state machine keeps the types of what it writes... *)
LEMMA IterateTypes ==
  ASSUME TypeOK, NEW t \in Tasks, NEW s, NEW next \in States, NEW count \in Nat,
         Iterate(t, s, next, count)
  PROVE  /\ state' \in [Tasks -> States]
         /\ index' \in [Tasks -> Nat]
         /\ stops' \in [Tasks -> 0 .. Capacity]
         /\ agv' = agv /\ pile' = pile /\ registered' = registered /\ main' = main
<1> USE DEF Iterate
<1>1. state' \in [Tasks -> States] /\ index' \in [Tasks -> Nat]
  BY DEF TypeOK
<1>2. \A n \in 0 .. Capacity : (IF n > 0 THEN n - 1 ELSE 0) \in 0 .. Capacity
  BY BoundsAssumption
<1>3. stops \in [Tasks -> 0 .. Capacity]
  BY DEF TypeOK
<1>4. (IF stops[t] > 0 THEN stops[t] - 1 ELSE 0) \in 0 .. Capacity
  BY <1>2, <1>3
<1>5. stops' \in [Tasks -> 0 .. Capacity]
  BY <1>3, <1>4
<1> QED  BY <1>1, <1>5

(* ...and neither lists nor removes a task... *)
LEMMA IterateLists ==
  ASSUME TaskInv, NEW t \in Tasks, NEW s, NEW next \in Working \cup {"STOPPED"}, NEW count,
         Iterate(t, s, next, count)
  PROVE  Listed' /\ RoomToCreate'
<1>1. state[t] \in Working /\ state' = [state EXCEPT ![t] = next]
      /\ registered' = registered /\ main' = main
  BY DEF Iterate
<1>2. state \in [Tasks -> States]
  BY DEF TaskInv, TypeOK
<1>3. Listed'
  BY <1>1, <1>2 DEF TaskInv, Listed, Working
<1>4. RoomToCreate'
  BY <1>1, <1>2, TaskFacts DEF TaskInv, RoomToCreate, Working
<1> QED  BY <1>3, <1>4

(* ...and keeps the tasks that attend to a contactor, unless it is over or stops charging. *)
LEMMA AttendsKept ==
  ASSUME TypeOK, NEW t \in Tasks, NEW next,
         state' = [state EXCEPT ![t] = next], agv' = agv,
         NEW a, NEW u \in Tasks, Attends(u, a),
         \/ u # t
         \/ next \in Working \ {"TASK_CHARGE_START", "TASK_OVER"}
  PROVE  Attends(u, a)'
BY DEF Attends, TypeOK

(* A contactor that nobody touches stays attended. *)
LEMMA ContactorKept ==
  ASSUME TypeOK, ContactorAttended, NEW t \in Tasks, NEW next,
         state' = [state EXCEPT ![t] = next], agv' = agv, contactor' = contactor,
         \/ next \in Working \ {"TASK_CHARGE_START", "TASK_OVER"}
         \/ state[t] \notin Working \ {"TASK_CHARGE_START", "TASK_OVER"}
  PROVE  ContactorAttended'
<1> SUFFICES ASSUME ~DbFails, NEW a \in Agvs, contactor[a]
             PROVE  \E u \in Tasks : Attends(u, a)'
  BY DEF ContactorAttended
<1>1. PICK u \in Tasks : Attends(u, a)
  BY DEF ContactorAttended
<1>2. u # t \/ next \in Working \ {"TASK_CHARGE_START", "TASK_OVER"}
  BY <1>1 DEF Attends
<1> QED  BY <1>1, <1>2, AttendsKept

(* A posted command is one of the queue's commands. *)
LEMMA PostType ==
  ASSUME TypeOK, NEW t, NEW m \in Commands, Post(t, m)
  PROVE  commands' \in [Piles -> Seq(Commands)]
<1> DEFINE q == commands[pile[t]]
           sent == IF Len(q) < Capacity THEN Append(q, m) ELSE q
<1>1. commands \in [Piles -> Seq(Commands)]
  BY DEF TypeOK
<1>2. commands' = [commands EXCEPT ![pile[t]] = sent]
  BY DEF Post
<1>3. CASE pile[t] \in Piles
  <2>1. q \in Seq(Commands)
    BY <1>1, <1>3
  <2>2. sent \in Seq(Commands)
    BY <2>1
  <2> QED  BY <1>1, <1>2, <2>2
<1>4. CASE pile[t] \notin Piles
  BY <1>1, <1>2, <1>4
<1> QED  BY <1>3, <1>4

LEMMA IndexNat ==
  ASSUME TypeOK, NEW t \in Tasks
  PROVE  Index(t) \in Nat
BY DEF TypeOK, Index

LEMMA CurrentIs ==
  ASSUME TypeOK, NEW t \in Tasks, Current(t) # "TASK_ARM_IN_STATE"
  PROVE  Current(t) = state[t]
BY DEF Current
-----------------------------------------------------------------------------
(* What a step of a task does: one lemma an action. *)

LEMMA ReturnFalseStep ==
  ASSUME TaskInv, NEW t \in Tasks, ReturnFalse(t)
  PROVE  TaskInv'
<1> USE DEF TaskInv, ReturnFalse
<1>1. TypeOK'
  BY DEF TypeOK, States, pileVars
<1>2. Listed'
  BY DEF Listed, TypeOK
<1>3. RoomToCreate'
  BY TaskFacts DEF RoomToCreate, TypeOK
<1>4. ContactorAttended'
  BY ContactorKept DEF Working
<1> QED  BY <1>1, <1>2, <1>3, <1>4

LEMMA ChargeStartStep ==
  ASSUME TaskInv, NEW t \in Tasks, ChargeStart(t)
  PROVE  TaskInv'
<1> DEFINE next == "TASK_ARM_OUT_STATE"
<1>1. /\ Iterate(t, "TASK_CHARGE_START", next, Index(t))
      /\ SetContactor(t, TRUE)
      /\ counted' \subseteq Tasks /\ UNCHANGED <<battery, pileVars>>
  BY DEF ChargeStart, Sleep, TaskInv, TypeOK
<1>2. /\ TypeOK /\ next \in States /\ next \in Working
      /\ next \in Working \ {"TASK_CHARGE_START", "TASK_OVER"}
  BY DEF TaskInv, States, Working
<1>3. TypeOK'
  <2>1. contactor' \in [Agvs -> BOOLEAN]
    BY <1>1, <1>2 DEF SetContactor, TypeOK
  <2> QED  BY <1>1, <1>2, <2>1, IterateTypes, IndexNat DEF TypeOK, pileVars
<1>4. Listed' /\ RoomToCreate'
  BY <1>1, <1>2, IterateLists
<1>5. ContactorAttended'
  <2> SUFFICES ASSUME ~DbFails, NEW a \in Agvs, contactor'[a]
               PROVE  \E u \in Tasks : Attends(u, a)'
    BY DEF ContactorAttended
  <2>1. state' = [state EXCEPT ![t] = next] /\ agv' = agv
    BY <1>1 DEF Iterate
  <2>2. contactor' = [contactor EXCEPT ![agv[t]] = TRUE]
    BY <1>1 DEF SetContactor
  <2>3. CASE a = agv[t]
    <3>1. Attends(t, a)'
      BY <1>2, <2>1, <2>3 DEF Attends, Working, TypeOK
    <3> QED  BY <3>1
  <2>4. CASE a # agv[t]
    <3>1. contactor[a]
      BY <1>2, <2>2, <2>4 DEF TypeOK
    <3>2. PICK u \in Tasks : Attends(u, a)
      BY <3>1 DEF TaskInv, ContactorAttended
    <3>3. Attends(u, a)'
      BY <1>2, <2>1, <3>2, AttendsKept
    <3> QED  BY <3>3
  <2> QED  BY <2>3, <2>4
<1> QED  BY <1>3, <1>4, <1>5 DEF TaskInv

(* The steps that move between attending states and post a command at most. *)
LEMMA ChargingStep ==
  ASSUME TaskInv, NEW t \in Tasks, NEW s,
         NEW next \in Working \ {"TASK_CHARGE_START", "TASK_OVER"}, NEW count \in Nat,
         Iterate(t, s, next, count),
         commands' = commands \/ \E m \in Commands : Post(t, m),
         counted' \subseteq Tasks,
         UNCHANGED <<battery, contactor, link, arm>>
  PROVE  TaskInv'
<1>1. TypeOK /\ next \in States /\ next \in Working
  BY DEF TaskInv, States
<1>2. commands' \in [Piles -> Seq(Commands)]
  BY <1>1, PostType DEF TypeOK
<1>3. TypeOK'
  BY <1>1, <1>2, IterateTypes DEF TypeOK
<1>4. Listed' /\ RoomToCreate'
  BY <1>1, IterateLists
<1>5. state' = [state EXCEPT ![t] = next] /\ agv' = agv
  BY DEF Iterate
<1>6. ContactorAttended'
  BY <1>1, <1>5, ContactorKept DEF TaskInv
<1> QED  BY <1>3, <1>4, <1>6 DEF TaskInv

LEMMA SendArmStep ==
  ASSUME TaskInv, NEW t \in Tasks, NEW s \in {"TASK_ARM_OUT_STATE", "TASK_ARM_IN_STATE"},
         NEW m \in Commands, SendArm(t, s, m)
  PROVE  TaskInv'
<1>1. Index(t) + 1 \in Nat /\ counted \subseteq Tasks
  BY IndexNat DEF TaskInv, TypeOK
<1>2. s \in Working \ {"TASK_CHARGE_START", "TASK_OVER"}
  BY DEF Working
<1>3. Iterate(t, s, s, Index(t) + 1) /\ Post(t, m)
      /\ UNCHANGED <<battery, contactor, link, arm, counted>>
  BY DEF SendArm
<1> QED  BY <1>1, <1>2, <1>3, ChargingStep

LEMMA MoveOnStep ==
  ASSUME TaskInv, NEW t \in Tasks, NEW s,
         NEW next \in Working \ {"TASK_CHARGE_START", "TASK_OVER"},
         Iterate(t, s, next, 0), UNCHANGED <<battery, contactor, pileVars, counted>>
  PROVE  TaskInv'
<1>1. counted' \subseteq Tasks /\ commands' = commands /\ UNCHANGED <<battery, contactor, link, arm>>
  BY DEF TaskInv, TypeOK, pileVars
<1> QED  BY <1>1, ChargingStep

LEMMA CountStep ==
  ASSUME TaskInv, NEW t \in Tasks,
         NEW s \in {"TASK_WAIT_ARM_OUT_STATE", "TASK_WAIT_ARM_IN_STATE"}, NEW bound,
         Count(t, s, bound)
  PROVE  TaskInv'
<1>1. Index(t) + 1 \in Nat
  BY IndexNat DEF TaskInv
<1>2. s \in Working \ {"TASK_CHARGE_START", "TASK_OVER"}
  BY DEF Working
<1>3. counted' \subseteq Tasks
  BY DEF Count, Sleep, TaskInv, TypeOK
<1>4. Iterate(t, s, s, Index(t) + 1) /\ UNCHANGED <<battery, contactor, commands, link, arm>>
  BY DEF Count, pileVars
<1> QED  BY <1>1, <1>2, <1>3, <1>4, ChargingStep

LEMMA ChargeCurrentStep ==
  ASSUME TaskInv, NEW t \in Tasks, ChargeCurrent(t) \/ Monitor(t)
  PROVE  TaskInv'
<1>1. /\ "TASK_CHARGE_STATE" \in Working \ {"TASK_CHARGE_START", "TASK_OVER"}
      /\ "TASK_ARM_IN_STATE" \in Working \ {"TASK_CHARGE_START", "TASK_OVER"}
      /\ "START_CHARGE" \in Commands
  BY DEF Working, Commands
<1>2. Index(t) + 1 \in Nat /\ counted \subseteq Tasks
  BY IndexNat DEF TaskInv, TypeOK
<1>3. CASE ChargeCurrent(t)
  <2>1. counted' \subseteq Tasks
    BY <1>2, <1>3 DEF ChargeCurrent, Sleep
  <2> QED  BY <1>1, <1>2, <1>3, <2>1, ChargingStep DEF ChargeCurrent
<1>4. CASE Adjust(t)
  <2>1. counted' \subseteq Tasks
    BY <1>2, <1>4 DEF Adjust, Sleep
  <2> QED  BY <1>1, <1>2, <1>4, <2>1, ChargingStep DEF Adjust
<1>5. CASE ExitFault(t)
  BY <1>1, <1>2, <1>5, ChargingStep DEF ExitFault
<1>6. CASE ExitCharged(t)
  BY <1>1, <1>6, MoveOnStep DEF ExitCharged
<1> QED  BY <1>3, <1>4, <1>5, <1>6 DEF Monitor

LEMMA ChargeStopStep ==
  ASSUME TaskInv, NEW t \in Tasks, ChargeStop(t)
  PROVE  TaskInv'
<1> DEFINE next == "TASK_OVER"
<1>1. /\ Iterate(t, "TASK_CHARGE_STOP", next, Index(t))
      /\ SetContactor(t, FALSE)
      /\ counted' \subseteq Tasks /\ UNCHANGED <<battery, pileVars>>
  BY DEF ChargeStop, Sleep, TaskInv, TypeOK
<1>2. TypeOK /\ next \in States /\ next \in Working
  BY DEF TaskInv, States, Working
<1>3. TypeOK'
  <2>1. contactor' \in [Agvs -> BOOLEAN]
    BY <1>1, <1>2 DEF SetContactor, TypeOK
  <2> QED  BY <1>1, <1>2, <2>1, IterateTypes, IndexNat DEF TypeOK, pileVars
<1>4. Listed' /\ RoomToCreate'
  BY <1>1, <1>2, IterateLists
<1>5. ContactorAttended'
  <2> SUFFICES ASSUME ~DbFails, NEW a \in Agvs, contactor'[a]
               PROVE  \E u \in Tasks : Attends(u, a)'
    BY DEF ContactorAttended
  <2>1. state' = [state EXCEPT ![t] = next] /\ agv' = agv
    BY <1>1 DEF Iterate
  <2>2. contactor' = [contactor EXCEPT ![agv[t]] = FALSE]
    BY <1>1 DEF SetContactor
  <2>3. a # agv[t] /\ contactor[a]
    BY <1>2, <2>2 DEF TypeOK
  <2>4. PICK u \in Tasks : Attends(u, a)
    BY <2>3 DEF TaskInv, ContactorAttended
  <2>5. u # t
    BY <2>3, <2>4 DEF Attends
  <2> QED  BY <1>2, <2>1, <2>4, <2>5, AttendsKept
<1> QED  BY <1>3, <1>4, <1>5 DEF TaskInv

LEMMA CleanedType ==
  ASSUME battery \in Seq(Agvs \cup {NoAgv}), NEW a
  PROVE  /\ Cleaned(a) \in Seq(Agvs \cup {NoAgv})
         /\ Len(Cleaned(a)) = Len(battery)
         /\ \A i \in DOMAIN battery : Cleaned(a)[i] = battery[i] \/ Cleaned(a)[i] = NoAgv
BY DEF Cleaned

LEMMA OverStep ==
  ASSUME TaskInv, NEW t \in Tasks, Over(t)
  PROVE  TaskInv'
<1> DEFINE next == "STOPPED"
<1>1. /\ Iterate(t, "TASK_OVER", next, Index(t))
      /\ battery' = Cleaned(agv[t])
      /\ UNCHANGED <<contactor, pileVars, counted>>
  BY DEF Over
<1>2. TypeOK /\ next \in States /\ next \in Working \cup {"STOPPED"}
  BY DEF TaskInv, States
<1>3. TypeOK'
  <2>1. battery' \in Seq(Agvs \cup {NoAgv})
    BY <1>1, <1>2, CleanedType DEF TypeOK
  <2> QED  BY <1>1, <1>2, <2>1, IterateTypes, IndexNat DEF TypeOK, pileVars
<1>4. Listed' /\ RoomToCreate'
  BY <1>1, <1>2, IterateLists
<1>5. ContactorAttended'
  <2>1. state' = [state EXCEPT ![t] = next] /\ agv' = agv /\ contactor' = contactor
    BY <1>1 DEF Iterate
  <2>2. state[t] = "TASK_OVER"
    BY <1>1 DEF Iterate, Current
  <2> QED  BY <1>2, <2>1, <2>2, ContactorKept DEF TaskInv
<1> QED  BY <1>3, <1>4, <1>5 DEF TaskInv

LEMMA UnlistStep ==
  ASSUME TaskInv, NEW t \in Tasks, Unlist(t)
  PROVE  TaskInv'
<1> USE DEF TaskInv, Unlist
<1>1. TypeOK'
  BY DEF TypeOK, States, pileVars
<1>2. Listed'
  BY DEF Listed, TypeOK
<1>3. RoomToCreate'
  BY TaskFacts DEF RoomToCreate, TypeOK
<1>4. ContactorAttended'
  BY ContactorKept DEF Working
<1> QED  BY <1>1, <1>2, <1>3, <1>4

LEMMA DeleteStep ==
  ASSUME TaskInv, NEW t \in Tasks, Delete(t)
  PROVE  TaskInv'
<1> USE DEF TaskInv, Delete
<1>1. TypeOK'
  <2>1. 0 \in 0 .. Capacity
    BY BoundsAssumption
  <2> QED  BY <2>1 DEF TypeOK, States, pileVars
<1>2. Listed'
  BY DEF Listed, TypeOK
<1>3. RoomToCreate'
  BY TaskFacts DEF RoomToCreate, TypeOK
<1>4. ContactorAttended'
  BY ContactorKept DEF Working
<1> QED  BY <1>1, <1>2, <1>3, <1>4

LEMMA TaskStepInv ==
  ASSUME TaskInv, NEW t \in Tasks, TaskStep(t) \/ Monitor(t)
  PROVE  TaskInv'
<1>1. /\ {"ARM_OUT", "ARM_IN"} \subseteq Commands
      /\ {"TASK_WAIT_ARM_OUT_STATE", "TASK_CHARGE_CURRENT", "TASK_WAIT_ARM_IN_STATE",
          "TASK_CHARGE_STOP"} \subseteq Working \ {"TASK_CHARGE_START", "TASK_OVER"}
  BY DEF Commands, Working
<1>2. CASE ReturnFalse(t)
  BY <1>2, ReturnFalseStep
<1>3. CASE ChargeStart(t)
  BY <1>3, ChargeStartStep
<1>4. CASE SendArm(t, "TASK_ARM_OUT_STATE", "ARM_OUT") \/ SendArm(t, "TASK_ARM_IN_STATE", "ARM_IN")
  BY <1>1, <1>4, SendArmStep
<1>5. CASE ArmSent(t, "TASK_ARM_OUT_STATE", "TASK_WAIT_ARM_OUT_STATE")
  BY <1>1, <1>5, MoveOnStep DEF ArmSent
<1>6. CASE ArmSent(t, "TASK_ARM_IN_STATE", "TASK_WAIT_ARM_IN_STATE")
  BY <1>1, <1>6, MoveOnStep DEF ArmSent
<1>7. CASE \/ Count(t, "TASK_WAIT_ARM_OUT_STATE", ArmOutWait)
           \/ Count(t, "TASK_WAIT_ARM_IN_STATE", ArmInWait)
  BY <1>7, CountStep
<1>8. CASE Waited(t, "TASK_WAIT_ARM_OUT_STATE", ArmOutWait, "TASK_CHARGE_CURRENT")
  BY <1>1, <1>8, MoveOnStep DEF Waited
<1>9. CASE Waited(t, "TASK_WAIT_ARM_IN_STATE", ArmInWait, "TASK_CHARGE_STOP")
  BY <1>1, <1>9, MoveOnStep DEF Waited
<1>10. CASE ChargeCurrent(t) \/ Monitor(t)
  BY <1>10, ChargeCurrentStep
<1>11. CASE ChargeStop(t)
  BY <1>11, ChargeStopStep
<1>12. CASE Over(t)
  BY <1>12, OverStep
<1>13. CASE Unlist(t)
  BY <1>13, UnlistStep
<1>14. CASE Delete(t)
  BY <1>14, DeleteStep
<1> QED  BY <1>2, <1>3, <1>4, <1>5, <1>6, <1>7, <1>8, <1>9, <1>10, <1>11, <1>12, <1>13, <1>14 DEF TaskStep
-----------------------------------------------------------------------------
(* What a step of a pile does. *)
LEMMA PileStepInv ==
  ASSUME TaskInv, NEW p \in Piles, PileStep(p) \/ Reconnect(p)
  PROVE  TaskInv'
<1> USE DEF TaskInv
<1>1. UNCHANGED <<taskVars, registered, main, battery, contactor>>
  BY DEF PileStep, Handle, Rest, Reconnect
<1>2. commands' \in [Piles -> Seq(Commands)]
  <2>1. commands \in [Piles -> Seq(Commands)] /\ commands[p] \in Seq(Commands)
    BY DEF TypeOK
  <2>2. CASE commands' = commands
    BY <2>1, <2>2
  <2>3. CASE commands[p] # << >> /\ commands' = [commands EXCEPT ![p] = Tail(@)]
    <3>1. Tail(commands[p]) \in Seq(Commands)
      BY <2>1, <2>3
    <3> QED  BY <2>1, <2>3, <3>1
  <2> QED  BY <2>2, <2>3 DEF PileStep, Handle, Rest, Reconnect, pileVars
<1>3. link' \in [Piles -> {"up", "down", "dead"}] /\ arm' \in [Piles -> {"in", "out"}]
  <2>1. CASE Handle(p)
    <3>1. link' = link \/ link' = [link EXCEPT ![p] = "down"]
      BY <2>1 DEF Handle
    <3>2. arm' = arm \/ Moved(p, Head(commands[p]))
      BY <2>1 DEF Handle
    <3> QED  BY <3>1, <3>2 DEF Moved, TypeOK
  <2>2. CASE Rest(p) \/ Reconnect(p)
    BY <2>2 DEF Rest, Reconnect, pileVars, TypeOK
  <2> QED  BY <2>1, <2>2 DEF PileStep
<1>4. counted' \subseteq Tasks
  BY DEF PileStep, Handle, Rest, Reconnect, Turn, TypeOK
<1>5. TypeOK'
  BY <1>1, <1>2, <1>3, <1>4 DEF TypeOK, taskVars
<1>6. Listed' /\ RoomToCreate'
  BY <1>1 DEF taskVars, Listed, RoomToCreate
<1>7. ContactorAttended'
  BY <1>1 DEF taskVars, ContactorAttended, Attends
<1> QED  BY <1>5, <1>6, <1>7
-----------------------------------------------------------------------------
(* What a step of the main thread does. *)

(* The slot of an AGV is its own, else a free one, else the next. *)
LEMMA SlotFacts ==
  ASSUME battery \in Seq(Agvs \cup {NoAgv}), NEW a \in Agvs
  PROVE  /\ SlotOf(a) \in 1 .. Len(battery) + 1
         /\ SlotOf(a) \in DOMAIN battery => battery[SlotOf(a)] \in {a, NoAgv}
         /\ Slots(a) # {} => SlotOf(a) \in Slots(a)
         /\ SlotOf(a) \notin DOMAIN battery => Slots(a) = {} /\ Slots(NoAgv) = {}
<1>1. Len(battery) \in Nat /\ DOMAIN battery = 1 .. Len(battery)
  OBVIOUS
<1>2. \A b : Slots(b) \subseteq Nat /\ Slots(b) \subseteq 1 .. Len(battery)
  BY <1>1 DEF Slots
<1>3. CASE Slots(a) # {}
  <2>1. SlotOf(a) \in Slots(a)
    BY <1>2, <1>3, OldestIn DEF SlotOf
  <2> QED  BY <1>1, <1>2, <2>1 DEF Slots
<1>4. CASE Slots(a) = {} /\ Slots(NoAgv) # {}
  <2>1. SlotOf(a) \in Slots(NoAgv)
    BY <1>2, <1>4, OldestIn DEF SlotOf
  <2> QED  BY <1>1, <1>2, <1>4, <2>1 DEF Slots
<1>5. CASE Slots(a) = {} /\ Slots(NoAgv) = {}
  <2>1. SlotOf(a) = Len(battery) + 1
    BY <1>5 DEF SlotOf
  <2> QED  BY <1>1, <1>5, <2>1
<1> QED  BY <1>3, <1>4, <1>5

LEMMA WithSlotFacts ==
  ASSUME battery \in Seq(Agvs \cup {NoAgv}), NEW a \in Agvs
  PROVE  /\ WithSlot(a) \in Seq(Agvs \cup {NoAgv})
         /\ SlotOf(a) \in DOMAIN battery => Len(WithSlot(a)) = Len(battery)
         /\ SlotOf(a) \notin DOMAIN battery => Len(WithSlot(a)) = Len(battery) + 1
         /\ WithSlot(a)[SlotOf(a)] = a
         /\ \A i \in DOMAIN WithSlot(a) \ {SlotOf(a)} :
               i \in DOMAIN battery /\ WithSlot(a)[i] = battery[i]
<1> DEFINE n == IF SlotOf(a) > Len(battery) THEN SlotOf(a) ELSE Len(battery)
           new == [i \in 1 .. n |-> IF i = SlotOf(a) THEN a ELSE battery[i]]
<1>1. Len(battery) \in Nat /\ DOMAIN battery = 1 .. Len(battery)
      /\ \A i \in 1 .. Len(battery) : battery[i] \in Agvs \cup {NoAgv}
  OBVIOUS
<1>2. SlotOf(a) \in 1 .. Len(battery) + 1
  BY SlotFacts
<1>3. n \in Nat /\ \A i \in 1 .. n : i = SlotOf(a) \/ i \in 1 .. Len(battery)
  BY <1>1, <1>2
<1>4. \A i \in 1 .. n : new[i] \in Agvs \cup {NoAgv}
  BY <1>1, <1>3
<1>5. new \in Seq(Agvs \cup {NoAgv}) /\ Len(new) = n /\ DOMAIN new = 1 .. n
  <2>1. new \in [1 .. n -> Agvs \cup {NoAgv}]
    BY <1>4
  <2> HIDE DEF new, n
  <2> QED  BY <1>3, <2>1, SeqDef, LenProperties
<1>6. WithSlot(a) = new
  BY DEF WithSlot
<1>7. SlotOf(a) \in 1 .. n
  BY <1>1, <1>2
<1>8. /\ SlotOf(a) \in DOMAIN battery => n = Len(battery)
      /\ SlotOf(a) \notin DOMAIN battery => n = Len(battery) + 1
  BY <1>1, <1>2
<1> QED  BY <1>1, <1>3, <1>5, <1>6, <1>7, <1>8

LEMMA InitBatteryStep ==
  ASSUME TaskInv, NEW a \in Agvs, NEW p \in Piles \cup {NoPile}, InitBattery(a, p)
  PROVE  TaskInv'
<1> USE DEF TaskInv, InitBattery
<1>1. battery \in Seq(Agvs \cup {NoAgv})
  BY DEF TypeOK
<1>2. battery' \in Seq(Agvs \cup {NoAgv})
  BY <1>1, WithSlotFacts
<1>3. main' \in MainStates
  <2>1. SlotOf(a) \in Nat \ {0}
    BY <1>1, SlotFacts
  <2> QED  BY <2>1 DEF MainStates
<1>4. TypeOK'
  BY <1>2, <1>3 DEF TypeOK, taskVars, pileVars
<1>5. Listed' /\ RoomToCreate'
  BY DEF taskVars, Listed, RoomToCreate
<1>6. ContactorAttended'
  BY DEF taskVars, ContactorAttended, Attends
<1> QED  BY <1>4, <1>5, <1>6

LEMMA AddTaskFacts ==
  ASSUME TaskInv, AddTask
  PROVE  \E t \in Tasks, s \in {"NULL_ARG", "TASK_CHARGE_START"} :
           /\ state[t] = "none"
           /\ state' = [state EXCEPT ![t] = s]
           /\ agv' = [agv EXCEPT ![t] = main.agv]
           /\ pile' = [pile EXCEPT ![t] = main.pile]
           /\ registered' = registered \cup {t}
           /\ main.agv \in Agvs /\ main.pile \in Piles \cup {NoPile}
<1> DEFINE new == {u \in Tasks : state[u] = "none"}
           t == Oldest(new)
<1>1. new \subseteq Nat /\ new # {}
  BY TaskFacts DEF AddTask, TaskInv, RoomToCreate
<1>2. t \in new
  <2> HIDE DEF new
  <2> QED  BY <1>1, OldestIn
<1>3. main.agv \in Agvs /\ main.pile \in Piles \cup {NoPile}
  BY DEF AddTask, TaskInv, TypeOK, MainStates
<1>4. \E s \in {"NULL_ARG", "TASK_CHARGE_START"} :
        /\ state' = [state EXCEPT ![t] = s]
        /\ agv' = [agv EXCEPT ![t] = main.agv]
        /\ pile' = [pile EXCEPT ![t] = main.pile]
        /\ registered' = registered \cup {t}
  <2> HIDE DEF t
  <2> QED  BY DEF AddTask, t
<1> QED  BY <1>2, <1>3, <1>4

LEMMA AddTaskStep ==
  ASSUME TaskInv, AddTask
  PROVE  TaskInv'
<1> USE DEF TaskInv
<1>1. PICK t \in Tasks, s \in {"NULL_ARG", "TASK_CHARGE_START"} :
        /\ state[t] = "none"
        /\ state' = [state EXCEPT ![t] = s]
        /\ agv' = [agv EXCEPT ![t] = main.agv]
        /\ pile' = [pile EXCEPT ![t] = main.pile]
        /\ registered' = registered \cup {t}
        /\ main.agv \in Agvs /\ main.pile \in Piles \cup {NoPile}
  BY AddTaskFacts
<1>2. main' = Idle /\ UNCHANGED <<index, stops, battery, contactor, pileVars, counted>>
  BY DEF AddTask
<1>3. TypeOK'
  BY <1>1, <1>2 DEF TypeOK, States, Working, MainStates, Idle, pileVars
<1>4. Listed'
  BY <1>1 DEF Listed, TypeOK
<1>5. RoomToCreate'
  BY <1>2 DEF RoomToCreate, Idle
<1>6. ContactorAttended'
  BY <1>1, <1>2, ZenonT(60) DEF ContactorAttended, Attends, Working, TypeOK
<1> QED  BY <1>3, <1>4, <1>5, <1>6

LEMMA FindTaskStep ==
  ASSUME TaskInv, NEW a \in Agvs, FindTask(a)
  PROVE  TaskInv'
<1> USE DEF TaskInv, FindTask
<1>1. Entries(a) \subseteq Nat /\ Entries(a) \subseteq Tasks /\ Entries(a) # {}
  BY TaskFacts DEF Entries, IsOver, TypeOK
<1>2. Oldest(Entries(a)) \in Tasks
  BY <1>1, OldestIn
<1>3. main' \in MainStates
  BY <1>2 DEF MainStates
<1>4. TypeOK'
  BY <1>3 DEF TypeOK, taskVars, pileVars
<1>5. Listed' /\ RoomToCreate'
  BY DEF taskVars, Listed, RoomToCreate
<1>6. ContactorAttended'
  BY DEF taskVars, ContactorAttended, Attends
<1> QED  BY <1>4, <1>5, <1>6

LEMMA WriteStopStep ==
  ASSUME TaskInv, WriteStop
  PROVE  TaskInv'
<1> USE DEF TaskInv, WriteStop
<1>1. stops' \in [Tasks -> 0 .. Capacity]
  <2>1. main.task \in Tasks
    BY DEF TypeOK, MainStates
  <2>2. stops \in [Tasks -> 0 .. Capacity]
    BY DEF TypeOK
  <2>3. stops[main.task] # Capacity => stops[main.task] + 1 \in 0 .. Capacity
    BY <2>1, <2>2, BoundsAssumption
  <2> QED  BY <2>2, <2>3
<1>2. TypeOK'
  BY <1>1 DEF TypeOK, pileVars, MainStates, Idle
<1>3. Listed' /\ RoomToCreate'
  BY DEF Listed, RoomToCreate, Idle
<1>4. ContactorAttended'
  BY DEF ContactorAttended, Attends
<1> QED  BY <1>2, <1>3, <1>4
-----------------------------------------------------------------------------
LEMMA NextTaskInv == TaskInv /\ [Next]_vars => TaskInv'
<1> SUFFICES ASSUME TaskInv, [Next]_vars PROVE TaskInv'
  OBVIOUS
<1>1. CASE \E a \in Agvs, p \in Piles \cup {NoPile} : InitBattery(a, p)
  BY <1>1, InitBatteryStep
<1>2. CASE AddTask
  BY <1>2, AddTaskStep
<1>3. CASE \E a \in Agvs : FindTask(a)
  BY <1>3, FindTaskStep
<1>4. CASE WriteStop
  BY <1>4, WriteStopStep
<1>5. CASE \E t \in Tasks : TaskStep(t) \/ Monitor(t)
  BY <1>5, TaskStepInv
<1>6. CASE \E p \in Piles : PileStep(p) \/ Reconnect(p)
  BY <1>6, PileStepInv
<1>7. CASE UNCHANGED vars
  BY <1>7 DEF vars, taskVars, pileVars, TaskInv, TypeOK, Listed, RoomToCreate,
              ContactorAttended, Attends
<1> QED  BY <1>1, <1>2, <1>3, <1>4, <1>5, <1>6, <1>7 DEF Next

(* What TaskInv says of an AGV with no entry in the registry. *)
LEMMA InvOverIsSafe == TaskInv => OverIsSafe
<1> SUFFICES ASSUME TaskInv, NEW a \in Agvs, IsOver(a)
             PROVE  /\ \A t \in Tasks : agv[t] = a => state[t] \notin Working
                    /\ ~DbFails => ~contactor[a]
  BY DEF OverIsSafe
<1>1. \A t \in Tasks : agv[t] = a => state[t] \notin Working
  BY DEF TaskInv, Listed, IsOver, Entries, Working
<1>2. ~DbFails => ~contactor[a]
  BY <1>1 DEF TaskInv, ContactorAttended, Attends
<1> QED  BY <1>1, <1>2
-----------------------------------------------------------------------------
(* The battery table. *)

(* A table of distinct AGVs, none of them a, is shorter than there are AGVs. *)
LEMMA Pigeonhole ==
  ASSUME battery \in Seq(Agvs \cup {NoAgv}), BatteryTableBounded,
         NEW a \in Agvs, Slots(a) = {}, Slots(NoAgv) = {}
  PROVE  Len(battery) + 1 <= Cardinality(Agvs)
<1> DEFINE n == Len(battery)
           others == Agvs \ {a}
<1>1. n \in Nat /\ DOMAIN battery = 1 .. n
  OBVIOUS
<1>2. battery \in [1 .. n -> others]
  BY <1>1 DEF Slots
<1>3. battery \in Injection(1 .. n, others)
  BY <1>1, <1>2, NullAssumption DEF BatteryTableBounded, Injection, IsInjective
<1>4. IsFiniteSet(others) /\ Cardinality(others) = Cardinality(Agvs) - 1
  BY FiniteAssumption, FS_RemoveElement
<1>5. Cardinality(1 .. n) <= Cardinality(others)
  <2> HIDE DEF n, others
  <2> QED  BY <1>3, <1>4, FS_Injection
<1>6. Cardinality(1 .. n) = n
  <2> HIDE DEF n
  <2> QED  BY <1>1, FS_Interval
<1>7. Cardinality(Agvs) \in Nat
  BY FiniteAssumption, FS_CardinalityType
<1> QED  BY <1>1, <1>4, <1>5, <1>6, <1>7

LEMMA InitBatteryBounded ==
  ASSUME battery \in Seq(Agvs \cup {NoAgv}), BatteryTableBounded, NEW a \in Agvs,
         battery' = WithSlot(a)
  PROVE  BatteryTableBounded'
<1>1. Len(battery') <= Cardinality(Agvs)
  <2>1. CASE SlotOf(a) \in DOMAIN battery
    BY <2>1, WithSlotFacts DEF BatteryTableBounded
  <2>2. CASE SlotOf(a) \notin DOMAIN battery
    BY <2>2, WithSlotFacts, SlotFacts, Pigeonhole
  <2> QED  BY <2>1, <2>2
<1>2. ASSUME NEW i \in DOMAIN battery', i # SlotOf(a), battery'[i] = a
      PROVE  FALSE
  <2>1. i \in Slots(a)
    BY <1>2, WithSlotFacts DEF Slots
  <2>2. SlotOf(a) \in Slots(a)
    BY <2>1, SlotFacts
  <2> QED  BY <1>2, <2>1, <2>2, NullAssumption DEF Slots, BatteryTableBounded
<1>3. ASSUME NEW i \in DOMAIN battery', NEW j \in DOMAIN battery',
             battery'[i] = battery'[j], battery'[i] # NoAgv
      PROVE  i = j
  <2>1. CASE i # SlotOf(a) /\ j # SlotOf(a)
    BY <1>3, <2>1, WithSlotFacts DEF BatteryTableBounded
  <2>2. CASE i = SlotOf(a) \/ j = SlotOf(a)
    BY <1>2, <1>3, <2>2, WithSlotFacts
  <2> QED  BY <2>1, <2>2
<1> QED  BY <1>1, <1>3 DEF BatteryTableBounded

LEMMA NextBounded == TypeOK /\ BatteryTableBounded /\ [Next]_vars => BatteryTableBounded'
<1> SUFFICES ASSUME TypeOK, BatteryTableBounded, [Next]_vars
             PROVE  BatteryTableBounded'
  OBVIOUS
<1>1. battery \in Seq(Agvs \cup {NoAgv})
  BY DEF TypeOK
<1>2. CASE \E a \in Agvs : battery' = WithSlot(a)
  BY <1>1, <1>2, InitBatteryBounded
<1>3. CASE \E a : battery' = Cleaned(a)
  <2>1. Len(battery') = Len(battery) /\ battery' \in Seq(Agvs \cup {NoAgv})
    BY <1>1, <1>3, CleanedType
  <2>2. DOMAIN battery' = DOMAIN battery
    BY <1>1, <2>1
  <2>3. \A i \in DOMAIN battery : battery'[i] = battery[i] \/ battery'[i] = NoAgv
    BY <1>1, <1>3, CleanedType
  <2> QED  BY <2>1, <2>2, <2>3 DEF BatteryTableBounded
<1>4. CASE battery' = battery
  BY <1>4 DEF BatteryTableBounded
<1>5. ASSUME NEW t \in Tasks, TaskStep(t) \/ Monitor(t)
      PROVE  battery' = battery \/ \E a : battery' = Cleaned(a)
  <2>1. CASE Over(t)
    BY <2>1 DEF Over
  <2>2. CASE TaskStep(t) /\ ~Over(t)
    BY <2>2 DEF TaskStep, ReturnFalse, ChargeStart, SendArm, ArmSent, Count, Waited,
                ChargeCurrent, ChargeStop, Unlist, Delete
  <2>3. CASE Monitor(t)
    BY <2>3 DEF Monitor, Adjust, ExitFault, ExitCharged
  <2> QED  BY <1>5, <2>1, <2>2, <2>3
<1>6. ASSUME NEW p \in Piles, PileStep(p) \/ Reconnect(p)
      PROVE  battery' = battery
  BY <1>6 DEF PileStep, Handle, Rest, Reconnect
<1>7. ASSUME ~ \E a \in Agvs : battery' = WithSlot(a)
      PROVE  battery' = battery \/ \E a : battery' = Cleaned(a)
  BY <1>5, <1>6, <1>7 DEF Next, InitBattery, AddTask, FindTask, WriteStop, vars
<1> QED  BY <1>2, <1>3, <1>4, <1>7
-----------------------------------------------------------------------------
THEOREM TaskInvariance == Spec => []TaskInv
<1>1. Init => TaskInv
  BY InitTaskInv
<1>2. TaskInv /\ [Next]_vars => TaskInv'
  BY NextTaskInv
<1> QED  BY <1>1, <1>2, PTL DEF Spec

(* Every variable keeps its type, whatever the order of the threads' steps. *)
THEOREM TaskTypes == Spec => []TypeOK
<1>1. TaskInv => TypeOK
  BY DEF TaskInv
<1> QED  BY <1>1, TaskInvariance, PTL

(* A battery is never left connected with no task in charge of it *)
(* (charge_task.cpp:286-304, 309-320, 501-508).                   *)
THEOREM NoContactorForgotten == Spec => []ContactorAttended
<1>1. TaskInv => ContactorAttended
  BY DEF TaskInv
<1> QED  BY <1>1, TaskInvariance, PTL

(* When the registry says that charging is over, nothing of it is going on *)
(* (charge_task.cpp:108-117).                                              *)
THEOREM OverMeansOver == Spec => []OverIsSafe
BY InvOverIsSafe, TaskInvariance, PTL

(* The battery table never outgrows the AGVs (agv_battery.cpp:475-521). *)
THEOREM TableBounded == Spec => []BatteryTableBounded
<1>1. Init => BatteryTableBounded
  <2>1. Cardinality(Agvs) \in Nat
    BY FiniteAssumption, FS_CardinalityType
  <2> QED  BY <2>1 DEF Init, BatteryTableBounded
<1>2. TypeOK /\ BatteryTableBounded /\ [Next]_vars => BatteryTableBounded'
  BY NextBounded
<1> QED  BY <1>1, <1>2, TaskTypes, PTL DEF Spec
=============================================================================
