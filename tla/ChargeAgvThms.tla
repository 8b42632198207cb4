--------------------------- MODULE ChargeAgvThms ----------------------------
(***************************************************************************)
(* Theorems about ChargeAgv.tla, for any AGVs, piles and bounds.           *)
(***************************************************************************)
EXTENDS ChargeAgv, ChargeTaskThms

(***************************************************************************)
(* Why a second charging task is never created: an AGV with an entry in    *)
(* the registry is held, by its charging chain and Is_Charging_, by an     *)
(* order that locks it, or, its chain being cancelled, by an Is_Charging_  *)
(* that only the operator resets.                                          *)
(***************************************************************************)
Charged(a) == charging[a] \in {"CHARGING", "PAUSE"}
Held(a) ==
  \/ chain[a] \in {"BEGIN", "IS_CHARGING"} /\ Charged(a)
  \/ ordered[a]
  \/ "cancel" \in Operator /\ chain[a] \in {"none", "ABORT"} /\ Charged(a)

OneEntry == \A t, u \in registered : agv[t] = agv[u] => t = u
AtItsPile == \A t \in registered : agv[t] \in Agvs /\ pile[t] \in Piles /\ place[agv[t]] = pile[t]
EntryHeld == \A a \in Agvs : ~IsOver(a) => Held(a)
CreatedHeld ==
  main.op = "create" =>
    /\ IsOver(main.agv)
    /\ charging[main.agv] = "PENDING"
    /\ main.pile \in Piles /\ place[main.agv] = main.pile
OrderLocks == \A a \in Agvs : ordered[a] => locked[a]
CarryLocks == \A a \in Agvs : carrying[a] => locked[a] /\ ~ordered[a] /\ charging[a] = "STOP"

FlagInv ==
  /\ PlacesApart /\ OneEntry /\ AtItsPile
  /\ EntryHeld /\ CreatedHeld /\ OrderLocks /\ CarryLocks

AgvInv == AgvTypeOK /\ TaskInv /\ FlagInv

(* The operator does not both cancel a charge and unlock its AGV. *)
OneButton == ~ {"cancel", "unlock"} \subseteq Operator

LEMMA InitAgvInv == AgvInit => AgvInv
<1> SUFFICES ASSUME AgvInit PROVE AgvInv
  OBVIOUS
<1>1. TaskInv
  BY InitTaskInv DEF AgvInit
<1>2. AgvTypeOK
  BY <1>1 DEF AgvInit, AgvTypeOK, TaskInv, ChargingValues, ChainValues
<1>3. FlagInv
  BY DEF AgvInit, Init, Idle, FlagInv, OneEntry, AtItsPile, EntryHeld, CreatedHeld, OrderLocks,
         CarryLocks, IsOver, Entries
<1> QED  BY <1>1, <1>2, <1>3 DEF AgvInv
-----------------------------------------------------------------------------
(* Every step is one that ChargeTask.tla allows, or changes nothing of it. *)
LEMMA AgvStepIsStep == AgvTypeOK /\ [AgvNext]_allVars => [Next]_vars
<1> SUFFICES ASSUME AgvTypeOK, [AgvNext]_allVars PROVE [Next]_vars
  OBVIOUS
<1>1. CASE Threads \/ BeginChain
  BY <1>1 DEF Threads, BeginChain, Next
<1>2. ASSUME NEW a \in Agvs, StartCharging(a)
      PROVE  Next
  <2>1. place[a] \in Piles
    BY <1>2 DEF StartCharging, AgvTypeOK
  <2> QED  BY <1>2, <2>1 DEF StartCharging, Next
<1>3. ASSUME NEW a \in Agvs, PauseCharging(a) \/ Cancel(a)
      PROVE  [Next]_vars
  BY <1>3 DEF PauseCharging, Cancel, StopCharging, Next
<1>4. ASSUME NEW a \in Agvs,
             \/ Battery(a) \/ UnlockCharged(a) \/ KeepCharging(a) \/ FetchOrder(a) \/ BeginCarry(a)
             \/ Leave(a) \/ EndCarry(a) \/ Check(a) \/ Unlock(a)
      PROVE  UNCHANGED vars
  BY <1>4 DEF Battery, UnlockCharged, KeepCharging, FetchOrder, BeginCarry, Leave,
              EndCarry, Check, CheckBegin, CheckCharging, CheckOver, CheckAbort, ChainTo, Unlock
<1>5. CASE UNCHANGED allVars
  BY <1>5 DEF allVars
<1> QED  BY <1>1, <1>2, <1>3, <1>4, <1>5 DEF AgvNext, MainNext

LEMMA AgvTypesKept ==
  AgvTypeOK /\ TaskInv /\ [AgvNext]_allVars => AgvTypeOK' /\ TaskInv'
<1> SUFFICES ASSUME AgvTypeOK, TaskInv, [AgvNext]_allVars PROVE AgvTypeOK' /\ TaskInv'
  OBVIOUS
<1>1. TaskInv'
  BY AgvStepIsStep, NextTaskInv
<1> DEFINE Types == /\ charging \in [Agvs -> ChargingValues]
                    /\ locked \in [Agvs -> BOOLEAN]
                    /\ chain \in [Agvs -> ChainValues]
                    /\ ordered \in [Agvs -> BOOLEAN]
                    /\ carrying \in [Agvs -> BOOLEAN]
                    /\ place \in [Agvs -> Piles \cup {Away}]
                    /\ level \in [Agvs -> Levels]
<1>2. Types
  BY DEF AgvTypeOK
<1>3. ASSUME Threads \/ UNCHANGED allVars
      PROVE  Types'
  <2>1. UNCHANGED agvVars
    BY <1>3 DEF Threads, allVars
  <2> QED  BY <1>2, <2>1 DEF agvVars
<1> USE DEF ChargingValues, ChainValues
<1>4. ASSUME BeginChain
      PROVE  Types'
  BY <1>2, <1>4 DEF BeginChain
<1>5. ASSUME NEW a \in Agvs,
             \/ StartCharging(a) \/ Battery(a) \/ UnlockCharged(a)
             \/ KeepCharging(a) \/ FetchOrder(a)
      PROVE  Types'
  BY <1>2, <1>5 DEF StartCharging, Battery, UnlockCharged, KeepCharging, FetchOrder
<1>6. ASSUME NEW a \in Agvs, PauseCharging(a) \/ BeginCarry(a) \/ Leave(a) \/ EndCarry(a)
      PROVE  Types'
  <2>1. CASE PauseCharging(a)
    BY <1>2, <2>1 DEF PauseCharging
  <2>2. CASE BeginCarry(a)
    BY <1>2, <2>2 DEF BeginCarry
  <2>3. CASE Leave(a)
    BY <1>2, <2>3 DEF Leave
  <2>4. CASE EndCarry(a)
    BY <1>2, <2>4 DEF EndCarry
  <2> QED  BY <1>6, <2>1, <2>2, <2>3, <2>4
<1>7. ASSUME NEW a \in Agvs, Check(a) \/ Cancel(a) \/ Unlock(a)
      PROVE  Types'
  <2>1. CASE CheckBegin(a) \/ CheckCharging(a) \/ CheckOver(a) \/ CheckAbort(a)
    <3>1. /\ chain' \in [Agvs -> ChainValues] /\ charging' \in [Agvs -> ChargingValues]
          /\ UNCHANGED <<locked, ordered, carrying, place, level>>
      BY <1>2, <2>1 DEF CheckBegin, CheckCharging, CheckOver, CheckAbort, ChainTo
    <3> QED  BY <1>2, <3>1
  <2>2. CASE Cancel(a)
    BY <1>2, <2>2 DEF Cancel
  <2>3. CASE Unlock(a)
    BY <1>2, <2>3 DEF Unlock
  <2> QED  BY <1>7, <2>1, <2>2, <2>3 DEF Check
<1>8. Types'
  BY <1>3, <1>4, <1>5, <1>6, <1>7 DEF AgvNext, MainNext
<1> QED  BY <1>1, <1>8 DEF AgvTypeOK, TaskInv
-----------------------------------------------------------------------------
(* The threads only ever remove entries. *)
LEMMA ThreadsShrink ==
  ASSUME Threads
  PROVE  /\ registered' \subseteq registered /\ agv' = agv /\ pile' = pile
         /\ main' = main \/ main' = Idle
         /\ UNCHANGED <<charging, locked, chain, ordered, carrying, place>>
<1> DEFINE Shrunk == /\ registered' \subseteq registered /\ agv' = agv /\ pile' = pile
                     /\ main' = main \/ main' = Idle
<1>1. ASSUME WriteStop
      PROVE  Shrunk
  BY <1>1 DEF WriteStop
<1>2. ASSUME NEW t \in Tasks, NEW s, NEW next, NEW count, Iterate(t, s, next, count)
      PROVE  UNCHANGED <<registered, agv, pile, main>>
  BY <1>2 DEF Iterate
<1>3. ASSUME NEW t \in Tasks, TaskStep(t) \/ Monitor(t)
      PROVE  registered' \subseteq registered /\ UNCHANGED <<agv, pile, main>>
  <2>1. CASE ReturnFalse(t) \/ Unlist(t) \/ Delete(t)
    BY <2>1 DEF ReturnFalse, Unlist, Delete
  <2>2. CASE ChargeStart(t) \/ ChargeCurrent(t) \/ ChargeStop(t) \/ Over(t)
    BY <1>2, <2>2 DEF ChargeStart, ChargeCurrent, ChargeStop, Over
  <2>3. CASE Monitor(t)
    BY <1>2, <2>3 DEF Monitor, Adjust, ExitFault, ExitCharged
  <2>4. ASSUME NEW s, NEW m, SendArm(t, s, m)
        PROVE  UNCHANGED <<registered, agv, pile, main>>
    BY <1>2, <2>4 DEF SendArm
  <2>5. ASSUME NEW s, NEW next, ArmSent(t, s, next)
        PROVE  UNCHANGED <<registered, agv, pile, main>>
    BY <1>2, <2>5 DEF ArmSent
  <2>6. ASSUME NEW s, NEW bound, Count(t, s, bound)
        PROVE  UNCHANGED <<registered, agv, pile, main>>
    BY <1>2, <2>6 DEF Count
  <2>7. ASSUME NEW s, NEW bound, NEW next, Waited(t, s, bound, next)
        PROVE  UNCHANGED <<registered, agv, pile, main>>
    BY <1>2, <2>7 DEF Waited
  <2> QED  BY <1>3, <2>1, <2>2, <2>3, <2>4, <2>5, <2>6, <2>7 DEF TaskStep
<1>4. ASSUME NEW p \in Piles, PileStep(p) \/ Reconnect(p)
      PROVE  UNCHANGED <<registered, agv, pile, main>>
  <2>1. UNCHANGED <<taskVars, registered, main>>
    BY <1>4 DEF PileStep, Handle, Rest, Reconnect
  <2> QED  BY <2>1 DEF taskVars
<1>5. Shrunk
  BY <1>1, <1>3, <1>4 DEF Threads
<1> QED  BY <1>5 DEF Threads, agvVars

(* An AGV can only lose entries when tasks are removed. *)
LEMMA OverStays ==
  ASSUME registered' \subseteq registered, agv' = agv, NEW a, IsOver(a)
  PROVE  IsOver(a)'
BY DEF IsOver, Entries

LEMMA ThreadsFlags ==
  ASSUME AgvInv, Threads
  PROVE  FlagInv'
<1> USE DEF AgvInv, FlagInv
<1>1. /\ registered' \subseteq registered /\ agv' = agv /\ pile' = pile
      /\ main' = main \/ main' = Idle
      /\ UNCHANGED <<charging, locked, chain, ordered, carrying, place>>
  BY ThreadsShrink
<1>2. PlacesApart' /\ OneEntry' /\ AtItsPile'
  BY <1>1 DEF PlacesApart, OneEntry, AtItsPile
<1>3. EntryHeld'
  BY <1>1, OverStays DEF EntryHeld, Held, Charged
<1>4. CreatedHeld'
  BY <1>1, OverStays DEF CreatedHeld, Idle
<1>5. OrderLocks' /\ CarryLocks'
  BY <1>1 DEF OrderLocks, CarryLocks
<1> QED  BY <1>2, <1>3, <1>4, <1>5
-----------------------------------------------------------------------------
(* The steps of the main thread that leave the threads' state alone. *)

LEMMA OrdersFlags ==
  ASSUME AgvInv, NEW a \in Agvs,
         Battery(a) \/ UnlockCharged(a) \/ KeepCharging(a) \/ FetchOrder(a) \/ BeginCarry(a)
  PROVE  FlagInv'
<1> USE DEF AgvInv, FlagInv
<1>1. UNCHANGED vars /\ UNCHANGED <<charging, chain, place>> /\ main = Idle
  BY DEF Battery, UnlockCharged, KeepCharging, FetchOrder, BeginCarry
<1>2. UNCHANGED <<registered, agv, pile, main>>
  BY <1>1 DEF vars, taskVars
<1>3. /\ locked \in [Agvs -> BOOLEAN] /\ ordered \in [Agvs -> BOOLEAN]
      /\ carrying \in [Agvs -> BOOLEAN]
  BY DEF AgvTypeOK
<1>4. PlacesApart' /\ OneEntry' /\ AtItsPile' /\ CreatedHeld'
  BY <1>1, <1>2 DEF PlacesApart, OneEntry, AtItsPile, CreatedHeld, Idle
<1>5. \A b \in Agvs : IsOver(b)' = IsOver(b)
  BY <1>2 DEF IsOver, Entries
<1>6. EntryHeld'
  <2>1. \A b \in Agvs : ~IsOver(b) /\ ordered[b] => ordered'[b]
    BY <1>3 DEF Battery, UnlockCharged, KeepCharging, FetchOrder, BeginCarry
  <2> QED  BY <1>1, <1>5, <2>1 DEF EntryHeld, Held, Charged
<1>7. OrderLocks' /\ CarryLocks'
  <2>1. CASE UnlockCharged(a)
    BY <1>3, <2>1 DEF UnlockCharged, OrderLocks, CarryLocks
  <2>4. CASE Battery(a)
    BY <2>4 DEF Battery, OrderLocks, CarryLocks
  <2>5. CASE KeepCharging(a)
    BY <1>3, <2>5 DEF KeepCharging, OrderLocks, CarryLocks
  <2>2. CASE FetchOrder(a)
    BY <1>3, <2>2 DEF FetchOrder, OrderLocks, CarryLocks
  <2>3. CASE BeginCarry(a)
    BY <1>3, <2>3 DEF BeginCarry, OrderLocks, CarryLocks
  <2> QED  BY <2>1, <2>2, <2>3, <2>4, <2>5
<1> QED  BY <1>4, <1>6, <1>7

(* An AGV that drives carries something, and so has no entry. *)
LEMMA DriveFlags ==
  ASSUME AgvInv, NEW a \in Agvs, Leave(a) \/ EndCarry(a)
  PROVE  FlagInv'
<1> USE DEF AgvInv, FlagInv
<1>1. UNCHANGED <<charging, chain, ordered>> /\ UNCHANGED vars /\ carrying[a]
  BY DEF Leave, EndCarry
<1>2. UNCHANGED <<registered, agv, pile, main>>
  BY <1>1 DEF vars, taskVars
<1>3. /\ locked \in [Agvs -> BOOLEAN] /\ carrying \in [Agvs -> BOOLEAN]
      /\ place \in [Agvs -> Piles \cup {Away}]
  BY DEF AgvTypeOK
<1>4. locked[a] /\ ~ordered[a] /\ charging[a] = "STOP"
  BY <1>1 DEF CarryLocks
<1>5. IsOver(a)
  BY <1>4 DEF EntryHeld, Held, Charged
<1>6. \E p \in Piles \cup {Away} :
        /\ place' = [place EXCEPT ![a] = p]
        /\ p = Away \/ \A b \in Agvs : place[b] # p
  BY DEF Leave, EndCarry
<1>7. PlacesApart'
  BY <1>3, <1>6 DEF PlacesApart
<1>8. OneEntry'
  BY <1>2 DEF OneEntry
<1>9. AtItsPile'
  BY <1>2, <1>3, <1>5, <1>6 DEF AtItsPile, IsOver, Entries
<1>10. \A b \in Agvs : IsOver(b)' = IsOver(b)
  BY <1>2 DEF IsOver, Entries
<1>11. EntryHeld'
  BY <1>1, <1>10 DEF EntryHeld, Held, Charged
<1>12. CreatedHeld'
  <2>1. main.op = "create" => main.agv \in Agvs /\ main.agv # a
    BY <1>4 DEF CreatedHeld, AgvTypeOK, TypeOK, MainStates
  <2>2. \A b \in Agvs : b # a => place'[b] = place[b]
    BY <1>3, <1>6
  <2> QED  BY <1>1, <1>2, <1>10, <2>1, <2>2 DEF CreatedHeld
<1>13. OrderLocks' /\ CarryLocks'
  <2>1. \A b \in Agvs : b # a => locked'[b] = locked[b] /\ carrying'[b] = carrying[b]
    BY <1>3 DEF Leave, EndCarry
  <2>2. carrying'[a] => locked'[a]
    BY <1>3, <1>4 DEF Leave, EndCarry
  <2> QED  BY <1>1, <1>4, <2>1, <2>2 DEF OrderLocks, CarryLocks
<1> QED  BY <1>7, <1>8, <1>9, <1>11, <1>12, <1>13

LEMMA CheckFlags ==
  ASSUME AgvInv, NEW a \in Agvs, Check(a)
  PROVE  FlagInv'
<1> USE DEF AgvInv, FlagInv
<1>1. UNCHANGED vars /\ UNCHANGED <<locked, ordered, carrying, place>> /\ main = Idle
  BY DEF Check, CheckBegin, CheckCharging, CheckOver, CheckAbort, ChainTo
<1>2. UNCHANGED <<registered, agv, pile, main>>
  BY <1>1 DEF vars, taskVars
<1>3. charging \in [Agvs -> ChargingValues] /\ chain \in [Agvs -> ChainValues]
  BY DEF AgvTypeOK
<1>4. PlacesApart' /\ OneEntry' /\ AtItsPile' /\ CreatedHeld' /\ OrderLocks'
  BY <1>1, <1>2 DEF PlacesApart, OneEntry, AtItsPile, CreatedHeld, OrderLocks, Idle
<1>5. \A b \in Agvs : IsOver(b)' = IsOver(b)
  BY <1>2 DEF IsOver, Entries
<1>6. \A b \in Agvs : b # a => chain'[b] = chain[b] /\ charging'[b] = charging[b]
  BY <1>3 DEF Check, CheckBegin, CheckCharging, CheckOver, CheckAbort, ChainTo
<1>7. ~IsOver(a) /\ Held(a) => Held(a)'
  <2>1. CASE CheckBegin(a) \/ CheckAbort(a)
    BY <1>1, <1>3, <2>1 DEF CheckBegin, CheckAbort, ChainTo, Held, Charged
  <2>2. CASE CheckCharging(a)
    BY <2>2 DEF CheckCharging
  <2>3. CASE CheckOver(a)
    BY <1>1, <1>3, <2>3 DEF CheckOver, ChainTo, Held
  <2> QED  BY <2>1, <2>2, <2>3 DEF Check
<1>8. EntryHeld'
  BY <1>1, <1>5, <1>6, <1>7 DEF EntryHeld, Held, Charged
<1>9. CarryLocks'
  <2>1. charging'[a] = charging[a] \/ charging'[a] = "STOP"
    BY <1>3 DEF Check, CheckBegin, CheckCharging, CheckOver, CheckAbort
  <2> QED  BY <1>1, <1>6, <2>1 DEF CarryLocks
<1> QED  BY <1>4, <1>8, <1>9

(* The only step that needs the operator not to use both buttons. *)
LEMMA UnlockFlags ==
  ASSUME AgvInv, OneButton, NEW a \in Agvs, Unlock(a)
  PROVE  FlagInv'
<1> USE DEF AgvInv, FlagInv, Unlock
<1>1. UNCHANGED vars /\ main = Idle
  OBVIOUS
<1>2. UNCHANGED <<registered, agv, pile, main>>
  BY <1>1 DEF vars, taskVars
<1>3. charging \in [Agvs -> ChargingValues] /\ locked \in [Agvs -> BOOLEAN]
  BY DEF AgvTypeOK
<1>4. PlacesApart' /\ OneEntry' /\ AtItsPile' /\ CreatedHeld'
  BY <1>1, <1>2 DEF PlacesApart, OneEntry, AtItsPile, CreatedHeld, Idle
<1>5. \A b \in Agvs : IsOver(b)' = IsOver(b)
  BY <1>2 DEF IsOver, Entries
<1>6. "cancel" \notin Operator
  BY DEF OneButton
<1>7. IsOver(a)
  BY <1>6 DEF EntryHeld, Held
<1>8. EntryHeld'
  BY <1>3, <1>5, <1>7 DEF EntryHeld, Held, Charged
<1>9. OrderLocks' /\ CarryLocks'
  BY <1>3 DEF OrderLocks, CarryLocks
<1> QED  BY <1>4, <1>8, <1>9
-----------------------------------------------------------------------------
(* The steps of the main thread that start and stop tasks. *)

LEMMA StartChargingFlags ==
  ASSUME AgvInv, NEW a \in Agvs, StartCharging(a)
  PROVE  FlagInv'
<1> USE DEF AgvInv, FlagInv
<1>1. /\ UNCHANGED <<taskVars, registered>> /\ UNCHANGED <<chain, ordered, carrying, place>>
      /\ ~locked[a] /\ charging[a] = "STOP" /\ place[a] # Away
      /\ charging' = [charging EXCEPT ![a] = "PENDING"]
      /\ locked' = [locked EXCEPT ![a] = level[a] # "OK"]
      /\ main' = [op |-> "create", agv |-> a, pile |-> place[a], slot |-> SlotOf(a)]
  BY DEF StartCharging, InitBattery
<1>2. UNCHANGED <<registered, agv, pile>>
  BY <1>1 DEF taskVars
<1>3. /\ charging \in [Agvs -> ChargingValues] /\ locked \in [Agvs -> BOOLEAN]
      /\ place[a] \in Piles
  BY <1>1 DEF AgvTypeOK
<1>4. PlacesApart' /\ OneEntry' /\ AtItsPile'
  BY <1>1, <1>2 DEF PlacesApart, OneEntry, AtItsPile
<1>5. \A b \in Agvs : IsOver(b)' = IsOver(b)
  BY <1>2 DEF IsOver, Entries
<1>6. IsOver(a) /\ ~ordered[a] /\ ~carrying[a]
  BY <1>1 DEF EntryHeld, Held, Charged, OrderLocks, CarryLocks
<1>7. EntryHeld'
  BY <1>1, <1>3, <1>5, <1>6 DEF EntryHeld, Held, Charged
<1>8. CreatedHeld'
  BY <1>1, <1>3, <1>5, <1>6 DEF CreatedHeld
<1>9. OrderLocks' /\ CarryLocks'
  BY <1>1, <1>3, <1>6 DEF OrderLocks, CarryLocks
<1> QED  BY <1>4, <1>7, <1>8, <1>9

LEMMA BeginChainFlags ==
  ASSUME AgvInv, BeginChain
  PROVE  FlagInv'
<1> USE DEF AgvInv, FlagInv
<1>0. PICK a : a = main.agv
  OBVIOUS
<1>1. /\ AddTask /\ main.op = "create" /\ main' = Idle
      /\ charging' = [charging EXCEPT ![a] = "CHARGING"]
      /\ chain' = [chain EXCEPT ![a] = "BEGIN"]
      /\ UNCHANGED <<locked, ordered, carrying, place>>
  BY <1>0 DEF BeginChain, AddTask
<1>2. PICK t \in Tasks :
        /\ agv' = [agv EXCEPT ![t] = a]
        /\ pile' = [pile EXCEPT ![t] = main.pile]
        /\ registered' = registered \cup {t}
        /\ state[t] = "none"
        /\ a \in Agvs
  BY <1>0, <1>1, AddTaskFacts
<1>3. /\ IsOver(a) /\ charging[a] = "PENDING"
      /\ main.pile \in Piles /\ place[a] = main.pile
  BY <1>0, <1>1 DEF CreatedHeld
<1>4. /\ agv \in [Tasks -> Agvs \cup {NoAgv}] /\ pile \in [Tasks -> Piles \cup {NoPile}]
      /\ registered \subseteq Tasks /\ t \notin registered
      /\ charging \in [Agvs -> ChargingValues] /\ chain \in [Agvs -> ChainValues]
  BY <1>2 DEF AgvTypeOK, TypeOK, TaskInv, Listed
<1>5. PlacesApart' /\ OrderLocks'
  BY <1>1 DEF PlacesApart, OrderLocks
<1>6. \A u \in registered : agv'[u] = agv[u] /\ pile'[u] = pile[u] /\ agv[u] # a
  BY <1>2, <1>3, <1>4 DEF IsOver, Entries
<1>7. agv'[t] = a /\ pile'[t] = main.pile
  BY <1>2, <1>4
<1>8. OneEntry'
  BY <1>2, <1>6, <1>7 DEF OneEntry
<1>9. AtItsPile'
  BY <1>1, <1>2, <1>3, <1>6, <1>7 DEF AtItsPile
<1>10. EntryHeld'
  <2>1. Held(a)'
    BY <1>1, <1>2, <1>4 DEF Held, Charged
  <2>2. ASSUME NEW b \in Agvs, b # a, ~IsOver(b)'
        PROVE  Held(b)'
    <3>1. ~IsOver(b)
      BY <1>2, <1>6, <1>7, <2>2 DEF IsOver, Entries
    <3> QED  BY <1>1, <1>4, <2>2, <3>1 DEF EntryHeld, Held, Charged
  <2> QED  BY <2>1, <2>2 DEF EntryHeld
<1>11. CreatedHeld'
  BY <1>1 DEF CreatedHeld, Idle
<1>12. CarryLocks'
  BY <1>1, <1>2, <1>3, <1>4 DEF CarryLocks
<1> QED  BY <1>5, <1>8, <1>9, <1>10, <1>11, <1>12

LEMMA StopFlags ==
  ASSUME AgvInv, NEW a \in Agvs, PauseCharging(a) \/ Cancel(a)
  PROVE  FlagInv'
<1> USE DEF AgvInv, FlagInv
<1>1. UNCHANGED <<locked, ordered, carrying, place>> /\ main = Idle /\ StopCharging(a)
  BY DEF PauseCharging, Cancel, StopCharging
<1>2. UNCHANGED <<registered, agv, pile>> /\ main'.op # "create"
  <2>1. UNCHANGED <<taskVars, registered>>
    BY <1>1 DEF StopCharging, FindTask, vars
  <2>2. main'.op # "create"
    BY <1>1 DEF StopCharging, FindTask, vars, Idle
  <2> QED  BY <2>1, <2>2 DEF taskVars
<1>3. charging \in [Agvs -> ChargingValues] /\ chain \in [Agvs -> ChainValues]
  BY DEF AgvTypeOK
<1>4. PlacesApart' /\ OneEntry' /\ AtItsPile' /\ CreatedHeld' /\ OrderLocks'
  BY <1>1, <1>2 DEF PlacesApart, OneEntry, AtItsPile, CreatedHeld, OrderLocks
<1>5. \A b \in Agvs : IsOver(b)' = IsOver(b)
  BY <1>2 DEF IsOver, Entries
<1>6. EntryHeld'
  <2>1. \A b \in Agvs : b # a => chain'[b] = chain[b] /\ charging'[b] = charging[b]
    BY <1>3 DEF PauseCharging, Cancel
  <2>2. CASE PauseCharging(a)
    BY <1>1, <1>5, <2>1, <2>2 DEF PauseCharging, EntryHeld, Held, Charged
  <2>3. CASE Cancel(a)
    <3>1. /\ "cancel" \in Operator /\ chain[a] \in {"BEGIN", "IS_CHARGING", "OVER"}
          /\ chain'[a] = "ABORT" /\ charging' = charging
      BY <1>3, <2>3 DEF Cancel
    <3>2. ~IsOver(a) => Held(a)'
      BY <1>1, <3>1 DEF EntryHeld, Held, Charged
    <3> QED  BY <1>1, <1>5, <2>1, <3>2 DEF EntryHeld, Held, Charged
  <2> QED  BY <2>2, <2>3
<1>7. CarryLocks'
  <2>1. CASE PauseCharging(a)
    BY <1>1, <1>3, <2>1 DEF PauseCharging, CarryLocks
  <2>2. CASE Cancel(a)
    BY <1>1, <2>2 DEF Cancel, CarryLocks
  <2> QED  BY <2>1, <2>2
<1> QED  BY <1>4, <1>6, <1>7
-----------------------------------------------------------------------------
LEMMA NextAgvInv == OneButton /\ AgvInv /\ [AgvNext]_allVars => AgvInv'
<1> SUFFICES ASSUME OneButton, AgvInv, [AgvNext]_allVars PROVE AgvInv'
  OBVIOUS
<1>1. AgvTypeOK' /\ TaskInv'
  BY AgvTypesKept DEF AgvInv
<1>2. CASE Threads
  BY <1>1, <1>2, ThreadsFlags DEF AgvInv
<1>3. CASE BeginChain
  BY <1>1, <1>3, BeginChainFlags DEF AgvInv
<1>4. ASSUME NEW a \in Agvs, MainNext(a)
      PROVE  FlagInv'
  <2>1. CASE StartCharging(a)
    BY <2>1, StartChargingFlags
  <2>2. CASE Battery(a) \/ UnlockCharged(a) \/ KeepCharging(a) \/ FetchOrder(a) \/ BeginCarry(a)
    BY <2>2, OrdersFlags
  <2>3. CASE PauseCharging(a) \/ Cancel(a)
    BY <2>3, StopFlags
  <2>4. CASE Leave(a) \/ EndCarry(a)
    BY <2>4, DriveFlags
  <2>5. CASE Check(a)
    BY <2>5, CheckFlags
  <2>6. CASE Unlock(a)
    BY <2>6, UnlockFlags
  <2> QED  BY <1>4, <2>1, <2>2, <2>3, <2>4, <2>5, <2>6 DEF MainNext
<1>5. CASE UNCHANGED allVars
  <2>1. UNCHANGED <<state, agv, pile, registered, main>> /\ UNCHANGED agvVars
    BY <1>5 DEF allVars, vars, taskVars
  <2>2. UNCHANGED <<charging, locked, chain, ordered, carrying, place>>
    BY <2>1 DEF agvVars
  <2>3. \A a \in Agvs : IsOver(a)' = IsOver(a)
    BY <2>1 DEF IsOver, Entries
  <2>4. CreatedHeld'
    BY <2>1, <2>2 DEF AgvInv, FlagInv, CreatedHeld, IsOver, Entries
  <2>5. FlagInv'
    BY <2>1, <2>2, <2>3, <2>4
       DEF AgvInv, FlagInv, PlacesApart, OneEntry, AtItsPile, EntryHeld, Held, Charged,
           OrderLocks, CarryLocks
  <2> QED  BY <1>1, <2>5 DEF AgvInv
<1> QED  BY <1>1, <1>2, <1>3, <1>4, <1>5 DEF AgvNext, AgvInv

LEMMA InvTasksApart == AgvInv => TasksApart
<1> SUFFICES ASSUME AgvInv, NEW t \in Running, NEW u \in Running, t # u
             PROVE  agv[t] # agv[u] /\ pile[t] # pile[u]
  BY DEF TasksApart
<1> USE DEF AgvInv, FlagInv
<1>1. t \in registered /\ u \in registered
  BY DEF Running, TaskInv, Listed, Working
<1>2. agv[t] # agv[u]
  BY <1>1 DEF OneEntry
<1>3. /\ agv[t] \in Agvs /\ pile[t] \in Piles /\ place[agv[t]] = pile[t]
      /\ agv[u] \in Agvs /\ pile[u] \in Piles /\ place[agv[u]] = pile[u]
  BY <1>1 DEF AtItsPile
<1>4. Away \notin Piles
  BY AwayAssumption
<1> QED  BY <1>2, <1>3, <1>4 DEF PlacesApart

(* Only Leave moves an AGV off a pile. *)
LEMMA StepDepart ==
  ASSUME AgvInv, [AgvNext]_allVars, NEW a \in Agvs, place[a] # Away, place'[a] = Away
  PROVE  /\ \A t \in Running : agv[t] # a
         /\ ~DbFails => ~contactor[a]
<1> USE DEF AgvInv, FlagInv
<1>1. place \in [Agvs -> Piles \cup {Away}]
  BY DEF AgvTypeOK
<1>2. place' # place
  OBVIOUS
<1>3. PICK b \in Agvs : Leave(b) \/ EndCarry(b)
  <2>1. ~ (Threads \/ BeginChain \/ UNCHANGED allVars)
    BY <1>2 DEF Threads, BeginChain, agvVars, allVars
  <2>2. ASSUME NEW b \in Agvs, MainNext(b), ~Leave(b), ~EndCarry(b)
        PROVE  FALSE
    <3>1. ~ \/ StartCharging(b) \/ Battery(b) \/ UnlockCharged(b)
            \/ KeepCharging(b) \/ FetchOrder(b) \/ PauseCharging(b)
      BY <1>2 DEF StartCharging, Battery, UnlockCharged, KeepCharging, FetchOrder, PauseCharging
    <3>2. ~ (BeginCarry(b) \/ Check(b) \/ Cancel(b) \/ Unlock(b))
      BY <1>2 DEF BeginCarry, Check, CheckBegin, CheckCharging, CheckOver, CheckAbort,
                  ChainTo, Cancel, Unlock
    <3> QED  BY <2>2, <3>1, <3>2 DEF MainNext
  <2> QED  BY <2>1, <2>2 DEF AgvNext
<1>4. b = a /\ carrying[a]
  BY <1>1, <1>3 DEF Leave, EndCarry
<1>5. IsOver(a)
  BY <1>4 DEF CarryLocks, EntryHeld, Held, Charged
<1>6. OverIsSafe
  BY InvOverIsSafe
<1> QED  BY <1>5, <1>6 DEF OverIsSafe, Running
-----------------------------------------------------------------------------
(***************************************************************************)
(* The arm of a pile follows the tasks at it, if the pile answers and      *)
(* keeps up.  A stop message sends a task back to its first ARM_IN; an     *)
(* order stops a charge once and the operator once more, so that the queue *)
(* of a pile is Longest at most: the current 0 behind one that waits, and  *)
(* then the ARM_IN of a task that ended by itself and was stopped as often *)
(* as can be, each time after the last ARM_IN.  The code sends three       *)
(* times, its queues hold 32, and its waits of 15 s and 6 s are 30 and 12  *)
(* turns of a pile: KeepsUp holds, with nothing to spare in the last.      *)
(***************************************************************************)
Stops == IF "cancel" \in Operator THEN 2 ELSE 1
Sends(f) == IF f = 0 THEN 0 ELSE IF f = 1 THEN ArmSends ELSE 2 * ArmSends
Longest == Sends(Stops) + ArmSends + 2

KeepsUp ==
  /\ Prompt /\ ~LinkFails
  /\ ArmSends >= 1
  /\ Longest <= Capacity
  /\ ArmOutWait > ArmSends
  /\ ArmInWait > Longest

(* The stop messages that a task has yet to read: those in its queue, the one *)
(* being written, and those that an order and the operator may still send.    *)
One(P) == IF P THEN 1 ELSE 0
Owed(t) ==
  stops[t] + One(main = [op |-> "stop", task |-> t]) + One(charging[agv[t]] = "CHARGING")
    + One("cancel" \in Operator /\ chain[agv[t]] \in {"BEGIN", "IS_CHARGING", "OVER"})

(* What the queue c of a pile will do to its arm, which is b. *)
NoArmIn(c) == \A i \in DOMAIN c : c[i] # "ARM_IN"
GoesOut(c, b) == NoArmIn(c) /\ (b = "out" \/ (c # << >> /\ Head(c) = "ARM_OUT"))
ComesIn(c, b) == IF c = << >> THEN b = "in" ELSE c[Len(c)] = "ARM_IN"
AtRest(c, b) == c = << >> /\ b = "in"

(* At any time: nothing but ARM_IN behind an ARM_IN, no current before the arm is out. *)
Ordered(c, b) ==
  /\ \A i, j \in DOMAIN c : i < j /\ c[i] = "ARM_IN" => c[j] = "ARM_IN"
  /\ c # << >> /\ Head(c) = "START_CHARGE" => b = "out"

(***************************************************************************)
(* What a task in state s with the counter i, that may be stopped f times, *)
(* knows of the pile; n is 1 if the pile has had no turn since the task    *)
(* slept, and 0 otherwise.                                                 *)
(***************************************************************************)
Phase(s, i, c, b, n, f) ==
  CASE s = "TASK_CHARGE_START" -> i = 0 /\ c = << >>
    [] s = "TASK_ARM_OUT_STATE" ->
         i <= ArmSends /\ Len(c) <= i /\ (i # 0 => GoesOut(c, b))
    [] s = "TASK_WAIT_ARM_OUT_STATE" ->
         GoesOut(c, b) /\ Len(c) <= ArmSends /\ (c = << >> \/ Len(c) + i <= ArmSends + n)
    [] s = "TASK_CHARGE_CURRENT" -> c = << >> /\ b = "out"
    [] s = "TASK_CHARGE_STATE" -> GoesOut(c, b) /\ Len(c) <= n
    [] s = "TASK_ARM_IN_STATE" ->
         /\ i <= ArmSends /\ (i # 0 => ComesIn(c, b))
         /\ Len(c) + Sends(f) + ArmSends <= Longest + i
    [] s = "TASK_WAIT_ARM_IN_STATE" ->
         /\ ComesIn(c, b)
         /\ Len(c) + Sends(f) <= Longest /\ (c = << >> \/ Len(c) + i <= Longest + n)
    [] OTHER -> AtRest(c, b)

Counted(t) == IF t \in counted THEN 1 ELSE 0
TaskPhase(t) == Phase(state[t], index[t], commands[pile[t]], arm[pile[t]], Counted(t), Owed(t))

Unborn(t) == index[t] = 0 /\ stops[t] = 0 /\ main # [op |-> "stop", task |-> t]

ArmInv ==
  /\ \A t \in Running : Owed(t) <= Stops /\ TaskPhase(t)
  /\ \A p \in Piles : Ordered(commands[p], arm[p])
  /\ \A p \in Piles : (\A t \in Running : pile[t] # p) => AtRest(commands[p], arm[p])
  /\ \A t \in Tasks : state[t] = "none" => Unborn(t)

(* The stop messages that are left when the task has read one, if there was one. *)
Left(t) == Owed(t) - One(stops[t] > 0)

(* What a post makes of a queue. *)
Posted(c, m) == IF Len(c) < Capacity THEN Append(c, m) ELSE c
-----------------------------------------------------------------------------
LEMMA SendsIs ==
  /\ ArmSends \in Nat /\ Capacity \in Nat /\ ArmOutWait \in Nat /\ ArmInWait \in Nat
  /\ Stops \in 1 .. 2 /\ Longest \in Nat
  /\ \A f \in 0 .. 2 : Sends(f) \in Nat
  /\ \A f \in 1 .. 2 : Sends(f) = Sends(f - 1) + ArmSends
  /\ \A f \in 0 .. 2, g \in 0 .. 2 : g <= f => Sends(g) <= Sends(f)
<1>1. ArmSends \in Nat /\ Capacity \in Nat /\ ArmOutWait \in Nat /\ ArmInWait \in Nat
  BY BoundsAssumption
<1>2. Stops \in 1 .. 2
  BY DEF Stops
<1>3. Sends(0) = 0 /\ Sends(1) = ArmSends /\ Sends(2) = 2 * ArmSends
  BY DEF Sends
<1>4. 0 .. 2 = {0, 1, 2} /\ 1 .. 2 = {1, 2} /\ 1 - 1 = 0 /\ 2 - 1 = 1
  OBVIOUS
<1>5. \A f \in 0 .. 2 : Sends(f) \in Nat
  BY <1>1, <1>3, <1>4
<1>6. \A f \in 1 .. 2 : Sends(f) = Sends(f - 1) + ArmSends
  BY <1>1, <1>3, <1>4
<1>7. \A f \in 0 .. 2, g \in 0 .. 2 : g <= f => Sends(g) <= Sends(f)
  BY <1>1, <1>3, <1>4
<1>8. Longest \in Nat
  BY <1>1, <1>2, <1>5 DEF Longest
<1> QED  BY <1>1, <1>2, <1>5, <1>6, <1>7, <1>8

(* The room of the queue, for a task that was not stopped as often as can be. *)
LEMMA LongestIs ==
  ASSUME NEW f \in 0 .. Stops
  PROVE  /\ f \in 0 .. 2 /\ Sends(f) \in Nat
         /\ Sends(f) + ArmSends + 2 <= Longest
<1>1. f \in 0 .. 2 /\ Stops \in 0 .. 2 /\ f <= Stops
  BY SendsIs
<1>2. Sends(f) \in Nat /\ Sends(Stops) \in Nat /\ Sends(f) <= Sends(Stops)
  BY <1>1, SendsIs
<1> QED  BY <1>1, <1>2, SendsIs DEF Longest

LEMMA AppendIs ==
  ASSUME NEW c \in Seq(Commands), NEW m
  PROVE  /\ Len(Append(c, m)) = Len(c) + 1
         /\ Append(c, m) # << >>
         /\ \A i \in 1 .. Len(c) : Append(c, m)[i] = c[i]
         /\ Append(c, m)[Len(c) + 1] = m
         /\ Head(Append(c, m)) = IF c = << >> THEN m ELSE Head(c)
<1>1. /\ Len(Append(c, m)) = Len(c) + 1
      /\ \A i \in 1 .. Len(c) : Append(c, m)[i] = c[i]
      /\ Append(c, m)[Len(c) + 1] = m
  OBVIOUS
<1>2. Append(c, m) # << >>
  BY <1>1
<1>3. Head(Append(c, m)) = Append(c, m)[1]
  OBVIOUS
<1>4. CASE c = << >>
  BY <1>1, <1>2, <1>3, <1>4
<1>5. CASE c # << >>
  <2>1. 1 \in 1 .. Len(c) /\ Head(c) = c[1]
    BY <1>5
  <2> QED  BY <1>1, <1>2, <1>3, <1>5, <2>1
<1> QED  BY <1>4, <1>5

(* An ARM_OUT or a START_CHARGE behind a queue that leaves the arm out... *)
LEMMA PostOut ==
  ASSUME NEW c \in Seq(Commands), NEW b, Ordered(c, b), NoArmIn(c),
         NEW m \in {"ARM_OUT", "START_CHARGE"}, Len(c) < Capacity,
         \/ m = "ARM_OUT" /\ c = << >>
         \/ GoesOut(c, b)
  PROVE  GoesOut(Posted(c, m), b) /\ Ordered(Posted(c, m), b) /\ Len(Posted(c, m)) = Len(c) + 1
<1> DEFINE d == Append(c, m)
<1>1. Posted(c, m) = d
  BY DEF Posted
<1>2. /\ Len(d) = Len(c) + 1 /\ d # << >> /\ d \in Seq(Commands)
      /\ \A i \in 1 .. Len(c) : d[i] = c[i]
      /\ d[Len(c) + 1] = m
      /\ Head(d) = IF c = << >> THEN m ELSE Head(c)
  BY AppendIs DEF Commands
<1>3. DOMAIN c = 1 .. Len(c) /\ DOMAIN d = 1 .. Len(c) + 1 /\ Len(c) \in Nat
  BY <1>2
<1> HIDE DEF d
<1>4. \A i \in DOMAIN d : d[i] # "ARM_IN"
  <2> SUFFICES ASSUME NEW i \in DOMAIN d PROVE d[i] # "ARM_IN"
    OBVIOUS
  <2>1. i \in 1 .. Len(c) \/ i = Len(c) + 1
    BY <1>3
  <2> QED  BY <1>2, <1>3, <2>1 DEF NoArmIn
<1>5. GoesOut(d, b)
  BY <1>2, <1>4 DEF GoesOut, NoArmIn
<1>6. Head(d) = "START_CHARGE" => b = "out"
  BY <1>2 DEF Ordered, GoesOut
<1> QED  BY <1>1, <1>2, <1>4, <1>5, <1>6 DEF Ordered

(* ...and an ARM_IN behind any. *)
LEMMA PostIn ==
  ASSUME NEW c \in Seq(Commands), NEW b, Ordered(c, b), Len(c) < Capacity
  PROVE  LET d == Posted(c, "ARM_IN")
         IN  ComesIn(d, b) /\ Ordered(d, b) /\ Len(d) = Len(c) + 1
<1> DEFINE d == Append(c, "ARM_IN")
<1>1. Posted(c, "ARM_IN") = d
  BY DEF Posted
<1>2. /\ Len(d) = Len(c) + 1 /\ d # << >> /\ d \in Seq(Commands)
      /\ \A i \in 1 .. Len(c) : d[i] = c[i]
      /\ d[Len(c) + 1] = "ARM_IN"
      /\ Head(d) = IF c = << >> THEN "ARM_IN" ELSE Head(c)
  BY AppendIs DEF Commands
<1>3. DOMAIN c = 1 .. Len(c) /\ DOMAIN d = 1 .. Len(c) + 1 /\ Len(c) \in Nat
  BY <1>2
<1> HIDE DEF d
<1>4. \A i, j \in DOMAIN d : i < j /\ d[i] = "ARM_IN" => d[j] = "ARM_IN"
  <2> SUFFICES ASSUME NEW i \in DOMAIN d, NEW j \in DOMAIN d, i < j, d[i] = "ARM_IN"
               PROVE  d[j] = "ARM_IN"
    OBVIOUS
  <2>1. CASE j = Len(c) + 1
    BY <1>2, <2>1
  <2>2. CASE j # Len(c) + 1
    <3>1. i \in 1 .. Len(c) /\ j \in 1 .. Len(c)
      BY <1>3, <2>2
    <3> QED  BY <1>2, <1>3, <3>1 DEF Ordered
  <2> QED  BY <2>1, <2>2
<1>5. Head(d) = "START_CHARGE" => b = "out"
  BY <1>2 DEF Ordered
<1>6. ComesIn(d, b)
  BY <1>2 DEF ComesIn
<1> QED  BY <1>1, <1>2, <1>4, <1>5, <1>6 DEF Ordered

(* What a turn of the pile makes of its arm. *)
After(m, b) == IF m = "ARM_OUT" THEN "out" ELSE IF m = "ARM_IN" THEN "in" ELSE b

LEMMA TailIs ==
  ASSUME NEW c \in Seq(Commands), c # << >>
  PROVE  /\ Tail(c) \in Seq(Commands) /\ Len(Tail(c)) = Len(c) - 1 /\ Len(c) >= 1
         /\ \A i \in 1 .. Len(c) - 1 : Tail(c)[i] = c[i + 1]
         /\ Head(c) = c[1]
         /\ Tail(c) # << >> => Len(c) >= 2 /\ Head(Tail(c)) = c[2]
<1>1. /\ Tail(c) \in Seq(Commands) /\ Len(Tail(c)) = Len(c) - 1 /\ Len(c) >= 1
      /\ \A i \in 1 .. Len(c) - 1 : Tail(c)[i] = c[i + 1]
      /\ Head(c) = c[1]
  OBVIOUS
<1>2. ASSUME Tail(c) # << >> PROVE Len(c) >= 2 /\ Head(Tail(c)) = c[2]
  <2>1. Len(Tail(c)) >= 1 /\ Head(Tail(c)) = Tail(c)[1]
    BY <1>1, <1>2
  <2>2. Len(c) >= 2 /\ 1 \in 1 .. Len(c) - 1
    BY <1>1, <2>1
  <2> QED  BY <1>1, <2>1, <2>2
<1> QED  BY <1>1, <1>2

(* A turn keeps the order of a queue and what it does to the arm. *)
LEMMA TurnKeeps ==
  ASSUME NEW c \in Seq(Commands), c # << >>, NEW b, Ordered(c, b)
  PROVE  /\ Ordered(Tail(c), After(Head(c), b))
         /\ GoesOut(c, b) => GoesOut(Tail(c), After(Head(c), b))
         /\ ComesIn(c, b) => ComesIn(Tail(c), After(Head(c), b))
<1> DEFINE d == Tail(c)
           h == After(Head(c), b)
<1>1. /\ d \in Seq(Commands) /\ Len(d) = Len(c) - 1 /\ Len(c) >= 1 /\ Len(c) \in Nat
      /\ \A i \in 1 .. Len(c) - 1 : d[i] = c[i + 1]
      /\ Head(c) = c[1]
      /\ d # << >> => Len(c) >= 2 /\ Head(d) = c[2]
  BY TailIs
<1>2. DOMAIN c = 1 .. Len(c) /\ DOMAIN d = 1 .. Len(c) - 1
  BY <1>1
<1>3. Head(c) \in Commands
  BY <1>1, <1>2
<1>5. \A i, j \in DOMAIN d : i < j /\ d[i] = "ARM_IN" => d[j] = "ARM_IN"
  <2> SUFFICES ASSUME NEW i \in DOMAIN d, NEW j \in DOMAIN d, i < j, d[i] = "ARM_IN"
               PROVE  d[j] = "ARM_IN"
    OBVIOUS
  <2>1. i + 1 \in DOMAIN c /\ j + 1 \in DOMAIN c /\ i + 1 < j + 1
        /\ d[i] = c[i + 1] /\ d[j] = c[j + 1]
    BY <1>1, <1>2
  <2> QED  BY <2>1 DEF Ordered
<1>6. ASSUME d # << >>, Head(d) = "START_CHARGE" PROVE h = "out"
  <2>1. 1 \in DOMAIN c /\ 2 \in DOMAIN c /\ c[2] = "START_CHARGE"
    BY <1>1, <1>2, <1>6
  <2>2. c[1] # "ARM_IN"
    BY <2>1 DEF Ordered
  <2>3. c[1] = "ARM_OUT" \/ c[1] = "START_CHARGE"
    BY <1>1, <1>3, <2>2 DEF Commands
  <2> QED  BY <1>1, <2>3 DEF Ordered, After
<1>7. ASSUME GoesOut(c, b) PROVE GoesOut(d, h)
  <2>1. NoArmIn(d)
    <3> SUFFICES ASSUME NEW i \in DOMAIN d PROVE d[i] # "ARM_IN"
      BY DEF NoArmIn
    <3>1. i + 1 \in DOMAIN c /\ d[i] = c[i + 1]
      BY <1>1, <1>2
    <3> QED  BY <1>7, <3>1 DEF GoesOut, NoArmIn
  <2>2. Head(c) # "ARM_IN"
    BY <1>1, <1>2, <1>7 DEF GoesOut, NoArmIn
  <2>3. h = "out"
    BY <1>7, <2>2 DEF GoesOut, After
  <2> QED  BY <2>1, <2>3 DEF GoesOut
<1>8. ASSUME ComesIn(c, b) PROVE ComesIn(d, h)
  <2>1. c[Len(c)] = "ARM_IN"
    BY <1>8 DEF ComesIn
  <2>2. CASE d = << >>
    <3>1. Len(c) = 1
      <4>1. Len(d) = Len(c) - 1 /\ Len(c) \in Nat
        BY <1>1
      <4> HIDE DEF d
      <4>2. Len(d) = 0
        BY <2>2
      <4> QED  BY <4>1, <4>2
    <3>2. Head(c) = "ARM_IN"
      BY <1>1, <2>1, <3>1
    <3> QED  BY <2>2, <3>2 DEF ComesIn, After
  <2>3. CASE d # << >>
    <3>1. Len(d) \in 1 .. Len(c) - 1 /\ Len(d) + 1 = Len(c)
      BY <1>1, <2>3
    <3>2. d[Len(d)] = "ARM_IN"
      BY <1>1, <2>1, <3>1
    <3> QED  BY <2>3, <3>2 DEF ComesIn
  <2> QED  BY <2>2, <2>3
<1> QED  BY <1>5, <1>6, <1>7, <1>8 DEF Ordered
-----------------------------------------------------------------------------
(* A turn of the pile, taken while a task is in some state... *)
LEMMA TurnPhase ==
  ASSUME NEW s \in Working, NEW i \in Nat, NEW c \in Seq(Commands), c # << >>, NEW b,
         NEW n \in 0 .. 1, NEW f \in 0 .. Stops, Ordered(c, b), Phase(s, i, c, b, n, f)
  PROVE  Phase(s, i, Tail(c), After(Head(c), b), 0, f)
<1> DEFINE d == Tail(c)
           h == After(Head(c), b)
<1>1. Len(d) = Len(c) - 1 /\ Len(c) \in Nat /\ ArmSends \in Nat /\ Longest \in Nat /\ Sends(f) \in Nat
  BY TailIs, SendsIs, LongestIs
<1>2. (GoesOut(c, b) => GoesOut(d, h)) /\ (ComesIn(c, b) => ComesIn(d, h))
  BY TurnKeeps
<1>3. s \notin {"TASK_CHARGE_START", "TASK_CHARGE_CURRENT", "TASK_CHARGE_STOP", "TASK_OVER"}
  BY DEF Phase, AtRest
<1> HIDE DEF d, h
<1>4. CASE s = "TASK_ARM_OUT_STATE"
  <2>1. i <= ArmSends /\ Len(c) <= i /\ (i # 0 => GoesOut(c, b))
    BY <1>4 DEF Phase
  <2>2. Len(d) <= i /\ (i # 0 => GoesOut(d, h))
    BY <1>1, <1>2, <2>1
  <2>3. Phase(s, i, d, h, 0, f)
    BY <1>4, <2>1, <2>2 DEF Phase
  <2> QED  BY <2>3 DEF d, h
<1>5. CASE s = "TASK_WAIT_ARM_OUT_STATE"
  <2>1. GoesOut(c, b) /\ Len(c) <= ArmSends /\ Len(c) + i <= ArmSends + n
    BY <1>5 DEF Phase
  <2>2. Len(d) <= ArmSends /\ Len(d) + i <= ArmSends + 0
    BY <1>1, <2>1
  <2>3. Phase(s, i, d, h, 0, f)
    BY <1>2, <1>5, <2>1, <2>2 DEF Phase
  <2> QED  BY <2>3 DEF d, h
<1>6. CASE s = "TASK_CHARGE_STATE"
  <2>1. GoesOut(c, b) /\ Len(c) <= n
    BY <1>6 DEF Phase
  <2>2. Len(d) <= 0
    BY <1>1, <2>1
  <2>3. Phase(s, i, d, h, 0, f)
    BY <1>2, <1>6, <2>1, <2>2 DEF Phase
  <2> QED  BY <2>3 DEF d, h
<1>7. CASE s = "TASK_ARM_IN_STATE"
  <2>1. /\ i <= ArmSends /\ (i # 0 => ComesIn(c, b))
        /\ Len(c) + Sends(f) + ArmSends <= Longest + i
    BY <1>7 DEF Phase
  <2>2. (i # 0 => ComesIn(d, h)) /\ Len(d) + Sends(f) + ArmSends <= Longest + i
    BY <1>1, <1>2, <2>1
  <2>3. Phase(s, i, d, h, 0, f)
    BY <1>7, <2>1, <2>2 DEF Phase
  <2> QED  BY <2>3 DEF d, h
<1>8. CASE s = "TASK_WAIT_ARM_IN_STATE"
  <2>1. ComesIn(c, b) /\ Len(c) + Sends(f) <= Longest /\ Len(c) + i <= Longest + n
    BY <1>8 DEF Phase
  <2>2. Len(d) + Sends(f) <= Longest /\ Len(d) + i <= Longest + 0
    BY <1>1, <2>1
  <2>3. Phase(s, i, d, h, 0, f)
    BY <1>2, <1>8, <2>1, <2>2 DEF Phase
  <2> QED  BY <2>3 DEF d, h
<1> QED  BY <1>3, <1>4, <1>5, <1>6, <1>7, <1>8 DEF Working

(* ...and one that finds nothing to do. *)
LEMMA RestPhase ==
  ASSUME NEW s \in Working, NEW i, NEW b, NEW n, NEW f, Phase(s, i, << >>, b, n, f)
  PROVE  Phase(s, i, << >>, b, 0, f)
<1>1. CASE s = "TASK_CHARGE_STATE"
  <2>1. GoesOut(<< >>, b) /\ Len(<< >>) <= 0
    BY <1>1 DEF Phase
  <2> QED  BY <1>1, <2>1 DEF Phase
<1>2. CASE s # "TASK_CHARGE_STATE"
  BY <1>2 DEF Phase
<1> QED  BY <1>1, <1>2

(* A task that will be stopped less often expects no more of its pile. *)
LEMMA FewerStops ==
  ASSUME NEW s \in Working, NEW i \in Nat, NEW c \in Seq(Commands), NEW b, NEW n,
         NEW f \in 0 .. Stops, NEW g \in 0 .. Stops, g <= f, Phase(s, i, c, b, n, f)
  PROVE  Phase(s, i, c, b, n, g)
<1>1. Sends(f) \in Nat /\ Sends(g) \in Nat /\ Sends(g) <= Sends(f)
      /\ ArmSends \in Nat /\ Longest \in Nat /\ Len(c) \in Nat
  <2>1. f \in 0 .. 2 /\ Sends(f) \in Nat
    BY LongestIs
  <2>2. g \in 0 .. 2 /\ Sends(g) \in Nat
    BY LongestIs
  <2>3. Sends(g) <= Sends(f)
    BY <2>1, <2>2, SendsIs
  <2>4. ArmSends \in Nat /\ Longest \in Nat /\ Len(c) \in Nat
    BY SendsIs
  <2> QED  BY <2>1, <2>2, <2>3, <2>4
<1>2. CASE s = "TASK_ARM_IN_STATE"
  <2>1. Len(c) + Sends(g) + ArmSends <= Longest + i
    BY <1>1, <1>2 DEF Phase
  <2> QED  BY <1>2, <2>1 DEF Phase
<1>3. CASE s = "TASK_WAIT_ARM_IN_STATE"
  <2>1. Len(c) + Sends(g) <= Longest
    BY <1>1, <1>3 DEF Phase
  <2> QED  BY <1>3, <2>1 DEF Phase
<1>4. CASE s \notin {"TASK_ARM_IN_STATE", "TASK_WAIT_ARM_IN_STATE"}
  BY <1>4 DEF Phase
<1> QED  BY <1>2, <1>3, <1>4

LEMMA RoomLeft ==
  ASSUME NEW l \in Nat, NEW k \in Nat, NEW less \in Nat, NEW more \in Nat, NEW most \in Nat,
         more = less + k, more + k + 2 <= most
  PROVE  /\ l <= k + 2 => l + less + k <= most
         /\ l + more <= most => l + less + k <= most
OBVIOUS

LEMMA SentByThen ==
  ASSUME NEW l \in Nat, NEW more \in Nat, NEW k \in Nat, NEW most \in Nat, NEW i \in Nat,
         i <= k, l + more + k <= most + i
  PROVE  l + more <= most
OBVIOUS

(* A stop message may come in any state: there is room for every ARM_IN. *)
LEMMA RoomForArmIn ==
  ASSUME KeepsUp, NEW s \in Working, NEW i \in Nat, NEW c \in Seq(Commands), NEW b,
         NEW n \in 0 .. 1, NEW f \in 1 .. Stops, Phase(s, i, c, b, n, f)
  PROVE  Len(c) + Sends(f - 1) + ArmSends <= Longest
<1>1. f \in 0 .. Stops /\ f \in 1 .. 2
  BY SendsIs
<1> PICK less : less = Sends(f - 1)
  OBVIOUS
<1>2. /\ ArmSends \in Nat /\ Longest \in Nat /\ Len(c) \in Nat /\ Len(<< >>) = 0
      /\ Sends(f) \in Nat /\ Sends(f) + ArmSends + 2 <= Longest
      /\ Sends(f) = less + ArmSends /\ less \in Nat
  <2>1. f - 1 \in 0 .. 2
    BY <1>1
  <2>2. less \in Nat /\ Sends(f) = less + ArmSends
    BY <1>1, <2>1, SendsIs
  <2>3. Sends(f) \in Nat /\ Sends(f) + ArmSends + 2 <= Longest
    BY <1>1, LongestIs
  <2>4. ArmSends \in Nat /\ Longest \in Nat /\ Len(c) \in Nat /\ Len(<< >>) = 0
    BY SendsIs
  <2> QED  BY <2>2, <2>3, <2>4
<1>3. ASSUME Len(c) <= ArmSends + 2 PROVE Len(c) + less + ArmSends <= Longest
  BY <1>2, <1>3, RoomLeft
<1>4. CASE s \in {"TASK_CHARGE_START", "TASK_CHARGE_CURRENT", "TASK_CHARGE_STOP", "TASK_OVER"}
  <2>1. c = << >>
    BY <1>4 DEF Phase, AtRest
  <2> QED  BY <1>2, <1>3, <2>1
<1>5. CASE s = "TASK_ARM_OUT_STATE"
  BY <1>2, <1>3, <1>5 DEF Phase
<1>6. CASE s = "TASK_WAIT_ARM_OUT_STATE"
  BY <1>2, <1>3, <1>6 DEF Phase
<1>7. CASE s = "TASK_CHARGE_STATE"
  BY <1>2, <1>3, <1>7, SMTT(30) DEF Phase
<1>8. CASE s = "TASK_ARM_IN_STATE"
  <2>1. i <= ArmSends /\ Len(c) + Sends(f) + ArmSends <= Longest + i
    BY <1>8 DEF Phase
  <2> PICK l, more : l = Len(c) /\ more = Sends(f)
    OBVIOUS
  <2>2. l \in Nat /\ more \in Nat /\ ArmSends \in Nat /\ Longest \in Nat /\ l + more + ArmSends <= Longest + i
    BY <1>2, <2>1
  <2>3. l + more <= Longest
    BY <1>2, <2>1, <2>2, SentByThen
  <2> QED  BY <1>2, <2>3, RoomLeft
<1>9. CASE s = "TASK_WAIT_ARM_IN_STATE"
  <2>1. Len(c) + Sends(f) <= Longest
    BY <1>9 DEF Phase
  <2> QED  BY <1>2, <2>1
<1> QED  BY <1>4, <1>5, <1>6, <1>7, <1>8, <1>9 DEF Working
-----------------------------------------------------------------------------
LEMMA Facts ==
  ASSUME AgvInv
  PROVE  /\ TypeOK
         /\ \A t : Counted(t) \in 0 .. 1
         /\ pile \in [Tasks -> Piles \cup {NoPile}]
         /\ \A t \in Tasks : stops[t] \in Nat /\ Owed(t) \in Nat /\ Left(t) \in Nat /\ Left(t) <= Owed(t)
                             /\ (stops[t] > 0 => Left(t) = Owed(t) - 1)
                             /\ (~ (stops[t] > 0) => Left(t) = Owed(t))
<1>1. TypeOK /\ (\A t : Counted(t) \in 0 .. 1) /\ pile \in [Tasks -> Piles \cup {NoPile}]
  BY DEF AgvInv, AgvTypeOK, TypeOK, Counted
<1>2. ASSUME NEW t \in Tasks
      PROVE  /\ stops[t] \in Nat /\ Owed(t) \in Nat /\ Left(t) \in Nat /\ Left(t) <= Owed(t)
             /\ (stops[t] > 0 => Left(t) = Owed(t) - 1)
             /\ (~ (stops[t] > 0) => Left(t) = Owed(t))
  <2>1. stops[t] \in Nat
    BY <1>1, BoundsAssumption DEF TypeOK
  <2>2. \A P : One(P) \in {0, 1}
    BY DEF One
  <2>3. Owed(t) \in Nat /\ stops[t] <= Owed(t)
    BY <2>1, <2>2 DEF Owed
  <2> QED  BY <2>1, <2>3 DEF Left, One
<1> QED  BY <1>1, <1>2

(* What a running task knows of its pile when it has read its queue. *)
LEMMA AtPile ==
  ASSUME KeepsUp, AgvInv, ArmInv, NEW t \in Running
  PROVE  /\ TypeOK /\ t \in Tasks /\ pile[t] \in Piles /\ commands[pile[t]] \in Seq(Commands)
         /\ state[t] \in Working /\ index[t] \in Nat /\ Index(t) \in Nat
         /\ Owed(t) \in 0 .. Stops /\ Left(t) \in 0 .. Stops /\ Counted(t) \in 0 .. 1
         /\ Ordered(commands[pile[t]], arm[pile[t]])
         /\ Phase(Current(t), Index(t), commands[pile[t]], arm[pile[t]], Counted(t), Left(t))
<1>1. t \in Tasks /\ state[t] \in Working /\ t \in registered
  BY DEF Running, AgvInv, TaskInv, Listed, Working
<1>2. pile[t] \in Piles
  BY <1>1 DEF AgvInv, FlagInv, AtItsPile
<1>3. /\ TypeOK /\ Counted(t) \in 0 .. 1 /\ Owed(t) \in Nat /\ Left(t) \in Nat /\ Left(t) <= Owed(t)
      /\ stops[t] \in Nat
      /\ (stops[t] > 0 => Left(t) = Owed(t) - 1)
      /\ (~ (stops[t] > 0) => Left(t) = Owed(t))
  BY <1>1, Facts
<1>4. index[t] \in Nat /\ Index(t) \in Nat /\ commands[pile[t]] \in Seq(Commands)
  BY <1>1, <1>2, <1>3, IndexNat DEF TypeOK
<1>5. Ordered(commands[pile[t]], arm[pile[t]]) /\ TaskPhase(t) /\ Owed(t) <= Stops
  BY <1>2 DEF ArmInv
<1>6. Owed(t) \in 0 .. Stops /\ Left(t) \in 0 .. Stops
  BY <1>3, <1>5, SendsIs
<1>7. Phase(Current(t), Index(t), commands[pile[t]], arm[pile[t]], Counted(t), Left(t))
  <2>1. CASE stops[t] > 0
    <3>1. Owed(t) \in 1 .. Stops /\ Left(t) = Owed(t) - 1
      BY <1>3, <1>6, <2>1, SendsIs
    <3>2. Len(commands[pile[t]]) + Sends(Left(t)) + ArmSends <= Longest
      BY <1>1, <1>3, <1>4, <1>5, <3>1, RoomForArmIn DEF TaskPhase
    <3>3. Current(t) = "TASK_ARM_IN_STATE" /\ Index(t) = 0
      BY <2>1 DEF Current, Index
    <3>4. Len(commands[pile[t]]) + Sends(Left(t)) + ArmSends <= Longest + 0 /\ 0 <= ArmSends
      BY <1>4, <1>6, <3>2, SendsIs, LongestIs
    <3> QED  BY <3>3, <3>4 DEF Phase
  <2>2. CASE ~ (stops[t] > 0)
    BY <1>3, <1>5, <2>2 DEF TaskPhase, Current, Index
  <2> QED  BY <2>1, <2>2
<1> QED  BY <1>1, <1>2, <1>3, <1>4, <1>5, <1>6, <1>7

LEMMA PostIs ==
  ASSUME TypeOK, NEW t \in Tasks, pile[t] \in Piles, NEW m, Post(t, m)
  PROVE  /\ commands'[pile[t]] = Posted(commands[pile[t]], m)
         /\ \A q \in Piles : q # pile[t] => commands'[q] = commands[q]
BY DEF TypeOK, Post, Posted

LEMMA IterateIs ==
  ASSUME TypeOK, NEW t \in Tasks, NEW s, NEW next, NEW count, Iterate(t, s, next, count)
  PROVE  state'[t] = next /\ index'[t] = count /\ state[t] \in Working /\ Current(t) = s
BY DEF Iterate, TypeOK

(* What a step of a running task leaves behind. *)
Leaves(t) ==
  /\ \A q \in Piles : q # pile[t] => commands'[q] = commands[q]
  /\ Ordered(commands'[pile[t]], arm[pile[t]])
  /\ IF state'[t] \in Working
     THEN Phase(state'[t], index'[t], commands'[pile[t]], arm[pile[t]], Counted(t)', Left(t))
     ELSE state'[t] # "none" /\ AtRest(commands'[pile[t]], arm[pile[t]])

(* A step that posts m... *)
LEMMA PostLeaves ==
  ASSUME KeepsUp, AgvInv, ArmInv, NEW t \in Running,
         NEW s, NEW next \in Working, NEW count, NEW m, Iterate(t, s, next, count), Post(t, m),
         LET d == Posted(commands[pile[t]], m)
         IN  /\ Ordered(d, arm[pile[t]])
             /\ Phase(next, count, d, arm[pile[t]], Counted(t)', Left(t))
  PROVE  Leaves(t)
<1>1. TypeOK /\ t \in Tasks /\ pile[t] \in Piles
  BY AtPile
<1>2. state'[t] = next /\ index'[t] = count
  BY <1>1, IterateIs
<1>3. /\ commands'[pile[t]] = Posted(commands[pile[t]], m)
      /\ \A q \in Piles : q # pile[t] => commands'[q] = commands[q]
  BY <1>1, PostIs
<1> QED  BY <1>2, <1>3 DEF Leaves

(* ...and one that posts nothing. *)
LEMMA QuietLeaves ==
  ASSUME KeepsUp, AgvInv, ArmInv, NEW t \in Running,
         NEW s, NEW next, NEW count, Iterate(t, s, next, count), commands' = commands,
         \/ next \in Working /\ Phase(next, count, commands[pile[t]], arm[pile[t]], Counted(t)', Left(t))
         \/ next \notin Working \cup {"none"} /\ AtRest(commands[pile[t]], arm[pile[t]])
  PROVE  Leaves(t)
<1>1. TypeOK /\ t \in Tasks /\ Ordered(commands[pile[t]], arm[pile[t]])
  BY AtPile
<1>2. state'[t] = next /\ index'[t] = count
  BY <1>1, IterateIs
<1> QED  BY <1>1, <1>2 DEF Leaves

LEMMA SendOutLeaves ==
  ASSUME KeepsUp, AgvInv, ArmInv, NEW t \in Running,
         SendArm(t, "TASK_ARM_OUT_STATE", "ARM_OUT")
  PROVE  Leaves(t)
<1> PICK c, b, i, f : c = commands[pile[t]] /\ b = arm[pile[t]] /\ i = Index(t) /\ f = Left(t)
  OBVIOUS
<1>1. Iterate(t, "TASK_ARM_OUT_STATE", "TASK_ARM_OUT_STATE", i + 1)
      /\ Post(t, "ARM_OUT") /\ i < ArmSends
  BY DEF SendArm
<1>2. i \in Nat /\ c \in Seq(Commands) /\ Ordered(c, b)
      /\ Phase("TASK_ARM_OUT_STATE", i, c, b, Counted(t), f)
  BY <1>1, AtPile DEF Iterate
<1>3. Len(c) <= i /\ (i # 0 => GoesOut(c, b))
  BY <1>2 DEF Phase
<1>4. Len(c) \in Nat /\ (i = 0 => c = << >>) /\ Len(c) < Capacity
  <2>1. f \in 0 .. Stops /\ ArmSends \in Nat /\ Longest \in Nat /\ Capacity \in Nat
    BY AtPile, SendsIs
  <2>2. ArmSends + 2 <= Longest /\ Longest <= Capacity
    BY <2>1, LongestIs DEF KeepsUp
  <2> QED  BY <1>1, <1>2, <1>3, <2>1, <2>2
<1>5. NoArmIn(c) /\ (c = << >> \/ GoesOut(c, b))
  BY <1>3, <1>4 DEF NoArmIn, GoesOut
<1> DEFINE d == Posted(c, "ARM_OUT")
<1>6. GoesOut(d, b) /\ Ordered(d, b) /\ Len(d) = Len(c) + 1
  BY <1>2, <1>4, <1>5, PostOut
<1> HIDE DEF d
<1>7. i + 1 <= ArmSends /\ Len(d) <= i + 1
  BY <1>1, <1>2, <1>3, <1>4, <1>6, BoundsAssumption
<1>8. Phase("TASK_ARM_OUT_STATE", i + 1, d, b, Counted(t)', f)
  BY <1>6, <1>7 DEF Phase
<1>9. "TASK_ARM_OUT_STATE" \in Working
  BY DEF Working
<1> QED  BY <1>1, <1>6, <1>8, <1>9, PostLeaves DEF d

LEMMA SendInLeaves ==
  ASSUME KeepsUp, AgvInv, ArmInv, NEW t \in Running,
         SendArm(t, "TASK_ARM_IN_STATE", "ARM_IN")
  PROVE  Leaves(t)
<1> PICK c, b, i, f : c = commands[pile[t]] /\ b = arm[pile[t]] /\ i = Index(t) /\ f = Left(t)
  OBVIOUS
<1>1. Iterate(t, "TASK_ARM_IN_STATE", "TASK_ARM_IN_STATE", i + 1)
      /\ Post(t, "ARM_IN") /\ i < ArmSends
  BY DEF SendArm
<1>2. i \in Nat /\ c \in Seq(Commands) /\ Ordered(c, b) /\ f \in 0 .. Stops
      /\ Phase("TASK_ARM_IN_STATE", i, c, b, Counted(t), f)
  BY <1>1, AtPile DEF Iterate
<1>3. Len(c) + Sends(f) + ArmSends <= Longest + i
  BY <1>2 DEF Phase
<1>4. ArmSends \in Nat /\ Longest \in Nat /\ Capacity \in Nat /\ Sends(f) \in Nat /\ Len(c) \in Nat
  <2>1. Sends(f) \in Nat
    BY <1>2, LongestIs
  <2> QED  BY <1>2, <2>1, SendsIs
<1>5. Len(c) < Capacity
  BY <1>1, <1>2, <1>3, <1>4 DEF KeepsUp
<1> DEFINE d == Posted(c, "ARM_IN")
<1>6. ComesIn(d, b) /\ Ordered(d, b) /\ Len(d) = Len(c) + 1
  BY <1>2, <1>5, PostIn
<1> HIDE DEF d
<1>7. i + 1 <= ArmSends /\ Len(d) + Sends(f) + ArmSends <= Longest + (i + 1)
  <2> PICK l, m : l = Len(c) /\ m = Sends(f)
    OBVIOUS
  <2>1. l \in Nat /\ m \in Nat /\ Len(d) = l + 1 /\ l + m + ArmSends <= Longest + i
    BY <1>3, <1>4, <1>6
  <2>2. (l + 1) + m + ArmSends <= Longest + (i + 1)
    BY <1>2, <1>4, <2>1, SMTT(30)
  <2>3. i + 1 <= ArmSends
    BY <1>1, <1>2, <1>4
  <2> QED  BY <2>1, <2>2, <2>3
<1>8. Phase("TASK_ARM_IN_STATE", i + 1, d, b, Counted(t)', f)
  BY <1>6, <1>7 DEF Phase
<1>9. "TASK_ARM_IN_STATE" \in Working
  BY DEF Working
<1> QED  BY <1>1, <1>6, <1>8, <1>9, PostLeaves DEF d

(* The steps before current flows... *)
LEMMA OutLeaves ==
  ASSUME KeepsUp, AgvInv, ArmInv, NEW t \in Running,
         \/ ChargeStart(t)
         \/ ArmSent(t, "TASK_ARM_OUT_STATE", "TASK_WAIT_ARM_OUT_STATE")
         \/ Count(t, "TASK_WAIT_ARM_OUT_STATE", ArmOutWait)
         \/ Waited(t, "TASK_WAIT_ARM_OUT_STATE", ArmOutWait, "TASK_CHARGE_CURRENT")
  PROVE  Leaves(t)
<1> PICK c, b, i, n, f : /\ c = commands[pile[t]] /\ b = arm[pile[t]] /\ i = Index(t)
                         /\ n = Counted(t) /\ f = Left(t)
  OBVIOUS
<1>1. /\ i \in Nat /\ c \in Seq(Commands) /\ n \in 0 .. 1 /\ Len(c) \in Nat
      /\ ArmSends \in Nat /\ ArmOutWait \in Nat
      /\ Phase(Current(t), i, c, b, n, f)
  BY AtPile, SendsIs
<1>2. {"TASK_ARM_OUT_STATE", "TASK_WAIT_ARM_OUT_STATE", "TASK_CHARGE_CURRENT"} \subseteq Working
  BY DEF Working
<1>3. commands' = commands
  BY DEF ChargeStart, ArmSent, Count, Waited, pileVars
<1>4. CASE ChargeStart(t)
  <2>1. Iterate(t, "TASK_CHARGE_START", "TASK_ARM_OUT_STATE", i)
    BY <1>4 DEF ChargeStart
  <2>2. i = 0 /\ c = << >>
    BY <1>1, <2>1 DEF Phase, Iterate
  <2>3. Len(c) <= i /\ i <= ArmSends
    BY <1>1, <2>2
  <2>4. Phase("TASK_ARM_OUT_STATE", i, c, b, Counted(t)', f)
    BY <2>2, <2>3 DEF Phase
  <2> QED  BY <1>2, <1>3, <2>1, <2>4, QuietLeaves
<1>5. CASE ArmSent(t, "TASK_ARM_OUT_STATE", "TASK_WAIT_ARM_OUT_STATE")
  <2>1. Iterate(t, "TASK_ARM_OUT_STATE", "TASK_WAIT_ARM_OUT_STATE", 0) /\ i >= ArmSends
    BY <1>5 DEF ArmSent
  <2>2. i <= ArmSends /\ Len(c) <= i /\ (i # 0 => GoesOut(c, b))
    BY <1>1, <2>1 DEF Phase, Iterate
  <2>3. Counted(t)' \in 0 .. 1
    BY DEF Counted
  <2>4. i # 0 /\ Len(c) <= ArmSends /\ Len(c) + 0 <= ArmSends + Counted(t)'
    BY <1>1, <2>1, <2>2, <2>3 DEF KeepsUp
  <2>5. Phase("TASK_WAIT_ARM_OUT_STATE", 0, c, b, Counted(t)', f)
    BY <2>2, <2>4 DEF Phase
  <2> QED  BY <1>2, <1>3, <2>1, <2>5, QuietLeaves
<1>6. CASE Count(t, "TASK_WAIT_ARM_OUT_STATE", ArmOutWait)
  <2>1. Iterate(t, "TASK_WAIT_ARM_OUT_STATE", "TASK_WAIT_ARM_OUT_STATE", i + 1) /\ Sleep(t)
    BY <1>6 DEF Count
  <2>2. n = 0 /\ Counted(t)' = 1
    BY <2>1 DEF Sleep, Counted, KeepsUp
  <2>3. GoesOut(c, b) /\ Len(c) <= ArmSends /\ (c = << >> \/ Len(c) + i <= ArmSends + n)
    BY <1>1, <2>1 DEF Phase, Iterate
  <2>4. c = << >> \/ Len(c) + (i + 1) <= ArmSends + Counted(t)'
    BY <1>1, <2>2, <2>3
  <2>5. Phase("TASK_WAIT_ARM_OUT_STATE", i + 1, c, b, Counted(t)', f)
    BY <2>3, <2>4 DEF Phase
  <2> QED  BY <1>2, <1>3, <2>1, <2>5, QuietLeaves
<1>7. CASE Waited(t, "TASK_WAIT_ARM_OUT_STATE", ArmOutWait, "TASK_CHARGE_CURRENT")
  <2>1. Iterate(t, "TASK_WAIT_ARM_OUT_STATE", "TASK_CHARGE_CURRENT", 0) /\ i >= ArmOutWait
    BY <1>7 DEF Waited
  <2>2. GoesOut(c, b) /\ (c = << >> \/ Len(c) + i <= ArmSends + n)
    BY <1>1, <2>1 DEF Phase, Iterate
  <2>3. c = << >>
    <3>1. c # << >> => Len(c) >= 1
      BY <1>1
    <3> QED  BY <1>1, <2>1, <2>2, <3>1 DEF KeepsUp
  <2>4. Phase("TASK_CHARGE_CURRENT", 0, c, b, Counted(t)', f)
    BY <2>2, <2>3 DEF Phase, GoesOut
  <2> QED  BY <1>2, <1>3, <2>1, <2>4, QuietLeaves
<1> QED  BY <1>4, <1>5, <1>6, <1>7

(* ...the current, and its changes: the pile has a turn between two of them... *)
LEMMA CurrentLeaves ==
  ASSUME KeepsUp, AgvInv, ArmInv, NEW t \in Running, ChargeCurrent(t) \/ Monitor(t)
  PROVE  Leaves(t)
<1> PICK c, b, i, n, f : /\ c = commands[pile[t]] /\ b = arm[pile[t]] /\ i = Index(t)
                         /\ n = Counted(t) /\ f = Left(t)
  OBVIOUS
<1>1. /\ i \in Nat /\ c \in Seq(Commands) /\ n \in 0 .. 1 /\ Len(c) \in Nat /\ Ordered(c, b)
      /\ f \in 0 .. Stops /\ Phase(Current(t), i, c, b, n, f)
  BY AtPile
<1>2. /\ ArmSends \in Nat /\ Longest \in Nat /\ Capacity \in Nat /\ Sends(f) \in Nat
      /\ Sends(f) + ArmSends + 2 <= Longest
  BY <1>1, SendsIs, LongestIs
<1>3. {"TASK_CHARGE_STATE", "TASK_ARM_IN_STATE"} \subseteq Working
  BY DEF Working
<1> DEFINE d == Posted(c, "START_CHARGE")
<1>4. ASSUME GoesOut(c, b), Len(c) <= 1
      PROVE  GoesOut(d, b) /\ Ordered(d, b) /\ Len(d) = Len(c) + 1
  <2>1. NoArmIn(c)
    BY <1>4 DEF GoesOut
  <2>2. Len(c) < Capacity
    BY <1>1, <1>2, <1>4 DEF KeepsUp
  <2> QED  BY <1>1, <1>4, <2>1, <2>2, PostOut
<1> HIDE DEF d
<1>5. CASE ChargeCurrent(t)
  <2>1. Iterate(t, "TASK_CHARGE_CURRENT", "TASK_CHARGE_STATE", 0) /\ Post(t, "START_CHARGE")
        /\ Sleep(t)
    BY <1>5 DEF ChargeCurrent
  <2>2. Counted(t)' = 1
    BY <2>1 DEF Sleep, Counted, KeepsUp
  <2>3. c = << >> /\ b = "out"
    BY <1>1, <2>1 DEF Phase, Iterate
  <2>4. GoesOut(c, b) /\ Len(c) = 0
    BY <2>3 DEF GoesOut, NoArmIn
  <2>5. GoesOut(d, b) /\ Ordered(d, b) /\ Len(d) <= Counted(t)'
    <3>1. Len(c) <= 1
      BY <2>4
    <3>2. GoesOut(d, b) /\ Ordered(d, b) /\ Len(d) = Len(c) + 1
      BY <1>4, <2>4, <3>1
    <3> QED  BY <2>2, <2>4, <3>2
  <2>6. Phase("TASK_CHARGE_STATE", 0, d, b, Counted(t)', f)
    BY <2>5 DEF Phase
  <2> QED  BY <1>3, <2>1, <2>5, <2>6, PostLeaves DEF d
<1>6. CASE Adjust(t)
  <2>1. Iterate(t, "TASK_CHARGE_STATE", "TASK_CHARGE_STATE", i + 1)
        /\ Post(t, "START_CHARGE") /\ Sleep(t)
    BY <1>6 DEF Adjust
  <2>2. n = 0 /\ Counted(t)' = 1
    BY <2>1 DEF Sleep, Counted, KeepsUp
  <2>3. GoesOut(c, b) /\ Len(c) <= n
    BY <1>1, <2>1 DEF Phase, Iterate
  <2>4. Len(c) <= 1
    BY <1>1, <2>3
  <2>5. GoesOut(d, b) /\ Ordered(d, b) /\ Len(d) = Len(c) + 1
    BY <1>4, <2>3, <2>4
  <2>6. Len(d) <= Counted(t)'
    BY <1>1, <2>2, <2>3, <2>5
  <2>7. Phase("TASK_CHARGE_STATE", i + 1, d, b, Counted(t)', f)
    BY <2>5, <2>6 DEF Phase
  <2> QED  BY <1>3, <2>1, <2>5, <2>7, PostLeaves DEF d
<1>7. CASE ExitFault(t)
  <2>1. Iterate(t, "TASK_CHARGE_STATE", "TASK_ARM_IN_STATE", 0) /\ Post(t, "START_CHARGE")
    BY <1>7 DEF ExitFault
  <2>2. GoesOut(c, b) /\ Len(c) <= n
    BY <1>1, <2>1 DEF Phase, Iterate
  <2>3. Len(c) <= 1
    BY <1>1, <2>2
  <2>4. GoesOut(d, b) /\ Ordered(d, b) /\ Len(d) = Len(c) + 1
    BY <1>4, <2>2, <2>3
  <2>5. Len(d) + Sends(f) + ArmSends <= Longest + 0 /\ 0 <= ArmSends
    BY <1>1, <1>2, <2>3, <2>4
  <2>6. Phase("TASK_ARM_IN_STATE", 0, d, b, Counted(t)', f)
    BY <2>5 DEF Phase
  <2> QED  BY <1>3, <2>1, <2>4, <2>6, PostLeaves DEF d
<1>8. CASE ExitCharged(t)
  <2>1. Iterate(t, "TASK_CHARGE_STATE", "TASK_ARM_IN_STATE", 0) /\ commands' = commands
    BY <1>8 DEF ExitCharged, pileVars
  <2>2. Len(c) <= n
    BY <1>1, <2>1 DEF Phase, Iterate
  <2>3. Len(c) + Sends(f) + ArmSends <= Longest + 0 /\ 0 <= ArmSends
    BY <1>1, <1>2, <2>2
  <2>4. Phase("TASK_ARM_IN_STATE", 0, c, b, Counted(t)', f)
    BY <2>3 DEF Phase
  <2> QED  BY <1>3, <2>1, <2>4, QuietLeaves
<1> QED  BY <1>5, <1>6, <1>7, <1>8 DEF Monitor

(* ...and the way back: the wait outlasts the queue. *)
LEMMA InLeaves ==
  ASSUME KeepsUp, AgvInv, ArmInv, NEW t \in Running,
         \/ ArmSent(t, "TASK_ARM_IN_STATE", "TASK_WAIT_ARM_IN_STATE")
         \/ Count(t, "TASK_WAIT_ARM_IN_STATE", ArmInWait)
         \/ Waited(t, "TASK_WAIT_ARM_IN_STATE", ArmInWait, "TASK_CHARGE_STOP")
         \/ ChargeStop(t)
         \/ Over(t)
  PROVE  Leaves(t)
<1> PICK c, b, i, n, f : /\ c = commands[pile[t]] /\ b = arm[pile[t]] /\ i = Index(t)
                         /\ n = Counted(t) /\ f = Left(t)
  OBVIOUS
<1>1. /\ i \in Nat /\ c \in Seq(Commands) /\ n \in 0 .. 1 /\ Len(c) \in Nat
      /\ f \in 0 .. Stops /\ Phase(Current(t), i, c, b, n, f)
  BY AtPile
<1>2. ArmSends \in Nat /\ Longest \in Nat /\ ArmInWait \in Nat /\ Sends(f) \in Nat
  BY <1>1, SendsIs, LongestIs
<1>3. {"TASK_WAIT_ARM_IN_STATE", "TASK_CHARGE_STOP", "TASK_OVER"} \subseteq Working
  BY DEF Working
<1>4. commands' = commands
  BY DEF ArmSent, Count, Waited, ChargeStop, Over, pileVars
<1>5. CASE ArmSent(t, "TASK_ARM_IN_STATE", "TASK_WAIT_ARM_IN_STATE")
  <2>1. Iterate(t, "TASK_ARM_IN_STATE", "TASK_WAIT_ARM_IN_STATE", 0) /\ i >= ArmSends
    BY <1>5 DEF ArmSent
  <2>2. /\ i <= ArmSends /\ (i # 0 => ComesIn(c, b))
        /\ Len(c) + Sends(f) + ArmSends <= Longest + i
    BY <1>1, <2>1 DEF Phase, Iterate
  <2>3. Counted(t)' \in 0 .. 1
    BY DEF Counted
  <2>4. i # 0 /\ Len(c) + Sends(f) <= Longest /\ Len(c) + 0 <= Longest + Counted(t)'
    BY <1>1, <1>2, <2>1, <2>2, <2>3 DEF KeepsUp
  <2>5. Phase("TASK_WAIT_ARM_IN_STATE", 0, c, b, Counted(t)', f)
    BY <2>2, <2>4 DEF Phase
  <2> QED  BY <1>3, <1>4, <2>1, <2>5, QuietLeaves
<1>6. CASE Count(t, "TASK_WAIT_ARM_IN_STATE", ArmInWait)
  <2>1. Iterate(t, "TASK_WAIT_ARM_IN_STATE", "TASK_WAIT_ARM_IN_STATE", i + 1) /\ Sleep(t)
    BY <1>6 DEF Count
  <2>2. n = 0 /\ Counted(t)' = 1
    BY <2>1 DEF Sleep, Counted, KeepsUp
  <2>3. ComesIn(c, b) /\ Len(c) + Sends(f) <= Longest /\ (c = << >> \/ Len(c) + i <= Longest + n)
    BY <1>1, <2>1 DEF Phase, Iterate
  <2>4. c = << >> \/ Len(c) + (i + 1) <= Longest + Counted(t)'
    BY <1>1, <1>2, <2>2, <2>3
  <2>5. Phase("TASK_WAIT_ARM_IN_STATE", i + 1, c, b, Counted(t)', f)
    BY <2>3, <2>4 DEF Phase
  <2> QED  BY <1>3, <1>4, <2>1, <2>5, QuietLeaves
<1>7. CASE Waited(t, "TASK_WAIT_ARM_IN_STATE", ArmInWait, "TASK_CHARGE_STOP")
  <2>1. Iterate(t, "TASK_WAIT_ARM_IN_STATE", "TASK_CHARGE_STOP", 0) /\ i >= ArmInWait
    BY <1>7 DEF Waited
  <2>2. ComesIn(c, b) /\ (c = << >> \/ Len(c) + i <= Longest + n)
    BY <1>1, <2>1 DEF Phase, Iterate
  <2>3. c = << >>
    <3>1. c # << >> => Len(c) >= 1
      BY <1>1
    <3> QED  BY <1>1, <1>2, <2>1, <2>2, <3>1 DEF KeepsUp
  <2>4. Phase("TASK_CHARGE_STOP", 0, c, b, Counted(t)', f)
    BY <2>2, <2>3 DEF Phase, ComesIn, AtRest
  <2> QED  BY <1>3, <1>4, <2>1, <2>4, QuietLeaves
<1>8. CASE ChargeStop(t)
  <2>1. Iterate(t, "TASK_CHARGE_STOP", "TASK_OVER", i)
    BY <1>8 DEF ChargeStop
  <2>2. Phase("TASK_OVER", i, c, b, Counted(t)', f)
    BY <1>1, <2>1 DEF Phase, Iterate
  <2> QED  BY <1>3, <1>4, <2>1, <2>2, QuietLeaves
<1>9. CASE Over(t)
  <2>1. Iterate(t, "TASK_OVER", "STOPPED", i)
    BY <1>9 DEF Over
  <2>2. AtRest(c, b)
    BY <1>1, <2>1 DEF Phase, Iterate
  <2>3. "STOPPED" \notin Working \cup {"none"}
    BY DEF Working
  <2> QED  BY <1>4, <2>1, <2>2, <2>3, QuietLeaves
<1> QED  BY <1>5, <1>6, <1>7, <1>8, <1>9

LEMMA RunningLeaves ==
  ASSUME KeepsUp, AgvInv, ArmInv, NEW t \in Running, TaskStep(t) \/ Monitor(t)
  PROVE  Leaves(t)
<1>1. state[t] \in Working
  BY AtPile
<1>2. ~ (ReturnFalse(t) \/ Unlist(t) \/ Delete(t))
  BY <1>1 DEF ReturnFalse, Unlist, Delete, Working
<1> QED  BY <1>2, SendOutLeaves, SendInLeaves, OutLeaves, CurrentLeaves, InLeaves DEF TaskStep
-----------------------------------------------------------------------------
(* What a step of a task leaves alone. *)
LEMMA OthersAlone ==
  ASSUME TypeOK, NEW t \in Tasks, TaskStep(t) \/ Monitor(t)
  PROVE  /\ UNCHANGED <<agv, pile, arm, main>>
         /\ \A u \in Tasks : u # t =>
              /\ state'[u] = state[u] /\ index'[u] = index[u] /\ stops'[u] = stops[u]
              /\ (u \in counted' <=> u \in counted)
         /\ t \in Running => stops'[t] = stops[t] - One(stops[t] > 0)
         /\ t \notin Running =>
              commands' = commands /\ state'[t] \notin Working \cup {"none"}
<1>1. CASE ReturnFalse(t) \/ Unlist(t) \/ Delete(t)
  <2>1. t \notin Running
    BY <1>1 DEF ReturnFalse, Unlist, Delete, Running, Working
  <2> QED  BY <1>1, <2>1 DEF ReturnFalse, Unlist, Delete, pileVars, TypeOK, Working
<1>2. CASE ~ (ReturnFalse(t) \/ Unlist(t) \/ Delete(t))
  <2>1. \E s, next, count : Iterate(t, s, next, count)
    BY <1>2 DEF TaskStep, ChargeStart, SendArm, ArmSent, Count, Waited, ChargeCurrent, ChargeStop,
                Over, Monitor, Adjust, ExitFault, ExitCharged
  <2>2. PICK s, next, count : Iterate(t, s, next, count)
    BY <2>1
  <2>3. UNCHANGED <<agv, pile, main>> /\ t \in Running
        /\ \A u \in Tasks : u # t =>
             state'[u] = state[u] /\ index'[u] = index[u] /\ stops'[u] = stops[u]
    BY <2>2 DEF Iterate, TypeOK, Running
  <2>4. stops'[t] = stops[t] - One(stops[t] > 0)
    <3>1. stops[t] \in Nat
      BY BoundsAssumption DEF TypeOK
    <3>2. stops'[t] = IF stops[t] > 0 THEN stops[t] - 1 ELSE 0
      BY <2>2 DEF Iterate, TypeOK
    <3> QED  BY <3>1, <3>2 DEF One
  <2>5. arm' = arm
    BY <1>2 DEF TaskStep, ChargeStart, SendArm, ArmSent, Count, Waited, ChargeCurrent, ChargeStop,
                Over, Monitor, Adjust, ExitFault, ExitCharged, pileVars
  <2>6. counted' = counted \/ Sleep(t)
    BY <1>2 DEF TaskStep, ChargeStart, SendArm, ArmSent, Count, Waited, ChargeCurrent, ChargeStop,
                Over, Monitor, Adjust, ExitFault, ExitCharged
  <2>7. \A u \in Tasks : u # t => (u \in counted' <=> u \in counted)
    BY <2>6 DEF Sleep
  <2> QED  BY <2>3, <2>4, <2>5, <2>7
<1> QED  BY <1>1, <1>2

(* A task keeps its phase when nothing that it knows of changes. *)
LEMMA PhaseKept ==
  ASSUME NEW u, TaskPhase(u), state'[u] = state[u], index'[u] = index[u], pile'[u] = pile[u],
         commands'[pile[u]] = commands[pile[u]], arm'[pile[u]] = arm[pile[u]],
         u \in counted' <=> u \in counted, Owed(u)' = Owed(u)
  PROVE  TaskPhase(u)'
<1>1. Counted(u)' = Counted(u)
  BY DEF Counted
<1> QED  BY <1>1 DEF TaskPhase

(* What is owed changes with the messages, the flag and the chain only. *)
LEMMA OwedKept ==
  ASSUME NEW u, stops'[u] = stops[u], agv'[u] = agv[u], main' = main,
         charging'[agv[u]] = charging[agv[u]], chain'[agv[u]] = chain[agv[u]]
  PROVE  Owed(u)' = Owed(u)
BY DEF Owed, One

LEMMA TaskStepArm ==
  ASSUME KeepsUp, AgvInv, ArmInv, NEW t \in Tasks, TaskStep(t) \/ Monitor(t), UNCHANGED agvVars
  PROVE  ArmInv'
<1>1. /\ agv' = agv /\ pile' = pile /\ arm' = arm /\ main' = main
      /\ charging' = charging /\ chain' = chain
      /\ \A u \in Tasks : u # t =>
           /\ state'[u] = state[u] /\ index'[u] = index[u] /\ stops'[u] = stops[u]
           /\ (u \in counted' <=> u \in counted)
      /\ t \in Running => stops'[t] = stops[t] - One(stops[t] > 0)
      /\ t \notin Running => commands' = commands /\ state'[t] \notin Working \cup {"none"}
  BY Facts, OthersAlone DEF agvVars
<1>2. t \in Running => Leaves(t)
  BY RunningLeaves
<1>3. \A u \in Running : u # t => t \notin Running \/ pile[u] # pile[t]
  BY InvTasksApart DEF TasksApart
<1>4. \A u \in Running : u \in Tasks /\ pile[u] \in Piles /\ Owed(u) <= Stops
  BY AtPile DEF ArmInv
<1>5. \A u \in Tasks : u # t => (u \in Running' <=> u \in Running)
  BY <1>1 DEF Running
<1>6. ASSUME NEW u \in Tasks, u # t PROVE Owed(u)' = Owed(u)
  BY <1>1, <1>6, OwedKept
<1>7. ASSUME t \in Running PROVE Owed(t)' = Left(t) /\ Left(t) <= Stops
  <2>1. stops[t] \in Nat /\ Left(t) \in 0 .. Stops
    BY <1>7, AtPile, Facts
  <2>2. stops'[t] = stops[t] - One(stops[t] > 0)
    BY <1>1, <1>7
  <2>3. PICK x : x = One(main = [op |-> "stop", task |-> t]) + One(charging[agv[t]] = "CHARGING")
                      + One("cancel" \in Operator /\ chain[agv[t]] \in {"BEGIN", "IS_CHARGING", "OVER"})
    OBVIOUS
  <2>4. x \in Nat
    BY <2>3 DEF One
  <2>5. One(stops[t] > 0) \in {0, 1}
    BY DEF One
  <2>6. Owed(t) = stops[t] + x
    BY <2>1, <2>3, <2>4 DEF Owed, One
  <2>7. Owed(t)' = stops'[t] + x
    BY <1>1, <2>1, <2>2, <2>3, <2>4, <2>5 DEF Owed, One
  <2>8. Owed(t)' = Left(t)
    BY <2>1, <2>2, <2>4, <2>5, <2>6, <2>7 DEF Left
  <2> QED  BY <2>1, <2>8, SendsIs
<1>8. ASSUME NEW u \in Running' PROVE Owed(u)' <= Stops /\ TaskPhase(u)'
  <2>1. u \in Tasks
    BY DEF Running
  <2>2. CASE u = t
    <3>1. state'[t] \in Working
      BY <2>2 DEF Running
    <3>2. t \in Running
      BY <1>1, <3>1
    <3>3. Phase(state'[t], index'[t], commands'[pile[t]], arm[pile[t]], Counted(t)', Left(t))
      BY <1>2, <3>1, <3>2 DEF Leaves
    <3> QED  BY <1>1, <1>7, <2>2, <3>2, <3>3 DEF TaskPhase
  <2>3. CASE u # t
    <3>1. u \in Running /\ TaskPhase(u)
      BY <1>5, <2>1, <2>3 DEF ArmInv
    <3>2. commands'[pile[u]] = commands[pile[u]]
      BY <1>1, <1>2, <1>3, <1>4, <2>3, <3>1 DEF Leaves
    <3>3. Owed(u)' = Owed(u)
      BY <1>6, <2>1, <2>3
    <3> QED  BY <1>1, <1>4, <2>1, <2>3, <3>1, <3>2, <3>3, PhaseKept
  <2> QED  BY <2>2, <2>3
<1>9. ASSUME NEW p \in Piles PROVE Ordered(commands'[p], arm'[p])
  BY <1>1, <1>2 DEF ArmInv, Leaves
<1>10. ASSUME NEW p \in Piles, \A u \in Running' : pile'[u] # p
       PROVE  AtRest(commands'[p], arm'[p])
  <2>1. CASE t \in Running /\ pile[t] = p
    <3>1. state'[t] \notin Working
      BY <1>1, <1>10, <2>1 DEF Running
    <3> QED  BY <1>1, <1>2, <2>1, <3>1 DEF Leaves
  <2>2. CASE ~ (t \in Running /\ pile[t] = p)
    <3>1. \A u \in Running : pile[u] # p
      BY <1>1, <1>4, <1>5, <1>10, <2>2
    <3>2. AtRest(commands[p], arm[p])
      BY <3>1 DEF ArmInv
    <3>3. commands'[p] = commands[p]
      BY <1>1, <1>2, <2>2 DEF Leaves
    <3> QED  BY <1>1, <3>2, <3>3
  <2> QED  BY <2>1, <2>2
<1>11. ASSUME NEW u \in Tasks, state'[u] = "none" PROVE Unborn(u)'
  <2>1. u # t
    BY <1>1, <1>2, <1>11 DEF Leaves, Working
  <2> QED  BY <1>1, <1>11, <2>1 DEF ArmInv, Unborn
<1> QED  BY <1>8, <1>9, <1>10, <1>11 DEF ArmInv

(* A turn of a pile, its link holding. *)
LEMMA HandleFacts ==
  ASSUME KeepsUp, TypeOK, NEW p \in Piles, Handle(p)
  PROVE  /\ commands[p] # << >> /\ commands'[p] = Tail(commands[p])
         /\ arm'[p] = After(Head(commands[p]), arm[p])
         /\ \A q \in Piles : q # p => commands'[q] = commands[q] /\ arm'[q] = arm[q]
<1>1. /\ commands[p] # << >> /\ commands' = [commands EXCEPT ![p] = Tail(@)]
      /\ Moved(p, Head(commands[p]))
  BY DEF Handle, KeepsUp
<1>2. commands \in [Piles -> Seq(Commands)] /\ arm \in [Piles -> {"in", "out"}]
  BY DEF TypeOK
<1>3. arm'[p] = After(Head(commands[p]), arm[p])
  BY <1>1, <1>2 DEF Moved, After
<1>4. \A q \in Piles : q # p => arm'[q] = arm[q]
  BY <1>1, <1>2 DEF Moved
<1> QED  BY <1>1, <1>2, <1>3, <1>4

LEMMA PileStepArm ==
  ASSUME KeepsUp, AgvInv, ArmInv, NEW p \in Piles, PileStep(p), UNCHANGED agvVars
  PROVE  ArmInv'
<1>1. UNCHANGED <<state, index, pile, stops, agv, main, charging, chain>>
      /\ Running' = Running /\ Turn(p) /\ TypeOK
  BY Facts DEF PileStep, Handle, Rest, taskVars, Running, agvVars
<1> PICK c, b : c = commands[p] /\ b = arm[p]
  OBVIOUS
<1>2. c \in Seq(Commands) /\ Ordered(c, b)
  BY <1>1 DEF ArmInv, TypeOK
<1>3. \/ c = << >> /\ commands'[p] = c /\ arm'[p] = b
      \/ c # << >> /\ commands'[p] = Tail(c) /\ arm'[p] = After(Head(c), b)
  BY <1>1, HandleFacts DEF PileStep, Rest, pileVars
<1>4. \A q \in Piles : q # p => commands'[q] = commands[q] /\ arm'[q] = arm[q]
  BY <1>1, HandleFacts DEF PileStep, Rest, pileVars
<1>5. ASSUME NEW u \in Running PROVE Owed(u)' <= Stops /\ TaskPhase(u)'
  <2>1. u \in Tasks /\ state[u] \in Working /\ index[u] \in Nat /\ pile[u] \in Piles
        /\ TaskPhase(u) /\ Counted(u) \in 0 .. 1 /\ Owed(u) \in 0 .. Stops /\ Owed(u) <= Stops
    BY AtPile DEF ArmInv
  <2>2. Owed(u)' = Owed(u)
    BY <1>1, OwedKept
  <2>3. CASE pile[u] = p
    <3>1. Counted(u)' = 0
      BY <1>1, <2>3 DEF Turn, Counted
    <3>2. Phase(state[u], index[u], c, b, Counted(u), Owed(u))
      BY <2>1, <2>3 DEF TaskPhase
    <3>3. Phase(state[u], index[u], commands'[p], arm'[p], 0, Owed(u))
      <4>1. CASE c = << >>
        BY <1>3, <2>1, <3>2, <4>1, RestPhase
      <4>2. CASE c # << >>
        BY <1>2, <1>3, <2>1, <3>2, <4>2, TurnPhase
      <4> QED  BY <4>1, <4>2
    <3>4. TaskPhase(u)'
      BY <1>1, <2>2, <2>3, <3>1, <3>3 DEF TaskPhase
    <3> QED  BY <2>1, <2>2, <3>4
  <2>4. CASE pile[u] # p
    <3>1. u \in counted' <=> u \in counted
      BY <1>1, <2>4 DEF Turn
    <3> QED  BY <1>1, <1>4, <2>1, <2>2, <2>4, <3>1, PhaseKept
  <2> QED  BY <2>3, <2>4
<1>6. ASSUME NEW q \in Piles PROVE Ordered(commands'[q], arm'[q])
  <2>1. CASE q = p
    BY <1>2, <1>3, <2>1, TurnKeeps
  <2>2. CASE q # p
    BY <1>4, <2>2 DEF ArmInv
  <2> QED  BY <2>1, <2>2
<1>7. ASSUME NEW q \in Piles, \A u \in Running : pile[u] # q
      PROVE  AtRest(commands'[q], arm'[q])
  BY <1>3, <1>4, <1>7 DEF ArmInv, AtRest
<1>8. \A u \in Tasks : state'[u] = "none" => Unborn(u)'
  BY <1>1 DEF ArmInv, Unborn
<1> QED  BY <1>1, <1>5, <1>6, <1>7, <1>8 DEF ArmInv

(* A new task finds the pile at rest, and may be stopped by an order and by the operator. *)
LEMMA BeginChainArm ==
  ASSUME KeepsUp, AgvInv, AgvInv', ArmInv, BeginChain
  PROVE  ArmInv'
<1>1. AddTask /\ main.op = "create" /\ main' = Idle /\ UNCHANGED <<index, stops, commands, arm, counted>>
  BY DEF BeginChain, AddTask, pileVars
<1>2. /\ TaskInv /\ state \in [Tasks -> States] /\ pile \in [Tasks -> Piles \cup {NoPile}]
      /\ agv \in [Tasks -> Agvs \cup {NoAgv}]
      /\ charging \in [Agvs -> ChargingValues] /\ chain \in [Agvs -> ChainValues]
  BY DEF AgvInv, AgvTypeOK, TaskInv, TypeOK
<1>3. PICK t \in Tasks, s \in {"NULL_ARG", "TASK_CHARGE_START"} :
        /\ state[t] = "none"
        /\ state' = [state EXCEPT ![t] = s]
        /\ agv' = [agv EXCEPT ![t] = main.agv]
        /\ pile' = [pile EXCEPT ![t] = main.pile]
  BY <1>1, <1>2, AddTaskFacts
<1>4. main.pile \in Piles /\ IsOver(main.agv)
  BY <1>1 DEF AgvInv, FlagInv, CreatedHeld
<1>5. t \notin Running /\ \A u \in Running : u \in Tasks /\ u \in Running'
  BY <1>2, <1>3 DEF Running, Working
<1>6. \A u \in Running : pile'[u] = pile[u] /\ state'[u] = state[u] /\ agv'[u] = agv[u]
  BY <1>2, <1>3, <1>5
<1>7. \A u : main # [op |-> "stop", task |-> u] /\ Idle # [op |-> "stop", task |-> u]
  BY <1>1 DEF Idle
<1>8. ASSUME NEW u \in Running PROVE Owed(u)' = Owed(u)
  <2>1. u \in registered /\ agv[u] # main.agv
    <3>1. u \in registered
      BY <1>5, <1>8 DEF Running, AgvInv, TaskInv, Listed, Working
    <3> QED  BY <1>4, <3>1 DEF IsOver, Entries
  <2>2. charging'[agv[u]] = charging[agv[u]] /\ chain'[agv[u]] = chain[agv[u]]
    <3>1. agv[u] \in Agvs
      BY <2>1 DEF AgvInv, FlagInv, AtItsPile
    <3> QED  BY <1>2, <2>1, <3>1 DEF BeginChain
  <2>3. agv'[u] = agv[u] /\ stops'[u] = stops[u]
    BY <1>1, <1>6
  <2> QED  BY <1>1, <1>7, <2>2, <2>3 DEF Owed, One
<1>9. Owed(t)' <= Stops
  <2>1. stops[t] = 0
    BY <1>3 DEF ArmInv, Unborn
  <2>2. Owed(t)' = 0 + 0 + One(charging'[agv'[t]] = "CHARGING")
                    + One("cancel" \in Operator /\ chain'[agv'[t]] \in {"BEGIN", "IS_CHARGING", "OVER"})
    BY <1>1, <1>7, <2>1 DEF Owed, One
  <2> QED  BY <2>2 DEF Stops, One
<1>10. ASSUME NEW u \in Running' PROVE Owed(u)' <= Stops /\ TaskPhase(u)'
  <2>1. u \in Tasks /\ state'[u] \in Working
    BY DEF Running
  <2>2. CASE u = t
    <3>1. state'[t] = "TASK_CHARGE_START" /\ pile'[t] = main.pile
      BY <1>2, <1>3, <2>1, <2>2 DEF Working
    <3>2. \A v \in Running : pile[v] # main.pile
      <4> SUFFICES ASSUME NEW v \in Running, pile[v] = main.pile PROVE FALSE
        OBVIOUS
      <4>1. v # t /\ v \in Running' /\ pile'[v] = pile'[t]
        BY <1>5, <1>6, <3>1
      <4>2. t \in Running'
        BY <2>2
      <4>3. TasksApart'
        BY InvTasksApart, PTL
      <4> QED  BY <4>1, <4>2, <4>3 DEF TasksApart
    <3>3. commands[main.pile] = << >> /\ index[t] = 0
      BY <1>3, <1>4, <3>2 DEF ArmInv, AtRest, Unborn
    <3>4. Phase("TASK_CHARGE_START", index'[t], commands'[main.pile], arm'[main.pile], Counted(t)', Owed(t)')
      BY <1>1, <3>3 DEF Phase
    <3> QED  BY <1>9, <2>2, <3>1, <3>4 DEF TaskPhase
  <2>3. CASE u # t
    <3>1. u \in Running
      BY <1>2, <1>3, <2>1, <2>3 DEF Running
    <3>2. Owed(u)' = Owed(u) /\ Owed(u) <= Stops /\ TaskPhase(u)
      BY <1>8, <3>1 DEF ArmInv
    <3> QED  BY <1>1, <1>6, <3>1, <3>2, PhaseKept
  <2> QED  BY <2>2, <2>3
<1>11. ASSUME NEW p \in Piles, \A u \in Running' : pile'[u] # p
       PROVE  AtRest(commands'[p], arm'[p])
  <2>1. \A u \in Running : pile[u] # p
    BY <1>5, <1>6, <1>11
  <2> QED  BY <1>1, <2>1 DEF ArmInv
<1>12. ASSUME NEW u \in Tasks, state'[u] = "none" PROVE Unborn(u)'
  <2>1. state[u] = "none"
    BY <1>2, <1>3, <1>12
  <2> QED  BY <1>1, <1>7, <2>1 DEF ArmInv, Unborn
<1> QED  BY <1>1, <1>10, <1>11, <1>12 DEF ArmInv
-----------------------------------------------------------------------------
(* The steps that touch neither threads nor piles. *)
LEMMA OwedNat == AgvInv => \A t \in Tasks : Owed(t) \in Nat
BY Facts

LEMMA ArmKept ==
  ASSUME KeepsUp, AgvInv, AgvInv', ArmInv,
         UNCHANGED <<state, index, pile, commands, arm, counted>>,
         \A t \in Running : Owed(t)' <= Owed(t),
         \A t \in Tasks : state[t] = "none" => Unborn(t)'
  PROVE  ArmInv'
<1>1. Running' = Running
  BY DEF Running
<1>2. (\A t \in Tasks : Owed(t) \in Nat)'
  BY OwedNat, PTL
<1>3. ASSUME NEW t \in Running PROVE Owed(t)' <= Stops /\ TaskPhase(t)'
  <2>1. /\ t \in Tasks /\ state[t] \in Working /\ index[t] \in Nat /\ Owed(t) \in 0 .. Stops
        /\ commands[pile[t]] \in Seq(Commands)
        /\ TaskPhase(t) /\ Stops \in Nat
    BY AtPile, SendsIs DEF ArmInv
  <2>2. Owed(t)' \in Nat /\ Owed(t)' <= Owed(t)
    BY <1>2, <2>1
  <2>3. Owed(t)' \in 0 .. Stops
    BY <2>1, <2>2
  <2>4. Phase(state[t], index[t], commands[pile[t]], arm[pile[t]], Counted(t), Owed(t)')
    BY <2>1, <2>2, <2>3, FewerStops DEF TaskPhase
  <2>5. Counted(t)' = Counted(t)
    BY DEF Counted
  <2>6. TaskPhase(t)'
    BY <2>4, <2>5 DEF TaskPhase
  <2> QED  BY <2>3, <2>6
<1>4. \A t \in Tasks : state'[t] = "none" => Unborn(t)'
  OBVIOUS
<1>5. \A p \in Piles : Ordered(commands'[p], arm'[p])
  BY DEF ArmInv
<1>6. \A p \in Piles : (\A t \in Running' : pile'[t] # p) => AtRest(commands'[p], arm'[p])
  BY <1>1 DEF ArmInv
<1> QED  BY <1>1, <1>3, <1>4, <1>5, <1>6 DEF ArmInv

(* A stop message that is written was owed before. *)
LEMMA WriteStopArm ==
  ASSUME KeepsUp, AgvInv, AgvInv', ArmInv, WriteStop, UNCHANGED agvVars
  PROVE  ArmInv'
<1>1. /\ main.op = "stop" /\ main' = Idle
      /\ UNCHANGED <<state, agv, pile, index, commands, arm, counted, charging, chain>>
  BY DEF WriteStop, pileVars, agvVars
<1>2. main \in MainStates /\ stops \in [Tasks -> 0 .. Capacity] /\ Capacity \in Nat
  BY BoundsAssumption DEF AgvInv, AgvTypeOK, TypeOK
<1>3. PICK s \in Tasks : main = [op |-> "stop", task |-> s]
  BY <1>1, <1>2 DEF MainStates
<1>4. \/ stops' = stops
      \/ stops' = [stops EXCEPT ![s] = @ + 1]
  BY <1>3 DEF WriteStop
<1>5. \A t : main' # [op |-> "stop", task |-> t]
  BY <1>1 DEF Idle
<1>6. ASSUME NEW t \in Running PROVE Owed(t)' <= Owed(t)
  <2>1. t \in Tasks /\ stops[t] \in Nat
    BY <1>2 DEF Running
  <2> DEFINE x == One(charging[agv[t]] = "CHARGING")
                  + One("cancel" \in Operator /\ chain[agv[t]] \in {"BEGIN", "IS_CHARGING", "OVER"})
  <2>2. x \in Nat
    BY DEF One
  <2>3. Owed(t) = stops[t] + One(main = [op |-> "stop", task |-> t]) + x
    BY <2>1 DEF Owed, One
  <2>4. Owed(t)' = stops'[t] + 0 + x
    <3>1. stops'[t] \in Nat
      BY <1>2, <1>4, <2>1
    <3> QED  BY <1>1, <1>5, <3>1 DEF Owed, One
  <2>5. stops'[t] <= stops[t] + One(main = [op |-> "stop", task |-> t])
    <3>1. CASE t = s
      BY <1>2, <1>3, <1>4, <2>1, <3>1 DEF One
    <3>2. CASE t # s
      <4>1. main # [op |-> "stop", task |-> t] /\ stops'[t] = stops[t]
        BY <1>2, <1>3, <1>4, <2>1, <3>2
      <4> QED  BY <2>1, <4>1 DEF One
    <3> QED  BY <3>1, <3>2
  <2>6. stops'[t] \in Nat /\ One(main = [op |-> "stop", task |-> t]) \in Nat
    BY <1>2, <1>4, <2>1 DEF One
  <2> HIDE DEF x
  <2> QED  BY <2>1, <2>2, <2>3, <2>4, <2>5, <2>6
<1>7. ASSUME NEW t \in Tasks, state[t] = "none" PROVE Unborn(t)'
  <2>1. Unborn(t) /\ t # s
    BY <1>3, <1>7 DEF ArmInv, Unborn
  <2> QED  BY <1>1, <1>2, <1>4, <1>5, <2>1 DEF Unborn
<1> QED  BY <1>1, <1>6, <1>7, ArmKept

(* A task is asked to stop where its charge is flagged no more, or its chain no more to be cancelled. *)
LEMMA StopArm ==
  ASSUME KeepsUp, AgvInv, AgvInv', ArmInv, NEW a \in Agvs, PauseCharging(a) \/ Cancel(a)
  PROVE  ArmInv'
<1>1. /\ main = Idle /\ StopCharging(a)
      /\ UNCHANGED <<state, agv, pile, index, stops, commands, arm, counted>>
  BY DEF PauseCharging, Cancel, StopCharging, FindTask, vars, taskVars, pileVars
<1>2. \A t : main # [op |-> "stop", task |-> t]
  BY <1>1 DEF Idle
<1>3. registered \subseteq Tasks /\ TypeOK
  BY DEF AgvInv, AgvTypeOK, TypeOK
<1>4. ASSUME NEW t \in Tasks, main' = [op |-> "stop", task |-> t] PROVE t \in Entries(a)
  <2>1. ~IsOver(a) /\ main' = [op |-> "stop", task |-> Oldest(Entries(a))]
    BY <1>1, <1>2, <1>4 DEF StopCharging, FindTask, vars
  <2>2. t = Oldest(Entries(a))
    BY <1>4, <2>1
  <2>3. Entries(a) # {}
    BY <2>1 DEF IsOver
  <2>4. Entries(a) \subseteq Nat
    <3>1. Tasks \subseteq Nat
      BY BoundsAssumption DEF Tasks
    <3>2. Entries(a) \subseteq Tasks
      BY <1>3 DEF Entries
    <3> QED  BY <3>1, <3>2
  <2> QED  BY <2>2, <2>3, <2>4, OldestIn
<1>5. charging \in [Agvs -> ChargingValues] /\ chain \in [Agvs -> ChainValues]
  BY DEF AgvInv, AgvTypeOK
<1>6. ASSUME NEW t \in Running PROVE Owed(t)' <= Owed(t)
  <2>1. t \in Tasks /\ stops[t] \in Nat /\ t \in registered
    BY AtPile, Facts DEF AgvInv, TaskInv, Listed, Working, Running
  <2>2. agv[t] \in Agvs
    BY <2>1 DEF AgvInv, FlagInv, AtItsPile
  <2> DEFINE c == One(charging[agv[t]] = "CHARGING")
             h == One("cancel" \in Operator /\ chain[agv[t]] \in {"BEGIN", "IS_CHARGING", "OVER"})
             m == One(main = [op |-> "stop", task |-> t])
  <2>3. {c, h, m, c', h', m'} \subseteq {0, 1} /\ m = 0
    BY <1>2 DEF One
  <2>4. Owed(t) = stops[t] + m + c + h /\ Owed(t)' = stops[t] + m' + c' + h'
    <3>1. Owed(t) = stops[t] + m + c + h
      BY DEF Owed
    <3>2. Owed(t)' = stops'[t] + m' + c' + h'
      BY DEF Owed
    <3> QED  BY <1>1, <3>1, <3>2
  <2>5. m' + c' + h' <= c + h
    <3>1. CASE agv[t] # a
      <4>1. main' # [op |-> "stop", task |-> t]
        BY <1>4, <2>1, <3>1 DEF Entries
      <4>2. charging'[agv[t]] = charging[agv[t]] /\ chain'[agv[t]] = chain[agv[t]] /\ agv'[t] = agv[t]
        BY <1>1, <1>5, <2>2, <3>1 DEF PauseCharging, Cancel
      <4>3. m' = 0 /\ c' = c /\ h' = h
        BY <4>1, <4>2 DEF One
      <4> HIDE DEF m, c, h
      <4> QED  BY <2>3, <4>3
    <3>2. CASE agv[t] = a /\ PauseCharging(a)
      <4>1. charging[a] = "CHARGING" /\ charging'[a] = "PAUSE" /\ agv'[t] = a
            /\ (chain'[a] = chain[a] \/ (chain[a] = "BEGIN" /\ chain'[a] = "OVER"))
        BY <1>1, <1>5, <3>2 DEF PauseCharging
      <4>2. c = 1 /\ c' = 0 /\ h' = h
        BY <3>2, <4>1 DEF One
      <4> HIDE DEF m, c, h
      <4> QED  BY <2>3, <4>2
    <3>3. CASE agv[t] = a /\ Cancel(a)
      <4>1. /\ "cancel" \in Operator /\ chain[a] \in {"BEGIN", "IS_CHARGING", "OVER"}
            /\ chain'[a] = "ABORT" /\ charging' = charging /\ agv'[t] = a
        BY <1>1, <1>5, <3>3 DEF Cancel
      <4>2. h = 1 /\ h' = 0 /\ c' = c
        BY <3>3, <4>1 DEF One
      <4> HIDE DEF m, c, h
      <4> QED  BY <2>3, <4>2
    <3> QED  BY <3>1, <3>2, <3>3
  <2> HIDE DEF m, c, h
  <2> QED  BY <2>1, <2>3, <2>4, <2>5
<1>7. ASSUME NEW t \in Tasks, state[t] = "none" PROVE Unborn(t)'
  <2>1. Unborn(t) /\ t \notin registered
    BY <1>7 DEF ArmInv, AgvInv, TaskInv, Listed, Working
  <2> QED  BY <1>1, <1>4, <2>1 DEF Unborn, Entries
<1> QED  BY <1>1, <1>6, <1>7, ArmKept

(* The other handlers stop nothing. *)
LEMMA OthersArm ==
  ASSUME KeepsUp, AgvInv, AgvInv', ArmInv,
         UNCHANGED <<state, agv, index, pile, stops, commands, arm, counted>>,
         \A t : main' # [op |-> "stop", task |-> t] \/ main' = main,
         \A a \in Agvs : charging'[a] = "CHARGING" => charging[a] = "CHARGING",
         \A a \in Agvs : chain'[a] \in {"BEGIN", "IS_CHARGING", "OVER"}
                           => chain[a] \in {"BEGIN", "IS_CHARGING", "OVER"}
  PROVE  ArmInv'
<1>1. ASSUME NEW t \in Running PROVE Owed(t)' <= Owed(t)
  <2>1. t \in Tasks /\ stops[t] \in Nat /\ t \in registered
    BY AtPile, Facts DEF AgvInv, TaskInv, Listed, Working, Running
  <2>2. agv[t] \in Agvs
    BY <2>1 DEF AgvInv, FlagInv, AtItsPile
  <2> DEFINE c == One(charging[agv[t]] = "CHARGING")
             h == One("cancel" \in Operator /\ chain[agv[t]] \in {"BEGIN", "IS_CHARGING", "OVER"})
             m == One(main = [op |-> "stop", task |-> t])
  <2>3. {c, h, m, c', h', m'} \subseteq {0, 1}
    BY DEF One
  <2>4. Owed(t) = stops[t] + m + c + h /\ Owed(t)' = stops'[t] + m' + c' + h'
    BY DEF Owed
  <2>5. m' <= m
    BY DEF One
  <2>6. c' <= c
    BY <2>2 DEF One
  <2>7. h' <= h
    BY <2>2 DEF One
  <2> HIDE DEF m, c, h
  <2> QED  BY <2>1, <2>3, <2>4, <2>5, <2>6, <2>7
<1>2. ASSUME NEW t \in Tasks, state[t] = "none" PROVE Unborn(t)'
  BY <1>2 DEF ArmInv, Unborn
<1> QED  BY <1>1, <1>2, ArmKept

LEMMA MainArm ==
  ASSUME KeepsUp, AgvInv, AgvInv', ArmInv, NEW a \in Agvs, MainNext(a)
  PROVE  ArmInv'
<1>1. charging \in [Agvs -> ChargingValues] /\ chain \in [Agvs -> ChainValues]
  BY DEF AgvInv, AgvTypeOK
<1>2. CASE StartCharging(a)
  <2>1. /\ UNCHANGED <<state, agv, index, pile, stops, commands, arm, counted, chain>>
        /\ main'.op = "create" /\ charging' = [charging EXCEPT ![a] = "PENDING"]
    BY <1>2 DEF StartCharging, InitBattery, taskVars, pileVars
  <2>2. \A t : main' # [op |-> "stop", task |-> t]
    BY <2>1
  <2>3. \A b \in Agvs : charging'[b] = "CHARGING" => charging[b] = "CHARGING"
    BY <1>1, <2>1
  <2> QED  BY <2>1, <2>2, <2>3, OthersArm
<1>3. CASE PauseCharging(a) \/ Cancel(a)
  BY <1>3, StopArm
<1>4. CASE \/ Battery(a) \/ UnlockCharged(a) \/ KeepCharging(a) \/ FetchOrder(a)
           \/ BeginCarry(a) \/ Leave(a) \/ EndCarry(a)
           \/ Check(a) \/ Unlock(a)
  <2>1. UNCHANGED vars
    BY <1>4 DEF Battery, UnlockCharged, KeepCharging, FetchOrder, BeginCarry, Leave,
                EndCarry, Check, CheckBegin, CheckCharging, CheckOver, CheckAbort, ChainTo, Unlock
  <2>2. charging' = charging \/ charging' = [charging EXCEPT ![a] = "STOP"]
    BY <1>4 DEF Battery, UnlockCharged, KeepCharging, FetchOrder, BeginCarry, Leave,
                EndCarry, Check, CheckBegin, CheckCharging, CheckOver, CheckAbort, ChainTo, Unlock
  <2>3. \/ chain' = chain
        \/ \E to \in {"none", "IS_CHARGING", "OVER"} :
             /\ chain' = [chain EXCEPT ![a] = to]
             /\ to # "none" => chain[a] \in {"BEGIN", "IS_CHARGING"}
    BY <1>4 DEF Battery, UnlockCharged, KeepCharging, FetchOrder, BeginCarry, Leave,
                EndCarry, Check, CheckBegin, CheckCharging, CheckOver, CheckAbort, ChainTo, Unlock
  <2>4. \A b \in Agvs : charging'[b] = "CHARGING" => charging[b] = "CHARGING"
    BY <1>1, <2>2
  <2>5. \A b \in Agvs : chain'[b] \in {"BEGIN", "IS_CHARGING", "OVER"}
                          => chain[b] \in {"BEGIN", "IS_CHARGING", "OVER"}
    BY <1>1, <2>3
  <2>6. main' = main /\ UNCHANGED <<state, agv, index, pile, stops, commands, arm, counted>>
    BY <2>1 DEF vars, taskVars, pileVars
  <2> QED  BY <2>4, <2>5, <2>6, OthersArm
<1> QED  BY <1>2, <1>3, <1>4 DEF MainNext

LEMMA NextArmInv ==
  ASSUME KeepsUp, AgvInv, AgvInv', ArmInv, [AgvNext]_allVars
  PROVE  ArmInv'
<1>1. CASE WriteStop /\ UNCHANGED agvVars
  BY <1>1, WriteStopArm
<1>2. ASSUME NEW t \in Tasks, TaskStep(t) \/ Monitor(t), UNCHANGED agvVars PROVE ArmInv'
  BY <1>2, TaskStepArm
<1>3. ASSUME NEW p \in Piles, PileStep(p), UNCHANGED agvVars PROVE ArmInv'
  BY <1>3, PileStepArm
<1>4. ASSUME NEW p \in Piles, Reconnect(p), UNCHANGED agvVars PROVE ArmInv'
  BY <1>4, OthersArm DEF Reconnect, taskVars, agvVars
<1>5. CASE BeginChain
  BY <1>5, BeginChainArm
<1>6. ASSUME NEW a \in Agvs, MainNext(a) PROVE ArmInv'
  BY <1>6, MainArm
<1>7. CASE UNCHANGED allVars
  BY <1>7, OthersArm DEF allVars, vars, taskVars, pileVars, agvVars
<1> QED  BY <1>1, <1>2, <1>3, <1>4, <1>5, <1>6, <1>7 DEF AgvNext, Threads

LEMMA InitArmInv == AgvInit => ArmInv
<1> SUFFICES ASSUME AgvInit PROVE ArmInv
  OBVIOUS
<1>1. /\ state = [t \in Tasks |-> "none"] /\ index = [t \in Tasks |-> 0]
      /\ stops = [t \in Tasks |-> 0] /\ main = Idle
      /\ commands = [p \in Piles |-> << >>] /\ arm = [p \in Piles |-> "in"]
  BY DEF AgvInit, Init
<1>2. Running = {}
  BY <1>1 DEF Running, Working
<1>3. Ordered(<< >>, "in")
  BY DEF Ordered
<1>4. \A t \in Tasks : Unborn(t)
  BY <1>1 DEF Unborn, Idle
<1> QED  BY <1>1, <1>2, <1>3, <1>4 DEF ArmInv, AtRest
-----------------------------------------------------------------------------
(* With an AGV off, nobody works at its pile. *)
LEMMA StepDepartArm ==
  ASSUME AgvInv, ArmInv, [AgvNext]_allVars, NEW a \in Agvs, place[a] # Away, place'[a] = Away
  PROVE  arm[place[a]] = "in"
<1>1. \A t \in Running : agv[t] # a
  BY StepDepart
<1>2. place[a] \in Piles
  BY DEF AgvInv, AgvTypeOK
<1>3. ASSUME NEW t \in Running PROVE pile[t] # place[a]
  <2>1. t \in registered
    BY DEF Running, AgvInv, TaskInv, Listed, Working
  <2>2. agv[t] \in Agvs /\ place[agv[t]] = pile[t]
    BY <2>1 DEF AgvInv, FlagInv, AtItsPile
  <2> QED  BY <1>1, <1>2, <2>2 DEF AgvInv, FlagInv, PlacesApart
<1>4. AtRest(commands[place[a]], arm[place[a]])
  BY <1>2, <1>3 DEF ArmInv
<1> QED  BY <1>4 DEF AtRest
-----------------------------------------------------------------------------
(***************************************************************************)
(* Neither the main thread's handlers nor the operator, whatever he does,  *)
(* take the threads anywhere that ChargeTask.tla does not: its theorems    *)
(* hold for the composition.                                               *)
(***************************************************************************)
THEOREM ChargeAgvIsChargeTask == AgvSpec => Spec
<1>1. AgvInit => Init /\ AgvTypeOK /\ TaskInv
  BY InitAgvInv DEF AgvInit, AgvInv
<1>2. AgvTypeOK /\ TaskInv /\ [AgvNext]_allVars => AgvTypeOK' /\ TaskInv'
  BY AgvTypesKept
<1>3. AgvTypeOK /\ [AgvNext]_allVars => [Next]_vars
  BY AgvStepIsStep
<1> QED  BY <1>1, <1>2, <1>3, PTL DEF AgvSpec, Spec

(* Every variable keeps its type, whatever the operator does. *)
THEOREM AgvTypes == AgvSpec => []AgvTypeOK
<1>1. AgvInit => AgvTypeOK /\ TaskInv
  BY InitAgvInv DEF AgvInv
<1>2. AgvTypeOK /\ TaskInv /\ [AgvNext]_allVars => AgvTypeOK' /\ TaskInv'
  BY AgvTypesKept
<1> QED  BY <1>1, <1>2, PTL DEF AgvSpec

(***************************************************************************)
(* If the operator does not unlock the AGVs whose charge he cancels, no    *)
(* two charging tasks run for one AGV or at one pile                       *)
(* (Battery_Manage.cpp:28, 50, Task_Chain.cpp:195-237).                    *)
(***************************************************************************)
THEOREM ChargesApart == OneButton => (AgvSpec => []TasksApart)
<1> SUFFICES ASSUME OneButton PROVE AgvSpec => []TasksApart
  OBVIOUS
<1>1. AgvInit => AgvInv
  BY InitAgvInv
<1>2. AgvInv /\ [AgvNext]_allVars => AgvInv'
  BY NextAgvInv
<1> QED  BY <1>1, <1>2, InvTasksApart, PTL DEF AgvSpec

(***************************************************************************)
(* Nor does an AGV drive off with its battery connected or with a task of  *)
(* it running (Task_Chain.cpp:212-217).                                    *)
(***************************************************************************)
THEOREM DepartsDisconnected == OneButton => (AgvSpec => DepartDisconnected)
<1> SUFFICES ASSUME OneButton PROVE AgvSpec => DepartDisconnected
  OBVIOUS
<1> DEFINE Safe == \A a \in Agvs : place[a] # Away /\ place'[a] = Away =>
                     /\ \A t \in Running : agv[t] # a
                     /\ ~DbFails => ~contactor[a]
<1>1. AgvInit => AgvInv
  BY InitAgvInv
<1>2. AgvInv /\ [AgvNext]_allVars => AgvInv'
  BY NextAgvInv
<1>3. AgvInv /\ [AgvNext]_allVars => [Safe]_allVars
  BY StepDepart
<1>4. AgvSpec => [][Safe]_allVars
  BY <1>1, <1>2, <1>3, PTL DEF AgvSpec
<1> QED  BY <1>4 DEF DepartDisconnected

(***************************************************************************)
(* If besides the piles answer and keep up (three sends, a queue of 32 and *)
(* waits of 30 and 12 turns just do), an AGV drives off with the arm of    *)
(* its pile back, though an order and the operator stopped its charge and  *)
(* its current changed at any time (charge_task.cpp:466-499).              *)
(***************************************************************************)
THEOREM DepartsArmIn == OneButton /\ KeepsUp => (AgvSpec => DepartArmIn)
<1> SUFFICES ASSUME OneButton, KeepsUp PROVE AgvSpec => DepartArmIn
  OBVIOUS
<1> DEFINE Back == \A a \in Agvs :
                     /\ place[a] # Away /\ place'[a] = Away
                     /\ Prompt /\ ~LinkFails
                     => arm[place[a]] = "in"
<1>1. AgvInit => AgvInv /\ ArmInv
  BY InitAgvInv, InitArmInv
<1>2. AgvInv /\ ArmInv /\ [AgvNext]_allVars => AgvInv' /\ ArmInv'
  BY NextAgvInv, NextArmInv
<1>3. AgvInv /\ ArmInv /\ [AgvNext]_allVars => [Back]_allVars
  BY StepDepartArm
<1>4. AgvSpec => [][Back]_allVars
  BY <1>1, <1>2, <1>3, PTL DEF AgvSpec
<1> QED  BY <1>4 DEF DepartArmIn

(***************************************************************************)
(* And a pile is told to deliver current only with its arm at an AGV       *)
(* (charge_task.cpp:286-304, 322-365).                                     *)
(***************************************************************************)
THEOREM CurrentReachesArm == OneButton /\ KeepsUp => (AgvSpec => CurrentAtArm)
<1> SUFFICES ASSUME OneButton, KeepsUp PROVE AgvSpec => CurrentAtArm
  OBVIOUS
<1> DEFINE Out == \A p \in Piles :
                    /\ ~LinkFails
                    /\ commands[p] # << >> /\ commands'[p] = Tail(commands[p])
                    /\ Head(commands[p]) = "START_CHARGE"
                    => arm[p] = "out"
<1>1. AgvInit => AgvInv /\ ArmInv
  BY InitAgvInv, InitArmInv
<1>2. AgvInv /\ ArmInv /\ [AgvNext]_allVars => AgvInv' /\ ArmInv'
  BY NextAgvInv, NextArmInv
<1>3. ArmInv => [Out]_allVars
  BY DEF ArmInv, Ordered
<1>4. AgvSpec => [][Out]_allVars
  BY <1>1, <1>2, <1>3, PTL DEF AgvSpec
<1> QED  BY <1>4 DEF CurrentAtArm
=============================================================================
