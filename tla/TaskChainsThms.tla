--------------------------- MODULE TaskChainsThms ---------------------------
(***************************************************************************)
(* Theorems about TaskChains.tla, for any AGVs, orders, stations and       *)
(* bounds.                                                                 *)
(***************************************************************************)
EXTENDS TaskChains, TLAPS

(* Ids are given to chains in the order of their creation, two to a carry. *)
KeysGenerated ==
  \A k \in Active : k <= lastId /\ (Carries(k) => k + 1 <= lastId)

(* Only a tick has chains to check, and only active ones. *)
TodoActive == todo \subseteq Active

TypeInv == TypeOK /\ KeysGenerated /\ TodoActive

USE DEF Ids

LEMMA ChainKinds ==
  ASSUME TypeOK, NEW k \in Active
  PROVE  /\ k \in Ids /\ chain[k] \in Chains
         /\ Carries(k) => chain[k] \in CarryChains
         /\ ~Carries(k) => chain[k] \in ParkChains
BY OrdersAssumption DEF TypeOK, Active, Carries, Chains, CarryChains, ParkChains

LEMMA NewChainType ==
  ASSUME NEW a \in Agvs, NEW i \in 0 .. MaxId
  PROVE  /\ \A o \in Orders : NewChain(a, o, Away, i) \in CarryChains
         /\ \A p \in Parks : NewChain(a, NoOrder, p, i) \in ParkChains
BY DEF NewChain, CarryChains, ParkChains, CarryStatus, ParkStatus, Answers

(* A chain that goes on in a status of its kind. *)
LEMMA StatusType ==
  ASSUME NEW c, NEW s
  PROVE  /\ c \in CarryChains /\ s \in CarryStatus => [c EXCEPT !.status = s] \in CarryChains
         /\ c \in ParkChains /\ s \in ParkStatus => [c EXCEPT !.status = s] \in ParkChains
BY DEF CarryChains, ParkChains

(* A change of one chain that keeps its AGV, its order and its kind. *)
LEMMA ChainChange ==
  ASSUME TypeInv, NEW k \in Active, NEW c,
         c \in Chains, c.order = chain[k].order, c.agv = chain[k].agv,
         chain' = [chain EXCEPT ![k] = c], lastId' = lastId
  PROVE  /\ chain' \in [Ids -> Chains \cup {Nothing}]
         /\ Active' = Active
         /\ KeysGenerated'
<1>1. k \in Ids /\ chain \in [Ids -> Chains \cup {Nothing}] /\ c # Nothing
  BY NothingAssumption DEF TypeInv, TypeOK, Active
<1>2. chain' \in [Ids -> Chains \cup {Nothing}] /\ Active' = Active
  BY <1>1 DEF Active
<1>3. KeysGenerated'
  BY <1>1, <1>2 DEF TypeInv, KeysGenerated, Carries
<1> QED  BY <1>2, <1>3
-----------------------------------------------------------------------------
LEMMA InitTypeInv == Init => TypeInv
<1> SUFFICES ASSUME Init PROVE TypeInv
  OBVIOUS
<1>1. Active = {}
  BY DEF Init, Active
<1>2. TypeOK
  BY OrdersAssumption, ParksAssumption, BoundsAssumption, SMTT(30) DEF Init, TypeOK, Answers
<1> QED  BY <1>1, <1>2 DEF Init, TypeInv, KeysGenerated, TodoActive

(* The steps of a tick that create no chain and change none. *)
LEMMA TypePhases ==
  ASSUME TypeInv,
         \/ BeginTick \/ EndFetch \/ EndDispatch \/ EndCheck
         \/ \E a \in Agvs, o \in Orders : TakeOrder(a, o)
  PROVE  TypeInv'
<1> USE DEF TypeInv
<1>1. CASE BeginTick
  BY <1>1 DEF BeginTick, TypeOK, KeysGenerated, TodoActive, Active, Carries, orderVars, acsVars
<1>2. CASE EndFetch
  BY <1>2 DEF EndFetch, TypeOK, KeysGenerated, TodoActive, Active, Carries, wcsVars, orderVars, acsVars
<1>3. CASE EndDispatch
  BY <1>3 DEF EndDispatch, TypeOK, KeysGenerated, TodoActive, Active, Carries, wcsVars, orderVars,
              acsVars
<1>4. CASE EndCheck
  BY <1>4 DEF EndCheck, TypeOK, KeysGenerated, TodoActive, Active, Carries, wcsVars, orderVars, acsVars
<1>5. ASSUME NEW a \in Agvs, NEW o \in Orders, TakeOrder(a, o)
      PROVE  TypeInv'
  <2>1. AfterFetch(o) \in [Orders -> {"NEW", "IDLE", "OVER"}]
    BY DEF AfterFetch, TypeOK
  <2>2. going' = going \cup {Target[o]} /\ Target[o] \in Storages /\ going \subseteq Storages
    BY <1>5, OrdersAssumption DEF TakeOrder, TypeOK
  <2>3. executing' \subseteq [agv : Agvs, order : Orders] /\ carried' \subseteq Orders \X {"GET", "PUT"}
    BY <1>5 DEF TakeOrder, TypeOK
  <2>4. locked' \in [Agvs -> BOOLEAN] /\ report' \in [Orders -> SUBSET {"NEW", "DOING", "DONE", "ERR"}]
    BY <1>5 DEF TakeOrder, TypeOK
  <2>5. TypeOK'
    BY <1>5, <2>1, <2>2, <2>3, <2>4 DEF TakeOrder, TypeOK
  <2> QED  BY <1>5, <2>5 DEF TakeOrder, KeysGenerated, TodoActive, Active, Carries
<1> QED  BY <1>1, <1>2, <1>3, <1>4, <1>5

(* A chain is created at the next id. *)
LEMMA ChainAdded ==
  ASSUME TypeInv, NEW c \in Chains,
         lastId' \in {lastId + 1, lastId + 2}, lastId' <= MaxId,
         c.order # NoOrder => lastId' = lastId + 2,
         chain' = [chain EXCEPT ![lastId + 1] = c], todo' = todo
  PROVE  /\ chain' \in [Ids -> Chains \cup {Nothing}] /\ lastId' \in 0 .. MaxId
         /\ lastId + 1 \in Ids /\ chain[lastId + 1] = Nothing
         /\ Active' = Active \cup {lastId + 1}
         /\ KeysGenerated' /\ TodoActive'
<1>1. lastId + 1 \in Ids /\ lastId \in Nat /\ chain \in [Ids -> Chains \cup {Nothing}] /\ c # Nothing
  BY BoundsAssumption, NothingAssumption DEF TypeInv, TypeOK
<1>2. chain[lastId + 1] = Nothing
  BY <1>1 DEF TypeInv, KeysGenerated, Active
<1>3. Active' = Active \cup {lastId + 1}
  BY <1>1 DEF Active
<1>4. KeysGenerated'
  <2> SUFFICES ASSUME NEW k \in Active'
               PROVE  k <= lastId' /\ (Carries(k)' => k + 1 <= lastId')
    BY DEF KeysGenerated
  <2>1. CASE k = lastId + 1
    BY <2>1, <1>1 DEF Carries
  <2>2. CASE k # lastId + 1
    BY <2>2, <1>1, <1>3 DEF TypeInv, KeysGenerated, Carries, Active
  <2> QED  BY <2>1, <2>2
<1> QED  BY <1>1, <1>2, <1>3, <1>4, BoundsAssumption DEF TypeInv, TypeOK, TodoActive

LEMMA TypeCreate ==
  ASSUME TypeInv,
         \/ \E a \in Agvs, p \in Parks : SendToPark(a, p)
         \/ \E e \in executing : Dispatch(e)
  PROVE  TypeInv'
<1>0. lastId \in 0 .. MaxId /\ MaxId \in Nat
  BY BoundsAssumption DEF TypeInv, TypeOK
<1>1. ASSUME NEW a \in Agvs, NEW p \in Parks, SendToPark(a, p)
      PROVE  TypeInv'
  <2>1. NewChain(a, NoOrder, p, 0) \in Chains /\ NewChain(a, NoOrder, p, 0).order = NoOrder
    BY <1>0, NewChainType DEF Chains, NewChain
  <2>3. /\ lastId' = lastId + 1 /\ lastId' <= MaxId /\ todo' = todo
        /\ chain' = [chain EXCEPT ![lastId + 1] = NewChain(a, NoOrder, p, 0)]
    BY <1>0, <1>1 DEF SendToPark, tickVars
  <2>2. /\ chain' \in [Ids -> Chains \cup {Nothing}] /\ lastId' \in 0 .. MaxId
        /\ KeysGenerated' /\ TodoActive'
    BY <2>1, <2>3, ChainAdded
  <2> QED  BY <1>1, <2>2 DEF TypeInv, TypeOK, SendToPark, tickVars, orderVars, acsVars
<1>2. ASSUME NEW e \in executing, Dispatch(e)
      PROVE  TypeInv'
  <2>0. e.agv \in Agvs /\ e.order \in Orders
    BY DEF TypeInv, TypeOK
  <2>1. NewChain(e.agv, e.order, Away, lastId) \in Chains
    BY <1>0, <2>0, NewChainType DEF Chains
  <2>3. /\ lastId' = lastId + 2 /\ lastId' <= MaxId /\ todo' = todo
        /\ chain' = [chain EXCEPT ![lastId + 1] = NewChain(e.agv, e.order, Away, lastId)]
    BY <1>0, <1>2 DEF Dispatch, IdsFor, tickVars
  <2>2. /\ chain' \in [Ids -> Chains \cup {Nothing}] /\ lastId' \in 0 .. MaxId
        /\ KeysGenerated' /\ TodoActive'
    BY <2>1, <2>3, ChainAdded
  <2> QED  BY <1>2, <2>2 DEF TypeInv, TypeOK, Dispatch, tickVars, acsVars
<1> QED  BY <1>1, <1>2

(* A chain checked goes on with its own AGV and order. *)
LEMMA GoOnType ==
  ASSUME TypeInv, NEW k \in todo, NEW s, GoOn(k, s),
         Carries(k) => s \in CarryStatus, ~Carries(k) => s \in ParkStatus
  PROVE  TypeInv' /\ Active' = Active
<1>1. k \in Active /\ chain[k].agv \in Agvs /\ chain[k] \in Chains
  BY ChainKinds DEF TypeInv, TodoActive, Chains, CarryChains, ParkChains
<1> DEFINE c == [chain[k] EXCEPT !.status = s]
<1>2. c \in Chains /\ c.order = chain[k].order /\ c.agv = chain[k].agv
  BY <1>1, ChainKinds, StatusType DEF TypeInv, Chains, CarryChains, ParkChains
<1>3. chain' = [chain EXCEPT ![k] = c] /\ lastId' = lastId
  BY DEF GoOn, Checks
<1>4. chain' \in [Ids -> Chains \cup {Nothing}] /\ Active' = Active /\ KeysGenerated'
  <2> HIDE DEF c
  <2> QED  BY <1>1, <1>2, <1>3, ChainChange
<1>5. locked' \in [Agvs -> BOOLEAN]
  BY <1>1 DEF GoOn, Relock, TypeInv, TypeOK
<1> QED
  BY <1>4, <1>5 DEF TypeInv, TypeOK, TodoActive, GoOn, Checks, orderVars, acsVars

LEMMA InsertedType ==
  ASSUME NEW k \in Ids, NEW i \in Ids, NEW s
  PROVE  /\ chain[k] \in CarryChains /\ s \in CarryStatus => Inserted(k, i, s) \in CarryChains
         /\ chain[k] \in ParkChains /\ s \in ParkStatus => Inserted(k, i, s) \in ParkChains
<1>1. i \in 0 .. MaxId
  BY BoundsAssumption
<1> QED  BY <1>1 DEF Inserted, CarryChains, ParkChains

LEMMA InsertType ==
  ASSUME TypeInv, NEW k \in todo, NEW i \in Ids, NEW g, NEW s, Insert(k, i, g, s),
         park' \in [Parks -> {"IDLE", "BUSY"}],
         Carries(k) => s \in CarryStatus /\ g \in {"GET", "PUT"},
         ~Carries(k) => s \in ParkStatus /\ g = "PARK"
  PROVE  TypeInv' /\ Active' = Active
<1>1. k \in Active /\ chain[k].agv \in Agvs /\ chain[k] \in Chains
  BY ChainKinds DEF TypeInv, TodoActive, Chains, CarryChains, ParkChains
<1> DEFINE c == Inserted(k, i, s)
<1>2. c \in Chains /\ c.order = chain[k].order /\ c.agv = chain[k].agv
  <2>1. c \in Chains
    BY <1>1, ChainKinds, InsertedType DEF TypeInv, Chains
  <2> QED  BY <2>1, <1>1 DEF Inserted, Chains, CarryChains, ParkChains
<1>3. chain' = [chain EXCEPT ![k] = c] /\ lastId' = lastId
  BY DEF Insert, Checks
<1>4. chain' \in [Ids -> Chains \cup {Nothing}] /\ Active' = Active /\ KeysGenerated'
  <2> HIDE DEF c
  <2> QED  BY <1>1, <1>2, <1>3, ChainChange
<1>5. locked' \in [Agvs -> BOOLEAN]
  BY <1>1 DEF Insert, Relock, TypeInv, TypeOK
<1>6. [id |-> i, agv |-> chain[k].agv, goal |-> g, order |-> chain[k].order, to |-> chain[k].to] \in Tasks
  <2>1. CASE Carries(k)
    BY <2>1, <1>1, ChainKinds DEF TypeInv, Tasks, CarryChains
  <2>2. CASE ~Carries(k)
    BY <2>2, <1>1, ChainKinds DEF TypeInv, Tasks, ParkChains
  <2> QED  BY <2>1, <2>2
<1> QED
  BY <1>4, <1>5, <1>6 DEF TypeInv, TypeOK, TodoActive, Insert, Checks, orderVars

(* The status tells a carry chain from a parking chain. *)
LEMMA StatusKind ==
  ASSUME TypeInv, NEW k \in Active
  PROVE  /\ chain[k].status \in {"EQUIP_GET", "EQUIP_PUT", "EQUIP_GET_CHECK", "EQUIP_PUT_CHECK"}
              => Carries(k) /\ k + 1 \in Ids
         /\ chain[k].status \in {"PARKING", "PARKING_CHECK"} => ~Carries(k)
<1>1. k \in Ids /\ (~Carries(k) => chain[k].status \in ParkStatus)
       /\ (Carries(k) => chain[k].status \in CarryStatus)
  BY ChainKinds DEF TypeInv, ParkChains, CarryChains
<1>2. Carries(k) => k + 1 \in Ids
  BY <1>1, BoundsAssumption DEF TypeInv, TypeOK, KeysGenerated
<1> QED  BY <1>1, <1>2 DEF ParkStatus, CarryStatus

LEMMA RemoveType ==
  ASSUME TypeInv, NEW k \in todo, Checks(k), Remove(k)
  PROVE  /\ chain' \in [Ids -> Chains \cup {Nothing}]
         /\ Active' = Active \ {k}
         /\ KeysGenerated' /\ TodoActive'
<1>1. k \in Ids /\ chain \in [Ids -> Chains \cup {Nothing}]
  BY DEF TypeInv, TypeOK, TodoActive, Active
<1>2. chain' \in [Ids -> Chains \cup {Nothing}] /\ Active' = Active \ {k}
  BY <1>1 DEF Remove, Active
<1> QED
  BY <1>1, <1>2 DEF Remove, Checks, TypeInv, TodoActive, KeysGenerated, Carries, Active

LEMMA TypeCheck ==
  ASSUME TypeInv, NEW k \in todo, Check(k)
  PROVE  TypeInv' /\ (Active' = Active \/ CheckOver(k) \/ CheckError(k))
<1>1. k \in Active /\ k \in Ids /\ chain[k] \in Chains /\ chain[k].agv \in Agvs
  BY ChainKinds DEF TypeInv, TodoActive, Chains, CarryChains, ParkChains
<1>2. /\ Carries(k) => chain[k] \in CarryChains /\ chain[k].order \in Orders
      /\ ~Carries(k) => chain[k] \in ParkChains
  BY <1>1, ChainKinds DEF TypeInv, CarryChains
<1>3. \A a : Release(a) => park' \in [Parks -> {"IDLE", "BUSY"}]
  BY DEF Release, TypeInv, TypeOK
<1>4. park' = park => park' \in [Parks -> {"IDLE", "BUSY"}]
  BY DEF TypeInv, TypeOK
<1>5. CASE CheckBegin(k)
  BY <1>5, GoOnType DEF CheckBegin, CarryStatus, ParkStatus
<1>6. CASE SendGet(k)
  BY <1>6, <1>1, <1>3, InsertType, StatusKind DEF SendGet, CarryStatus
<1>7. CASE SendPut(k)
  BY <1>7, <1>1, <1>4, InsertType, StatusKind DEF SendPut, CarryStatus
<1>8. CASE SendPark(k)
  BY <1>8, <1>1, <1>3, InsertType, StatusKind DEF SendPark, ParkStatus
<1>9. CASE Refused(k)
  BY <1>9, <1>1, <1>2, GoOnType DEF Refused, CarryChains, ParkChains
<1>10. CASE CheckAnswer(k)
  <2>1. CASE Carries(k)
    BY <2>1, <1>10, <1>1, <1>2, GoOnType, StatusKind DEF CheckAnswer, After, CarryChains, CarryStatus
  <2>2. CASE ~Carries(k)
    BY <2>2, <1>10, <1>1, <1>2, GoOnType, StatusKind DEF CheckAnswer, After, ParkChains, ParkStatus
  <2> QED  BY <2>1, <2>2
<1>11. CASE CheckOver(k)
  <2>1. locked' \in [Agvs -> BOOLEAN]
    BY <1>11, <1>1 DEF CheckOver, TypeInv, TypeOK
  <2>2. report' \in [Orders -> SUBSET {"NEW", "DOING", "DONE", "ERR"}]
    BY <1>11, <1>2 DEF CheckOver, TypeInv, TypeOK
  <2>3. again' \subseteq Orders
    BY <1>11 DEF CheckOver, Ended, TypeInv, TypeOK
  <2> QED
    BY <1>11, <2>1, <2>2, <2>3, RemoveType DEF CheckOver, TypeInv, TypeOK, Checks, acsVars
<1>12. CASE CheckError(k)
  <2>1. locked' \in [Agvs -> BOOLEAN]
    BY <1>12, <1>1 DEF CheckError, Relock, TypeInv, TypeOK
  <2>4. again' \subseteq Orders
    BY <1>12 DEF CheckError, Ended, TypeInv, TypeOK
  <2>2. CASE Carries(k)
    <3>1. report' \in [Orders -> SUBSET {"NEW", "DOING", "DONE", "ERR"}]
      BY <1>12, <1>2, <2>2 DEF CheckError, Failed, TypeInv, TypeOK
    <3>2. orderStatus' \in [Orders -> {"NEW", "IDLE", "OVER"}]
      <4>1. orderStatus' = Reopened(chain[k].order)
        BY <1>12, <2>2 DEF CheckError
      <4>2. orderStatus \in [Orders -> {"NEW", "IDLE", "OVER"}]
        BY DEF TypeInv, TypeOK
      <4> QED  BY <4>1, <4>2 DEF Reopened
    <3>6. going' \subseteq Storages
      <4>1. going' \subseteq going
        BY <1>12, <2>2 DEF CheckError
      <4> QED  BY <4>1 DEF TypeInv, TypeOK
    <3>3. /\ chain' \in [Ids -> Chains \cup {Nothing}] /\ KeysGenerated' /\ TodoActive'
          /\ Active' = Active \ {k}
      BY <1>12, RemoveType DEF CheckError
    <3>4. UNCHANGED <<phase, standing, low, executing, lastId, restarts, park, history, acsVars>>
          /\ todo' = todo \ {k}
      BY <1>12 DEF CheckError, Checks
    <3>5. TypeOK'
      BY <2>1, <2>4, <3>1, <3>2, <3>6, <3>3, <3>4 DEF TypeInv, TypeOK, acsVars
    <3> QED  BY <1>12, <3>3, <3>5 DEF TypeInv
  <2>3. CASE ~Carries(k)
    BY <1>12, <2>1, <2>3, <2>4, RemoveType DEF CheckError, TypeInv, TypeOK, Checks, acsVars
  <2> QED  BY <2>2, <2>3
<1> QED  BY <1>5, <1>6, <1>7, <1>8, <1>9, <1>10, <1>11, <1>12 DEF Check

(* Chains keep their keys, AGVs and orders, though not their statuses. *)
LEMMA ChainsKept ==
  ASSUME TypeInv, chain' \in [Ids -> Chains \cup {Nothing}], lastId' = lastId,
         \A k \in Ids : k \notin Active => chain'[k] = Nothing,
         \A k \in Active : chain'[k] \in Chains /\ chain'[k].order = chain[k].order
  PROVE  Active' = Active /\ KeysGenerated' /\ (todo' = todo => TodoActive')
<1>1. Active' = Active
  BY NothingAssumption DEF Active
<1> QED  BY <1>1 DEF KeysGenerated, Carries, TypeInv, TodoActive

(* The feedback and a cancel change the answer and the status of chains only. *)
SameDuty(k) == chain'[k] \in Chains /\ chain'[k].agv = chain[k].agv /\ chain'[k].order = chain[k].order

LEMMA FeedbackChains == ASSUME TypeInv, ReadFeedback, NEW k \in Active PROVE SameDuty(k)
<1>1. k \in Ids /\ chain[k] \in Chains /\ chain[k].id \in 0 .. MaxId
  BY ChainKinds DEF TypeInv, Chains, CarryChains, ParkChains
<1>2. PICK f \in Answers : chain'[k] = [chain[k] EXCEPT !.answer = f]
  BY <1>1, BoundsAssumption, SMTT(30) DEF ReadFeedback, TypeInv, TypeOK, Answers
<1> QED  BY <1>1, <1>2 DEF SameDuty, Chains, CarryChains, ParkChains

LEMMA CancelChains == ASSUME TypeInv, NEW k \in Active, Cancel(k), NEW j \in Active PROVE SameDuty(j)
<1>1. j \in Ids /\ chain[j] \in Chains
  BY ChainKinds DEF TypeInv
<1>2. chain'[j] = chain[j] \/ chain'[j] = [chain[j] EXCEPT !.status = "ABORT"]
  BY <1>1 DEF Cancel
<1> QED  BY <1>1, <1>2 DEF SameDuty, Chains, CarryChains, ParkChains, CarryStatus, ParkStatus

LEMMA ButtonChains ==
  ASSUME TypeInv, ReadFeedback \/ \E k \in Active : Cancel(k)
  PROVE  /\ chain' \in [Ids -> Chains \cup {Nothing}]
         /\ Active' = Active /\ KeysGenerated' /\ TodoActive'
         /\ \A k \in Active : SameDuty(k)
<1>1. \A k \in Active : SameDuty(k)
  BY FeedbackChains, CancelChains
<1>2. \A k \in Ids : k \notin Active => chain'[k] = Nothing
  BY DEF ReadFeedback, Cancel, Active
<1>3. chain' \in [Ids -> Chains \cup {Nothing}]
  BY <1>1, <1>2 DEF ReadFeedback, Cancel, SameDuty
<1>4. lastId' = lastId /\ todo' = todo
  BY DEF ReadFeedback, Cancel, tickVars
<1>5. \A k \in Active : chain'[k] \in Chains /\ chain'[k].order = chain[k].order
  BY <1>1 DEF SameDuty
<1> QED  BY <1>1, <1>2, <1>3, <1>4, <1>5, ChainsKept

LEMMA TypeButtons == ASSUME TypeInv, ReadFeedback \/ Buttons PROVE TypeInv'
<1>1. CASE ReadFeedback
  BY <1>1, ButtonChains DEF ReadFeedback, TypeInv, TypeOK, orderVars, acsVars
<1>2. ASSUME NEW k \in Active, Cancel(k)
      PROVE  TypeInv'
  BY <1>2, ButtonChains DEF Cancel, TypeInv, TypeOK, tickVars, orderVars
<1>3. ASSUME NEW a \in Agvs, Unlock(a)
      PROVE  TypeInv'
  <2>1. place' \in [Agvs -> Parks \cup {Away}]
    BY <1>3 DEF Unlock, TypeInv, TypeOK
  <2> QED
    BY <1>3, <2>1 DEF Unlock, TypeInv, TypeOK, KeysGenerated, TodoActive, Active, Carries, tickVars,
                      orderVars
<1>4. ASSUME NEW o \in Orders, Redo(o)
      PROVE  TypeInv'
  BY <1>4 DEF Redo, TypeInv, TypeOK, KeysGenerated, TodoActive, Active, Carries, tickVars, wcsVars,
              acsVars
<1> QED  BY <1>1, <1>2, <1>3, <1>4 DEF Buttons

LEMMA TypeRestart == ASSUME TypeInv, Restart PROVE TypeInv'
<1>1. Active' = {} /\ chain' \in [Ids -> Chains \cup {Nothing}]
  BY DEF Restart, Active
<1>2. lastId' \in 0 .. MaxId
  BY BoundsAssumption DEF Restart, Largest, TypeInv, TypeOK
<1>3. feedback' \in [Ids -> Answers]
  BY DEF Restart, Answers
<1>4. restarts' \in 0 .. MaxRestarts
  BY BoundsAssumption DEF Restart, TypeInv, TypeOK
<1>5. report' \in [Orders -> SUBSET {"NEW", "DOING", "DONE", "ERR"}]
  BY DEF Restart, Forgotten, TypeInv, TypeOK
<1> QED
  BY <1>1, <1>2, <1>3, <1>4, <1>5 DEF Restart, TypeInv, TypeOK, KeysGenerated, TodoActive

(* What the ACS does never changes a chain. *)
LEMMA TypeAcs == ASSUME TypeInv, Acs PROVE TypeInv'
<1>1. /\ \A t \in AcsTasks : t \in Tasks /\ t.agv \in Agvs /\ t.id \in Ids
      /\ Nothing \notin Tasks
  BY NothingAssumption DEF AcsTasks, TypeInv, TypeOK, Tasks
<1>2. ASSUME tickVars' = tickVars, wcsVars' = wcsVars
      PROVE  KeysGenerated' /\ TodoActive'
  BY <1>2 DEF TypeInv, KeysGenerated, TodoActive, Active, Carries, tickVars, wcsVars
<1>3. ASSUME NEW t \in inbox, Accept(t)
      PROVE  TypeInv'
  <2>1. t \in Tasks /\ t.agv \in Agvs
    BY DEF TypeInv, TypeOK, Tasks
  <2>2. running' \in [Agvs -> Tasks \cup {Nothing}] /\ place' \in [Agvs -> Parks \cup {Away}]
    BY <1>3, <2>1 DEF Accept, TypeInv, TypeOK
  <2> QED
    BY <1>2, <1>3, <2>2 DEF Accept, TypeInv, TypeOK, tickVars, wcsVars, orderVars
<1>4. ASSUME NEW a \in Agvs, Finish(a)
      PROVE  TypeInv'
  <2>1. running[a] \in Tasks /\ running[a].id \in Ids /\ running[a].to \in Parks \cup {Away}
    BY <1>4 DEF Finish, TypeInv, TypeOK, Tasks
  <2>2. running[a].goal # "PARK" => <<running[a].order, running[a].goal>> \in Orders \X {"GET", "PUT"}
    BY <2>1 DEF Tasks
  <2>3. running' \in [Agvs -> Tasks \cup {Nothing}] /\ place' \in [Agvs -> Parks \cup {Away}]
    BY <1>4, <2>1 DEF Finish, TypeInv, TypeOK
  <2>4. feedback' \in [Ids -> Answers]
    BY <1>4, <2>1 DEF Finish, TypeInv, TypeOK, Answers
  <2>5. carried' \subseteq Orders \X {"GET", "PUT"}
    BY <1>4, <2>2 DEF Finish, TypeInv, TypeOK
  <2> QED
    BY <1>2, <1>4, <2>3, <2>4, <2>5 DEF Finish, TypeInv, TypeOK, tickVars, wcsVars, orderVars
<1>5. ASSUME NEW t \in AcsTasks, NEW answer \in {"FAILED", "ABORTED"}, EndTask(t, answer)
      PROVE  /\ inbox' \subseteq Tasks /\ running' \in [Agvs -> Tasks \cup {Nothing}]
             /\ feedback' \in [Ids -> Answers]
  BY <1>1, <1>5 DEF EndTask, TypeInv, TypeOK, Answers
<1>6. ASSUME NEW t \in AcsTasks, NEW answer \in {"FAILED", "ABORTED"}, Fail(t, answer)
      PROVE  TypeInv'
  BY <1>2, <1>5, <1>6 DEF Fail, TypeInv, TypeOK, tickVars, wcsVars, orderVars
<1>7. ASSUME NEW i \in aborts, ReadAbort(i)
      PROVE  TypeInv'
  <2>1. /\ inbox' \subseteq Tasks /\ running' \in [Agvs -> Tasks \cup {Nothing}]
        /\ feedback' \in [Ids -> Answers]
    BY <1>5, <1>7 DEF ReadAbort, TypeInv, TypeOK
  <2> QED
    BY <1>2, <1>7, <2>1 DEF ReadAbort, TypeInv, TypeOK, tickVars, wcsVars, orderVars
<1> QED  BY <1>3, <1>4, <1>6, <1>7 DEF Acs

LEMMA TypeStep == TypeInv /\ [ChainsNext]_vars => TypeInv'
<1>1. CASE UNCHANGED vars
  BY <1>1 DEF vars, tickVars, wcsVars, orderVars, acsVars, TypeInv, TypeOK, KeysGenerated, TodoActive,
              Active, Carries
<1> QED
  BY <1>1, TypePhases, TypeCreate, TypeCheck, TypeButtons, TypeRestart, TypeAcs DEF ChainsNext, Tick

(***************************************************************************)
(* Every variable has its type; in particular no chain, carry or parking,  *)
(* is ever in a status of the other kind.                                  *)
(***************************************************************************)
THEOREM ChainTypes == Spec => []TypeOK
BY InitTypeInv, TypeStep, PTL DEF Spec, TypeInv
-----------------------------------------------------------------------------
(* One duty for an AGV, one AGV for an order, a report that is true.       *)

Waiting(o) == \E e \in executing : e.order = o
Chained(o) == \E k \in Active : chain[k].order = o

AgvOnce ==
  /\ \A e, f \in executing : e.agv = f.agv => e = f
  /\ \A j, k \in Active : chain[j].agv = chain[k].agv => j = k
  /\ \A e \in executing, k \in Active : e.agv # chain[k].agv
  /\ \A a \in Agvs : OnDuty(a) => locked[a]

(* What holds of an order that was not redone while an AGV had it. *)
OrderOnce(o) ==
  /\ Waiting(o) => "NEW" \in report[o] /\ ~Chained(o)
  /\ Chained(o) => "DOING" \in report[o]
  /\ \A e, f \in executing : e.order = o /\ f.order = o => e = f
  /\ \A j, k \in Active : chain[j].order = o /\ chain[k].order = o => j = k
  /\ OnOrder(o) => orderStatus[o] = "OVER"

OrderDuty(o) ==
  /\ "NEW" \in report[o] => Waiting(o)
  /\ "DOING" \in report[o] => Chained(o)
  /\ orderStatus[o] = "OVER" \/ OnOrder(o) => report[o] # {}
  /\ o \in again => OnOrder(o)
  /\ o \notin again => OrderOnce(o)

DutyInv == AgvOnce /\ \A o \in Orders : OrderDuty(o)

(* The invariant says what the two properties say. *)
LEMMA DutyMeans == TypeInv /\ DutyInv => OneDuty /\ ReportTrue
<1> SUFFICES ASSUME TypeInv, DutyInv PROVE OneDuty /\ ReportTrue
  OBVIOUS
<1>1. \A e \in executing : e.order \in Orders
  BY DEF TypeInv, TypeOK
<1>2. \A k \in Active : Carries(k) => chain[k].order \in Orders
  BY ChainKinds DEF TypeInv, CarryChains
<1>3. OneDuty
  BY <1>1, <1>2 DEF DutyInv, AgvOnce, OrderDuty, OrderOnce, OneDuty, Waiting, Chained
<1>4. ReportTrue
  BY DEF DutyInv, OrderDuty, OrderOnce, ReportTrue, Waiting, Chained
<1> QED  BY <1>3, <1>4

LEMMA InitDutyInv == Init => DutyInv
<1> SUFFICES ASSUME Init PROVE DutyInv
  OBVIOUS
<1>1. Active = {} /\ executing = {}
  BY DEF Init, Active
<1> QED
  BY <1>1 DEF Init, DutyInv, AgvOnce, OrderDuty, OrderOnce, Waiting, Chained, OnOrder, OnDuty

(* A step that gives no duty and takes none away. *)
LEMMA DutyKept ==
  ASSUME TypeInv, DutyInv, Active' = Active, executing' = executing, report' = report,
         \A k \in Active : chain'[k].agv = chain[k].agv /\ chain'[k].order = chain[k].order,
         again \subseteq again',
         \A o \in Orders : o \in again' /\ o \notin again => OnOrder(o),
         \A o \in Orders :
           orderStatus'[o] # orderStatus[o] =>
             orderStatus'[o] # "OVER" /\ (o \in again' \/ ~OnOrder(o)),
         \A a \in Agvs : OnDuty(a) => locked'[a]
  PROVE  DutyInv'
<1>1. AgvOnce'
  BY DEF DutyInv, AgvOnce, OnDuty
<1>2. ASSUME NEW o \in Orders
      PROVE  OrderDuty(o)'
  <2>1. /\ Waiting(o)' <=> Waiting(o)
        /\ Chained(o)' <=> Chained(o)
        /\ OnOrder(o)' <=> OnOrder(o)
    BY DEF Waiting, Chained, OnOrder
  <2>2. OrderDuty(o)
    BY DEF DutyInv
  <2>3. o \notin again => OrderOnce(o)
    BY <2>2 DEF OrderDuty
  <2>4. o \notin again' => OrderOnce(o)'
    BY <2>1, <2>3 DEF OrderOnce
  <2> QED  BY <2>1, <2>2, <2>4 DEF OrderDuty
<1> QED  BY <1>1, <1>2 DEF DutyInv

LEMMA DutyLocks == ASSUME DutyInv, NEW a \in Agvs, OnDuty(a) PROVE locked[a]
BY DEF DutyInv, AgvOnce

LEMMA DutyPhases ==
  ASSUME TypeInv, DutyInv, BeginTick \/ EndFetch \/ EndDispatch \/ EndCheck \/ Acs \/ UNCHANGED vars
  PROVE  DutyInv'
<1>1. /\ chain' = chain /\ executing' = executing /\ UNCHANGED orderVars
      /\ \A a \in Agvs : locked[a] => locked'[a]
  <2>1. CASE BeginTick
    BY <2>1 DEF BeginTick, TypeInv, TypeOK
  <2>2. CASE EndFetch \/ EndDispatch \/ EndCheck
    BY <2>2 DEF EndFetch, EndDispatch, EndCheck, wcsVars
  <2>3. CASE Acs
    BY <2>3 DEF Acs, Accept, Finish, Fail, ReadAbort, wcsVars
  <2>4. CASE UNCHANGED vars
    BY <2>4 DEF vars, wcsVars
  <2> QED  BY <2>1, <2>2, <2>3, <2>4
<1>2. Active' = Active
  BY <1>1 DEF Active
<1> QED  BY <1>1, <1>2, DutyKept, DutyLocks DEF orderVars

(* The steps that check a chain without removing it. *)
LEMMA StatusApart ==
  ASSUME NEW k,
         \/ CheckBegin(k) \/ SendGet(k) \/ SendPut(k) \/ SendPark(k) \/ Refused(k) \/ CheckAnswer(k)
  PROVE  ~CheckOver(k) /\ ~CheckError(k)
BY DEF CheckBegin, SendGet, SendPut, SendPark, Refused, CheckAnswer, CheckOver, CheckError

LEMMA DutyCheckKept ==
  ASSUME TypeInv, DutyInv, NEW k \in todo,
         \/ CheckBegin(k) \/ SendGet(k) \/ SendPut(k) \/ SendPark(k) \/ Refused(k) \/ CheckAnswer(k)
  PROVE  DutyInv'
<1>1. k \in Active /\ k \in Ids /\ chain[k] \in Chains /\ chain[k].agv \in Agvs
  BY ChainKinds DEF TypeInv, TodoActive, Chains, CarryChains, ParkChains
<1>2. /\ Relock(k) /\ executing' = executing /\ UNCHANGED orderVars /\ lastId' = lastId
      /\ \/ \E s : chain' = [chain EXCEPT ![k].status = s]
         \/ \E i \in Ids : \E s : chain' = [chain EXCEPT ![k] = Inserted(k, i, s)]
  <2>1. CASE CheckBegin(k) \/ Refused(k) \/ CheckAnswer(k)
    BY <2>1 DEF CheckBegin, Refused, CheckAnswer, GoOn, Checks, orderVars
  <2>2. CASE SendGet(k) \/ SendPark(k)
    BY <2>2, <1>1 DEF SendGet, SendPark, Insert, Checks, orderVars
  <2>3. CASE SendPut(k)
    BY <2>3, <1>1, StatusKind DEF SendPut, Insert, Checks, orderVars
  <2> QED  BY <2>1, <2>2, <2>3
<1>3. Active' = Active
  BY TypeCheck, StatusApart DEF Check
<1>4. \A a \in Agvs : locked[a] => locked'[a]
  BY <1>1, <1>2 DEF Relock, TypeInv, TypeOK
<1>5. \A j \in Active : chain'[j].agv = chain[j].agv /\ chain'[j].order = chain[j].order
  <2> SUFFICES ASSUME NEW j \in Active
               PROVE  chain'[j].agv = chain[j].agv /\ chain'[j].order = chain[j].order
    OBVIOUS
  <2>1. j \in Ids /\ chain[j] \in Chains
    BY ChainKinds DEF TypeInv
  <2>2. j # k => chain'[j] = chain[j]
    BY <1>1, <1>2, <2>1 DEF TypeInv, TypeOK
  <2>3. ASSUME NEW s, chain' = [chain EXCEPT ![k].status = s], j = k
        PROVE  chain'[j].agv = chain[j].agv /\ chain'[j].order = chain[j].order
    <3>1. chain'[j] = [chain[j] EXCEPT !.status = s]
      BY <1>1, <2>3 DEF TypeInv, TypeOK
    <3> QED  BY <2>1, <3>1 DEF Chains, CarryChains, ParkChains
  <2>4. ASSUME NEW i \in Ids, NEW s, chain' = [chain EXCEPT ![k] = Inserted(k, i, s)], j = k
        PROVE  chain'[j].agv = chain[j].agv /\ chain'[j].order = chain[j].order
    <3>1. chain'[j] = [chain[j] EXCEPT !.id = i, !.status = s]
      BY <1>1, <2>4 DEF Inserted, TypeInv, TypeOK
    <3> QED  BY <2>1, <3>1 DEF Chains, CarryChains, ParkChains
  <2> QED  BY <1>2, <2>2, <2>3, <2>4
<1> QED  BY <1>2, <1>3, <1>4, <1>5, DutyKept, DutyLocks DEF orderVars

LEMMA DutyButtons ==
  ASSUME TypeInv, DutyInv, ReadFeedback \/ Buttons
  PROVE  DutyInv'
<1>3. CASE ReadFeedback
  BY <1>3, ButtonChains, DutyKept, DutyLocks DEF ReadFeedback, SameDuty, orderVars
<1>4. ASSUME NEW k \in Active, Cancel(k)
      PROVE  DutyInv'
  BY <1>4, ButtonChains, DutyKept, DutyLocks DEF Cancel, SameDuty, orderVars
<1>5. ASSUME NEW a \in Agvs, Unlock(a)
      PROVE  DutyInv'
  <2>1. \A b \in Agvs : OnDuty(b) => locked'[b]
    BY <1>5, DutyLocks DEF Unlock, TypeInv, TypeOK
  <2> QED  BY <1>5, <2>1, DutyKept DEF Unlock, Active, orderVars
<1>6. ASSUME NEW o \in Orders, Redo(o)
      PROVE  DutyInv'
  <2>1. again' = (IF OnOrder(o) THEN again \cup {o} ELSE again)
    BY <1>6 DEF Redo
  <2>2. \A q \in Orders : orderStatus'[q] # orderStatus[q] =>
                            q = o /\ orderStatus'[q] = "NEW"
    BY <1>6 DEF Redo, TypeInv, TypeOK
  <2> QED  BY <1>6, <2>1, <2>2, DutyKept, DutyLocks DEF Redo, Active, wcsVars
<1> QED  BY <1>3, <1>4, <1>5, <1>6 DEF Buttons

LEMMA DutyRestart == ASSUME TypeInv, DutyInv, Restart PROVE DutyInv'
<1>1. Active' = {} /\ executing' = {} /\ orderStatus' = orderStatus /\ again' = {}
  BY DEF Restart, Active
<1>2. ASSUME NEW o \in Orders
      PROVE  /\ report'[o] \subseteq {"DONE", "ERR"}
             /\ report[o] # {} => report'[o] # {}
  <2>1. report'[o] = {Forgotten(r) : r \in report[o]}
    BY DEF Restart
  <2> QED  BY <2>1 DEF Forgotten
<1> QED
  BY <1>1, <1>2 DEF DutyInv, AgvOnce, OrderDuty, OrderOnce, OnDuty, OnOrder, Waiting, Chained

LEMMA DutyTakeOrder ==
  ASSUME TypeInv, DutyInv, NEW a \in Agvs, NEW o \in Orders, TakeOrder(a, o)
  PROVE  DutyInv'
<1>1. ~OnDuty(a) /\ (o \in again \/ ~OnOrder(o))
  BY DutyLocks DEF TakeOrder, Free, Open, DutyInv, OrderDuty, OrderOnce
<1>2. /\ Active' = Active /\ chain' = chain /\ again' = again
      /\ executing' = executing \cup {[agv |-> a, order |-> o]}
  BY DEF TakeOrder, Active
<1>3. locked'[a] /\ \A b \in Agvs : locked[b] => locked'[b]
  BY DEF TakeOrder, TypeInv, TypeOK
<1>4. report'[o] = report[o] \cup {"NEW"} /\ \A q \in Orders : q # o => report'[q] = report[q]
  BY DEF TakeOrder, TypeInv, TypeOK
<1>5. orderStatus'[o] = "OVER" /\ \A q \in Orders : q # o => (orderStatus'[q] = "OVER" <=> orderStatus[q] = "OVER")
  BY DEF TakeOrder, AfterFetch
<1>6. AgvOnce'
  BY <1>1, <1>2, <1>3 DEF DutyInv, AgvOnce, OnDuty
<1>7. Waiting(o)' /\ OnOrder(o)' /\ (Chained(o)' <=> Chained(o))
  <2>1. [agv |-> a, order |-> o] \in executing'
    BY <1>2
  <2> QED  BY <1>2, <2>1 DEF Waiting, Chained, OnOrder
<1>8. ASSUME NEW q \in Orders, q # o
      PROVE  OrderDuty(q)'
  <2>1. \A e \in executing' : e.order = q => e \in executing
    BY <1>2, <1>8
  <2>2. /\ Waiting(q)' <=> Waiting(q)
        /\ Chained(q)' <=> Chained(q)
        /\ OnOrder(q)' <=> OnOrder(q)
    BY <1>2, <2>1 DEF Waiting, Chained, OnOrder
  <2>3. OrderDuty(q)
    BY DEF DutyInv
  <2>4. q \notin again => OrderOnce(q)
    BY <2>3 DEF OrderDuty
  <2>5. q \notin again => OrderOnce(q)'
    BY <1>2, <1>4, <1>5, <1>8, <2>1, <2>2, <2>4 DEF OrderOnce
  <2> QED  BY <1>2, <1>4, <1>5, <1>8, <2>2, <2>3, <2>5 DEF OrderDuty
<1>9. OrderDuty(o)'
  <2>1. OrderDuty(o)
    BY DEF DutyInv
  <2>2. o \notin again => OrderOnce(o)'
    <3> SUFFICES ASSUME o \notin again PROVE OrderOnce(o)'
      OBVIOUS
    <3>1. ~OnOrder(o)
      BY <1>1
    <3> QED  BY <1>2, <1>4, <1>5, <1>7, <3>1 DEF OrderOnce, OnOrder, Chained
  <2> QED  BY <1>2, <1>4, <1>7, <2>1, <2>2 DEF OrderDuty
<1> QED  BY <1>6, <1>8, <1>9 DEF DutyInv

(* A chain is created for an AGV that has no other duty. *)
LEMMA DutySendToPark ==
  ASSUME TypeInv, DutyInv, NEW a \in Agvs, NEW p \in Parks, SendToPark(a, p)
  PROVE  DutyInv'
<1> DEFINE n == lastId + 1
           c == NewChain(a, NoOrder, p, 0)
<1>1. lastId \in 0 .. MaxId /\ MaxId \in Nat
  BY BoundsAssumption DEF TypeInv, TypeOK
<1>2. c \in Chains /\ c.order = NoOrder /\ c.agv = a
  BY <1>1, NewChainType DEF Chains, NewChain
<1>3. /\ lastId' = lastId + 1 /\ lastId' <= MaxId /\ todo' = todo
      /\ chain' = [chain EXCEPT ![lastId + 1] = c]
  BY <1>1 DEF SendToPark, tickVars
<1>4. n \in Ids /\ n \notin Active /\ Active' = Active \cup {n}
  <2>1. lastId + 1 \in Ids /\ chain[lastId + 1] = Nothing /\ Active' = Active \cup {lastId + 1}
    BY <1>2, <1>3, ChainAdded
  <2> QED  BY <2>1 DEF Active
<1>5. chain'[n] = c /\ \A k \in Active : chain'[k] = chain[k]
  BY <1>3, <1>4 DEF TypeInv, TypeOK, Active
<1>6. ~OnDuty(a) /\ locked'[a] /\ \A b \in Agvs : locked[b] => locked'[b]
  BY DutyLocks DEF SendToPark, SentToPark, Free, TypeInv, TypeOK
<1>7. executing' = executing /\ UNCHANGED orderVars
  BY DEF SendToPark, orderVars
<1> HIDE DEF n, c
<1>8. AgvOnce'
  <2>1. \A j, k \in Active' : chain'[j].agv = chain'[k].agv => j = k
    BY <1>2, <1>4, <1>5, <1>6 DEF DutyInv, AgvOnce, OnDuty
  <2>2. \A e \in executing', k \in Active' : e.agv # chain'[k].agv
    BY <1>2, <1>4, <1>5, <1>6, <1>7 DEF DutyInv, AgvOnce, OnDuty
  <2>3. \A b \in Agvs : OnDuty(b)' => locked'[b]
    BY <1>2, <1>4, <1>5, <1>6, <1>7 DEF DutyInv, AgvOnce, OnDuty
  <2> QED  BY <1>7, <2>1, <2>2, <2>3 DEF DutyInv, AgvOnce
<1>9. ASSUME NEW o \in Orders
      PROVE  OrderDuty(o)'
  <2>1. \A k \in Active' : chain'[k].order = o => k \in Active /\ chain[k].order = o
    BY <1>2, <1>4, <1>5, OrdersAssumption
  <2>2. /\ Waiting(o)' <=> Waiting(o)
        /\ Chained(o)' <=> Chained(o)
        /\ OnOrder(o)' <=> OnOrder(o)
    BY <1>4, <1>5, <1>7, <2>1 DEF Waiting, Chained, OnOrder
  <2>3. OrderDuty(o)
    BY DEF DutyInv
  <2>4. o \notin again => OrderOnce(o)
    BY <2>3 DEF OrderDuty
  <2>5. o \notin again => OrderOnce(o)'
    BY <1>7, <2>1, <2>2, <2>4 DEF OrderOnce, orderVars
  <2> QED  BY <1>7, <2>2, <2>3, <2>5 DEF OrderDuty, orderVars
<1> QED  BY <1>8, <1>9 DEF DutyInv

(* The duty of an AGV passes from Executing_List_ to a chain. *)
LEMMA DutyDispatch ==
  ASSUME TypeInv, DutyInv, NEW e \in executing, Dispatch(e)
  PROVE  DutyInv'
<1> DEFINE n == lastId + 1
           c == NewChain(e.agv, e.order, Away, lastId)
<1>1. lastId \in 0 .. MaxId /\ MaxId \in Nat /\ e.agv \in Agvs /\ e.order \in Orders
  BY BoundsAssumption DEF TypeInv, TypeOK
<1>2. c \in Chains /\ c.order = e.order /\ c.agv = e.agv
  BY <1>1, NewChainType DEF Chains, NewChain
<1>3. /\ lastId' = lastId + 2 /\ lastId' <= MaxId /\ todo' = todo
      /\ chain' = [chain EXCEPT ![lastId + 1] = c]
  BY <1>1 DEF Dispatch, IdsFor, tickVars
<1>4. n \in Ids /\ n \notin Active /\ Active' = Active \cup {n}
  <2>1. lastId + 1 \in Ids /\ chain[lastId + 1] = Nothing /\ Active' = Active \cup {lastId + 1}
    BY <1>2, <1>3, ChainAdded
  <2> QED  BY <2>1 DEF Active
<1>5. chain'[n] = c /\ \A k \in Active : chain'[k] = chain[k]
  BY <1>3, <1>4 DEF TypeInv, TypeOK, Active
<1>6. locked'[e.agv] /\ \A b \in Agvs : locked[b] => locked'[b]
  BY <1>1 DEF Dispatch, TypeInv, TypeOK
<1>7. executing' = executing \ {e} /\ orderStatus' = orderStatus /\ again' = again
  BY DEF Dispatch
<1>8. report'[e.order] = {"DOING"} /\ \A o \in Orders : o # e.order => report'[o] = report[o]
  BY <1>1 DEF Dispatch, TypeInv, TypeOK
<1> HIDE DEF n, c
<1>9. /\ \A f \in executing' : f.agv # e.agv
      /\ \A k \in Active : chain[k].agv # e.agv
  BY <1>7 DEF DutyInv, AgvOnce
<1>10. AgvOnce'
  <2>1. \A j, k \in Active' : chain'[j].agv = chain'[k].agv => j = k
    BY <1>2, <1>4, <1>5, <1>9 DEF DutyInv, AgvOnce
  <2>2. \A f \in executing', k \in Active' : f.agv # chain'[k].agv
    BY <1>2, <1>4, <1>5, <1>7, <1>9 DEF DutyInv, AgvOnce
  <2>3. \A b \in Agvs : OnDuty(b)' => locked'[b]
    BY <1>2, <1>4, <1>5, <1>6, <1>7 DEF DutyInv, AgvOnce, OnDuty
  <2> QED  BY <1>7, <2>1, <2>2, <2>3 DEF DutyInv, AgvOnce
<1>11. Chained(e.order)' /\ OnOrder(e.order)'
  <2>1. n \in Active' /\ chain'[n].order = e.order
    BY <1>2, <1>4, <1>5
  <2> QED  BY <2>1 DEF Chained, OnOrder
<1>12. OrderDuty(e.order)'
  <2>1. OrderDuty(e.order)
    BY <1>1 DEF DutyInv
  <2>2. e.order \notin again => OrderOnce(e.order)'
    <3> SUFFICES ASSUME e.order \notin again PROVE OrderOnce(e.order)'
      OBVIOUS
    <3>1. OrderOnce(e.order) /\ Waiting(e.order)
      BY <2>1 DEF OrderDuty, Waiting
    <3>2. ~Waiting(e.order)'
      BY <1>7, <3>1 DEF OrderOnce, Waiting
    <3>3. \A k \in Active : chain[k].order # e.order
      BY <3>1 DEF OrderOnce, Chained
    <3> QED  BY <1>2, <1>4, <1>5, <1>7, <1>8, <3>1, <3>2, <3>3 DEF OrderOnce, Waiting, OnOrder
  <2> QED  BY <1>7, <1>8, <1>11, <2>2 DEF OrderDuty
<1>13. ASSUME NEW o \in Orders, o # e.order
       PROVE  OrderDuty(o)'
  <2>1. \A k \in Active' : chain'[k].order = o => k \in Active /\ chain[k].order = o
    BY <1>2, <1>4, <1>5, <1>13
  <2>2. /\ Waiting(o)' <=> Waiting(o)
        /\ Chained(o)' <=> Chained(o)
        /\ OnOrder(o)' <=> OnOrder(o)
    BY <1>4, <1>5, <1>7, <1>13, <2>1 DEF Waiting, Chained, OnOrder
  <2>3. OrderDuty(o)
    BY DEF DutyInv
  <2>4. o \notin again => OrderOnce(o)
    BY <2>3 DEF OrderDuty
  <2>5. o \notin again => OrderOnce(o)'
    BY <1>7, <1>8, <1>13, <2>1, <2>2, <2>4 DEF OrderOnce
  <2> QED  BY <1>7, <1>8, <1>13, <2>2, <2>3, <2>5 DEF OrderDuty
<1> QED  BY <1>10, <1>12, <1>13 DEF DutyInv

(* A chain is removed; its AGV has no other duty. *)
LEMMA DutyRemove ==
  ASSUME TypeInv, DutyInv, NEW k \in todo, CheckOver(k) \/ CheckError(k)
  PROVE  DutyInv'
<1>1. k \in Active /\ k \in Ids /\ chain[k].agv \in Agvs /\ (Carries(k) => chain[k].order \in Orders)
  BY ChainKinds DEF TypeInv, TodoActive, Chains, CarryChains, ParkChains
<1>2. executing' = executing /\ Active' = Active \ {k} /\ \A j \in Active' : chain'[j] = chain[j]
  <2>1. Checks(k) /\ Remove(k)
    BY DEF CheckOver, CheckError
  <2>2. Active' = Active \ {k}
    BY <2>1, RemoveType
  <2> QED  BY <1>1, <2>1, <2>2 DEF Checks, Remove, Active, TypeInv, TypeOK
<1>3. \A b \in Agvs : b # chain[k].agv => (locked[b] => locked'[b])
  BY <1>1 DEF CheckOver, CheckError, Relock, TypeInv, TypeOK
<1>4. \A o \in Orders : orderStatus'[o] = "OVER" <=> orderStatus[o] = "OVER"
  BY DEF CheckOver, CheckError, Reopened, TypeInv, TypeOK
<1>5. \A o \in Orders : o # chain[k].order => report'[o] = report[o]
  BY <1>1 DEF CheckOver, CheckError, TypeInv, TypeOK
<1>6. Carries(k) =>
        LET o == chain[k].order
        IN  \/ report'[o] \in {{"DONE"}, {"ERR"}}
            \/ "DOING" \notin report[o] /\ report'[o] = report[o]
  BY <1>1 DEF CheckOver, CheckError, Failed, TypeInv, TypeOK
<1>7. \A o \in Orders : o \in again' <=> o \in again /\ OnOrder(o)'
  BY DEF CheckOver, CheckError, Ended
<1>8. AgvOnce'
  <2>1. \A j, i \in Active' : chain'[j].agv = chain'[i].agv => j = i
    BY <1>2 DEF DutyInv, AgvOnce
  <2>2. \A f \in executing', j \in Active' : f.agv # chain'[j].agv
    BY <1>2 DEF DutyInv, AgvOnce
  <2>3. \A b \in Agvs : OnDuty(b)' => locked'[b]
    BY <1>1, <1>2, <1>3 DEF DutyInv, AgvOnce, OnDuty
  <2> QED  BY <1>2, <2>1, <2>2, <2>3 DEF DutyInv, AgvOnce
<1>9. ASSUME NEW o \in Orders, o # chain[k].order
      PROVE  OrderDuty(o)'
  <2>2. /\ Waiting(o)' <=> Waiting(o)
        /\ Chained(o)' <=> Chained(o)
        /\ OnOrder(o)' <=> OnOrder(o)
    BY <1>2, <1>9 DEF Waiting, Chained, OnOrder
  <2>3. OrderDuty(o)
    BY DEF DutyInv
  <2>4. o \notin again => OrderOnce(o)
    BY <2>3 DEF OrderDuty
  <2>5. o \in again' <=> o \in again
    BY <1>7, <2>2, <2>3 DEF OrderDuty
  <2>6. o \notin again => OrderOnce(o)'
    BY <1>2, <1>4, <1>5, <1>9, <2>2, <2>4 DEF OrderOnce
  <2> QED  BY <1>4, <1>5, <1>9, <2>2, <2>3, <2>5, <2>6 DEF OrderDuty
<1>10. ASSUME NEW o \in Orders, o = chain[k].order
       PROVE  OrderDuty(o)'
  <2>1. Carries(k) /\ Chained(o) /\ OnOrder(o)
    BY <1>1, <1>10, OrdersAssumption DEF Carries, Chained, OnOrder
  <2>2. OrderDuty(o)
    BY DEF DutyInv
  <2>3. \/ report'[o] \in {{"DONE"}, {"ERR"}}
        \/ "DOING" \notin report[o] /\ report'[o] = report[o]
    BY <1>6, <1>10, <2>1
  <2>4. (Waiting(o)' <=> Waiting(o)) /\ (OnOrder(o)' => OnOrder(o))
    BY <1>2, <2>1 DEF Waiting, OnOrder
  <2>5. o \notin again' => ~OnOrder(o)'
    <3>1. CASE o \in again
      BY <1>7, <3>1
    <3>2. CASE o \notin again
      <4>1. OrderOnce(o)
        BY <2>2, <3>2 DEF OrderDuty
      <4>2. \A j \in Active' : chain'[j].order # o
        BY <1>1, <1>2, <1>10, <4>1 DEF OrderOnce
      <4> QED  BY <1>2, <2>1, <4>1, <4>2 DEF OrderOnce, OnOrder, Waiting
    <3> QED  BY <3>1, <3>2
  <2>6. o \notin again' => OrderOnce(o)'
    BY <2>5 DEF OrderOnce, OnOrder, Waiting, Chained
  <2>7. o \in again' => OnOrder(o)'
    BY <1>7
  <2>8. report'[o] # {} /\ ("NEW" \in report'[o] => Waiting(o)') /\ "DOING" \notin report'[o]
    BY <2>1, <2>2, <2>3, <2>4 DEF OrderDuty
  <2> QED  BY <2>6, <2>7, <2>8 DEF OrderDuty
<1> QED  BY <1>8, <1>9, <1>10 DEF DutyInv

LEMMA DutyStep == TypeInv /\ DutyInv /\ [ChainsNext]_vars => DutyInv'
<1> SUFFICES ASSUME TypeInv, DutyInv, [ChainsNext]_vars PROVE DutyInv'
  OBVIOUS
<1>1. ASSUME NEW k \in todo, Check(k)
      PROVE  DutyInv'
  BY <1>1, DutyCheckKept, DutyRemove DEF Check
<1> QED
  BY <1>1, DutyPhases, DutyTakeOrder, DutySendToPark, DutyDispatch, DutyButtons, DutyRestart
     DEF ChainsNext, Tick

LEMMA DutyAlways == Spec => [](TypeInv /\ DutyInv)
BY InitTypeInv, TypeStep, InitDutyInv, DutyStep, PTL DEF Spec

(***************************************************************************)
(* An AGV has one order or chain at a time and is locked meanwhile, and an *)
(* order is with one AGV unless it was redone while an AGV had it,         *)
(* whatever the operator cancels or redoes and whenever the program        *)
(* restarts.                                                               *)
(***************************************************************************)
THEOREM OneDutyAlways == Spec => []OneDuty
BY DutyAlways, DutyMeans, PTL

(***************************************************************************)
(* A row reported NEW waits for the AGV that took the order, one reported  *)
(* DOING has a chain; conversely too, unless the order was redone while an *)
(* AGV had it; and no order is taken without a report.                     *)
(***************************************************************************)
THEOREM ReportAlwaysTrue == Spec => []ReportTrue
BY DutyAlways, DutyMeans, PTL
-----------------------------------------------------------------------------
(***************************************************************************)
(* What the ACS has to do and what chains believe of it.  A restart empties*)
(* the history and the feedback, but the ACS goes on with what it has.  The*)
(* ids start above those of the history, so that no chain gets one of the  *)
(* tasks that are left.  With a second restart before anything is sent the *)
(* history is empty and the ids start at 1: what follows holds until then. *)
(***************************************************************************)

(* An id of a task from before the restart is below those of all chains. *)
Old(i) == restarts # 0 /\ i <= lastId /\ \A k \in Active : i < k

IdsUsed ==
  /\ \A i \in history : i <= lastId
  /\ \A i \in Ids : feedback[i] # "none" => i \in history \/ Old(i)

TasksShape ==
  /\ \A t \in AcsTasks : (t.id \in history \/ Old(t.id)) /\ feedback[t.id] = "none"
  /\ \A t, u \in AcsTasks : t.id = u.id => t = u
  /\ \A a \in Agvs : running[a] # Nothing => running[a].agv = a /\ running[a] \notin inbox

(* Two chains share no id. *)
KeysApart == \A j, k \in Active : j < k /\ Carries(j) => j + 1 < k

(* The ids that a chain has yet to use, and the one that it waits for. *)
OwnIds ==
  \A k \in Active :
    /\ chain[k].status \in {"BEGIN", "EQUIP_GET", "PARKING"} => k \notin history
    /\ Carries(k) /\ chain[k].status \in {"BEGIN", "EQUIP_GET", "EQUIP_GET_CHECK", "EQUIP_PUT"} =>
         k + 1 \notin history
    /\ chain[k].status \in {"EQUIP_GET_CHECK", "PARKING_CHECK"} => chain[k].id = k
    /\ chain[k].status = "EQUIP_PUT_CHECK" => chain[k].id = k + 1

(* A task of this run of the program: its AGV has it only with a chain that *)
(* waits for it or was given up.  The others are nobody's.                  *)
Mine(t) == t.id \in history
Unsent == {"BEGIN", "EQUIP_GET", "EQUIP_PUT", "PARKING", "OVER"}
TasksKept ==
  \A t \in AcsTasks : Mine(t) =>
    /\ locked[t.agv]
    /\ \A e \in executing : e.agv # t.agv
    /\ \A k \in Active :
         chain[k].agv = t.agv => t.id = chain[k].id /\ chain[k].status \notin Unsent

(* A task with an id of a carry chain is the chain's. *)
TasksOwned ==
  \A t \in AcsTasks, k \in Active : Carries(k) =>
    /\ t.id = k => t.goal = "GET" /\ t.order = chain[k].order
    /\ t.id = k + 1 => t.goal = "PUT" /\ t.order = chain[k].order

DoneCarried ==
  \A k \in Active : Carries(k) =>
    /\ feedback[k] = "DONE" => <<chain[k].order, "GET">> \in carried
    /\ feedback[k + 1] = "DONE" => <<chain[k].order, "PUT">> \in carried

(* An answer that a chain is about to look at is that to the id it carries. *)
Fresh(k) == phase \in {"idle", "fetch", "dispatch"} \/ k \in todo
AnswerTrue ==
  \A k \in Active : Fresh(k) /\ chain[k].answer # "none" =>
    chain[k].id \in Ids /\ feedback[chain[k].id] = chain[k].answer

ChainTasks ==
  /\ IdsUsed /\ TasksShape /\ KeysApart /\ OwnIds /\ TasksKept /\ TasksOwned
  /\ DoneCarried /\ AnswerTrue /\ DoneWasCarried

CarryInv == restarts <= 1 => ChainTasks

LEMMA InitCarryInv == Init => CarryInv
<1> SUFFICES ASSUME Init PROVE ChainTasks
  BY DEF CarryInv
<1>1. Active = {} /\ AcsTasks = {}
  BY DEF Init, Active, AcsTasks
<1> QED
  BY <1>1 DEF Init, ChainTasks, IdsUsed, TasksShape, KeysApart, OwnIds, TasksKept, TasksOwned,
              DoneCarried, AnswerTrue, DoneWasCarried

LEMMA TaskKinds ==
  ASSUME TypeOK
  PROVE  /\ AcsTasks \subseteq Tasks /\ Nothing \notin Tasks
         /\ \A t \in AcsTasks : t.agv \in Agvs /\ t.id \in Ids
         /\ \A t : t \in AcsTasks <=> t \in inbox \/ \E a \in Agvs : running[a] # Nothing /\ t = running[a]
<1>1. \A t : t \in AcsTasks <=> t \in inbox \/ \E a \in Agvs : running[a] # Nothing /\ t = running[a]
  BY DEF AcsTasks
<1>2. AcsTasks \subseteq Tasks /\ Nothing \notin Tasks
  BY <1>1, NothingAssumption DEF TypeOK
<1> QED  BY <1>1, <1>2 DEF Tasks

(* A carry chain's second id is an id. *)
LEMMA SecondId ==
  ASSUME TypeInv, NEW k \in Active
  PROVE  k \in Ids /\ (Carries(k) => k + 1 \in Ids /\ k + 1 <= lastId /\ chain[k].order \in Orders)
<1>1. k \in Ids /\ (Carries(k) => chain[k].order \in Orders)
  BY ChainKinds DEF TypeInv, CarryChains
<1> QED  BY <1>1, BoundsAssumption DEF TypeInv, TypeOK, KeysGenerated

(* Steps that change neither chains nor tasks. *)
LEMMA TasksUnchanged ==
  ASSUME TypeInv, ChainTasks,
         chain' = chain, lastId' = lastId, history' = history, inbox' = inbox, running' = running,
         feedback' = feedback, executing' = executing, report' = report, carried' = carried,
         restarts' = restarts,
         \A k \in Active : Fresh(k)' => Fresh(k),
         \A t \in AcsTasks : Mine(t) => locked'[t.agv]
  PROVE  ChainTasks'
<1>1. Active' = Active /\ AcsTasks' = AcsTasks
  BY DEF Active, AcsTasks
<1>2. IdsUsed' /\ TasksShape' /\ KeysApart' /\ OwnIds'
  BY <1>1 DEF ChainTasks, IdsUsed, TasksShape, KeysApart, OwnIds, Carries, Old
<1>3. TasksKept' /\ TasksOwned' /\ DoneCarried'
  BY <1>1 DEF ChainTasks, TasksKept, TasksOwned, DoneCarried, Carries, Mine
<1>4. AnswerTrue' /\ DoneWasCarried'
  BY <1>1 DEF ChainTasks, AnswerTrue, DoneWasCarried, Carries
<1> QED  BY <1>2, <1>3, <1>4 DEF ChainTasks

LEMMA TasksPhases ==
  ASSUME TypeInv, ChainTasks,
         \/ BeginTick \/ EndFetch \/ EndDispatch \/ EndCheck \/ UNCHANGED vars
         \/ \E a \in Agvs : Unlock(a)
         \/ \E o \in Orders : Redo(o)
  PROVE  ChainTasks'
<1>0. \A t \in AcsTasks : t.agv \in Agvs /\ (Mine(t) => locked[t.agv])
  BY TaskKinds DEF TypeInv, ChainTasks, TasksKept
<1>1. CASE BeginTick
  <2>1. \A k \in Active : Fresh(k)' => Fresh(k)
    BY <1>1 DEF BeginTick, Fresh
  <2>2. \A t \in AcsTasks : Mine(t) => locked'[t.agv]
    BY <1>0, <1>1 DEF BeginTick
  <2> QED  BY <1>1, <2>1, <2>2, TasksUnchanged DEF BeginTick, orderVars, acsVars
<1>2. CASE EndFetch \/ EndCheck \/ UNCHANGED vars
  <2>1. \A k \in Active : Fresh(k)' => Fresh(k)
    BY <1>2 DEF EndFetch, EndCheck, vars, tickVars, Fresh
  <2> QED
    BY <1>0, <1>2, <2>1, TasksUnchanged DEF EndFetch, EndCheck, vars, wcsVars, orderVars, acsVars
<1>3. CASE EndDispatch
  <2>1. \A k \in Active : Fresh(k)' => Fresh(k)
    BY <1>3 DEF EndDispatch, Fresh
  <2> QED  BY <1>0, <1>3, <2>1, TasksUnchanged DEF EndDispatch, wcsVars, orderVars, acsVars
<1>4. ASSUME NEW a \in Agvs, Unlock(a)
      PROVE  ChainTasks'
  <2>1. \A t \in AcsTasks : Mine(t) => locked'[t.agv]
    BY <1>0, <1>4 DEF Unlock, TypeInv, TypeOK
  <2> QED  BY <1>4, <2>1, TasksUnchanged DEF Unlock, Fresh, tickVars, orderVars
<1>5. ASSUME NEW o \in Orders, Redo(o)
      PROVE  ChainTasks'
  BY <1>0, <1>5, TasksUnchanged DEF Redo, Fresh, tickVars, wcsVars, acsVars
<1> QED  BY <1>1, <1>2, <1>3, <1>4, <1>5

(* An AGV that takes an order is unlocked and so has no task. *)
LEMMA TasksTakeOrder ==
  ASSUME TypeInv, DutyInv, ChainTasks, NEW a \in Agvs, NEW o \in Orders, TakeOrder(a, o)
  PROVE  ChainTasks'
<1>1. /\ Active' = Active /\ AcsTasks' = AcsTasks /\ chain' = chain /\ lastId' = lastId
      /\ history' = history /\ inbox' = inbox /\ running' = running /\ feedback' = feedback
      /\ restarts' = restarts
  BY DEF TakeOrder, Active, AcsTasks
<1>2. \A t \in AcsTasks : Mine(t) => t.agv # a /\ locked'[t.agv]
  BY TaskKinds DEF TakeOrder, Free, ChainTasks, TasksKept, TypeInv, TypeOK
<1>3. carried' = (IF OnOrder(o) THEN carried ELSE {c \in carried : c[1] # o})
  BY DEF TakeOrder
<1>4. /\ \A k \in Active : \A g : <<chain[k].order, g>> \in carried => <<chain[k].order, g>> \in carried'
      /\ \A q : \A g : q # o /\ <<q, g>> \in carried => <<q, g>> \in carried'
  BY <1>3 DEF OnOrder
<1>5. IdsUsed' /\ TasksShape' /\ KeysApart' /\ OwnIds' /\ TasksOwned'
  BY <1>1 DEF ChainTasks, IdsUsed, TasksShape, KeysApart, OwnIds, TasksOwned, Carries, Old
<1>6. TasksKept'
  <2>1. executing' = executing \cup {[agv |-> a, order |-> o]}
    BY DEF TakeOrder
  <2> QED  BY <1>1, <1>2, <2>1 DEF ChainTasks, TasksKept, Mine
<1>7. DoneCarried'
  BY <1>1, <1>4 DEF ChainTasks, DoneCarried, Carries
<1>8. AnswerTrue'
  BY <1>1 DEF TakeOrder, ChainTasks, AnswerTrue, Fresh
<1>9. DoneWasCarried'
  <2>1. \A q \in Orders : report'[q] = IF q = o THEN report[q] \cup {"NEW"} ELSE report[q]
    BY DEF TakeOrder, TypeInv, TypeOK
  <2>2. "NEW" \in report'[o]
    BY <2>1
  <2>3. ASSUME NEW q \in Orders, report'[q] = {"DONE"}
        PROVE  q # o /\ report[q] = {"DONE"}
    <3>1. "NEW" \notin report'[q]
      BY <2>3
    <3>2. q # o
      BY <2>2, <3>1
    <3> QED  BY <2>1, <2>3, <3>2
  <2> QED  BY <1>1, <1>4, <2>3 DEF ChainTasks, DoneWasCarried, Carries
<1> QED  BY <1>5, <1>6, <1>7, <1>8, <1>9 DEF ChainTasks

(* A new chain takes ids that nothing has used, for an AGV that has nothing to do. *)
LEMMA TasksNewChain ==
  ASSUME TypeInv, ChainTasks, NEW c \in Chains, c.status = "BEGIN", c.answer = "none",
         lastId' \in {lastId + 1, lastId + 2}, lastId' <= MaxId,
         c.order # NoOrder => lastId' = lastId + 2,
         chain' = [chain EXCEPT ![lastId + 1] = c], todo' = todo, phase' = phase,
         history' = history, inbox' = inbox, running' = running, feedback' = feedback,
         carried' = carried, executing' \subseteq executing, restarts' = restarts,
         \A t \in AcsTasks : Mine(t) => t.agv # c.agv /\ locked'[t.agv],
         \A o \in Orders : report'[o] = {"DONE"} => report[o] = {"DONE"}
  PROVE  ChainTasks'
<1>16. PICK n : n = lastId + 1
  OBVIOUS
<1>1. /\ n \in Ids /\ chain[n] = Nothing /\ Active' = Active \cup {n}
      /\ lastId \in Nat /\ MaxId \in Nat /\ lastId < lastId' /\ (c.order # NoOrder => n + 1 \in Ids)
  <2>1. lastId + 1 \in Ids /\ chain[lastId + 1] = Nothing /\ Active' = Active \cup {lastId + 1}
    BY ChainAdded
  <2> QED  BY <1>16, <2>1, BoundsAssumption DEF TypeInv, TypeOK
<1>2. AcsTasks' = AcsTasks
  BY DEF AcsTasks
<1>3. /\ chain'[n] = c
      /\ \A k \in Active : k # n /\ k \in Ids /\ chain'[k] = chain[k] /\ k <= lastId
  BY <1>1, <1>16 DEF TypeInv, TypeOK, KeysGenerated, Active
<1>4. /\ \A i \in history : i \in Ids /\ i <= lastId
      /\ \A t \in AcsTasks : t.id \in Ids /\ t.id <= lastId
  BY TaskKinds DEF TypeInv, TypeOK, ChainTasks, IdsUsed, TasksShape, Old
<1>5. n \notin history /\ n + 1 \notin history
  BY <1>1, <1>4, <1>16
<1>6. feedback[n] = "none" /\ (c.order # NoOrder => feedback[n + 1] = "none")
  BY <1>1, <1>5, <1>16 DEF ChainTasks, IdsUsed, Old
<1>13. \A k \in Active : Carries(k) => k + 1 <= lastId
  BY DEF TypeInv, KeysGenerated
<1>14. \A k \in Active : Carries(k)' <=> Carries(k)
  BY <1>3 DEF Carries
<1>15. Carries(n)' <=> c.order # NoOrder
  BY <1>3 DEF Carries
<1>7. IdsUsed' /\ TasksShape'
  <2>0. \A i \in Ids : Old(i) => Old(i)'
    BY <1>1, <1>16 DEF Old, Ids
  <2>1. IdsUsed'
    BY <1>1, <1>4, <2>0 DEF ChainTasks, IdsUsed
  <2> QED  BY <1>2, <1>4, <2>0, <2>1 DEF ChainTasks, TasksShape
<1>8. KeysApart'
  BY <1>1, <1>3, <1>13, <1>14, <1>15, <1>16 DEF ChainTasks, KeysApart
<1>9. OwnIds'
  BY <1>1, <1>3, <1>5, <1>14 DEF ChainTasks, OwnIds
<1>10. TasksKept' /\ TasksOwned'
  <2>1. TasksKept'
    BY <1>1, <1>2, <1>3 DEF ChainTasks, TasksKept, Mine
  <2>2. TasksOwned'
    BY <1>1, <1>2, <1>3, <1>4, <1>14, <1>16 DEF ChainTasks, TasksOwned
  <2> QED  BY <2>1, <2>2
<1>11. DoneCarried' /\ AnswerTrue'
  <2>1. DoneCarried'
    BY <1>1, <1>3, <1>6, <1>14, <1>15 DEF ChainTasks, DoneCarried
  <2>2. AnswerTrue'
    BY <1>1, <1>3 DEF ChainTasks, AnswerTrue, Fresh
  <2> QED  BY <2>1, <2>2
<1>12. DoneWasCarried'
  BY <1>1, <1>3, <1>14 DEF ChainTasks, DoneWasCarried
<1> QED  BY <1>7, <1>8, <1>9, <1>10, <1>11, <1>12 DEF ChainTasks

LEMMA TasksCreate ==
  ASSUME TypeInv, DutyInv, ChainTasks,
         \/ \E a \in Agvs, p \in Parks : SendToPark(a, p)
         \/ \E e \in executing : Dispatch(e)
  PROVE  ChainTasks'
<1>0. lastId \in 0 .. MaxId /\ MaxId \in Nat
  BY BoundsAssumption DEF TypeInv, TypeOK
<1>1. \A t \in AcsTasks : t.agv \in Agvs /\ (Mine(t) => locked[t.agv])
  BY TaskKinds DEF TypeInv, ChainTasks, TasksKept
<1>2. ASSUME NEW a \in Agvs, NEW p \in Parks, SendToPark(a, p)
      PROVE  ChainTasks'
  <2> DEFINE c == NewChain(a, NoOrder, p, 0)
  <2>1. /\ c \in Chains /\ c.order = NoOrder /\ c.agv = a
        /\ c.status = "BEGIN" /\ c.answer = "none"
    BY <1>0, NewChainType DEF Chains, NewChain
  <2>2. /\ lastId' = lastId + 1 /\ lastId' <= MaxId /\ todo' = todo /\ phase' = phase
        /\ chain' = [chain EXCEPT ![lastId + 1] = c]
        /\ history' = history /\ inbox' = inbox /\ running' = running /\ feedback' = feedback
        /\ carried' = carried /\ executing' = executing /\ report' = report
        /\ restarts' = restarts
    BY <1>0, <1>2 DEF SendToPark, tickVars, acsVars, orderVars
  <2>3. \A t \in AcsTasks : Mine(t) => t.agv # a /\ locked'[t.agv]
    BY <1>1, <1>2 DEF SendToPark, SentToPark, Free, TypeInv, TypeOK
  <2> HIDE DEF c
  <2> QED  BY <2>1, <2>2, <2>3, TasksNewChain
<1>3. ASSUME NEW e \in executing, Dispatch(e)
      PROVE  ChainTasks'
  <2> DEFINE c == NewChain(e.agv, e.order, Away, lastId)
  <2>0. e.agv \in Agvs /\ e.order \in Orders
    BY DEF TypeInv, TypeOK
  <2>1. /\ c \in Chains /\ c.agv = e.agv
        /\ c.status = "BEGIN" /\ c.answer = "none"
    BY <1>0, <2>0, NewChainType DEF Chains, NewChain
  <2>2. /\ lastId' = lastId + 2 /\ lastId' <= MaxId /\ todo' = todo /\ phase' = phase
        /\ chain' = [chain EXCEPT ![lastId + 1] = c]
        /\ history' = history /\ inbox' = inbox /\ running' = running /\ feedback' = feedback
        /\ carried' = carried /\ executing' \subseteq executing /\ restarts' = restarts
    BY <1>0, <1>3 DEF Dispatch, IdsFor, tickVars, acsVars
  <2>3. \A t \in AcsTasks : Mine(t) => t.agv # e.agv /\ locked'[t.agv]
    BY <1>1, <1>3, <2>0 DEF Dispatch, TypeInv, TypeOK, ChainTasks, TasksKept
  <2>4. \A o \in Orders : report'[o] = {"DONE"} => report[o] = {"DONE"}
    BY <1>3, <2>0 DEF Dispatch, TypeInv, TypeOK
  <2> HIDE DEF c
  <2> QED  BY <2>1, <2>2, <2>3, <2>4, TasksNewChain
<1> QED  BY <1>2, <1>3

(***************************************************************************)
(* Chains go on, are cancelled or get answers; a status that a chain may   *)
(* go on to.                                                               *)
(***************************************************************************)
Fits(k, s) ==
  /\ s \in {"BEGIN", "EQUIP_GET", "PARKING"} => k \notin history
  /\ Carries(k) /\ s \in {"BEGIN", "EQUIP_GET", "EQUIP_GET_CHECK", "EQUIP_PUT"} => k + 1 \notin history
  /\ s \in {"EQUIP_GET_CHECK", "PARKING_CHECK"} => chain[k].id = k
  /\ s = "EQUIP_PUT_CHECK" => chain[k].id = k + 1
  /\ \A t \in AcsTasks : Mine(t) /\ t.agv = chain[k].agv => s \notin Unsent
  /\ Carries(k) =>
       /\ s \in {"EQUIP_PUT", "EQUIP_PUT_CHECK"} => <<chain[k].order, "GET">> \in carried
       /\ s = "OVER" => <<chain[k].order, "PUT">> \in carried

LEMMA StatusFits == ASSUME ChainTasks, NEW k \in Active PROVE Fits(k, chain[k].status)
BY DEF ChainTasks, OwnIds, TasksKept, DoneWasCarried, Fits

LEMMA TasksStatus ==
  ASSUME TypeInv, ChainTasks, Active' = Active, lastId' = lastId,
         history' = history, inbox' = inbox, running' = running, feedback' = feedback,
         executing' = executing, report' = report, carried' = carried, restarts' = restarts,
         \A k \in Active : SameDuty(k) /\ chain'[k].id = chain[k].id /\ Fits(k, chain'[k].status),
         \A t \in AcsTasks : Mine(t) => locked'[t.agv],
         AnswerTrue'
  PROVE  ChainTasks'
<1>1. AcsTasks' = AcsTasks
  BY DEF AcsTasks
<1>2. \A k \in Active : (Carries(k)' <=> Carries(k))
  BY DEF Carries, SameDuty
<1>3. IdsUsed' /\ TasksShape' /\ KeysApart'
  BY <1>1, <1>2 DEF ChainTasks, IdsUsed, TasksShape, KeysApart, Old
<1>4. OwnIds'
  BY <1>2 DEF OwnIds, Fits
<1>5. TasksKept'
  <2>1. \A t \in AcsTasks, k \in Active : Mine(t) /\ chain'[k].agv = t.agv =>
          t.id = chain'[k].id /\ chain'[k].status \notin Unsent
    <3> SUFFICES ASSUME NEW t \in AcsTasks, NEW k \in Active, Mine(t), chain'[k].agv = t.agv
                 PROVE  t.id = chain'[k].id /\ chain'[k].status \notin Unsent
      OBVIOUS
    <3>1. chain[k].agv = t.agv
      BY DEF SameDuty
    <3>2. t.id = chain[k].id
      BY <3>1 DEF ChainTasks, TasksKept
    <3>3. chain'[k].status \notin Unsent
      BY <3>1 DEF Fits
    <3> QED  BY <3>2, <3>3
  <2> QED  BY <1>1, <2>1 DEF ChainTasks, TasksKept, Mine
<1>6. TasksOwned' /\ DoneCarried'
  BY <1>1, <1>2 DEF ChainTasks, TasksOwned, DoneCarried, SameDuty
<1>7. DoneWasCarried'
  BY <1>2 DEF ChainTasks, DoneWasCarried, Fits, SameDuty
<1> QED  BY <1>3, <1>4, <1>5, <1>6, <1>7 DEF ChainTasks

LEMMA TasksFeedback ==
  ASSUME TypeInv, ChainTasks, ReadFeedback \/ \E k \in Active : Cancel(k)
  PROVE  ChainTasks'
<1>0. \A k \in Active : chain[k] \in Chains /\ chain[k].id \in 0 .. MaxId /\ k \in Ids
  BY ChainKinds DEF TypeInv, Chains, CarryChains, ParkChains
<1>1. \A t \in AcsTasks : Mine(t) => locked'[t.agv]
  BY DEF ChainTasks, TasksKept, ReadFeedback, Cancel
<1>2. CASE ReadFeedback
  <2>1. \A k \in Active :
          /\ chain'[k].id = chain[k].id /\ chain'[k].status = chain[k].status
          /\ chain'[k].answer = IF chain[k].id = 0 THEN "none" ELSE feedback[chain[k].id]
    BY <1>0, <1>2 DEF ReadFeedback, Chains, CarryChains, ParkChains
  <2>2. AnswerTrue'
    BY <1>0, <1>2, <2>1, ButtonChains, BoundsAssumption DEF ReadFeedback, AnswerTrue, acsVars
  <2>3. \A k \in Active : SameDuty(k) /\ chain'[k].id = chain[k].id /\ Fits(k, chain'[k].status)
    BY <1>2, <2>1, ButtonChains, StatusFits
  <2> QED  BY <1>1, <1>2, <2>2, <2>3, ButtonChains, TasksStatus DEF ReadFeedback, orderVars, acsVars
<1>3. ASSUME NEW k \in Active, Cancel(k)
      PROVE  ChainTasks'
  <2>1. \A j \in Active :
          /\ chain'[j].id = chain[j].id /\ chain'[j].answer = chain[j].answer
          /\ chain'[j].status \in {chain[j].status, "ABORT"}
    BY <1>0, <1>3 DEF Cancel, Chains, CarryChains, ParkChains
  <2>2. AnswerTrue'
    BY <1>3, <2>1, ButtonChains DEF Cancel, tickVars, ChainTasks, AnswerTrue, Fresh
  <2>3. \A j \in Active : Fits(j, "ABORT")
    BY DEF Fits, Unsent
  <2>4. \A j \in Active : SameDuty(j) /\ chain'[j].id = chain[j].id /\ Fits(j, chain'[j].status)
    BY <1>3, <2>1, <2>3, ButtonChains, StatusFits
  <2> QED  BY <1>1, <1>3, <2>2, <2>4, ButtonChains, TasksStatus DEF Cancel, orderVars
<1> QED  BY <1>2, <1>3

(* A chain checked goes on in a status that fits. *)
LEMMA TasksGoOn ==
  ASSUME TypeInv, ChainTasks, NEW k \in todo, NEW s, GoOn(k, s), Fits(k, s),
         Carries(k) => s \in CarryStatus, ~Carries(k) => s \in ParkStatus
  PROVE  ChainTasks'
<1>1. /\ k \in Active /\ k \in Ids /\ chain[k].agv \in Agvs /\ chain[k] \in Chains
      /\ \A j \in Active : j \in Ids /\ chain[j] \in Chains
  BY ChainKinds DEF TypeInv, TodoActive, Chains, CarryChains, ParkChains
<1>2. Active' = Active /\ chain' \in [Ids -> Chains \cup {Nothing}]
  BY GoOnType DEF TypeInv, TypeOK
<1>3. \A j \in Active : j # k => chain'[j] = chain[j]
  BY <1>1 DEF GoOn, TypeInv, TypeOK
<1>4. chain'[k] = [chain[k] EXCEPT !.status = s]
  BY <1>1 DEF GoOn, TypeInv, TypeOK
<1>5. /\ chain'[k].status = s /\ chain'[k].id = chain[k].id /\ chain'[k].answer = chain[k].answer
      /\ chain'[k].agv = chain[k].agv /\ chain'[k].order = chain[k].order
  BY <1>1, <1>4 DEF Chains, CarryChains, ParkChains
<1>6. \A j \in Active : chain'[j] \in Chains
  BY <1>2 DEF Active
<1>7. \A j \in Active : SameDuty(j) /\ chain'[j].id = chain[j].id /\ Fits(j, chain'[j].status)
  <2>1. \A j \in Active : SameDuty(j) /\ chain'[j].id = chain[j].id
    BY <1>3, <1>5, <1>6 DEF SameDuty
  <2> QED  BY <1>3, <1>5, <2>1, StatusFits
<1>8. AnswerTrue'
  BY <1>2, <1>3, <1>5 DEF GoOn, Checks, acsVars, ChainTasks, AnswerTrue, Fresh
<1>9. \A t \in AcsTasks : Mine(t) => locked'[t.agv]
  BY <1>1, TaskKinds DEF GoOn, Relock, TypeInv, TypeOK, ChainTasks, TasksKept
<1> QED
  BY <1>2, <1>7, <1>8, <1>9, TasksStatus DEF GoOn, Checks, orderVars, acsVars

LEMMA TasksAnswer ==
  ASSUME TypeInv, ChainTasks, NEW k \in todo, CheckBegin(k) \/ Refused(k) \/ CheckAnswer(k)
  PROVE  ChainTasks'
<1>1. /\ k \in Active /\ k \in Ids /\ Fits(k, chain[k].status)
      /\ Carries(k) => chain[k].status \in CarryStatus /\ k + 1 \in Ids
      /\ ~Carries(k) => chain[k].status \in ParkStatus
  BY ChainKinds, SecondId, StatusFits DEF TypeInv, TodoActive, CarryChains, ParkChains
<1>2. CASE CheckBegin(k)
  <2>1. CASE Carries(k)
    <3>1. GoOn(k, "EQUIP_GET") /\ Fits(k, "EQUIP_GET")
      BY <1>1, <1>2, <2>1 DEF CheckBegin, Fits, Unsent
    <3> QED  BY <2>1, <3>1, TasksGoOn DEF CarryStatus
  <2>2. CASE ~Carries(k)
    <3>1. GoOn(k, "PARKING") /\ Fits(k, "PARKING")
      BY <1>1, <1>2, <2>2 DEF CheckBegin, Fits, Unsent
    <3> QED  BY <2>2, <3>1, TasksGoOn DEF ParkStatus
  <2> QED  BY <2>1, <2>2
<1>3. CASE Refused(k)
  BY <1>1, <1>3, TasksGoOn DEF Refused
<1>4. CASE CheckAnswer(k)
  <2>1. chain[k].answer # "none" => chain[k].id \in Ids /\ feedback[chain[k].id] = chain[k].answer
    BY <1>1 DEF ChainTasks, AnswerTrue, Fresh
  <2>2. chain[k].answer # "none" => \A t \in AcsTasks : Mine(t) => t.agv # chain[k].agv
    BY <1>1, <2>1 DEF ChainTasks, TasksShape, TasksKept
  <2>3. CASE chain[k].answer = "DONE" /\ chain[k].status = "EQUIP_GET_CHECK"
    <3>1. Carries(k) /\ chain[k].id = k
      BY <1>1, <2>3, StatusKind DEF Fits
    <3>2. <<chain[k].order, "GET">> \in carried
      BY <1>1, <2>1, <2>3, <3>1 DEF ChainTasks, DoneCarried
    <3>3. GoOn(k, "EQUIP_PUT") /\ Fits(k, "EQUIP_PUT")
      BY <1>1, <1>4, <2>2, <2>3, <3>1, <3>2 DEF CheckAnswer, After, Fits
    <3> QED  BY <3>1, <3>3, TasksGoOn DEF CarryStatus
  <2>4. CASE chain[k].answer = "DONE" /\ chain[k].status # "EQUIP_GET_CHECK"
    <3>1. Carries(k) => <<chain[k].order, "PUT">> \in carried
      <4> SUFFICES ASSUME Carries(k) PROVE <<chain[k].order, "PUT">> \in carried
        OBVIOUS
      <4>1. chain[k].status = "EQUIP_PUT_CHECK"
        BY <1>1, <1>4, <2>4, StatusKind DEF CheckAnswer
      <4>2. chain[k].id = k + 1
        BY <1>1, <4>1 DEF Fits
      <4> QED  BY <1>1, <2>1, <2>4, <4>2 DEF ChainTasks, DoneCarried
    <3>2. GoOn(k, "OVER") /\ Fits(k, "OVER")
      BY <1>4, <2>2, <2>4, <3>1 DEF CheckAnswer, After, Fits
    <3> QED  BY <3>2, TasksGoOn DEF CarryStatus, ParkStatus
  <2>5. CASE chain[k].answer # "DONE"
    <3>1. Fits(k, "ERR") /\ Fits(k, "ABORT")
      BY DEF Fits, Unsent
    <3>2. GoOn(k, "ERR") \/ GoOn(k, "ABORT") \/ GoOn(k, chain[k].status)
      BY <1>4, <2>5 DEF CheckAnswer
    <3> QED  BY <1>1, <3>1, <3>2, TasksGoOn DEF CarryStatus, ParkStatus
  <2> QED  BY <2>3, <2>4, <2>5
<1> QED  BY <1>2, <1>3, <1>4

(***************************************************************************)
(* A sub-task given to the ACS: the first of its chain, or the second of a *)
(* chain whose first is done.                                              *)
(***************************************************************************)
LEMMA TasksInsert ==
  ASSUME TypeInv, DutyInv, ChainTasks, NEW k \in todo, NEW i \in Ids, NEW g, NEW s,
         Insert(k, i, g, s), Active' = Active, i \notin history, i <= lastId,
         \/ /\ i = k /\ s \in {"EQUIP_GET_CHECK", "PARKING_CHECK"}
            /\ Carries(k) => g = "GET" /\ k + 1 \notin history
         \/ /\ i = k + 1 /\ s = "EQUIP_PUT_CHECK" /\ Carries(k) /\ g = "PUT"
            /\ <<chain[k].order, "GET">> \in carried,
         \A t \in AcsTasks : Mine(t) => t.agv # chain[k].agv
  PROVE  ChainTasks'
<1>1. /\ k \in Active /\ k \in Ids /\ chain[k].agv \in Agvs /\ chain[k] \in Chains
      /\ \A j \in Active : j \in Ids /\ (Carries(j) => j + 1 \in Ids)
  BY ChainKinds, SecondId DEF TypeInv, TodoActive, Chains, CarryChains, ParkChains
<1>2. PICK n : n = [id |-> i, agv |-> chain[k].agv, goal |-> g, order |-> chain[k].order, to |-> chain[k].to]
  OBVIOUS
<1>3. inbox' = inbox \cup {n} /\ running' = running /\ AcsTasks' = AcsTasks \cup {n}
  BY <1>2 DEF Insert, AcsTasks
<1>4. n.id = i /\ n.agv = chain[k].agv /\ n.goal = g /\ n.order = chain[k].order
  BY <1>2
<1>5. \A j \in Active : j # k => chain'[j] = chain[j]
  BY <1>1 DEF Insert, TypeInv, TypeOK
<1>6. /\ chain'[k].id = i /\ chain'[k].status = s /\ chain'[k].answer = chain[k].answer
      /\ chain'[k].agv = chain[k].agv /\ chain'[k].order = chain[k].order
  <2>1. chain'[k] = [chain[k] EXCEPT !.id = i, !.status = s]
    BY <1>1 DEF Insert, Inserted, TypeInv, TypeOK
  <2> QED  BY <1>1, <2>1 DEF Chains, CarryChains, ParkChains
<1>7. /\ history' = history \cup {i} /\ lastId' = lastId /\ feedback' = feedback /\ phase' = phase
      /\ executing' = executing /\ report' = report /\ carried' = carried /\ todo' = todo \ {k}
      /\ restarts' = restarts
  BY DEF Insert, Checks, orderVars
<1>8. \A t \in AcsTasks : t.id # i /\ t.agv \in Agvs /\ t.id \in Ids /\ (Mine(t) \/ Old(t.id))
  <2>1. \A t \in AcsTasks : t.agv \in Agvs /\ t.id \in Ids /\ (Mine(t) \/ Old(t.id))
    BY TaskKinds DEF TypeInv, ChainTasks, TasksShape, Mine
  <2>2. ~Old(i)
    BY <1>1 DEF Old, Ids
  <2> QED  BY <2>1, <2>2 DEF Mine
<1>9. \A j \in Active : j # k => i # j /\ (Carries(j) => i # j + 1)
  BY <1>1 DEF ChainTasks, KeysApart
<1>10. \A j \in Active : Carries(j)' <=> Carries(j)
  BY <1>5, <1>6 DEF Carries
<1>21. \A j \in Ids : Old(j) => Old(j)'
  BY <1>7 DEF Old
<1>22. \A t \in AcsTasks : Mine(t)' => Mine(t)
  BY <1>7, <1>8 DEF Mine
<1>11. \A t \in AcsTasks' : Mine(t)' => locked'[t.agv]
  <2>1. locked'[chain[k].agv] /\ \A b \in Agvs : locked[b] => locked'[b]
    BY <1>1 DEF Insert, Relock, TypeInv, TypeOK
  <2> QED  BY <1>3, <1>4, <1>8, <1>22, <2>1 DEF ChainTasks, TasksKept
<1>12. IdsUsed'
  BY <1>7, <1>21 DEF ChainTasks, IdsUsed
<1>13. TasksShape'
  <2>1. feedback[i] = "none"
    BY <1>1 DEF ChainTasks, IdsUsed, Old, Ids
  <2>2. n \notin AcsTasks
    BY <1>4, <1>8
  <2>3. \A t \in AcsTasks' : (t.id \in history' \/ Old(t.id)') /\ feedback'[t.id] = "none"
    BY <1>3, <1>4, <1>7, <1>8, <1>21, <2>1 DEF ChainTasks, TasksShape
  <2>4. \A t, u \in AcsTasks' : t.id = u.id => t = u
    BY <1>3, <1>4, <1>8 DEF ChainTasks, TasksShape
  <2>5. \A a \in Agvs : running'[a] # Nothing => running'[a].agv = a /\ running'[a] \notin inbox'
    BY <1>3, <2>2, TaskKinds DEF TypeInv, ChainTasks, TasksShape
  <2> QED  BY <2>3, <2>4, <2>5 DEF TasksShape
<1>14. KeysApart'
  BY <1>10 DEF ChainTasks, KeysApart
<1>15. OwnIds'
  <2> SUFFICES ASSUME NEW j \in Active
               PROVE  /\ chain'[j].status \in {"BEGIN", "EQUIP_GET", "PARKING"} => j \notin history'
                      /\ Carries(j) /\ chain'[j].status
                           \in {"BEGIN", "EQUIP_GET", "EQUIP_GET_CHECK", "EQUIP_PUT"}
                           => j + 1 \notin history'
                      /\ chain'[j].status \in {"EQUIP_GET_CHECK", "PARKING_CHECK"} => chain'[j].id = j
                      /\ chain'[j].status = "EQUIP_PUT_CHECK" => chain'[j].id = j + 1
    BY <1>10 DEF OwnIds
  <2>1. CASE j = k
    BY <2>1, <1>1, <1>6, <1>7
  <2>2. CASE j # k
    BY <2>2, <1>5, <1>7, <1>9 DEF ChainTasks, OwnIds
  <2> QED  BY <2>1, <2>2
<1>16. TasksKept'
  <2>1. \A t \in AcsTasks' : Mine(t)' => \A e \in executing' : e.agv # t.agv
    BY <1>1, <1>3, <1>4, <1>7, <1>22 DEF DutyInv, AgvOnce, ChainTasks, TasksKept
  <2>2. \A j \in Active : chain[j].agv = chain[k].agv => j = k
    BY <1>1 DEF DutyInv, AgvOnce
  <2>3. \A t \in AcsTasks', j \in Active : Mine(t)' /\ chain'[j].agv = t.agv =>
          t.id = chain'[j].id /\ chain'[j].status \notin Unsent
    <3> SUFFICES ASSUME NEW t \in AcsTasks', NEW j \in Active, Mine(t)', chain'[j].agv = t.agv
                 PROVE  t.id = chain'[j].id /\ chain'[j].status \notin Unsent
      OBVIOUS
    <3>1. CASE t = n
      BY <3>1, <1>4, <1>5, <1>6, <2>2 DEF Unsent
    <3>2. CASE t # n
      <4>1. t \in AcsTasks /\ Mine(t) /\ j # k
        BY <3>2, <1>3, <1>6, <1>22
      <4> QED  BY <4>1, <1>5 DEF ChainTasks, TasksKept
    <3> QED  BY <3>1, <3>2
  <2> QED  BY <1>11, <2>1, <2>3 DEF TasksKept
<1>17. TasksOwned'
  <2> SUFFICES ASSUME NEW t \in AcsTasks', NEW j \in Active, Carries(j)
               PROVE  /\ t.id = j => t.goal = "GET" /\ t.order = chain'[j].order
                      /\ t.id = j + 1 => t.goal = "PUT" /\ t.order = chain'[j].order
    BY <1>10 DEF TasksOwned
  <2>0. chain'[j].order = chain[j].order
    BY <1>5, <1>6
  <2>1. CASE t = n
    BY <2>0, <2>1, <1>1, <1>4, <1>9
  <2>2. CASE t # n
    BY <2>0, <2>2, <1>3 DEF ChainTasks, TasksOwned
  <2> QED  BY <2>1, <2>2
<1>18. DoneCarried'
  BY <1>5, <1>6, <1>7, <1>10 DEF ChainTasks, DoneCarried
<1>19. AnswerTrue'
  <2> SUFFICES ASSUME NEW j \in Active, Fresh(j)', chain'[j].answer # "none"
               PROVE  chain'[j].id \in Ids /\ feedback'[chain'[j].id] = chain'[j].answer
    BY DEF AnswerTrue
  <2>1. j # k
    BY <1>7 DEF Fresh, Insert, Checks
  <2> QED  BY <1>5, <1>7, <2>1 DEF ChainTasks, AnswerTrue, Fresh
<1>20. DoneWasCarried'
  <2>1. \A j \in Active : Carries(j) =>
          /\ chain'[j].status \in {"EQUIP_PUT", "EQUIP_PUT_CHECK"} => <<chain'[j].order, "GET">> \in carried
          /\ chain'[j].status = "OVER" => <<chain'[j].order, "PUT">> \in carried
    BY <1>5, <1>6 DEF ChainTasks, DoneWasCarried
  <2> QED  BY <1>7, <1>10, <2>1 DEF ChainTasks, DoneWasCarried
<1> QED
  BY <1>12, <1>13, <1>14, <1>15, <1>16, <1>17, <1>18, <1>19, <1>20 DEF ChainTasks

LEMMA TasksSend ==
  ASSUME TypeInv, DutyInv, ChainTasks, NEW k \in todo, SendGet(k) \/ SendPut(k) \/ SendPark(k)
  PROVE  ChainTasks'
<1>1. k \in Active /\ k \in Ids /\ k <= lastId /\ Active' = Active
  BY TypeCheck, StatusApart DEF Check, TypeInv, TodoActive, KeysGenerated, Active
<1>2. \A t \in AcsTasks : Mine(t) => t.agv # chain[k].agv
  BY <1>1 DEF SendGet, SendPut, SendPark, ChainTasks, TasksKept, Unsent
<1>3. CASE SendGet(k)
  BY <1>1, <1>2, <1>3, TasksInsert DEF SendGet, ChainTasks, OwnIds
<1>4. CASE SendPut(k)
  <2>1. Carries(k) /\ k + 1 \in Ids /\ k + 1 <= lastId
    BY <1>1, <1>4, StatusKind, SecondId DEF SendPut
  <2>2. k + 1 \notin history /\ <<chain[k].order, "GET">> \in carried
    BY <1>1, <1>4, <2>1 DEF SendPut, ChainTasks, OwnIds, DoneWasCarried
  <2> QED  BY <1>1, <1>2, <1>4, <2>1, <2>2, TasksInsert DEF SendPut
<1>5. CASE SendPark(k)
  <2>1. ~Carries(k)
    BY <1>1, <1>5, StatusKind DEF SendPark
  <2> QED  BY <1>1, <1>2, <1>5, <2>1, TasksInsert DEF SendPark, ChainTasks, OwnIds
<1> QED  BY <1>3, <1>4, <1>5

LEMMA TasksRemove ==
  ASSUME TypeInv, DutyInv, ChainTasks, NEW k \in todo, CheckOver(k) \/ CheckError(k)
  PROVE  ChainTasks'
<1>1. /\ k \in Active /\ k \in Ids /\ chain[k].agv \in Agvs
      /\ Carries(k) => chain[k].order \in Orders
  BY ChainKinds DEF TypeInv, TodoActive, Chains, CarryChains, ParkChains
<1>2. Active' = Active \ {k} /\ \A j \in Active' : j \in Active /\ chain'[j] = chain[j]
  <2>1. Checks(k) /\ Remove(k)
    BY DEF CheckOver, CheckError
  <2>2. Active' = Active \ {k}
    BY <2>1, RemoveType
  <2> QED  BY <1>1, <2>1, <2>2 DEF Remove, Active, TypeInv, TypeOK
<1>3. /\ history' = history /\ lastId' = lastId /\ inbox' = inbox /\ running' = running
      /\ feedback' = feedback /\ executing' = executing /\ carried' = carried /\ phase' = phase
      /\ todo' \subseteq todo /\ AcsTasks' = AcsTasks /\ restarts' = restarts
  BY DEF CheckOver, CheckError, Checks, acsVars, AcsTasks
<1>4. \A j \in Active' : Carries(j)' <=> Carries(j)
  BY <1>2 DEF Carries
<1>5. \A t \in AcsTasks : Mine(t) => locked'[t.agv]
  <2>1. CASE CheckOver(k)
    <3>1. \A t \in AcsTasks : Mine(t) => t.agv # chain[k].agv
      BY <1>1, <2>1 DEF CheckOver, ChainTasks, TasksKept, Unsent
    <3> QED  BY <1>1, <2>1, <3>1, TaskKinds DEF CheckOver, ChainTasks, TasksKept, TypeInv, TypeOK
  <2>2. CASE CheckError(k)
    BY <1>1, <2>2, TaskKinds DEF CheckError, Relock, ChainTasks, TasksKept, TypeInv, TypeOK
  <2> QED  BY <2>1, <2>2
<1>6. \A o \in Orders : report'[o] = {"DONE"} => <<o, "PUT">> \in carried
  <2>1. CASE CheckOver(k)
    BY <1>1, <2>1 DEF CheckOver, ChainTasks, DoneWasCarried, TypeInv, TypeOK
  <2>2. CASE CheckError(k)
    <3>1. \A o \in Orders : report[o] = {"DONE"} => <<o, "PUT">> \in carried
      BY DEF ChainTasks, DoneWasCarried
    <3>2. report \in [Orders -> SUBSET {"NEW", "DOING", "DONE", "ERR"}]
      BY DEF TypeInv, TypeOK
    <3>3. \A o \in Orders : report'[o] = report[o] \/ report'[o] = Failed(report[o])
      BY <2>2, <3>2 DEF CheckError
    <3>4. \A o \in Orders : Failed(report[o]) = {"DONE"} => report[o] = {"DONE"}
      BY DEF Failed
    <3> QED  BY <3>1, <3>3, <3>4
  <2> QED  BY <2>1, <2>2
<1>7. IdsUsed' /\ TasksShape'
  BY <1>2, <1>3 DEF ChainTasks, IdsUsed, TasksShape, Old
<1>8. KeysApart' /\ OwnIds'
  BY <1>2, <1>3, <1>4 DEF ChainTasks, KeysApart, OwnIds
<1>9. TasksKept' /\ TasksOwned'
  BY <1>2, <1>3, <1>4, <1>5 DEF ChainTasks, TasksKept, TasksOwned, Mine
<1>10. DoneCarried' /\ AnswerTrue'
  BY <1>2, <1>3, <1>4 DEF ChainTasks, DoneCarried, AnswerTrue, Fresh
<1>11. DoneWasCarried'
  BY <1>2, <1>3, <1>4, <1>6 DEF ChainTasks, DoneWasCarried
<1> QED  BY <1>7, <1>8, <1>9, <1>10, <1>11 DEF ChainTasks

(* A task ends, done or not. *)
LEMMA TasksEnd ==
  ASSUME TypeInv, ChainTasks, NEW t \in AcsTasks, NEW answer \in Answers,
         feedback' = [feedback EXCEPT ![t.id] = answer], carried \subseteq carried',
         answer = "DONE" /\ t.goal # "PARK" => <<t.order, t.goal>> \in carried',
         inbox' \subseteq inbox, \A a \in Agvs : running'[a] \in {running[a], Nothing},
         AcsTasks' = AcsTasks \ {t},
         tickVars' = tickVars, wcsVars' = wcsVars, history' = history, report' = report,
         restarts' = restarts
  PROVE  ChainTasks'
<1>1. t.id \in Ids /\ (t.id \in history \/ Old(t.id)) /\ feedback[t.id] = "none"
  BY TaskKinds DEF TypeInv, ChainTasks, TasksShape
<1>2. /\ feedback'[t.id] = answer
      /\ \A i \in Ids : i # t.id => feedback'[i] = feedback[i]
  BY <1>1 DEF TypeInv, TypeOK
<1>3. /\ Active' = Active /\ chain' = chain /\ lastId' = lastId /\ locked' = locked
      /\ executing' = executing /\ phase' = phase /\ todo' = todo
      /\ \A k \in Active : Carries(k)' <=> Carries(k)
  BY DEF Active, Carries, tickVars, wcsVars
<1>4. IdsUsed' /\ KeysApart' /\ OwnIds'
  BY <1>1, <1>2, <1>3 DEF ChainTasks, IdsUsed, KeysApart, OwnIds, Old
<1>5. TasksShape'
  <2>1. \A u \in AcsTasks' : u \in AcsTasks /\ u.id # t.id /\ u.id \in Ids
    BY TaskKinds DEF TypeInv, ChainTasks, TasksShape
  <2>2. \A u \in AcsTasks' : (u.id \in history' \/ Old(u.id)') /\ feedback'[u.id] = "none"
    BY <1>2, <1>3, <2>1 DEF ChainTasks, TasksShape, Old
  <2>3. \A u, v \in AcsTasks' : u.id = v.id => u = v
    BY <2>1 DEF ChainTasks, TasksShape
  <2>4. \A a \in Agvs : running'[a] # Nothing => running'[a].agv = a /\ running'[a] \notin inbox'
    BY DEF ChainTasks, TasksShape
  <2> QED  BY <2>2, <2>3, <2>4 DEF TasksShape
<1>6. TasksKept' /\ TasksOwned'
  BY <1>3 DEF ChainTasks, TasksKept, TasksOwned, Mine
<1>7. DoneCarried'
  <2> SUFFICES ASSUME NEW k \in Active, Carries(k)
               PROVE  /\ feedback'[k] = "DONE" => <<chain[k].order, "GET">> \in carried'
                      /\ feedback'[k + 1] = "DONE" => <<chain[k].order, "PUT">> \in carried'
    BY <1>3 DEF DoneCarried
  <2>1. k \in Ids /\ k + 1 \in Ids
    BY SecondId
  <2>2. feedback'[k] = "DONE" => <<chain[k].order, "GET">> \in carried'
    <3>1. CASE t.id = k
      BY <3>1, <1>2 DEF ChainTasks, TasksOwned
    <3>2. CASE t.id # k
      BY <2>1, <3>2, <1>2 DEF ChainTasks, DoneCarried
    <3> QED  BY <3>1, <3>2
  <2>3. feedback'[k + 1] = "DONE" => <<chain[k].order, "PUT">> \in carried'
    <3>1. CASE t.id = k + 1
      BY <3>1, <1>2 DEF ChainTasks, TasksOwned
    <3>2. CASE t.id # k + 1
      BY <2>1, <3>2, <1>2 DEF ChainTasks, DoneCarried
    <3> QED  BY <3>1, <3>2
  <2> QED  BY <2>2, <2>3
<1>8. AnswerTrue'
  BY <1>1, <1>2, <1>3 DEF ChainTasks, AnswerTrue, Fresh
<1>9. DoneWasCarried'
  BY <1>3 DEF ChainTasks, DoneWasCarried
<1> QED  BY <1>4, <1>5, <1>6, <1>7, <1>8, <1>9 DEF ChainTasks

LEMMA TasksEndTask ==
  ASSUME TypeInv, ChainTasks, NEW t, NEW answer \in {"FAILED", "ABORTED"}, EndTask(t, answer),
         carried' = carried, tickVars' = tickVars, wcsVars' = wcsVars, history' = history,
         report' = report, restarts' = restarts
  PROVE  ChainTasks'
<1>1. t \in AcsTasks /\ t \in Tasks /\ t.agv \in Agvs
  BY TaskKinds DEF EndTask, TypeInv
<1>2. inbox' = inbox \ {t} /\ feedback' = [feedback EXCEPT ![t.id] = answer]
  BY DEF EndTask
<1>3. \A a \in Agvs : running'[a] = IF running[a] = t THEN Nothing ELSE running[a]
  BY <1>1, TaskKinds DEF EndTask, TypeInv, TypeOK, ChainTasks, TasksShape
<1>4. AcsTasks' = AcsTasks \ {t}
  BY <1>1, <1>2, <1>3, TaskKinds DEF TypeInv, AcsTasks
<1> QED  BY <1>1, <1>2, <1>3, <1>4, TasksEnd DEF Answers

LEMMA TasksAcs == ASSUME TypeInv, ChainTasks, Acs PROVE ChainTasks'
<1>1. ASSUME NEW t \in inbox, Accept(t)
      PROVE  ChainTasks'
  <2>1. t \in Tasks /\ t.agv \in Agvs /\ t # Nothing
    BY TaskKinds DEF TypeInv, TypeOK, Tasks
  <2>2. inbox' = inbox \ {t} /\ running[t.agv] = Nothing /\ running' = [running EXCEPT ![t.agv] = t]
    BY <1>1 DEF Accept
  <2>3. \A a \in Agvs : running'[a] = IF a = t.agv THEN t ELSE running[a]
    BY <2>1, <2>2 DEF TypeInv, TypeOK
  <2>4. AcsTasks' = AcsTasks
    BY <2>1, <2>2, <2>3 DEF AcsTasks
  <2>5. /\ Active' = Active /\ chain' = chain /\ lastId' = lastId /\ locked' = locked
        /\ executing' = executing /\ phase' = phase /\ todo' = todo /\ history' = history
        /\ feedback' = feedback /\ carried' = carried /\ report' = report /\ restarts' = restarts
    BY <1>1 DEF Accept, Active, tickVars, wcsVars, orderVars
  <2>6. IdsUsed' /\ KeysApart' /\ OwnIds'
    BY <2>5 DEF ChainTasks, IdsUsed, KeysApart, OwnIds, Carries, Old
  <2>7. TasksShape'
    <3>1. \A u, v \in AcsTasks' : u.id = v.id => u = v
      BY <2>4 DEF ChainTasks, TasksShape
    <3>2. \A u \in AcsTasks' : (u.id \in history' \/ Old(u.id)') /\ feedback'[u.id] = "none"
      BY <2>4, <2>5 DEF ChainTasks, TasksShape, Old
    <3>3. \A a \in Agvs : running'[a] # Nothing => running'[a].agv = a /\ running'[a] \notin inbox'
      BY <2>1, <2>2, <2>3 DEF ChainTasks, TasksShape
    <3> QED  BY <3>1, <3>2, <3>3 DEF TasksShape
  <2>8. TasksKept' /\ TasksOwned'
    BY <2>4, <2>5 DEF ChainTasks, TasksKept, TasksOwned, Carries, Mine
  <2>9. DoneCarried' /\ AnswerTrue' /\ DoneWasCarried'
    BY <2>5 DEF ChainTasks, DoneCarried, AnswerTrue, DoneWasCarried, Fresh, Carries
  <2> QED  BY <2>6, <2>7, <2>8, <2>9 DEF ChainTasks
<1>2. ASSUME NEW a \in Agvs, Finish(a)
      PROVE  ChainTasks'
  <2>1. PICK t : t = running[a] /\ t # Nothing
    BY <1>2 DEF Finish
  <2>2. t \in AcsTasks /\ t \notin inbox
    BY <2>1, TaskKinds DEF TypeInv, ChainTasks, TasksShape
  <2>3. \A b \in Agvs : running'[b] = IF b = a THEN Nothing ELSE running[b]
    BY <1>2 DEF Finish, TypeInv, TypeOK
  <2>4. \A b \in Agvs : running[b] = t => b = a
    BY <2>1 DEF ChainTasks, TasksShape
  <2>5. inbox' = inbox /\ AcsTasks' = AcsTasks \ {t}
    BY <1>2, <2>1, <2>2, <2>3, <2>4 DEF Finish, AcsTasks
  <2>6. /\ feedback' = [feedback EXCEPT ![t.id] = "DONE"] /\ carried \subseteq carried'
        /\ t.goal # "PARK" => <<t.order, t.goal>> \in carried'
        /\ tickVars' = tickVars /\ wcsVars' = wcsVars /\ history' = history /\ report' = report
        /\ restarts' = restarts
    BY <1>2, <2>1 DEF Finish, orderVars
  <2> QED  BY <2>2, <2>3, <2>5, <2>6, TasksEnd DEF Answers
<1>3. ASSUME NEW t \in AcsTasks, NEW answer \in {"FAILED", "ABORTED"}, Fail(t, answer)
      PROVE  ChainTasks'
  BY <1>3, TasksEndTask DEF Fail, orderVars
<1>4. ASSUME NEW i \in aborts, ReadAbort(i)
      PROVE  ChainTasks'
  <2>1. CASE \E t \in AcsTasks : t.id = i /\ EndTask(t, "ABORTED")
    BY <1>4, <2>1, TasksEndTask DEF ReadAbort, orderVars
  <2>2. CASE UNCHANGED <<inbox, running, feedback>>
    <3>1. \A t \in AcsTasks : Mine(t) => locked[t.agv]
      BY DEF ChainTasks, TasksKept
    <3> QED
      BY <1>4, <2>2, <3>1, TasksUnchanged DEF ReadAbort, Fresh, tickVars, wcsVars, orderVars
  <2> QED  BY <1>4, <2>1, <2>2 DEF ReadAbort
<1> QED  BY <1>1, <1>2, <1>3, <1>4 DEF Acs

(* Before the restart every task is in the history, whose largest id it does not exceed. *)
LEMMA TasksRestart == ASSUME TypeInv, ChainTasks, restarts = 0, Restart PROVE ChainTasks'
<1>1. /\ AcsTasks' = AcsTasks /\ Active' = {} /\ history' = {} /\ running' = running /\ inbox' = inbox
      /\ restarts' = 1 /\ carried' = carried /\ \A i \in Ids : feedback'[i] = "none"
  BY DEF Restart, AcsTasks, Active
<1>2. \A t \in AcsTasks : t.id \in Ids /\ t.id \in history
  BY TaskKinds DEF TypeInv, ChainTasks, TasksShape, Old
<1>3. \A i \in history : i <= lastId'
  BY DEF Restart, Largest
<1>4. \A t \in AcsTasks : Old(t.id)' /\ feedback'[t.id] = "none"
  BY <1>1, <1>2, <1>3 DEF Old
<1>5. IdsUsed' /\ KeysApart' /\ OwnIds' /\ TasksKept' /\ TasksOwned' /\ DoneCarried' /\ AnswerTrue'
  BY <1>1 DEF IdsUsed, KeysApart, OwnIds, TasksKept, Mine, TasksOwned, DoneCarried, AnswerTrue
<1>6. TasksShape'
  BY <1>1, <1>4 DEF ChainTasks, TasksShape
<1>7. \A o \in Orders : report'[o] = {"DONE"} => report[o] = {"DONE"}
  <2> SUFFICES ASSUME NEW o \in Orders, report'[o] = {"DONE"} PROVE report[o] = {"DONE"}
    OBVIOUS
  <2>1. {Forgotten(r) : r \in report[o]} = {"DONE"}
    BY DEF Restart
  <2>2. \A r \in report[o] : Forgotten(r) = "DONE"
    BY <2>1
  <2>3. report[o] # {}
    BY <2>1
  <2> QED  BY <2>2, <2>3 DEF Forgotten
<1>8. DoneWasCarried'
  BY <1>1, <1>7 DEF ChainTasks, DoneWasCarried
<1> QED  BY <1>5, <1>6, <1>8 DEF ChainTasks

LEMMA CarryStep == TypeInv /\ DutyInv /\ CarryInv /\ [ChainsNext]_vars => CarryInv'
<1> SUFFICES ASSUME TypeInv, DutyInv, CarryInv, [ChainsNext]_vars PROVE CarryInv'
  OBVIOUS
<1>0. restarts \in Nat
  BY BoundsAssumption DEF TypeInv, TypeOK
<1>1. CASE Restart
  <2>1. restarts' = restarts + 1
    BY <1>1 DEF Restart
  <2>2. restarts = 0 => ChainTasks'
    BY <1>1, TasksRestart DEF CarryInv
  <2> QED  BY <1>0, <2>1, <2>2 DEF CarryInv
<1>2. CASE ~(restarts <= 1) /\ ~Restart
  <2>1. restarts' = restarts
    BY <1>2 DEF ChainsNext, Tick, Buttons, Acs, BeginTick, TakeOrder, SendToPark, EndFetch, Dispatch,
                EndDispatch, Check, CheckBegin, SendGet, SendPut, SendPark, Refused, CheckAnswer,
                CheckOver, CheckError, GoOn, Insert, Checks, EndCheck, ReadFeedback, Cancel, Unlock,
                Redo, Accept, Finish, Fail, ReadAbort, vars
  <2> QED  BY <1>2, <2>1 DEF CarryInv
<1>3. CASE restarts <= 1 /\ ~Restart
  <2>1. ChainTasks
    BY <1>3 DEF CarryInv
  <2>2. ASSUME NEW k \in todo, Check(k)
        PROVE  ChainTasks'
    BY <2>1, <2>2, TasksAnswer, TasksSend, TasksRemove DEF Check
  <2>3. ChainTasks'
    BY <1>3, <2>1, <2>2, TasksPhases, TasksTakeOrder, TasksCreate, TasksFeedback, TasksAcs
       DEF ChainsNext, Tick, Buttons
  <2> QED  BY <2>3 DEF CarryInv
<1> QED  BY <1>1, <1>2, <1>3

LEMMA CarryAlways == Spec => []CarryInv
BY InitTypeInv, TypeStep, InitDutyInv, DutyStep, InitCarryInv, CarryStep, PTL DEF Spec

(***************************************************************************)
(* Until a restart forgets the locks, the ACS has nothing to do for an AGV *)
(* that is unlocked, whatever was aborted, failed or unlocked.             *)
(***************************************************************************)
THEOREM NoTaskUnlocked == Spec => []FreeAtRest
<1>1. CarryInv => FreeAtRest
  BY DEF CarryInv, ChainTasks, TasksKept, TasksShape, Mine, Old, FreeAtRest
<1> QED  BY <1>1, CarryAlways, PTL

(***************************************************************************)
(* Through one restart, no chain goes on to the put and no order is DONE   *)
(* before the ACS has really got and put the goods.  The ACS may still end *)
(* tasks of the program before; no answer to one is taken for another.     *)
(***************************************************************************)
THEOREM DoneMeansCarried == Spec => [](restarts <= 1 => DoneWasCarried)
<1>1. CarryInv => (restarts <= 1 => DoneWasCarried)
  BY DEF CarryInv, ChainTasks
<1> QED  BY <1>1, CarryAlways, PTL
-----------------------------------------------------------------------------
(***************************************************************************)
(* The refinement of OrderLife: the report and the chain of an order are   *)
(* its stage, the AGVs in the list or with a chain of it its carriers.     *)
(***************************************************************************)

HasOrder(a, o) ==
  \/ \E e \in executing : e.agv = a /\ e.order = o
  \/ \E k \in Active : chain[k].agv = a /\ chain[k].order = o

(* What the report makes of an order that no AGV has. *)
Told(rows) == IF "ERR" \in rows THEN "ERR" ELSE IF "DONE" \in rows THEN "DONE" ELSE "none"

(* What the mapping makes of an order. *)
MapOf(o) ==
  /\ carriers[o] \subseteq Agvs
  /\ \A a \in Agvs : a \in carriers[o] <=> HasOrder(a, o)
  /\ o \in again => stage[o] = "REPEATED" /\ OnOrder(o)
  /\ o \notin again =>
       /\ \A e \in executing : e.order = o => stage[o] = "NEW" /\ carriers[o] = {e.agv}
       /\ \A k \in Active : chain[k].order = o =>
            stage[o] = Progress(chain[k].status) /\ carriers[o] = {chain[k].agv}
  /\ ~OnOrder(o) =>
       carriers[o] = {} /\ stage[o] = Told(report[o]) /\ report[o] \subseteq {"DONE", "ERR"}
MapFacts == \A o \in Orders : MapOf(o)

LEMMA Mapped == TypeInv /\ DutyInv => MapFacts
<1> SUFFICES ASSUME TypeInv, DutyInv, NEW o \in Orders PROVE MapOf(o)
  BY DEF MapFacts
<1>0. ChainsOf(o) = {k \in Active : chain[k].order = o}
  BY DEF ChainsOf, Active
<1>1. OrderDuty(o) /\ (o \notin again => OrderOnce(o))
  BY DEF DutyInv, OrderDuty
<1>2. /\ \A e \in executing : e.agv \in Agvs
      /\ \A k \in Active : chain[k].agv \in Agvs
  BY ChainKinds DEF TypeInv, TypeOK, Chains, CarryChains, ParkChains
<1>3. carriers[o] = {e.agv : e \in {f \in executing : f.order = o}} \cup {chain[k].agv : k \in ChainsOf(o)}
  BY DEF carriers
<1>4. carriers[o] \subseteq Agvs /\ \A a \in Agvs : a \in carriers[o] <=> HasOrder(a, o)
  BY <1>0, <1>2, <1>3 DEF HasOrder
<1>5. o \in again => stage[o] = "REPEATED" /\ OnOrder(o)
  BY <1>1 DEF stage, OrderDuty
<1>6. ASSUME o \notin again, NEW e \in executing, e.order = o
      PROVE  stage[o] = "NEW" /\ carriers[o] = {e.agv}
  <2>1. Waiting(o) /\ ~Chained(o) /\ "NEW" \in report[o] /\ "DOING" \notin report[o]
    BY <1>1, <1>6 DEF OrderOnce, OrderDuty, Waiting
  <2>2. ChainsOf(o) = {}
    BY <1>0, <2>1 DEF Chained
  <2>3. {f \in executing : f.order = o} = {e}
    BY <1>1, <1>6 DEF OrderOnce
  <2>4. carriers[o] = {e.agv}
    BY <1>3, <2>2, <2>3
  <2> QED  BY <1>6, <2>1, <2>4 DEF stage
<1>7. ASSUME o \notin again, NEW k \in Active, chain[k].order = o
      PROVE  stage[o] = Progress(chain[k].status) /\ carriers[o] = {chain[k].agv}
  <2>1. Chained(o) /\ ~Waiting(o) /\ "DOING" \in report[o]
    BY <1>1, <1>7 DEF OrderOnce, Chained
  <2>2. ChainsOf(o) = {k}
    BY <1>0, <1>1, <1>7 DEF OrderOnce
  <2>3. {f \in executing : f.order = o} = {}
    BY <2>1 DEF Waiting
  <2>4. carriers[o] = {chain[k].agv}
    BY <1>3, <2>2, <2>3
  <2>5. (CHOOSE j \in ChainsOf(o) : TRUE) = k
    BY <2>2
  <2> QED  BY <1>7, <2>1, <2>4, <2>5 DEF stage
<1>8. ASSUME ~OnOrder(o)
      PROVE  carriers[o] = {} /\ stage[o] = Told(report[o]) /\ report[o] \subseteq {"DONE", "ERR"}
  <2>1. carriers[o] = {}
    BY <1>4, <1>8 DEF HasOrder, OnOrder
  <2>2. o \notin again /\ report[o] \subseteq {"DONE", "ERR"}
    BY <1>1, <1>8 DEF OrderDuty, OnOrder, Waiting, Chained, TypeInv, TypeOK
  <2>3. "DOING" \notin report[o] /\ "NEW" \notin report[o]
    BY <2>2
  <2>4. stage[o] = Told(report[o])
    BY <2>2, <2>3 DEF stage, Told
  <2> QED  BY <2>1, <2>2, <2>4
<1> QED  BY <1>4, <1>5, <1>6, <1>7, <1>8 DEF MapOf

(* An order that a step leaves alone. *)
Same(o) == stage'[o] = stage[o] /\ carriers'[o] = carriers[o]

(* The AGV of an order is one that has it, and the order has an AGV if it has a carrier. *)
LEMMA CarrierFacts ==
  ASSUME TypeInv, MapFacts, NEW o \in Orders
  PROVE  /\ OnOrder(o) <=> carriers[o] # {}
         /\ \A e \in executing : e.order = o => e.agv \in carriers[o]
         /\ \A k \in Active : chain[k].order = o => chain[k].agv \in carriers[o]
         /\ \A a \in carriers[o] : OnDuty(a)
<1>1. /\ \A e \in executing : e.agv \in Agvs
      /\ \A k \in Active : chain[k].agv \in Agvs
  BY ChainKinds DEF TypeInv, TypeOK, Chains, CarryChains, ParkChains
<1>2. carriers[o] \subseteq Agvs /\ \A a \in Agvs : a \in carriers[o] <=> HasOrder(a, o)
  BY DEF MapFacts, MapOf
<1>3. /\ \A e \in executing : e.order = o => e.agv \in carriers[o]
      /\ \A k \in Active : chain[k].order = o => chain[k].agv \in carriers[o]
  BY <1>1, <1>2 DEF HasOrder
<1>4. \A a \in carriers[o] : OnDuty(a) /\ OnOrder(o)
  BY <1>2 DEF HasOrder, OnDuty, OnOrder
<1> QED  BY <1>3, <1>4 DEF OnOrder

(* A step that keeps who has an order, its report and the progress of its chain. *)
KeepsOrder(o) ==
  /\ report'[o] = report[o]
  /\ o \in again' <=> o \in again
  /\ \A e \in executing : e.order = o => e \in executing'
  /\ \A e \in executing' : e.order = o => e \in executing
  /\ \A k \in Active : chain[k].order = o =>
       /\ k \in Active' /\ chain'[k].order = o /\ chain'[k].agv = chain[k].agv
       /\ o \in again \/ Progress(chain'[k].status) = Progress(chain[k].status)
  /\ \A k \in Active' : chain'[k].order = o => k \in Active /\ chain[k].order = o

LEMMA MappedNext ==
  ASSUME MapFacts', NEW o \in Orders
  PROVE  /\ carriers'[o] \subseteq Agvs
         /\ \A a \in Agvs : a \in carriers'[o] <=> HasOrder(a, o)'
         /\ o \in again' => stage'[o] = "REPEATED" /\ OnOrder(o)'
         /\ o \notin again' =>
              /\ \A e \in executing' : e.order = o => stage'[o] = "NEW" /\ carriers'[o] = {e.agv}
              /\ \A k \in Active' : chain'[k].order = o =>
                   stage'[o] = Progress(chain'[k].status) /\ carriers'[o] = {chain'[k].agv}
         /\ ~OnOrder(o)' =>
              carriers'[o] = {} /\ stage'[o] = Told(report'[o]) /\ report'[o] \subseteq {"DONE", "ERR"}
BY DEF MapFacts, MapOf

LEMMA CarrierNext ==
  ASSUME TypeInv', MapFacts', NEW o \in Orders
  PROVE  OnOrder(o)' <=> carriers'[o] # {}
<1>1. carriers'[o] \subseteq Agvs /\ \A a \in Agvs : a \in carriers'[o] <=> HasOrder(a, o)'
  BY MappedNext
<1>2. /\ \A e \in executing' : e.agv \in Agvs
      /\ \A k \in Active' : chain'[k].agv \in Agvs
  <2>1. /\ executing' \subseteq [agv : Agvs, order : Orders]
        /\ \A k \in Active' : chain'[k] \in Chains
    BY DEF TypeInv, TypeOK, Active
  <2> QED  BY <2>1 DEF Chains, CarryChains, ParkChains
<1>3. carriers'[o] # {} => OnOrder(o)'
  BY MappedNext
<1>4. OnOrder(o)' => \E a \in Agvs : HasOrder(a, o)'
  BY <1>2 DEF OnOrder, HasOrder
<1> QED  BY <1>1, <1>3, <1>4

LEMMA SameCarriers ==
  ASSUME MapFacts, MapFacts', NEW o \in Orders, \A a \in Agvs : HasOrder(a, o)' <=> HasOrder(a, o)
  PROVE  carriers'[o] = carriers[o]
<1>1. carriers[o] \subseteq Agvs /\ \A a \in Agvs : a \in carriers[o] <=> HasOrder(a, o)
  BY DEF MapFacts, MapOf
<1>2. carriers'[o] \subseteq Agvs /\ \A a \in Agvs : a \in carriers'[o] <=> HasOrder(a, o)
  BY MappedNext
<1> QED  BY <1>1, <1>2

LEMMA OrderKept ==
  ASSUME TypeInv, MapFacts, MapFacts', NEW o \in Orders, KeepsOrder(o)
  PROVE  Same(o)
<1>1. MapOf(o)
  BY DEF MapFacts
<1>2. \A a \in Agvs : HasOrder(a, o)' <=> HasOrder(a, o)
  BY DEF KeepsOrder, HasOrder
<1>3. carriers'[o] = carriers[o]
  BY <1>2, SameCarriers
<1>4. OnOrder(o)' <=> OnOrder(o)
  BY DEF KeepsOrder, OnOrder
<1>5. stage'[o] = stage[o]
  <2>1. CASE o \in again
    BY <1>1, <2>1, MappedNext DEF MapOf, KeepsOrder
  <2>2. CASE ~OnOrder(o)
    BY <1>1, <1>4, <2>2, MappedNext DEF MapOf, KeepsOrder
  <2>3. ASSUME o \notin again, NEW e \in executing, e.order = o
        PROVE  stage'[o] = stage[o]
    <3>1. stage[o] = "NEW"
      BY <1>1, <2>3 DEF MapOf
    <3>2. o \notin again' /\ e \in executing'
      BY <2>3 DEF KeepsOrder
    <3> QED  BY <2>3, <3>1, <3>2, MappedNext
  <2>4. ASSUME o \notin again, NEW k \in Active, chain[k].order = o
        PROVE  stage'[o] = stage[o]
    <3>1. stage[o] = Progress(chain[k].status)
      BY <1>1, <2>4 DEF MapOf
    <3>2. /\ o \notin again' /\ k \in Active' /\ chain'[k].order = o
          /\ Progress(chain'[k].status) = Progress(chain[k].status)
      BY <2>4 DEF KeepsOrder
    <3> QED  BY <3>1, <3>2, MappedNext
  <2> QED  BY <2>1, <2>2, <2>3, <2>4 DEF OnOrder
<1> QED  BY <1>3, <1>5 DEF Same

LEMMA Shapes == stage = [o \in Orders |-> stage[o]] /\ carriers = [o \in Orders |-> carriers[o]]
BY DEF stage, carriers

LEMMA ShapesNext == stage' = [o \in Orders |-> stage'[o]] /\ carriers' = [o \in Orders |-> carriers'[o]]
BY DEF stage, carriers

LEMMA AllKept ==
  ASSUME \A o \in Orders : Same(o)
  PROVE  stage' = stage /\ carriers' = carriers
BY Shapes, ShapesNext DEF Same

LEMMA OneMoved ==
  ASSUME NEW o \in Orders, NEW s, NEW c, stage'[o] = s, carriers'[o] = c,
         \A q \in Orders : q # o => Same(q)
  PROVE  /\ stage' = [stage EXCEPT ![o] = s] /\ carriers' = [carriers EXCEPT ![o] = c]
         /\ s = stage[o] => stage' = stage
         /\ c = carriers[o] => carriers' = carriers
<1>1. stage' = [stage EXCEPT ![o] = s]
  BY Shapes, ShapesNext DEF Same
<1>2. carriers' = [carriers EXCEPT ![o] = c]
  BY Shapes, ShapesNext DEF Same
<1>3. c = carriers[o] => carriers' = carriers
  BY Shapes, ShapesNext DEF Same
<1>4. s = stage[o] => stage' = stage
  BY Shapes, ShapesNext DEF Same
<1> QED  BY <1>1, <1>2, <1>3, <1>4

(* Only taking and redoing an order change whether it is wanted. *)
LEMMA WantedKept ==
  ASSUME TypeInv, orderStatus' = orderStatus \/ \E o \in Orders : orderStatus' = Reopened(o)
  PROVE  wanted' = wanted
<1>1. orderStatus \in [Orders -> {"NEW", "IDLE", "OVER"}]
  BY DEF TypeInv, TypeOK
<1>2. \A q \in Orders : orderStatus'[q] = "OVER" <=> orderStatus[q] = "OVER"
  BY <1>1 DEF Reopened
<1> QED  BY <1>2 DEF wanted

LEMMA LifeTake ==
  ASSUME TypeInv, DutyInv, MapFacts, MapFacts', NEW a \in Agvs, NEW o \in Orders, TakeOrder(a, o)
  PROVE  Life!Take(a, o)
<1>0. /\ orderStatus \in [Orders -> {"NEW", "IDLE", "OVER"}]
      /\ report \in [Orders -> SUBSET {"NEW", "DOING", "DONE", "ERR"}]
  BY DEF TypeInv, TypeOK
<1>1. /\ executing' = executing \cup {[agv |-> a, order |-> o]} /\ chain' = chain /\ Active' = Active
      /\ again' = again /\ \A q \in Orders : q # o => report'[q] = report[q]
  BY <1>0 DEF TakeOrder, Active
<1>2. /\ o \in wanted
      /\ wanted' = wanted \ {o}
  <2>1. o \in wanted
    BY DEF TakeOrder, Open, wanted
  <2>2. orderStatus' = AfterFetch(o)
    BY DEF TakeOrder
  <2>3. \A q \in Orders : orderStatus'[q] # "OVER" <=> orderStatus[q] # "OVER" /\ q # o
    BY <1>0, <2>2 DEF AfterFetch
  <2>4. wanted' = wanted \ {o}
    BY <2>3 DEF wanted
  <2> QED  BY <2>1, <2>4
<1>3. ~OnDuty(a)
  BY DEF TakeOrder, Free, DutyInv, AgvOnce
<1>4. \A q \in Orders : a \notin carriers[q]
  BY <1>3, CarrierFacts
<1>5. OnOrder(o) => o \in again
  BY <1>2 DEF DutyInv, OrderDuty, OrderOnce, wanted
<1>6. carriers[o] = {} \/ stage[o] = "REPEATED"
  BY <1>5, CarrierFacts DEF MapFacts, MapOf
<1>7. ASSUME NEW q \in Orders, q # o
      PROVE  Same(q)
  <2>1. KeepsOrder(q)
    BY <1>1, <1>7 DEF KeepsOrder
  <2> QED  BY <2>1, OrderKept
<1>8. carriers'[o] = carriers[o] \cup {a}
  <2>1. \A b \in Agvs : HasOrder(b, o)' <=> HasOrder(b, o) \/ b = a
    <3>1. PICK e : e = [agv |-> a, order |-> o]
      OBVIOUS
    <3>2. executing' = executing \cup {e} /\ e.agv = a /\ e.order = o
      BY <1>1, <3>1
    <3> QED  BY <1>1, <3>2 DEF HasOrder
  <2>2. carriers[o] \subseteq Agvs /\ \A b \in Agvs : b \in carriers[o] <=> HasOrder(b, o)
    BY DEF MapFacts, MapOf
  <2> QED  BY <2>1, <2>2, MappedNext
<1>9. stage'[o] = IF carriers[o] = {} THEN "NEW" ELSE stage[o]
  <2>1. CASE carriers[o] = {}
    <3>1. o \notin again'
      BY <1>1, <2>1, CarrierFacts DEF MapFacts, MapOf
    <3>2. PICK e : e = [agv |-> a, order |-> o]
      OBVIOUS
    <3>3. e \in executing' /\ e.order = o
      BY <1>1, <3>2
    <3> QED  BY <2>1, <3>1, <3>3, MappedNext
  <2>2. CASE carriers[o] # {}
    BY <1>1, <1>5, <2>2, CarrierFacts, MappedNext DEF MapFacts, MapOf
  <2> QED  BY <2>1, <2>2
<1>10. /\ stage' = IF carriers[o] = {} THEN [stage EXCEPT ![o] = "NEW"] ELSE stage
       /\ carriers' = [carriers EXCEPT ![o] = @ \cup {a}]
  BY <1>7, <1>8, <1>9, OneMoved
<1>11. carried' = IF carriers[o] = {} THEN {c \in carried : c[1] # o} ELSE carried
  BY CarrierFacts DEF TakeOrder
<1> QED  BY <1>2, <1>4, <1>6, <1>10, <1>11 DEF Life!Take

(* An order that was redone stays what it is when one of its AGVs sets off. *)
LEMMA LifeBegin ==
  ASSUME TypeInv, MapFacts, MapFacts', NEW e \in executing, Dispatch(e)
  PROVE  Life!Begin(e.order) \/ UNCHANGED <<stage, carriers, carried, wanted>>
<1>0. e.agv \in Agvs /\ e.order \in Orders /\ lastId \in 0 .. MaxId
  BY DEF TypeInv, TypeOK
<1>1. PICK n : n = lastId + 1
  OBVIOUS
<1>2. PICK c : c = NewChain(e.agv, e.order, Away, lastId)
  OBVIOUS
<1>3. c \in Chains /\ c.order = e.order /\ c.agv = e.agv /\ c.status = "BEGIN"
  BY <1>0, <1>2, NewChainType DEF Chains, NewChain
<1>4. /\ n \in Ids /\ chain[n] = Nothing /\ Active' = Active \cup {n} /\ chain' = [chain EXCEPT ![n] = c]
  <2>1. /\ lastId' = lastId + 2 /\ lastId' <= MaxId /\ todo' = todo
        /\ chain' = [chain EXCEPT ![lastId + 1] = c]
    BY <1>0, <1>2 DEF Dispatch, IdsFor, tickVars
  <2> QED  BY <1>1, <1>3, <2>1, ChainAdded
<1>5. chain'[n] = c /\ \A k \in Active : k # n /\ chain'[k] = chain[k]
  BY <1>4 DEF TypeInv, TypeOK, Active
<1>6. executing' = executing \ {e} /\ again' = again /\ carried' = carried
  BY DEF Dispatch, acsVars
<1>7. ASSUME NEW q \in Orders, q # e.order
      PROVE  Same(q)
  <2>1. report'[q] = report[q]
    BY <1>7 DEF Dispatch, TypeInv, TypeOK
  <2>2. KeepsOrder(q)
    BY <1>3, <1>4, <1>5, <1>6, <1>7, <2>1 DEF KeepsOrder
  <2> QED  BY <2>2, OrderKept
<1>8. n \in Active' /\ chain'[n].order = e.order /\ chain'[n].agv = e.agv
  BY <1>3, <1>4, <1>5
<1>9. wanted' = wanted
  BY WantedKept DEF Dispatch
<1>10. CASE e.order \notin again
  <2>1. stage[e.order] = "NEW" /\ carriers[e.order] = {e.agv}
    BY <1>0, <1>10 DEF MapFacts, MapOf
  <2>2. stage'[e.order] = "FETCHING" /\ carriers'[e.order] = {e.agv}
    <3>1. /\ stage'[e.order] = Progress(chain'[n].status)
          /\ carriers'[e.order] = {chain'[n].agv}
      BY <1>0, <1>6, <1>8, <1>10, MappedNext
    <3> QED  BY <1>3, <1>5, <1>8, <3>1 DEF Progress
  <2>3. stage' = [stage EXCEPT ![e.order] = "FETCHING"] /\ carriers' = carriers
    BY <1>0, <1>7, <2>1, <2>2, OneMoved
  <2> QED  BY <1>6, <1>9, <2>1, <2>3 DEF Life!Begin, Life!Advance
<1>11. CASE e.order \in again
  <2>1. \A a \in Agvs : HasOrder(a, e.order)' <=> HasOrder(a, e.order)
    BY <1>3, <1>4, <1>5, <1>6, <1>8 DEF HasOrder
  <2>2. carriers'[e.order] = carriers[e.order]
    BY <1>0, <2>1, SameCarriers
  <2>3. stage'[e.order] = stage[e.order]
    BY <1>0, <1>6, <1>11, MappedNext DEF MapFacts, MapOf
  <2>4. \A q \in Orders : Same(q)
    BY <1>7, <2>2, <2>3 DEF Same
  <2> QED  BY <1>6, <1>9, <2>4, AllKept
<1> QED  BY <1>10, <1>11

LEMMA LifeSendToPark ==
  ASSUME TypeInv, MapFacts, MapFacts', NEW a \in Agvs, NEW p \in Parks, SendToPark(a, p)
  PROVE  UNCHANGED <<stage, carriers, carried, wanted>>
<1>0. lastId \in 0 .. MaxId
  BY DEF TypeInv, TypeOK
<1>1. PICK c : c = NewChain(a, NoOrder, p, 0)
  OBVIOUS
<1>2. c \in Chains /\ c.order = NoOrder
  BY <1>0, <1>1, BoundsAssumption, NewChainType DEF Chains, NewChain
<1>3. /\ lastId + 1 \in Ids /\ chain[lastId + 1] = Nothing /\ Active' = Active \cup {lastId + 1}
      /\ chain' = [chain EXCEPT ![lastId + 1] = c]
  <2>1. /\ lastId' = lastId + 1 /\ lastId' <= MaxId /\ todo' = todo
        /\ chain' = [chain EXCEPT ![lastId + 1] = c]
    BY <1>0, <1>1, BoundsAssumption DEF SendToPark, tickVars
  <2> QED  BY <1>2, <2>1, ChainAdded
<1>4. \A k \in Active : k \in Active' /\ chain'[k] = chain[k]
  BY <1>3 DEF TypeInv, TypeOK, Active
<1>5. /\ executing' = executing /\ report' = report /\ again' = again /\ carried' = carried
      /\ wanted' = wanted
  BY WantedKept DEF SendToPark, orderVars, acsVars
<1>6. \A j \in Active' : j \in Active \/ chain'[j].order \notin Orders
  BY <1>2, <1>3, OrdersAssumption DEF TypeInv, TypeOK
<1>7. ASSUME NEW o \in Orders
      PROVE  Same(o)
  <2>1. KeepsOrder(o)
    BY <1>4, <1>5, <1>6 DEF KeepsOrder
  <2> QED  BY <2>1, OrderKept
<1> QED  BY <1>5, <1>7, AllKept

(* What a check does to the progress of its chain. *)
LEMMA CheckMoves ==
  ASSUME TypeInv, NEW k \in todo,
         \/ CheckBegin(k) \/ SendGet(k) \/ SendPut(k) \/ SendPark(k) \/ Refused(k) \/ CheckAnswer(k)
  PROVE  /\ k \in Active /\ Active' = Active /\ \A j \in Active : j # k => chain'[j] = chain[j]
         /\ chain'[k].agv = chain[k].agv /\ chain'[k].order = chain[k].order
         /\ executing' = executing /\ UNCHANGED orderVars /\ carried' = carried
         /\ \/ Progress(chain'[k].status) = Progress(chain[k].status)
            \/ ~Carries(k)
            \/ chain[k].status = "EQUIP_GET_CHECK" /\ chain'[k].status = "EQUIP_PUT"
            \/ chain[k].status = "EQUIP_PUT_CHECK" /\ chain'[k].status = "OVER"
            \/ /\ chain[k].status \in {"EQUIP_GET_CHECK", "EQUIP_PUT_CHECK"}
               /\ chain'[k].status \in {"ERR", "ABORT"}
<1>1. k \in Active /\ k \in Ids /\ chain[k] \in Chains /\ \A j \in Active : j \in Ids
  BY ChainKinds DEF TypeInv, TodoActive
<1>2. Active' = Active
  BY TypeCheck, StatusApart DEF Check
<1>3. executing' = executing /\ UNCHANGED orderVars /\ carried' = carried
  BY DEF CheckBegin, SendGet, SendPut, SendPark, Refused, CheckAnswer, GoOn, Insert, Checks, orderVars,
         acsVars
<1>4. ASSUME NEW s, GoOn(k, s)
      PROVE  /\ chain'[k].agv = chain[k].agv /\ chain'[k].order = chain[k].order /\ chain'[k].status = s
             /\ \A j \in Active : j # k => chain'[j] = chain[j]
  <2>1. chain'[k] = [chain[k] EXCEPT !.status = s] /\ \A j \in Active : j # k => chain'[j] = chain[j]
    BY <1>1, <1>4 DEF GoOn, TypeInv, TypeOK
  <2> QED  BY <1>1, <2>1 DEF Chains, CarryChains, ParkChains
<1>5. ASSUME NEW i, NEW g, NEW s, Insert(k, i, g, s)
      PROVE  /\ chain'[k].agv = chain[k].agv /\ chain'[k].order = chain[k].order /\ chain'[k].status = s
             /\ \A j \in Active : j # k => chain'[j] = chain[j]
  <2>1. /\ chain'[k] = [chain[k] EXCEPT !.id = i, !.status = s]
        /\ \A j \in Active : j # k => chain'[j] = chain[j]
    BY <1>1, <1>5 DEF Insert, Inserted, TypeInv, TypeOK
  <2> QED  BY <1>1, <2>1 DEF Chains, CarryChains, ParkChains
<1>6. CASE CheckBegin(k)
  <2>1. CASE Carries(k)
    <3>1. GoOn(k, "EQUIP_GET") /\ chain[k].status = "BEGIN"
      BY <1>6, <2>1 DEF CheckBegin
    <3> QED  BY <1>1, <1>2, <1>3, <1>4, <3>1 DEF Progress
  <2>2. CASE ~Carries(k)
    <3>1. GoOn(k, "PARKING")
      BY <1>6, <2>2 DEF CheckBegin
    <3> QED  BY <1>1, <1>2, <1>3, <1>4, <2>2, <3>1
  <2> QED  BY <2>1, <2>2
<1>7. CASE SendGet(k) \/ SendPut(k)
  <2>1. \/ chain[k].status = "EQUIP_GET" /\ Insert(k, k, "GET", "EQUIP_GET_CHECK")
        \/ chain[k].status = "EQUIP_PUT" /\ Insert(k, k + 1, "PUT", "EQUIP_PUT_CHECK")
    BY <1>7 DEF SendGet, SendPut
  <2>2. Progress("EQUIP_GET_CHECK") = Progress("EQUIP_GET") /\ Progress("EQUIP_PUT_CHECK") = Progress("EQUIP_PUT")
    BY DEF Progress
  <2>3. /\ chain'[k].agv = chain[k].agv /\ chain'[k].order = chain[k].order
        /\ Progress(chain'[k].status) = Progress(chain[k].status)
        /\ \A j \in Active : j # k => chain'[j] = chain[j]
    BY <1>5, <2>1, <2>2
  <2> QED  BY <1>1, <1>2, <1>3, <2>3
<1>8. CASE SendPark(k)
  <2>1. ~Carries(k) /\ Insert(k, k, "PARK", "PARKING_CHECK")
    BY <1>1, <1>8, StatusKind DEF SendPark
  <2> QED  BY <1>1, <1>2, <1>3, <1>5, <2>1
<1>9. CASE Refused(k)
  <2>1. GoOn(k, chain[k].status)
    BY <1>9 DEF Refused
  <2> QED  BY <1>1, <1>2, <1>3, <1>4, <2>1
<1>10. CASE CheckAnswer(k)
  <2>1. PICK s : GoOn(k, s) /\ s \in {After(chain[k].status), "ERR", "ABORT", chain[k].status}
    BY <1>10 DEF CheckAnswer
  <2>2. \/ chain[k].status \in {"EQUIP_GET_CHECK", "EQUIP_PUT_CHECK"}
        \/ ~Carries(k)
    BY <1>1, <1>10, StatusKind DEF CheckAnswer
  <2>3. chain[k].status = "EQUIP_GET_CHECK" => After(chain[k].status) = "EQUIP_PUT"
    BY DEF After
  <2>4. chain[k].status = "EQUIP_PUT_CHECK" => After(chain[k].status) = "OVER"
    BY DEF After
  <2>5. \/ s = chain[k].status \/ ~Carries(k)
        \/ chain[k].status = "EQUIP_GET_CHECK" /\ s = "EQUIP_PUT"
        \/ chain[k].status = "EQUIP_PUT_CHECK" /\ s = "OVER"
        \/ chain[k].status \in {"EQUIP_GET_CHECK", "EQUIP_PUT_CHECK"} /\ s \in {"ERR", "ABORT"}
    BY <2>1, <2>2, <2>3, <2>4
  <2> QED  BY <1>1, <1>2, <1>3, <1>4, <2>1, <2>5
<1> QED  BY <1>6, <1>7, <1>8, <1>9, <1>10

(* The chain of an order that goes from one stage to another, with its AGV. *)
LEMMA Advanced ==
  ASSUME TypeInv, MapFacts, MapFacts', NEW k \in Active, NEW o \in Orders, chain[k].order = o,
         Active' = Active, \A j \in Active : j # k => chain'[j] = chain[j],
         chain'[k].agv = chain[k].agv, chain'[k].order = o, executing' = executing, report' = report,
         again' = again, o \notin again
  PROVE  /\ stage[o] = Progress(chain[k].status)
         /\ stage' = [stage EXCEPT ![o] = Progress(chain'[k].status)]
         /\ carriers' = carriers
<1>1. stage[o] = Progress(chain[k].status) /\ carriers[o] = {chain[k].agv}
  BY DEF MapFacts, MapOf
<1>2. stage'[o] = Progress(chain'[k].status) /\ carriers'[o] = {chain[k].agv}
  BY MappedNext
<1>3. ASSUME NEW q \in Orders, q # o
      PROVE  Same(q)
  <2>1. KeepsOrder(q)
    BY <1>3 DEF KeepsOrder
  <2> QED  BY <2>1, OrderKept
<1> QED  BY <1>1, <1>2, <1>3, OneMoved

LEMMA LifeCheckKept ==
  ASSUME TypeInv, MapFacts, MapFacts', DoneWasCarried', NEW k \in todo,
         \/ CheckBegin(k) \/ SendGet(k) \/ SendPut(k) \/ SendPark(k) \/ Refused(k) \/ CheckAnswer(k)
  PROVE  Life!Next \/ UNCHANGED <<stage, carriers, carried, wanted>>
<1>1. /\ k \in Active /\ Active' = Active /\ \A j \in Active : j # k => chain'[j] = chain[j]
      /\ chain'[k].agv = chain[k].agv /\ chain'[k].order = chain[k].order
      /\ executing' = executing /\ UNCHANGED orderVars /\ carried' = carried
  BY CheckMoves
<1>2. Carries(k) <=> chain[k].order \in Orders
  BY <1>1, ChainKinds, OrdersAssumption DEF TypeInv, CarryChains, Carries
<1>0. report' = report /\ again' = again /\ wanted' = wanted
  BY <1>1, WantedKept DEF orderVars
<1>3. CASE ~Carries(k) \/ Progress(chain'[k].status) = Progress(chain[k].status) \/ chain[k].order \in again
  <2>1. ASSUME NEW o \in Orders
        PROVE  Same(o)
    <3>1. KeepsOrder(o)
      BY <1>0, <1>1, <1>2, <1>3 DEF KeepsOrder
    <3> QED  BY <3>1, OrderKept
  <2> QED  BY <1>0, <1>1, <2>1, AllKept
<1>4. CASE /\ Carries(k) /\ Progress(chain'[k].status) # Progress(chain[k].status)
           /\ chain[k].order \notin again
  <2>1. PICK o \in Orders : chain[k].order = o
    BY <1>2, <1>4
  <2>2. /\ stage[o] = Progress(chain[k].status)
        /\ stage' = [stage EXCEPT ![o] = Progress(chain'[k].status)]
        /\ carriers' = carriers
    BY <1>0, <1>1, <1>4, <2>1, Advanced
  <2>3. /\ chain'[k].status = "EQUIP_PUT" => <<o, "GET">> \in carried
        /\ chain'[k].status = "OVER" => <<o, "PUT">> \in carried
    <3>1. Carries(k)' /\ k \in Active'
      BY <1>1, <1>4 DEF Carries
    <3> QED  BY <1>1, <2>1, <3>1 DEF DoneWasCarried
  <2>4. CASE chain[k].status = "EQUIP_GET_CHECK" /\ chain'[k].status = "EQUIP_PUT"
    <3>1. stage[o] = "FETCHING" /\ stage' = [stage EXCEPT ![o] = "BRINGING"]
      BY <2>2, <2>4 DEF Progress
    <3>2. Life!Got(o)
      BY <1>0, <1>1, <2>2, <2>3, <2>4, <3>1 DEF Life!Got, Life!Advance
    <3> QED  BY <3>2 DEF Life!Next
  <2>5. CASE chain[k].status = "EQUIP_PUT_CHECK" /\ chain'[k].status = "OVER"
    <3>1. stage[o] = "BRINGING" /\ stage' = [stage EXCEPT ![o] = "BROUGHT"]
      BY <2>2, <2>5 DEF Progress
    <3>2. Life!Brought(o)
      BY <1>0, <1>1, <2>2, <2>3, <2>5, <3>1 DEF Life!Brought, Life!Advance
    <3> QED  BY <3>2 DEF Life!Next
  <2>6. CASE /\ chain[k].status \in {"EQUIP_GET_CHECK", "EQUIP_PUT_CHECK"}
             /\ chain'[k].status \in {"ERR", "ABORT"}
    <3>1. stage[o] \in {"FETCHING", "BRINGING"} /\ stage' = [stage EXCEPT ![o] = "GIVEN UP"]
      BY <2>2, <2>6 DEF Progress
    <3>2. stage' = [q \in Orders |-> IF q \in {o} THEN "GIVEN UP" ELSE stage[q]]
      BY <3>1, Shapes
    <3>3. Life!GiveUp({o})
      BY <1>0, <1>1, <2>2, <3>1, <3>2 DEF Life!GiveUp, Life!UnderWay
    <3> QED  BY <3>3 DEF Life!Next
  <2> QED  BY <1>4, <2>4, <2>5, <2>6, CheckMoves
<1> QED  BY <1>3, <1>4

(* A chain that ends for an order that only its AGV had. *)
LEMMA LifeEnds ==
  ASSUME TypeInv, DutyInv, MapFacts, TypeInv', MapFacts', NEW k \in Active, NEW o \in Orders,
         chain[k].order = o, CheckOver(k) \/ CheckError(k), o \notin again, carriers'[o] = {},
         \A q \in Orders : q # o => Same(q)
  PROVE  Life!Done(o) \/ Life!Fail(o)
<1>1. carried' = carried /\ wanted' = wanted
  BY WantedKept DEF CheckOver, CheckError, acsVars
<1>2. stage[o] = Progress(chain[k].status) /\ Carries(k) /\ "DOING" \in report[o]
  BY OrdersAssumption DEF MapFacts, MapOf, Carries, DutyInv, OrderDuty, OrderOnce, Chained
<1>3. stage'[o] = Told(report'[o])
  BY MappedNext, CarrierNext
<1>4. CASE CheckOver(k)
  <2>1. report'[o] = {"DONE"}
    BY <1>2, <1>4 DEF CheckOver, TypeInv, TypeOK
  <2>2. stage'[o] = "DONE"
    BY <1>3, <2>1 DEF Told
  <2>3. stage[o] = "BROUGHT"
    BY <1>2, <1>4 DEF CheckOver, Progress
  <2>4. stage' = [stage EXCEPT ![o] = "DONE"] /\ carriers' = [carriers EXCEPT ![o] = {}]
    BY <2>2, OneMoved
  <2> QED  BY <1>1, <2>3, <2>4 DEF Life!Done, Life!End
<1>5. CASE CheckError(k)
  <2>1. report'[o] = {"ERR"}
    BY <1>2, <1>5 DEF CheckError, Failed, TypeInv, TypeOK
  <2>2. stage'[o] = "ERR"
    BY <1>3, <2>1 DEF Told
  <2>3. stage[o] = "GIVEN UP"
    BY <1>2, <1>5 DEF CheckError, Progress
  <2>4. stage' = [stage EXCEPT ![o] = "ERR"] /\ carriers' = [carriers EXCEPT ![o] = {}]
    BY <2>2, OneMoved
  <2> QED  BY <1>1, <2>3, <2>4 DEF Life!Fail, Life!End
<1> QED  BY <1>4, <1>5

(* A chain that ends for an order that was redone meanwhile. *)
LEMMA LifeLeaves ==
  ASSUME TypeInv, DutyInv, MapFacts, TypeInv', MapFacts', DoneWasCarried, DoneWasCarried',
         NEW k \in Active, NEW o \in Orders, chain[k].order = o, CheckOver(k) \/ CheckError(k),
         o \in again, carriers'[o] = carriers[o] \ {chain[k].agv},
         \A q \in Orders : q # o => Same(q)
  PROVE  \E to \in {"DONE", "ERR"} : Life!Leave(chain[k].agv, o, to)
<1>1. carried' = carried /\ wanted' = wanted
  BY WantedKept DEF CheckOver, CheckError, acsVars
<1>2. stage[o] = "REPEATED" /\ chain[k].agv \in carriers[o]
  BY CarrierFacts DEF MapFacts, MapOf
<1>3. carriers' = [carriers EXCEPT ![o] = @ \ {chain[k].agv}]
  BY OneMoved
<1>4. CASE carriers'[o] # {}
  <2>1. OnOrder(o)'
    BY <1>4, CarrierNext
  <2>2. o \in again'
    BY <2>1 DEF CheckOver, CheckError, Ended
  <2>3. stage'[o] = stage[o]
    BY <1>2, <2>2, MappedNext
  <2>4. stage' = stage
    BY <2>3, OneMoved
  <2>5. Life!Leave(chain[k].agv, o, "ERR")
    BY <1>1, <1>2, <1>3, <1>4, <2>4 DEF Life!Leave, Life!Result
  <2> QED  BY <2>5
<1>5. CASE carriers'[o] = {}
  <2>1. ~OnOrder(o)'
    BY <1>5, CarrierNext
  <2>2. stage'[o] = Told(report'[o]) /\ report'[o] \subseteq {"DONE", "ERR"}
    BY <2>1, MappedNext
  <2>3. report'[o] # {}
    <3>1. report[o] # {}
      BY DEF DutyInv, OrderDuty
    <3>2. report'[o] \in {{"DONE"}, {"ERR"}, report[o]}
      BY DEF CheckOver, CheckError, Failed, TypeInv, TypeOK
    <3> QED  BY <3>1, <3>2
  <2>4. PICK to \in {"DONE", "ERR"} : to = Told(report'[o])
    BY <2>2, <2>3 DEF Told
  <2>5. to = "DONE" => <<o, "PUT">> \in carried
    <3> SUFFICES ASSUME to = "DONE" PROVE <<o, "PUT">> \in carried
      OBVIOUS
    <3>1. report'[o] = {"DONE"}
      BY <2>2, <2>3, <2>4 DEF Told
    <3> QED  BY <1>1, <3>1 DEF DoneWasCarried
  <2>6. stage' = [stage EXCEPT ![o] = to]
    BY <2>2, <2>4, OneMoved
  <2>7. carriers[o] = {chain[k].agv}
    BY <1>2, <1>5
  <2>8. Life!Leave(chain[k].agv, o, to)
    BY <1>1, <1>2, <1>3, <2>4, <2>5, <2>6, <2>7 DEF Life!Leave, Life!Result
  <2> QED  BY <2>8
<1> QED  BY <1>4, <1>5

LEMMA LifeRemove ==
  ASSUME TypeInv, DutyInv, MapFacts, TypeInv', DutyInv', MapFacts', DoneWasCarried, DoneWasCarried',
         NEW k \in todo, CheckOver(k) \/ CheckError(k)
  PROVE  Life!Next \/ UNCHANGED <<stage, carriers, carried, wanted>>
<1>1. /\ k \in Active /\ (Carries(k) <=> chain[k].order \in Orders)
      /\ chain[k].agv \in Agvs
  BY ChainKinds, OrdersAssumption
     DEF TypeInv, TodoActive, Chains, CarryChains, ParkChains, Carries
<1>2. Active' = Active \ {k} /\ \A j \in Active' : j \in Active /\ chain'[j] = chain[j]
  <2>1. Checks(k) /\ Remove(k)
    BY DEF CheckOver, CheckError
  <2>2. Active' = Active \ {k}
    BY <2>1, RemoveType
  <2> QED  BY <1>1, <2>1, <2>2 DEF Remove, Active, TypeInv, TypeOK
<1>3. executing' = executing /\ carried' = carried /\ wanted' = wanted
  <2>1. orderStatus' = orderStatus \/ \E o \in Orders : orderStatus' = Reopened(o)
    BY <1>1 DEF CheckOver, CheckError
  <2> QED  BY <2>1, WantedKept DEF CheckOver, CheckError, Checks, acsVars
<1>4. ASSUME NEW q \in Orders, q # chain[k].order
      PROVE  Same(q)
  <2>1. report'[q] = report[q]
    BY <1>1, <1>4 DEF CheckOver, CheckError, TypeInv, TypeOK
  <2>2. OnOrder(q)' <=> OnOrder(q)
    BY <1>2, <1>3, <1>4 DEF OnOrder
  <2>3. q \in again => OnOrder(q)
    BY DEF DutyInv, OrderDuty
  <2>4. q \in again' <=> q \in again
    BY <2>2, <2>3 DEF CheckOver, CheckError, Ended
  <2>5. KeepsOrder(q)
    BY <1>2, <1>3, <1>4, <2>1, <2>4 DEF KeepsOrder
  <2> QED  BY <2>5, OrderKept
<1>5. CASE chain[k].order \notin Orders
  BY <1>3, <1>4, <1>5, AllKept
<1>6. ASSUME NEW o \in Orders, chain[k].order = o
      PROVE  Life!Next
  <2>1. \A a \in Agvs : HasOrder(a, o)' <=> HasOrder(a, o) /\ a # chain[k].agv
    BY <1>1, <1>2, <1>3, <1>6 DEF HasOrder, DutyInv, AgvOnce
  <2>2. carriers'[o] = carriers[o] \ {chain[k].agv}
    <3>1. carriers[o] \subseteq Agvs /\ \A a \in Agvs : a \in carriers[o] <=> HasOrder(a, o)
      BY DEF MapFacts, MapOf
    <3> QED  BY <2>1, <3>1, MappedNext
  <2>3. CASE o \in again
    <3>1. PICK to \in {"DONE", "ERR"} : Life!Leave(chain[k].agv, o, to)
      BY <1>1, <1>4, <1>6, <2>2, <2>3, LifeLeaves
    <3> QED  BY <1>1, <3>1 DEF Life!Next
  <2>4. CASE o \notin again
    <3>1. carriers'[o] = {}
      BY <1>1, <1>6, <2>2, <2>4 DEF MapFacts, MapOf
    <3>2. Life!Done(o) \/ Life!Fail(o)
      BY <1>1, <1>4, <1>6, <2>4, <3>1, LifeEnds
    <3> QED  BY <3>2 DEF Life!Next
  <2> QED  BY <2>3, <2>4
<1> QED  BY <1>5, <1>6

(* A button may give up several orders at once. *)
LEMMA LifeCancel ==
  ASSUME TypeInv, MapFacts, MapFacts', NEW k \in Active, Cancel(k)
  PROVE  Life!Next
<1> DEFINE S == {o \in Orders : stage[o] \in Life!UnderWay /\ stage'[o] = "GIVEN UP"}
<1>1. /\ Active' = Active /\ \A j \in Active : SameDuty(j)
      /\ executing' = executing /\ report' = report /\ again' = again /\ carried' = carried
      /\ wanted' = wanted
  BY ButtonChains, WantedKept DEF Cancel, orderVars
<1>2. \A j \in Active : chain'[j].status \in {chain[j].status, "ABORT"}
  BY ChainKinds DEF Cancel, TypeInv, Chains, CarryChains, ParkChains
<1>3. ASSUME NEW o \in Orders
      PROVE  carriers'[o] = carriers[o] /\ stage'[o] = IF o \in S THEN "GIVEN UP" ELSE stage[o]
  <2>1. ASSUME o \notin again, NEW j \in Active, chain[j].order = o
        PROVE  carriers'[o] = carriers[o] /\ stage'[o] = IF o \in S THEN "GIVEN UP" ELSE stage[o]
    <3>2. chain'[j].order = o /\ chain'[j].agv = chain[j].agv /\ j \in Active'
      BY <1>1, <2>1 DEF SameDuty
    <3>3. stage[o] = Progress(chain[j].status) /\ carriers[o] = {chain[j].agv}
      BY <2>1 DEF MapFacts, MapOf
    <3>4. stage'[o] = Progress(chain'[j].status) /\ carriers'[o] = {chain[j].agv}
      BY <1>1, <2>1, <3>2, MappedNext
    <3>5. Progress(chain[j].status) \in Life!UnderWay \cup {"GIVEN UP"}
      BY DEF Progress, Life!UnderWay
    <3>6. Progress("ABORT") = "GIVEN UP"
      BY DEF Progress
    <3> QED  BY <1>2, <2>1, <3>3, <3>4, <3>5, <3>6
  <2>2. CASE o \in again \/ \A j \in Active : chain[j].order # o
    <3>1. KeepsOrder(o)
      BY <1>1, <2>2 DEF KeepsOrder, SameDuty
    <3>2. Same(o)
      BY <3>1, OrderKept
    <3>3. stage[o] # "GIVEN UP" \/ stage[o] \notin Life!UnderWay
      BY DEF Life!UnderWay
    <3> QED  BY <3>2, <3>3 DEF Same, Life!UnderWay
  <2> QED  BY <2>1, <2>2
<1>4. carriers' = carriers /\ stage' = [o \in Orders |-> IF o \in S THEN "GIVEN UP" ELSE stage[o]]
  BY <1>3, Shapes, ShapesNext
<1>5. Life!GiveUp(S)
  BY <1>1, <1>4 DEF Life!GiveUp
<1> QED  BY <1>5 DEF Life!Next

LEMMA LifeAsk ==
  ASSUME TypeInv, DutyInv, MapFacts, MapFacts', NEW o \in Orders, Redo(o)
  PROVE  Life!Ask(o)
<1>1. /\ executing' = executing /\ report' = report /\ chain' = chain /\ Active' = Active
      /\ carried' = carried /\ again' = IF OnOrder(o) THEN again \cup {o} ELSE again
  BY DEF Redo, wcsVars, acsVars, Active
<1>2. wanted' = wanted \cup {o}
  <2>1. \A q \in Orders : orderStatus'[q] # "OVER" <=> orderStatus[q] # "OVER" \/ q = o
    BY DEF Redo, TypeInv, TypeOK
  <2> QED  BY <2>1 DEF wanted
<1>3. ASSUME NEW q \in Orders, q # o
      PROVE  Same(q)
  <2>1. KeepsOrder(q)
    BY <1>1, <1>3 DEF KeepsOrder
  <2> QED  BY <2>1, OrderKept
<1>4. carriers'[o] = carriers[o]
  <2>1. \A a \in Agvs : HasOrder(a, o)' <=> HasOrder(a, o)
    BY <1>1 DEF HasOrder
  <2> QED  BY <2>1, SameCarriers
<1>5. stage'[o] = IF carriers[o] = {} THEN stage[o] ELSE "REPEATED"
  <2>1. CASE OnOrder(o)
    BY <1>1, <2>1, MappedNext, CarrierFacts
  <2>2. CASE ~OnOrder(o)
    <3>1. KeepsOrder(o)
      BY <1>1, <2>2 DEF KeepsOrder
    <3> QED  BY <2>2, <3>1, OrderKept, CarrierFacts DEF Same
  <2> QED  BY <2>1, <2>2
<1>6. stage[o] # "none"
  <2>1. CASE ~OnOrder(o)
    <3>1. report[o] # {} /\ report[o] \subseteq {"DONE", "ERR"} /\ stage[o] = Told(report[o])
      BY <2>1 DEF Redo, MapFacts, MapOf
    <3> QED  BY <3>1 DEF Told
  <2>2. CASE o \in again
    BY <2>2 DEF MapFacts, MapOf
  <2>3. CASE OnOrder(o) /\ o \notin again
    <3>1. stage[o] = "NEW" \/ \E k \in Active : stage[o] = Progress(chain[k].status)
      BY <2>3 DEF OnOrder, MapFacts, MapOf
    <3> QED  BY <3>1 DEF Progress
  <2> QED  BY <2>1, <2>2, <2>3
<1>7. carriers' = carriers
  BY <1>3, <1>4, OneMoved
<1>8. stage' = IF carriers[o] = {} THEN stage ELSE [stage EXCEPT ![o] = "REPEATED"]
  BY <1>3, <1>5, OneMoved
<1> QED  BY <1>1, <1>2, <1>6, <1>7, <1>8 DEF Life!Ask

(* A redone order that is left DONE was carried; any other that an AGV has becomes ERR. *)
LEMMA LifeRestart ==
  ASSUME TypeInv, DutyInv, MapFacts, MapFacts', DoneWasCarried, Restart
  PROVE  Life!Next
<1> DEFINE S == {o \in again : report[o] = {"DONE"}}
<1>1. carried' = carried /\ wanted' = wanted /\ executing' = {} /\ Active' = {}
  BY WantedKept, NothingAssumption DEF Restart, Active
<1>2. \A o \in Orders : report'[o] = {Forgotten(r) : r \in report[o]}
  BY DEF Restart
<1>3. \A o \in S : o \in Orders /\ stage[o] = "REPEATED" /\ Life!Result(o, "DONE")
  BY DEF DoneWasCarried, MapFacts, MapOf, Life!Result, TypeInv, TypeOK
<1>4. ASSUME NEW o \in Orders
      PROVE  /\ carriers'[o] = {}
             /\ stage'[o] = IF carriers[o] = {} THEN stage[o] ELSE IF o \in S THEN "DONE" ELSE "ERR"
  <2>1. ~OnOrder(o)'
    BY <1>1 DEF OnOrder
  <2>2. carriers'[o] = {} /\ stage'[o] = Told(report'[o])
    BY <2>1, MappedNext
  <2>3. /\ "ERR" \in report'[o] <=> report[o] \cap {"NEW", "DOING", "ERR"} # {}
        /\ "DONE" \in report'[o] <=> "DONE" \in report[o]
    BY <1>2 DEF Forgotten, TypeInv, TypeOK
  <2>4. CASE ~OnOrder(o)
    <3>1. carriers[o] = {} /\ stage[o] = Told(report[o]) /\ report[o] \subseteq {"DONE", "ERR"}
      BY <2>4 DEF MapFacts, MapOf
    <3>2. Told(report'[o]) = Told(report[o])
      BY <2>3, <3>1 DEF Told
    <3> QED  BY <2>2, <3>1, <3>2
  <2>5. CASE OnOrder(o) /\ o \in S
    <3>1. "DONE" \in report'[o] /\ "ERR" \notin report'[o]
      BY <2>3, <2>5
    <3>2. Told(report'[o]) = "DONE"
      BY <3>1 DEF Told
    <3> QED  BY <2>2, <2>5, <3>2, CarrierFacts
  <2>6. CASE OnOrder(o) /\ o \notin S
    <3>1. report[o] \cap {"NEW", "DOING", "ERR"} # {}
      <4>1. CASE o \in again
        BY <2>6, <4>1 DEF DutyInv, OrderDuty, TypeInv, TypeOK
      <4>2. CASE o \notin again
        BY <2>6, <4>2 DEF DutyInv, OrderDuty, OrderOnce, OnOrder, Waiting, Chained
      <4> QED  BY <4>1, <4>2
    <3>2. Told(report'[o]) = "ERR"
      BY <2>3, <3>1 DEF Told
    <3> QED  BY <2>2, <2>6, <3>2, CarrierFacts
  <2> QED  BY <2>4, <2>5, <2>6
<1>5. /\ carriers' = [o \in Orders |-> {}]
      /\ stage' = [o \in Orders |-> IF carriers[o] = {} THEN stage[o] ELSE IF o \in S THEN "DONE" ELSE "ERR"]
  BY <1>4, ShapesNext
<1>6. Life!Forget(S) /\ S \in SUBSET Orders
  BY <1>1, <1>3, <1>5 DEF Life!Forget
<1> QED  BY <1>6 DEF Life!Next

LEMMA LifeQuiet ==
  ASSUME TypeInv, MapFacts, MapFacts', executing' = executing, report' = report, Active' = Active,
         again' = again, orderStatus' = orderStatus,
         \A k \in Active : /\ chain'[k].order = chain[k].order /\ chain'[k].agv = chain[k].agv
                           /\ chain'[k].status = chain[k].status
  PROVE  stage' = stage /\ carriers' = carriers /\ wanted' = wanted
<1>1. ASSUME NEW o \in Orders
      PROVE  Same(o)
  <2>1. KeepsOrder(o)
    BY DEF KeepsOrder
  <2> QED  BY <2>1, OrderKept
<1> QED  BY <1>1, AllKept, WantedKept

LEMMA LifeAcs ==
  ASSUME TypeInv, MapFacts, MapFacts', Acs
  PROVE  Life!Next \/ UNCHANGED <<stage, carriers, carried, wanted>>
<1>1. /\ executing' = executing /\ UNCHANGED orderVars /\ chain' = chain /\ Active' = Active
  BY DEF Acs, Accept, Finish, Fail, ReadAbort, wcsVars, Active
<1>2. stage' = stage /\ carriers' = carriers /\ wanted' = wanted
  BY <1>1, LifeQuiet DEF orderVars
<1>3. ASSUME NEW a \in Agvs, Finish(a), carried' # carried
      PROVE  Life!Next
  <2>1. running[a] \in Tasks /\ running[a].goal # "PARK"
    BY <1>3 DEF Finish, TypeInv, TypeOK
  <2>2. PICK o \in Orders, goal \in {"GET", "PUT"} : running[a].order = o /\ running[a].goal = goal
    BY <2>1 DEF Tasks
  <2>3. Life!Carry(o, goal)
    BY <1>2, <1>3, <2>1, <2>2 DEF Life!Carry, Finish
  <2> QED  BY <2>3 DEF Life!Next
<1>4. CASE carried' = carried
  BY <1>2, <1>4
<1>5. CASE carried' # carried
  <2>1. \E a \in Agvs : Finish(a)
    BY <1>5 DEF Acs, Accept, Fail, ReadAbort
  <2> QED  BY <1>3, <1>5, <2>1
<1> QED  BY <1>4, <1>5

LEMMA LifeStep ==
  ASSUME TypeInv, DutyInv, MapFacts, DoneWasCarried, TypeInv', DutyInv', MapFacts', DoneWasCarried',
         [ChainsNext]_vars
  PROVE  Life!Next \/ UNCHANGED <<stage, carriers, carried, wanted>>
<1>1. ASSUME NEW a \in Agvs, NEW o \in Orders, TakeOrder(a, o)
      PROVE  Life!Next
  BY <1>1, LifeTake DEF Life!Next
<1>2. ASSUME NEW e \in executing, Dispatch(e)
      PROVE  Life!Next \/ UNCHANGED <<stage, carriers, carried, wanted>>
  BY <1>2, LifeBegin DEF Life!Next, TypeInv, TypeOK
<1>3. ASSUME NEW k \in todo, Check(k)
      PROVE  Life!Next \/ UNCHANGED <<stage, carriers, carried, wanted>>
  BY <1>3, LifeCheckKept, LifeRemove DEF Check
<1>4. CASE ReadFeedback
  <2>1. \A k \in Active : SameDuty(k) /\ chain'[k].status = chain[k].status
    <3>1. \A k \in Active : chain[k] \in Chains
      BY ChainKinds DEF TypeInv
    <3>2. \A k \in Active : chain'[k].status = chain[k].status
      BY <1>4, <3>1 DEF ReadFeedback, Active, Chains, CarryChains, ParkChains
    <3> QED  BY <1>4, <3>2, ButtonChains
  <2> QED  BY <1>4, <2>1, ButtonChains, LifeQuiet DEF ReadFeedback, SameDuty, orderVars, acsVars
<1>5. CASE BeginTick \/ EndFetch \/ EndDispatch \/ EndCheck \/ UNCHANGED vars
           \/ (\E a \in Agvs : Unlock(a))
  <2>1. executing' = executing /\ UNCHANGED orderVars /\ chain' = chain /\ Active' = Active
        /\ carried' = carried
    BY <1>5 DEF BeginTick, EndFetch, EndDispatch, EndCheck, vars, Unlock, wcsVars, acsVars, Active
  <2> QED  BY <2>1, LifeQuiet DEF orderVars
<1>6. CASE Restart
  BY <1>6, LifeRestart
<1>7. CASE Acs
  BY <1>7, LifeAcs
<1>8. ASSUME NEW k \in Active, Cancel(k)
      PROVE  Life!Next
  BY <1>8, LifeCancel
<1>9. ASSUME NEW a \in Agvs, NEW p \in Parks, SendToPark(a, p)
      PROVE  UNCHANGED <<stage, carriers, carried, wanted>>
  BY <1>9, LifeSendToPark
<1>10. ASSUME NEW o \in Orders, Redo(o)
       PROVE  Life!Next
  BY <1>10, LifeAsk DEF Life!Next
<1> QED
  BY <1>1, <1>2, <1>3, <1>4, <1>5, <1>6, <1>7, <1>8, <1>9, <1>10 DEF ChainsNext, Tick, Buttons

LEMMA LifeInit == Init => Life!Init
<1> SUFFICES ASSUME Init PROVE Life!Init
  OBVIOUS
<1>1. \A o \in Orders : ChainsOf(o) = {} /\ executing = {} /\ report[o] = {} /\ again = {}
  BY DEF Init, ChainsOf
<1>2. stage = [o \in Orders |-> "none"] /\ carriers = [o \in Orders |-> {}]
  BY <1>1 DEF stage, carriers
<1>3. wanted = Orders
  BY DEF Init, wanted
<1> QED  BY <1>2, <1>3 DEF Init, Life!Init

(***************************************************************************)
(* Whatever the ACS answers and the operator does, orders are carried as   *)
(* OrderLife says: every step is one of it or a stutter.  The program may  *)
(* restart once; after a second restart ids come again, and the answer to  *)
(* an old task may be taken for that to a new one.                         *)
(***************************************************************************)
THEOREM OrdersRefined == MaxRestarts <= 1 => (Spec => ImplementsOrders)
<1> SUFFICES ASSUME MaxRestarts <= 1 PROVE Spec => ImplementsOrders
  OBVIOUS
<1>1. TypeInv /\ CarryInv => DoneWasCarried
  <2>1. TypeInv => restarts <= 1
    BY BoundsAssumption DEF TypeInv, TypeOK
  <2> QED  BY <2>1 DEF CarryInv, ChainTasks
<1>2. /\ TypeInv /\ DutyInv /\ MapFacts /\ DoneWasCarried /\ [ChainsNext]_vars
      /\ TypeInv' /\ DutyInv' /\ MapFacts' /\ DoneWasCarried'
      => [Life!Next]_(Life!vars)
  BY LifeStep DEF Life!vars
<1> QED
  BY <1>1, <1>2, InitTypeInv, TypeStep, InitDutyInv, DutyStep, InitCarryInv, CarryStep, LifeInit,
     Mapped, PTL DEF Spec, ImplementsOrders, Life!Spec

-----------------------------------------------------------------------------
(* What the orders reserve. *)

(* Rows change from one that needs the target to another, and targets are only given back. *)
LEMMA VainKept ==
  ASSUME NoneReservedInVain, going' \subseteq going,
         \A o \in Orders : Target[o] \in going' /\ report[o] \cap {"NEW", "DOING", "DONE"} # {}
                             => report'[o] \cap {"NEW", "DOING", "DONE"} # {}
  PROVE  NoneReservedInVain'
<1> SUFFICES ASSUME NEW s \in going'
             PROVE  \E o \in Orders : Target[o] = s /\ report'[o] \cap {"NEW", "DOING", "DONE"} # {}
  BY DEF NoneReservedInVain
<1>1. PICK o \in Orders : Target[o] = s /\ report[o] \cap {"NEW", "DOING", "DONE"} # {}
  BY DEF NoneReservedInVain
<1> QED  BY <1>1

LEMMA VainStep == TypeInv /\ NoneReservedInVain /\ [ChainsNext]_vars => NoneReservedInVain'
<1> SUFFICES ASSUME TypeInv, NoneReservedInVain, [ChainsNext]_vars PROVE NoneReservedInVain'
  OBVIOUS
<1>0. report \in [Orders -> SUBSET {"NEW", "DOING", "DONE", "ERR"}]
  BY DEF TypeInv, TypeOK
<1>1. CASE UNCHANGED <<report, going>>
  BY <1>1, VainKept
<1>2. ASSUME NEW a \in Agvs, NEW o \in Orders, TakeOrder(a, o)
      PROVE  NoneReservedInVain'
  <2>1. going' = going \cup {Target[o]} /\ \A q \in Orders : report[q] \subseteq report'[q]
    BY <1>0, <1>2 DEF TakeOrder
  <2>2. "NEW" \in report'[o]
    BY <1>0, <1>2 DEF TakeOrder
  <2> SUFFICES ASSUME NEW s \in going'
               PROVE  \E q \in Orders : Target[q] = s /\ report'[q] \cap {"NEW", "DOING", "DONE"} # {}
    BY DEF NoneReservedInVain
  <2>3. CASE s = Target[o]
    BY <2>2, <2>3
  <2>4. CASE s \in going
    <3>1. PICK q \in Orders : Target[q] = s /\ report[q] \cap {"NEW", "DOING", "DONE"} # {}
      BY <2>4 DEF NoneReservedInVain
    <3> QED  BY <2>1, <3>1
  <2> QED  BY <2>1, <2>3, <2>4
<1>3. ASSUME NEW e \in executing, Dispatch(e)
      PROVE  NoneReservedInVain'
  <2>1. going' = going /\ \A o \in Orders : report'[o] \in {report[o], {"DOING"}}
    BY <1>0, <1>3 DEF Dispatch
  <2> QED  BY <2>1, VainKept
<1>4. ASSUME NEW k \in todo, CheckOver(k)
      PROVE  NoneReservedInVain'
  <2>1. going' = going /\ \A o \in Orders : report'[o] \in {report[o], {"DONE"}}
    BY <1>0, <1>4 DEF CheckOver
  <2> QED  BY <2>1, VainKept
<1>5. ASSUME NEW k \in todo, CheckError(k)
      PROVE  NoneReservedInVain'
  <2>1. CASE Carries(k)
    <3>1. /\ going' = going \ {Target[chain[k].order]}
          /\ \A o \in Orders : o # chain[k].order => report'[o] = report[o]
      BY <1>0, <1>5, <2>1 DEF CheckError
    <3> QED  BY <3>1, VainKept
  <2>2. CASE ~Carries(k)
    BY <1>1, <1>5, <2>2 DEF CheckError
  <2> QED  BY <2>1, <2>2
<1>6. ASSUME NEW k \in todo, Check(k), ~CheckOver(k), ~CheckError(k)
      PROVE  UNCHANGED <<report, going>>
  BY <1>6 DEF Check, CheckBegin, SendGet, SendPut, SendPark, Refused, CheckAnswer, GoOn, Insert,
              orderVars
<1>7. CASE BeginTick \/ EndFetch \/ EndDispatch \/ EndCheck \/ ReadFeedback \/ Buttons \/ Acs
  BY <1>1, <1>7 DEF BeginTick, EndFetch, EndDispatch, EndCheck, ReadFeedback, Buttons, Cancel, Unlock,
                    Redo, Acs, Accept, Finish, Fail, ReadAbort, orderVars
<1>8. CASE \E a \in Agvs, p \in Parks : SendToPark(a, p)
  BY <1>1, <1>8 DEF SendToPark, orderVars
<1>9. CASE UNCHANGED vars
  BY <1>1, <1>9 DEF vars, orderVars
<1>10. CASE Restart
  BY <1>10 DEF Restart, NoneReservedInVain
<1> QED
  BY <1>1, <1>2, <1>3, <1>4, <1>5, <1>6, <1>7, <1>8, <1>9, <1>10 DEF ChainsNext, Tick

(***************************************************************************)
(* Whatever fails, is cancelled or redone, whichever orders share a target *)
(* and whenever the program restarts, no storage stays reserved for orders *)
(* that have failed or were never taken.                                   *)
(***************************************************************************)
THEOREM NoneInVainAlways == Spec => []NoneReservedInVain
<1>1. Init => NoneReservedInVain
  BY DEF Init, NoneReservedInVain
<1> QED  BY <1>1, InitTypeInv, TypeStep, VainStep, PTL DEF Spec

-----------------------------------------------------------------------------
(***************************************************************************)
(* The stations.  A chain that fails leaves its AGV locked wherever it is, *)
(* so that it gets no other; only the operator or a restart puts it back   *)
(* where others may be sent.                                               *)
(***************************************************************************)
Awaiting == {"EQUIP_GET_CHECK", "EQUIP_PUT_CHECK", "PARKING_CHECK"}

(* The ACS brings an AGV to where its chain is to, if it still has one. *)
TaskOwner ==
  \A t \in AcsTasks, k \in Active : chain[k].agv = t.agv => chain[k].to = t.to

(* A task with an id of a chain is for the AGV of the chain. *)
IdOwner ==
  \A t \in AcsTasks, k \in Active :
    t.id = k \/ (Carries(k) /\ t.id = k + 1) => t.agv = chain[k].agv

(* An AGV whose task is done is where its chain was to bring it. *)
Brought(k) ==
  \/ chain[k].status \in {"EQUIP_PUT", "OVER"}
  \/ chain[k].status \in Awaiting /\ feedback[chain[k].id] = "DONE"
Arrived == \A k \in Active : Brought(k) => place[chain[k].agv] = chain[k].to

Trips == TaskOwner /\ IdOwner /\ Arrived

Base == TypeInv /\ DutyInv /\ ChainTasks /\ restarts = 0

(* Without restarts no task is an old one. *)
LEMMA BaseTasks ==
  ASSUME Base
  PROVE  /\ \A t \in AcsTasks : t.id \in history /\ feedback[t.id] = "none" /\ locked[t.agv]
         /\ \A t \in AcsTasks : \A e \in executing : e.agv # t.agv
         /\ \A t \in AcsTasks, k \in Active :
              chain[k].agv = t.agv => t.id = chain[k].id /\ chain[k].status \notin Unsent
BY DEF Base, ChainTasks, TasksShape, TasksKept, Mine, Old

LEMMA ChainFields ==
  ASSUME TypeInv, NEW k \in Active
  PROVE  /\ k \in Ids /\ chain[k] \in Chains /\ chain[k].agv \in Agvs
         /\ chain[k].to \in Parks \cup {Away}
         /\ chain[k].status \in CarryStatus \cup ParkStatus
         /\ chain[k].status \in CarryStatus \/ ~Carries(k)
         /\ chain[k].status \in ParkStatus \/ Carries(k)
BY ChainKinds DEF TypeInv, Chains, CarryChains, ParkChains

(* A chain that is checked and goes on without a new task. *)
LEMMA GoOnEffect ==
  ASSUME TypeInv, NEW k \in todo, CheckBegin(k) \/ Refused(k) \/ CheckAnswer(k)
  PROVE  /\ k \in Active /\ Active' = Active
         /\ \A j \in Active : j # k => chain'[j] = chain[j]
         /\ chain'[k].agv = chain[k].agv /\ chain'[k].to = chain[k].to
         /\ chain'[k].id = chain[k].id /\ chain'[k].answer = chain[k].answer
         /\ chain'[k].order = chain[k].order
         /\ locked' = [locked EXCEPT ![chain[k].agv] = TRUE] /\ executing' = executing
         /\ UNCHANGED <<park, inbox, running, feedback, place>>
         /\ \/ chain[k].status = "BEGIN" /\ chain'[k].status \in {"EQUIP_GET", "PARKING"}
            \/ chain'[k].status = chain[k].status
            \/ /\ chain[k].status \in Awaiting /\ chain[k].answer = "DONE"
               /\ chain'[k].status \in {"EQUIP_PUT", "OVER"}
            \/ chain'[k].status \in {"ERR", "ABORT"}
<1>1. k \in Active /\ k \in Ids /\ chain[k] \in Chains /\ \A j \in Active : j \in Ids
  BY ChainFields DEF TypeInv, TodoActive
<1>2. Active' = Active
  BY TypeCheck, StatusApart DEF Check
<1>3. PICK s : /\ GoOn(k, s)
               /\ \/ chain[k].status = "BEGIN" /\ s \in {"EQUIP_GET", "PARKING"}
                  \/ s = chain[k].status
                  \/ /\ chain[k].status \in Awaiting /\ chain[k].answer = "DONE"
                     /\ s \in {"EQUIP_PUT", "OVER"}
                  \/ s \in {"ERR", "ABORT"}
  <2>1. CASE CheckBegin(k)
    BY <2>1 DEF CheckBegin
  <2>2. CASE Refused(k)
    BY <2>2 DEF Refused
  <2>3. CASE CheckAnswer(k)
    BY <2>3 DEF CheckAnswer, Awaiting, After
  <2> QED  BY <2>1, <2>2, <2>3
<1>4. chain' = [chain EXCEPT ![k].status = s] /\ UNCHANGED <<park, acsVars>>
     /\ locked' = [locked EXCEPT ![chain[k].agv] = TRUE] /\ executing' = executing
  BY <1>3 DEF GoOn, Relock, Checks
<1>5. chain'[k] = [chain[k] EXCEPT !.status = s] /\ \A j \in Active : j # k => chain'[j] = chain[j]
  BY <1>1, <1>4 DEF TypeInv, TypeOK
<1>6. /\ chain'[k].agv = chain[k].agv /\ chain'[k].to = chain[k].to
      /\ chain'[k].id = chain[k].id /\ chain'[k].answer = chain[k].answer /\ chain'[k].status = s
      /\ chain'[k].order = chain[k].order
  BY <1>1, <1>5 DEF Chains, CarryChains, ParkChains
<1> QED  BY <1>1, <1>2, <1>3, <1>4, <1>5, <1>6 DEF acsVars

(* A chain that gets a task, and what becomes of the station where its AGV stands. *)
LEMMA InsertEffect ==
  ASSUME Base, NEW k \in todo, SendGet(k) \/ SendPut(k) \/ SendPark(k)
  PROVE  /\ k \in Active /\ Active' = Active
         /\ \A j \in Active : j # k => chain'[j] = chain[j]
         /\ chain'[k].agv = chain[k].agv /\ chain'[k].to = chain[k].to
         /\ chain'[k].answer = chain[k].answer
         /\ chain'[k].order = chain[k].order
         /\ (chain'[k].id = k \/ (Carries(k) /\ chain'[k].id = k + 1))
         /\ chain'[k].id \in Ids /\ chain'[k].status \in Awaiting
         /\ feedback[chain'[k].id] = "none"
         /\ locked' = [locked EXCEPT ![chain[k].agv] = TRUE] /\ executing' = executing
         /\ UNCHANGED <<running, feedback, place>>
         /\ \E n : /\ n.agv = chain[k].agv /\ n.to = chain[k].to /\ n.id = chain'[k].id
                  /\ inbox' = inbox \cup {n}
         /\ \/ chain[k].status = "EQUIP_PUT" /\ park' = park
            \/ chain[k].status \in {"EQUIP_GET", "PARKING"} /\ Release(chain[k].agv)
<1>1. k \in Active /\ k \in Ids /\ chain[k] \in Chains /\ \A j \in Active : j \in Ids
  BY ChainFields DEF Base, TypeInv, TodoActive
<1>2. Active' = Active
  BY TypeCheck, StatusApart DEF Check, Base
<1>3. PICK i, g, s :
        /\ i \in Ids /\ (i = k \/ (Carries(k) /\ i = k + 1)) /\ Insert(k, i, g, s) /\ i \notin history /\ s \in Awaiting
        /\ \/ chain[k].status = "EQUIP_PUT" /\ park' = park
           \/ chain[k].status \in {"EQUIP_GET", "PARKING"} /\ Release(chain[k].agv)
  <2>1. CASE SendGet(k)
    <3>1. k \notin history /\ Insert(k, k, "GET", "EQUIP_GET_CHECK")
      BY <2>1, <1>1 DEF SendGet, Base, ChainTasks, OwnIds
    <3> QED  BY <2>1, <3>1, <1>1 DEF SendGet, Awaiting
  <2>2. CASE SendPut(k)
    <3>1. k + 1 \in Ids /\ k + 1 \notin history /\ Insert(k, k + 1, "PUT", "EQUIP_PUT_CHECK") /\ Carries(k)
      BY <2>2, <1>1, StatusKind DEF SendPut, Base, ChainTasks, OwnIds
    <3> QED  BY <2>2, <3>1 DEF SendPut, Awaiting
  <2>3. CASE SendPark(k)
    <3>1. k \notin history /\ Insert(k, k, "PARK", "PARKING_CHECK")
      BY <2>3, <1>1 DEF SendPark, Base, ChainTasks, OwnIds
    <3> QED  BY <2>3, <3>1, <1>1 DEF SendPark, Awaiting
  <2> QED  BY <2>1, <2>2, <2>3
<1>4. feedback[i] = "none"
  BY <1>3 DEF Base, ChainTasks, IdsUsed, Old
<1>5. chain'[k] = Inserted(k, i, s) /\ \A j \in Active : j # k => chain'[j] = chain[j]
  BY <1>1, <1>3 DEF Insert, Base, TypeInv, TypeOK
<1>6. /\ chain'[k].agv = chain[k].agv /\ chain'[k].to = chain[k].to
      /\ chain'[k].id = i /\ chain'[k].answer = chain[k].answer /\ chain'[k].status = s
      /\ chain'[k].order = chain[k].order
  BY <1>1, <1>5 DEF Inserted, Chains, CarryChains, ParkChains
<1>7. /\ locked' = [locked EXCEPT ![chain[k].agv] = TRUE] /\ executing' = executing
      /\ UNCHANGED <<running, feedback, place>>
  BY <1>3 DEF Insert, Relock, Checks
<1>8. \E n : n.agv = chain[k].agv /\ n.to = chain[k].to /\ n.id = i /\ inbox' = inbox \cup {n}
  BY <1>3 DEF Insert
<1> QED  BY <1>1, <1>2, <1>3, <1>4, <1>5, <1>6, <1>7, <1>8

(* A chain that is removed; if it is over its AGV has no task. *)
LEMMA RemoveEffect ==
  ASSUME Base, NEW k \in todo, CheckOver(k) \/ CheckError(k)
  PROVE  /\ k \in Active /\ Active' = Active \ {k}
         /\ \A j \in Active' : chain'[j] = chain[j]
         /\ \A b \in Agvs : b # chain[k].agv => locked'[b] = locked[b]
         /\ \/ CheckError(k) /\ locked'[chain[k].agv]
            \/ chain[k].status = "OVER" /\ \A t \in AcsTasks : t.agv # chain[k].agv
         /\ executing' = executing /\ UNCHANGED <<park, inbox, running, feedback, place>>
<1>1. k \in Active /\ Checks(k) /\ Remove(k) /\ UNCHANGED <<park, acsVars>>
  BY DEF CheckOver, CheckError, Base, TypeInv, TodoActive
<1>2. Active' = Active \ {k}
  BY <1>1, RemoveType DEF Base
<1>3. \A j \in Active' : chain'[j] = chain[j]
  BY <1>1, <1>2 DEF Remove, Active, Base, TypeInv, TypeOK
<1>4. chain[k].agv \in Agvs
  BY <1>1, ChainFields DEF Base
<1>5. /\ \A b \in Agvs : b # chain[k].agv => locked'[b] = locked[b]
      /\ CheckError(k) => locked'[chain[k].agv]
  BY <1>4 DEF CheckOver, CheckError, Relock, Base, TypeInv, TypeOK
<1>6. CheckOver(k) => chain[k].status = "OVER" /\ \A t \in AcsTasks : t.agv # chain[k].agv
  BY <1>1, BaseTasks DEF CheckOver, Unsent
<1> QED  BY <1>1, <1>2, <1>3, <1>5, <1>6 DEF acsVars, Checks

(* A new chain, for an AGV that had none. *)
LEMMA NewEffect ==
  ASSUME Base, NEW a \in Agvs, NEW p \in Parks \cup {Away},
         \/ p \in Parks /\ SendToPark(a, p)
         \/ p = Away /\ \E e \in executing : e.agv = a /\ Dispatch(e)
  PROVE  \E k \in Ids :
           /\ Active' = Active \cup {k} /\ k \notin Active
           /\ \A j \in Active : chain'[j] = chain[j] /\ chain[j].agv # a
           /\ chain'[k].agv = a /\ chain'[k].to = p
           /\ chain'[k].status = "BEGIN" /\ chain'[k].answer = "none"
           /\ \A t \in AcsTasks : t.agv # a /\ t.id < k
           /\ UNCHANGED <<inbox, running, feedback, place>>
<1>1. PICK c : /\ c \in Chains /\ c.agv = a /\ c.to = p /\ c.status = "BEGIN" /\ c.answer = "none"
               /\ lastId' \in {lastId + 1, lastId + 2} /\ lastId' <= MaxId
               /\ c.order # NoOrder => lastId' = lastId + 2
               /\ chain' = [chain EXCEPT ![lastId + 1] = c]
               /\ todo' = todo
               /\ UNCHANGED acsVars
  <2>0. lastId \in 0 .. MaxId /\ MaxId \in Nat
    BY BoundsAssumption DEF Base, TypeInv, TypeOK
  <2>1. CASE p \in Parks /\ SendToPark(a, p)
    <3>1. PICK c : c = NewChain(a, NoOrder, p, 0)
      OBVIOUS
    <3>2. /\ c \in Chains /\ c.agv = a /\ c.to = p /\ c.status = "BEGIN" /\ c.answer = "none"
          /\ c.order = NoOrder
      BY <3>1, <2>0, <2>1, NewChainType DEF NewChain, Chains
    <3>3. /\ chain' = [chain EXCEPT ![lastId + 1] = c] /\ lastId' = lastId + 1 /\ lastId' <= MaxId
          /\ todo' = todo /\ UNCHANGED acsVars
      BY <3>1, <2>0, <2>1 DEF SendToPark, tickVars
    <3> QED  BY <3>2, <3>3
  <2>2. ASSUME p = Away, NEW e \in executing, e.agv = a, Dispatch(e)
        PROVE  \E c : /\ c \in Chains /\ c.agv = a /\ c.to = p /\ c.status = "BEGIN" /\ c.answer = "none"
                      /\ lastId' \in {lastId + 1, lastId + 2} /\ lastId' <= MaxId
                      /\ c.order # NoOrder => lastId' = lastId + 2
                      /\ chain' = [chain EXCEPT ![lastId + 1] = c]
                      /\ todo' = todo
                      /\ UNCHANGED acsVars
    <3>1. PICK c : c = NewChain(a, e.order, Away, lastId)
      OBVIOUS
    <3>2. c \in Chains /\ c.agv = a /\ c.to = p /\ c.status = "BEGIN" /\ c.answer = "none"
      BY <3>1, <2>0, <2>2, NewChainType DEF NewChain, Chains, Base, TypeInv, TypeOK
    <3>3. /\ chain' = [chain EXCEPT ![lastId + 1] = c] /\ lastId' = lastId + 2 /\ lastId' <= MaxId
          /\ todo' = todo /\ UNCHANGED acsVars
      BY <3>1, <2>0, <2>2 DEF Dispatch, IdsFor, tickVars
    <3> QED  BY <3>2, <3>3
  <2> QED  BY <2>1, <2>2
<1>2. lastId + 1 \in Ids /\ chain[lastId + 1] = Nothing /\ Active' = Active \cup {lastId + 1}
  BY <1>1, ChainAdded DEF Base
<1>3. PICK k : k = lastId + 1
  OBVIOUS
<1>4. \A j \in Active : j # k /\ j \in Ids /\ chain'[j] = chain[j]
  BY <1>1, <1>2, <1>3 DEF Active, Base, TypeInv, TypeOK
<1>5. chain'[k] = c
  BY <1>1, <1>2, <1>3 DEF Base, TypeInv, TypeOK
<1>6. \A j \in Active : chain[j].agv # a
  <2>1. CASE p \in Parks /\ SendToPark(a, p)
    BY <2>1 DEF SendToPark, SentToPark, Free, Base, DutyInv, AgvOnce, OnDuty
  <2>2. CASE \E e \in executing : e.agv = a /\ Dispatch(e)
    BY <2>2 DEF Base, DutyInv, AgvOnce
  <2> QED  BY <2>1, <2>2
<1>7. \A t \in AcsTasks : t.agv # a /\ t.id < k
  <2>1. \A t \in AcsTasks : t.agv # a
    BY BaseTasks DEF SendToPark, SentToPark, Free
  <2>2. \A t \in AcsTasks : t.id \in Nat /\ t.id <= lastId
    BY BaseTasks, TaskKinds, BoundsAssumption DEF Base, TypeInv, ChainTasks, IdsUsed, Ids
  <2>3. lastId \in Nat
    BY BoundsAssumption DEF Base, TypeInv, TypeOK
  <2> QED  BY <1>3, <2>1, <2>2, <2>3
<1> QED  BY <1>1, <1>2, <1>3, <1>4, <1>5, <1>6, <1>7 DEF acsVars
(* A chain waits for an id of its own. *)
LEMMA WaitsFor ==
  ASSUME Base, NEW k \in Active, chain[k].status \in Awaiting
  PROVE  k \in Nat /\ (chain[k].id = k \/ (chain[k].id = k + 1 /\ Carries(k) /\ k + 1 \in Ids))
<1>1. k \in Ids /\ k \in Nat
  BY ChainFields, BoundsAssumption DEF Base, Ids
<1>2. CASE chain[k].status = "EQUIP_PUT_CHECK"
  BY <1>1, <1>2, StatusKind DEF Base, ChainTasks, OwnIds
<1>3. CASE chain[k].status \in {"EQUIP_GET_CHECK", "PARKING_CHECK"}
  BY <1>1, <1>3 DEF Base, ChainTasks, OwnIds
<1> QED  BY <1>2, <1>3 DEF Awaiting

-----------------------------------------------------------------------------
LEMMA InitTrips == Init => Trips
<1> SUFFICES ASSUME Init PROVE Trips
  OBVIOUS
<1>1. Active = {} /\ AcsTasks = {}
  BY DEF Init, Active, AcsTasks
<1> QED  BY <1>1 DEF Init, Trips, TaskOwner, IdOwner, Arrived

(* Steps that give no chain and no task and move no AGV. *)
LEMMA TripsKept ==
  ASSUME Trips, AcsTasks' \subseteq AcsTasks, place' = place,
         \A k \in Active' :
           /\ k \in Active
           /\ chain'[k].agv = chain[k].agv /\ chain'[k].to = chain[k].to
           /\ chain'[k].order = chain[k].order
           /\ Brought(k)' => Brought(k)
  PROVE  Trips'
<1>1. TaskOwner'
  BY DEF Trips, TaskOwner
<1>2. IdOwner'
  BY DEF Trips, IdOwner, Carries
<1>3. Arrived'
  BY DEF Trips, Arrived
<1> QED  BY <1>1, <1>2, <1>3 DEF Trips

LEMMA TripsQuiet ==
  ASSUME Trips, UNCHANGED <<inbox, running, feedback, place, chain>>
  PROVE  Trips'
<1>1. Active' = Active /\ AcsTasks' = AcsTasks
  BY DEF Active, AcsTasks
<1>2. \A k \in Active : Brought(k)' <=> Brought(k)
  BY DEF Brought
<1> QED  BY <1>1, <1>2, TripsKept

(* The feedback and a cancel. *)
LEMMA ButtonEffect ==
  ASSUME Base, Trips, ReadFeedback \/ \E k \in Active : Cancel(k)
  PROVE  /\ Trips' /\ Active' = Active /\ AcsTasks' = AcsTasks
         /\ \A k \in Active : /\ chain'[k].agv = chain[k].agv /\ chain'[k].to = chain[k].to
                             /\ chain'[k].status \in {chain[k].status, "ABORT"}
         /\ UNCHANGED <<executing, locked, park, place>>
<1>0. \A k \in Active : k \in Ids /\ chain[k] \in Chains
  BY ChainFields DEF Base, TypeInv
<1>1. Active' = Active
  BY ButtonChains DEF Base
<1>2. /\ UNCHANGED <<executing, locked, park, place, inbox, running, feedback>>
  BY DEF ReadFeedback, Cancel, orderVars, acsVars
<1>3. \A k \in Active :
        /\ chain'[k].agv = chain[k].agv /\ chain'[k].to = chain[k].to
        /\ chain'[k].order = chain[k].order
        /\ chain'[k].status \in {chain[k].status, "ABORT"} /\ chain'[k].id = chain[k].id
  <2>1. CASE ReadFeedback
    BY <1>0, <2>1 DEF ReadFeedback, Chains, CarryChains, ParkChains
  <2>2. CASE \E k \in Active : Cancel(k)
    BY <1>0, <2>2 DEF Cancel, Chains, CarryChains, ParkChains
  <2> QED  BY <2>1, <2>2
<1>4. \A k \in Active : Brought(k)' => Brought(k)
  BY <1>2, <1>3 DEF Brought, Awaiting
<1>5. AcsTasks' = AcsTasks
  BY <1>2 DEF AcsTasks
<1>6. Trips'
  BY <1>1, <1>2, <1>3, <1>4, <1>5, TripsKept
<1> QED  BY <1>1, <1>2, <1>3, <1>5, <1>6

LEMMA TripsGoOn ==
  ASSUME Base, Trips, NEW k \in todo, CheckBegin(k) \/ Refused(k) \/ CheckAnswer(k)
  PROVE  Trips'
<1>1. k \in Active /\ Active' = Active /\ \A j \in Active : j # k => chain'[j] = chain[j]
  BY GoOnEffect DEF Base
<1>2. /\ chain'[k].agv = chain[k].agv /\ chain'[k].to = chain[k].to
      /\ chain'[k].order = chain[k].order
      /\ chain'[k].id = chain[k].id /\ chain'[k].answer = chain[k].answer
      /\ UNCHANGED <<inbox, running, feedback, place>>
  BY GoOnEffect DEF Base
<1>3. \/ chain[k].status = "BEGIN" /\ chain'[k].status \in {"EQUIP_GET", "PARKING"}
      \/ chain'[k].status = chain[k].status
      \/ /\ chain[k].status \in Awaiting /\ chain[k].answer = "DONE"
         /\ chain'[k].status \in {"EQUIP_PUT", "OVER"}
      \/ chain'[k].status \in {"ERR", "ABORT"}
  BY <1>1, GoOnEffect DEF Base
<1>4. chain[k].answer # "none" => feedback[chain[k].id] = chain[k].answer
  BY <1>1 DEF Base, ChainTasks, AnswerTrue, Fresh
<1>5. Brought(k)' => Brought(k)
  BY <1>2, <1>3, <1>4 DEF Brought, Awaiting
<1>6. \A j \in Active : j # k => (Brought(j)' <=> Brought(j))
  BY <1>1, <1>2 DEF Brought
<1>7. AcsTasks' = AcsTasks
  BY <1>2 DEF AcsTasks
<1> QED  BY <1>1, <1>2, <1>5, <1>6, <1>7, TripsKept

LEMMA TripsInsert ==
  ASSUME Base, Trips, NEW k \in todo, SendGet(k) \/ SendPut(k) \/ SendPark(k)
  PROVE  Trips'
<1>1. k \in Active /\ Active' = Active /\ \A j \in Active : j # k => chain'[j] = chain[j]
  BY InsertEffect
<1>2. /\ chain'[k].agv = chain[k].agv /\ chain'[k].to = chain[k].to
      /\ chain'[k].order = chain[k].order
      /\ (chain'[k].id = k \/ (Carries(k) /\ chain'[k].id = k + 1))
      /\ chain'[k].status \in Awaiting /\ feedback[chain'[k].id] = "none"
      /\ UNCHANGED <<running, feedback, place>>
  BY InsertEffect
<1>3. PICK n : /\ n.agv = chain[k].agv /\ n.to = chain[k].to /\ n.id = chain'[k].id
               /\ inbox' = inbox \cup {n}
  BY InsertEffect
<1>4. AcsTasks' = AcsTasks \cup {n}
  BY <1>2, <1>3 DEF AcsTasks
<1>5. \A j \in Active : chain'[j].agv = chain[j].agv /\ chain'[j].to = chain[j].to /\ (Carries(j)' <=> Carries(j))
  BY <1>1, <1>2 DEF Carries
<1>6. TaskOwner'
  BY <1>1, <1>3, <1>4, <1>5 DEF Trips, TaskOwner, Base, DutyInv, AgvOnce
<1>7. IdOwner'
  <2>1. \A j \in Active : j # k => ~(n.id = j \/ (Carries(j) /\ n.id = j + 1))
    <3>1. k \in Nat /\ \A j \in Active : j \in Nat
      BY <1>1, ChainFields, BoundsAssumption DEF Base, Ids
    <3> QED  BY <1>1, <1>2, <1>3, <3>1 DEF Base, ChainTasks, KeysApart
  <2> QED  BY <1>1, <1>3, <1>4, <1>5, <2>1 DEF Trips, IdOwner
<1>8. Arrived'
  <2>1. \A j \in Active : j # k => (Brought(j)' <=> Brought(j))
    BY <1>1, <1>2 DEF Brought
  <2>2. ~Brought(k)'
    BY <1>2 DEF Brought, Awaiting
  <2> QED  BY <1>1, <1>2, <2>1, <2>2 DEF Trips, Arrived
<1> QED  BY <1>6, <1>7, <1>8 DEF Trips

LEMMA TripsRemove ==
  ASSUME Base, Trips, NEW k \in todo, CheckOver(k) \/ CheckError(k)
  PROVE  Trips'
<1>1. /\ Active' = Active \ {k} /\ \A j \in Active' : chain'[j] = chain[j]
      /\ UNCHANGED <<inbox, running, feedback, place>>
  BY RemoveEffect
<1>2. AcsTasks' = AcsTasks
  BY <1>1 DEF AcsTasks
<1>3. \A j \in Active' : Brought(j)' <=> Brought(j)
  BY <1>1 DEF Brought
<1> QED  BY <1>1, <1>2, <1>3, TripsKept

LEMMA TripsNew ==
  ASSUME Base, Trips, NEW a \in Agvs, NEW p \in Parks \cup {Away},
         \/ p \in Parks /\ SendToPark(a, p)
         \/ p = Away /\ \E e \in executing : e.agv = a /\ Dispatch(e)
  PROVE  Trips'
<1>1. PICK k \in Ids :
        /\ Active' = Active \cup {k} /\ k \notin Active
        /\ \A j \in Active : chain'[j] = chain[j] /\ chain[j].agv # a
        /\ chain'[k].agv = a /\ chain'[k].to = p
        /\ chain'[k].status = "BEGIN" /\ chain'[k].answer = "none"
        /\ \A t \in AcsTasks : t.agv # a /\ t.id < k
        /\ UNCHANGED <<inbox, running, feedback, place>>
  BY NewEffect
<1>2. AcsTasks' = AcsTasks
  BY <1>1 DEF AcsTasks
<1>3. TaskOwner'
  BY <1>1, <1>2 DEF Trips, TaskOwner
<1>4. IdOwner'
  <2>1. k \in Nat /\ \A t \in AcsTasks : t.id \in Nat
    BY TaskKinds, BoundsAssumption DEF Ids, Base, TypeInv
  <2>2. \A t \in AcsTasks : t.id # k /\ t.id # k + 1
    BY <1>1, <2>1
  <2> QED  BY <1>1, <1>2, <2>2 DEF Trips, IdOwner, Carries
<1>5. Arrived'
  <2>1. ~Brought(k)'
    BY <1>1 DEF Brought, Awaiting
  <2>2. \A j \in Active : Brought(j)' <=> Brought(j)
    BY <1>1 DEF Brought
  <2> QED  BY <1>1, <2>1, <2>2 DEF Trips, Arrived
<1> QED  BY <1>3, <1>4, <1>5 DEF Trips

LEMMA TripsAccept ==
  ASSUME Base, Trips, NEW t \in inbox, Accept(t)
  PROVE  Trips' /\ AcsTasks' = AcsTasks
<1>1. /\ chain' = chain /\ Active' = Active /\ feedback' = feedback
      /\ t \in AcsTasks /\ t.agv \in Agvs /\ running[t.agv] = Nothing /\ t # Nothing
  BY TaskKinds DEF Accept, wcsVars, Active, AcsTasks, Base, TypeInv
<1>2. /\ place'[t.agv] = Away /\ \A b \in Agvs : b # t.agv => place'[b] = place[b]
      /\ running'[t.agv] = t /\ \A b \in Agvs : b # t.agv => running'[b] = running[b]
  BY <1>1 DEF Accept, Base, TypeInv, TypeOK
<1>3. AcsTasks' = AcsTasks
  BY <1>1, <1>2 DEF AcsTasks, Accept
<1>4. TaskOwner' /\ IdOwner'
  BY <1>1, <1>3 DEF Trips, TaskOwner, IdOwner, Carries
<1>5. Arrived'
  <2>1. \A k \in Active : Brought(k)' <=> Brought(k)
    BY <1>1 DEF Brought
  <2>2. \A k \in Active : chain[k].agv = t.agv => ~Brought(k)
    BY <1>1, BaseTasks DEF Unsent, Brought
  <2> QED  BY <1>1, <1>2, <2>1, <2>2, ChainFields DEF Trips, Arrived, Base
<1> QED  BY <1>3, <1>4, <1>5 DEF Trips

LEMMA TripsFinish ==
  ASSUME Base, Trips, NEW a \in Agvs, Finish(a)
  PROVE  Trips' /\ AcsTasks' \subseteq AcsTasks
<1>1. PICK t \in AcsTasks : t = running[a] /\ t # Nothing /\ t.agv = a /\ t.id \in Ids
  BY TaskKinds DEF Finish, AcsTasks, Base, TypeInv, ChainTasks, TasksShape
<1>2. /\ chain' = chain /\ Active' = Active /\ inbox' = inbox
      /\ place'[a] = t.to /\ \A b \in Agvs : b # a => place'[b] = place[b]
      /\ running'[a] = Nothing /\ \A b \in Agvs : b # a => running'[b] = running[b]
      /\ feedback'[t.id] = "DONE" /\ \A i \in Ids : i # t.id => feedback'[i] = feedback[i]
  BY <1>1 DEF Finish, wcsVars, Active, Base, TypeInv, TypeOK
<1>3. AcsTasks' \subseteq AcsTasks
  BY <1>2 DEF AcsTasks
<1>4. TaskOwner' /\ IdOwner'
  BY <1>2, <1>3 DEF Trips, TaskOwner, IdOwner, Carries
<1>5. Arrived'
  <2> SUFFICES ASSUME NEW j \in Active, Brought(j)'
               PROVE  place'[chain[j].agv] = chain[j].to
    BY <1>2 DEF Arrived
  <2>1. CASE chain[j].agv = a
    BY <2>1, <1>1, <1>2 DEF Trips, TaskOwner
  <2>2. CASE chain[j].agv # a
    <3>1. chain[j].status \in Awaiting => chain[j].id # t.id
      BY <2>2, <1>1, WaitsFor DEF Trips, IdOwner
    <3>2. chain[j].status \in Awaiting => chain[j].id \in Ids
      BY WaitsFor, ChainFields DEF Base
    <3>3. Brought(j)
      BY <3>1, <3>2, <1>2 DEF Brought
    <3> QED  BY <2>2, <3>3, <1>2, ChainFields DEF Trips, Arrived, Base
  <2> QED  BY <2>1, <2>2
<1> QED  BY <1>3, <1>4, <1>5 DEF Trips

(* A task that fails or is aborted, or an abort row that finds none. *)
LEMMA TripsFail ==
  ASSUME Base, Trips,
         \/ \E t \in AcsTasks, answer \in {"FAILED", "ABORTED"} : Fail(t, answer)
         \/ \E i \in aborts : ReadAbort(i)
  PROVE  Trips' /\ AcsTasks' \subseteq AcsTasks /\ UNCHANGED <<chain, executing, locked, park, place>>
<1>1. UNCHANGED <<chain, executing, locked, park, place>>
  BY DEF Fail, ReadAbort, wcsVars
<1>2. Active' = Active
  BY <1>1 DEF Active
<1>3. AcsTasks' \subseteq AcsTasks /\ \A i \in Ids : feedback'[i] \in {feedback[i], "FAILED", "ABORTED"}
  <2>1. ASSUME NEW t \in AcsTasks, NEW answer \in {"FAILED", "ABORTED"}, EndTask(t, answer)
        PROVE  AcsTasks' \subseteq AcsTasks /\ \A i \in Ids : feedback'[i] \in {feedback[i], answer}
    <3>1. t.agv \in Agvs /\ t.id \in Ids
      BY TaskKinds DEF Base, TypeInv
    <3>2. inbox' \subseteq inbox /\ \A b \in Agvs : running'[b] \in {running[b], Nothing}
      BY <2>1, <3>1 DEF EndTask, Base, TypeInv, TypeOK
    <3>3. \A i \in Ids : feedback'[i] \in {feedback[i], answer}
      BY <2>1, <3>1 DEF EndTask, Base, TypeInv, TypeOK
    <3> QED  BY <3>2, <3>3 DEF AcsTasks
  <2>2. CASE UNCHANGED <<inbox, running, feedback>>
    BY <2>2 DEF AcsTasks
  <2> QED  BY <2>1, <2>2 DEF Fail, ReadAbort
<1>4. \A k \in Active : Brought(k)' => Brought(k)
  <2>1. \A k \in Active : chain[k].status \in Awaiting => chain[k].id \in Ids
    BY WaitsFor, ChainFields DEF Base
  <2> QED  BY <1>1, <1>3, <2>1 DEF Brought
<1> QED  BY <1>1, <1>2, <1>3, <1>4, TripsKept
-----------------------------------------------------------------------------
(* Who stands where, and who is sent there. *)
PlacesApart == \A a, b \in Agvs : a # b /\ place[a] = place[b] => place[a] = Away
SentApart == \A a, b \in Agvs, p \in Parks : SentTo(a, p) /\ SentTo(b, p) => a = b
SentBusy == \A a \in Agvs, p \in Parks : SentTo(a, p) => park[p] = "BUSY"
PlaceBusy == \A a \in Agvs, p \in Parks : place[a] = p => park[p] = "BUSY" \/ ~Stays(a)
NoneInTheWay == \A a, b \in Agvs, p \in Parks : SentTo(a, p) /\ place[b] = p => ~Stays(b)

Places == PlacesApart /\ SentApart /\ SentBusy /\ PlaceBusy /\ NoneInTheWay

LEMMA InitPlaces == Init => Places
<1> SUFFICES ASSUME Init PROVE Places
  OBVIOUS
<1>1. Active = {} /\ AcsTasks = {}
  BY DEF Init, Active, AcsTasks
<1>2. PlacesApart /\ PlaceBusy
  BY DEF Init, PlacesApart, PlaceBusy
<1> QED  BY <1>1, <1>2 DEF Places, SentApart, SentBusy, NoneInTheWay, SentTo, HasPlanned

(* Chains that keep their AGVs and goals, or end. *)
LEMMA SentKept ==
  ASSUME AcsTasks' \subseteq AcsTasks,
         \A k \in Active' :
           k \in Active /\ chain'[k].agv = chain[k].agv /\ chain'[k].to = chain[k].to
  PROVE  \A a, p : SentTo(a, p)' => SentTo(a, p)
BY DEF SentTo, HasPlanned

Early == {"BEGIN", "EQUIP_GET", "PARKING"}
LEMMA StaysKept ==
  ASSUME executing' = executing, \A a \in Agvs : locked[a] => locked'[a],
         \A k \in Active' :
           /\ k \in Active /\ chain'[k].agv = chain[k].agv
           /\ chain'[k].status \in Early => chain[k].status \in Early
  PROVE  \A a \in Agvs : Stays(a)' => Stays(a)
BY DEF Stays, Early

LEMMA PlacesKept ==
  ASSUME Places, place' = place,
         \A a, p : SentTo(a, p)' => SentTo(a, p),
         \A a \in Agvs : Stays(a)' => Stays(a),
         \A p \in Parks : park[p] = "BUSY" => park'[p] = "BUSY"
  PROVE  Places'
<1>1. PlacesApart' /\ SentApart'
  BY DEF Places, PlacesApart, SentApart
<1>2. SentBusy' /\ PlaceBusy' /\ NoneInTheWay'
  BY DEF Places, SentBusy, PlaceBusy, NoneInTheWay
<1> QED  BY <1>1, <1>2 DEF Places

LEMMA PlacesGoOn ==
  ASSUME Base, Places, NEW k \in todo, CheckBegin(k) \/ Refused(k) \/ CheckAnswer(k)
  PROVE  Places'
<1>1. /\ k \in Active /\ Active' = Active /\ \A j \in Active : j # k => chain'[j] = chain[j]
      /\ chain'[k].agv = chain[k].agv /\ chain'[k].to = chain[k].to
      /\ locked' = [locked EXCEPT ![chain[k].agv] = TRUE] /\ executing' = executing
      /\ UNCHANGED <<park, place, inbox, running>>
  BY GoOnEffect DEF Base
<1>2. chain'[k].status \in Early => chain[k].status \in Early
  BY GoOnEffect DEF Base, Early
<1>3. AcsTasks' = AcsTasks
  BY <1>1 DEF AcsTasks
<1>4. \A a \in Agvs : locked[a] => locked'[a]
  BY <1>1 DEF Base, TypeInv, TypeOK
<1>5. \A a \in Agvs : Stays(a)' => Stays(a)
  BY <1>1, <1>2, <1>4, StaysKept
<1>6. \A a, p : SentTo(a, p)' => SentTo(a, p)
  BY <1>1, <1>3, SentKept
<1> QED  BY <1>1, <1>5, <1>6, PlacesKept

(* An AGV that gets its first task frees the station where it stands: nobody was sent there. *)
LEMMA PlacesInsert ==
  ASSUME Base, Places, NEW k \in todo, SendGet(k) \/ SendPut(k) \/ SendPark(k)
  PROVE  Places'
<1>0. PICK a : a = chain[k].agv
  OBVIOUS
<1>1. /\ k \in Active /\ Active' = Active /\ \A j \in Active : j # k => chain'[j] = chain[j]
      /\ chain'[k].agv = a /\ chain'[k].to = chain[k].to /\ chain'[k].status \in Awaiting
      /\ place' = place /\ running' = running
      /\ locked' = [locked EXCEPT ![a] = TRUE] /\ executing' = executing
      /\ \/ chain[k].status = "EQUIP_PUT" /\ park' = park
         \/ chain[k].status \in {"EQUIP_GET", "PARKING"} /\ Release(a)
  BY <1>0, InsertEffect
<1>2. a \in Agvs
  BY <1>0, <1>1, ChainFields DEF Base
<1>3. /\ \A j \in Active : chain[j].agv = a => j = k
      /\ \A e \in executing : e.agv # a
  BY <1>0, <1>1 DEF Base, DutyInv, AgvOnce
<1>4. ~Stays(a)'
  <2>1. locked'[a]
    BY <1>1, <1>2 DEF Base, TypeInv, TypeOK
  <2> QED  BY <1>1, <1>3, <2>1 DEF Stays, Awaiting
<1>5. \A b \in Agvs : Stays(b)' => Stays(b)
  <2>1. \A b \in Agvs : locked[b] => locked'[b]
    BY <1>1 DEF Base, TypeInv, TypeOK
  <2> QED  BY <1>0, <1>1, <2>1, StaysKept DEF Early, Awaiting
<1>6. \A b, p : SentTo(b, p)' => SentTo(b, p)
  <2>1. PICK n : n.agv = a /\ n.to = chain[k].to /\ inbox' = inbox \cup {n}
    BY <1>0, InsertEffect
  <2>2. AcsTasks' = AcsTasks \cup {n}
    BY <1>1, <2>1 DEF AcsTasks
  <2>3. \A b, p : HasPlanned(b, p)' <=> HasPlanned(b, p)
    BY <1>0, <1>1 DEF HasPlanned
  <2>4. \A p : n.to = p => HasPlanned(a, p)
    BY <1>0, <1>1, <2>1 DEF HasPlanned
  <2> QED  BY <2>1, <2>2, <2>3, <2>4 DEF SentTo
<1>7. CASE park' = park
  BY <1>1, <1>5, <1>6, <1>7, PlacesKept
<1>8. CASE chain[k].status \in {"EQUIP_GET", "PARKING"} /\ Release(a)
  <2>1. Stays(a)
    BY <1>0, <1>1, <1>8 DEF Stays
  <2>2. \A b \in Agvs, p \in Parks : SentTo(b, p) => place[a] # p
    BY <2>1, <1>2 DEF Places, NoneInTheWay
  <2>3. \A p \in Parks : p # place[a] => park'[p] = park[p]
    BY <1>8 DEF Release, Base, TypeInv, TypeOK
  <2>4. PlacesApart' /\ SentApart' /\ NoneInTheWay'
    BY <1>1, <1>5, <1>6 DEF Places, PlacesApart, SentApart, NoneInTheWay
  <2>5. SentBusy'
    BY <1>6, <2>2, <2>3 DEF Places, SentBusy
  <2>6. PlaceBusy'
    <3> SUFFICES ASSUME NEW b \in Agvs, NEW p \in Parks, place[b] = p
                 PROVE  park'[p] = "BUSY" \/ ~Stays(b)'
      BY <1>1 DEF PlaceBusy
    <3>1. CASE b = a
      BY <3>1, <1>4
    <3>2. CASE b # a
      <4>1. place[a] # p
        BY <3>2, <1>2, ParksAssumption DEF Places, PlacesApart
      <4> QED  BY <4>1, <1>5, <2>3 DEF Places, PlaceBusy
    <3> QED  BY <3>1, <3>2
  <2> QED  BY <2>4, <2>5, <2>6 DEF Places
<1> QED  BY <1>1, <1>7, <1>8

(* An AGV whose chain failed is stranded; one whose chain is over stands at its station, still BUSY. *)
LEMMA PlacesRemove ==
  ASSUME Base, Trips, Places, NEW k \in todo, CheckOver(k) \/ CheckError(k)
  PROVE  Places'
<1>0. PICK a : a = chain[k].agv
  OBVIOUS
<1>1. /\ k \in Active /\ Active' = Active \ {k}
      /\ \A j \in Active' : chain'[j] = chain[j]
      /\ \A b \in Agvs : b # a => locked'[b] = locked[b]
      /\ locked'[a] \/ (chain[k].status = "OVER" /\ \A t \in AcsTasks : t.agv # a)
      /\ executing' = executing /\ UNCHANGED <<park, inbox, running, place>>
  BY <1>0, RemoveEffect
<1>2. a \in Agvs
  BY <1>0, <1>1, ChainFields DEF Base
<1>3. AcsTasks' = AcsTasks
  BY <1>1 DEF AcsTasks
<1>4. \A b, p : SentTo(b, p)' => SentTo(b, p)
  BY <1>1, <1>3, SentKept
<1>5. CASE locked'[a]
  <2>1. \A b \in Agvs : locked[b] => locked'[b]
    BY <1>1, <1>5
  <2>2. \A b \in Agvs : Stays(b)' => Stays(b)
    BY <1>1, <2>1, StaysKept
  <2> QED  BY <1>1, <1>4, <2>2, PlacesKept
<1>6. CASE chain[k].status = "OVER" /\ \A t \in AcsTasks : t.agv # a
  <2>1. place[a] = chain[k].to
    BY <1>0, <1>1, <1>6 DEF Trips, Arrived, Brought
  <2>2. \A b \in Agvs : b # a => (Stays(b)' => Stays(b))
    BY <1>1 DEF Stays
  <2>3. \A p : place[a] = p => SentTo(a, p) /\ ~SentTo(a, p)'
    <3>1. \A j \in Active' : chain[j].agv # a
      BY <1>0, <1>1 DEF Base, DutyInv, AgvOnce
    <3> QED  BY <1>0, <1>1, <1>3, <1>6, <2>1, <3>1 DEF SentTo, HasPlanned
  <2>4. PlacesApart' /\ SentApart' /\ SentBusy'
    BY <1>1, <1>4 DEF Places, PlacesApart, SentApart, SentBusy
  <2>5. PlaceBusy'
    BY <1>1, <1>2, <2>2, <2>3 DEF Places, PlaceBusy, SentBusy
  <2>6. NoneInTheWay'
    <3> SUFFICES ASSUME NEW c \in Agvs, NEW b \in Agvs, NEW p \in Parks, SentTo(c, p)', place[b] = p
                 PROVE  ~Stays(b)'
      BY <1>1 DEF NoneInTheWay
    <3>1. b # a
      BY <1>2, <1>4, <2>3 DEF Places, SentApart
    <3> QED  BY <3>1, <1>4, <2>2 DEF Places, NoneInTheWay
  <2> QED  BY <2>4, <2>5, <2>6 DEF Places
<1> QED  BY <1>1, <1>5, <1>6

(* An AGV without a chain is sent to a station that is IDLE, or carries. *)
LEMMA PlacesNew ==
  ASSUME Base, Places, NEW a \in Agvs, NEW p \in Parks \cup {Away},
         \/ p \in Parks /\ SendToPark(a, p)
         \/ p = Away /\ \E e \in executing : e.agv = a /\ Dispatch(e)
  PROVE  Places'
<1>1. PICK k \in Ids :
        /\ Active' = Active \cup {k} /\ k \notin Active
        /\ \A j \in Active : chain'[j] = chain[j] /\ chain[j].agv # a
        /\ chain'[k].agv = a /\ chain'[k].to = p
        /\ chain'[k].status = "BEGIN" /\ chain'[k].answer = "none"
        /\ \A t \in AcsTasks : t.agv # a /\ t.id < k
        /\ UNCHANGED <<inbox, running, feedback, place>>
  BY NewEffect
<1>2. AcsTasks' = AcsTasks
  BY <1>1 DEF AcsTasks
<1>3. \A b \in Agvs : Stays(b)' => Stays(b)
  <2>1. executing' \subseteq executing /\ \A b \in Agvs : b # a => locked'[b] = locked[b]
    BY DEF SendToPark, Dispatch, Base, TypeInv, TypeOK
  <2>2. Stays(a)
    BY DEF SendToPark, SentToPark, Free, Stays
  <2>3. \A b \in Agvs : b # a => (Stays(b)' => Stays(b))
    BY <1>1, <2>1 DEF Stays
  <2> QED  BY <2>2, <2>3
<1>4. \A b, q : SentTo(b, q)' <=> SentTo(b, q) \/ (b = a /\ q = p)
  BY <1>1, <1>2 DEF SentTo, HasPlanned
<1>5. CASE p = Away /\ \E e \in executing : e.agv = a /\ Dispatch(e)
  <2>1. park' = park
    BY <1>5 DEF Dispatch
  <2>2. \A b \in Agvs, q \in Parks : SentTo(b, q)' <=> SentTo(b, q)
    BY <1>4, <1>5, ParksAssumption
  <2>3. PlacesApart' /\ PlaceBusy'
    BY <1>1, <1>3, <2>1 DEF Places, PlacesApart, PlaceBusy
  <2>4. SentApart' /\ SentBusy' /\ NoneInTheWay'
    BY <1>1, <1>3, <2>1, <2>2 DEF Places, SentApart, SentBusy, NoneInTheWay
  <2> QED  BY <2>3, <2>4 DEF Places
<1>6. CASE p \in Parks /\ SendToPark(a, p)
  <2>1. park[p] = "IDLE" /\ park'[p] = "BUSY" /\ \A q \in Parks : q # p => park'[q] = park[q]
    BY <1>6 DEF SendToPark, Offered, IdleParks, Base, TypeInv, TypeOK
  <2>2. \A b \in Agvs : ~SentTo(b, p)
    BY <1>6, <2>1 DEF Places, SentBusy
  <2>3. PlacesApart' /\ PlaceBusy'
    BY <1>1, <1>3, <2>1 DEF Places, PlacesApart, PlaceBusy
  <2>4. SentApart' /\ SentBusy'
    BY <1>4, <2>1, <2>2 DEF Places, SentApart, SentBusy
  <2>5. NoneInTheWay'
    <3> SUFFICES ASSUME NEW c \in Agvs, NEW b \in Agvs, NEW q \in Parks, SentTo(c, q)', place[b] = q
                 PROVE  ~Stays(b)'
      BY <1>1 DEF NoneInTheWay
    <3>1. CASE q = p
      BY <3>1, <1>3, <2>1 DEF Places, PlaceBusy
    <3>2. CASE q # p
      BY <3>2, <1>3, <1>4 DEF Places, NoneInTheWay
    <3> QED  BY <3>1, <3>2
  <2> QED  BY <2>3, <2>4, <2>5 DEF Places
<1> QED  BY <1>5, <1>6

(* An AGV drives off. *)
LEMMA PlacesAccept ==
  ASSUME Base, Trips, Places, NEW t \in inbox, Accept(t)
  PROVE  Places'
<1>1. /\ chain' = chain /\ Active' = Active /\ park' = park /\ t.agv \in Agvs
      /\ executing' = executing /\ locked' = locked
  BY TaskKinds DEF Accept, wcsVars, Active, Base, TypeInv
<1>2. place'[t.agv] = Away /\ \A b \in Agvs : b # t.agv => place'[b] = place[b]
  BY <1>1 DEF Accept, Base, TypeInv, TypeOK
<1>3. AcsTasks' = AcsTasks
  BY TripsAccept
<1>4. /\ \A b, p : SentTo(b, p)' <=> SentTo(b, p)
      /\ \A b : Stays(b)' <=> Stays(b)
  BY <1>1, <1>3 DEF SentTo, HasPlanned, Stays
<1>5. PlacesApart' /\ SentApart' /\ SentBusy'
  BY <1>1, <1>2, <1>4 DEF Places, PlacesApart, SentApart, SentBusy
<1>6. PlaceBusy' /\ NoneInTheWay'
  BY <1>1, <1>2, <1>4, ParksAssumption DEF Places, PlaceBusy, NoneInTheWay
<1> QED  BY <1>5, <1>6 DEF Places

(* An AGV comes to where it was sent, its chain waiting or gone. *)
LEMMA PlacesFinish ==
  ASSUME Base, Trips, Places, NEW a \in Agvs, Finish(a)
  PROVE  Places'
<1>1. PICK t \in AcsTasks : t = running[a] /\ t.agv = a
  BY DEF Finish, AcsTasks, Base, ChainTasks, TasksShape
<1>2. /\ chain' = chain /\ Active' = Active /\ park' = park
      /\ executing' = executing /\ locked' = locked
      /\ place'[a] = t.to /\ \A b \in Agvs : b # a => place'[b] = place[b]
      /\ t.to # Away => \A b \in Agvs \ {a} : place[b] # t.to
  BY <1>1 DEF Finish, wcsVars, Active, Base, TypeInv, TypeOK
<1>3. AcsTasks' \subseteq AcsTasks
  BY TripsFinish
<1>4. /\ \A b, p : SentTo(b, p)' => SentTo(b, p)
      /\ \A b : Stays(b)' <=> Stays(b)
  BY <1>2, <1>3 DEF SentTo, HasPlanned, Stays
<1>5. ~Stays(a)
  BY <1>1, BaseTasks DEF Stays, Unsent
<1>6. \A p \in Parks : t.to = p => SentTo(a, p)
  BY <1>1 DEF SentTo
<1>7. PlacesApart' /\ SentApart' /\ SentBusy'
  BY <1>2, <1>4 DEF Places, PlacesApart, SentApart, SentBusy
<1>8. PlaceBusy' /\ NoneInTheWay'
  BY <1>2, <1>4, <1>5, <1>6 DEF Places, PlaceBusy, NoneInTheWay
<1> QED  BY <1>7, <1>8 DEF Places
-----------------------------------------------------------------------------
LEMMA TripsAndPlacesQuiet ==
  ASSUME Trips, Places, UNCHANGED <<chain, inbox, running, feedback, place>>,
         \A a \in Agvs : Stays(a)' => Stays(a),
         \A p \in Parks : park[p] = "BUSY" => park'[p] = "BUSY"
  PROVE  Trips' /\ Places'
<1>1. Active' = Active /\ AcsTasks' = AcsTasks
  BY DEF Active, AcsTasks
<1>2. \A a, p : SentTo(a, p)' => SentTo(a, p)
  BY <1>1, SentKept
<1> QED  BY <1>2, TripsQuiet, PlacesKept

(* The phases of a tick, taking an order, and asking for one again. *)
LEMMA StationQuiet ==
  ASSUME Base, Trips, Places,
         \/ BeginTick \/ EndFetch \/ EndDispatch \/ EndCheck \/ UNCHANGED vars
         \/ \E a \in Agvs, o \in Orders : TakeOrder(a, o)
         \/ \E o \in Orders : Redo(o)
  PROVE  Trips' /\ Places'
<1>1. CASE BeginTick
  <2>1. /\ UNCHANGED <<chain, executing, inbox, running, feedback, place>>
        /\ \A p \in Parks : park[p] = "BUSY" => park'[p] = "BUSY"
        /\ \A a \in Agvs : locked[a] => locked'[a]
    BY <1>1 DEF BeginTick, acsVars, Base, TypeInv, TypeOK
  <2>2. Active' = Active
    BY <2>1 DEF Active
  <2>3. \A a \in Agvs : Stays(a)' => Stays(a)
    BY <2>1, <2>2, StaysKept
  <2> QED  BY <2>1, <2>3, TripsAndPlacesQuiet
<1>2. ASSUME NEW a \in Agvs, NEW o \in Orders, TakeOrder(a, o)
      PROVE  Trips' /\ Places'
  <2>1. /\ UNCHANGED <<chain, park, inbox, running, feedback, place>> /\ ~locked[a]
        /\ executing' = executing \cup {[agv |-> a, order |-> o]}
        /\ \A b \in Agvs : locked[b] => locked'[b]
    BY <1>2 DEF TakeOrder, Free, Base, TypeInv, TypeOK
  <2>2. Active' = Active
    BY <2>1 DEF Active
  <2>3. Stays(a) /\ \A b \in Agvs : b # a => (Stays(b)' => Stays(b))
    BY <2>1, <2>2 DEF Stays
  <2> QED  BY <2>1, <2>3, TripsAndPlacesQuiet
<1>3. CASE EndFetch \/ EndDispatch \/ EndCheck \/ UNCHANGED vars \/ \E o \in Orders : Redo(o)
  <2>1. UNCHANGED <<chain, executing, locked, park, inbox, running, feedback, place>>
    BY <1>3 DEF EndFetch, EndDispatch, EndCheck, vars, Redo, wcsVars, acsVars
  <2>2. Active' = Active
    BY <2>1 DEF Active
  <2>3. \A a \in Agvs : Stays(a)' => Stays(a)
    BY <2>1, <2>2, StaysKept
  <2> QED  BY <2>1, <2>3, TripsAndPlacesQuiet
<1> QED  BY <1>1, <1>2, <1>3

LEMMA StationStep ==
  ASSUME "unlock" \notin Operator, Base, Trips, Places, [ChainsNext]_vars, ~Restart
  PROVE  Trips' /\ Places'
<1>1. ASSUME ReadFeedback \/ \E k \in Active : Cancel(k)
      PROVE  Trips' /\ Places'
  <2>1. /\ Trips' /\ Active' = Active /\ AcsTasks' = AcsTasks
        /\ \A k \in Active : /\ chain'[k].agv = chain[k].agv /\ chain'[k].to = chain[k].to
                            /\ chain'[k].status \in {chain[k].status, "ABORT"}
        /\ UNCHANGED <<executing, locked, park, place>>
    BY <1>1, ButtonEffect
  <2>2. \A a, p : SentTo(a, p)' => SentTo(a, p)
    BY <2>1, SentKept
  <2>3. \A a \in Agvs : Stays(a)' => Stays(a)
    BY <2>1, StaysKept DEF Early
  <2> QED  BY <2>1, <2>2, <2>3, PlacesKept
<1>2. ASSUME NEW a \in Agvs, NEW p \in Parks, SendToPark(a, p)
      PROVE  Trips' /\ Places'
  BY <1>2, TripsNew, PlacesNew
<1>3. ASSUME NEW e \in executing, Dispatch(e)
      PROVE  Trips' /\ Places'
  <2>1. e.agv \in Agvs
    BY DEF Base, TypeInv, TypeOK
  <2> QED  BY <1>3, <2>1, TripsNew, PlacesNew
<1>4. ASSUME NEW k \in todo, Check(k)
      PROVE  Trips' /\ Places'
  BY <1>4, TripsGoOn, PlacesGoOn, TripsInsert, PlacesInsert, TripsRemove, PlacesRemove DEF Check
<1>5. ASSUME \/ \E t \in AcsTasks, answer \in {"FAILED", "ABORTED"} : Fail(t, answer)
             \/ \E i \in aborts : ReadAbort(i)
      PROVE  Trips' /\ Places'
  <2>1. Trips' /\ AcsTasks' \subseteq AcsTasks /\ UNCHANGED <<chain, executing, locked, park, place>>
    BY <1>5, TripsFail
  <2>2. Active' = Active
    BY <2>1 DEF Active
  <2>3. \A a, p : SentTo(a, p)' => SentTo(a, p)
    BY <2>1, <2>2, SentKept
  <2>4. \A a \in Agvs : Stays(a)' => Stays(a)
    BY <2>1, <2>2, StaysKept
  <2> QED  BY <2>1, <2>3, <2>4, PlacesKept
<1>6. CASE Acs
  BY <1>5, <1>6, TripsAccept, PlacesAccept, TripsFinish, PlacesFinish DEF Acs
<1>7. CASE Buttons
  BY <1>1, <1>7, StationQuiet DEF Buttons, Unlock
<1> QED
  BY <1>1, <1>2, <1>3, <1>4, <1>6, <1>7, StationQuiet DEF ChainsNext, Tick

StationInv == restarts = 0 => Trips /\ Places

(***************************************************************************)
(* Whatever the ACS refuses, fails or aborts and the operator cancels, no  *)
(* two AGVs are sent to one station, and none to where another stands that *)
(* is neither about to leave nor stranded, for any AGVs and stations and   *)
(* whichever of them the code gives back.  An operator who unlocks an AGV  *)
(* puts it where he likes, and a restart forgets where the ACS still       *)
(* drives one: the theorem excludes the first, the property the second.    *)
(***************************************************************************)
THEOREM StationsAlwaysApart == "unlock" \notin Operator => (Spec => []StationsApart)
<1> SUFFICES ASSUME "unlock" \notin Operator PROVE Spec => []StationsApart
  OBVIOUS
<1>1. Init => StationInv
  BY InitTrips, InitPlaces DEF StationInv
<1>2. TypeInv /\ DutyInv /\ CarryInv /\ StationInv /\ [ChainsNext]_vars => StationInv'
  <2> SUFFICES ASSUME TypeInv, DutyInv, CarryInv, StationInv, [ChainsNext]_vars, restarts' = 0
               PROVE  Trips' /\ Places'
    BY DEF StationInv
  <2>1. restarts \in Nat
    BY BoundsAssumption DEF TypeInv, TypeOK
  <2>2. ~Restart
    BY <2>1 DEF Restart
  <2>3. restarts = 0
    BY <2>2 DEF ChainsNext, Tick, Buttons, Acs, BeginTick, TakeOrder, SendToPark, EndFetch, Dispatch,
                EndDispatch, Check, CheckBegin, SendGet, SendPut, SendPark, Refused, CheckAnswer,
                CheckOver, CheckError, GoOn, Insert, Checks, EndCheck, ReadFeedback, Cancel, Unlock,
                Redo, Accept, Finish, Fail, ReadAbort, vars
  <2>4. Base /\ Trips /\ Places
    BY <2>3 DEF Base, CarryInv, StationInv
  <2> QED  BY <2>2, <2>4, StationStep
<1>3. StationInv => StationsApart
  BY DEF StationInv, Places, SentApart, NoneInTheWay, StationsApart
<1> QED
  BY <1>1, <1>2, <1>3, InitTypeInv, TypeStep, InitDutyInv, DutyStep, InitCarryInv, CarryStep, PTL DEF Spec
=============================================================================
