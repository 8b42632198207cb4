# A verification of the WCS that charges and dispatches AGVs

The program is a warehouse control system (WCS) for forklift AGVs. It takes
orders, gives each to an AGV as a chain of sub-tasks that another system (the
ACS) executes, keeps AGVs apart in areas, and sends idle AGVs to charging piles
it operates itself over TCP. This directory holds TLA+ modules that model it,
TLC configurations that check them, and theorems that TLAPS proves.

## The system

Threads: the Qt main thread, whose timer runs the handlers of a *tick* one
after another (`MainWnd.cpp:488-564`) and which runs the operator's buttons
between two ticks; one thread per charging pile (`charge_station::run_entry`);
one thread per charging task (`charge_task::run_entry`), created and gone with
the task; a thread that polls the PLCs. Orders come over HTTP, handled by the main
thread too, between two ticks (`InitialAPI`, `MainWnd.cpp:365`; the RabbitMQ listener
is commented out two lines below). The ACS is reached only through database tables.

| Component | State | Operations | Talks to |
|---|---|---|---|
| Message queue (`queue.cpp`) | ring, two positions, count, mutex | alloc, write, read, free | shared by all threads |
| Charging task (`charge_task.cpp`) | state, counter, own queue, registry `g_charge_task` | add, find, unlist, the state machine | posts to a pile's queue; contactor orders to the database |
| Charging pile (`charge_station.cpp`) | queue, current, socket | arm out, arm in, start charge, reconnect | the pile over TCP |
| AGV battery (`agv_battery.cpp`) | table `p_battery` | init, clean, contactor on and off, readings | database |
| AGV flags (`AGV_Manage.cpp`) | lock, order status, `Is_Charging_` | lock, unlock, busy, idle, stop charging | read by all monitors |
| Battery monitors (`Battery_Manage.cpp`) | levels from the configuration | start charging, give a charging AGV back | flags, task chains |
| Task chains (`Task_Chain*.cpp`, `Sub_Task.cpp`) | active list, a status per chain, ids | create, check status, cancel | database, flags, charging tasks |
| Orders (`Event_Handler.cpp`, `Order_Manage.cpp`) | `Executing_List_` | fetch, dispatch, feedback | database, chains |
| Area control (`Area_Manage.cpp`) | areas, which AGV waits | pause, continue | ACS |
| Pre-search (`PreSearch_Manage.cpp`) | asked for or not, failures counted by id | ask, hear, withdraw | the ACS through tables |
| Stock (`Storage_`, `Confirm_`, `Parking_Manage.cpp`) | stations and their status | reserve, release | database |
| PLC (`PLC_Manage.cpp`, `finstcpcommand.cpp`) | cache of `kh_plc_data`, samples, connection state, two mutexes | send, read, synchronise, reconnect, status of storages | FINS over TCP, database |
| HTTP interface (`ApiServer.cpp`, `ApiClient.cpp`) | connections, their messages by socket address, timers | read, execute, answer, time out | the MES, orders in the database |

What is hard here: threads that share a registry and a battery table without
a lock; a stop message that meets the charging task in any state; commands that
a full queue or a broken link loses without a trace; flags that are set and
reset in many handlers and have to keep two charging tasks apart; an order that
waits, tick after tick, for something that two other handlers and a thread must
do; ids that stand for whatever was generated last.

What makes each component correct:

* queue: a bounded FIFO, whatever the interleaving;
* charging task: whatever it did before a stop, it undoes; when it counts as
  over, nothing of it works and the contactor is open; the battery table does
  not grow;
* flags and monitors: one charging task per AGV and per pile; no AGV drives off
  connected, with the arm out or while a task of it runs; every order is served;
* task chains: a feedback or a cancel reaches the chain it is meant for, an
  AGV has one chain, a chain ends with its AGV and its order released;
* area control: no more AGVs go on in an area than its number, in the order they
  came, none is forgotten and everyone goes on in the end;
* pre-search: a path is held by the ACS only while it is wanted, what is dispatched
  on a path has it, a sub-task that waits gets one in the end;
* PLC: SENDED and READED mean what they say, the status of a storage follows its
  sensor, a PLC that was stopped is started again;
* HTTP interface: a handler finds the message of its own connection, an answer says
  what was done, every connection ends.

## Modules

| Module | Models | Checked by | Proved in |
|---|---|---|---|
| `BoundedFifo` | what a queue promises | (refinement target) | |
| `MsgQueue` | `queue.cpp`, statement by statement | `MCMsgQueue` | `MsgQueueThms` |
| `ChargeTask` | charging tasks, piles, battery table, in any order of starts and stops | `MCChargeTask` | `ChargeTaskThms` |
| `ChargeAgv` | `ChargeTask` with the reasons of the main thread and the operator | `MCChargeAgv` | `ChargeAgvThms` |
| `OrderLife` | what the program promises about an order | (refinement target) | |
| `TaskChains` | orders, carry and parking chains, stations, restarts | `MCTaskChains` | `TaskChainsThms` |
| `PreSearch` | the search for a path before a dispatch | `MCPreSearch` | `PreSearchThms` |
| `AreaControl` | `areaControl`, with the AGVs and an ACS that reads late | `MCAreaControl` | `AreaControlThms` |
| `FinsDriver` | the FINS client of one PLC, a call as the set of its outcomes | (with `PlcScan`) | `PlcScanThms` |
| `PlcScan` | the scan thread, the samples, the reconnection | `MCPlcScan` | `PlcScanThms` |
| `OrderService` | the HTTP service and the order's row | `MCOrderService` | `OrderServiceThms` |

`ChargeAgv` extends `ChargeTask`, `PlcScan` extends `FinsDriver`,
`MsgQueue` implements `BoundedFifo`, of which `ChargeTask` uses the queues, and
`TaskChains` implements `OrderLife`. The others meet in the database: the chain of `PreSearch` is that of `TaskChains`,
where `Refused` stands for the wait, and the row of `OrderService` is the
`orderStatus` of `TaskChains` before and after the order is with an AGV.

### MsgQueue and BoundedFifo

Every statement that writes a field of `struct QUEUE` is a step of its own, so
that the mutex is what makes the operations atomic. The abstract FIFO takes
its steps where `num` is changed on writing and where `read` is moved on
reading; `Content` is the mapping. `sent` and `taken` are history.

### ChargeTask

The state machine of `run_entry` is one action per state (`ChargeStart`,
`SendArm`, `ArmSent`, `Count`, `Waited`, `ChargeCurrent`, `Adjust`,
`ExitFault`, `ExitCharged`, `ChargeStop`, `Over`), each through `Iterate`,
which is the loop's head: a stop message is read first and sends the machine
to `TASK_ARM_IN_STATE`, whose case runs in the same iteration. `ReturnFalse`
is the early return, `Unlist` and `Delete` the two statements after the loop.

* `main` holds what the main thread is in the middle of: `init_sys_battery`
  and the reading of `p_battery[...]` are two steps, and so are `find_charge_task`
  and the write to the found task's queue, since the threads of tasks run between.
* The queues of the piles are the `BoundedFifo` that `MsgQueue` implements. A
  task's own queue only ever holds stop messages: `stops` counts them.
* `contactor[a]` is what the ACS was last told about the contactor of `a`
  (`insertTask`); `DbFails` lets such an insert fail.
* A link is up, down, or `dead`: `run_entry` returns at once when the first
  connection fails. A command is taken from the queue before it is sent, and
  may be lost with the link before or after the pile acted on it.
* `Prompt` (with `counted`) ties the tasks to the pile: between two sleeps of half a
  second or more (`Sleep`: `ChargeStart`, `ChargeCurrent`, `Adjust`, `ChargeStop`, and
  a count of a wait) its pile takes a turn (a command with its half second, or the
  100 ms of an empty queue). One count of the model is one such turn, five counts
  of 100 ms in the code: the waits of 15 s and 6 s are 30 and 12 turns. The 100 ms
  after an arm command are not counted. Runs without `Prompt` let the waits end at any time.
* Abstracted: the charging current (a `START_CHARGE` carries whatever was last
  set), packet layout, logging, and the readings of the battery, which choose
  freely between going on, adjusting and the two ways out.

### ChargeAgv

Extends `ChargeTask` with the flags of the AGVs and replaces its free
`InitBattery`, `AddTask` and `FindTask` by the handlers that call them:

* `Battery` (the level that the ACS reports; `level` is `Battery_Level_` below, at
  or above `battery_low_range_`, which is all that the code's comparisons tell apart);
* `StartCharging` (both monitors), `BeginChain` (the rest of
  `createChargingTaskChain`), `UnlockCharged`;
* `FetchOrder`, `PauseCharging`, `KeepCharging` and `BeginCarry`
  (`createOutStorageTaskChain` called from the dispatch), `EndCarry`: at or below the
  low range the charge goes on and the order waits;
* `Check...` (the `CHARGING` cases of `Task_Status_Check_Event`);
* `Cancel` and `Unlock` (the operator; `Unlock` heeds its prompt that the AGV has
  no task).

The handlers of a tick come in any order here, which allows more than the
code's fixed order. One guard stands for that order: `UnlockCharged` needs
`~ordered[a]`, as the dispatch of the same tick has paused the charging of an
AGV with an order before `Charging_AGV_Monitor` runs.
`Charging_Status_` is left out: it is set with a charge and reset with the
unlock, and a second unlock of an unlocked AGV changes nothing. Where an AGV
carries its order and when is the ACS's choice: `Leave` and the place in
`EndCarry` are the environment's.

Not in this module: the errors and aborts of carry chains, the manual lock, the
feedback of the charging chain's fake sub-task (its id is never given to the ACS).

### TaskChains and OrderLife

Orders become chains and chains end. Here the tick is a sequence of phases, as in
`MainWnd.cpp:488-564`: `fetch` (`BeginTick`, then one `TakeOrder` or any number of
`SendToPark`), `dispatch` (`Dispatch` for every order whose AGV stands), `check`
(one status per chain, in the order of the list), `feedback`. Each handler of a
chain is a step, so that the ACS may act in between and the program may end
anywhere. The buttons come between two ticks.

* `chain[k]` is the chain whose first sub-task has id `k`; its `id` is the
  `Task_ID_` that the feedback and the cancel go by, which is its own only after
  its first dispatch. `answer` is `Task_Status_`, as read by the last feedback.
* `orderStatus` is the status in `kh_order_info` (what may be fetched), `report` the
  values of the status in the order's rows of `kh_report_order_info` (what is told; a
  fetch adds a row, and every later change is of all rows), `going` the reserved
  storages, `park` the table `parking_manage`.
* The ACS takes a row of `task_in_table` for an AGV without a task (`Accept`),
  ends it (`Finish`), rejects or fails it (`Fail`), and reads aborts when it likes
  (`ReadAbort`). `carried` is history: what was really got and put.
* `Refused` stands for all the reasons for which a dispatch waits: not in
  service, a reserved storage on the way, an occupied area, no path found.
* `Redo` is offered for every order that the monitor lists (`OrderMonitor.cpp:69-97`), and
  `redoErrOrder` (`WCS_Database.cpp:1399-1415`) sets any but a revoked one to NEW, one that
  is DONE and one that an AGV carries as well; then a second AGV takes it and both
  chains write the same rows. `again` is history: the orders redone while an AGV had them.
* The program hands out seven stations (`Parking_Manage.cpp:216`) and gives two back:
  `Released` are those two. A PARKING that fails keeps its station reserved, and the AGV of
  a chain that failed may stand at a station that is IDLE.
* `Restart` keeps what the database and the ACS keep and resets the rest, as
  the `Initial` of each manager does.
* Abstracted: priorities (any open order is taken; the code takes the first of
  a list that others insert into), the choice among free AGVs and among IDLE stations.
  `Unlock` heeds its prompt and the message of an aborted task: nothing is left to
  do for the AGV, and it stands where the operator has driven it. `MaxId` bounds the ids:
  an order is taken or redone only while there are ids for its chain (`AnotherFits`).
* `OrderLife` is the order alone: asked for, taken once by one AGV that has no other, on
  its way to the target only when the goods were got, DONE only when they were put, or given
  up and reported ERR, and taken anew only when asked for again. Asked for again while an AGV
  has it, it is REPEATED: more AGVs may take it, and until the last of them has ended
  nothing is promised but that it is not DONE unless somebody put the goods. `stage` is
  mapped to the report and, while that is DOING, to the status of the order's chain,
  `carriers` to the AGVs in the list and in the chains, `wanted` to the orders that may be
  fetched (`stage`, `carriers`, `wanted` in `TaskChains`).

### PreSearch

One AGV and its chains, one after another. A step of `Tick` is what a tick
does with the sub-task: asked for (`SearchFirst`), or one of the five results that
may be heard, or withdrawn, or the chain goes on. `requests`, `feedback` and `reset`
are the three tables between program and ACS; `path` is whether the ACS holds a path.
`exec_num` is `m_Task_ExecNum_Map`, which is keyed by id and outlives the request.
`OldFeedback` are the results that the feedback table may hold of earlier tasks: for another
target (OTHER), or for the same target, a SUCCESS too, since the rows are never deleted
(`DELETE *` is no valid statement) and ids come again. `old` is history: the ids whose latest
result is such a row.
Statements may fail (`Lost`), and what then follows is left out of the properties by
the history variables `left` and `spoilt`, whose comments say which cases they are; so is what
an old SUCCESS for the same target leads to, a dispatch without a path (`old`).
Other AGVs are apart by their ids; the geometry of paths is the ACS's.

### AreaControl

`ControlArea` is the body of `areaControl`'s loop for one area: the list in INFO, the
AGVs that left, those that came, the first `Limit` of them to go on. The blank
entry is what `split` leaves behind the last comma; it takes a place in the count.
`Rows` writes a row for the ACS only if `Area_Running` changes. `Restart` may fall
between two areas or, with `CutOff`, in the midst of one: some of its AGVs are told, and INFO
is not written; `torn` are the AGVs told something new so, until the area tells them
again. Assumed:
an AGV moves on only after some tick has seen its place (the timer is short against
the way through an area), and a tick begins when the ACS has read all but `MaxRows`
rows of an AGV. `LimitKept` and its neighbours say in their comments what they leave
out, and why.

### FinsDriver and PlcScan

Calls to the driver are serialised by `driver_mu_` and nobody else sees its fields,
so a call is one step with the set of its outcomes: whatever the socket, the
handshake and the PLC may do in up to five turns of `verify_transmission`. `PlcScan`
has the phases of the scan thread, row by row, with `entry_mutex` held while it
sends and reads and `storage_mutex` while it synchronises; the two threads' waiting
for each other is `Blocked`. A row asks for a value to be written or read, or is read
all the time (AUTO). Assumed of those who use the rows: they take turns on a row, use
it again when the cache shows it idle, do not write AUTO rows; nobody switches AUTO
on or off; the operator presses the button when the program shows the PLC as failed.
A sensor changes when a read could tell (a change between two reads is no other
behaviour). One PLC and one port, and no restart of the program.

### OrderService

A connection has a socket, an `ApiMsg` and a timer. Qt's event loop runs every handler
to its end, so each is one action: `NewConnection`, `ReadyRead`, `Timeout`,
`Disconnected`; `Reply` contains the disconnection that `close()` causes. Messages
are found by the address of the socket (`content`), and addresses are used again: an
entry is left behind by a connection that ends without an answer. Assumed, and said in
the module: answers are small enough to be written at once (else the disconnection
comes later and meets a message that `reply` has deleted), timer numbers are not used
again while a connection lasts, a closed socket reads no more. `ORDER_ID` is the key of
`kh_order_info`, as the insert without one (`WCS_Database.cpp:1065`) implies. Of the order's
row there is the status: inserted, revoked, taken by the tick (`TakeOrder`), given out
anew (`RedoErrOrder`). Not modelled: the packing in JSON, XML and SOAP, and the posts to
other systems.

## Runs

| Run | Bounds | States | Shows |
|---|---|---|---|
| `queue` | 3 threads, 2 slots, 4 messages of 2 types | 59,130 | types, `ImplementsFifo` |
| `charge_task` | 2 AGVs, 1 pile or none, 2 tasks, a queue of 1, waits of 1, failing links | 151,729 | `ContactorAttended`, `OverIsSafe`, with every state of a task taken |
| `agv_safe` | 2 AGVs, 1 pile, 2 tasks, queue of 5, waits of 2 and 6, 2 changes of the current, any battery, cancels | 521,730 | one task per AGV and pile; departure disconnected and with the arm in; current only at the arm |
| `agv_live` | 1 AGV, 1 pile, 3 tasks, any battery, unlocks, failing links | 142,079 | every order is served, unless it finds a low battery |
| `chains_safe` | 2 AGVs, 2 orders from one storage, 4 ids, all buttons, rejections, one restart; symmetric orders | 888,904 | `OneDuty`, `ReportTrue`, `DoneWasCarried`, `FreeAtRest`, `NoneReservedInVain`, `ImplementsOrders` |
| `chains_park` | 2 AGVs, 1 order, 3 stations of which 2 are given back, 4 ids, low batteries, rejections, waiting dispatches, cancels | 3,487,109 | a station is for one AGV |
| `chains_live` | 2 AGVs, 2 orders, 6 ids, rejections | 30,355 | an order that was taken ends |
| `presearch` | 3 ids, `ExecNum` 2, 2 requests, 1 outage, 1 failing statement, old results | 660,620 | `PathWanted`, `DispatchedHasPath`, `OneRequest`, `WaitingEnds` |
| `area_control` | 2 AGVs, 2 areas for one each, 1 restart, the operator | 110,724 | `LimitKept`, `NoneForgotten`, `FirstComeFirstServed`, `WaitEnds` |
| `plc_scan` | a tray's sensor and a bit or word on request, windows of 3 with 2 needed, 1 failing exchange, the button | 693,178 | `LongConnectRuns`, `SentWasWritten`, `AnswerFresh`, `StatusFollows`, `RequestsEnd` |
| `order_service` | 3 connections, 2 addresses, 1 order, requests of 2 pieces, 1 failing statement | 175,205 | `OwnMessage`, `AnswerTrue`, `Answered` |
| `agv_cancel_unlock` | 1 AGV, 1 pile, 2 tasks, no waits; cancels and unlocks | (violation) | cancel and unlock lead to two tasks at one pile |

Why the bounds are enough: two threads that write and one that reads fill a
ring of two, empty it, wrap it twice and block on the mutex in every order;
two tasks are two of one AGV, one after the other or at once, or one of each AGV
(three were tried without waits and show nothing more; the theorems hold for any
number); a queue of one is full at the second command, so that lost commands are
frequent; `charge_task` has no `Prompt`, so its waits end at any time. `agv_safe` keeps the
relation between the real lengths: 3 arm commands and waits of 30 and 12 turns become 1
command and waits of 2 and 6 turns, with a queue of 5, the smallest numbers that satisfy
`KeepsUp` (see the proofs), so that the waits are as tight as they are in the code. The
orders of `chains_safe` start at one storage and each has its own target, which a permutation
of the orders exchanges too: that is why their symmetry is sound. Four ids are two carry chains, one for each AGV, in any two statuses; after
a restart in the middle of a chain they leave one more, while a sub-task of the
first is still with the ACS. Two orders and two AGVs suffice for a redo under way: the second
AGV takes what the first one has, and either ends first, while the other order waits. Four ids
in `chains_park` let both AGVs park, one of them twice, or one park before and
after it carries; of its three stations one is never given back. Dispatches that wait (`Refuses`) are in
`chains_park` alone: they change nothing but the tick in which a sub-task is written, and in
`chains_safe` the ACS may take a row as late as it likes. `agv_live` has one AGV, as an order
waits for its own AGV's charge, and the other's could only occupy the pile; three tasks are
two charges that an order meets one after the other, and one more. Three ids in `presearch` are a carry chain and a parking one in
either order, so that feedback, paths and requests of one meet the next; the second of
two requests waits behind one of an earlier sub-task. Two AGVs and two areas
for one let each wait in front of the other, an AGV go from one area straight
to the next, and one wait while the program restarts. In `plc_scan` the word and the
bit take the two ways to read and write, the sensor's window fills, holds one good sample of the
two that are needed, and wears out (an area, of which there is none, has the same thresholds with
the values exchanged), and
one failing exchange can fall on any step, with or without effect at the PLC. Three
connections with two addresses make one of them reuse an address whose entry may
be left behind while another is open; an order can be sent twice and revoked.

Deadlock is not checked where a bound lets a run stop: on tasks, ids, connections;
and in `plc_scan`, where it would not be found in any case, since the users of the
rows always have a step (there `Blocked` names the one that the code can reach).

Fairness (`chains_live`): the timer keeps the ticks coming (a step of the tick is always
possible), and the ACS accepts what it can and ends what it has accepted, one
way or another. Fairness (`agv_live`): the timer keeps the handlers of the main thread running
and each task's thread runs, since it waits for nothing but `Sleep` and the
queue's mutex. Two-step handlers of the main thread (`BeginChain`, `WriteStop`)
run on: the split is the model's. Batteries, operator, new orders, and the piles
with their links are under no fairness: the property holds with the pile down. In particular
nothing is assumed of the level: `PauseCharging` is one branch of the dispatch and happens
if the level stays above the low range. An AGV at a pile that delivers nothing may be found
at or below it for ever, and its order then waits for ever (`Task_Chain.cpp:206`): `OrderServed`
excludes just those orders that find the AGV so again and again.
Fairness (`presearch`): the timer ticks, the ACS reads resets, an AGV comes back into
service; the ACS, asked again and again, finds a path in the end, and some tick sees
it (strong fairness, since requests come and go). Fairness (`area_control`): the timer
ticks, the ACS reads its rows, an AGV that is not paused leaves the areas. Fairness
(`plc_scan`): the scan thread runs; the tick and the button get a mutex that is
free again and again (strong for the tick, whose wait the scan thread interrupts by
every round). Fairness (`order_service`): Qt's event loop delivers what has happened
to a socket, and timers expire; of the peer nothing is assumed.

## Proofs

All theorems hold for any sets of threads, AGVs, piles, orders and stations, and all
bounds.

* `MsgQueueThms`: an inductive invariant of the types, `Owner`, the ring's shape
  and the agreement of `Content` with the history; `Refinement` maps each
  statement to `Put`, `Take` or a stutter.
* `ChargeTaskThms`: `TaskInv` is the type invariant, `ContactorAttended`, and what
  the two need to be inductive: `Listed` (the registry holds exactly the tasks from
  their creation to their removal, so an entry that is looked up is a task whose
  thread may still act) and `RoomToCreate` (a task being created has an unused
  number). `OverIsSafe` follows from it; `BatteryTableBounded` (as many entries as
  AGVs) is inductive with the types alone.
* `ChargeAgvThms`: every step of the composition is a step of `ChargeTask` or
  leaves it alone, so `TaskInv` carries over. `FlagInv` says why there is never a
  second task: an AGV with an entry in the registry is *held* (`Held`): by its
  chain and a charging flag, by an order that locks it, or, cancelled, by a flag
  that only the operator resets. This is where `OneButton` comes in: the operator
  does not both cancel and unlock. Without it the run `agv_cancel_unlock` shows
  two tasks at once.
  The arm (`DepartsArmIn`, `CurrentReachesArm`) needs `ArmInv`: what a task in each state
  knows of its pile's queue and arm (`Phase`), and that a pile without a task is at rest.
  A stop message may send a task back to its first ARM_IN from any state, so the invariant counts
  the messages that it has yet to read (`Owed`: in its queue, being written, and those that the
  charging flag and the chain still allow); there are two at most, one by an order and one
  by the operator, and each leaves ARM_IN commands in the queue, whose length is
  therefore `Longest` at most. `KeepsUp` says that the queue holds so many and the last wait
  outlasts them. For the code's numbers `Longest` is 11, the queue 32 and the wait 12 turns:
  it is satisfied with nothing to spare, if every command takes its nominal half second. (It is
  sufficient only: TLC finds the properties true for somewhat shorter waits as well, since the
  pile also has turns before the last ARM_IN.)
* `TaskChainsThms`, in layers. `TypeInv` adds to the types that chains have
  ids already generated. `DutyInv` implies `OneDuty` and `ReportTrue`. Its parts
  are `AgvOnce`, that an AGV has one duty, and for each order `OrderDuty`, of which
  `OrderOnce` says of an order that was not redone that it is with one AGV, is reported so, and has
  the status OVER, without which a fetch could give it out again. It holds through any number of
  restarts. Excepted is an order that was redone while an AGV had it (`again`), and no more than that: an AGV still has one duty, and a row that says NEW or
  DOING an AGV or a chain behind it. `CarryInv` holds until a second
  restart and says what ties the chains to the ACS: the ids in use are in the history or were
  given out before the restart and are below those of all chains (`Old`), no two chains share
  one (`KeysApart`), a task that is in the history (`Mine`) has the id that its AGV's chain carries
  while it waits or was given up (`TasksKept`), a task with an id of a chain is for its order
  (`TasksOwned`), and an answer that is about to be looked at is the one to that id (`AnswerTrue`;
  between its dispatch and the next feedback a chain holds an older answer), so that what was
  answered was carried (`DoneCarried`). From it follow
  `NoTaskUnlocked` and `DoneMeansCarried`. The hypothesis `restarts <= 1` is needed: after
  two restarts ids come again, and TLC finds the old answer that is taken for a new one.
  `OrdersRefined` maps every step to one of `OrderLife` or a stutter: dispatch, each status of
  a chain, the buttons (one may give up several orders), redo and the restart, with `MapOf` for
  the mapped variables of one order and `MapFacts` for what a step makes of them.
  `NoneInVainAlways` needs no assumption on the targets: of the orders that share a storage
  the one whose failure frees it may be another than the one that holds it, but never
  is it held for none.
  The stations: `Trips` ties an AGV to its chain: the ACS has a task only for a chain and to where the chain
  goes (`TaskOwner`), and an AGV whose task is done is there (`Arrived`). `Places` then says that
  an AGV that stays where it is (`Stays`) stands at a BUSY station (`PlaceBusy`), that a
  station somebody was sent to is BUSY (`SentBusy`), and that whoever stands there is about to
  leave, has come, or is stranded (`NoneInTheWay`): giving a station back with the sub-task, before the AGV
  has left, is therefore safe. It holds through rejected tasks and cancels. `StationsAlwaysApart` excludes an
  operator who unlocks, since he brings an AGV where he likes, a restart, which derives the stations from where
  the AGVs stand and forgets who is under way to one, and the AGV that a failed chain has left
  locked at a station given back already: there the code does send another AGV to it
  (`Task_Chain_Manage.cpp:366-374`, `AGV_Manage.cpp:66`).
* `AreaControlThms`: first lemmas on the lists, which the code keeps as text: the i-th member of
  a set of positions (`Nth`), the list of those that stayed and of those that came. `ControlInv`:
  what was told last is what the AGV will do, unless the operator let it go (`ToldIsRead`); an AGV
  that will pause is in the INFO of an area, where its exit is noted (`PausedListed`, unless the
  program ended between a row and INFO); and INFO holds those inside, for the areas this tick has
  controlled and for all of them if the tick before saw the same (`InfoInside`). `FirstServed` rests
  on `LetFirst`: whom an area has let go on is among the first of its INFO, also after a restart in
  the midst of the area, when its INFO is older than its rows, but for those let go with these (`torn`). `NumberKept` rests on
  `LimitTold`, which a later area could undo for an AGV in both: it is proved where no place is
  in two areas (`Apart`), and where areas overlap it is false, for as long as the AGV stands in both.
* `OrderServiceThms`: `ServiceInv` is the types, `OwnMessage` and `AnswerTrue`, and what
  these need to be inductive: sockets of open connections have addresses and those of
  the others none (`Sockets`), an open connection has not been answered nor changed the
  table (`Unanswered`), and an order that was inserted or revoked is in the table
  (`Executed`), without which a second insert of it could succeed.
* `PreSearchThms`: `SearchInv` follows an id from its birth. An id that no sub-task has had
  was neither asked for nor counted (`Fresh`), the failures counted are no more than the
  ticks waited (`Counted`), a request in the table will still find a sub-task that wants it
  (`RequestsWanted`), and from the first request of a sub-task on no reset is on its way, so
  that a SUCCESS has its path, if it is not one of an earlier task (`PathHeld`).
* `PlcScanThms`: first the driver, as a lemma on every outcome of `Ask`, `Greet`, one turn and
  five (`OutcomesRun`): a driver that is not in the midst of a reset has not left its PLC stopped.
  Then `ScanInv` on the rows: what is asked for, sent and read agrees with the
  history (`Asking`, `Sending`, `Reading`), a bit still asked for when its row comes was not read
  (`BitsRead`), and a row that `DatabaseIO` has loaded and not yet reached has been changed by
  nobody but its user (`Loaded`). The last needs that no row occurs twice in `Rows`, and that a
  reload of the cache never falls into a synchronisation (`EntryHeld` and the two mutexes).

Every safety and action property of the passing runs is a theorem. Only model-checked: the
liveness properties (`OrderServed`, `OrderEnds`, `WaitEnds`, `StatusFollows`, `RequestsEnd`,
`WaitingEnds`, `Answered`), since liveness under fairness is out of the prover's reach, and the
violation.

## What the runs found

Cancel, then unlock as the message says: two charging tasks at one pile
(`agv_cancel_unlock`).

Seen while modelling and checked by no run of its own. Charging:

* `p_battery` has one entry (`agv_battery.cpp:40`) and is declared with 30
  (`Task_Chain.cpp:294`); a second charging AGV writes beyond it;
* a charging task created without a pile or battery returns and stays in the
  registry (`charge_task.cpp:267-270`): the AGV never counts as over;
* the wait that is to ensure that the arm is out only counts
  (`charge_task.cpp:339-353`): a pile that lost its link gets no arm command;
* a charge that began with a low battery and ends below the unlock level leaves
  the AGV locked;
* an order for an AGV that charges at or below the low range waits until the level rises, at
  a pile that delivers nothing for ever (`Task_Chain.cpp:206`);
* after a restart nothing opens a contactor that was left closed or takes back an arm
  (`charge_station.cpp:924`).

Orders and chains:

* a chain that waits for its first dispatch carries the id of another chain
  (`Task_Chain.cpp:40`): a cancel by that id aborts both;
* two starts without a dispatch between them make the ids start at 1 again
  (`WCS_Database.cpp:869`), while the ACS still works on old ones; the start button is
  disabled after its first use (`MainWnd.cpp:473`), so each start is a new process;
* the reservation of a storage has no owner (`WCS_Database.cpp:1446`): the failure
  of one order frees the target of another with the same target;
* Redo of an order that an AGV carries gives it to a second AGV, and the first chain to end
  sets the report of both (`WCS_Database.cpp:1404`, `OrderMonitor.cpp:69-97`);
* seven parking stations are handed out (`Parking_Manage.cpp:216`), and only P1 and P2 given
  back when an AGV leaves them (`Task_Chain_Manage.cpp:366, 551`); a PARKING that fails keeps its
  station reserved;
* a first sub-task that is rejected leaves its AGV locked at a station that was given back
  already; since only an unlocked AGV makes its station BUSY (`AGV_Manage.cpp:66`), another may be
  sent there;
* a sub-task whose row could not be inserted counts as dispatched
  (`Event_Handler.cpp:224`), and its chain waits for ever;
* a revocation is answered with success for an order that is already with an AGV, which
  carries on (`WCS_Database.cpp:1356-1397`); an order that is sent again because the answer
  was lost is refused with `DatabaseError` though it is in the table; the inserts at
  `WCS_Database.cpp:1065-1103` return true when the statement fails.

Pre-search:

* a sub-task withdrawn while a failure of it was counted is never asked for again
  (`m_Task_ExecNum_Map` stays above 0), against the comment at `PreSearch_Manage.cpp:87`;
* after a withdrawal the old SUCCESS of the same id counts as the answer to the new
  request, and an old FAILED is counted while that is unanswered; a SUCCESS of an earlier task
  with the same id and target lets a sub-task go without a path;
* ERRORED lets the sub-task go although line 13 says that a failure returns false;
* a PARKING that fails never gives its path back; `DELETE *` in `clearPreSearchFeedback` is
  no valid statement; ABORT reads `current_task` after it was freed
  (`Task_Chain_Manage.cpp:818-824`).

Area control:

* areas that overlap break the number of an area for as long as an AGV that the one pauses and the
  other lets go stands in both, and areas that an AGV enters in the order opposite to the map's
  for a tick; the blank entry pauses an AGV within the number for one tick;
* a program that ends between a row for the ACS and INFO can forget an AGV, and a row
  that is lost is not written again;
* an AGV that the operator has unlocked keeps `Area_Running` 2 and is not paused again in
  that area.

PLC:

* main thread (button) and scan thread take the two mutexes in opposite orders
  (`PLC_Manage.cpp:78`, `555-662`) and may wait for each other for good;
* after any failed exchange nothing is sent until the button is pressed, though
  `MainWnd.cpp:446` speaks of an automatic reconnection;
* a bit whose read failed is answered READED with its old value, and an AUTO bit's old value is
  sampled as if it had been read (`PLC_Manage.cpp:504`);
* a request to write sends the old cached value first (`PLC_Manage.cpp:385`);
* a storage forbidden on a failure is set again by the next sample (`PLC_Manage.cpp:888`);
* a driver deleted between stop and start leaves the PLC stopped.

## Plan

Next: the composition of `PreSearch` with `TaskChains`, whose chains have the search
before each dispatch; `OrderService` joined to `OrderLife` at the order's row, so that what
the MES is told and what is carried are one abstract order; the numbers of the charging loop.
Of what is proved: `KeepsUp` with the turns that a pile has before the last ARM_IN, which would
give the last wait some room; `NumberKept` for areas that overlap but are left in the map's order.

## Not modelled, and why

* RabbitMQ (`RabbitMQService.cpp`, `RabbitMqClient.cpp`): its `Init` is commented out
  (`MainWnd.cpp:367`), the question before a dispatch is under `#if 0`
  (`Event_Handler.cpp:242-261`); the map that `ReportOrderStatus` looks into is filled by
  a function nobody calls. The vendored `librabbitmq` below it is a third of
  the repository's lines of code.
* The generator of ids as a racing counter (`Task_Chain_Manage.cpp:37`): a data race on an
  `int`, with no document of what should be.
* The charging loop's numbers (`charge_task.cpp:411`): in `ChargeTask` readings choose freely.
* Database access: SQL is text put together; each module has the effect of the statements it
  issues.
* User interface, logging, configuration files, transfer devices and timers: no control of their
  own beyond the buttons above. `areaControlOrderDispatch`, `sortByDistance`,
  `QueryIsCanGetOrPut` and others have no caller. `charge_station_yundi.cpp` is not in the build.
* Byte layouts of packets (pile, FINS, HTTP).

These and the display make up most of the lines, so the modules' share of all lines is
low although they cover the program's own control.
