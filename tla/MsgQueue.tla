------------------------------ MODULE MsgQueue ------------------------------
(***************************************************************************)
(* The message queue of src/Lib/Core/queue.cpp: a ring of QUEUE_MSG_SIZE   *)
(* slots with a write position, a read position and a count, shared by     *)
(* threads that hold h_mutex while they touch it.  Every statement that    *)
(* writes a field is a step of its own, so that the mutex, and not the     *)
(* model, is what makes an operation appear atomic.                        *)
(***************************************************************************)
EXTENDS Integers, Sequences

CONSTANTS
  Threads,   \* the threads that call write_msg and read_msg
  Types,     \* the message types
  Size,      \* QUEUE_MSG_SIZE
  Empty,     \* the value of a slot that was never written (memset 0)
  Nobody,    \* the mutex is free
  MaxMsgs    \* bound on the messages written, for model checking

ASSUME SizeAssumption == Size \in Nat \ {0}
ASSUME ValuesAssumption == Empty \notin Types /\ Nobody \notin Threads

VARIABLES
  msg, write, read, num,   \* the fields of struct QUEUE
  mutex,                   \* h_mutex: the thread that owns it, or Nobody
  pc,                      \* where each thread is in write_msg or read_msg
  arg,                     \* the message each thread is writing or has read
  sent, taken              \* history: messages accepted, messages delivered

queue == <<msg, write, read, num>>
vars == <<msg, write, read, num, mutex, pc, arg, sent, taken>>

Slots == 0 .. Size - 1

PcValues ==
  {"idle", "w_lock", "w_check", "w_advance", "w_count",
   "r_lock", "r_check", "r_advance", "r_count", "release"}

Init ==
  /\ msg = [i \in Slots |-> Empty]
  /\ write = 0
  /\ read = 0
  /\ num = 0
  /\ mutex = Nobody
  /\ pc = [t \in Threads |-> "idle"]
  /\ arg = [t \in Threads |-> Empty]
  /\ sent = << >>
  /\ taken = << >>

Goto(t, from, to) ==
  /\ pc[t] = from
  /\ pc' = [pc EXCEPT ![t] = to]

(* WaitForSingleObject(h_mutex, INFINITE). *)
Lock(t, from, to) ==
  /\ Goto(t, from, to)
  /\ mutex = Nobody
  /\ mutex' = t
  /\ UNCHANGED <<queue, arg, sent, taken>>

(* ReleaseMutex, then the return. *)
Release(t) ==
  /\ Goto(t, "release", "idle")
  /\ mutex' = Nobody
  /\ UNCHANGED <<queue, arg, sent, taken>>

(***************************************************************************)
(* write_msg                                                               *)
(***************************************************************************)
CallWrite(t, m) ==
  /\ Len(sent) < MaxMsgs
  /\ Goto(t, "idle", "w_lock")
  /\ arg' = [arg EXCEPT ![t] = m]
  /\ UNCHANGED <<queue, mutex, sent, taken>>

WriteFull(t) ==
  /\ Goto(t, "w_check", "release")
  /\ num = Size
  /\ UNCHANGED <<queue, mutex, arg, sent, taken>>

(* Mutant: a full queue overwrites its oldest message. *)
WriteStoreWhenFull(t) ==
  /\ Goto(t, "w_check", "w_advance")
  /\ msg' = [msg EXCEPT ![write] = arg[t]]
  /\ UNCHANGED <<write, read, num, mutex, arg, sent, taken>>

WriteStore(t) ==
  /\ Goto(t, "w_check", "w_advance")
  /\ num # Size
  /\ msg' = [msg EXCEPT ![write] = arg[t]]
  /\ UNCHANGED <<write, read, num, mutex, arg, sent, taken>>

(* Mutant: the write position is not wrapped. *)
WriteAdvanceNoWrap(t) ==
  /\ Goto(t, "w_advance", "w_count")
  /\ write' = write + 1
  /\ UNCHANGED <<msg, read, num, mutex, arg, sent, taken>>

WriteAdvance(t) ==
  /\ Goto(t, "w_advance", "w_count")
  /\ write' = (write + 1) % Size
  /\ UNCHANGED <<msg, read, num, mutex, arg, sent, taken>>

WriteCount(t) ==
  /\ Goto(t, "w_count", "release")
  /\ num' = num + 1
  /\ sent' = Append(sent, arg[t])
  /\ UNCHANGED <<msg, write, read, mutex, arg, taken>>

(***************************************************************************)
(* read_msg                                                                *)
(***************************************************************************)
CallRead(t) ==
  /\ Goto(t, "idle", "r_lock")
  /\ UNCHANGED <<queue, mutex, arg, sent, taken>>

ReadEmpty(t) ==
  /\ Goto(t, "r_check", "release")
  /\ num = 0
  /\ UNCHANGED <<queue, mutex, arg, sent, taken>>

ReadFetch(t) ==
  /\ Goto(t, "r_check", "r_advance")
  /\ num # 0
  /\ arg' = [arg EXCEPT ![t] = msg[read]]
  /\ UNCHANGED <<queue, mutex, sent, taken>>

ReadAdvance(t) ==
  /\ Goto(t, "r_advance", "r_count")
  /\ read' = (read + 1) % Size
  /\ taken' = Append(taken, arg[t])
  /\ UNCHANGED <<msg, write, num, mutex, arg, sent>>

ReadCount(t) ==
  /\ Goto(t, "r_count", "release")
  /\ num' = num - 1
  /\ UNCHANGED <<msg, write, read, mutex, arg, sent, taken>>

Next ==
  \E t \in Threads :
    \/ \E m \in Types : CallWrite(t, m)
    \/ Lock(t, "w_lock", "w_check")
    \/ WriteFull(t) \/ WriteStore(t) \/ WriteAdvance(t) \/ WriteCount(t)
    \/ CallRead(t)
    \/ Lock(t, "r_lock", "r_check")
    \/ ReadEmpty(t) \/ ReadFetch(t) \/ ReadAdvance(t) \/ ReadCount(t)
    \/ Release(t)

Spec == Init /\ [][Next]_vars
-----------------------------------------------------------------------------
(* Every field keeps its type; positions stay inside the array. *)
TypeOK ==
  /\ msg \in [Slots -> Types \cup {Empty}]
  /\ write \in Slots
  /\ read \in Slots
  /\ num \in 0 .. Size
  /\ mutex \in Threads \cup {Nobody}
  /\ pc \in [Threads -> PcValues]
  /\ arg \in [Threads -> Types \cup {Empty}]
  /\ sent \in Seq(Types)
  /\ taken \in Seq(Types \cup {Empty})

InSection(t) == pc[t] \notin {"idle", "w_lock", "r_lock"}

(* A thread that is past the lock owns the mutex, so that at most one is. *)
Owner == \A t \in Threads : InSection(t) <=> mutex = t

WriteAhead == \E t \in Threads : pc[t] = "w_count"
ReadAhead == \E t \in Threads : pc[t] = "r_count"

(* The write position has been moved and the count has not, or so for read. *)
Gap == (IF WriteAhead THEN 1 ELSE 0) + (IF ReadAhead THEN -1 ELSE 0)

(***************************************************************************)
(* The three fields the code keeps separately agree: the ring is never     *)
(* empty for one and full for another (queue.cpp:57-65, 96-104).           *)
(***************************************************************************)
RingShape == write = (read + num + Gap) % Size

(* The messages that are in the queue, oldest first. *)
Content ==
  [i \in 1 .. (IF ReadAhead THEN num - 1 ELSE num) |->
      msg[(read + i - 1) % Size]]

Abstract == INSTANCE BoundedFifo WITH Capacity <- Size, buffer <- Content

(***************************************************************************)
(* The ring implements the bounded FIFO: no interleaving of the threads    *)
(* loses, repeats or reorders an accepted message, and none is accepted    *)
(* beyond the capacity.                                                    *)
(***************************************************************************)
ImplementsFifo == Abstract!Spec
=============================================================================
