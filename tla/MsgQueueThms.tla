---------------------------- MODULE MsgQueueThms ----------------------------
(***************************************************************************)
(* The ring buffer of queue.cpp for every set of threads, every size and   *)
(* every length of run: one thread at a time is inside, its fields agree,  *)
(* and it implements the bounded FIFO of BoundedFifo.tla.                  *)
(***************************************************************************)
EXTENDS MsgQueue, SequenceTheorems, TLAPS

(* What a thread has established between its check and its count. *)
Checked(t) ==
  /\ pc[t] \in {"w_lock", "w_check", "w_advance", "w_count"} => arg[t] \in Types
  /\ pc[t] \in {"w_advance", "w_count"} => num < Size
  /\ pc[t] \in {"r_advance", "r_count"} => num > 0

(* The message a thread is moving is the one its position points at. *)
Moving(t) ==
  /\ pc[t] = "w_advance" => msg[write] = arg[t]
  /\ pc[t] = "w_count" => msg[(read + num) % Size] = arg[t]
  /\ pc[t] = "r_advance" => msg[read] = arg[t]

IInv ==
  /\ TypeOK
  /\ Owner
  /\ RingShape
  /\ \A t \in Threads : Checked(t) /\ Moving(t)

ThreadStep(t) ==
  \/ \E m \in Types : CallWrite(t, m)
  \/ Lock(t, "w_lock", "w_check")
  \/ WriteFull(t) \/ WriteStore(t) \/ WriteAdvance(t) \/ WriteCount(t)
  \/ CallRead(t)
  \/ Lock(t, "r_lock", "r_check")
  \/ ReadEmpty(t) \/ ReadFetch(t) \/ ReadAdvance(t) \/ ReadCount(t)
  \/ Release(t)
-----------------------------------------------------------------------------
(* A position at most twice around the ring, wrapped. *)
LEMMA ModWrap ==
  ASSUME NEW a \in 0 .. 2 * Size - 1
  PROVE a % Size = IF a < Size THEN a ELSE a - Size
BY SizeAssumption

(* Advancing a wrapped position is wrapping the advanced one. *)
LEMMA ModSucc ==
  ASSUME NEW r \in Slots, NEW n \in 0 .. Size - 1
  PROVE /\ (((r + n) % Size) + 1) % Size = (r + n + 1) % Size
        /\ (((r + 1) % Size) + n) % Size = (r + n + 1) % Size
<1>1. (r + n) % Size = IF r + n < Size THEN r + n ELSE r + n - Size
  BY ModWrap, SizeAssumption DEF Slots
<1>2. (r + n + 1) % Size = IF r + n + 1 < Size THEN r + n + 1 ELSE r + n + 1 - Size
  BY ModWrap, SizeAssumption DEF Slots
<1>3. (((r + n) % Size) + 1) % Size = (r + n + 1) % Size
  <2>1. ((r + n) % Size) + 1 \in 0 .. 2 * Size - 1
    BY <1>1, SizeAssumption DEF Slots
  <2> QED BY <2>1, <1>1, <1>2, ModWrap, SizeAssumption DEF Slots
<1>4. (((r + 1) % Size) + n) % Size = (r + n + 1) % Size
  <2>1. (r + 1) % Size = IF r + 1 < Size THEN r + 1 ELSE r + 1 - Size
    BY ModWrap, SizeAssumption DEF Slots
  <2>2. ((r + 1) % Size) + n \in 0 .. 2 * Size - 1
    BY <2>1, SizeAssumption DEF Slots
  <2> QED BY <2>1, <2>2, <1>2, ModWrap, SizeAssumption DEF Slots
<1> QED BY <1>3, <1>4

(* The thread inside is alone: the others are idle or wait for the mutex. *)
LEMMA Alone ==
  ASSUME TypeOK, Owner, NEW t \in Threads, InSection(t), NEW u \in Threads, u # t
  PROVE ~InSection(u)
BY DEF Owner

(* Exactly one thread at most has moved a position without counting. *)
LEMMA GapOf ==
  ASSUME TypeOK, Owner, NEW t \in Threads, InSection(t)
  PROVE /\ WriteAhead <=> pc[t] = "w_count"
        /\ ReadAhead <=> pc[t] = "r_count"
BY Alone DEF WriteAhead, ReadAhead, InSection

(* No thread has, while the mutex is free. *)
LEMMA GapFree ==
  ASSUME TypeOK, Owner, mutex = Nobody PROVE ~WriteAhead /\ ~ReadAhead
BY ValuesAssumption DEF Owner, WriteAhead, ReadAhead, InSection

LEMMA InitInv == Init => IInv
<1> SUFFICES ASSUME Init PROVE IInv
  OBVIOUS
<1>1. TypeOK
  BY SizeAssumption DEF Init, TypeOK, Slots, PcValues
<1>2. Owner
  BY ValuesAssumption DEF Init, Owner, InSection
<1>3. RingShape
  BY SizeAssumption DEF Init, RingShape, Gap, WriteAhead, ReadAhead
<1>4. \A t \in Threads : Checked(t) /\ Moving(t)
  BY DEF Init, Checked, Moving
<1> QED BY <1>1, <1>2, <1>3, <1>4 DEF IInv

(* The types hold after a step. *)
LEMMA StepTypeOK ==
  ASSUME IInv, NEW t \in Threads, ThreadStep(t) PROVE TypeOK'
<1> USE DEF IInv, TypeOK, Checked, Goto, PcValues, queue
<1>1. ASSUME NEW m \in Types, CallWrite(t, m) PROVE TypeOK'
  BY <1>1 DEF CallWrite
<1>2. CASE Lock(t, "w_lock", "w_check") \/ Lock(t, "r_lock", "r_check")
  BY <1>2 DEF Lock
<1>3. CASE WriteFull(t) \/ ReadEmpty(t) \/ CallRead(t)
  BY <1>3 DEF WriteFull, ReadEmpty, CallRead
<1>4. CASE WriteStore(t)
  BY <1>4 DEF WriteStore
<1>5. CASE WriteAdvance(t)
  BY <1>5, SizeAssumption DEF WriteAdvance, Slots
<1>6. CASE WriteCount(t)
  BY <1>6, SizeAssumption DEF WriteCount
<1>7. CASE ReadFetch(t)
  BY <1>7 DEF ReadFetch
<1>8. CASE ReadAdvance(t)
  BY <1>8, SizeAssumption DEF ReadAdvance, Slots
<1>9. CASE ReadCount(t)
  BY <1>9, SizeAssumption DEF ReadCount
<1>10. CASE Release(t)
  BY <1>10 DEF Release
<1> QED
  BY <1>1, <1>2, <1>3, <1>4, <1>5, <1>6, <1>7, <1>8, <1>9, <1>10 DEF ThreadStep

(* The mutex keeps its owner alone inside. *)
LEMMA StepOwner ==
  ASSUME IInv, NEW t \in Threads, ThreadStep(t) PROVE Owner'
<1> USE DEF IInv, TypeOK, Owner, InSection, Goto
<1>1. CASE Lock(t, "w_lock", "w_check") \/ Lock(t, "r_lock", "r_check")
  BY <1>1, ValuesAssumption DEF Lock
<1>2. CASE Release(t)
  BY <1>2, ValuesAssumption DEF Release
<1>3. CASE CallRead(t) \/ \E m \in Types : CallWrite(t, m)
  BY <1>3 DEF CallRead, CallWrite, queue
<1>4. CASE WriteFull(t) \/ WriteStore(t) \/ WriteAdvance(t) \/ WriteCount(t)
  BY <1>4 DEF WriteFull, WriteStore, WriteAdvance, WriteCount, queue
<1>5. CASE ReadEmpty(t) \/ ReadFetch(t) \/ ReadAdvance(t) \/ ReadCount(t)
  BY <1>5 DEF ReadEmpty, ReadFetch, ReadAdvance, ReadCount, queue
<1> QED BY <1>1, <1>2, <1>3, <1>4, <1>5 DEF ThreadStep

(* The fields agree after a step. *)
LEMMA StepRingShape ==
  ASSUME IInv, NEW t \in Threads, ThreadStep(t) PROVE RingShape'
<1>1. TypeOK' /\ Owner'
  BY StepTypeOK, StepOwner
<1>2. TypeOK /\ Owner /\ RingShape /\ Checked(t) /\ Moving(t)
  BY DEF IInv
<1> USE DEF Goto
<1>3. CASE CallRead(t) \/ \E m \in Types : CallWrite(t, m)
  <2>1. WriteAhead' = WriteAhead /\ ReadAhead' = ReadAhead
    BY <1>2, <1>3 DEF CallRead, CallWrite, WriteAhead, ReadAhead, TypeOK
  <2> QED BY <2>1, <1>2, <1>3 DEF CallRead, CallWrite, queue, RingShape, Gap
<1>4. CASE Lock(t, "w_lock", "w_check") \/ Lock(t, "r_lock", "r_check")
  <2>1. WriteAhead' = WriteAhead /\ ReadAhead' = ReadAhead
    BY <1>2, <1>4 DEF Lock, WriteAhead, ReadAhead, TypeOK
  <2> QED BY <2>1, <1>2, <1>4 DEF Lock, queue, RingShape, Gap
<1>5. CASE Release(t)
  <2>1. WriteAhead' = WriteAhead /\ ReadAhead' = ReadAhead
    BY <1>2, <1>5 DEF Release, WriteAhead, ReadAhead, TypeOK
  <2> QED BY <2>1, <1>2, <1>5 DEF Release, queue, RingShape, Gap
<1>6. CASE WriteFull(t) \/ WriteStore(t) \/ ReadEmpty(t) \/ ReadFetch(t)
  <2>1. WriteAhead' = WriteAhead /\ ReadAhead' = ReadAhead
    BY <1>2, <1>6 DEF WriteFull, WriteStore, ReadEmpty, ReadFetch, WriteAhead, ReadAhead, TypeOK
  <2> QED
    BY <2>1, <1>2, <1>6
    DEF WriteFull, WriteStore, ReadEmpty, ReadFetch, queue, RingShape, Gap
<1>7. CASE WriteAdvance(t)
  <2>1. InSection(t) /\ ~WriteAhead /\ ~ReadAhead
    BY <1>2, <1>7, GapOf DEF WriteAdvance, InSection
  <2>2. WriteAhead' /\ ~ReadAhead'
    BY <2>1, <1>2, <1>7 DEF WriteAdvance, WriteAhead, ReadAhead, TypeOK
  <2>3. write = (read + num) % Size /\ num < Size
    BY <2>1, <1>2, <1>7 DEF WriteAdvance, RingShape, Gap, TypeOK, Slots, Checked
  <2>4. write' = (read + num + 1) % Size
    <3>1. read \in Slots /\ num \in 0 .. Size - 1
      BY <2>3, <1>2, SizeAssumption DEF TypeOK
    <3>2. (((read + num) % Size) + 1) % Size = (read + num + 1) % Size
      BY <3>1, ModSucc
    <3> QED BY <3>2, <2>3, <1>7 DEF WriteAdvance
  <2>5. read' = read /\ num' = num /\ read \in Nat /\ num \in Nat
    BY <1>2, <1>7 DEF WriteAdvance, TypeOK, Slots
  <2>6. Gap' = 1 /\ read' + num' + Gap' = read + num + 1
    BY <2>2, <2>5 DEF Gap
  <2> QED
    BY <2>4, <2>6 DEF RingShape
<1>8. CASE WriteCount(t)
  <2>1. WriteAhead /\ ~ReadAhead
    BY <1>2, <1>8, GapOf DEF WriteCount, InSection
  <2>2. ~WriteAhead' /\ ~ReadAhead'
    BY <2>1, <1>1, <1>2, <1>8 , GapOf, Alone
    DEF WriteCount, WriteAhead, ReadAhead, TypeOK, Owner, InSection
  <2> QED
    BY <2>1, <2>2, <1>2, <1>8, SizeAssumption DEF WriteCount, RingShape, Gap, TypeOK, Slots
<1>9. CASE ReadAdvance(t)
  <2>1. InSection(t) /\ ~WriteAhead /\ ~ReadAhead
    BY <1>2, <1>9, GapOf DEF ReadAdvance, InSection
  <2>2. ~WriteAhead' /\ ReadAhead'
    BY <2>1, <1>2, <1>9 DEF ReadAdvance, WriteAhead, ReadAhead, TypeOK
  <2>3. read \in Slots /\ num \in 1 .. Size
    BY <1>2, <1>9 DEF ReadAdvance, TypeOK, Checked
  <2>4. write = (read + num) % Size
    BY <2>1, <2>3, <1>2 DEF RingShape, Gap, Slots
  <2> DEFINE k == num - 1
  <2>5. k \in 0 .. Size - 1 /\ num = k + 1 /\ read + num = read + k + 1
    BY <2>3, SizeAssumption DEF Slots
  <2>6. (((read + 1) % Size) + k) % Size = (read + k + 1) % Size
    BY <2>3, <2>5, ModSucc
  <2>7. write = (read' + k) % Size
    BY <2>4, <2>5, <2>6, <1>9 DEF ReadAdvance
  <2>8. num' = num /\ write' = write /\ read' \in Slots
    BY <1>1, <1>9 DEF ReadAdvance, TypeOK
  <2>9. Gap' = -1 /\ read' + num' + Gap' = read' + k
    BY <2>2, <2>3, <2>8 DEF Gap, Slots
  <2> QED
    BY <2>7, <2>8, <2>9 DEF RingShape
<1>10. CASE ReadCount(t)
  <2>1. ~WriteAhead /\ ReadAhead
    BY <1>2, <1>10, GapOf DEF ReadCount, InSection
  <2>2. ~WriteAhead' /\ ~ReadAhead'
    BY <2>1, <1>1, <1>2, <1>10, GapOf, Alone
    DEF ReadCount, WriteAhead, ReadAhead, TypeOK, Owner, InSection
  <2> QED
    BY <2>1, <2>2, <1>2, <1>10, SizeAssumption DEF ReadCount, RingShape, Gap, TypeOK, Slots
<1> QED
  BY <1>3, <1>4, <1>5, <1>6, <1>7, <1>8, <1>9, <1>10 DEF ThreadStep

(* The moving message and the checks survive a step of any thread. *)
LEMMA StepMoving ==
  ASSUME IInv, NEW t \in Threads, ThreadStep(t), NEW u \in Threads
  PROVE Checked(u)' /\ Moving(u)'
<1>1. TypeOK /\ Owner /\ RingShape /\ Checked(u) /\ Moving(u) /\ Checked(t) /\ Moving(t)
  BY DEF IInv
<1> USE DEF Goto, TypeOK, PcValues
<1>2. CASE t # u
  <2>1. pc'[u] = pc[u] /\ arg'[u] = arg[u]
    BY <1>1, <1>2
    DEF ThreadStep, CallWrite, Lock, WriteFull, WriteStore, WriteAdvance, WriteCount,
        CallRead, ReadEmpty, ReadFetch, ReadAdvance, ReadCount, Release
  <2>2. CASE InSection(u)
    <3>1. ~InSection(t)
      BY <2>2, <1>1, <1>2, Alone
    <3>2. UNCHANGED queue
      BY <3>1, <2>2, <1>1
      DEF ThreadStep, InSection, CallWrite, Lock, WriteFull, WriteStore, WriteAdvance,
          WriteCount, CallRead, ReadEmpty, ReadFetch, ReadAdvance, ReadCount, Release
    <3> QED BY <3>2, <2>1, <1>1 DEF Checked, Moving, queue
  <2>3. CASE ~InSection(u)
    BY <2>1, <2>3, <1>1 DEF Checked, Moving, InSection
  <2> QED BY <2>2, <2>3
<1>3. CASE t = u
  <2>1. CASE CallRead(t) \/ \E m \in Types : CallWrite(t, m)
    BY <2>1, <1>1, <1>3 DEF CallRead, CallWrite, Checked, Moving
  <2>2. CASE Lock(t, "w_lock", "w_check") \/ Lock(t, "r_lock", "r_check")
    BY <2>2, <1>1, <1>3 DEF Lock, Checked, Moving, queue
  <2>3. CASE WriteFull(t) \/ ReadEmpty(t) \/ Release(t)
    BY <2>3, <1>1, <1>3 DEF WriteFull, ReadEmpty, Release, Checked, Moving
  <2>4. CASE WriteStore(t)
    BY <2>4, <1>1, <1>3, SizeAssumption DEF WriteStore, Checked, Moving, Slots
  <2>5. CASE WriteAdvance(t)
    <3>1. ~WriteAhead /\ ~ReadAhead
      BY <2>5, <1>1, GapOf DEF WriteAdvance, InSection
    <3>2. write = (read + num) % Size
      BY <3>1, <1>1 DEF RingShape, Gap, Slots
    <3> QED BY <2>5, <3>2, <1>1, <1>3 DEF WriteAdvance, Checked, Moving, Slots
  <2>6. CASE WriteCount(t) \/ ReadAdvance(t) \/ ReadCount(t)
    BY <2>6, <1>1, <1>3 DEF WriteCount, ReadAdvance, ReadCount, Checked, Moving
  <2>7. CASE ReadFetch(t)
    <3>1. num > 0 /\ arg'[t] = msg[read] /\ UNCHANGED queue /\ pc'[t] = "r_advance"
      BY <2>7, <1>1 DEF ReadFetch
    <3> QED BY <3>1, <1>3 DEF Checked, Moving, queue
  <2> QED
    BY <2>1, <2>2, <2>3, <2>4, <2>5, <2>6, <2>7 DEF ThreadStep
<1> QED BY <1>2, <1>3

LEMMA StepInv == IInv /\ [Next]_vars => IInv'
<1> SUFFICES ASSUME IInv, [Next]_vars PROVE IInv'
  OBVIOUS
<1>1. ASSUME NEW t \in Threads, ThreadStep(t) PROVE IInv'
  BY <1>1, StepTypeOK, StepOwner, StepRingShape, StepMoving DEF IInv
<1>2. CASE UNCHANGED vars
  BY <1>2
  DEF vars, IInv, TypeOK, Owner, InSection, RingShape, Gap, WriteAhead, ReadAhead, Checked, Moving
<1> QED BY <1>1, <1>2 DEF Next, ThreadStep

THEOREM Invariance == Spec => []IInv
BY InitInv, StepInv, PTL DEF Spec

(* Every field keeps its type, the positions stay inside the array (queue.cpp:62, 101). *)
THEOREM TypeCorrect == Spec => []TypeOK
<1>1. IInv => TypeOK
  BY DEF IInv
<1> QED BY Invariance, <1>1, PTL

(* At most one thread is between the lock and the release (queue.cpp:50-67, 89-106). *)
THEOREM MutualExclusion == Spec => []Owner
<1>1. IInv => Owner
  BY DEF IInv
<1> QED BY Invariance, <1>1, PTL

(* The two positions and the count agree, whatever the interleaving. *)
THEOREM FieldsAgree == Spec => []RingShape
<1>1. IInv => RingShape
  BY DEF IInv
<1> QED BY Invariance, <1>1, PTL
-----------------------------------------------------------------------------
(* Refinement: the messages in the ring are the buffer of the FIFO. *)

Held == IF ReadAhead THEN num - 1 ELSE num
At(i) == msg[(read + i - 1) % Size]

LEMMA ContentSeq ==
  ASSUME IInv
  PROVE /\ Held \in 0 .. Size
        /\ Content = [i \in 1 .. Held |-> At(i)]
        /\ \A i \in 1 .. Held : At(i) \in Types \cup {Empty}
        /\ Content \in Seq(Types \cup {Empty})
        /\ Len(Content) = Held
<1>1. Held \in 0 .. Size
  <2>1. CASE ReadAhead
    <3>1. PICK t \in Threads : pc[t] = "r_count"
      BY <2>1 DEF ReadAhead
    <3>2. num > 0
      BY <3>1 DEF IInv, Checked
    <3> QED BY <2>1, <3>2, SizeAssumption DEF IInv, TypeOK, Held
  <2> QED BY <2>1 DEF IInv, TypeOK, Held
<1>2. Content = [i \in 1 .. Held |-> At(i)]
  BY DEF Content, Held, At
<1>3. ASSUME NEW i \in 1 .. Held PROVE At(i) \in Types \cup {Empty}
  <2>1. (read + i - 1) % Size \in Slots
    <3>1. read + i - 1 \in Nat
      BY <1>1 DEF IInv, TypeOK, Slots
    <3> QED BY <3>1, SizeAssumption DEF Slots
  <2> QED BY <2>1 DEF IInv, TypeOK, At
<1> QED BY <1>1, <1>2, <1>3

(* A step that moves no message leaves the content. *)
LEMMA ContentKept ==
  ASSUME UNCHANGED queue, ReadAhead' = ReadAhead PROVE UNCHANGED Content
BY DEF Content, queue

LEMMA StoreKeepsContent ==
  ASSUME IInv, NEW t \in Threads, WriteStore(t) PROVE UNCHANGED Content
<1>1. InSection(t) /\ pc[t] = "w_check"
  BY DEF WriteStore, Goto, InSection
<1>2. ~WriteAhead /\ ~ReadAhead
  BY <1>1, GapOf DEF IInv
<1>3. ~ReadAhead'
  BY <1>2 DEF IInv, TypeOK, WriteStore, Goto, ReadAhead
<1>4. num \in 0 .. Size - 1 /\ read \in Slots /\ write = (read + num) % Size
  <2>1. num \in 0 .. Size - 1 /\ read \in Slots
    BY SizeAssumption DEF IInv, TypeOK, WriteStore
  <2> QED BY <1>2, <2>1 DEF IInv, RingShape, Gap, Slots
<1>5. ASSUME NEW i \in 1 .. num
      PROVE msg'[(read + i - 1) % Size] = msg[(read + i - 1) % Size]
  <2>1. read + i - 1 \in 0 .. 2 * Size - 1 /\ read + num \in 0 .. 2 * Size - 1
    BY <1>4, SizeAssumption DEF Slots
  <2>2. (read + i - 1) % Size # write
    BY <2>1, <1>4, ModWrap, SizeAssumption DEF Slots
  <2> QED BY <2>2 DEF IInv, TypeOK, WriteStore
<1>6. Content = [i \in 1 .. num |-> msg[(read + i - 1) % Size]]
  BY <1>2 DEF Content
<1>7. Content' = [i \in 1 .. num |-> msg'[(read + i - 1) % Size]]
  BY <1>3 DEF Content, WriteStore
<1> QED BY <1>5, <1>6, <1>7

LEMMA CountIsPut ==
  ASSUME IInv, NEW t \in Threads, WriteCount(t) PROVE Abstract!Put(arg[t])
<1>1. InSection(t) /\ pc[t] = "w_count"
  BY DEF WriteCount, Goto, InSection
<1>2. ~ReadAhead
  BY <1>1, GapOf DEF IInv
<1>3. ~ReadAhead'
  BY <1>2 DEF IInv, TypeOK, WriteCount, Goto, ReadAhead
<1>4. num \in 0 .. Size - 1 /\ arg[t] \in Types /\ msg[(read + num) % Size] = arg[t]
  BY <1>1, SizeAssumption DEF IInv, TypeOK, Checked, Moving
<1>5. Held = num /\ Held' = num + 1
  BY <1>2, <1>3 DEF Held, WriteCount
<1>6. Content' = [i \in 1 .. num + 1 |-> At(i)]
  BY <1>3 DEF Content, WriteCount, At
<1>7. At(num + 1) = arg[t]
  <2>1. read + (num + 1) - 1 = read + num
    BY <1>4 DEF IInv, TypeOK, Slots
  <2> QED BY <2>1, <1>4 DEF At
<1>8. Content' = Append(Content, arg[t])
  BY <1>4, <1>5, <1>6, <1>7, ContentSeq
<1>9. Len(Content) < Size
  BY <1>4, <1>5, ContentSeq, SizeAssumption
<1> QED BY <1>8, <1>9 DEF Abstract!Put, WriteCount

LEMMA AdvanceIsTake ==
  ASSUME IInv, NEW t \in Threads, ReadAdvance(t) PROVE Abstract!Take
<1>1. InSection(t) /\ pc[t] = "r_advance"
  BY DEF ReadAdvance, Goto, InSection
<1>2. ~ReadAhead
  BY <1>1, GapOf DEF IInv
<1>3. ReadAhead'
  BY <1>1 DEF IInv, TypeOK, ReadAdvance, Goto, ReadAhead
<1>4. num \in 1 .. Size /\ read \in Slots /\ msg[read] = arg[t]
  BY <1>1 DEF IInv, TypeOK, Checked, Moving
<1>5. Held = num
  BY <1>2 DEF Held
<1>6. Content' = [i \in 1 .. num - 1 |-> msg[(read' + i - 1) % Size]]
  BY <1>3 DEF Content, ReadAdvance
<1>7. ASSUME NEW i \in 1 .. num - 1
      PROVE msg[(read' + i - 1) % Size] = At(i + 1)
  <2> DEFINE k == i - 1
  <2>1. k \in 0 .. Size - 1 /\ k + 1 = i
    BY <1>4, SizeAssumption
  <2>2. (((read + 1) % Size) + k) % Size = (read + k + 1) % Size
    BY <1>4, <2>1, ModSucc
  <2>3. read' = (read + 1) % Size /\ (read + 1) % Size \in Nat
    BY <1>4, SizeAssumption DEF ReadAdvance, Slots
  <2>4. read' + i - 1 = ((read + 1) % Size) + k /\ read + k + 1 = read + (i + 1) - 1
    BY <2>1, <2>3, <1>4 DEF Slots
  <2> QED BY <2>2, <2>4 DEF At
<1>8. At(1) = arg[t]
  <2>1. read + 1 - 1 = read /\ read % Size = read
    BY <1>4, SizeAssumption DEF Slots
  <2> QED BY <2>1, <1>4 DEF At
<1>9. Content # << >> /\ Head(Content) = arg[t]
  BY <1>4, <1>5, <1>8, ContentSeq
<1>10. Content' = Tail(Content)
  <2>1. Content' = [i \in 1 .. num - 1 |-> At(i + 1)]
    BY <1>6, <1>7
  <2>2. \A i \in 1 .. num - 1 : Content[i + 1] = At(i + 1)
    BY <1>4, <1>5, ContentSeq
  <2>3. Content' = [i \in 1 .. num - 1 |-> Content[i + 1]]
    BY <2>1, <2>2
  <2>4. Len(Content) = num
    BY <1>5, ContentSeq
  <2>5. /\ Tail(Content) \in Seq(Types \cup {Empty})
        /\ Len(Tail(Content)) = num - 1
        /\ \A i \in 1 .. num - 1 : Tail(Content)[i] = Content[i + 1]
    BY <1>9, <2>4, ContentSeq, HeadTailProperties
  <2>6. Tail(Content) \in [1 .. num - 1 -> Types \cup {Empty}]
    BY <2>5, LenProperties
  <2>7. Tail(Content) = [i \in 1 .. num - 1 |-> Tail(Content)[i]]
    BY <2>6
  <2> QED BY <2>3, <2>5, <2>7
<1> QED BY <1>9, <1>10 DEF Abstract!Take, ReadAdvance

LEMMA CountKeepsContent ==
  ASSUME IInv, NEW t \in Threads, ReadCount(t) PROVE UNCHANGED Content
<1>1. InSection(t) /\ pc[t] = "r_count" /\ pc'[t] = "release"
  BY DEF ReadCount, Goto, InSection, IInv, TypeOK
<1>2. ReadAhead
  BY <1>1 DEF ReadAhead
<1>3. ~ReadAhead'
  BY <1>1, Alone DEF IInv, TypeOK, ReadCount, Goto, ReadAhead, InSection
<1> QED BY <1>2, <1>3 DEF Content, ReadCount

LEMMA StepRefines ==
  ASSUME IInv, NEW t \in Threads, ThreadStep(t)
  PROVE Abstract!Next \/ UNCHANGED <<Content, sent, taken>>
<1> USE DEF Goto, queue
<1>1. CASE CallRead(t) \/ \E m \in Types : CallWrite(t, m)
  <2>1. ReadAhead' = ReadAhead
    BY <1>1 DEF CallRead, CallWrite, ReadAhead, IInv, TypeOK
  <2> QED BY <2>1, <1>1, ContentKept DEF CallRead, CallWrite
<1>2. CASE Lock(t, "w_lock", "w_check") \/ Lock(t, "r_lock", "r_check") \/ Release(t)
  <2>1. ReadAhead' = ReadAhead
    BY <1>2 DEF Lock, Release, ReadAhead, IInv, TypeOK
  <2> QED BY <2>1, <1>2, ContentKept DEF Lock, Release
<1>3. CASE WriteFull(t) \/ WriteAdvance(t) \/ ReadEmpty(t) \/ ReadFetch(t)
  <2>1. ReadAhead' = ReadAhead
    BY <1>3 DEF WriteFull, WriteAdvance, ReadEmpty, ReadFetch, ReadAhead, IInv, TypeOK
  <2>2. UNCHANGED <<msg, read, num, sent, taken>>
    BY <1>3 DEF WriteFull, WriteAdvance, ReadEmpty, ReadFetch
  <2> QED BY <2>1, <2>2 DEF Content
<1>4. CASE WriteStore(t)
  BY <1>4, StoreKeepsContent DEF WriteStore
<1>5. CASE WriteCount(t)
  <2>1. arg[t] \in Types
    BY <1>5 DEF WriteCount, IInv, Checked
  <2> QED BY <2>1, <1>5, CountIsPut DEF Abstract!Next
<1>6. CASE ReadAdvance(t)
  BY <1>6, AdvanceIsTake DEF Abstract!Next
<1>7. CASE ReadCount(t)
  BY <1>7, CountKeepsContent DEF ReadCount
<1> QED BY <1>1, <1>2, <1>3, <1>4, <1>5, <1>6, <1>7 DEF ThreadStep

(***************************************************************************)
(* No interleaving of write_msg and read_msg (queue.cpp:41-108) loses,     *)
(* repeats or reorders an accepted message, or accepts one beyond the      *)
(* capacity: the ring implements the bounded FIFO.                         *)
(***************************************************************************)
THEOREM Refinement == Spec => ImplementsFifo
<1>1. Init => Abstract!Init
  BY DEF Init, Abstract!Init, Content, ReadAhead
<1>2. IInv /\ [Next]_vars => [Abstract!Next]_Abstract!vars
  <2> SUFFICES ASSUME IInv, [Next]_vars
               PROVE Abstract!Next \/ UNCHANGED <<Content, sent, taken>>
    BY DEF Abstract!vars
  <2>1. ASSUME NEW t \in Threads, ThreadStep(t)
        PROVE Abstract!Next \/ UNCHANGED <<Content, sent, taken>>
    BY <2>1, StepRefines
  <2>2. CASE UNCHANGED vars
    BY <2>2 DEF vars, Content, ReadAhead
  <2> QED BY <2>1, <2>2 DEF Next, ThreadStep
<1> QED BY <1>1, <1>2, Invariance, PTL DEF Spec, ImplementsFifo, Abstract!Spec
=============================================================================
