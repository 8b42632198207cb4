----------------------------- MODULE PlcScanThms -----------------------------
(***************************************************************************)
(* Theorems about PlcScan.tla and the driver of FinsDriver.tla, for any     *)
(* rows and any number of failing exchanges.                                *)
(***************************************************************************)
EXTENDS PlcScan, TLAPS

(* The rows that are still to come in the phase. *)
Pending == {Rows[k] : k \in scan.i..Len(Rows)}

(* A driver that is not in the midst of a reset has not left the PLC stopped. *)
Runs(s) == s.st \in {"IDLE", "LONG_CONNECT"} /\ s.stopper => s.run
DriverRuns == Runs(driver)

(* The button's handler holds entry_mutex while it waits. *)
EntryHeld == HoldsEntry => main = "idle"

(* A row asks for one thing at a time, or is read all the time; what the     *)
(* table says of an answer the cache says too.                              *)
Requests ==
    \A d \in Row :
        /\ db[d].read = "AUTO" <=> d \in AutoRows
        /\ cache[d].read = "AUTO" <=> d \in AutoRows
        /\ d \in AutoRows => db[d].msg = "IDLE"
        /\ db[d].msg # "IDLE" => db[d].read \notin {"READING", "READED"} /\ cache[d].read # "READING"
        /\ db[d].msg = "SENDED" => cache[d].msg = "SENDED"
        /\ db[d].read = "READED" => cache[d].read = "READED"

(* What is asked for, sent and read. *)
Asking == \A d \in Row : db[d].msg = "SENDING" => asked[d] = {db[d].trig}
Sending ==
    \A d \in Row : db[d].msg = "SENDING" /\ cache[d].msg = "SENDED" => written[d] = {cache[d].trig}
Reading ==
    \A d \in Row : db[d].read = "READING" /\ cache[d].read = "READED" =>
                       got[d] = {cache[d].trig} \/ (d \notin word /\ ~plc_status_)

(* A bit that is still asked for when its row comes was not read. *)
BitsRead ==
    scan.at = "reading" =>
        \A d \in Pending \ word : cache[d].read = "READING" => ~plc_status_

(* A row that was loaded and is still to come has changed by its user only. *)
Loaded ==
    HoldsStorage => \A d \in Pending :
        /\ point[d].msg = "SENDING" => db[d].msg = "SENDING" /\ db[d].trig = point[d].trig
        /\ point[d].msg = "SENDED" => cache[d].msg = "SENDED" /\ db[d].msg # "SENDING"
        /\ db[d].msg = "SENDED" => point[d].msg = "SENDED"
        /\ point[d].read = "READING" => db[d].read = "READING"
        /\ point[d].read = "READED" => cache[d].read = "READED" /\ db[d].read # "READING"
        /\ db[d].read = "READED" => point[d].read = "READED"
        /\ point[d].read = "AUTO" <=> d \in AutoRows

ScanInv ==
    /\ PlcTypeOK /\ DriverRuns /\ EntryHeld
    /\ Requests /\ Asking /\ Sending /\ Reading /\ BitsRead /\ Loaded
-----------------------------------------------------------------------------
(* Every outcome of a call leaves a driver that runs if the call found one.  *)
LEMMA AskTypes ==
  ASSUME NEW s \in Driver, NEW r \in Ask(s)
  PROVE  r.ok \in BOOLEAN /\ r.acted \in BOOLEAN /\ r.sock \in BOOLEAN /\ (r.ok => r.acted)
<1>1. CASE r \in {[ok |-> FALSE, acted |-> FALSE, sock |-> FALSE]}
  <2>1. r = [ok |-> FALSE, acted |-> FALSE, sock |-> FALSE]
    BY <1>1
  <2> QED  BY <2>1
<1>2. CASE r \in [ok : {FALSE}, acted : BOOLEAN, sock : {FALSE}]
  BY <1>2
<1>3. CASE r \in {[ok |-> TRUE, acted |-> TRUE, sock |-> TRUE],
                 [ok |-> FALSE, acted |-> FALSE, sock |-> TRUE]}
  <2>1. CASE r = [ok |-> TRUE, acted |-> TRUE, sock |-> TRUE]
    BY <2>1
  <2>2. CASE r = [ok |-> FALSE, acted |-> FALSE, sock |-> TRUE]
    BY <2>2
  <2> QED  BY <1>3, <2>1, <2>2
<1>4. CASE ~s.sock
  BY <1>1, <1>4 DEF Ask
<1>5. CASE s.sock
  BY <1>2, <1>3, <1>5 DEF Ask
<1> QED  BY <1>4, <1>5

LEMMA GreetTypes ==
  ASSUME NEW s \in Driver, NEW g \in Greet(s)
  PROVE  /\ g.s \in Driver /\ g.s.st = s.st /\ g.s.stopper = s.stopper /\ g.s.run = s.run
         /\ g.node \in {"right", "wrong", "none"}
<1>1. PICK c \in Connect(s) : g \in Shakehand(c)
  BY DEF Greet
<1>2. c \in Driver /\ c.st = s.st /\ c.stopper = s.stopper /\ c.run = s.run
  BY <1>1 DEF Connect, Driver
<1>3. CASE \E n \in {"right", "wrong", "none"} : g = [node |-> n, s |-> c]
  BY <1>2, <1>3
<1>4. CASE g = [node |-> "none", s |-> [c EXCEPT !.sock = FALSE]]
  BY <1>2, <1>4 DEF Driver
<1> QED  BY <1>1, <1>3, <1>4 DEF Shakehand

LEMMA AtRuns ==
  ASSUME NEW s \in Driver, NEW st \in Transmission
  PROVE  /\ At(s, st) \in Driver /\ At(s, st).st = st
         /\ At(s, st).stopper = s.stopper /\ At(s, st).run = s.run
BY DEF At, Driver

LEMMA TurnRuns ==
  ASSUME NEW s \in Driver, Runs(s), NEW t \in Turn(s)
  PROVE  t.ok \in BOOLEAN /\ t.s \in Driver /\ Runs(t.s)
<1> USE DEF Transmission
<1>0. s.st \in Transmission
  BY DEF Driver
<1>1. CASE s.st = "IDLE"
  <2>1. PICK g \in Greet(s) :
           t = [ok |-> FALSE, s |-> CASE g.node = "right" -> At(g.s, "LONG_CONNECT")
                                     [] g.node = "wrong" -> At(g.s, "RESET_ETHERNET")
                                     [] g.node = "none"  -> g.s]
    BY <1>1 DEF Turn, FromIdle
  <2>2. t.s \in Driver /\ Runs(t.s)
    BY <1>1, <2>1, GreetTypes, AtRuns DEF Runs
  <2> QED  BY <2>1, <2>2
<1>2. CASE s.st = "LONG_CONNECT"
  <2>1. PICK c \in TestCommunicate(s) :
           t = IF c.ok THEN c ELSE [ok |-> FALSE, s |-> At(c.s, "IDLE")]
    BY <1>2 DEF Turn, FromLongConnect
  <2>2. PICK r \in Ask(s) : c = [ok |-> r.ok, s |-> [s EXCEPT !.sock = r.sock]]
    BY DEF TestCommunicate
  <2>3. /\ c.ok \in BOOLEAN /\ c.s \in Driver
        /\ c.s.st = s.st /\ c.s.stopper = s.stopper /\ c.s.run = s.run
    BY <2>2, AskTypes DEF Driver
  <2> QED  BY <1>2, <2>1, <2>3, AtRuns DEF Runs
<1>3. CASE s.st = "RESET_ETHERNET"
  <2>1. PICK u \in SetStop(s) : \E r \in ResetEthernet(u.s) :
           t = [ok |-> FALSE, s |-> At(r.s, IF r.ok THEN "REVERT_PLC" ELSE "IDLE")]
    BY <1>3 DEF Turn, FromReset
  <2>2. PICK a \in Ask(s) :
           u = [ok |-> a.ok, s |-> [s EXCEPT !.sock = a.sock, !.run = @ /\ ~a.acted,
                                            !.stopper = @ \/ a.acted]]
    BY DEF SetStop
  <2>3. u.s \in Driver
    BY <2>2, AskTypes DEF Driver
  <2>4. PICK r \in ResetEthernet(u.s) :
           t = [ok |-> FALSE, s |-> At(r.s, IF r.ok THEN "REVERT_PLC" ELSE "IDLE")]
    BY <2>1
  <2>5. PICK b \in Ask(u.s) : r = [ok |-> TRUE, s |-> [u.s EXCEPT !.sock = b.sock]]
    BY DEF ResetEthernet
  <2>6. r.ok = TRUE /\ r.s \in Driver
    BY <2>3, <2>5, AskTypes DEF Driver
  <2> QED  BY <2>4, <2>6, AtRuns DEF Runs
<1>4. CASE s.st = "REVERT_PLC"
  <2>1. PICK g \in Greet(s) :
          t \in CASE g.node = "right" ->
                       {[ok |-> FALSE, s |-> IF u.ok THEN At(u.s, "LONG_CONNECT") ELSE u.s] :
                           u \in SetRun(g.s)}
                 [] g.node = "wrong" -> {[ok |-> FALSE, s |-> At(g.s, "RESET_ETHERNET")]}
                 [] g.node = "none"  -> {[ok |-> FALSE, s |-> g.s]}
    BY <1>4 DEF Turn, FromRevert
  <2>2. g.s \in Driver /\ g.s.st = "REVERT_PLC" /\ g.node \in {"right", "wrong", "none"}
    BY <1>4, GreetTypes
  <2>3. CASE g.node = "right"
    <3>1. PICK u \in SetRun(g.s) :
             t = [ok |-> FALSE, s |-> IF u.ok THEN At(u.s, "LONG_CONNECT") ELSE u.s]
      BY <2>1, <2>3
    <3>2. PICK r \in Ask(g.s) :
             u = [ok |-> r.ok, s |-> [g.s EXCEPT !.sock = r.sock, !.run = @ \/ r.acted]]
      BY DEF SetRun
    <3>3. /\ u.ok \in BOOLEAN /\ u.s \in Driver /\ u.s.st = "REVERT_PLC"
          /\ u.ok => u.s.run
      BY <2>2, <3>2, AskTypes DEF Driver
    <3> QED  BY <3>1, <3>3, AtRuns DEF Runs
  <2>4. CASE g.node = "wrong"
    <3>1. t = [ok |-> FALSE, s |-> At(g.s, "RESET_ETHERNET")]
      BY <2>1, <2>4
    <3> QED  BY <2>2, <3>1, AtRuns DEF Runs
  <2>5. CASE g.node = "none"
    <3>1. t = [ok |-> FALSE, s |-> g.s]
      BY <2>1, <2>5
    <3> QED  BY <2>2, <3>1 DEF Runs
  <2> QED  BY <2>2, <2>3, <2>4, <2>5
<1> QED  BY <1>0, <1>1, <1>2, <1>3, <1>4

(* What a turn of the loop keeps holds after one more.                      *)
Good(r) == r.ok \in BOOLEAN /\ r.s \in Driver /\ Runs(r.s)

LEMMA AgainGood ==
  ASSUME NEW R, \A r \in R : Good(r)
  PROVE  \A r \in Again(R) : Good(r)
<1> SUFFICES ASSUME NEW t \in Again(R) PROVE Good(t)
  OBVIOUS
<1>1. PICK r \in R : t \in IF r.ok THEN {r} ELSE Turn(r.s)
  BY DEF Again
<1>2. Good(r)
  BY <1>1
<1>3. CASE r.ok
  BY <1>1, <1>2, <1>3
<1>4. CASE ~r.ok
  BY <1>1, <1>2, <1>4, TurnRuns DEF Good
<1> QED  BY <1>3, <1>4

LEMMA OutcomesRun ==
  ASSUME NEW s \in Driver, Runs(s), NEW o \in Outcomes(s)
  PROVE  /\ o.s \in Driver /\ Runs(o.s)
         /\ o.ok \in BOOLEAN /\ o.acted \in BOOLEAN /\ (o.ok => o.acted)
<1>1. o \in Transmit(s)
  BY DEF Outcomes, Calls
<1>2. PICK v \in VerifyTransmission(s) :
         o \in IF ~v.ok THEN {[ok |-> FALSE, acted |-> FALSE, s |-> v.s]}
               ELSE {[ok |-> r.ok, acted |-> r.acted, s |-> [v.s EXCEPT !.sock = r.ok]] :
                        r \in Ask(v.s)}
  BY <1>1 DEF Transmit
<1>3. \A r \in {[ok |-> FALSE, s |-> s]} : Good(r)
  <2>1. /\ [ok |-> FALSE, s |-> s].ok = FALSE
        /\ [ok |-> FALSE, s |-> s].s = s
    OBVIOUS
  <2>2. Good([ok |-> FALSE, s |-> s])
    BY <2>1 DEF Good
  <2> QED  BY <2>2
<1>4. Good(v)
  BY <1>2, <1>3, AgainGood DEF VerifyTransmission
<1>5. CASE ~v.ok
  <2>1. o = [ok |-> FALSE, acted |-> FALSE, s |-> v.s]
    BY <1>2, <1>5
  <2> QED  BY <1>4, <2>1 DEF Good
<1>6. CASE v.ok
  <2>1. PICK r \in Ask(v.s) : o = [ok |-> r.ok, acted |-> r.acted, s |-> [v.s EXCEPT !.sock = r.ok]]
    BY <1>2, <1>6
  <2>2. r.ok \in BOOLEAN /\ r.acted \in BOOLEAN /\ (r.ok => r.acted)
    BY <1>4, AskTypes DEF Good
  <2>3. o.s \in Driver /\ o.s.st = v.s.st /\ o.s.stopper = v.s.stopper /\ o.s.run = v.s.run
    BY <1>4, <2>1, <2>2 DEF Good, Driver
  <2> QED  BY <1>4, <2>1, <2>2, <2>3 DEF Good, Runs
<1> QED  BY <1>5, <1>6
-----------------------------------------------------------------------------
LEMMA InitInv == Init => ScanInv
<1> SUFFICES ASSUME Init PROVE ScanInv
  OBVIOUS
<1>1. Len(Rows) \in Nat \ {0} /\ AutoReadMax \in Nat \ {0} /\ MaxFailures \in Nat /\ MaxScan \in Nat
  BY RowsAssumption
<1>2. PlcTypeOK
  <2>1. scan \in [at : Phases, i : 1..Len(Rows), count : 0..AutoReadMax - 1, auto : BOOLEAN]
    <3>1. 1 \in 1..Len(Rows) /\ 0 \in 0..AutoReadMax - 1
      BY <1>1
    <3> QED  BY <3>1 DEF Init, Phases
  <2>2. window \in [AutoRows -> UNION {[1..n -> BOOLEAN] : n \in 0..MaxScan}]
    <3>1. <<>> \in [1..0 -> BOOLEAN] /\ 0 \in 0..MaxScan
      BY <1>1
    <3>2. <<>> \in UNION {[1..n -> BOOLEAN] : n \in 0..MaxScan}
      BY <3>1
    <3> QED  BY <3>2 DEF Init
  <2>3. driver \in Driver
    BY DEF Init, NewDriver, Driver, Transmission
  <2>4. storage \in [Area \cup Tray -> {"FULL", "EMPTY"}]
    BY DEF Init, Forbidden
  <2>5. failures \in 0..MaxFailures
    BY <1>1 DEF Init
  <2>6. {asked, written, got} \subseteq [Row -> SUBSET BOOLEAN]
    BY DEF Init
  <2>7. {db, cache} \subseteq [Row -> Fields]
    BY DEF Init
  <2>8. point \in IF HoldsStorage THEN [Row -> Fields] ELSE {<<>>}
    BY DEF Init, HoldsStorage
  <2>9. fail_count_ \in 0..2 /\ plc_status_ \in BOOLEAN /\ main \in {"idle", "reconnect"}
        /\ plc \in [Row -> BOOLEAN] /\ word \in Shorts
    BY DEF Init
  <2> QED  BY <2>1, <2>2, <2>3, <2>4, <2>5, <2>6, <2>7, <2>8, <2>9 DEF PlcTypeOK
<1>3. DriverRuns
  BY DEF Init, DriverRuns, Runs, NewDriver
<1>4. EntryHeld /\ BitsRead /\ Loaded
  BY DEF Init, EntryHeld, BitsRead, Loaded, HoldsEntry, HoldsStorage
<1>5. Requests /\ Asking /\ Sending /\ Reading
  BY DEF Init, Requests, Asking, Sending, Reading
<1> QED  BY <1>2, <1>3, <1>4, <1>5 DEF ScanInv
-----------------------------------------------------------------------------
(* The thread's step to the next row: the row it leaves is not to come.      *)
LEMMA StepMoves ==
  ASSUME PlcTypeOK, NEW next \in Phases, next # scan.at, Step(next)
  PROVE  /\ scan' \in [at : Phases, i : 1..Len(Rows), count : 0..AutoReadMax - 1, auto : BOOLEAN]
         /\ scan'.at \in {scan.at, next}
         /\ scan'.at = scan.at => scan.i < Len(Rows) /\ Pending' \subseteq Pending \ {Rows[scan.i]}
         /\ scan'.at # scan.at => ~(scan.i < Len(Rows))
         /\ Rows[scan.i] \in Row /\ Rows[scan.i] \in Pending
<1>1. /\ scan \in [at : Phases, i : 1..Len(Rows), count : 0..AutoReadMax - 1, auto : BOOLEAN]
      /\ Len(Rows) \in Nat \ {0}
      /\ DOMAIN Rows = 1..Len(Rows)
  BY RowsAssumption DEF PlcTypeOK
<1>2. Rows[scan.i] \in Row /\ Rows[scan.i] \in Pending
  BY <1>1 DEF Row, Range, Pending
<1>3. CASE scan.i < Len(Rows)
  <2>1. scan' = [scan EXCEPT !.i = @ + 1]
    BY <1>3 DEF Step
  <2>2. scan.i + 1 \in 1..Len(Rows)
    BY <1>1, <1>3
  <2>3. scan'.i = scan.i + 1 /\ scan'.at = scan.at
    BY <1>1, <2>1
  <2>4. Pending' \subseteq Pending \ {Rows[scan.i]}
    <3> SUFFICES ASSUME NEW k \in scan'.i..Len(Rows)
                 PROVE  k \in scan.i..Len(Rows) /\ Rows[k] # Rows[scan.i]
      BY DEF Pending
    <3>1. k \in 1..Len(Rows) /\ k # scan.i /\ scan.i \in 1..Len(Rows) /\ k \in scan.i..Len(Rows)
      BY <1>1, <2>3
    <3> QED  BY <1>1, <3>1, RowsAssumption DEF IsInjective
  <2>5. scan' \in [at : Phases, i : 1..Len(Rows), count : 0..AutoReadMax - 1, auto : BOOLEAN]
    BY <1>1, <2>1, <2>2
  <2> QED  BY <1>2, <1>3, <2>3, <2>4, <2>5
<1>4. CASE ~(scan.i < Len(Rows))
  <2>1. scan' = [scan EXCEPT !.at = next, !.i = 1]
    BY <1>4 DEF Step
  <2>2. 1 \in 1..Len(Rows)
    BY <1>1
  <2>3. scan' \in [at : Phases, i : 1..Len(Rows), count : 0..AutoReadMax - 1, auto : BOOLEAN]
    BY <1>1, <2>1, <2>2
  <2>4. scan'.at = next
    BY <1>1, <2>1
  <2> QED  BY <1>2, <1>4, <2>3, <2>4
<1> QED  BY <1>3, <1>4

(* After a load the cache says what the table says: nothing of it is sent or *)
(* read yet.                                                                *)
LEMMA CacheLoaded ==
  ASSUME ScanInv, cache' = db, UNCHANGED <<word, db, asked>>, ~HoldsStorage',
         scan'.at = "reading" => ~plc_status_'
  PROVE  Requests' /\ Asking' /\ Sending' /\ Reading' /\ BitsRead' /\ Loaded'
<1>1. Requests'
  BY DEF ScanInv, Requests
<1>2. Asking'
  BY DEF ScanInv, Asking
<1>3. Sending' /\ Reading'
  BY DEF Sending, Reading
<1>4. BitsRead' /\ Loaded'
  BY DEF BitsRead, Loaded
<1> QED  BY <1>1, <1>2, <1>3, <1>4

LEMMA FailKeeps ==
  ASSUME ScanInv, NEW times \in {1, 2}, FailConnectCount(times)
  PROVE  /\ cache' = db /\ plc_status_' = FALSE
         /\ failures' \in 0..MaxFailures /\ fail_count_' \in 0..2
         /\ storage' \in [Area \cup Tray -> {"FULL", "EMPTY"}]
         /\ driver' \in Driver /\ DriverRuns'
<1>1. PlcTypeOK /\ MaxFailures \in Nat
  BY RowsAssumption DEF ScanInv
<1>2. failures' \in 0..MaxFailures /\ fail_count_' \in 0..2
  BY <1>1 DEF PlcTypeOK, FailConnectCount
<1>3. storage' \in [Area \cup Tray -> {"FULL", "EMPTY"}]
  BY <1>1 DEF PlcTypeOK, FailConnectCount, Forbidden
<1>4. driver.run \in BOOLEAN
  BY <1>1 DEF PlcTypeOK, Driver
<1>5. driver' = [st |-> "IDLE", sock |-> FALSE, stopper |-> FALSE, run |-> driver.run]
  BY DEF FailConnectCount, NewDriver
<1>6. driver' \in Driver /\ DriverRuns'
  BY <1>4, <1>5 DEF Driver, Transmission, DriverRuns, Runs
<1> QED  BY <1>2, <1>3, <1>6 DEF FailConnectCount

(* A call that went well.                                                   *)
LEMMA ThroughKeeps ==
  ASSUME ScanInv, NEW o \in Outcomes(driver), Through(o)
  PROVE  /\ driver' \in Driver /\ DriverRuns'
         /\ UNCHANGED <<plc_status_, fail_count_, failures>>
<1>1. driver \in Driver /\ Runs(driver)
  BY DEF ScanInv, PlcTypeOK, DriverRuns
<1>2. driver' = o.s
  BY DEF Through
<1>3. o.s \in Driver /\ Runs(o.s)
  BY <1>1, OutcomesRun
<1> QED  BY <1>2, <1>3 DEF Through, DriverRuns, Runs

(* The thread only moves on: no row, request or value changes.               *)
LEMMA OnlyMoves ==
  ASSUME ScanInv, UNCHANGED <<word, db, cache, asked, written, got, plc_status_>>
  PROVE  /\ Requests' /\ Asking' /\ Sending' /\ Reading'
         /\ (scan'.at = "reading" => scan.at = "reading" /\ Pending' \subseteq Pending) => BitsRead'
         /\ (HoldsStorage' => HoldsStorage /\ point' = point /\ Pending' \subseteq Pending) => Loaded'
<1>1. Requests' /\ Asking' /\ Sending' /\ Reading'
  BY DEF ScanInv, Requests, Asking, Sending, Reading
<1>2. ASSUME scan'.at = "reading" => scan.at = "reading" /\ Pending' \subseteq Pending
      PROVE  BitsRead'
  <2> SUFFICES ASSUME scan'.at = "reading", NEW d \in Pending' \ word, cache[d].read = "READING"
               PROVE  ~plc_status_
    BY DEF BitsRead
  <2> QED  BY <1>2 DEF ScanInv, BitsRead
<1>3. ASSUME HoldsStorage' => HoldsStorage /\ point' = point /\ Pending' \subseteq Pending
      PROVE  Loaded'
  <2>1. CASE ~HoldsStorage'
    BY <2>1 DEF Loaded
  <2>2. CASE HoldsStorage'
    BY <1>3, <2>2 DEF ScanInv, Loaded
  <2> QED  BY <2>1, <2>2
<1> QED  BY <1>1, <1>2, <1>3
-----------------------------------------------------------------------------
(* The users change the table and the history only.                         *)
LEMMA UserFrame ==
  ASSUME ScanInv, UNCHANGED <<word, cache, point, stores, link, scan, main, plc>>,
         db' \in [Row -> Fields], {asked', written', got'} \subseteq [Row -> SUBSET BOOLEAN]
  PROVE  PlcTypeOK' /\ DriverRuns' /\ EntryHeld' /\ BitsRead'
         /\ HoldsStorage' = HoldsStorage /\ Pending' = Pending /\ Pending \subseteq Row
<1>1. HoldsStorage' = HoldsStorage /\ Pending' = Pending /\ Pending \subseteq Row
  <2>1. scan.i \in 1..Len(Rows) /\ Len(Rows) \in Nat /\ DOMAIN Rows = 1..Len(Rows)
    BY RowsAssumption DEF ScanInv, PlcTypeOK
  <2>2. Pending \subseteq Row
    BY <2>1 DEF Pending, Row, Range
  <2> QED  BY <2>2 DEF HoldsStorage, Pending
<1>2. PlcTypeOK'
  BY <1>1 DEF ScanInv, PlcTypeOK, stores, link
<1>3. DriverRuns'
  BY DEF ScanInv, DriverRuns, link
<1>4. EntryHeld'
  BY DEF ScanInv, EntryHeld, HoldsEntry
<1>5. BitsRead'
  BY <1>1 DEF ScanInv, BitsRead, link
<1> QED  BY <1>1, <1>2, <1>3, <1>4, <1>5

LEMMA RequestWriteInv ==
  ASSUME ScanInv, NEW d \in Row \ AutoRows, RequestWrite(d)
  PROVE  ScanInv'
<1>1. PICK v \in BOOLEAN : /\ db' = [db EXCEPT ![d].trig = v, ![d].msg = "SENDING"]
                          /\ asked' = [asked EXCEPT ![d] = {v}]
  BY DEF RequestWrite
<1>2. UNCHANGED <<word, cache, point, stores, link, scan, main, plc, written, got>>
  BY DEF RequestWrite
<1>3. /\ {db, cache} \subseteq [Row -> Fields] /\ {asked, written, got} \subseteq [Row -> SUBSET BOOLEAN]
      /\ db[d].msg = "IDLE" /\ db[d].read = "IDLE" /\ cache[d].msg = "IDLE" /\ cache[d].read = "IDLE"
  BY DEF ScanInv, PlcTypeOK, RequestWrite, AtRest
<1>4. /\ db' \in [Row -> Fields]
      /\ db'[d].trig = v /\ db'[d].msg = "SENDING" /\ db'[d].read = "IDLE"
      /\ \A e \in Row \ {d} : db'[e] = db[e]
  BY <1>1, <1>3 DEF Fields
<1>5. asked' \in [Row -> SUBSET BOOLEAN] /\ asked'[d] = {v} /\ \A e \in Row \ {d} : asked'[e] = asked[e]
  BY <1>1, <1>3
<1>6. /\ PlcTypeOK' /\ DriverRuns' /\ EntryHeld' /\ BitsRead'
      /\ HoldsStorage' = HoldsStorage /\ Pending' = Pending
      /\ Pending \subseteq Row
  BY <1>2, <1>3, <1>4, <1>5, UserFrame
<1>7. Requests'
  BY <1>2, <1>3, <1>4 DEF ScanInv, Requests
<1>8. Asking'
  BY <1>4, <1>5 DEF ScanInv, Asking
<1>9. Sending' /\ Reading'
  BY <1>2, <1>3, <1>4 DEF ScanInv, Sending, Reading, link
<1>10. Loaded'
  BY <1>2, <1>3, <1>4, <1>6 DEF ScanInv, Loaded
<1> QED  BY <1>6, <1>7, <1>8, <1>9, <1>10 DEF ScanInv

LEMMA RequestReadInv ==
  ASSUME ScanInv, NEW d \in Row \ AutoRows, RequestRead(d)
  PROVE  ScanInv'
<1>1. db' = [db EXCEPT ![d].read = "READING"] /\ got' = [got EXCEPT ![d] = {}]
  BY DEF RequestRead
<1>2. UNCHANGED <<word, cache, point, stores, link, scan, main, plc, asked, written>>
  BY DEF RequestRead
<1>3. /\ {db, cache} \subseteq [Row -> Fields] /\ {asked, written, got} \subseteq [Row -> SUBSET BOOLEAN]
      /\ db[d].msg = "IDLE" /\ db[d].read = "IDLE" /\ cache[d].msg = "IDLE" /\ cache[d].read = "IDLE"
  BY DEF ScanInv, PlcTypeOK, RequestRead, AtRest
<1>4. /\ db' \in [Row -> Fields]
      /\ db'[d].trig = db[d].trig /\ db'[d].msg = "IDLE" /\ db'[d].read = "READING"
      /\ \A e \in Row \ {d} : db'[e] = db[e]
  BY <1>1, <1>3 DEF Fields
<1>5. got' \in [Row -> SUBSET BOOLEAN] /\ \A e \in Row \ {d} : got'[e] = got[e]
  BY <1>1, <1>3
<1>6. /\ PlcTypeOK' /\ DriverRuns' /\ EntryHeld' /\ BitsRead'
      /\ HoldsStorage' = HoldsStorage /\ Pending' = Pending
      /\ Pending \subseteq Row
  BY <1>2, <1>3, <1>4, <1>5, UserFrame
<1>7. Requests'
  BY <1>2, <1>3, <1>4 DEF ScanInv, Requests
<1>8. Asking'
  BY <1>2, <1>4 DEF ScanInv, Asking
<1>9. Sending' /\ Reading'
  BY <1>2, <1>3, <1>4, <1>5 DEF ScanInv, Sending, Reading, link
<1>10. Loaded'
  BY <1>2, <1>3, <1>4, <1>6 DEF ScanInv, Loaded
<1> QED  BY <1>6, <1>7, <1>8, <1>9, <1>10 DEF ScanInv

LEMMA CollectInv ==
  ASSUME ScanInv, NEW d \in Row \ AutoRows, Collect(d)
  PROVE  ScanInv'
<1>1. UNCHANGED <<word, cache, point, stores, link, scan, main, plc>>
  BY DEF Collect
<1>2. /\ {db, cache} \subseteq [Row -> Fields] /\ {asked, written, got} \subseteq [Row -> SUBSET BOOLEAN]
  BY DEF ScanInv, PlcTypeOK
<1>3. CASE /\ db[d].msg = "SENDED"
           /\ db' = [db EXCEPT ![d].msg = "IDLE"]
           /\ asked' = [asked EXCEPT ![d] = {}] /\ written' = [written EXCEPT ![d] = {}]
           /\ UNCHANGED got
  <2>1. /\ db' \in [Row -> Fields]
        /\ db'[d].trig = db[d].trig /\ db'[d].msg = "IDLE" /\ db'[d].read = db[d].read
        /\ \A e \in Row \ {d} : db'[e] = db[e]
    BY <1>2, <1>3 DEF Fields
  <2>2. /\ {asked', written', got'} \subseteq [Row -> SUBSET BOOLEAN] /\ got' = got
        /\ \A e \in Row \ {d} : asked'[e] = asked[e] /\ written'[e] = written[e]
    BY <1>2, <1>3
  <2>3. /\ PlcTypeOK' /\ DriverRuns' /\ EntryHeld' /\ BitsRead'
        /\ HoldsStorage' = HoldsStorage /\ Pending' = Pending
        /\ Pending \subseteq Row
    BY <1>1, <2>1, <2>2, UserFrame
  <2>4. Requests'
    BY <1>1, <2>1 DEF ScanInv, Requests
  <2>5. Asking' /\ Sending'
    BY <1>1, <2>1, <2>2 DEF ScanInv, Asking, Sending
  <2>6. Reading'
    BY <1>1, <2>1, <2>2 DEF ScanInv, Reading, link
  <2>7. Loaded'
    BY <1>1, <1>3, <2>1, <2>3 DEF ScanInv, Loaded
  <2> QED  BY <2>3, <2>4, <2>5, <2>6, <2>7 DEF ScanInv
<1>4. CASE /\ db[d].read = "READED"
           /\ db' = [db EXCEPT ![d].read = "IDLE"]
           /\ got' = [got EXCEPT ![d] = {}]
           /\ UNCHANGED <<asked, written>>
  <2>1. /\ db' \in [Row -> Fields]
        /\ db'[d].trig = db[d].trig /\ db'[d].msg = db[d].msg /\ db'[d].read = "IDLE"
        /\ \A e \in Row \ {d} : db'[e] = db[e]
    BY <1>2, <1>4 DEF Fields
  <2>2. /\ {asked', written', got'} \subseteq [Row -> SUBSET BOOLEAN]
        /\ asked' = asked /\ written' = written
        /\ \A e \in Row \ {d} : got'[e] = got[e]
    BY <1>2, <1>4
  <2>3. /\ PlcTypeOK' /\ DriverRuns' /\ EntryHeld' /\ BitsRead'
        /\ HoldsStorage' = HoldsStorage /\ Pending' = Pending
        /\ Pending \subseteq Row
    BY <1>1, <2>1, <2>2, UserFrame
  <2>4. Requests'
    BY <1>1, <1>4, <2>1 DEF ScanInv, Requests
  <2>5. Asking' /\ Sending'
    BY <1>1, <2>1, <2>2 DEF ScanInv, Asking, Sending
  <2>6. Reading'
    BY <1>1, <2>1, <2>2 DEF ScanInv, Reading, link
  <2>7. Loaded'
    BY <1>1, <1>4, <2>1, <2>3 DEF ScanInv, Loaded
  <2> QED  BY <2>3, <2>4, <2>5, <2>6, <2>7 DEF ScanInv
<1> QED  BY <1>3, <1>4 DEF Collect
-----------------------------------------------------------------------------
(* Steps that change no row.                                                *)
LEMMA SenseInv ==
  ASSUME ScanInv, NEW d \in Row, Sense(d)
  PROVE  ScanInv'
<1>1. UNCHANGED <<word, tables, stores, link, scan, main, past>>
  BY DEF Sense
<1>2. plc' \in [Row -> BOOLEAN]
  BY DEF ScanInv, PlcTypeOK, Sense
<1>3. PlcTypeOK'
  BY <1>1, <1>2 DEF ScanInv, PlcTypeOK, HoldsStorage, tables, stores, link, past
<1>4. DriverRuns' /\ EntryHeld'
  BY <1>1 DEF ScanInv, DriverRuns, EntryHeld, HoldsEntry, link
<1>5. HoldsStorage' = HoldsStorage /\ Pending' = Pending /\ point' = point
  BY <1>1 DEF HoldsStorage, Pending, tables
<1>6. Requests' /\ Asking' /\ Sending' /\ Reading' /\ BitsRead' /\ Loaded'
  BY <1>1, <1>5, OnlyMoves DEF tables, link, past
<1> QED  BY <1>3, <1>4, <1>6 DEF ScanInv

LEMMA BeginSendInv ==
  ASSUME ScanInv, BeginSend
  PROVE  ScanInv'
<1>1. /\ UNCHANGED <<word, tables, stores, link, main, plc, past>>
      /\ scan.at = "asleep" /\ main # "reconnect" /\ scan' = [scan EXCEPT !.at = "sending"]
  BY DEF BeginSend
<1>2. /\ scan' \in [at : Phases, i : 1..Len(Rows), count : 0..AutoReadMax - 1, auto : BOOLEAN]
      /\ scan'.at = "sending"
  BY <1>1 DEF ScanInv, PlcTypeOK, Phases
<1>3. ~HoldsStorage /\ ~HoldsStorage' /\ main = "idle"
  BY <1>1, <1>2 DEF HoldsStorage, ScanInv, PlcTypeOK
<1>4. PlcTypeOK'
  BY <1>1, <1>2, <1>3 DEF ScanInv, PlcTypeOK, tables, stores, link, past
<1>5. DriverRuns' /\ EntryHeld'
  BY <1>1, <1>3 DEF ScanInv, DriverRuns, EntryHeld, link
<1>6. Requests' /\ Asking' /\ Sending' /\ Reading' /\ BitsRead' /\ Loaded'
  BY <1>1, <1>2, <1>3, OnlyMoves DEF tables, link, past
<1> QED  BY <1>4, <1>5, <1>6 DEF ScanInv

LEMMA SendNothingInv ==
  ASSUME ScanInv, SendNothing
  PROVE  ScanInv'
<1>1. /\ UNCHANGED <<word, tables, stores, link, main, plc, past>>
      /\ scan.at = "sending" /\ Step("sent")
  BY DEF SendNothing
<1>2. PlcTypeOK /\ "sent" \in Phases
  BY DEF ScanInv, Phases
<1>3. /\ scan' \in [at : Phases, i : 1..Len(Rows), count : 0..AutoReadMax - 1, auto : BOOLEAN]
      /\ scan'.at \in {"sending", "sent"}
  BY <1>1, <1>2, StepMoves
<1>4. ~HoldsStorage /\ ~HoldsStorage' /\ HoldsEntry
  BY <1>1, <1>3 DEF HoldsStorage, HoldsEntry
<1>5. PlcTypeOK'
  BY <1>1, <1>3, <1>4 DEF ScanInv, PlcTypeOK, tables, stores, link, past
<1>6. DriverRuns' /\ EntryHeld'
  BY <1>1, <1>4 DEF ScanInv, DriverRuns, EntryHeld, link
<1>7. Requests' /\ Asking' /\ Sending' /\ Reading' /\ BitsRead' /\ Loaded'
  BY <1>1, <1>3, <1>4, OnlyMoves DEF tables, link, past
<1> QED  BY <1>5, <1>6, <1>7 DEF ScanInv

LEMMA ReadNothingInv ==
  ASSUME ScanInv, ReadNothing
  PROVE  ScanInv'
<1>1. /\ UNCHANGED <<word, tables, stores, link, main, plc, past>>
      /\ scan.at = "reading" /\ Step("read")
  BY DEF ReadNothing
<1>2. PlcTypeOK /\ "read" \in Phases
  BY DEF ScanInv, Phases
<1>3. /\ scan' \in [at : Phases, i : 1..Len(Rows), count : 0..AutoReadMax - 1, auto : BOOLEAN]
      /\ scan'.at \in {"reading", "read"}
      /\ scan'.at = "reading" => Pending' \subseteq Pending
  BY <1>1, <1>2, StepMoves
<1>4. ~HoldsStorage /\ ~HoldsStorage' /\ HoldsEntry
  BY <1>1, <1>3 DEF HoldsStorage, HoldsEntry
<1>5. PlcTypeOK'
  BY <1>1, <1>3, <1>4 DEF ScanInv, PlcTypeOK, tables, stores, link, past
<1>6. DriverRuns' /\ EntryHeld'
  BY <1>1, <1>4 DEF ScanInv, DriverRuns, EntryHeld, link
<1>7. Requests' /\ Asking' /\ Sending' /\ Reading' /\ BitsRead' /\ Loaded'
  BY <1>1, <1>3, <1>4, OnlyMoves DEF tables, link, past
<1> QED  BY <1>5, <1>6, <1>7 DEF ScanInv

LEMMA BeginSyncInv ==
  ASSUME ScanInv, BeginSync
  PROVE  ScanInv'
<1>1. /\ UNCHANGED <<word, db, cache, stores, link, main, plc, past>>
      /\ scan.at = "read" /\ scan' = [scan EXCEPT !.at = "syncing"] /\ point' = db
  BY DEF BeginSync
<1>2. /\ scan' \in [at : Phases, i : 1..Len(Rows), count : 0..AutoReadMax - 1, auto : BOOLEAN]
      /\ scan'.at = "syncing" /\ scan'.i = scan.i
  BY <1>1 DEF ScanInv, PlcTypeOK, Phases
<1>3. HoldsStorage' /\ Pending' \subseteq Row
  <2>1. scan.i \in 1..Len(Rows) /\ Len(Rows) \in Nat /\ DOMAIN Rows = 1..Len(Rows)
    BY RowsAssumption DEF ScanInv, PlcTypeOK
  <2> QED  BY <1>2, <2>1 DEF Pending, Row, Range, HoldsStorage
<1>4. PlcTypeOK'
  BY <1>1, <1>2, <1>3 DEF ScanInv, PlcTypeOK, stores, link, past
<1>5. DriverRuns' /\ EntryHeld'
  BY <1>1, <1>2 DEF ScanInv, DriverRuns, EntryHeld, HoldsEntry, link
<1>6. Requests' /\ Asking' /\ Sending' /\ Reading' /\ BitsRead'
  BY <1>1, <1>2, OnlyMoves DEF link, past
<1>7. Loaded'
  BY <1>1, <1>3 DEF ScanInv, Requests, Loaded
<1> QED  BY <1>4, <1>5, <1>6, <1>7 DEF ScanInv

LEMMA UpdateStorageInv ==
  ASSUME ScanInv, UpdateStorage
  PROVE  ScanInv'
<1>1. /\ UNCHANGED <<word, tables, window, link, scan, main, plc, past>>
      /\ storage' = [d \in Area \cup Tray |-> StatusOf(d, window[d], storage[d])]
  BY DEF UpdateStorage
<1>2. storage' \in [Area \cup Tray -> {"FULL", "EMPTY"}]
  <2> SUFFICES ASSUME NEW d \in Area \cup Tray
               PROVE  StatusOf(d, window[d], storage[d]) \in {"FULL", "EMPTY"}
    BY <1>1
  <2>1. window[d] \in UNION {[1..n -> BOOLEAN] : n \in 0..MaxScan} /\ storage[d] \in {"FULL", "EMPTY"}
    BY RowsAssumption DEF ScanInv, PlcTypeOK
  <2>2. Len(window[d]) \in Nat /\ NeedTimes \in Nat
    BY <2>1, RowsAssumption
  <2>3. CASE Len(window[d]) < NeedTimes
    BY <2>1, <2>2, <2>3 DEF StatusOf
  <2>4. CASE Len(window[d]) >= NeedTimes /\ d \in Area
    BY <2>1, <2>2, <2>4, RowsAssumption DEF StatusOf
  <2>5. CASE Len(window[d]) >= NeedTimes /\ d \in Tray
    BY <2>1, <2>2, <2>5, RowsAssumption DEF StatusOf
  <2> QED  BY <2>2, <2>3, <2>4, <2>5
<1>3. HoldsStorage' = HoldsStorage /\ Pending' = Pending
  BY <1>1 DEF HoldsStorage, Pending
<1>4. PlcTypeOK'
  BY <1>1, <1>2, <1>3 DEF ScanInv, PlcTypeOK, tables, link, past
<1>5. DriverRuns' /\ EntryHeld'
  BY <1>1 DEF ScanInv, DriverRuns, EntryHeld, HoldsEntry, link
<1>6. Requests' /\ Asking' /\ Sending' /\ Reading' /\ BitsRead' /\ Loaded'
  BY <1>1, <1>3, OnlyMoves DEF tables, link, past
<1> QED  BY <1>4, <1>5, <1>6 DEF ScanInv

LEMMA PressInv ==
  ASSUME ScanInv, Press
  PROVE  ScanInv'
<1>1. /\ UNCHANGED <<word, tables, stores, link, scan, plc, past>>
      /\ ~HoldsEntry /\ main' = "reconnect"
  BY DEF Press
<1>2. HoldsStorage' = HoldsStorage /\ HoldsEntry' = HoldsEntry /\ Pending' = Pending
  BY <1>1 DEF HoldsStorage, HoldsEntry, Pending
<1>3. PlcTypeOK'
  BY <1>1, <1>2 DEF ScanInv, PlcTypeOK, tables, stores, link, past
<1>4. DriverRuns' /\ EntryHeld'
  BY <1>1, <1>2 DEF ScanInv, DriverRuns, EntryHeld, link
<1>5. Requests' /\ Asking' /\ Sending' /\ Reading' /\ BitsRead' /\ Loaded'
  BY <1>1, <1>2, OnlyMoves DEF tables, link, past
<1> QED  BY <1>3, <1>4, <1>5 DEF ScanInv

LEMMA ReCononectPLCInv ==
  ASSUME ScanInv, ReCononectPLC
  PROVE  ScanInv'
<1>1. /\ UNCHANGED <<word, db, point, stores, fail_count_, failures, scan, plc, past>>
      /\ main = "reconnect" /\ ~HoldsStorage /\ main' = "idle"
      /\ driver' = NewDriver(driver.run) /\ cache' = db /\ plc_status_' = TRUE
  BY DEF ReCononectPLC, TestCononect
<1>2. /\ driver' \in Driver /\ DriverRuns'
  <2>1. driver.run \in BOOLEAN
    BY DEF ScanInv, PlcTypeOK, Driver
  <2> QED  BY <1>1, <2>1 DEF NewDriver, Driver, Transmission, DriverRuns, Runs
<1>3. ~HoldsStorage' /\ ~HoldsEntry /\ ~HoldsEntry' /\ scan'.at # "reading"
  BY <1>1 DEF ScanInv, EntryHeld, HoldsStorage, HoldsEntry
<1>4. PlcTypeOK'
  BY <1>1, <1>2, <1>3 DEF ScanInv, PlcTypeOK, stores, past
<1>5. EntryHeld'
  BY <1>3 DEF EntryHeld
<1>6. Requests' /\ Asking' /\ Sending' /\ Reading' /\ BitsRead' /\ Loaded'
  BY <1>1, <1>3, CacheLoaded DEF past
<1> QED  BY <1>2, <1>4, <1>5, <1>6 DEF ScanInv
-----------------------------------------------------------------------------
(* What a read of a row puts into it.                                       *)
LEMMA TakenIsSet ==
  ASSUME NEW f \in [Row -> Fields], NEW d \in Row, plc \in [Row -> BOOLEAN],
         NEW g, g = Taken(f, d)
  PROVE  /\ g \in [Row -> Fields]
         /\ g[d].trig = plc[d] /\ g[d].msg \in {"IDLE", "SENDING"}
         /\ g[d].read = IF f[d].read = "AUTO" THEN "AUTO" ELSE "READED"
         /\ \A e \in Row \ {d} : g[e] = f[e]
<1> DEFINE m == IF f[d].msg = "SENDING" THEN "SENDING" ELSE "IDLE"
           r == IF f[d].read = "AUTO" THEN "AUTO" ELSE "READED"
<1>1. plc[d] \in BOOLEAN /\ f[d] \in Fields
  OBVIOUS
<1>2. m \in {"IDLE", "SENDING"} /\ r \in {"AUTO", "READED"}
  OBVIOUS
<1>3. g[d] = [trig |-> plc[d], msg |-> m, read |-> r] /\ DOMAIN g = Row
      /\ g = [e \in Row |-> IF e = d THEN g[d] ELSE f[e]]
  BY <1>1 DEF Taken, Fields
<1>4. g[d] \in Fields
  BY <1>1, <1>2, <1>3 DEF Fields
<1>5. g \in [Row -> Fields] /\ \A e \in Row \ {d} : g[e] = f[e]
  BY <1>3, <1>4
<1> QED  BY <1>2, <1>3, <1>5
-----------------------------------------------------------------------------
(* The row whose turn it is, and what its step leaves alone.                *)
LEMMA SendMsgToPLCInv ==
  ASSUME ScanInv, SendMsgToPLC
  PROVE  ScanInv'
<1> DEFINE d == Rows[scan.i]
<1>1. PICK o \in Outcomes(driver) :
        /\ plc' = IF o.acted THEN [plc EXCEPT ![d] = cache[d].trig] ELSE plc
        /\ written' = IF o.acted /\ asked[d] # {} THEN [written EXCEPT ![d] = {cache[d].trig}]
                      ELSE written
        /\ IF o.ok THEN /\ cache' = [cache EXCEPT ![d].msg = "SENDED"]
                        /\ Through(o)
                        /\ UNCHANGED storage
                   ELSE FailConnectCount(1)
  BY DEF SendMsgToPLC, fins_writeword, fins_writebit
<1>2. /\ UNCHANGED <<word, db, point, window, main, asked, got>>
      /\ scan.at = "sending" /\ Step("sent") /\ cache[d].msg = "SENDING"
  BY DEF SendMsgToPLC
<1>3. PlcTypeOK /\ "sent" \in Phases
  BY DEF ScanInv, Phases
<1>4. /\ scan' \in [at : Phases, i : 1..Len(Rows), count : 0..AutoReadMax - 1, auto : BOOLEAN]
      /\ scan'.at \in {"sending", "sent"} /\ d \in Row
  BY <1>2, <1>3, StepMoves
<1>5. ~HoldsStorage /\ ~HoldsStorage' /\ HoldsEntry
  BY <1>2, <1>4 DEF HoldsStorage, HoldsEntry
<1>6. /\ {db, cache} \subseteq [Row -> Fields] /\ {asked, written, got} \subseteq [Row -> SUBSET BOOLEAN]
      /\ cache[d].trig \in BOOLEAN
  BY <1>3, <1>4 DEF PlcTypeOK, Fields
<1>7. /\ plc' \in [Row -> BOOLEAN] /\ written' \in [Row -> SUBSET BOOLEAN]
      /\ \A e \in Row \ {d} : written'[e] = written[e]
      /\ o.acted /\ asked[d] # {} => written'[d] = {cache[d].trig}
  <2>1. plc' \in [Row -> BOOLEAN]
    BY <1>1, <1>3, <1>6 DEF PlcTypeOK
  <2> QED  BY <1>1, <1>4, <1>6, <2>1
<1>8. EntryHeld' /\ BitsRead' /\ Loaded'
  BY <1>2, <1>4, <1>5 DEF ScanInv, EntryHeld, BitsRead, Loaded
<1>9. o.ok \in BOOLEAN /\ (o.ok => o.acted)
  BY OutcomesRun DEF ScanInv, PlcTypeOK, DriverRuns
<1>10. CASE o.ok
  <2>1. /\ driver' \in Driver /\ DriverRuns' /\ UNCHANGED <<plc_status_, fail_count_, failures>>
        /\ UNCHANGED storage /\ cache' = [cache EXCEPT ![d].msg = "SENDED"]
    BY <1>1, <1>10, ThroughKeeps
  <2>2. /\ cache' \in [Row -> Fields]
        /\ cache'[d].trig = cache[d].trig /\ cache'[d].msg = "SENDED" /\ cache'[d].read = cache[d].read
        /\ \A e \in Row \ {d} : cache'[e] = cache[e]
    <3>1. cache \in [Row -> Fields] /\ "SENDED" \in {"IDLE", "SENDING", "SENDED"}
      BY <1>6
    <3> HIDE DEF d
    <3> QED  BY <1>4, <2>1, <3>1 DEF Fields
  <2>3. PlcTypeOK'
    <3>1. {db', cache'} \subseteq [Row -> Fields] /\ {asked', written', got'} \subseteq [Row -> SUBSET BOOLEAN]
      BY <1>2, <1>6, <1>7, <2>2
    <3>2. /\ plc_status_' \in BOOLEAN /\ fail_count_' \in 0..2 /\ failures' \in 0..MaxFailures
          /\ storage' \in [Area \cup Tray -> {"FULL", "EMPTY"}]
      BY <1>3, <2>1 DEF PlcTypeOK
    <3> QED  BY <1>2, <1>3, <1>4, <1>5, <1>7, <2>1, <3>1, <3>2 DEF PlcTypeOK
  <2>4. Requests' /\ Asking'
    <3>1. Requests'
      BY <1>2, <1>4, <2>2 DEF ScanInv, Requests
    <3>2. Asking'
      BY <1>2 DEF ScanInv, Asking
    <3> QED  BY <3>1, <3>2
  <2>5. Sending'
    <3>1. db[d].msg = "SENDING" => asked[d] # {} /\ written'[d] = {cache[d].trig}
      BY <1>4, <1>7, <1>9, <1>10 DEF ScanInv, Asking
    <3> QED  BY <1>2, <1>4, <1>7, <2>2, <3>1 DEF ScanInv, Sending
  <2>6. Reading'
    BY <1>2, <1>4, <2>1, <2>2 DEF ScanInv, Reading
  <2> QED  BY <1>8, <2>1, <2>3, <2>4, <2>5, <2>6 DEF ScanInv
<1>11. CASE ~o.ok
  <2>1. FailConnectCount(1)
    BY <1>1, <1>11
  <2>2. /\ cache' = db /\ plc_status_' = FALSE
        /\ failures' \in 0..MaxFailures /\ fail_count_' \in 0..2
        /\ storage' \in [Area \cup Tray -> {"FULL", "EMPTY"}]
        /\ driver' \in Driver /\ DriverRuns'
    BY <2>1, FailKeeps
  <2>3. PlcTypeOK'
    BY <1>2, <1>3, <1>4, <1>5, <1>6, <1>7, <2>2, ZenonT(60) DEF PlcTypeOK
  <2>4. Requests' /\ Asking' /\ Sending' /\ Reading'
    BY <1>2, <1>4, <1>5, <2>2, CacheLoaded
  <2> QED  BY <1>8, <2>2, <2>3, <2>4 DEF ScanInv
<1> QED  BY <1>9, <1>10, <1>11

LEMMA ReadIOInv ==
  ASSUME ScanInv, ReadIO
  PROVE  ScanInv'
<1> DEFINE count == scan.count + 1
           auto == count = AutoReadMax
           taking == {d \in Row \ word : cache[d].read \in {"READING", "AUTO"}}
           wanted == {d \in Row \ word : cache[d].read = "READING" \/ (auto /\ cache[d].read = "AUTO")}
<1>1. /\ UNCHANGED <<word, db, point, window, main, plc, asked, written>>
      /\ scan.at = "sent" /\ main # "reconnect"
      /\ scan' = [at |-> "reading", i |-> 1, count |-> IF auto THEN 0 ELSE count, auto |-> auto]
  BY DEF ReadIO
<1>2. /\ PlcTypeOK /\ cache \in [Row -> Fields] /\ got \in [Row -> SUBSET BOOLEAN]
      /\ plc \in [Row -> BOOLEAN] /\ main = "idle"
  BY <1>1 DEF ScanInv, PlcTypeOK
<1>3. /\ scan' \in [at : Phases, i : 1..Len(Rows), count : 0..AutoReadMax - 1, auto : BOOLEAN]
      /\ scan'.at = "reading" /\ Pending' \subseteq Row
  <2>1. scan.count \in 0..AutoReadMax - 1 /\ AutoReadMax \in Nat \ {0} /\ Len(Rows) \in Nat \ {0}
    BY RowsAssumption DEF ScanInv, PlcTypeOK
  <2>2. (IF auto THEN 0 ELSE count) \in 0..AutoReadMax - 1 /\ 1 \in 1..Len(Rows) /\ auto \in BOOLEAN
    BY <2>1
  <2>3. scan' \in [at : Phases, i : 1..Len(Rows), count : 0..AutoReadMax - 1, auto : BOOLEAN]
    <3> HIDE DEF auto, count
    <3> QED  BY <1>1, <2>2 DEF Phases
  <2>4. scan'.at = "reading" /\ scan'.i = 1
    BY <1>1
  <2>5. Pending' \subseteq Row
    BY <2>1, <2>4, RowsAssumption DEF Pending, Row, Range
  <2> QED  BY <2>3, <2>4, <2>5
<1>4. ~HoldsStorage /\ ~HoldsStorage'
  BY <1>1, <1>3 DEF HoldsStorage
<1>5. EntryHeld' /\ Loaded'
  BY <1>1, <1>2, <1>4 DEF EntryHeld, Loaded
<1>6. CASE wanted = {} /\ UNCHANGED <<cache, storage, link, got>>
  <2>1. PlcTypeOK'
    BY <1>1, <1>2, <1>3, <1>4, <1>6 DEF PlcTypeOK, link
  <2>2. DriverRuns'
    BY <1>6 DEF ScanInv, DriverRuns, link
  <2>3. BitsRead'
    <3> SUFFICES ASSUME NEW e \in Row \ word PROVE cache[e].read # "READING"
      BY <1>1, <1>3, <1>6 DEF BitsRead
    <3> QED  BY <1>6
  <2>4. Requests' /\ Asking' /\ Sending' /\ Reading'
    BY <1>1, <1>6, OnlyMoves DEF link
  <2> QED  BY <1>5, <2>1, <2>2, <2>3, <2>4 DEF ScanInv
<1>7. ASSUME NEW o \in Outcomes(driver), o.ok,
             cache' = [d \in Row |-> IF d \in taking THEN Taken(cache, d)[d] ELSE cache[d]],
             got' = [d \in Row |-> IF d \in taking \ AutoRows THEN {plc[d]} ELSE got[d]],
             Through(o), UNCHANGED storage
      PROVE  ScanInv'
  <2>1. /\ driver' \in Driver /\ DriverRuns' /\ UNCHANGED <<plc_status_, fail_count_, failures>>
    BY <1>7, ThroughKeeps
  <2>2. ASSUME NEW e \in taking
        PROVE  /\ cache'[e] \in Fields
               /\ cache'[e].trig = plc[e] /\ cache'[e].msg \in {"IDLE", "SENDING"}
               /\ cache'[e].read = IF cache[e].read = "AUTO" THEN "AUTO" ELSE "READED"
               /\ e \notin AutoRows => got'[e] = {plc[e]}
    <3>1. e \in Row /\ cache'[e] = Taken(cache, e)[e] /\ (e \notin AutoRows => got'[e] = {plc[e]})
      BY <1>7
    <3>2. Taken(cache, e)[e] \in Fields /\ Taken(cache, e)[e].trig = plc[e]
          /\ Taken(cache, e)[e].msg \in {"IDLE", "SENDING"}
          /\ Taken(cache, e)[e].read = IF cache[e].read = "AUTO" THEN "AUTO" ELSE "READED"
      BY <1>2, <3>1, TakenIsSet
    <3> QED  BY <3>1, <3>2
  <2>3. ASSUME NEW e \in Row, e \notin taking
        PROVE  cache'[e] = cache[e] /\ got'[e] = got[e]
    BY <1>7, <2>3
  <2>4. cache' \in [Row -> Fields] /\ got' \in [Row -> SUBSET BOOLEAN]
    <3>1. cache' = [e \in Row |-> cache'[e]] /\ \A e \in Row : cache'[e] \in Fields
      BY <1>2, <1>7, <2>2, <2>3
    <3>2. got' \in [Row -> SUBSET BOOLEAN]
      BY <1>2, <1>7
    <3> QED  BY <3>1, <3>2
  <2>5. PlcTypeOK'
    BY <1>1, <1>2, <1>3, <1>4, <1>7, <2>1, <2>4 DEF PlcTypeOK
  <2>6. Requests'
    <3> SUFFICES ASSUME NEW e \in Row
                 PROVE  /\ db[e].read = "AUTO" <=> e \in AutoRows
                        /\ cache'[e].read = "AUTO" <=> e \in AutoRows
                        /\ e \in AutoRows => db[e].msg = "IDLE"
                        /\ db[e].msg # "IDLE" => db[e].read \notin {"READING", "READED"} /\ cache'[e].read # "READING"
                        /\ db[e].msg = "SENDED" => cache'[e].msg = "SENDED"
                        /\ db[e].read = "READED" => cache'[e].read = "READED"
      BY <1>1 DEF Requests
    <3>1. CASE e \in taking
      BY <2>2, <3>1 DEF ScanInv, Requests
    <3>2. CASE e \notin taking
      BY <2>3, <3>2 DEF ScanInv, Requests
    <3> QED  BY <3>1, <3>2
  <2>7. Asking'
    BY <1>1 DEF ScanInv, Asking
  <2>8. Sending'
    <3> SUFFICES ASSUME NEW e \in Row, db[e].msg = "SENDING", cache'[e].msg = "SENDED"
                 PROVE  written[e] = {cache'[e].trig}
      BY <1>1 DEF Sending
    <3>1. e \notin taking
      BY <2>2
    <3> QED  BY <2>3, <3>1 DEF ScanInv, Sending
  <2>9. Reading'
    <3> SUFFICES ASSUME NEW e \in Row, db[e].read = "READING", cache'[e].read = "READED"
                 PROVE  got'[e] = {cache'[e].trig} \/ (e \notin word /\ ~plc_status_)
      BY <1>1, <2>1 DEF Reading
    <3>1. CASE e \in taking
      BY <2>2, <3>1 DEF ScanInv, Requests
    <3>2. CASE e \notin taking
      BY <2>3, <3>2 DEF ScanInv, Reading
    <3> QED  BY <3>1, <3>2
  <2>10. BitsRead'
    <3> SUFFICES ASSUME NEW e \in Row \ word PROVE cache'[e].read # "READING"
      BY <1>1, <1>3 DEF BitsRead
    <3>1. CASE e \in taking
      BY <2>2, <3>1
    <3>2. CASE e \notin taking
      BY <2>3, <3>2
    <3> QED  BY <3>1, <3>2
  <2> QED  BY <1>5, <2>1, <2>5, <2>6, <2>7, <2>8, <2>9, <2>10 DEF ScanInv
<1>8. CASE FailConnectCount(1) /\ UNCHANGED got
  <2>1. /\ cache' = db /\ plc_status_' = FALSE
        /\ failures' \in 0..MaxFailures /\ fail_count_' \in 0..2
        /\ storage' \in [Area \cup Tray -> {"FULL", "EMPTY"}]
        /\ driver' \in Driver /\ DriverRuns'
    BY <1>8, FailKeeps
  <2>2. PlcTypeOK'
    BY <1>1, <1>2, <1>3, <1>4, <1>8, <2>1 DEF PlcTypeOK
  <2>3. Requests' /\ Asking' /\ Sending' /\ Reading' /\ BitsRead'
    BY <1>1, <1>4, <2>1, CacheLoaded
  <2> QED  BY <1>5, <2>1, <2>2, <2>3 DEF ScanInv
<1>9. \/ wanted = {} /\ UNCHANGED <<cache, storage, link, got>>
      \/ \E o \in Outcomes(driver) :
            /\ o.ok => /\ cache' = [d \in Row |-> IF d \in taking THEN Taken(cache, d)[d] ELSE cache[d]]
                       /\ got' = [d \in Row |-> IF d \in taking \ AutoRows THEN {plc[d]} ELSE got[d]]
                       /\ Through(o) /\ UNCHANGED storage
            /\ ~o.ok => FailConnectCount(1) /\ UNCHANGED got
  BY DEF ReadIO, fins_readbit
<1> HIDE DEF wanted, taking
<1> QED  BY <1>6, <1>7, <1>8, <1>9

(* The samples of a row stay no more than max_scan.                         *)
Windows == UNION {[1..n -> BOOLEAN] : n \in 0..MaxScan}

LEMMA WindowMoves ==
  ASSUME window \in [AutoRows -> Windows], NEW d \in AutoRows, NEW v \in BOOLEAN, Push(d, v) \/ Pop(d)
  PROVE  window' \in [AutoRows -> Windows]
<1>1. MaxScan \in Nat \ {0}
  BY RowsAssumption
<1>2. PICK n \in 0..MaxScan : window[d] \in [1..n -> BOOLEAN]
  BY DEF Windows
<1>3. window[d] \in Seq(BOOLEAN) /\ Len(window[d]) = n /\ n \in Nat /\ n <= MaxScan
  BY <1>1, <1>2
<1>4. ASSUME NEW s \in Seq(BOOLEAN), Len(s) <= MaxScan
      PROVE  s \in Windows
  <2>1. s \in [1..Len(s) -> BOOLEAN] /\ Len(s) \in 0..MaxScan
    BY <1>1, <1>4
  <2> QED  BY <2>1 DEF Windows
<1>5. CASE Push(d, v)
  <2> DEFINE s == IF Len(window[d]) = MaxScan THEN Append(Tail(window[d]), v) ELSE Append(window[d], v)
  <2>1. s \in Seq(BOOLEAN) /\ Len(s) <= MaxScan
    <3>1. CASE Len(window[d]) = MaxScan
      <4>1. window[d] # <<>>
        BY <1>1, <3>1
      <4>2. Tail(window[d]) \in Seq(BOOLEAN) /\ Len(Tail(window[d])) = MaxScan - 1
        BY <1>1, <1>3, <3>1, <4>1
      <4>3. /\ Append(Tail(window[d]), v) \in Seq(BOOLEAN)
            /\ Len(Append(Tail(window[d]), v)) = MaxScan - 1 + 1
        BY <4>2
      <4> QED  BY <1>1, <3>1, <4>3
    <3>2. CASE Len(window[d]) # MaxScan
      <4>1. /\ Append(window[d], v) \in Seq(BOOLEAN)
            /\ Len(Append(window[d], v)) = n + 1
        BY <1>3
      <4> QED  BY <1>1, <1>3, <3>2, <4>1
    <3> QED  BY <3>1, <3>2
  <2>2. s \in Windows
    BY <1>4, <2>1
  <2>3. window' = [window EXCEPT ![d] = s]
    BY <1>5 DEF Push
  <2> HIDE DEF s
  <2> QED  BY <2>2, <2>3
<1>6. CASE Pop(d)
  <2> DEFINE s == IF window[d] = <<>> THEN window[d] ELSE Tail(window[d])
  <2>1. s \in Seq(BOOLEAN) /\ Len(s) <= MaxScan
    <3>1. CASE window[d] = <<>>
      BY <1>3, <3>1
    <3>2. CASE window[d] # <<>>
      <4>1. Tail(window[d]) \in Seq(BOOLEAN) /\ Len(Tail(window[d])) = n - 1
        BY <1>3, <3>2
      <4> QED  BY <1>1, <1>3, <3>2, <4>1
    <3> QED  BY <3>1, <3>2
  <2>2. s \in Windows
    BY <1>4, <2>1
  <2>3. window' = [window EXCEPT ![d] = s]
    BY <1>6 DEF Pop
  <2> HIDE DEF s
  <2> QED  BY <2>2, <2>3
<1> QED  BY <1>5, <1>6

LEMMA ReadBitInv ==
  ASSUME ScanInv, ReadBit
  PROVE  ScanInv'
<1> DEFINE d == Rows[scan.i]
<1>1. /\ UNCHANGED <<word, db, point, storage, link, main, plc, past>>
      /\ scan.at = "reading" /\ d \notin word /\ Step("read")
  BY DEF ReadBit
<1>2. /\ PlcTypeOK /\ cache \in [Row -> Fields] /\ window \in [AutoRows -> Windows] /\ "read" \in Phases
  BY DEF ScanInv, PlcTypeOK, Windows, Phases
<1>3. /\ scan' \in [at : Phases, i : 1..Len(Rows), count : 0..AutoReadMax - 1, auto : BOOLEAN]
      /\ scan'.at \in {"reading", "read"} /\ d \in Row /\ d \in Pending
      /\ scan'.at = "reading" => Pending' \subseteq Pending \ {d}
  BY <1>1, <1>2, StepMoves
<1>4. ~HoldsStorage /\ ~HoldsStorage' /\ HoldsEntry
  BY <1>1, <1>3 DEF HoldsStorage, HoldsEntry
<1>5. EntryHeld' /\ Loaded' /\ DriverRuns'
  BY <1>1, <1>4 DEF ScanInv, EntryHeld, Loaded, DriverRuns, link
<1> HIDE DEF d
<1>6. CASE cache[d].read = "READING" /\ cache' = [cache EXCEPT ![d].read = "READED"] /\ UNCHANGED window
  <2>1. /\ cache' \in [Row -> Fields]
        /\ cache'[d].trig = cache[d].trig /\ cache'[d].msg = cache[d].msg /\ cache'[d].read = "READED"
        /\ \A e \in Row \ {d} : cache'[e] = cache[e]
    BY <1>2, <1>3, <1>6 DEF Fields
  <2>2. PlcTypeOK'
    BY <1>1, <1>2, <1>3, <1>4, <1>6, <2>1 DEF PlcTypeOK, link, past
  <2>3. ~plc_status_
    BY <1>1, <1>3, <1>6 DEF ScanInv, BitsRead
  <2>4. Requests' /\ Asking'
    <3>1. Requests'
      BY <1>1, <1>3, <1>6, <2>1 DEF ScanInv, Requests
    <3>2. Asking'
      BY <1>1 DEF ScanInv, Asking, past
    <3> QED  BY <3>1, <3>2
  <2>5. Sending'
    BY <1>1, <1>3, <2>1 DEF ScanInv, Sending, past
  <2>6. Reading'
    BY <1>1, <1>3, <2>1, <2>3 DEF ScanInv, Reading, past, link
  <2>7. BitsRead'
    BY <1>1, <2>3 DEF BitsRead, link
  <2> QED  BY <1>5, <2>2, <2>4, <2>5, <2>6, <2>7 DEF ScanInv
<1>7. CASE cache[d].read = "AUTO" /\ Push(d, cache[d].trig) /\ UNCHANGED cache
  <2>1. d \in AutoRows /\ cache[d].trig \in BOOLEAN
    BY <1>2, <1>3, <1>7 DEF ScanInv, Requests, Fields
  <2>2. window' \in [AutoRows -> Windows]
    BY <1>2, <1>7, <2>1, WindowMoves
  <2>3. PlcTypeOK'
    BY <1>1, <1>2, <1>3, <1>4, <1>7, <2>2 DEF PlcTypeOK, Windows, link, past
  <2>4. Requests' /\ Asking' /\ Sending' /\ Reading' /\ BitsRead'
    BY <1>1, <1>3, <1>7, OnlyMoves DEF link, past
  <2> QED  BY <1>5, <2>3, <2>4 DEF ScanInv
<1>8. \/ cache[d].read = "READING" /\ cache' = [cache EXCEPT ![d].read = "READED"] /\ UNCHANGED window
      \/ cache[d].read = "AUTO" /\ Push(d, cache[d].trig) /\ UNCHANGED cache
  BY DEF ReadBit, d
<1> QED  BY <1>6, <1>7, <1>8

LEMMA ReadWordInv ==
  ASSUME ScanInv, ReadWord
  PROVE  ScanInv'
<1> DEFINE d == Rows[scan.i]
<1>1. /\ UNCHANGED <<word, db, point, main, plc, asked, written>>
      /\ scan.at = "reading" /\ d \in word /\ Step("read")
      /\ cache[d].read \in {"READING", "AUTO"}
  BY DEF ReadWord
<1>2. /\ PlcTypeOK /\ cache \in [Row -> Fields] /\ window \in [AutoRows -> Windows] /\ "read" \in Phases
      /\ plc \in [Row -> BOOLEAN] /\ got \in [Row -> SUBSET BOOLEAN]
  BY DEF ScanInv, PlcTypeOK, Windows, Phases
<1>3. /\ scan' \in [at : Phases, i : 1..Len(Rows), count : 0..AutoReadMax - 1, auto : BOOLEAN]
      /\ scan'.at \in {"reading", "read"} /\ d \in Row /\ d \in Pending
      /\ scan'.at = "reading" => Pending' \subseteq Pending \ {d}
  BY <1>1, <1>2, StepMoves
<1>4. ~HoldsStorage /\ ~HoldsStorage' /\ HoldsEntry
  BY <1>1, <1>3 DEF HoldsStorage, HoldsEntry
<1>5. EntryHeld' /\ Loaded'
  BY <1>1, <1>4 DEF ScanInv, EntryHeld, Loaded
<1>6. PICK o \in Outcomes(driver) :
        IF o.ok THEN /\ cache' = Taken(cache, d)
                     /\ got' = [got EXCEPT ![d] = {plc[d]}]
                     /\ IF cache[d].read = "AUTO" THEN Push(d, plc[d]) ELSE UNCHANGED window
                     /\ Through(o)
                     /\ UNCHANGED storage
                ELSE /\ FailConnectCount(2)
                     /\ IF cache[d].read = "AUTO" THEN Pop(d) ELSE UNCHANGED window
                     /\ UNCHANGED got
  BY DEF ReadWord, fins_readword
<1> HIDE DEF d
<1>7. cache[d].read = "AUTO" => d \in AutoRows
  BY <1>3 DEF ScanInv, Requests
<1>8. window' \in [AutoRows -> Windows]
  <2>1. plc[d] \in BOOLEAN
    BY <1>2, <1>3
  <2>2. CASE cache[d].read = "AUTO"
    BY <1>2, <1>6, <1>7, <2>1, <2>2, WindowMoves
  <2> QED  BY <1>2, <1>6, <2>2
<1>9. CASE o.ok
  <2>1. /\ driver' \in Driver /\ DriverRuns' /\ UNCHANGED <<plc_status_, fail_count_, failures>>
        /\ UNCHANGED storage
    BY <1>6, <1>9, ThroughKeeps
  <2>2. /\ cache' \in [Row -> Fields]
        /\ cache'[d].trig = plc[d] /\ cache'[d].msg \in {"IDLE", "SENDING"}
        /\ cache'[d].read = IF cache[d].read = "AUTO" THEN "AUTO" ELSE "READED"
        /\ \A e \in Row \ {d} : cache'[e] = cache[e]
    BY <1>2, <1>3, <1>6, <1>9, TakenIsSet
  <2>3. /\ got' \in [Row -> SUBSET BOOLEAN] /\ got'[d] = {plc[d]}
        /\ \A e \in Row \ {d} : got'[e] = got[e]
    BY <1>2, <1>3, <1>6, <1>9
  <2>4. PlcTypeOK'
    BY <1>1, <1>2, <1>3, <1>4, <1>8, <2>1, <2>2, <2>3 DEF PlcTypeOK, Windows
  <2>5. Requests'
    BY <1>1, <1>3, <2>2 DEF ScanInv, Requests
  <2>6. Asking'
    BY <1>1 DEF ScanInv, Asking
  <2>7. Sending'
    BY <1>1, <1>3, <2>2 DEF ScanInv, Sending
  <2>8. Reading'
    BY <1>1, <1>3, <2>1, <2>2, <2>3 DEF ScanInv, Reading
  <2>9. BitsRead'
    <3> SUFFICES ASSUME scan'.at = "reading", NEW e \in Pending' \ word, cache'[e].read = "READING"
                 PROVE  ~plc_status_
      BY <1>1, <2>1 DEF BitsRead
    <3>1. e \in Pending \ word /\ e # d /\ Pending \subseteq Row
      <4>1. scan.i \in 1..Len(Rows) /\ Len(Rows) \in Nat /\ DOMAIN Rows = 1..Len(Rows)
        BY RowsAssumption DEF ScanInv, PlcTypeOK
      <4>2. Pending \subseteq Row
        BY <4>1 DEF Pending, Row, Range
      <4> QED  BY <1>1, <1>3, <4>2
    <3>2. cache[e].read = "READING"
      BY <2>2, <3>1
    <3> QED  BY <1>1, <3>1, <3>2 DEF ScanInv, BitsRead
  <2> QED  BY <1>5, <2>1, <2>4, <2>5, <2>6, <2>7, <2>8, <2>9 DEF ScanInv
<1>10. CASE ~o.ok
  <2>1. FailConnectCount(2) /\ UNCHANGED got
    BY <1>6, <1>10
  <2>2. /\ cache' = db /\ plc_status_' = FALSE
        /\ failures' \in 0..MaxFailures /\ fail_count_' \in 0..2
        /\ storage' \in [Area \cup Tray -> {"FULL", "EMPTY"}]
        /\ driver' \in Driver /\ DriverRuns'
    BY <2>1, FailKeeps
  <2>3. PlcTypeOK'
    BY <1>1, <1>2, <1>3, <1>4, <1>8, <2>1, <2>2 DEF PlcTypeOK, Windows
  <2>4. Requests' /\ Asking' /\ Sending' /\ Reading' /\ BitsRead'
    BY <1>1, <1>4, <2>2, CacheLoaded
  <2> QED  BY <1>5, <2>2, <2>3, <2>4 DEF ScanInv
<1> QED  BY <1>9, <1>10
-----------------------------------------------------------------------------
(* The row whose turn it is, and what DatabaseIO makes of it: the message is *)
(* reported, or the value read is.                                          *)
Now == Rows[scan.i]
Sent == SyncMsg(cache[Now], point[Now]).msg # point[Now].msg
Answers == cache[Now].read = "READED" /\ point[Now].read = "READING"

LEMMA SyncMsgIs ==
  ASSUME NEW c \in Fields, NEW p \in Fields
  PROVE  /\ SyncMsg(c, p).c \in Fields /\ SyncMsg(c, p).c.read = c.read
         /\ SyncMsg(c, p).msg \in {"IDLE", "SENDING", "SENDED"}
         /\ SyncMsg(c, p).msg # p.msg =>
               /\ c.msg = "SENDED" /\ p.msg = "SENDING" /\ c.trig = p.trig
               /\ SyncMsg(c, p).c = c /\ SyncMsg(c, p).msg = "SENDED"
         /\ SyncMsg(c, p).msg = p.msg => SyncMsg(c, p).c.msg = p.msg
         /\ p.msg # "SENDING" => SyncMsg(c, p).c.trig = c.trig
<1>1. CASE c.msg = "SENDED" /\ p.msg = "SENDING" /\ c.trig = p.trig
  <2>1. SyncMsg(c, p) = [c |-> c, msg |-> "SENDED"]
    BY <1>1 DEF SyncMsg
  <2> QED  BY <1>1, <2>1
<1>2. CASE c.msg = "SENDED" /\ p.msg = "SENDING" /\ c.trig # p.trig
  <2> DEFINE new == [c EXCEPT !.trig = p.trig, !.msg = "SENDING"]
  <2>1. SyncMsg(c, p) = [c |-> new, msg |-> p.msg]
    BY <1>2 DEF SyncMsg
  <2>2. new \in Fields /\ new.msg = "SENDING" /\ new.read = c.read
    BY DEF Fields
  <2> HIDE DEF new
  <2>3. SyncMsg(c, p).c = new /\ SyncMsg(c, p).msg = p.msg
    BY <2>1
  <2> QED  BY <1>2, <2>2, <2>3
<1>3. CASE ~(c.msg = "SENDED" /\ p.msg = "SENDING")
  <2> DEFINE new == [c EXCEPT !.msg = p.msg]
  <2>1. SyncMsg(c, p) = [c |-> new, msg |-> p.msg]
    BY <1>3 DEF SyncMsg
  <2>2. /\ new \in Fields /\ new.msg = p.msg /\ new.read = c.read /\ new.trig = c.trig
        /\ p.msg \in {"IDLE", "SENDING", "SENDED"}
    BY DEF Fields
  <2> HIDE DEF new
  <2>3. SyncMsg(c, p).c = new /\ SyncMsg(c, p).msg = p.msg
    BY <2>1
  <2> QED  BY <2>2, <2>3
<1> QED  BY <1>1, <1>2, <1>3

LEMMA SyncIs ==
  ASSUME ScanInv, Sync
  PROVE  /\ Now \in Row /\ Now \in Pending /\ db' \in [Row -> Fields] /\ cache' \in [Row -> Fields]
         /\ \A e \in Row \ {Now} : db'[e] = db[e] /\ cache'[e] = cache[e]
         /\ db'[Now].msg = IF Sent THEN "SENDED" ELSE db[Now].msg
         /\ db'[Now].read = IF Answers THEN "READED" ELSE db[Now].read
         /\ db'[Now].msg = "SENDING" => db'[Now].trig = db[Now].trig
         /\ cache'[Now].msg = IF Sent THEN "SENDED" ELSE point[Now].msg
         /\ cache'[Now].read = IF Answers THEN "READED" ELSE point[Now].read
         /\ Sent => db[Now].msg = "SENDING" /\ cache[Now].msg = "SENDED" /\ cache[Now].trig = db[Now].trig
         /\ Answers => /\ db[Now].read = "READING" /\ cache[Now].read = "READED" /\ db[Now].msg = "IDLE"
                       /\ db'[Now].trig = cache[Now].trig
<1> DEFINE d == Now
           p == point[d]
           s == SyncMsg(cache[d], p)
           show == p.read = "AUTO" /\ cache[d].read = "AUTO" /\ s.c.trig # p.trig
<1>1. /\ scan.at = "syncing" /\ Step("asleep")
      /\ cache' = [cache EXCEPT ![d] = [s.c EXCEPT !.read = IF Answers THEN @ ELSE p.read]]
      /\ db' = [db EXCEPT ![d].msg = IF s.msg # p.msg THEN s.msg ELSE @,
                          ![d].trig = IF Answers \/ show THEN s.c.trig ELSE @,
                          ![d].read = IF Answers THEN "READED" ELSE @]
  BY DEF Sync, Now, Answers
<1>2. /\ db \in [Row -> Fields] /\ cache \in [Row -> Fields] /\ point \in [Row -> Fields] /\ HoldsStorage
  BY <1>1 DEF ScanInv, PlcTypeOK, HoldsStorage
<1>3. d \in Row /\ d \in Pending
  BY <1>1, StepMoves DEF ScanInv, Phases, Now
<1>4. cache[d] \in Fields /\ p \in Fields /\ db[d] \in Fields
  BY <1>2, <1>3
<1>5. /\ s.c \in Fields /\ s.c.read = cache[d].read /\ s.msg \in {"IDLE", "SENDING", "SENDED"}
      /\ s.msg # p.msg => /\ cache[d].msg = "SENDED" /\ p.msg = "SENDING" /\ cache[d].trig = p.trig
                          /\ s.c = cache[d] /\ s.msg = "SENDED"
      /\ s.msg = p.msg => s.c.msg = p.msg
      /\ p.msg # "SENDING" => s.c.trig = cache[d].trig
  BY <1>4, SyncMsgIs
<1>6. Sent <=> s.msg # p.msg
  BY DEF Sent
<1>7. /\ p.msg = "SENDING" => db[d].msg = "SENDING" /\ db[d].trig = p.trig
      /\ p.read = "READING" => db[d].read = "READING"
      /\ p.read = "AUTO" => d \in AutoRows
  BY <1>2, <1>3 DEF ScanInv, Loaded
<1>8. /\ db[d].msg # "IDLE" => db[d].read \notin {"READING", "READED"}
      /\ d \in AutoRows => db[d].msg = "IDLE"
  BY <1>3 DEF ScanInv, Requests
<1> HIDE DEF d, s
<1>9. /\ cache'[d] = [s.c EXCEPT !.read = IF Answers THEN s.c.read ELSE p.read]
      /\ \A e \in Row \ {d} : cache'[e] = cache[e]
  BY <1>1, <1>2, <1>3
<1>10. /\ cache'[d] \in Fields /\ cache'[d].msg = s.c.msg
       /\ cache'[d].read = IF Answers THEN s.c.read ELSE p.read
  BY <1>4, <1>5, <1>9 DEF Fields
<1>11. cache' \in [Row -> Fields]
  BY <1>1, <1>2, <1>9, <1>10
<1> HIDE DEF show
<1>12. /\ db' \in [Row -> Fields]
       /\ \A e \in Row \ {d} : db'[e] = db[e]
       /\ db'[d].msg = IF s.msg # p.msg THEN s.msg ELSE db[d].msg
       /\ db'[d].trig = IF Answers \/ show THEN s.c.trig ELSE db[d].trig
       /\ db'[d].read = IF Answers THEN "READED" ELSE db[d].read
  <2>1. s.c.trig \in BOOLEAN
    BY <1>5 DEF Fields
  <2> DEFINE m == IF s.msg # p.msg THEN s.msg ELSE db[d].msg
             t == IF Answers \/ show THEN s.c.trig ELSE db[d].trig
             r == IF Answers THEN "READED" ELSE db[d].read
  <2>2. db' = [db EXCEPT ![d].msg = m, ![d].trig = t, ![d].read = r]
    BY <1>1
  <2>3. db'[d] = [trig |-> t, msg |-> m, read |-> r]
    <3>1. /\ m \in {"IDLE", "SENDING", "SENDED"} /\ t \in BOOLEAN
          /\ r \in {"IDLE", "READING", "READED", "AUTO"}
      BY <1>4, <1>5, <2>1 DEF Fields
    <3> HIDE DEF m, t, r, p
    <3>2. ASSUME NEW f \in [Row -> Fields], NEW e \in Row, NEW g,
                 g = [f EXCEPT ![e].msg = m, ![e].trig = t, ![e].read = r]
          PROVE  g[e] = [trig |-> t, msg |-> m, read |-> r]
      BY <3>1, <3>2, ZenonT(60) DEF Fields
    <3> QED  BY <1>2, <1>3, <2>2, <3>2
  <2>4. db'[d] \in Fields
    BY <1>4, <1>5, <2>1, <2>3 DEF Fields
  <2>5. DOMAIN db' = Row /\ db' = [e \in Row |-> db'[e]] /\ \A e \in Row \ {d} : db'[e] = db[e]
    BY <1>1, <1>2, <1>3
  <2>6. db' \in [Row -> Fields]
    BY <1>2, <2>4, <2>5
  <2> QED  BY <2>3, <2>5, <2>6
<1>13. show => d \in AutoRows
  BY <1>7 DEF show
<1>14. Answers => /\ db[d].read = "READING" /\ cache[d].read = "READED" /\ db[d].msg = "IDLE"
                 /\ s.c.trig = cache[d].trig
  BY <1>4, <1>5, <1>7, <1>8 DEF Answers, d, Fields
<1>15. db'[d].msg = "SENDING" => db'[d].trig = db[d].trig
  BY <1>5, <1>8, <1>12, <1>13, <1>14
<1>16. Sent => db[d].msg = "SENDING" /\ cache[d].msg = "SENDED" /\ cache[d].trig = db[d].trig
  BY <1>5, <1>6, <1>7
<1>17. /\ cache'[d].msg = IF Sent THEN "SENDED" ELSE p.msg
       /\ cache'[d].read = IF Answers THEN "READED" ELSE p.read
       /\ db'[d].msg = IF Sent THEN "SENDED" ELSE db[d].msg
  BY <1>5, <1>6, <1>10, <1>12, <1>14
<1>18. Answers => db'[d].trig = cache[d].trig
  BY <1>12, <1>14
<1> QED  BY <1>3, <1>9, <1>11, <1>12, <1>14, <1>15, <1>16, <1>17, <1>18 DEF d

LEMMA SyncInv ==
  ASSUME ScanInv, Sync
  PROVE  ScanInv'
<1>1. /\ UNCHANGED <<word, stores, link, main, plc, past>>
      /\ scan.at = "syncing" /\ Step("asleep")
      /\ point' = IF scan.i < Len(Rows) THEN point ELSE <<>>
  BY DEF Sync
<1>2. PlcTypeOK /\ "asleep" \in Phases /\ HoldsStorage /\ point \in [Row -> Fields]
  BY <1>1 DEF ScanInv, PlcTypeOK, Phases, HoldsStorage
<1>3. /\ scan' \in [at : Phases, i : 1..Len(Rows), count : 0..AutoReadMax - 1, auto : BOOLEAN]
      /\ scan'.at \in {"syncing", "asleep"}
      /\ scan'.at = "syncing" => scan.i < Len(Rows) /\ Pending' \subseteq Pending \ {Now}
      /\ scan'.at # "syncing" => ~(scan.i < Len(Rows))
  BY <1>1, <1>2, StepMoves DEF Now
<1>4. /\ Now \in Row /\ Now \in Pending /\ db' \in [Row -> Fields] /\ cache' \in [Row -> Fields]
      /\ \A e \in Row \ {Now} : db'[e] = db[e] /\ cache'[e] = cache[e]
      /\ db'[Now].msg = IF Sent THEN "SENDED" ELSE db[Now].msg
      /\ db'[Now].read = IF Answers THEN "READED" ELSE db[Now].read
      /\ db'[Now].msg = "SENDING" => db'[Now].trig = db[Now].trig
      /\ cache'[Now].msg = IF Sent THEN "SENDED" ELSE point[Now].msg
      /\ cache'[Now].read = IF Answers THEN "READED" ELSE point[Now].read
      /\ Sent => db[Now].msg = "SENDING" /\ cache[Now].msg = "SENDED" /\ cache[Now].trig = db[Now].trig
      /\ Answers => db[Now].read = "READING" /\ cache[Now].read = "READED" /\ db[Now].msg = "IDLE"
  BY SyncIs
<1>5. /\ point[Now].msg = "SENDED" => db[Now].msg # "SENDING"
      /\ db[Now].msg = "SENDED" => point[Now].msg = "SENDED"
      /\ point[Now].read = "READING" => db[Now].read = "READING"
      /\ point[Now].read = "READED" => db[Now].read # "READING"
      /\ db[Now].read = "READED" => point[Now].read = "READED"
      /\ point[Now].read = "AUTO" <=> Now \in AutoRows
  BY <1>2, <1>4 DEF ScanInv, Loaded
<1>6. PlcTypeOK'
  <2>1. point' \in IF HoldsStorage' THEN [Row -> Fields] ELSE {<<>>}
    BY <1>1, <1>2, <1>3 DEF HoldsStorage
  <2> QED  BY <1>1, <1>2, <1>3, <1>4, <2>1 DEF PlcTypeOK, stores, link, past
<1>7. DriverRuns' /\ EntryHeld' /\ BitsRead'
  BY <1>1, <1>3 DEF ScanInv, DriverRuns, EntryHeld, HoldsEntry, BitsRead, link
<1> HIDE DEF Now, Sent, Answers
<1>8. Requests'
  <2> SUFFICES ASSUME NEW e \in Row
               PROVE  /\ db'[e].read = "AUTO" <=> e \in AutoRows
                      /\ cache'[e].read = "AUTO" <=> e \in AutoRows
                      /\ e \in AutoRows => db'[e].msg = "IDLE"
                      /\ db'[e].msg # "IDLE" => db'[e].read \notin {"READING", "READED"} /\ cache'[e].read # "READING"
                      /\ db'[e].msg = "SENDED" => cache'[e].msg = "SENDED"
                      /\ db'[e].read = "READED" => cache'[e].read = "READED"
    BY DEF Requests
  <2>0. /\ db[e].read = "AUTO" <=> e \in AutoRows
        /\ e \in AutoRows => db[e].msg = "IDLE"
        /\ db[e].msg # "IDLE" => db[e].read \notin {"READING", "READED"}
    BY DEF ScanInv, Requests
  <2>1. CASE e = Now
    BY <1>4, <1>5, <2>0, <2>1
  <2>2. CASE e # Now
    BY <1>4, <2>2 DEF ScanInv, Requests
  <2> QED  BY <2>1, <2>2
<1>9. Asking'
  <2> SUFFICES ASSUME NEW e \in Row, db'[e].msg = "SENDING" PROVE asked[e] = {db'[e].trig}
    BY <1>1 DEF Asking, past
  <2>1. CASE e = Now
    BY <1>4, <2>1 DEF ScanInv, Asking
  <2>2. CASE e # Now
    BY <1>4, <2>2 DEF ScanInv, Asking
  <2> QED  BY <2>1, <2>2
<1>10. Sending'
  <2> SUFFICES ASSUME NEW e \in Row, db'[e].msg = "SENDING", cache'[e].msg = "SENDED"
               PROVE  written[e] = {cache'[e].trig}
    BY <1>1 DEF Sending, past
  <2>1. e # Now
    BY <1>4, <1>5
  <2> QED  BY <1>4, <2>1 DEF ScanInv, Sending
<1>11. Reading'
  <2> SUFFICES ASSUME NEW e \in Row, db'[e].read = "READING", cache'[e].read = "READED"
               PROVE  got[e] = {cache'[e].trig} \/ (e \notin word /\ ~plc_status_)
    BY <1>1 DEF Reading, past, link
  <2>1. e # Now
    BY <1>4, <1>5
  <2> QED  BY <1>4, <2>1 DEF ScanInv, Reading
<1>12. Loaded'
  <2>1. CASE scan'.at # "syncing"
    BY <2>1 DEF Loaded, HoldsStorage
  <2>2. CASE scan'.at = "syncing"
    <3>1. point' = point /\ Pending' \subseteq Pending \ {Now} /\ Pending \subseteq Row
      <4>1. scan.i \in 1..Len(Rows) /\ Len(Rows) \in Nat /\ DOMAIN Rows = 1..Len(Rows)
        BY <1>2, RowsAssumption DEF PlcTypeOK
      <4>2. Pending \subseteq Row
        BY <4>1 DEF Pending, Row, Range
      <4> QED  BY <1>1, <1>3, <2>2, <4>2
    <3>2. \A e \in Pending' : e \in Pending /\ db'[e] = db[e] /\ cache'[e] = cache[e]
      BY <1>4, <3>1
    <3> QED  BY <1>2, <3>1, <3>2 DEF ScanInv, Loaded
  <2> QED  BY <2>1, <2>2
<1> QED  BY <1>6, <1>7, <1>8, <1>9, <1>10, <1>11, <1>12 DEF ScanInv
-----------------------------------------------------------------------------
LEMMA NextInv ==
  ASSUME ScanInv, [Next]_vars
  PROVE  ScanInv'
<1>1. CASE UNCHANGED vars
  <2>1. UNCHANGED <<word, tables, stores, link, scan, main, plc, past>>
    BY <1>1 DEF vars
  <2>2. HoldsStorage' = HoldsStorage /\ Pending' = Pending /\ HoldsEntry' = HoldsEntry
    BY <2>1 DEF HoldsStorage, HoldsEntry, Pending
  <2>3. PlcTypeOK'
    BY <2>1, <2>2 DEF ScanInv, PlcTypeOK, tables, stores, link, past
  <2>4. DriverRuns' /\ EntryHeld'
    BY <2>1, <2>2 DEF ScanInv, DriverRuns, EntryHeld, link
  <2>5. Requests' /\ Asking' /\ Sending' /\ Reading' /\ BitsRead' /\ Loaded'
    BY <2>1, <2>2, OnlyMoves DEF tables, link, past
  <2> QED  BY <2>3, <2>4, <2>5 DEF ScanInv
<1>2. CASE ScanThread
  BY <1>2, BeginSendInv, SendNothingInv, SendMsgToPLCInv, ReadIOInv, ReadNothingInv, ReadBitInv,
     ReadWordInv, BeginSyncInv, SyncInv DEF ScanThread
<1>3. CASE UpdateStorage \/ Press \/ ReCononectPLC
  BY <1>3, UpdateStorageInv, PressInv, ReCononectPLCInv
<1>4. CASE Users
  <2>1. PICK d \in Row :
           \/ d \notin AutoRows /\ (RequestWrite(d) \/ RequestRead(d) \/ Collect(d))
           \/ d \in AutoRows /\ Sense(d)
    BY <1>4 DEF Users
  <2>2. CASE d \notin AutoRows /\ (RequestWrite(d) \/ RequestRead(d) \/ Collect(d))
    BY <2>2, RequestWriteInv, RequestReadInv, CollectInv
  <2>3. CASE d \in AutoRows /\ Sense(d)
    BY <2>3, SenseInv
  <2> QED  BY <2>1, <2>2, <2>3
<1> QED  BY <1>1, <1>2, <1>3, <1>4 DEF Next

(* Only the synchronisation reports something.                              *)
LEMMA OnlySyncReports ==
  ASSUME ScanInv, [Next]_vars, NEW d \in Row,
         \/ (db'[d].msg = "SENDED" /\ db[d].msg # "SENDED")
         \/ (db'[d].read = "READED" /\ db[d].read # "READED")
  PROVE  Sync
<1>1. db \in [Row -> Fields]
  BY DEF ScanInv, PlcTypeOK
<1>2. ASSUME UNCHANGED db PROVE FALSE
  BY <1>2
<1>3. ~UNCHANGED vars
  BY <1>2 DEF vars, tables
<1>4. ASSUME ScanThread, ~Sync PROVE FALSE
  BY <1>2, <1>4 DEF ScanThread, BeginSend, SendNothing, SendMsgToPLC, ReadIO, ReadNothing, ReadBit,
     ReadWord, BeginSync, tables
<1>5. ~(UpdateStorage \/ Press \/ ReCononectPLC)
  BY <1>2 DEF UpdateStorage, Press, ReCononectPLC, tables
<1>6. ASSUME NEW e \in Row, RequestWrite(e) \/ RequestRead(e) \/ Collect(e) \/ Sense(e) PROVE FALSE
  <2>1. CASE RequestWrite(e)
    <3>1. PICK v \in BOOLEAN : db' = [db EXCEPT ![e].trig = v, ![e].msg = "SENDING"]
      BY <2>1 DEF RequestWrite
    <3>2. db'[e].msg = "SENDING" /\ db'[e].read = db[e].read /\ \A f \in Row \ {e} : db'[f] = db[f]
      BY <1>1, <3>1 DEF Fields
    <3> QED  BY <3>2
  <2>2. CASE RequestRead(e)
    <3>1. db'[e].read = "READING" /\ db'[e].msg = db[e].msg /\ \A f \in Row \ {e} : db'[f] = db[f]
      BY <1>1, <2>2 DEF RequestRead, Fields
    <3> QED  BY <3>1
  <2>3. CASE Collect(e)
    <3>1. \/ db' = [db EXCEPT ![e].msg = "IDLE"]
          \/ db' = [db EXCEPT ![e].read = "IDLE"]
      BY <2>3 DEF Collect
    <3>2. /\ db'[e].msg = db[e].msg \/ db'[e].msg = "IDLE"
          /\ db'[e].read = db[e].read \/ db'[e].read = "IDLE"
          /\ \A f \in Row \ {e} : db'[f] = db[f]
      BY <1>1, <3>1 DEF Fields
    <3> QED  BY <3>2
  <2>4. CASE Sense(e)
    BY <1>2, <2>4 DEF Sense, tables
  <2> QED  BY <1>6, <2>1, <2>2, <2>3, <2>4
<1> QED  BY <1>3, <1>4, <1>5, <1>6 DEF Next, Users

LEMMA ScanInvariant == Spec => []ScanInv
<1> QED  BY InitInv, NextInv, PTL DEF Spec
-----------------------------------------------------------------------------
(* The state is of its types: a window never outgrows max_scan, and the      *)
(* table loaded for the synchronisation is there exactly while it lasts.    *)
THEOREM PlcTypes == Spec => []PlcTypeOK
<1>1. ScanInv => PlcTypeOK
  BY DEF ScanInv
<1> QED  BY <1>1, ScanInvariant, PTL

(* A PLC that verify_transmission has stopped in order to reset its Ethernet *)
(* unit runs again before the driver takes the transmission as normal.      *)
THEOREM PlcStartedAgain == Spec => []LongConnectRuns
<1>1. ScanInv => LongConnectRuns
  BY DEF ScanInv, DriverRuns, Runs, LongConnectRuns
<1> QED  BY <1>1, ScanInvariant, PTL

(* DatabaseIO reports a row SENDED only when the value that it asked for is  *)
(* the last that SendMsgToPLC wrote.                                        *)
THEOREM SentIsWritten == Spec => SentWasWritten
<1>1. ASSUME ScanInv, [Next]_vars, NEW d \in Row, db[d].msg = "SENDING", db'[d].msg = "SENDED"
      PROVE  written[d] = asked[d]
  <2>1. Sync
    BY <1>1, OnlySyncReports
  <2>2. d = Now /\ Sent
    BY <1>1, <2>1, SyncIs
  <2>3. cache[d].msg = "SENDED" /\ cache[d].trig = db[d].trig
    BY <1>1, <2>1, <2>2, SyncIs
  <2> QED  BY <1>1, <2>3 DEF ScanInv, Asking, Sending
<1>2. ScanInv /\ [Next]_vars =>
        [\A d \in Row : db[d].msg = "SENDING" /\ db'[d].msg = "SENDED" => written[d] = asked[d]]_vars
  BY <1>1
<1> QED  BY <1>2, ScanInvariant, PTL DEF Spec, SentWasWritten

(* DatabaseIO reports a row READED with a value read since it was asked for, *)
(* unless it is a bit and an exchange has failed since the last connection.  *)
THEOREM AnswersAreFresh == Spec => AnswerFresh
<1>1. ASSUME ScanInv, [Next]_vars, NEW d \in Row, db[d].read = "READING", db'[d].read = "READED"
      PROVE  got[d] = {db'[d].trig} \/ (d \notin word /\ ~plc_status_)
  <2>1. Sync
    BY <1>1, OnlySyncReports
  <2>2. d = Now /\ Answers
    BY <1>1, <2>1, SyncIs
  <2>3. cache[d].read = "READED" /\ db'[d].trig = cache[d].trig
    BY <1>1, <2>1, <2>2, SyncIs
  <2> QED  BY <1>1, <2>3 DEF ScanInv, Reading
<1>2. ScanInv /\ [Next]_vars =>
        [\A d \in Row : db[d].read = "READING" /\ db'[d].read = "READED"
                          => got[d] = {db'[d].trig} \/ (d \notin word /\ ~plc_status_)]_vars
  BY <1>1
<1> QED  BY <1>2, ScanInvariant, PTL DEF Spec, AnswerFresh
=============================================================================
