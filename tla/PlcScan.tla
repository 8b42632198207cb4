------------------------------- MODULE PlcScan -------------------------------
(***************************************************************************)
(* PLC_Manage: a thread carries the rows of kh_plc_data to a PLC and back,  *)
(* through a cache, and the tick turns the samples of the sensors into the  *)
(* status of storages.  A row asks for a value to be written (MSG_STATUS)   *)
(* or read (READ_STATUS), or is read all the time (AUTO); the rows' other   *)
(* users are outside the program.  All rows are of one PLC and one port.    *)
(***************************************************************************)
EXTENDS Integers, Sequences, SequencesExt, FinsDriver

CONSTANTS
    Rows,        \* the rows' names in the order of the map, a sequence
    Shorts,      \* the sets of rows that may have DEV_TYPE SHORT; the others are BOOL
    AutoRows,    \* those with READ_STATUS AUTO
    Area, Tray,  \* those that a storage of this storage_type is named after
    MaxScan, NeedTimes, \* max_scan, need_times
    AutoReadMax, \* auto_read_max: every how many rounds AUTO rows are read
    Buttons,     \* may the operator press the reconnect button?
    MaxFailures  \* bound: how many exchanges fail

Row == Range(Rows)

ASSUME RowsAssumption ==
    /\ Rows \in Seq(Row) /\ Rows # <<>> /\ IsInjective(Rows)
    /\ Shorts \subseteq SUBSET Row /\ AutoRows \subseteq Row
    /\ Area \subseteq AutoRows /\ Tray \subseteq AutoRows /\ Area \cap Tray = {}
    /\ MaxScan \in Nat /\ NeedTimes \in 1..MaxScan /\ AutoReadMax \in Nat \ {0}
    /\ Buttons \in BOOLEAN /\ MaxFailures \in Nat

VARIABLES
    word,      \* the rows whose DEV_TYPE is SHORT
    db,        \* the table: PLC_TRIGGER, MSG_STATUS and READ_STATUS of each row
    cache,     \* plc_map_, the same fields
    point,     \* what DatabaseIO has loaded (tmp_plc_map), empty outside of it
    window,    \* storage_plc_: the last samples of each AUTO row
    storage,   \* storage_status of the storages with a sensor
    plc_status_, fail_count_, \* the latter no higher than 2
    driver,    \* the driver of the PLC, with the PLC's mode
    scan,      \* where the scan thread is: phase, position in Rows, its counter
    main,      \* where the main thread is
    plc,       \* the words and bits in the PLC
    failures,  \* exchanges that failed
    \* History of each row.
    asked,     \* the value of a request to write, in a set
    written,   \* the last value written to the PLC since that request, in a set
    got        \* the last value read since a request to read, in a set

tables == <<db, cache, point>>
stores == <<window, storage>>
link   == <<plc_status_, fail_count_, driver, failures>>
past   == <<asked, written, got>>
vars == <<word, tables, stores, link, scan, main, plc, past>>

Fields == [trig : BOOLEAN, msg : {"IDLE", "SENDING", "SENDED"},
           read : {"IDLE", "READING", "READED", "AUTO"}]

\* Between two phases the scan thread holds no lock; entry_mutex is shared
\* while it sends and reads, storage_mutex is its own while it synchronises.
Phases == {"asleep", "sending", "sent", "reading", "read", "syncing"}
HoldsEntry == scan.at \in {"sending", "reading"}
HoldsStorage == scan.at = "syncing"

\* plcForbidAllStorage
Forbidden == [s \in Area \cup Tray |-> IF s \in Area THEN "FULL" ELSE "EMPTY"]

\* The rows as Initial leaves them: statuses reset, but for AUTO.
Init ==
    /\ word \in Shorts
    /\ db \in [Row -> Fields]
    /\ \A d \in Row : /\ db[d].msg = "IDLE"
                      /\ db[d].read = IF d \in AutoRows THEN "AUTO" ELSE "IDLE"
    /\ cache = db /\ point = <<>>
    /\ window = [d \in AutoRows |-> <<>>]
    /\ storage = Forbidden
    /\ plc_status_ = TRUE /\ fail_count_ = 0 /\ failures = 0
    /\ driver = NewDriver(TRUE)
    /\ scan = [at |-> "asleep", i |-> 1, count |-> 0, auto |-> FALSE]
    /\ main = "idle"
    /\ plc \in [Row -> BOOLEAN]
    /\ asked = [d \in Row |-> {}] /\ written = asked /\ got = asked

-----------------------------------------------------------------------------
\* The users of the rows.  They take turns on a row and use it again when the
\* scan thread has seen it idle.
AtRest(d) == \A t \in {db, cache} : t[d].msg = "IDLE" /\ t[d].read = "IDLE"

RequestWrite(d) ==
    /\ AtRest(d)
    /\ \E v \in BOOLEAN : /\ db' = [db EXCEPT ![d].trig = v, ![d].msg = "SENDING"]
                          /\ asked' = [asked EXCEPT ![d] = {v}]
    /\ UNCHANGED <<word, cache, point, stores, link, scan, main, plc, written, got>>

RequestRead(d) ==
    /\ AtRest(d)
    /\ db' = [db EXCEPT ![d].read = "READING"]
    /\ got' = [got EXCEPT ![d] = {}]
    /\ UNCHANGED <<word, cache, point, stores, link, scan, main, plc, asked, written>>

Collect(d) ==
    /\ \/ /\ db[d].msg = "SENDED"
          /\ db' = [db EXCEPT ![d].msg = "IDLE"]
          /\ asked' = [asked EXCEPT ![d] = {}] /\ written' = [written EXCEPT ![d] = {}]
          /\ UNCHANGED got
       \/ /\ db[d].read = "READED"
          /\ db' = [db EXCEPT ![d].read = "IDLE"]
          /\ got' = [got EXCEPT ![d] = {}]
          /\ UNCHANGED <<asked, written>>
    /\ UNCHANGED <<word, cache, point, stores, link, scan, main, plc>>

\* A word or bit of the PLC changes by itself, when a read could tell.
Sense(d) ==
    /\ scan.at = IF d \in word THEN "reading" ELSE "sent"
    /\ plc' = [plc EXCEPT ![d] = ~@]
    /\ UNCHANGED <<word, tables, stores, link, scan, main, past>>

-----------------------------------------------------------------------------
\* TestCononect: all drivers are deleted and made again, the cache is loaded.
TestCononect ==
    /\ driver' = NewDriver(driver.run)
    /\ cache' = db

\* FailConnectCount, once or (a word: in ForcedReadMsg and after it) twice.
FailConnectCount(times) ==
    /\ failures < MaxFailures /\ failures' = failures + 1
    /\ storage' = IF fail_count_ \in 2 - times .. 1 THEN Forbidden ELSE storage
    /\ fail_count_' = IF fail_count_ + times > 2 THEN 2 ELSE fail_count_ + times
    /\ driver' = NewDriver(driver.run) /\ cache' = db
    /\ plc_status_' = FALSE

\* What an exchange that went well leaves behind.
Through(o) == driver' = o.s /\ UNCHANGED <<plc_status_, fail_count_, failures>>

\* The next row of a phase, or the next phase.
Step(next) == scan' = IF scan.i < Len(Rows) THEN [scan EXCEPT !.i = @ + 1]
                      ELSE [scan EXCEPT !.at = next, !.i = 1]

BeginSend ==
    /\ scan.at = "asleep" /\ main # "reconnect"
    /\ scan' = [scan EXCEPT !.at = "sending"]
    /\ UNCHANGED <<word, tables, stores, link, main, plc, past>>

\* SendMsgToPLC, one row: nothing to send, ...
SendNothing ==
    LET d == Rows[scan.i] IN
    /\ scan.at = "sending" /\ ~(cache[d].msg = "SENDING" /\ plc_status_)
    /\ Step("sent")
    /\ UNCHANGED <<word, tables, stores, link, main, plc, past>>

\* ... or the cached value.  A write that failed may have reached the PLC.
SendMsgToPLC ==
    LET d == Rows[scan.i]
        outcome == IF d \in word THEN fins_writeword(driver) ELSE fins_writebit(driver) IN
    /\ scan.at = "sending" /\ cache[d].msg = "SENDING" /\ plc_status_
    /\ \E o \in outcome :
        /\ plc' = IF o.acted THEN [plc EXCEPT ![d] = cache[d].trig] ELSE plc
        /\ written' = IF o.acted /\ asked[d] # {} THEN [written EXCEPT ![d] = {cache[d].trig}]
                       ELSE written
        /\ IF o.ok THEN /\ cache' = [cache EXCEPT ![d].msg = "SENDED"]
                        /\ Through(o)
                        /\ UNCHANGED storage
                   ELSE FailConnectCount(1)
    /\ Step("sent")
    /\ UNCHANGED <<word, db, point, window, main, asked, got>>

(* Mutant: the value read is not taken over. *)
TakenStatusOnly(c, d) == [c EXCEPT ![d].read = IF @ = "AUTO" THEN "AUTO" ELSE "READED"]

\* What a read of d puts into the cache.
Taken(c, d) == [c EXCEPT ![d].trig = plc[d],
                         ![d].msg = IF @ = "SENDING" THEN "SENDING" ELSE "IDLE",
                         ![d].read = IF @ = "AUTO" THEN "AUTO" ELSE "READED"]

\* SortReadIOPlcInfo and ForcedReadIOMsg: when a bit is to be read, all bits of
\* the port are, and whatever row is READING or AUTO takes its own.
ReadIO ==
    LET count == scan.count + 1
        auto == count = AutoReadMax
        bits == Row \ word
        wanted == {d \in bits : cache[d].read = "READING" \/ (auto /\ cache[d].read = "AUTO")}
        taking == {d \in bits : cache[d].read \in {"READING", "AUTO"}} IN
    /\ scan.at = "sent" /\ main # "reconnect"
    /\ scan' = [at |-> "reading", i |-> 1, count |-> IF auto THEN 0 ELSE count, auto |-> auto]
    /\ IF wanted = {} THEN UNCHANGED <<cache, storage, link, got>>
       ELSE \E o \in fins_readbit(driver) :
            IF o.ok THEN /\ cache' = [d \in Row |-> IF d \in taking THEN Taken(cache, d)[d]
                                                    ELSE cache[d]]
                         /\ got' = [d \in Row |-> IF d \in taking \ AutoRows THEN {plc[d]} ELSE got[d]]
                         /\ Through(o)
                         /\ UNCHANGED storage
                    ELSE FailConnectCount(1) /\ UNCHANGED got
    /\ UNCHANGED <<word, db, point, window, main, plc, asked, written>>

ReadNothing ==
    LET d == Rows[scan.i] IN
    /\ scan.at = "reading"
    /\ ~(cache[d].read = "READING" \/ (scan.auto /\ cache[d].read = "AUTO"))
    /\ Step("read")
    /\ UNCHANGED <<word, tables, stores, link, main, plc, past>>

(* Mutant: the window is not cut to max_scan. *)
PushAll(d, v) == window' = [window EXCEPT ![d] = Append(@, v)]

Push(d, v) == window' = [window EXCEPT ![d] =
                  IF Len(@) = MaxScan THEN Append(Tail(@), v) ELSE Append(@, v)]
Pop(d) == window' = [window EXCEPT ![d] = IF @ = <<>> THEN @ ELSE Tail(@)]

\* The row of a bit: ForcedReadMsg says that it was read.
ReadBit ==
    LET d == Rows[scan.i] IN
    /\ scan.at = "reading" /\ d \notin word
    /\ \/ /\ cache[d].read = "READING"
          /\ cache' = [cache EXCEPT ![d].read = "READED"]
          /\ UNCHANGED window
       \/ /\ scan.auto /\ cache[d].read = "AUTO"
          /\ Push(d, cache[d].trig)
          /\ UNCHANGED cache
    /\ Step("read")
    /\ UNCHANGED <<word, db, point, storage, link, main, plc, past>>

\* The row of a word: it is read now.
ReadWord ==
    LET d == Rows[scan.i] IN
    /\ scan.at = "reading" /\ d \in word
    /\ cache[d].read = "READING" \/ (scan.auto /\ cache[d].read = "AUTO")
    /\ \E o \in fins_readword(driver) :
        IF o.ok THEN /\ cache' = Taken(cache, d)
                     /\ got' = [got EXCEPT ![d] = {plc[d]}]
                     /\ IF cache[d].read = "AUTO" THEN Push(d, plc[d]) ELSE UNCHANGED window
                     /\ Through(o)
                     /\ UNCHANGED storage
                ELSE /\ FailConnectCount(2)
                     /\ IF cache[d].read = "AUTO" THEN Pop(d) ELSE UNCHANGED window
                     /\ UNCHANGED got
    /\ Step("read")
    /\ UNCHANGED <<word, db, point, main, plc, asked, written>>

-----------------------------------------------------------------------------
\* DatabaseIO: the table is loaded, then row by row compared with the cache.
BeginSync ==
    /\ scan.at = "read" /\ main # "reconnect"
    /\ scan' = [scan EXCEPT !.at = "syncing"]
    /\ point' = db
    /\ UNCHANGED <<word, db, cache, stores, link, main, plc, past>>

\* The branches that take entry_mutex while storage_mutex is held.
LocksEntry(d) ==
    \/ cache[d].msg = "SENDED" /\ point[d].msg = "IDLE"
    \/ cache[d].msg # "SENDED" /\ cache[d].msg # point[d].msg
    \/ /\ point[d].read # "AUTO" /\ cache[d].read # point[d].read
       /\ ~(cache[d].read = "READED" /\ point[d].read \in {"IDLE", "READING"})
       /\ ~(cache[d].read = "IDLE" /\ point[d].read = "READING")

(* Mutant: what was sent is not compared with what was asked for. *)
SyncMsgAny(c, p) ==
    IF c.msg = "SENDED" /\ p.msg = "SENDING" THEN [c |-> c, msg |-> "SENDED"]
    ELSE [c |-> [c EXCEPT !.msg = p.msg], msg |-> p.msg]

(* Mutant: the value asked for is not loaded with the request to send again. *)
SyncMsgNoValue(c, p) ==
    IF c.msg = "SENDED" /\ p.msg = "SENDING" /\ c.trig = p.trig
    THEN [c |-> c, msg |-> "SENDED"]
    ELSE [c |-> [c EXCEPT !.msg = p.msg], msg |-> p.msg]

\* The fields of the cached row and of the table's row after the send part: the
\* table wins, but for a message sent whose value is the one asked for.
SyncMsg(c, p) ==
    IF c.msg = "SENDED" /\ p.msg = "SENDING"
    THEN IF c.trig = p.trig THEN [c |-> c, msg |-> "SENDED"]
         ELSE [c |-> [c EXCEPT !.trig = p.trig, !.msg = "SENDING"], msg |-> p.msg]
    ELSE [c |-> [c EXCEPT !.msg = p.msg], msg |-> p.msg]

Sync ==
    LET d == Rows[scan.i]
        p == point[d]
        s == SyncMsg(cache[d], p)
        answer == cache[d].read = "READED" /\ p.read = "READING"
        show == p.read = "AUTO" /\ cache[d].read = "AUTO" /\ s.c.trig # p.trig IN
    /\ scan.at = "syncing"
    /\ LocksEntry(d) => main # "reconnect"
    /\ cache' = [cache EXCEPT ![d] = [s.c EXCEPT !.read = IF answer THEN @ ELSE p.read]]
    /\ db' = [db EXCEPT ![d].msg = IF s.msg # p.msg THEN s.msg ELSE @,
                        ![d].trig = IF answer \/ show THEN s.c.trig ELSE @,
                        ![d].read = IF answer THEN "READED" ELSE @]
    /\ Step("asleep")
    /\ point' = IF scan.i < Len(Rows) THEN point ELSE <<>>
    /\ UNCHANGED <<word, stores, link, main, plc, past>>

-----------------------------------------------------------------------------
\* UpdateStorage, at the start of a tick, under the shared storage_mutex.
Count(w) == Cardinality({k \in DOMAIN w : w[k]})

(* Mutant: the samples of a tray are counted as those of an area. *)
StatusOfAsArea(d, w, old) ==
    IF Len(w) < NeedTimes THEN old
    ELSE IF Last(w) = (d \in Tray)
         THEN IF Count(w) <= MaxScan - NeedTimes
              THEN IF d \in Tray THEN "FULL" ELSE "EMPTY"
              ELSE old
         ELSE IF d \in Tray THEN "EMPTY" ELSE "FULL"

StatusOf(d, w, old) ==
    CASE Len(w) < NeedTimes -> old
      [] Len(w) >= NeedTimes /\ d \in Area ->
            IF Last(w) THEN "FULL"
            ELSE IF Count(w) <= MaxScan - NeedTimes THEN "EMPTY" ELSE old
      [] Len(w) >= NeedTimes /\ d \in Tray ->
            IF ~Last(w) THEN "EMPTY"
            ELSE IF Count(w) >= NeedTimes THEN "FULL" ELSE old

UpdateStorage ==
    /\ main = "idle" /\ ~HoldsStorage
    /\ storage' = [d \in Area \cup Tray |-> StatusOf(d, window[d], storage[d])]
    /\ UNCHANGED <<word, tables, window, link, scan, main, plc, past>>

\* ReCononectPLC, from a button: entry_mutex, then storage_mutex, both alone.
Press ==
    /\ Buttons /\ main = "idle" /\ ~HoldsEntry
    /\ ~plc_status_
    /\ main' = "reconnect"
    /\ UNCHANGED <<word, tables, stores, link, scan, plc, past>>

ReCononectPLC ==
    /\ main = "reconnect" /\ ~HoldsStorage
    /\ TestCononect
    /\ plc_status_' = TRUE
    /\ main' = "idle"
    /\ UNCHANGED <<word, db, point, stores, fail_count_, failures, scan, plc, past>>

-----------------------------------------------------------------------------
ScanThread == BeginSend \/ SendNothing \/ SendMsgToPLC \/ ReadIO \/ ReadNothing
              \/ ReadBit \/ ReadWord \/ BeginSync \/ Sync

Users == \E d \in Row : \/ d \notin AutoRows /\ (RequestWrite(d) \/ RequestRead(d) \/ Collect(d))
                        \/ d \in AutoRows /\ Sense(d)

Next == ScanThread \/ UpdateStorage \/ Press \/ ReCononectPLC \/ Users

\* The thread runs, and so does the timer of the main window: a tick that waits
\* for storage_mutex gets it while the scan thread sleeps.
Fairness == WF_vars(ScanThread) /\ SF_vars(UpdateStorage) /\ WF_vars(ReCononectPLC)

Spec == Init /\ [][Next]_vars
FairSpec == Spec /\ Fairness

-----------------------------------------------------------------------------
PlcTypeOK ==
    /\ word \in Shorts
    /\ {db, cache} \subseteq [Row -> Fields]
    /\ point \in IF HoldsStorage THEN [Row -> Fields] ELSE {<<>>}
    /\ window \in [AutoRows -> UNION {[1..n -> BOOLEAN] : n \in 0..MaxScan}]
    /\ storage \in [Area \cup Tray -> {"FULL", "EMPTY"}]
    /\ plc_status_ \in BOOLEAN /\ fail_count_ \in 0..2 /\ failures \in 0..MaxFailures
    /\ driver \in Driver
    /\ scan \in [at : Phases, i : 1..Len(Rows), count : 0..AutoReadMax - 1, auto : BOOLEAN]
    /\ main \in {"idle", "reconnect"}
    /\ plc \in [Row -> BOOLEAN]
    /\ {asked, written, got} \subseteq [Row -> SUBSET BOOLEAN]

\* A row is reported SENDED when the last value that reached the PLC since the
\* request is the one asked for: whatever the cache sent before (it sends the old
\* value first), was reloaded with or read meanwhile.
SentWasWritten ==
    [][\A d \in Row : db[d].msg = "SENDING" /\ db'[d].msg = "SENDED"
                          => written[d] = asked[d]]_vars

\* A row is reported READED with a value that was read after it was asked for,
\* also when an exchange for another row has failed in between (the cache is
\* loaded anew).  A bit, though, is answered from the cache after a read that
\* failed, until the operator reconnects.
AnswerFresh ==
    [][\A d \in Row : db[d].read = "READING" /\ db'[d].read = "READED"
                          => got[d] = {db'[d].trig} \/ (d \notin word /\ ~plc_status_)]_vars

\* A PLC that this driver has stopped to reset its Ethernet unit is running again
\* before the driver takes the transmission as normal.
LongConnectRuns == driver.st = "LONG_CONNECT" /\ driver.stopper => driver.run

\* The two threads wait for each other's mutex for good.
Blocked == main = "reconnect" /\ HoldsStorage /\ LocksEntry(Rows[scan.i])

\* A sensor that stays as it is ends up as the status of its storage, through
\* failures, a forbidden status and reconnections; samples of either value wear out.
StatusFollows ==
    \A d \in Area \cup Tray, v \in BOOLEAN :
        <>[](plc[d] = v) => \/ <>[](storage[d] = IF v THEN "FULL" ELSE "EMPTY")
                           \/ <>Blocked

\* A request is answered: one to write unless the program has stopped sending, as
\* it does after any failed exchange.
RequestsEnd ==
    \A d \in Row \ AutoRows :
        /\ []<>(db[d].msg # "SENDING" \/ ~plc_status_ \/ Blocked)
        /\ []<>(db[d].read # "READING" \/ Blocked)
=============================================================================
