---------------------------- MODULE OrderService ----------------------------
(***************************************************************************)
(* The HTTP service through which the orders come (ApiServer.cpp,           *)
(* ApiClient.cpp): a connection has a socket, an ApiMsg that collects its   *)
(* request and a timer of 10 s.  All handlers run in the event loop of the  *)
(* main thread, each to its end.  ApiServer finds a message by the address  *)
(* of its socket, and addresses are used again.  An order's row in          *)
(* kh_order_info is then taken by the tick or given out anew by the         *)
(* operator.                                                                *)
(*                                                                          *)
(* An answer fits into the buffer of the socket, so close() runs the        *)
(* handler of the disconnection at once; what deleteLater() is told is      *)
(* deleted before the next event.  No timer's number is used again while    *)
(* a connection lasts, and a closed socket reads no more (Qt).              *)
(***************************************************************************)
EXTENDS Integers

CONSTANTS
    Connections,  \* bound: the connections, numbered in their order
    Addresses,    \* the addresses of sockets
    Orders,       \* the ids of orders
    None,         \* no address, no message, no request
    Parts,        \* a request arrives in so many pieces
    MaxFailures   \* bound: how many statements of the database fail

ASSUME ServiceAssumption ==
    /\ Connections \subseteq Nat /\ None \notin Connections /\ None \notin Addresses
    /\ Parts \in Nat \ {0} /\ MaxFailures \in Nat

(* The bizType of a request; "BROKEN" never becomes a whole request. *)
Biz == {"RECEIVE_CARRY_TASK", "PALLET_TASK_CANCEL", "REQUEST_DEVICE_INFO", "UNKNOWN", "BROKEN"}
Request == [bizType : Biz, taskNo : Orders]

NoAnswer == 0
OperationSuccess == 20
DatabaseError == 41
UnknownOperationCode == 42
TimeoutError == 51
Codes == {NoAnswer, OperationSuccess, DatabaseError, UnknownOperationCode, TimeoutError}

VARIABLES
    conn,      \* of a connection: not yet, open, gone
    socket,    \* the address of its socket
    content,   \* all_requests_content_: whose ApiMsg the entry of an address
               \* points at
    alive,     \* the messages that are not deleted, named by their connections
    timer,     \* the connections whose timer runs
    left,      \* those that the peer has closed
    unread,    \* pieces that wait in the socket
    received,  \* pieces in the ApiMsg
    request,   \* what the peer sends, once it has sent all
    order,     \* STATUS in kh_order_info; NEW stands for IDLE too, which is an
               \* order that was NEW and waits for a certain AGV
    failures,
    \* History.
    answer,    \* the code that was sent
    done       \* the connections whose operation changed the table

table == <<order, failures, done>>
vars == <<conn, socket, content, alive, timer, left, unread, received, request, answer, table>>

Open == {c \in Connections : conn[c] = "open"}

Init ==
    /\ conn = [c \in Connections |-> "not yet"]
    /\ socket = [c \in Connections |-> None] /\ request = [c \in Connections |-> None]
    /\ content = [a \in Addresses |-> None]
    /\ alive = {} /\ timer = {} /\ left = {} /\ done = {}
    /\ unread = [c \in Connections |-> 0] /\ received = [c \in Connections |-> 0]
    /\ answer = [c \in Connections |-> NoAnswer]
    /\ order = [o \in Orders |-> "none"]
    /\ failures = 0
-----------------------------------------------------------------------------
(* Mutant: map::insert in place of operator[], which keeps an old entry. *)
RememberInserted(c, a) ==
    content' = IF content[a] = None THEN [content EXCEPT ![a] = c] ELSE content

(* The message is stored under the address of the socket, over what a       *)
(* connection that ended without an answer has left there.                  *)
Remember(c, a) == content' = [content EXCEPT ![a] = c]

(* getNewConnection: the addresses of the open sockets are taken. *)
NewConnection(c, a) ==
    /\ conn[c] = "not yet"
    /\ \A d \in Connections : d < c => conn[d] # "not yet"
    /\ \A d \in Open : socket[d] # a
    /\ conn' = [conn EXCEPT ![c] = "open"]
    /\ socket' = [socket EXCEPT ![c] = a]
    /\ Remember(c, a)
    /\ alive' = alive \cup {c} /\ timer' = timer \cup {c}
    /\ UNCHANGED <<left, unread, received, request, answer, table>>

(* The peer sends a piece of its request, which is r once it is whole. *)
PeerSends(c) ==
    /\ c \in Open \ left
    /\ received[c] + unread[c] < Parts
    /\ unread' = [unread EXCEPT ![c] = @ + 1]
    /\ IF received[c] + unread[c] + 1 = Parts
       THEN \E r \in Request : request' = [request EXCEPT ![c] = r]
       ELSE UNCHANGED request
    /\ UNCHANGED <<conn, socket, content, alive, timer, left, received, answer, table>>

(* The peer closes the connection. *)
PeerLeaves(c) ==
    /\ c \in Open \ left
    /\ left' = left \cup {c}
    /\ UNCHANGED <<conn, socket, content, alive, timer, unread, received, request, answer, table>>
-----------------------------------------------------------------------------
(* disconnected: the socket is deleted with what it holds, and the          *)
(* connection's message; the timer is stopped.                              *)
Disconnect(c) ==
    /\ conn' = [conn EXCEPT ![c] = "gone"]
    /\ socket' = [socket EXCEPT ![c] = None]
    /\ unread' = [unread EXCEPT ![c] = 0] /\ received' = [received EXCEPT ![c] = 0]
    /\ timer' = timer \ {c} /\ left' = left \ {c}

(* reply: the answer is written and the socket closed, which disconnects;   *)
(* the message that the entry points at is deleted and the entry erased.    *)
Reply(c, code) ==
    /\ answer' = [answer EXCEPT ![c] = code]
    /\ Disconnect(c)
    /\ alive' = alive \ {c, content[socket[c]]}
    /\ content' = [content EXCEPT ![socket[c]] = None]
    /\ UNCHANGED request

(* Does the operation's statement change the table?  An order is inserted   *)
(* once (its id is the key of the table) and revoked when it is there.      *)
Inserts(r, fails) ==
    r.bizType = "RECEIVE_CARRY_TASK" /\ ~fails /\ order[r.taskNo] = "none"
Revokes(r, fails) ==
    r.bizType = "PALLET_TASK_CANCEL" /\ ~fails /\ order[r.taskNo] # "none"

(* What InsertOrder, RevokeOrder and the queries return. *)
Succeeds(r, fails) ==
    Inserts(r, fails) \/ Revokes(r, fails) \/ r.bizType = "REQUEST_DEVICE_INFO"

(* launchOperation and the answer that the operation has generated. *)
Launch(c, r) ==
    \E fails \in IF failures < MaxFailures THEN BOOLEAN ELSE {FALSE} :
        /\ order' = IF Inserts(r, fails) THEN [order EXCEPT ![r.taskNo] = "NEW"]
                    ELSE IF Revokes(r, fails) THEN [order EXCEPT ![r.taskNo] = "REVOKE"]
                    ELSE order
        /\ done' = IF Inserts(r, fails) \/ Revokes(r, fails) THEN done \cup {c} ELSE done
        /\ failures' = IF fails THEN failures + 1 ELSE failures
        /\ Reply(c, IF Succeeds(r, fails) THEN OperationSuccess
                    ELSE IF r.bizType = "UNKNOWN" THEN UnknownOperationCode
                    ELSE DatabaseError)

(* readMsg finds a whole request in the message. *)
Complete(m, n) == n = Parts /\ request[m].bizType # "BROKEN"

(* Mutant: the timer is stopped with the first piece. *)
CollectInTime(c, m, n) ==
    /\ received' = [received EXCEPT ![m] = n]
    /\ unread' = [unread EXCEPT ![c] = 0]
    /\ timer' = timer \ {c}
    /\ UNCHANGED <<conn, socket, content, alive, left, request, answer, table>>

(* The request is not whole: the message keeps what there is. *)
Collect(c, m, n) ==
    /\ received' = [received EXCEPT ![m] = n]
    /\ unread' = [unread EXCEPT ![c] = 0]
    /\ UNCHANGED <<conn, socket, content, alive, timer, left, request, answer, table>>

(* readyRead: all that is there goes into the message that the entry points *)
(* at; a whole request is executed and answered.                            *)
ReadyRead(c) ==
    LET m == content[socket[c]]
        n == received[m] + unread[c]
    IN  /\ c \in Open /\ unread[c] > 0
        /\ IF Complete(m, n) THEN Launch(c, request[m]) ELSE Collect(c, m, n)

(* timerEvent: no whole request within 10 s. *)
Timeout(c) ==
    /\ c \in timer
    /\ Reply(c, TimeoutError)
    /\ UNCHANGED table

(* An error and then disconnected: the peer has closed, perhaps with pieces *)
(* unread.  The entry of the address stays.                                 *)
Disconnected(c) ==
    /\ c \in Open \cap left
    /\ Disconnect(c)
    /\ alive' = alive \ {c}
    /\ UNCHANGED <<content, request, answer, table>>
-----------------------------------------------------------------------------
(* Mutant: the status as it is reported. *)
TakenAsReported(o) == [order EXCEPT ![o] = "DOING"]

(* updateCurrentOrderOver *)
Taken(o) == [order EXCEPT ![o] = "OVER"]

(* The tick takes an order (TakeOrder of TaskChains). *)
TakeOrder(o) ==
    /\ order[o] = "NEW"
    /\ order' = Taken(o)
    /\ UNCHANGED <<conn, socket, content, alive, timer, left, unread, received, request, answer,
                   failures, done>>

(* Mutant: the statement without AND STATUS != 'REVOKE'. *)
RedoneOfAny(o) == [order EXCEPT ![o] = "NEW"]

(* redoErrOrder, for an order that was reported: one that was taken. *)
Redone(o) == IF order[o] = "REVOKE" THEN order ELSE [order EXCEPT ![o] = "NEW"]
RedoErrOrder(o) ==
    /\ order[o] \in {"OVER", "REVOKE"}
    /\ order' = Redone(o)
    /\ UNCHANGED <<conn, socket, content, alive, timer, left, unread, received, request, answer,
                   failures, done>>
-----------------------------------------------------------------------------
Next ==
    \/ \E c \in Connections :
         \/ \E a \in Addresses : NewConnection(c, a)
         \/ PeerSends(c) \/ PeerLeaves(c)
         \/ ReadyRead(c) \/ Timeout(c) \/ Disconnected(c)
    \/ \E o \in Orders : TakeOrder(o) \/ RedoErrOrder(o)

Spec == Init /\ [][Next]_vars

(* Qt's event loop: a timer that runs expires, and what happens to a socket *)
(* is told.                                                                 *)
FairSpec ==
    /\ Spec
    /\ \A c \in Connections : WF_vars(Timeout(c)) /\ WF_vars(ReadyRead(c)) /\ WF_vars(Disconnected(c))
-----------------------------------------------------------------------------
(* Every variable has its type. *)
ServiceTypeOK ==
    /\ conn \in [Connections -> {"not yet", "open", "gone"}]
    /\ socket \in [Connections -> Addresses \cup {None}]
    /\ content \in [Addresses -> Connections \cup {None}]
    /\ alive \subseteq Connections /\ timer \subseteq Connections
    /\ left \subseteq Connections /\ done \subseteq Connections
    /\ unread \in [Connections -> 0..Parts] /\ received \in [Connections -> 0..Parts]
    /\ request \in [Connections -> Request \cup {None}]
    /\ order \in [Orders -> {"none", "NEW", "OVER", "REVOKE"}]
    /\ failures \in 0..MaxFailures
    /\ answer \in [Connections -> Codes]

(***************************************************************************)
(* Whatever handler of a connection may still run finds the connection's    *)
(* own message, not deleted, however connections end and addresses are used *)
(* again; a timer runs for no other connection, and no message is left over *)
(* (ApiServer.cpp:82-140, 176-200).                                         *)
(***************************************************************************)
OwnMessage ==
    /\ \A c \in Open : content[socket[c]] = c
    /\ alive = Open
    /\ timer \subseteq Open

(***************************************************************************)
(* The answer tells what was done, whichever of the request, the time and   *)
(* the peer's leaving comes first: only an order that is answered with      *)
(* success was inserted or revoked, an order that is sent again is inserted *)
(* once, and one that was revoked with success is not given out later       *)
(* (ApiClient.cpp:112-154, WCS_Database.cpp:1105-1121, 1356-1415).          *)
(***************************************************************************)
Inserted(c) == c \in done /\ request[c].bizType = "RECEIVE_CARRY_TASK"
AnswerTrue ==
    /\ \A c \in done : answer[c] = OperationSuccess
    /\ \A c \in Connections :
         answer[c] = OperationSuccess =>
           /\ request[c].bizType = "RECEIVE_CARRY_TASK" => c \in done
           /\ request[c].bizType = "PALLET_TASK_CANCEL" =>
                c \in done /\ order[request[c].taskNo] = "REVOKE"
    /\ \A c, d \in Connections :
         Inserted(c) /\ Inserted(d) /\ request[c].taskNo = request[d].taskNo => c = d

(***************************************************************************)
(* A connection comes to an end, answered unless its peer left first,       *)
(* though a request may be broken or never complete (ApiServer.cpp:90,      *)
(* 133-140).                                                                *)
(***************************************************************************)
Answered ==
    \A c \in Connections : conn[c] = "open" ~> conn[c] = "gone"
=============================================================================
