-------------------------- MODULE OrderServiceThms --------------------------
(***************************************************************************)
(* Theorems about OrderService.tla, for any numbers of connections,         *)
(* addresses, orders and pieces.                                            *)
(***************************************************************************)
EXTENDS OrderService, TLAPS

(* A connection has an address, and pieces of its request, while it is open. *)
Sockets ==
    /\ \A c \in Open :
         /\ socket[c] \in Addresses
         /\ received[c] + unread[c] <= Parts
         /\ received[c] + unread[c] = Parts => request[c] \in Request
    /\ \A c \in Connections \ Open : received[c] = 0 /\ unread[c] = 0

(* A connection that has not ended has done and answered nothing. *)
Unanswered == \A c \in Connections : conn[c] # "gone" => c \notin done /\ answer[c] = NoAnswer

(* What was executed was a whole request, and its order is in the table. *)
Executed ==
    \A c \in done : request[c] \in Request /\ order[request[c].taskNo] # "none"

ServiceInv == ServiceTypeOK /\ OwnMessage /\ AnswerTrue /\ Sockets /\ Unanswered /\ Executed

LEMMA InitInv == Init => ServiceInv
<1> SUFFICES ASSUME Init PROVE ServiceInv
  OBVIOUS
<1>1. ServiceTypeOK
  <2>1. 0 \in 0..Parts /\ 0 \in 0..MaxFailures /\ NoAnswer \in Codes
    BY ServiceAssumption DEF Codes
  <2> QED  BY <2>1 DEF Init, ServiceTypeOK
<1>2. OwnMessage /\ Sockets
  BY DEF Init, OwnMessage, Sockets, Open
<1>3. AnswerTrue /\ Unanswered /\ Executed
  <2>1. NoAnswer # OperationSuccess
    BY DEF NoAnswer, OperationSuccess
  <2> QED  BY <2>1 DEF Init, AnswerTrue, Inserted, Unanswered, Executed
<1> QED  BY <1>1, <1>2, <1>3 DEF ServiceInv
-----------------------------------------------------------------------------
(* Pieces are counted. *)
LEMMA PiecesCounted ==
  ASSUME ServiceTypeOK, NEW c \in Connections
  PROVE  received[c] \in Nat /\ unread[c] \in Nat /\ Parts \in Nat \ {0}
<1>1. Parts \in Nat \ {0}
  BY ServiceAssumption
<1>2. received[c] \in 0..Parts /\ unread[c] \in 0..Parts
  BY DEF ServiceTypeOK
<1> QED  BY <1>1, <1>2

(* A connection begins. *)
LEMMA NewConnectionInv ==
  ASSUME ServiceInv, NEW c \in Connections, NEW a \in Addresses, NewConnection(c, a)
  PROVE  ServiceInv'
<1>1. ServiceTypeOK'
  BY DEF ServiceInv, ServiceTypeOK, NewConnection, Remember, table
<1>2. Open' = Open \cup {c} /\ c \notin Open
  BY DEF ServiceInv, ServiceTypeOK, NewConnection, Open
<1>3. OwnMessage'
  <2>1. ASSUME NEW d \in Open' PROVE content'[socket'[d]] = d
    <3>1. CASE d = c
      BY <3>1 DEF ServiceInv, ServiceTypeOK, NewConnection, Remember
    <3>2. CASE d \in Open /\ d # c
      BY <3>2 DEF ServiceInv, ServiceTypeOK, OwnMessage, Sockets, NewConnection, Remember, Open
    <3> QED  BY <1>2, <2>1, <3>1, <3>2
  <2> QED  BY <1>2, <2>1 DEF ServiceInv, OwnMessage, NewConnection
<1>4. Sockets'
  <2>1. /\ socket' = [socket EXCEPT ![c] = a]
        /\ received' = received /\ unread' = unread /\ request' = request
    BY DEF NewConnection
  <2>2. received[c] + unread[c] = 0 /\ Parts \in Nat \ {0}
    BY <1>2, ServiceAssumption DEF ServiceInv, Sockets
  <2>3. ASSUME NEW d \in Open'
        PROVE  /\ socket'[d] \in Addresses
               /\ received'[d] + unread'[d] <= Parts
               /\ received'[d] + unread'[d] = Parts => request'[d] \in Request
    <3>1. CASE d = c
      <4>1. socket'[d] = a
        BY <2>1, <3>1 DEF ServiceInv, ServiceTypeOK
      <4> QED  BY <2>1, <2>2, <3>1, <4>1
    <3>2. CASE d \in Open /\ d # c
      BY <2>1, <3>2 DEF ServiceInv, ServiceTypeOK, Sockets, Open
    <3> QED  BY <1>2, <2>3, <3>1, <3>2
  <2>4. \A d \in Connections \ Open' : received'[d] = 0 /\ unread'[d] = 0
    BY <1>2, <2>1 DEF ServiceInv, Sockets
  <2> QED  BY <2>3, <2>4 DEF Sockets
<1>5. AnswerTrue' /\ Executed'
  BY DEF ServiceInv, AnswerTrue, Inserted, Executed, NewConnection, table
<1>6. Unanswered'
  BY DEF ServiceInv, ServiceTypeOK, Unanswered, NewConnection, table
<1> QED  BY <1>1, <1>3, <1>4, <1>5, <1>6 DEF ServiceInv

(* The peer sends a piece or closes. *)
LEMMA PeerInv ==
  ASSUME ServiceInv, NEW c \in Connections, PeerSends(c) \/ PeerLeaves(c)
  PROVE  ServiceInv'
<1>1. ServiceTypeOK'
  <2>1. CASE PeerSends(c)
    <3>1. unread[c] + 1 \in 0..Parts
      BY <2>1, PiecesCounted DEF ServiceInv, PeerSends
    <3>2. request' \in [Connections -> Request \cup {None}]
      BY <2>1 DEF ServiceInv, ServiceTypeOK, PeerSends
    <3> QED  BY <2>1, <3>1, <3>2 DEF ServiceInv, ServiceTypeOK, PeerSends, table
  <2>2. CASE PeerLeaves(c)
    BY <2>2 DEF ServiceInv, ServiceTypeOK, PeerLeaves, table
  <2> QED  BY <2>1, <2>2
<1>2. c \in Open /\ Open' = Open /\ UNCHANGED <<conn, socket, content, alive, timer, received, answer, order, done>>
  BY DEF PeerSends, PeerLeaves, Open, table
<1>3. \A d \in Connections : d # c => request'[d] = request[d] /\ unread'[d] = unread[d]
  BY DEF ServiceInv, ServiceTypeOK, PeerSends, PeerLeaves
<1>4. OwnMessage'
  BY <1>2 DEF ServiceInv, OwnMessage
<1>5. Sockets'
  <2>1. CASE PeerLeaves(c)
    BY <1>2, <2>1 DEF ServiceInv, Sockets, PeerLeaves
  <2>2. CASE PeerSends(c)
    <3>1. unread'[c] = unread[c] + 1 /\ received'[c] = received[c]
      BY <1>2, <2>2 DEF ServiceInv, ServiceTypeOK, PeerSends
    <3>2. received'[c] + unread'[c] <= Parts
      BY <2>2, <3>1, PiecesCounted DEF ServiceInv, PeerSends
    <3>3. received'[c] + unread'[c] = Parts => request'[c] \in Request
      <4>1. (received[c] + unread[c]) + 1 = received[c] + (unread[c] + 1)
        BY PiecesCounted DEF ServiceInv
      <4>2. received'[c] + unread'[c] = Parts => \E r \in Request : request' = [request EXCEPT ![c] = r]
        BY <2>2, <3>1, <4>1 DEF PeerSends
      <4> QED  BY <4>2 DEF ServiceInv, ServiceTypeOK
    <3>4. ASSUME NEW d \in Open, d # c
          PROVE  /\ socket'[d] \in Addresses
                 /\ received'[d] + unread'[d] <= Parts
                 /\ received'[d] + unread'[d] = Parts => request'[d] \in Request
      BY <1>2, <1>3, <3>4 DEF ServiceInv, Sockets, Open
    <3>5. \A d \in Connections \ Open' : received'[d] = 0 /\ unread'[d] = 0
      BY <1>2, <1>3 DEF ServiceInv, Sockets
    <3>6. socket'[c] \in Addresses
      BY <1>2 DEF ServiceInv, Sockets
    <3> QED  BY <1>2, <3>2, <3>3, <3>4, <3>5, <3>6 DEF Sockets
  <2> QED  BY <2>1, <2>2
<1>6. c \notin done /\ answer[c] = NoAnswer
  BY <1>2 DEF ServiceInv, Unanswered, Open
<1>7. AnswerTrue'
  <2>1. answer[c] # OperationSuccess
    BY <1>6 DEF NoAnswer, OperationSuccess
  <2> QED  BY <1>2, <1>3, <1>6, <2>1 DEF ServiceInv, AnswerTrue, Inserted
<1>8. Unanswered' /\ Executed'
  BY <1>2, <1>3, <1>6 DEF ServiceInv, ServiceTypeOK, Unanswered, Executed
<1> QED  BY <1>1, <1>4, <1>5, <1>7, <1>8 DEF ServiceInv
-----------------------------------------------------------------------------
(* A connection ends: nothing of it is left that a handler could find. *)
LEMMA DisconnectInv ==
  ASSUME ServiceInv, NEW c \in Open, Disconnect(c), alive' = alive \ {c}, request' = request,
         \A d \in Open \ {c} : content'[socket[d]] = content[socket[d]]
  PROVE  OwnMessage' /\ Sockets' /\ Open' = Open \ {c}
<1>1. Open' = Open \ {c}
  BY DEF ServiceInv, ServiceTypeOK, Disconnect, Open
<1>2. \A d \in Connections : d # c =>
        /\ socket'[d] = socket[d]
        /\ received'[d] = received[d] /\ unread'[d] = unread[d]
  BY DEF ServiceInv, ServiceTypeOK, Disconnect, Open
<1>3. OwnMessage'
  BY <1>1, <1>2 DEF ServiceInv, OwnMessage, Disconnect, Open
<1>4. Sockets'
  <2>1. received'[c] = 0 /\ unread'[c] = 0
    BY DEF ServiceInv, ServiceTypeOK, Disconnect, Open
  <2>2. \A d \in Connections \ Open' : received'[d] = 0 /\ unread'[d] = 0
    BY <1>1, <1>2, <2>1 DEF ServiceInv, Sockets
  <2>3. ASSUME NEW d \in Open'
        PROVE  /\ socket'[d] \in Addresses
               /\ received'[d] + unread'[d] <= Parts
               /\ received'[d] + unread'[d] = Parts => request'[d] \in Request
    BY <1>1, <1>2 DEF ServiceInv, Sockets, Open
  <2> QED  BY <2>2, <2>3 DEF Sockets
<1> QED  BY <1>1, <1>3, <1>4

(* The types after an end, whoever ends the connection. *)
LEMMA DisconnectTypes ==
  ASSUME ServiceTypeOK, NEW c \in Connections, Disconnect(c)
  PROVE  /\ conn' \in [Connections -> {"not yet", "open", "gone"}]
         /\ socket' \in [Connections -> Addresses \cup {None}]
         /\ timer' \subseteq Connections /\ left' \subseteq Connections
         /\ unread' \in [Connections -> 0..Parts] /\ received' \in [Connections -> 0..Parts]
<1>1. 0 \in 0..Parts
  BY ServiceAssumption
<1> QED  BY <1>1 DEF ServiceTypeOK, Disconnect

(* A connection is answered with nothing done. *)
LEMMA ReplyInv ==
  ASSUME ServiceInv, NEW c \in Open, NEW code \in Codes, Reply(c, code)
  PROVE  /\ OwnMessage' /\ Sockets'
         /\ conn' \in [Connections -> {"not yet", "open", "gone"}]
         /\ socket' \in [Connections -> Addresses \cup {None}]
         /\ content' \in [Addresses -> Connections \cup {None}]
         /\ alive' \subseteq Connections
         /\ timer' \subseteq Connections /\ left' \subseteq Connections
         /\ unread' \in [Connections -> 0..Parts] /\ received' \in [Connections -> 0..Parts]
         /\ request' = request
         /\ answer' \in [Connections -> Codes]
         /\ answer' = [answer EXCEPT ![c] = code]
         /\ \A d \in Connections : conn'[d] # "gone" => conn[d] # "gone" /\ d # c
<1>1. c \in Connections /\ content[socket[c]] = c /\ socket[c] \in Addresses
  BY DEF ServiceInv, OwnMessage, Sockets, Open
<1>2. alive' = alive \ {c} /\ Disconnect(c)
  BY <1>1 DEF Reply
<1>3. \A d \in Open \ {c} : content'[socket[d]] = content[socket[d]]
  BY <1>1 DEF ServiceInv, ServiceTypeOK, OwnMessage, Sockets, Reply
<1>4. OwnMessage' /\ Sockets'
  BY <1>2, <1>3, DisconnectInv DEF Reply
<1>5. content' \in [Addresses -> Connections \cup {None}] /\ answer' \in [Connections -> Codes]
  BY <1>1 DEF ServiceInv, ServiceTypeOK, Reply
<1>6. \A d \in Connections : conn'[d] # "gone" => conn[d] # "gone" /\ d # c
  BY <1>1, <1>2 DEF ServiceInv, ServiceTypeOK, Disconnect
<1>7. alive' \subseteq Connections /\ request' = request /\ answer' = [answer EXCEPT ![c] = code]
  BY <1>2 DEF ServiceInv, ServiceTypeOK, Reply
<1> QED  BY <1>1, <1>2, <1>4, <1>5, <1>6, <1>7, DisconnectTypes DEF ServiceInv

LEMMA TimeoutInv ==
  ASSUME ServiceInv, NEW c \in Connections, Timeout(c)
  PROVE  ServiceInv'
<1>1. c \in Open /\ TimeoutError \in Codes /\ TimeoutError # OperationSuccess
  BY DEF ServiceInv, OwnMessage, Timeout, Codes, TimeoutError, OperationSuccess
<1>2. Reply(c, TimeoutError) /\ order' = order /\ done' = done /\ failures' = failures
  BY DEF Timeout, table
<1>3. c \notin done /\ answer[c] = NoAnswer
  BY <1>1 DEF ServiceInv, Unanswered, Open
<1>4. ServiceTypeOK'
  BY <1>1, <1>2, ReplyInv DEF ServiceInv, ServiceTypeOK
<1>5. OwnMessage' /\ Sockets'
  BY <1>1, <1>2, ReplyInv
<1>6. request' = request /\ answer' = [answer EXCEPT ![c] = TimeoutError]
  BY <1>1, <1>2, ReplyInv
<1>7. AnswerTrue'
  BY <1>1, <1>2, <1>3, <1>6 DEF ServiceInv, ServiceTypeOK, AnswerTrue, Inserted
<1>8. Executed'
  BY <1>2, <1>6 DEF ServiceInv, Executed
<1>9. Unanswered'
  BY <1>1, <1>2, <1>6, ReplyInv DEF ServiceInv, ServiceTypeOK, Unanswered
<1> QED  BY <1>4, <1>5, <1>7, <1>8, <1>9 DEF ServiceInv

LEMMA DisconnectedInv ==
  ASSUME ServiceInv, NEW c \in Connections, Disconnected(c)
  PROVE  ServiceInv'
<1>1. c \in Open /\ Disconnect(c) /\ alive' = alive \ {c}
  BY DEF Disconnected
<1>2. /\ content' = content /\ request' = request /\ answer' = answer
      /\ order' = order /\ done' = done /\ failures' = failures
  BY DEF Disconnected, table
<1>3. OwnMessage' /\ Sockets'
  BY <1>1, <1>2, DisconnectInv
<1>4. ServiceTypeOK'
  BY <1>1, <1>2, DisconnectTypes DEF ServiceInv, ServiceTypeOK
<1>5. AnswerTrue' /\ Executed'
  BY <1>2 DEF ServiceInv, AnswerTrue, Inserted, Executed
<1>6. Unanswered'
  BY <1>1, <1>2 DEF ServiceInv, ServiceTypeOK, Unanswered, Disconnect
<1> QED  BY <1>3, <1>4, <1>5, <1>6 DEF ServiceInv
-----------------------------------------------------------------------------
(* A request is executed and answered. *)
LEMMA LaunchInv ==
  ASSUME ServiceInv, NEW c \in Open, request[c] \in Request, Launch(c, request[c])
  PROVE  ServiceInv'
<1> DEFINE r == request[c]
<1>1. PICK fails \in IF failures < MaxFailures THEN BOOLEAN ELSE {FALSE} :
        /\ order' = IF Inserts(r, fails) THEN [order EXCEPT ![r.taskNo] = "NEW"]
                    ELSE IF Revokes(r, fails) THEN [order EXCEPT ![r.taskNo] = "REVOKE"]
                    ELSE order
        /\ done' = IF Inserts(r, fails) \/ Revokes(r, fails) THEN done \cup {c} ELSE done
        /\ failures' = IF fails THEN failures + 1 ELSE failures
        /\ Reply(c, IF Succeeds(r, fails) THEN OperationSuccess
                    ELSE IF r.bizType = "UNKNOWN" THEN UnknownOperationCode
                    ELSE DatabaseError)
  BY DEF Launch
<1> DEFINE code == IF Succeeds(r, fails) THEN OperationSuccess
                   ELSE IF r.bizType = "UNKNOWN" THEN UnknownOperationCode
                   ELSE DatabaseError
<1>2. code \in Codes /\ (code = OperationSuccess <=> Succeeds(r, fails))
  BY DEF Codes, OperationSuccess, UnknownOperationCode, DatabaseError
<1>3. /\ c \in Connections /\ r.taskNo \in Orders
      /\ c \notin done /\ answer[c] = NoAnswer
  BY DEF ServiceInv, Unanswered, Open, Request
<1>4. /\ OwnMessage' /\ Sockets'
      /\ request' = request /\ answer' = [answer EXCEPT ![c] = code]
      /\ \A d \in Connections : conn'[d] # "gone" => conn[d] # "gone" /\ d # c
  BY <1>1, <1>2, ReplyInv
<1>5. failures' \in 0..MaxFailures
  <2>1. failures \in 0..MaxFailures /\ MaxFailures \in Nat
    BY ServiceAssumption DEF ServiceInv, ServiceTypeOK
  <2>2. fails = TRUE => failures < MaxFailures
    BY <1>1
  <2>3. failures' = failures \/ (failures < MaxFailures /\ failures' = failures + 1)
    BY <1>1, <2>2
  <2> QED  BY <2>1, <2>3
<1>6. order' \in [Orders -> {"none", "NEW", "OVER", "REVOKE"}] /\ done' \subseteq Connections
  BY <1>1, <1>3 DEF ServiceInv, ServiceTypeOK
<1>7. ServiceTypeOK'
  BY <1>1, <1>2, <1>4, <1>5, <1>6, ReplyInv DEF ServiceInv, ServiceTypeOK
<1>8. ASSUME NEW o \in Orders
      PROVE  /\ order[o] # "none" => order'[o] # "none"
             /\ order[o] = "REVOKE" => order'[o] = "REVOKE"
  BY <1>1, <1>3 DEF ServiceInv, ServiceTypeOK, Inserts, Revokes
<1>9. Inserts(r, fails) => order'[r.taskNo] # "none"
  BY <1>1, <1>3 DEF ServiceInv, ServiceTypeOK
<1>10. Revokes(r, fails) => order'[r.taskNo] = "REVOKE"
  BY <1>1, <1>3 DEF ServiceInv, ServiceTypeOK, Inserts, Revokes
<1>11. Executed'
  <2>1. ASSUME NEW d \in done, d # c
        PROVE  request[d] \in Request /\ order'[request[d].taskNo] # "none"
    BY <1>8, <2>1 DEF ServiceInv, Executed, Request
  <2>2. c \in done' => request[c] \in Request /\ order'[request[c].taskNo] # "none"
    BY <1>1, <1>3, <1>9, <1>10
  <2>3. \A d \in done' : d = c \/ d \in done
    BY <1>1
  <2> QED  BY <1>4, <2>1, <2>2, <2>3 DEF Executed
<1>12. Unanswered'
  BY <1>1, <1>4 DEF ServiceInv, ServiceTypeOK, Unanswered
<1>13. AnswerTrue'
  <2>1. \A d \in Connections : d # c => answer'[d] = answer[d] /\ (d \in done' <=> d \in done)
    BY <1>1, <1>4 DEF ServiceInv, ServiceTypeOK
  <2>2. answer'[c] = code /\ (c \in done' <=> Inserts(r, fails) \/ Revokes(r, fails))
    BY <1>1, <1>3, <1>4 DEF ServiceInv, ServiceTypeOK
  <2>3. \A d \in done' : answer'[d] = OperationSuccess
    BY <1>2, <1>6, <2>1, <2>2 DEF ServiceInv, AnswerTrue, Succeeds
  <2>4. ASSUME NEW d \in Connections, answer'[d] = OperationSuccess
        PROVE  /\ request'[d].bizType = "RECEIVE_CARRY_TASK" => d \in done'
               /\ request'[d].bizType = "PALLET_TASK_CANCEL" =>
                    d \in done' /\ order'[request'[d].taskNo] = "REVOKE"
    <3>1. CASE d = c
      BY <1>2, <1>4, <1>10, <2>2, <2>4, <3>1 DEF Succeeds, Inserts, Revokes
    <3>2. CASE d # c
      <4>1. answer[d] = OperationSuccess
        BY <2>1, <2>4, <3>2
      <4>2. request[d].bizType = "PALLET_TASK_CANCEL" => d \in done /\ order[request[d].taskNo] = "REVOKE"
        BY <4>1 DEF ServiceInv, AnswerTrue
      <4>3. d \in done => request[d].taskNo \in Orders
        BY DEF ServiceInv, Executed, Request
      <4> QED  BY <1>4, <1>8, <2>1, <3>2, <4>1, <4>2, <4>3 DEF ServiceInv, AnswerTrue
    <3> QED  BY <3>1, <3>2
  <2>5. ASSUME NEW d \in Connections, NEW e \in Connections, Inserted(d)', Inserted(e)',
               request'[d].taskNo = request'[e].taskNo
        PROVE  d = e
    <3>1. ASSUME NEW q \in Connections, q # c, Inserted(q)', Inserted(c)'
          PROVE  request[q].taskNo # request[c].taskNo
      <4>1. q \in done
        BY <2>1, <3>1 DEF Inserted
      <4>2. Inserts(r, fails)
        BY <1>4, <2>2, <3>1 DEF Inserted, Inserts, Revokes
      <4> QED  BY <4>1, <4>2 DEF ServiceInv, Executed, Inserts
    <3>2. CASE d # c /\ e # c
      BY <1>4, <2>1, <2>5, <3>2 DEF ServiceInv, AnswerTrue, Inserted
    <3> QED  BY <1>4, <2>5, <3>1, <3>2
  <2> QED  BY <2>3, <2>4, <2>5 DEF AnswerTrue
<1> QED  BY <1>4, <1>7, <1>11, <1>12, <1>13 DEF ServiceInv

LEMMA ReadyReadInv ==
  ASSUME ServiceInv, NEW c \in Connections, ReadyRead(c)
  PROVE  ServiceInv'
<1> DEFINE n == received[c] + unread[c]
<1>1. c \in Open /\ content[socket[c]] = c
  BY DEF ServiceInv, OwnMessage, ReadyRead
<1>2. n \in Nat /\ n <= Parts /\ (n = Parts => request[c] \in Request)
  BY <1>1, PiecesCounted DEF ServiceInv, Sockets
<1>3. CASE Complete(c, n)
  <2>1. Launch(c, request[c]) /\ request[c] \in Request
    BY <1>1, <1>2, <1>3 DEF ReadyRead, Complete
  <2> QED  BY <1>1, <2>1, LaunchInv
<1>4. CASE ~Complete(c, n)
  <2>1. Collect(c, c, n)
    BY <1>1, <1>4 DEF ReadyRead
  <2>2. /\ conn' = conn /\ socket' = socket /\ content' = content /\ alive' = alive
        /\ timer' = timer /\ left' = left /\ request' = request /\ answer' = answer
        /\ order' = order /\ failures' = failures /\ done' = done /\ Open' = Open
    BY <2>1 DEF Collect, table, Open
  <2>3. n \in 0..Parts /\ 0 \in 0..Parts
    BY <1>2, PiecesCounted DEF ServiceInv
  <2>4. ServiceTypeOK'
    BY <2>1, <2>2, <2>3 DEF ServiceInv, ServiceTypeOK, Collect
  <2>5. OwnMessage' /\ AnswerTrue' /\ Unanswered' /\ Executed'
    BY <2>2 DEF ServiceInv, OwnMessage, AnswerTrue, Inserted, Unanswered, Executed
  <2>6. /\ received'[c] = n /\ unread'[c] = 0
        /\ \A d \in Connections : d # c => received'[d] = received[d] /\ unread'[d] = unread[d]
    BY <2>1 DEF ServiceInv, ServiceTypeOK, Collect
  <2>7. received'[c] + unread'[c] = n
    BY <1>2, <2>6
  <2>8. ASSUME NEW d \in Open
        PROVE  /\ socket'[d] \in Addresses
               /\ received'[d] + unread'[d] <= Parts
               /\ received'[d] + unread'[d] = Parts => request'[d] \in Request
    <3>1. CASE d = c
      BY <1>1, <1>2, <2>2, <2>7, <3>1 DEF ServiceInv, Sockets
    <3>2. CASE d # c
      BY <2>2, <2>6, <3>2 DEF ServiceInv, Sockets, Open
    <3> QED  BY <3>1, <3>2
  <2>9. \A d \in Connections \ Open' : received'[d] = 0 /\ unread'[d] = 0
    BY <1>1, <2>2, <2>6 DEF ServiceInv, Sockets
  <2> QED  BY <2>2, <2>4, <2>5, <2>8, <2>9 DEF ServiceInv, Sockets
<1> QED  BY <1>3, <1>4
-----------------------------------------------------------------------------
(* An order is taken or given out anew. *)
LEMMA OrderInv ==
  ASSUME ServiceInv, NEW o \in Orders, TakeOrder(o) \/ RedoErrOrder(o)
  PROVE  ServiceInv'
<1>1. /\ conn' = conn /\ socket' = socket /\ content' = content /\ alive' = alive
      /\ timer' = timer /\ left' = left /\ unread' = unread /\ received' = received
      /\ request' = request /\ answer' = answer /\ failures' = failures /\ done' = done
      /\ Open' = Open
  BY DEF TakeOrder, RedoErrOrder, Open
<1>2. order' \in [Orders -> {"none", "NEW", "OVER", "REVOKE"}]
  BY DEF ServiceInv, ServiceTypeOK, TakeOrder, RedoErrOrder, Taken, Redone
<1>3. ASSUME NEW q \in Orders
      PROVE  /\ order[q] # "none" => order'[q] # "none"
             /\ order[q] = "REVOKE" => order'[q] = "REVOKE"
  BY DEF ServiceInv, ServiceTypeOK, TakeOrder, RedoErrOrder, Taken, Redone
<1>4. ServiceTypeOK' /\ OwnMessage' /\ Sockets' /\ Unanswered'
  BY <1>1, <1>2 DEF ServiceInv, ServiceTypeOK, OwnMessage, Sockets, Unanswered
<1>5. Executed'
  BY <1>1, <1>3 DEF ServiceInv, Executed, Request
<1>6. AnswerTrue'
  <2>1. ASSUME NEW c \in Connections, answer[c] = OperationSuccess,
               request[c].bizType = "PALLET_TASK_CANCEL"
        PROVE  c \in done /\ order'[request[c].taskNo] = "REVOKE"
    <3>1. c \in done /\ order[request[c].taskNo] = "REVOKE"
      BY <2>1 DEF ServiceInv, AnswerTrue
    <3>2. request[c].taskNo \in Orders
      BY <3>1 DEF ServiceInv, Executed, Request
    <3> QED  BY <1>3, <3>1, <3>2
  <2> QED  BY <1>1, <2>1 DEF ServiceInv, AnswerTrue, Inserted
<1> QED  BY <1>4, <1>5, <1>6 DEF ServiceInv
-----------------------------------------------------------------------------
LEMMA NextInv == ServiceInv /\ [Next]_vars => ServiceInv'
<1> SUFFICES ASSUME ServiceInv, [Next]_vars PROVE ServiceInv'
  OBVIOUS
<1>1. ASSUME NEW c \in Connections, NEW a \in Addresses, NewConnection(c, a) PROVE ServiceInv'
  BY <1>1, NewConnectionInv
<1>2. ASSUME NEW c \in Connections, PeerSends(c) \/ PeerLeaves(c) PROVE ServiceInv'
  BY <1>2, PeerInv
<1>3. ASSUME NEW c \in Connections, ReadyRead(c) PROVE ServiceInv'
  BY <1>3, ReadyReadInv
<1>4. ASSUME NEW c \in Connections, Timeout(c) PROVE ServiceInv'
  BY <1>4, TimeoutInv
<1>5. ASSUME NEW c \in Connections, Disconnected(c) PROVE ServiceInv'
  BY <1>5, DisconnectedInv
<1>6. ASSUME NEW o \in Orders, TakeOrder(o) \/ RedoErrOrder(o) PROVE ServiceInv'
  BY <1>6, OrderInv
<1>7. CASE UNCHANGED vars
  BY <1>7, ZenonT(60) DEF vars, table, Open, ServiceInv, ServiceTypeOK, OwnMessage, AnswerTrue, Inserted,
              Sockets, Unanswered, Executed
<1> QED  BY <1>1, <1>2, <1>3, <1>4, <1>5, <1>6, <1>7 DEF Next

(***************************************************************************)
(* The types of the service's state hold in every state, and so do          *)
(* OwnMessage and AnswerTrue: no handler of ApiServer finds a message that  *)
(* is another connection's or deleted, and the answers tell what was done.  *)
(***************************************************************************)
THEOREM ServiceTypesHold == Spec => []ServiceTypeOK
<1>1. ServiceInv => ServiceTypeOK
  BY DEF ServiceInv
<1> QED  BY <1>1, InitInv, NextInv, PTL DEF Spec

(* The handlers that may still run find their own message (ApiServer.cpp:82-200). *)
THEOREM MessagesAreOwn == Spec => []OwnMessage
<1>1. ServiceInv => OwnMessage
  BY DEF ServiceInv
<1> QED  BY <1>1, InitInv, NextInv, PTL DEF Spec

(* The answers are true, an order is inserted once, and a revoked one stays revoked. *)
THEOREM AnswersAreTrue == Spec => []AnswerTrue
<1>1. ServiceInv => AnswerTrue
  BY DEF ServiceInv
<1> QED  BY <1>1, InitInv, NextInv, PTL DEF Spec
=============================================================================
