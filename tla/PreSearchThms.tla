---------------------------- MODULE PreSearchThms ----------------------------
(***************************************************************************)
(* Theorems about PreSearch.tla, for any number of ticks between two        *)
(* requests, any number of ids, requests and failing statements.            *)
(***************************************************************************)
EXTENDS PreSearch, TLAPS

(* The ids that wait in the table of requests. *)
Asked == {requests[k] : k \in 1..Len(requests)}

(* The last id that a sub-task has had. *)
Current == IF chain.status = "NONE" THEN last_id ELSE id

(* A chain has ids that were given out, one that gets also that of its put. *)
ChainIds ==
    /\ id <= last_id
    /\ chain.status # "NONE" => id \in Id
    /\ chain.status # "NONE" /\ chain.sub_task = "EQUIP_GET" => id + 1 <= last_id

(* An id that no sub-task has had was neither asked for nor counted, and a   *)
(* result that it has is an old one.                                        *)
Fresh ==
    \A i \in Id : i > Current =>
        (feedback[i] = "NONE" \/ i \in old) /\ exec_num[i] = 0 /\ i \notin Asked

(* The count of failures is no higher than the ticks that were waited. *)
Counted == chain.status = "WAIT" => exec_num[id] <= waited

(* A sub-task in the ACS was asked for, and what was asked for is not        *)
(* withdrawn.                                                               *)
AskedFor ==
    /\ task # "NONE" => chain.status \in {"CHECK", "ERR"}
    /\ chain.status \in {"CHECK", "ERR"} => pre_search
    /\ pre_search => ~withdrawn

(* A request that is not taken will find a sub-task that wants its path, and *)
(* so does a path when a sub-task has ended.                                *)
RequestsWanted ==
    /\ requests # <<>> =>
         left \/ pre_search \/ (chain.status = "WAIT" /\ ~withdrawn)
    /\ requests # <<>> /\ chain.status = "CHECK" => left
    /\ path /\ task = "DONE" /\ chain.status = "CHECK" => left \/ reset

(* From the first request of a sub-task on no reset is on its way, and a     *)
(* SUCCESS that it hears has left a path, if it is not an old one.          *)
PathHeld ==
    chain.status = "WAIT" /\ id \notin spoilt =>
        /\ pre_search \/ id \in Asked \/ (feedback[id] # "NONE" /\ id \notin old) => ~reset
        /\ feedback[id] = "SUCCESS" /\ id \notin old => path

SearchInv ==
    /\ SearchTypeOK /\ PathWanted
    /\ ChainIds /\ Fresh /\ Counted /\ AskedFor /\ RequestsWanted /\ PathHeld
-----------------------------------------------------------------------------
LEMMA InitInv == Init => SearchInv
<1> SUFFICES ASSUME Init PROVE SearchInv
  OBVIOUS
<1>1. ExecNum \in Nat \ {0} /\ MaxId \in Nat /\ MaxOutages \in Nat /\ MaxFailures \in Nat
  BY SearchAssumption
<1>2. SearchTypeOK
  <2>1. feedback \in [Id -> Result \cup {"NONE", "OTHER", "INIT"}]
    BY SearchAssumption DEF Init
  <2>2. requests \in Seq(Id)
    BY DEF Init
  <2>3. chain \in [sub_task : Kinds, id : 0..MaxId, status : {"NONE", "WAIT", "CHECK", "ERR"}]
    BY <1>1 DEF Init, Kinds
  <2>4. /\ exec_num \in [Id -> 0..(ExecNum - 1)] /\ last_id \in 0..MaxId
        /\ outages \in 0..MaxOutages /\ failures \in 0..MaxFailures /\ waited \in 0..ExecNum
    BY <1>1 DEF Init
  <2> QED  BY <2>1, <2>2, <2>3, <2>4 DEF Init, SearchTypeOK
<1>3. Fresh
  BY DEF Init, Fresh, Asked, Current, Id
<1>4. PathWanted /\ ChainIds /\ Counted /\ AskedFor /\ RequestsWanted /\ PathHeld
  BY DEF Init, PathWanted, ChainIds, Counted, AskedFor, RequestsWanted, PathHeld, id
<1> QED  BY <1>2, <1>3, <1>4 DEF SearchInv
-----------------------------------------------------------------------------
(* A request that is made is one more that waits. *)
LEMMA AppendAsked ==
  ASSUME requests \in Seq(Id), id \in Id, requests' = Append(requests, id)
  PROVE  Asked' = Asked \cup {id} /\ requests' \in Seq(Id) /\ requests' # <<>>
BY DEF Asked

(* A request that the ACS takes was one that waited. *)
LEMMA TailAsked ==
  ASSUME requests \in Seq(Id), requests # <<>>, requests' = Tail(requests)
  PROVE  Asked' \subseteq Asked /\ requests' \in Seq(Id)
BY DEF Asked

LEMMA HeadAsked ==
  ASSUME requests \in Seq(Id), requests # <<>>
  PROVE  Head(requests) \in Asked /\ Head(requests) \in Id
BY DEF Asked

(* insertPreSearchTask, for whichever of the results it is called. *)
LEMMA AskStep ==
  ASSUME SearchInv, Waits, NEW n \in Nat, Ask(n),
         exec_num' \in [Id -> 0..(ExecNum - 1)],
         \A i \in Id \ {id} : exec_num'[i] = exec_num[i],
         exec_num'[id] = IF n = 0 THEN 0 ELSE exec_num[id],
         UNCHANGED <<chain, last_id, acs, agv, old>>
  PROVE  SearchInv'
<1>1. /\ chain.status = "WAIT" /\ id \in Id /\ id' = id /\ Current' = Current /\ Current = id
      /\ chain' = chain /\ last_id' = last_id
      /\ feedback' = feedback /\ task' = task /\ path' = path /\ old' = old
      /\ serving' = serving /\ at_node' = at_node /\ outages' = outages
  BY DEF SearchInv, ChainIds, Waits, id, Current, acs, agv
<1>2. ExecNum \in Nat \ {0} /\ MaxFailures \in Nat
  BY SearchAssumption
<1>3. CASE /\ n > 0 \/ ~at_node
           /\ pre_search' = FALSE
           /\ waited' = IF waited < ExecNum THEN waited + 1 ELSE waited
           /\ UNCHANGED <<requests, reset, failures, withdrawn, spoilt, left>>
  <2>1. Asked' = Asked
    BY <1>3 DEF Asked
  <2>2. SearchTypeOK'
    <3>1. waited' \in 0..ExecNum
      BY <1>2, <1>3 DEF SearchInv, SearchTypeOK
    <3> QED  BY <1>1, <1>3, <3>1 DEF SearchInv, SearchTypeOK
  <2>3. Fresh'
    BY <1>1, <2>1 DEF SearchInv, Fresh, Id
  <2>4. Counted'
    BY <1>1, <1>2, <1>3, <2>2 DEF SearchInv, SearchTypeOK, Counted
  <2>5. PathWanted' /\ ChainIds' /\ AskedFor' /\ RequestsWanted'
    BY <1>1, <1>3 DEF SearchInv, PathWanted, ChainIds, AskedFor, RequestsWanted
  <2>6. PathHeld'
    BY <1>1, <1>3, <2>1 DEF SearchInv, PathHeld
  <2> QED  BY <2>2, <2>3, <2>4, <2>5, <2>6 DEF SearchInv
<1>4. ASSUME NEW cancelled \in BOOLEAN, NEW inserted \in BOOLEAN,
             n = 0,
             IF cancelled /\ inserted THEN failures' = failures
             ELSE Lost(IF cancelled \/ inserted THEN 1 ELSE 2),
             reset' = (reset /\ ~cancelled),
             requests' = IF inserted THEN Append(requests, id) ELSE requests,
             pre_search' = inserted,
             withdrawn' = (withdrawn /\ ~inserted),
             spoilt' = IF reset' THEN spoilt \cup {id} ELSE spoilt,
             left' = (left \/ ~inserted \/ requests # <<>>),
             waited' = 0
      PROVE  SearchInv'
  <2>1. Asked' \subseteq Asked \cup {id} /\ requests' \in Seq(Id)
    <3>1. CASE inserted
      BY <1>1, <1>4, <3>1, AppendAsked DEF SearchInv, SearchTypeOK
    <3>2. CASE ~inserted
      BY <1>4, <3>2 DEF SearchInv, SearchTypeOK, Asked
    <3> QED  BY <3>1, <3>2
  <2>2. failures' \in 0..MaxFailures
    BY <1>2, <1>4 DEF SearchInv, SearchTypeOK, Lost
  <2>3. reset' \in BOOLEAN /\ pre_search' \in BOOLEAN /\ withdrawn' \in BOOLEAN /\ left' \in BOOLEAN
    BY <1>4 DEF SearchInv, SearchTypeOK
  <2>4. waited' \in 0..ExecNum /\ spoilt' \subseteq Id
    BY <1>1, <1>2, <1>4 DEF SearchInv, SearchTypeOK
  <2>5. SearchTypeOK'
    BY <1>1, <2>1, <2>2, <2>3, <2>4 DEF SearchInv, SearchTypeOK
  <2>6. Fresh'
    BY <1>1, <2>1 DEF SearchInv, Fresh, Id
  <2>7. Counted'
    BY <1>1, <1>4 DEF Counted
  <2>8. PathWanted' /\ ChainIds' /\ AskedFor' /\ RequestsWanted'
    BY <1>1, <1>4 DEF SearchInv, PathWanted, ChainIds, AskedFor, RequestsWanted
  <2>9. PathHeld'
    BY <1>1, <1>4 DEF SearchInv, PathHeld
  <2> QED  BY <2>5, <2>6, <2>7, <2>8, <2>9 DEF SearchInv
<1> QED  BY <1>3, <1>4 DEF Ask

(* What a result does to the search of the sub-task that hears it. *)
LEMMA SearchStep ==
  ASSUME SearchInv, SearchFirst \/ SearchOther \/ SearchFailed \/ SearchInit
  PROVE  SearchInv'
<1>1. ExecNum \in Nat \ {0}
  BY SearchAssumption
<1>2. /\ Waits => id \in Id
      /\ exec_num \in [Id -> 0..(ExecNum - 1)] /\ waited \in 0..ExecNum
  BY DEF SearchInv, SearchTypeOK, ChainIds, Waits
<1>3. CASE SearchFirst
  <2>1. exec_num' = exec_num /\ exec_num[id] \in Nat
    BY <1>1, <1>2, <1>3 DEF SearchFirst
  <2>2. exec_num'[id] = IF exec_num[id] = 0 THEN 0 ELSE exec_num[id]
    BY <2>1
  <2> QED  BY <1>2, <1>3, <2>1, <2>2, AskStep DEF SearchFirst
<1>4. CASE SearchOther
  <2>1. exec_num' = [exec_num EXCEPT ![id] = 0] /\ Waits /\ Ask(0)
    BY <1>4 DEF SearchOther
  <2>2. exec_num'[id] = 0 /\ \A i \in Id \ {id} : exec_num'[i] = exec_num[i]
    BY <1>2, <2>1
  <2>3. exec_num' \in [Id -> 0..(ExecNum - 1)]
    BY <1>1, <1>2, <2>1
  <2> QED  BY <1>4, <2>1, <2>2, <2>3, AskStep DEF SearchOther
<1>5. ASSUME Waits, Keeps, NEW m \in 0..(ExecNum - 1), m <= exec_num[id] + 1,
             pre_search,
             exec_num' = [exec_num EXCEPT ![id] = m],
             UNCHANGED <<chain, last_id, acs, agv, old>>
      PROVE  SearchInv'
  <2>1. /\ chain.status = "WAIT" /\ id \in Id /\ id' = id /\ Current' = Current /\ Current = id
        /\ chain' = chain /\ last_id' = last_id /\ Asked' = Asked
        /\ feedback' = feedback /\ task' = task /\ path' = path /\ old' = old
        /\ serving' = serving /\ at_node' = at_node /\ outages' = outages
        /\ UNCHANGED <<pre_search, requests, reset, failures, withdrawn, spoilt, old, left>>
        /\ waited' = IF waited < ExecNum THEN waited + 1 ELSE waited
    BY <1>2, <1>5 DEF Waits, Keeps, id, Current, acs, agv, Asked
  <2>2. /\ exec_num' \in [Id -> 0..(ExecNum - 1)] /\ exec_num'[id] = m
        /\ \A i \in Id \ {id} : exec_num'[i] = exec_num[i]
    BY <1>2, <1>5
  <2>3. SearchTypeOK'
    BY <1>1, <1>2, <2>1, <2>2 DEF SearchInv, SearchTypeOK
  <2>4. Fresh'
    BY <2>1, <2>2 DEF SearchInv, Fresh, Id
  <2>5. Counted'
    BY <1>1, <1>2, <1>5, <2>1, <2>2 DEF SearchInv, Counted
  <2>6. PathWanted' /\ ChainIds' /\ AskedFor' /\ RequestsWanted' /\ PathHeld'
    BY <2>1 DEF SearchInv, PathWanted, ChainIds, AskedFor, RequestsWanted, PathHeld
  <2> QED  BY <2>3, <2>4, <2>5, <2>6 DEF SearchInv
<1>6. CASE SearchFailed
  <2>1. Waits /\ pre_search /\ id \in Id /\ exec_num[id] \in 0..(ExecNum - 1)
    BY <1>2, <1>6 DEF SearchFailed, Heard
  <2>2. CASE exec_num[id] + 1 >= ExecNum
    <3>1. exec_num' = [exec_num EXCEPT ![id] = 0] /\ Ask(0)
      BY <1>6, <2>2 DEF SearchFailed
    <3>2. exec_num'[id] = 0 /\ \A i \in Id \ {id} : exec_num'[i] = exec_num[i]
      BY <1>2, <2>1, <3>1
    <3>3. exec_num' \in [Id -> 0..(ExecNum - 1)]
      <4>1. 0 \in 0..(ExecNum - 1)
        BY <1>1
      <4> QED  BY <1>2, <3>1, <4>1
    <3> QED  BY <1>6, <2>1, <3>1, <3>2, <3>3, AskStep DEF SearchFailed
  <2>3. CASE ~(exec_num[id] + 1 >= ExecNum)
    <3>1. exec_num[id] + 1 \in 0..(ExecNum - 1) /\ exec_num[id] + 1 <= exec_num[id] + 1
      BY <1>1, <2>1, <2>3
    <3> QED  BY <1>5, <1>6, <2>1, <2>3, <3>1 DEF SearchFailed
  <2> QED  BY <2>2, <2>3
<1>7. CASE SearchInit
  <2>1. 0 \in 0..(ExecNum - 1) /\ Waits /\ pre_search /\ 0 <= exec_num[id] + 1
    BY <1>1, <1>2, <1>7 DEF SearchInit, Heard
  <2> QED  BY <1>5, <1>7, <2>1 DEF SearchInit
<1> QED  BY <1>3, <1>4, <1>6, <1>7

(* A chain goes on to another status. *)
LEMMA StatusMoves ==
  ASSUME SearchTypeOK, NEW st \in {"NONE", "WAIT", "CHECK", "ERR"},
         chain' = [chain EXCEPT !.status = st]
  PROVE  /\ chain' \in [sub_task : Kinds, id : 0..MaxId, status : {"NONE", "WAIT", "CHECK", "ERR"}]
         /\ chain'.status = st /\ chain'.sub_task = chain.sub_task
         /\ chain'.id = chain.id /\ id' = id
<1>1. chain \in [sub_task : Kinds, id : 0..MaxId, status : {"NONE", "WAIT", "CHECK", "ERR"}]
  BY DEF SearchTypeOK
<1> QED  BY <1>1 DEF id

(* The sub-task goes to the ACS. *)
LEMMA SearchFoundInv == ASSUME SearchInv, SearchFound PROVE SearchInv'
<1>1. /\ chain.status = "WAIT" /\ id \in Id /\ pre_search
      /\ chain' = [chain EXCEPT !.status = "CHECK"]
      /\ UNCHANGED <<last_id, pre_search, requests, reset, feedback, path, agv, waited,
                     withdrawn, spoilt, old>>
      /\ left' = (left \/ requests # <<>>)
      /\ exec_num' = [exec_num EXCEPT ![id] = 0]
      /\ \/ task' = "ROW" /\ failures' = failures
         \/ Lost(1) /\ task' = task
  BY DEF SearchInv, ChainIds, SearchFound, Waits, Heard
<1>2. ExecNum \in Nat \ {0} /\ MaxFailures \in Nat
  BY SearchAssumption
<1>3. /\ chain'.status = "CHECK" /\ id' = id /\ chain'.sub_task = chain.sub_task
      /\ Current' = Current /\ Asked' = Asked
      /\ chain' \in [sub_task : Kinds, id : 0..MaxId, status : {"NONE", "WAIT", "CHECK", "ERR"}]
  <2>1. "CHECK" \in {"NONE", "WAIT", "CHECK", "ERR"}
    OBVIOUS
  <2>2. Asked' = Asked
    BY <1>1 DEF Asked
  <2> QED  BY <1>1, <2>1, <2>2, StatusMoves DEF SearchInv, Current
<1>4. exec_num' \in [Id -> 0..(ExecNum - 1)]
  <2>1. 0 \in 0..(ExecNum - 1)
    BY <1>2
  <2> QED  BY <1>1, <2>1 DEF SearchInv, SearchTypeOK
<1>5. failures' \in 0..MaxFailures
  BY <1>1, <1>2 DEF SearchInv, SearchTypeOK, Lost
<1>6. SearchTypeOK'
  BY <1>1, <1>3, <1>4, <1>5 DEF SearchInv, SearchTypeOK, agv
<1>7. Fresh'
  BY <1>1, <1>3 DEF SearchInv, SearchTypeOK, Fresh
<1>8. PathWanted' /\ ChainIds' /\ Counted' /\ PathHeld' /\ AskedFor'
  BY <1>1, <1>3 DEF SearchInv, PathWanted, ChainIds, Counted, PathHeld, AskedFor
<1>9. RequestsWanted'
  BY <1>1, <1>3 DEF SearchInv, RequestsWanted, AskedFor
<1> QED  BY <1>6, <1>7, <1>8, <1>9 DEF SearchInv

(* removePreSearchTaskResult leaves no request and a reset, or history knows. *)
LEMMA RemoveStep ==
  ASSUME SearchInv, Remove
  PROVE  /\ Asked' \subseteq Asked /\ requests' \in Seq(Id) /\ failures' \in 0..MaxFailures
         /\ reset' \in BOOLEAN /\ left' \in BOOLEAN
         /\ (requests' = <<>> /\ reset') \/ left'
<1>1. MaxFailures \in Nat /\ failures \in 0..MaxFailures /\ requests \in Seq(Id)
      /\ reset \in BOOLEAN /\ left \in BOOLEAN
  BY SearchAssumption DEF SearchInv, SearchTypeOK
<1>2. requests' \in {<<>>, requests} /\ failures' \in 0..MaxFailures
  BY <1>1 DEF Remove, Lost
<1>3. Asked' \subseteq Asked
  BY <1>2 DEF Asked
<1>4. CASE requests' = <<>> /\ reset' = TRUE /\ failures' = failures /\ UNCHANGED left
  BY <1>1, <1>2, <1>3, <1>4
<1>5. CASE requests' \in {<<>>, requests} /\ left' = TRUE /\ UNCHANGED reset
  <2>1. requests' \in Seq(Id)
    <3>1. CASE requests' = <<>>
      BY <3>1
    <3>2. CASE requests' = requests
      BY <1>1, <3>2
    <3> QED  BY <1>2, <3>1, <3>2
  <2>2. left' /\ left' \in BOOLEAN
    BY <1>5
  <2>3. reset' \in BOOLEAN
    BY <1>1, <1>5
  <2> QED  BY <1>2, <1>3, <2>1, <2>2, <2>3, Zenon
<1> QED  BY <1>4, <1>5 DEF Remove

(* A request is withdrawn. *)
LEMMA WithdrawInv == ASSUME SearchInv, Withdraw PROVE SearchInv'
<1>1. /\ chain.status = "WAIT" /\ id \in Id /\ id' = id /\ Current' = Current
      /\ UNCHANGED <<chain, last_id, exec_num, feedback, task, path, serving, at_node, outages,
                     waited, old>>
      /\ ~pre_search' /\ withdrawn' /\ pre_search' \in BOOLEAN /\ withdrawn' \in BOOLEAN
      /\ spoilt' = spoilt \cup {id}
  BY DEF SearchInv, ChainIds, Withdraw, id, Current, acs, agv
<1>2. Remove
  BY DEF Withdraw
<1>3. SearchTypeOK'
  BY <1>1, <1>2, RemoveStep DEF SearchInv, SearchTypeOK
<1>4. Fresh'
  BY <1>1, <1>2, RemoveStep DEF SearchInv, Fresh
<1>5. PathWanted' /\ ChainIds' /\ Counted' /\ PathHeld' /\ AskedFor' /\ RequestsWanted'
  BY <1>1, <1>2, RemoveStep DEF SearchInv, PathWanted, ChainIds, Counted, PathHeld, AskedFor,
                                RequestsWanted
<1> QED  BY <1>3, <1>4, <1>5 DEF SearchInv
-----------------------------------------------------------------------------
(* A chain begins: its sub-task has an id that is fresh. *)
LEMMA BeginInv ==
  ASSUME SearchInv, NEW k \in {"EQUIP_GET", "PARKING"}, Begin(k)
  PROVE  SearchInv'
<1>1. /\ chain.status = "NONE"
      /\ last_id' = last_id + (IF k = "EQUIP_GET" THEN 2 ELSE 1)
      /\ last_id' <= MaxId
      /\ chain' = [sub_task |-> k, id |-> last_id + 1, status |-> "WAIT"]
      /\ pre_search' = FALSE /\ task' = "NONE" /\ waited' = 0 /\ withdrawn' = FALSE
      /\ UNCHANGED <<exec_num, requests, reset, feedback, path, serving, at_node, outages,
                     failures, spoilt, old, left>>
  BY DEF Begin, agv
<1>2. MaxId \in Nat /\ ExecNum \in Nat /\ last_id \in Nat
  BY SearchAssumption DEF SearchInv, SearchTypeOK
<1>3. /\ last_id' \in 0..MaxId /\ last_id + 1 \in Id /\ 0 \in 0..ExecNum
      /\ k = "EQUIP_GET" => last_id + 2 <= last_id'
      /\ last_id + 1 <= last_id'
  BY <1>1, <1>2 DEF Id
<1>4. /\ chain'.status = "WAIT" /\ chain'.id = last_id + 1 /\ chain'.sub_task = k
      /\ id' = last_id + 1 /\ Current' = last_id + 1 /\ Current = last_id
      /\ Asked' = Asked
  BY <1>1 DEF id, Current, Asked
<1>5. SearchTypeOK'
  <2>1. chain' \in [sub_task : Kinds, id : 0..MaxId, status : {"NONE", "WAIT", "CHECK", "ERR"}]
    BY <1>1, <1>2, <1>3 DEF Kinds, Id
  <2> QED  BY <1>1, <1>3, <2>1 DEF SearchInv, SearchTypeOK
<1>6. /\ feedback[last_id + 1] = "NONE" \/ last_id + 1 \in old
      /\ exec_num[last_id + 1] = 0 /\ last_id + 1 \notin Asked
  BY <1>2, <1>3, <1>4 DEF SearchInv, Fresh
<1>7. Fresh'
  BY <1>1, <1>2, <1>4 DEF SearchInv, Fresh, Id
<1>8. ChainIds' /\ Counted'
  BY <1>1, <1>2, <1>3, <1>4, <1>6 DEF ChainIds, Counted
<1>9. PathWanted' /\ AskedFor' /\ RequestsWanted'
  BY <1>1, <1>4 DEF SearchInv, PathWanted, AskedFor, RequestsWanted
<1>10. PathHeld'
  BY <1>1, <1>4, <1>6 DEF PathHeld
<1> QED  BY <1>5, <1>7, <1>8, <1>9, <1>10 DEF SearchInv

(* A sub-task is done; one that gets is followed by its put. *)
LEMMA CheckDoneInv == ASSUME SearchInv, CheckDone PROVE SearchInv'
<1>1. /\ chain.status = "CHECK" /\ task = "DONE"
      /\ chain' = IF chain.sub_task = "EQUIP_GET"
                  THEN [sub_task |-> "EQUIP_PUT", id |-> id + 1, status |-> "WAIT"]
                  ELSE [chain EXCEPT !.status = "NONE"]
      /\ pre_search' = FALSE /\ task' = "NONE" /\ waited' = 0 /\ withdrawn' = FALSE
      /\ UNCHANGED <<last_id, exec_num, requests, reset, feedback, path, serving, at_node,
                     outages, failures, spoilt, old, left>>
      /\ Asked' = Asked
  BY DEF CheckDone, agv, Asked
<1>2. /\ MaxId \in Nat /\ ExecNum \in Nat /\ last_id \in 0..MaxId /\ id \in Id /\ Id = 1..MaxId
      /\ id <= last_id /\ Current = id /\ 0 \in 0..ExecNum
  BY <1>1, SearchAssumption DEF SearchInv, SearchTypeOK, ChainIds, Current, Id
<1>3. CASE chain.sub_task = "EQUIP_GET"
  <2>1. /\ chain'.status = "WAIT" /\ chain'.id = id + 1 /\ chain'.sub_task = "EQUIP_PUT"
        /\ id' = id + 1 /\ Current' = id + 1 /\ id + 1 <= last_id /\ id + 1 \in Id
    BY <1>1, <1>2, <1>3 DEF SearchInv, ChainIds, id, Current
  <2>2. SearchTypeOK'
    <3>1. chain' \in [sub_task : Kinds, id : 0..MaxId, status : {"NONE", "WAIT", "CHECK", "ERR"}]
      BY <1>1, <1>2, <1>3, <2>1 DEF Kinds
    <3> QED  BY <1>1, <1>2, <3>1 DEF SearchInv, SearchTypeOK
  <2>3. /\ feedback[id + 1] = "NONE" \/ id + 1 \in old
        /\ exec_num[id + 1] = 0 /\ id + 1 \notin Asked
    BY <1>2, <2>1 DEF SearchInv, Fresh
  <2>4. Fresh'
    BY <1>1, <1>2, <2>1 DEF SearchInv, Fresh
  <2>5. ChainIds' /\ Counted' /\ PathHeld'
    BY <1>1, <2>1, <2>3 DEF ChainIds, Counted, PathHeld
  <2>6. PathWanted' /\ AskedFor' /\ RequestsWanted'
    BY <1>1, <2>1 DEF SearchInv, PathWanted, AskedFor, RequestsWanted
  <2> QED  BY <2>2, <2>4, <2>5, <2>6 DEF SearchInv
<1>4. CASE chain.sub_task # "EQUIP_GET"
  <2>1. /\ chain'.status = "NONE" /\ chain'.id = id
        /\ id' = id /\ Current' = last_id
        /\ chain' \in [sub_task : Kinds, id : 0..MaxId, status : {"NONE", "WAIT", "CHECK", "ERR"}]
    BY <1>1, <1>4 DEF SearchInv, SearchTypeOK, id, Current
  <2>2. SearchTypeOK'
    BY <1>1, <1>2, <2>1 DEF SearchInv, SearchTypeOK
  <2>3. Fresh'
    BY <1>1, <1>2, <2>1 DEF SearchInv, Fresh
  <2>4. ChainIds' /\ Counted' /\ PathHeld'
    BY <1>1, <1>2, <2>1 DEF ChainIds, Counted, PathHeld
  <2>5. PathWanted' /\ AskedFor' /\ RequestsWanted'
    BY <1>1, <2>1 DEF SearchInv, PathWanted, AskedFor, RequestsWanted
  <2> QED  BY <2>2, <2>3, <2>4, <2>5 DEF SearchInv
<1> QED  BY <1>3, <1>4

LEMMA CheckFailedInv == ASSUME SearchInv, CheckFailed PROVE SearchInv'
<1>1. /\ chain.status = "CHECK" /\ task = "FAILED"
      /\ chain' = [chain EXCEPT !.status = "ERR"]
      /\ UNCHANGED <<last_id, search, acs, agv, failures, history>>
      /\ Asked' = Asked
  BY DEF CheckFailed, search, Asked
<1>2. /\ chain'.status = "ERR" /\ chain'.id = id /\ id' = id /\ Current' = Current
      /\ chain'.sub_task = chain.sub_task
      /\ chain' \in [sub_task : Kinds, id : 0..MaxId, status : {"NONE", "WAIT", "CHECK", "ERR"}]
  BY <1>1 DEF SearchInv, SearchTypeOK, id, Current
<1>3. SearchTypeOK'
  BY <1>1, <1>2 DEF SearchInv, SearchTypeOK, search, acs, agv, history
<1>4. Fresh'
  BY <1>1, <1>2 DEF SearchInv, Fresh, search, acs, history
<1>5. ChainIds' /\ Counted' /\ PathHeld' /\ PathWanted' /\ AskedFor' /\ RequestsWanted'
  BY <1>1, <1>2 DEF SearchInv, ChainIds, Counted, PathHeld, PathWanted, AskedFor, RequestsWanted,
                    search, acs, history
<1> QED  BY <1>3, <1>4, <1>5 DEF SearchInv

(* A chain that has failed ends; the path of an order's is given back. *)
LEMMA EndInv == ASSUME SearchInv, End PROVE SearchInv'
<1>1. /\ chain.status = "ERR"
      /\ chain' = [chain EXCEPT !.status = "NONE"]
      /\ pre_search' = FALSE /\ task' = "NONE"
      /\ UNCHANGED <<last_id, exec_num, feedback, path, serving, at_node, outages, waited,
                     withdrawn, spoilt, old>>
  BY DEF End, agv
<1>2. /\ Asked' \subseteq Asked /\ requests' \in Seq(Id) /\ failures' \in 0..MaxFailures
      /\ reset' \in BOOLEAN /\ left' \in BOOLEAN
      /\ (requests' = <<>> /\ reset') \/ left'
  <2>1. CASE Remove
    BY <2>1, RemoveStep
  <2>2. CASE left' = TRUE /\ UNCHANGED <<requests, reset, failures>>
    BY <2>2 DEF SearchInv, SearchTypeOK, Asked
  <2> QED  BY <2>1, <2>2 DEF End
<1>3. /\ chain'.status = "NONE" /\ id' = id /\ Current' = last_id /\ chain'.id = id
      /\ Current = id /\ id <= last_id /\ id \in Int /\ last_id \in Int
      /\ chain' \in [sub_task : Kinds, id : 0..MaxId, status : {"NONE", "WAIT", "CHECK", "ERR"}]
  <2>1. id \in Int /\ last_id \in Int /\ id <= last_id /\ Current = id
    BY <1>1, SearchAssumption DEF SearchInv, SearchTypeOK, ChainIds, id, Current
  <2>2. "NONE" \in {"NONE", "WAIT", "CHECK", "ERR"}
    OBVIOUS
  <2> QED  BY <1>1, <2>1, <2>2, StatusMoves DEF SearchInv, Current, id
<1>4. SearchTypeOK'
  BY <1>1, <1>2, <1>3 DEF SearchInv, SearchTypeOK
<1>5. Fresh'
  BY <1>1, <1>2, <1>3 DEF SearchInv, Fresh, Id
<1>6. ChainIds' /\ Counted' /\ PathHeld' /\ PathWanted' /\ AskedFor' /\ RequestsWanted'
  BY <1>1, <1>2, <1>3 DEF ChainIds, Counted, PathHeld, PathWanted, AskedFor, RequestsWanted
<1> QED  BY <1>4, <1>5, <1>6 DEF SearchInv
-----------------------------------------------------------------------------
(* The ACS takes a request up, or answers it. *)
LEMMA AnswerInv == ASSUME SearchInv, NEW r \in Result, Answer(r) PROVE SearchInv'
<1>1. /\ requests # <<>> /\ requests' = Tail(requests)
      /\ feedback' = [feedback EXCEPT ![Head(requests)] = r]
      /\ path' = (path \/ r = "SUCCESS") /\ old' = old \ {Head(requests)}
      /\ UNCHANGED <<chain, last_id, pre_search, exec_num, reset, task, serving, at_node,
                     outages, failures, waited, withdrawn, spoilt, left>>
      /\ id' = id /\ Current' = Current
  BY DEF Answer, agv, id, Current
<1>2. /\ Head(requests) \in Asked /\ Head(requests) \in Id
      /\ Asked' \subseteq Asked /\ requests' \in Seq(Id)
  BY <1>1, HeadAsked, TailAsked DEF SearchInv, SearchTypeOK
<1>3. /\ feedback' \in [Id -> Result \cup {"NONE", "OTHER", "INIT"}]
      /\ feedback'[Head(requests)] = r
      /\ \A i \in Id : i # Head(requests) => feedback'[i] = feedback[i]
  BY <1>1, <1>2 DEF SearchInv, SearchTypeOK
<1>4. SearchTypeOK'
  BY <1>1, <1>2, <1>3 DEF SearchInv, SearchTypeOK
<1>5. Fresh'
  BY <1>1, <1>2, <1>3 DEF SearchInv, Fresh
<1>6. ChainIds' /\ Counted' /\ AskedFor'
  BY <1>1 DEF SearchInv, ChainIds, Counted, AskedFor
<1>7. PathWanted' /\ RequestsWanted'
  BY <1>1 DEF SearchInv, PathWanted, RequestsWanted
<1>8. PathHeld'
  <2>1. SUFFICES ASSUME chain.status = "WAIT", id \notin spoilt
        PROVE  /\ \/ pre_search \/ id \in Asked'
                  \/ feedback'[id] # "NONE" /\ id \notin old'
                  => ~reset
               /\ feedback'[id] = "SUCCESS" /\ id \notin old' => path'
    BY <1>1 DEF PathHeld
  <2>2. id \in Id
    BY <2>1 DEF SearchInv, ChainIds
  <2>3. CASE id = Head(requests)
    BY <1>1, <1>2, <1>3, <2>1, <2>3 DEF SearchInv, PathHeld
  <2>4. CASE id # Head(requests)
    BY <1>1, <1>2, <1>3, <2>1, <2>2, <2>4 DEF SearchInv, PathHeld
  <2> QED  BY <2>3, <2>4
<1> QED  BY <1>4, <1>5, <1>6, <1>7, <1>8 DEF SearchInv

LEMMA TakeUpInv == ASSUME SearchInv, TakeUp PROVE SearchInv'
<1>1. /\ requests # <<>> /\ requests' = requests /\ Asked' = Asked
      /\ feedback' = [feedback EXCEPT ![Head(requests)] = "INIT"]
      /\ old' = old \ {Head(requests)}
      /\ UNCHANGED <<chain, last_id, pre_search, exec_num, reset, task, path, serving, at_node,
                     outages, failures, waited, withdrawn, spoilt, left>>
      /\ id' = id /\ Current' = Current
  BY DEF TakeUp, search, agv, id, Current, Asked
<1>2. Head(requests) \in Asked /\ Head(requests) \in Id
  BY <1>1, HeadAsked DEF SearchInv, SearchTypeOK
<1>3. /\ feedback' \in [Id -> Result \cup {"NONE", "OTHER", "INIT"}]
      /\ feedback'[Head(requests)] = "INIT"
      /\ \A i \in Id : i # Head(requests) => feedback'[i] = feedback[i]
  BY <1>1, <1>2 DEF SearchInv, SearchTypeOK
<1>4. SearchTypeOK'
  BY <1>1, <1>3 DEF SearchInv, SearchTypeOK
<1>5. Fresh'
  BY <1>1, <1>2, <1>3 DEF SearchInv, Fresh
<1>6. ChainIds' /\ Counted' /\ AskedFor' /\ PathWanted' /\ RequestsWanted'
  BY <1>1 DEF SearchInv, ChainIds, Counted, AskedFor, PathWanted, RequestsWanted
<1>7. PathHeld'
  <2>1. SUFFICES ASSUME chain.status = "WAIT", id \notin spoilt
        PROVE  /\ \/ pre_search \/ id \in Asked
                  \/ feedback'[id] # "NONE" /\ id \notin old'
                  => ~reset
               /\ feedback'[id] = "SUCCESS" /\ id \notin old' => path
    BY <1>1 DEF PathHeld
  <2>2. id \in Id
    BY <2>1 DEF SearchInv, ChainIds
  <2>3. CASE id = Head(requests)
    BY <1>2, <1>3, <2>1, <2>3 DEF SearchInv, PathHeld
  <2>4. CASE id # Head(requests)
    BY <1>1, <1>3, <2>1, <2>2, <2>4 DEF SearchInv, PathHeld
  <2> QED  BY <2>3, <2>4
<1> QED  BY <1>4, <1>5, <1>6, <1>7 DEF SearchInv

(* The ACS forgets the path, or ends the sub-task. *)
LEMMA ResetInv == ASSUME SearchInv, Reset PROVE SearchInv'
<1>1. /\ reset /\ reset' = FALSE /\ path' = FALSE
      /\ UNCHANGED <<chain, last_id, pre_search, exec_num, requests, feedback, task, serving,
                     at_node, outages, failures, waited, withdrawn, spoilt, old, left>>
      /\ id' = id /\ Current' = Current /\ Asked' = Asked
  BY DEF Reset, agv, history, id, Current, Asked
<1>2. SearchTypeOK'
  BY <1>1 DEF SearchInv, SearchTypeOK
<1>3. ChainIds' /\ Fresh' /\ Counted' /\ AskedFor' /\ PathWanted' /\ RequestsWanted' /\ PathHeld'
  BY <1>1 DEF SearchInv, ChainIds, Fresh, Counted, AskedFor, PathWanted, RequestsWanted, PathHeld
<1> QED  BY <1>2, <1>3 DEF SearchInv

LEMMA RunTaskInv == ASSUME SearchInv, NEW r \in {"DONE", "FAILED"}, RunTask(r) PROVE SearchInv'
<1>1. /\ task = "ROW" /\ task' = r /\ path' = (path /\ r # "DONE")
      /\ UNCHANGED <<chain, last_id, pre_search, exec_num, requests, reset, feedback, serving,
                     at_node, outages, failures, waited, withdrawn, spoilt, old, left>>
      /\ id' = id /\ Current' = Current /\ Asked' = Asked
  BY DEF RunTask, search, agv, history, id, Current, Asked
<1>2. chain.status \in {"CHECK", "ERR"}
  BY <1>1 DEF SearchInv, AskedFor
<1>3. SearchTypeOK'
  BY <1>1 DEF SearchInv, SearchTypeOK
<1>4. ChainIds' /\ Fresh' /\ Counted' /\ AskedFor' /\ PathWanted' /\ RequestsWanted' /\ PathHeld'
  BY <1>1, <1>2 DEF SearchInv, ChainIds, Fresh, Counted, AskedFor, PathWanted, RequestsWanted,
                    PathHeld
<1> QED  BY <1>3, <1>4 DEF SearchInv

(* The AGV's state is none of the invariant's. *)
LEMMA OutageInv == ASSUME SearchInv, Outage \/ BackInService PROVE SearchInv'
<1>1. /\ serving' \in BOOLEAN /\ at_node' \in BOOLEAN /\ outages' \in 0..MaxOutages
  <2>1. /\ MaxOutages \in Nat /\ outages \in 0..MaxOutages
        /\ serving \in BOOLEAN /\ at_node \in BOOLEAN
    BY SearchAssumption DEF SearchInv, SearchTypeOK
  <2>2. CASE Outage
    <3>1. outages' \in 0..MaxOutages
      BY <2>1, <2>2 DEF Outage
    <3>2. serving' \in BOOLEAN /\ at_node' \in BOOLEAN
      BY <2>1, <2>2, Zenon DEF Outage
    <3> QED  BY <3>1, <3>2
  <2>3. CASE BackInService
    BY <2>1, <2>3 DEF BackInService
  <2> QED  BY <2>2, <2>3
<1>2. UNCHANGED <<chain, last_id, pre_search, exec_num, requests, reset, feedback, task, path,
                  failures, waited, withdrawn, spoilt, old, left, id, Current, Asked>>
  BY DEF Outage, BackInService, search, acs, history, id, Current, Asked
<1>3. SearchTypeOK'
  BY <1>1, <1>2 DEF SearchInv, SearchTypeOK
<1>4. ChainIds' /\ Fresh' /\ Counted' /\ AskedFor' /\ PathWanted' /\ RequestsWanted' /\ PathHeld'
  BY <1>2 DEF SearchInv, ChainIds, Fresh, Counted, AskedFor, PathWanted, RequestsWanted, PathHeld
<1> QED  BY <1>3, <1>4 DEF SearchInv
-----------------------------------------------------------------------------
LEMMA NextInv == SearchInv /\ [Next]_vars => SearchInv'
<1> SUFFICES ASSUME SearchInv, [Next]_vars PROVE SearchInv'
  OBVIOUS
<1>1. CASE SearchFirst \/ SearchOther \/ SearchFailed \/ SearchInit
  BY <1>1, SearchStep
<1>2. CASE SearchFound
  BY <1>2, SearchFoundInv
<1>3. CASE Withdraw
  BY <1>3, WithdrawInv
<1>4. CASE CheckDone
  BY <1>4, CheckDoneInv
<1>5. CASE CheckFailed
  BY <1>5, CheckFailedInv
<1>6. CASE End
  BY <1>6, EndInv
<1>7. ASSUME NEW k \in {"EQUIP_GET", "PARKING"}, Begin(k) PROVE SearchInv'
  BY <1>7, BeginInv
<1>8. ASSUME NEW r \in Result, Answer(r) PROVE SearchInv'
  BY <1>8, AnswerInv
<1>9. ASSUME NEW r \in {"DONE", "FAILED"}, RunTask(r) PROVE SearchInv'
  BY <1>9, RunTaskInv
<1>10. CASE TakeUp
  BY <1>10, TakeUpInv
<1>11. CASE Reset
  BY <1>11, ResetInv
<1>12. CASE Outage \/ BackInService
  BY <1>12, OutageInv
<1>13. CASE UNCHANGED vars
  <2>1. UNCHANGED <<chain, last_id, pre_search, exec_num, requests, reset, feedback, task, path,
                    serving, at_node, outages, failures, waited, withdrawn, spoilt, old, left,
                    id, Current, Asked>>
    BY <1>13 DEF vars, search, acs, agv, history, id, Current, Asked
  <2> QED  BY <2>1 DEF SearchInv, SearchTypeOK, ChainIds, Fresh, Counted, AskedFor, PathWanted,
                       RequestsWanted, PathHeld
<1> QED
  BY <1>1, <1>2, <1>3, <1>4, <1>5, <1>6, <1>7, <1>8, <1>9, <1>10, <1>11, <1>12, <1>13
  DEF Next, Tick

LEMMA SearchInvAlways == Spec => []SearchInv
BY InitInv, NextInv, PTL DEF Spec

(* Types, and no count above ExecNum, hold whatever the ACS answers. *)
THEOREM SearchTypes == Spec => []SearchTypeOK
<1>1. SearchInv => SearchTypeOK
  BY DEF SearchInv
<1> QED  BY <1>1, SearchInvAlways, PTL

(***************************************************************************)
(* The ACS never holds a path that nobody wants, but for what PathWanted    *)
(* names (preSearchTask, removePreSearchTaskResult).                        *)
(***************************************************************************)
THEOREM PathsAreWanted == Spec => []PathWanted
<1>1. SearchInv => PathWanted
  BY DEF SearchInv
<1> QED  BY <1>1, SearchInvAlways, PTL

(* What the table of requests grows by is waited for. *)
LEMMA RequestsGrow ==
  ASSUME SearchInv, Next, pre_search, Len(requests') > Len(requests)
  PROVE  waited >= ExecNum - 1 \/ feedback[id] = "OTHER"
<1>1. requests \in Seq(Id) /\ ExecNum \in Nat \ {0}
  BY SearchAssumption DEF SearchInv, SearchTypeOK
<1>2. Len(<<>>) = 0 /\ Len(requests) \in Nat
      /\ (requests # <<>> => Len(Tail(requests)) = Len(requests) - 1)
  BY <1>1
<1>3. requests' # requests /\ requests' # <<>>
      /\ (requests # <<>> => requests' # Tail(requests))
  BY <1>2
<1>4. CASE SearchFailed
  <2>1. /\ chain.status = "WAIT" /\ id \in Id
        /\ exec_num[id] \in 0..(ExecNum - 1) /\ waited \in 0..ExecNum
        /\ exec_num[id] <= waited
    BY <1>4 DEF SearchInv, SearchTypeOK, ChainIds, Counted, SearchFailed, Waits
  <2>2. exec_num[id] + 1 >= ExecNum
    BY <1>3, <1>4 DEF SearchFailed, Keeps
  <2> QED  BY <1>1, <2>1, <2>2
<1>5. CASE SearchOther
  BY <1>5 DEF SearchOther, Heard
<1>6. CASE ~SearchFailed /\ ~SearchOther
  <2>1. ~SearchFirst
    BY DEF SearchFirst
  <2>2. ~SearchInit /\ ~SearchFound
    BY <1>3 DEF SearchInit, SearchFound, Keeps
  <2>3. ~Withdraw /\ ~End
    BY <1>3 DEF Withdraw, End, Remove
  <2>4. ~CheckDone /\ ~CheckFailed /\ ~TakeUp /\ ~Reset /\ ~Outage /\ ~BackInService
    BY <1>3 DEF CheckDone, CheckFailed, TakeUp, Reset, Outage, BackInService, search
  <2>5. ~\E k \in {"EQUIP_GET", "PARKING"} : Begin(k)
    BY <1>3 DEF Begin
  <2>6. ~\E r \in Result : Answer(r)
    BY <1>3 DEF Answer
  <2>7. ~\E r \in {"DONE", "FAILED"} : RunTask(r)
    BY <1>3 DEF RunTask, search
  <2> QED  BY <1>6, <2>1, <2>2, <2>3, <2>4, <2>5, <2>6, <2>7 DEF Next, Tick
<1> QED  BY <1>4, <1>5, <1>6

(***************************************************************************)
(* A sub-task that was asked for is asked for again only after ExecNum      *)
(* ticks, or when the result is for another target                          *)
(* (PreSearch_Manage.cpp:41-71).                                            *)
(***************************************************************************)
THEOREM RequestsDoNotPile == Spec => OneRequest
<1>1. SearchInv /\ [Next]_vars =>
        [pre_search /\ Len(requests') > Len(requests) =>
           waited >= ExecNum - 1 \/ feedback[id] = "OTHER"]_vars
  BY RequestsGrow
<1> QED  BY <1>1, SearchInvAlways, PTL DEF Spec, OneRequest

(* A sub-task goes to the ACS by SearchFound only. *)
LEMMA OnlyFound ==
  ASSUME SearchInv, Next, chain.status = "WAIT", chain'.status = "CHECK"
  PROVE  SearchFound
<1>1. chain' # chain
  OBVIOUS
<1>2. ~SearchFirst /\ ~SearchOther /\ ~SearchFailed /\ ~SearchInit
  BY <1>1 DEF SearchFirst, SearchOther, SearchFailed, SearchInit
<1>3. ~Withdraw /\ ~CheckDone /\ ~CheckFailed /\ ~End
  BY <1>1 DEF Withdraw, CheckDone, CheckFailed, End
<1>4. ~TakeUp /\ ~Reset /\ ~Outage /\ ~BackInService
  BY <1>1 DEF TakeUp, Reset, Outage, BackInService
<1>5. /\ ~\E k \in {"EQUIP_GET", "PARKING"} : Begin(k)
      /\ ~\E r \in Result : Answer(r)
      /\ ~\E r \in {"DONE", "FAILED"} : RunTask(r)
  BY <1>1 DEF Begin, Answer, RunTask
<1> QED  BY <1>2, <1>3, <1>4, <1>5 DEF Next, Tick

(***************************************************************************)
(* What is dispatched on a SUCCESS that the ACS gave to one of its own      *)
(* requests has its path, whatever older results the table holds, unless    *)
(* its request was withdrawn or a reset could not be cancelled              *)
(* (Event_Handler.cpp:197-227).  On an old SUCCESS it may go without one.   *)
(***************************************************************************)
THEOREM DispatchedHavePaths == Spec => DispatchedHasPath
<1>1. ASSUME SearchInv, Next, chain.status = "WAIT", chain'.status = "CHECK",
             feedback[id] = "SUCCESS", id \notin spoilt \cup old
      PROVE  path /\ ~reset
  <2>1. pre_search
    BY <1>1, OnlyFound DEF SearchFound, Heard
  <2> QED  BY <1>1, <2>1 DEF SearchInv, PathHeld
<1>2. SearchInv /\ [Next]_vars =>
        [chain.status = "WAIT" /\ chain'.status = "CHECK" /\ feedback[id] = "SUCCESS"
           /\ id \notin spoilt \cup old => path /\ ~reset]_vars
  BY <1>1
<1> QED  BY <1>2, SearchInvAlways, PTL DEF Spec, DispatchedHasPath
=============================================================================
