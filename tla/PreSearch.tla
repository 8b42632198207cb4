------------------------------ MODULE PreSearch ------------------------------
(***************************************************************************)
(* The search for a path before a sub-task is dispatched, for one AGV and   *)
(* its chains one after another: PreSearch_Manage, Sub_Task_Dispatch_Event  *)
(* and what Task_Status_Check_Event does with a search that is not wanted   *)
(* any longer.  The ACS takes the requests out of pre_search_task_in_table, *)
(* holds the path that it finds and answers with a row of                   *)
(* pre_search_task_feedback_table, of which the latest of an id counts.     *)
(***************************************************************************)
EXTENDS Integers, Sequences

CONSTANTS
    ExecNum,      \* m_ExecNum: so many FAILED ticks until the next request
    OldFeedback,  \* what the feedback table may hold of an earlier task of an id
    MaxId,        \* bound: the ids of the sub-tasks
    MaxOutages,   \* bound: how often the AGV is out of service or off the nodes
    MaxRequests,  \* bound: how many requests wait for the ACS
    MaxFailures   \* bound: how many statements fail

Id == 1..MaxId
Result == {"SUCCESS", "FAILED", "ERRORED"}

ASSUME SearchAssumption ==
    /\ ExecNum \in Nat \ {0} /\ OldFeedback \subseteq Result \cup {"OTHER", "INIT"}
    /\ MaxId \in Nat /\ MaxOutages \in Nat /\ MaxRequests \in Nat /\ MaxFailures \in Nat

VARIABLES
    chain,       \* sub_task, its id, and the status of the chain
    last_id,     \* the ids that are given out
    pre_search,  \* of the sub-task: has it been asked for?
    exec_num,    \* m_Task_ExecNum_Map; 0 for no entry too
    requests,    \* pre_search_task_in_table, ids
    feedback,    \* the latest result of an id, "OTHER" one for another target
    reset,       \* is there a row 'reset agv' in task_op_interface?
    serving, at_node, \* Is_Serving_ = 1, AGV_at_node # -1
    task,        \* the sub-task in the ACS: none, its row, how it ended
    path,        \* does the ACS hold a path for the AGV?
    outages, failures,
    \* History.
    waited,      \* ticks since the last request, up to ExecNum
    withdrawn,   \* was the last request of the sub-task withdrawn?
    spoilt,      \* the ids with a request withdrawn, or a reset not cancelled
    old,         \* the ids whose latest result is still that of an earlier task
    left         \* may a path be held for nobody: a statement was lost, a
                 \* PARKING failed, or a request was made twice
                 \* or outlives its sub-task

search == <<pre_search, exec_num, requests, reset>>
acs    == <<feedback, task, path>>
agv    == <<serving, at_node, outages>>
history == <<waited, withdrawn, spoilt, old, left>>
vars == <<chain, last_id, search, acs, agv, failures, history>>

id == chain.id
Kinds == {"EQUIP_GET", "EQUIP_PUT", "PARKING"}

Init ==
    /\ chain = [sub_task |-> "PARKING", id |-> 0, status |-> "NONE"]
    /\ last_id = 0
    /\ pre_search = FALSE /\ exec_num = [i \in Id |-> 0]
    /\ requests = <<>> /\ reset = FALSE
    /\ feedback \in [Id -> {"NONE"} \cup OldFeedback]
    /\ old = {i \in Id : feedback[i] # "NONE"}
    /\ serving = TRUE /\ at_node = TRUE /\ outages = 0
    /\ task = "NONE" /\ path = FALSE /\ failures = 0
    /\ waited = 0 /\ withdrawn = FALSE /\ spoilt = {} /\ left = FALSE

-----------------------------------------------------------------------------
(* A chain begins; one that carries takes the ids of both of its sub-tasks. *)
Begin(k) ==
    /\ chain.status = "NONE"
    /\ last_id' = last_id + (IF k = "EQUIP_GET" THEN 2 ELSE 1)
    /\ last_id' <= MaxId
    /\ chain' = [sub_task |-> k, id |-> last_id + 1, status |-> "WAIT"]
    /\ pre_search' = FALSE /\ task' = "NONE" /\ waited' = 0 /\ withdrawn' = FALSE
    /\ UNCHANGED <<exec_num, requests, reset, feedback, path, agv, failures, spoilt, old,
                   left>>

Lost(n) == failures + n <= MaxFailures /\ failures' = failures + n

(* Mutant: only the requests are deleted. *)
RemoveRequestsOnly ==
    requests' = <<>> /\ failures' = failures /\ UNCHANGED <<reset, left>>

(* removePreSearchTaskResult: the requests that the ACS has not taken are    *)
(* deleted and it is told to forget the path; if the first statement fails,  *)
(* the second is not tried.                                                  *)
Remove ==
    \/ requests' = <<>> /\ reset' = TRUE /\ failures' = failures /\ UNCHANGED left
    \/ Lost(1) /\ requests' \in {<<>>, requests} /\ left' = TRUE /\ UNCHANGED reset

(* Mutant: the reset is not cancelled. *)
AskNotCancelled(n) ==
    \/ /\ n > 0 \/ ~at_node
       /\ pre_search' = FALSE
       /\ UNCHANGED <<requests, reset, failures, waited, withdrawn, spoilt, left>>
    \/ /\ n = 0 /\ at_node /\ Len(requests) < MaxRequests
       /\ requests' = Append(requests, id)
       /\ pre_search' = TRUE /\ waited' = 0 /\ withdrawn' = FALSE
       /\ UNCHANGED <<reset, failures, spoilt, left>>

(* insertPreSearchTask, for the sub-task with no request and n as its count: *)
(* the reset is cancelled first.                                            *)
Ask(n) ==
    \/ /\ n > 0 \/ ~at_node
       /\ pre_search' = FALSE
       /\ waited' = IF waited < ExecNum THEN waited + 1 ELSE waited
       /\ UNCHANGED <<requests, reset, failures, withdrawn, spoilt, left>>
    \/ /\ n = 0 /\ at_node /\ Len(requests) < MaxRequests
       /\ \E cancelled, inserted \in BOOLEAN :
            /\ IF cancelled /\ inserted THEN failures' = failures
               ELSE Lost(IF cancelled \/ inserted THEN 1 ELSE 2)
            /\ reset' = (reset /\ ~cancelled)
            /\ requests' = IF inserted THEN Append(requests, id) ELSE requests
            /\ pre_search' = inserted
            /\ withdrawn' = (withdrawn /\ ~inserted)
            /\ spoilt' = IF reset' THEN spoilt \cup {id} ELSE spoilt
            /\ left' = (left \/ ~inserted \/ requests # <<>>)
       /\ waited' = 0

(* A path for the sub-task is waited for; a refusal for a station or an area *)
(* in the way changes nothing.                                              *)
Waits == chain.status = "WAIT" /\ serving
Heard == IF pre_search THEN feedback[id] ELSE "NONE"

Keeps ==
    /\ waited' = IF waited < ExecNum THEN waited + 1 ELSE waited
    /\ UNCHANGED <<pre_search, requests, reset, failures, withdrawn, spoilt, left>>

\* Not asked for: asked for now, unless a count is left of the id.
SearchFirst ==
    /\ Waits /\ ~pre_search
    /\ Ask(exec_num[id])
    /\ UNCHANGED <<chain, last_id, exec_num, acs, agv, old>>

\* The result is for another target: asked for again at once.
SearchOther ==
    /\ Waits /\ Heard = "OTHER"
    /\ exec_num' = [exec_num EXCEPT ![id] = 0]
    /\ Ask(0)
    /\ UNCHANGED <<chain, last_id, acs, agv, old>>

(* Mutant: the count is not erased. *)
SearchFailedCounted ==
    /\ Waits /\ Heard = "FAILED"
    /\ LET n == exec_num[id] + 1 IN
         IF n >= ExecNum
         THEN exec_num' = [exec_num EXCEPT ![id] = ExecNum - 1] /\ Ask(0)
         ELSE exec_num' = [exec_num EXCEPT ![id] = n] /\ Keeps
    /\ UNCHANGED <<chain, last_id, acs, agv, old>>

(* Mutant: it is never asked for again. *)
SearchFailedForGood ==
    /\ Waits /\ Heard = "FAILED"
    /\ exec_num' = [exec_num EXCEPT ![id] = IF @ < ExecNum THEN @ + 1 ELSE @]
    /\ Keeps
    /\ UNCHANGED <<chain, last_id, acs, agv, old>>

\* FAILED is counted, tick by tick, and after ExecNum of them asked for again.
SearchFailed ==
    /\ Waits /\ Heard = "FAILED"
    /\ LET n == exec_num[id] + 1 IN
         IF n >= ExecNum
         THEN exec_num' = [exec_num EXCEPT ![id] = 0] /\ Ask(0)
         ELSE exec_num' = [exec_num EXCEPT ![id] = n] /\ Keeps
    /\ UNCHANGED <<chain, last_id, acs, agv, old>>

\* The ACS has taken the request up.
SearchInit ==
    /\ Waits /\ Heard = "INIT"
    /\ exec_num' = [exec_num EXCEPT ![id] = 0]
    /\ Keeps
    /\ UNCHANGED <<chain, last_id, acs, agv, old>>

\* A path was found, or the ACS could not search: the sub-task is dispatched.
\* Whether its row could be written, insertTask does not tell.
SearchFound ==
    /\ Waits /\ Heard \in {"SUCCESS", "ERRORED"}
    /\ exec_num' = [exec_num EXCEPT ![id] = 0]
    /\ chain' = [chain EXCEPT !.status = "CHECK"]
    /\ \/ task' = "ROW" /\ failures' = failures
       \/ Lost(1) /\ UNCHANGED task
    /\ left' = (left \/ requests # <<>>)
    /\ UNCHANGED <<last_id, pre_search, requests, reset, feedback, path, agv, waited,
                   withdrawn, spoilt, old>>

\* Out of service: a request that was made is withdrawn.
Withdraw ==
    /\ chain.status = "WAIT" /\ ~serving /\ pre_search
    /\ pre_search' = FALSE
    /\ Remove
    /\ withdrawn' = TRUE /\ spoilt' = spoilt \cup {id}
    /\ UNCHANGED <<chain, last_id, exec_num, acs, agv, waited, old>>

(* Check_Feedback of the sub-task, and the chain goes on or ends. *)
CheckDone ==
    /\ chain.status = "CHECK" /\ task = "DONE"
    /\ chain' = IF chain.sub_task = "EQUIP_GET"
                THEN [sub_task |-> "EQUIP_PUT", id |-> id + 1, status |-> "WAIT"]
                ELSE [chain EXCEPT !.status = "NONE"]
    /\ pre_search' = FALSE /\ task' = "NONE" /\ waited' = 0 /\ withdrawn' = FALSE
    /\ UNCHANGED <<last_id, exec_num, requests, reset, feedback, path, agv, failures,
                   spoilt, old, left>>

CheckFailed ==
    /\ chain.status = "CHECK" /\ task = "FAILED"
    /\ chain' = [chain EXCEPT !.status = "ERR"]
    /\ UNCHANGED <<last_id, search, acs, agv, failures, history>>

\* ERR and ABORT: only an order's path is given back.
End ==
    /\ chain.status = "ERR"
    /\ chain' = [chain EXCEPT !.status = "NONE"]
    /\ IF chain.sub_task # "PARKING" THEN Remove
       ELSE left' = TRUE /\ UNCHANGED <<requests, reset, failures>>
    /\ pre_search' = FALSE /\ task' = "NONE"
    /\ UNCHANGED <<last_id, exec_num, feedback, path, agv, waited, withdrawn, spoilt, old>>

-----------------------------------------------------------------------------
(* The ACS, and the AGV. *)
Answer(r) ==
    /\ requests # <<>>
    /\ feedback' = [feedback EXCEPT ![Head(requests)] = r]
    /\ requests' = Tail(requests)
    /\ path' = (path \/ r = "SUCCESS")
    /\ old' = old \ {Head(requests)}
    /\ UNCHANGED <<chain, last_id, pre_search, exec_num, reset, task, agv, failures, waited,
                   withdrawn, spoilt, left>>

TakeUp ==
    /\ requests # <<>>
    /\ feedback' = [feedback EXCEPT ![Head(requests)] = "INIT"]
    /\ old' = old \ {Head(requests)}
    /\ UNCHANGED <<chain, last_id, search, task, path, agv, failures, waited, withdrawn,
                   spoilt, left>>

Reset ==
    /\ reset /\ reset' = FALSE /\ path' = FALSE
    /\ UNCHANGED <<chain, last_id, pre_search, exec_num, requests, feedback, task, agv,
                   failures, history>>

RunTask(r) ==
    /\ task = "ROW" /\ task' = r
    /\ path' = (path /\ r # "DONE")
    /\ UNCHANGED <<chain, last_id, search, feedback, agv, failures, history>>

Outage ==
    /\ outages < MaxOutages /\ outages' = outages + 1
    /\ \/ serving' = FALSE /\ UNCHANGED at_node
       \/ at_node' = FALSE /\ UNCHANGED serving
    /\ UNCHANGED <<chain, last_id, search, acs, failures, history>>

BackInService ==
    /\ ~(serving /\ at_node)
    /\ serving' = TRUE /\ at_node' = TRUE
    /\ UNCHANGED <<chain, last_id, search, acs, outages, failures, history>>

Tick ==
    \/ SearchFirst \/ SearchOther \/ SearchFailed \/ SearchInit \/ SearchFound
    \/ Withdraw \/ CheckDone \/ CheckFailed \/ End

Next ==
    \/ Tick
    \/ \E k \in {"EQUIP_GET", "PARKING"} : Begin(k)
    \/ \E r \in Result : Answer(r)
    \/ \E r \in {"DONE", "FAILED"} : RunTask(r)
    \/ TakeUp \/ Reset \/ Outage \/ BackInService

Spec == Init /\ [][Next]_vars

\* The timer ticks and the ACS answers; of a request that is made again and
\* again it finds the path in the end, and some tick sees that before the next
\* answer.  An AGV comes back into service.
Fairness ==
    /\ WF_vars(Tick) /\ WF_vars(Reset) /\ WF_vars(BackInService)
    /\ SF_vars(Answer("SUCCESS")) /\ SF_vars(SearchFound)

FairSpec == Spec /\ Fairness

-----------------------------------------------------------------------------
(* Everything is of its kind, and a sub-task is counted only up to ExecNum. *)
SearchTypeOK ==
    /\ chain \in [sub_task : Kinds, id : 0..MaxId, status : {"NONE", "WAIT", "CHECK", "ERR"}]
    /\ last_id \in 0..MaxId /\ pre_search \in BOOLEAN
    /\ exec_num \in [Id -> 0..(ExecNum - 1)]
    /\ requests \in Seq(Id)
    /\ feedback \in [Id -> Result \cup {"NONE", "OTHER", "INIT"}]
    /\ reset \in BOOLEAN /\ serving \in BOOLEAN /\ at_node \in BOOLEAN
    /\ task \in {"NONE", "ROW", "DONE", "FAILED"} /\ path \in BOOLEAN
    /\ outages \in 0..MaxOutages /\ failures \in 0..MaxFailures
    /\ waited \in 0..ExecNum /\ withdrawn \in BOOLEAN /\ spoilt \subseteq Id /\ old \subseteq Id
    /\ left \in BOOLEAN

(* The ACS holds a path for the AGV only while the sub-task that it is for   *)
(* waits or runs and was not withdrawn since it was last asked for, or with  *)
(* a reset on its way: no path stays blocked for other AGVs.  A statement    *)
(* that fails, a PARKING that does (removePreSearchTaskResult is called for  *)
(* orders only) and requests that are made twice are not covered.           *)
PathWanted ==
    path => \/ reset \/ left \/ pre_search \/ chain.status = "ERR"
            \/ chain.status = "WAIT" /\ ~withdrawn

(* A sub-task that is dispatched on a SUCCESS goes on a path that the ACS    *)
(* still holds, and no reset is on its way to it, unless the request was     *)
(* once withdrawn, the reset could not be cancelled, or the SUCCESS is that  *)
(* of an earlier task with the same id and target, whose row is never        *)
(* deleted: then there need be no path, and the code does not notice.       *)
DispatchedHasPath ==
    [][chain.status = "WAIT" /\ chain'.status = "CHECK" /\ feedback[id] = "SUCCESS"
         /\ id \notin spoilt \cup old => path /\ ~reset]_vars

(* A sub-task that has been asked for is asked for again only after ExecNum  *)
(* ticks, if not because the result is for another target: the table is not  *)
(* filled with requests.                                                    *)
OneRequest ==
    [][pre_search /\ Len(requests') > Len(requests) =>
         waited >= ExecNum - 1 \/ feedback[id] = "OTHER"]_vars

(* A sub-task that waits for its path is dispatched in the end, unless it    *)
(* was withdrawn while FAILED had been counted.                             *)
WaitingEnds ==
    []<>(chain.status # "WAIT" \/ (~pre_search /\ exec_num[id] > 0))
=============================================================================
