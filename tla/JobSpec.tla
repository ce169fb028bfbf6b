------------------------------- MODULE JobSpec -------------------------------
(***************************************************************************)
(* What a Job promises to its callers (the routes, the Workflow Engine and *)
(* the MCP frontend), with no word of attempts, tasks or listeners: once   *)
(* submitted it is live until it completes or fails, once.  After a        *)
(* restart a job comes back from the record of it that reached storage:    *)
(* one recorded as live has failed, one recorded as settled keeps its      *)
(* outcome, one never recorded is forgotten.                               *)
(***************************************************************************)
CONSTANT Jobs   \* job ids

VARIABLES
  online,   \* the Gateway process is up and has loaded its history
  status,   \* what GET /jobs/:id answers
  record    \* what storage holds

vars == <<online, status, record>>

Outcome == {"completed", "failed"}
Status  == {"absent", "live"} \cup Outcome

TypeOK ==
  /\ online \in BOOLEAN
  /\ status \in [Jobs -> Status]
  /\ record \in [Jobs -> Status]

Init ==
  /\ online = TRUE
  /\ status = [j \in Jobs |-> "absent"]
  /\ record = [j \in Jobs |-> "absent"]

Submit(j) ==
  /\ online /\ status[j] = "absent" /\ record[j] = "absent"
  /\ status' = [status EXCEPT ![j] = "live"]
  /\ UNCHANGED <<online, record>>

Settle(j) ==
  /\ online /\ status[j] = "live"
  /\ \E o \in Outcome : status' = [status EXCEPT ![j] = o]
  /\ UNCHANGED <<online, record>>

\* Storage catches up with the job, or with an earlier moment of its life,
\* but never goes back from an outcome.
Record(j) ==
  /\ online /\ status[j] # "absent" /\ record[j] \notin Outcome
  /\ record' \in {[record EXCEPT ![j] = s] : s \in {"live", status[j]}}
  /\ UNCHANGED <<online, status>>

Stop ==
  /\ online /\ online' = FALSE
  /\ status' = [j \in Jobs |-> "absent"]
  /\ UNCHANGED record

\* A boot that could read storage, and one that could not and starts empty.
Restart ==
  /\ ~online /\ online' = TRUE
  /\ \/ status' = [j \in Jobs |-> IF record[j] = "live" THEN "failed" ELSE record[j]]
     \/ UNCHANGED status
  /\ UNCHANGED record

Next == \/ \E j \in Jobs : Submit(j) \/ Settle(j) \/ Record(j)
        \/ Stop
        \/ Restart

Spec == Init /\ [][Next]_vars

Fairness == WF_vars(Restart) /\ \A j \in Jobs : WF_vars(Settle(j))

FairSpec == Spec /\ Fairness
=============================================================================
