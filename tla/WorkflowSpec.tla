----------------------------- MODULE WorkflowSpec -----------------------------
(***************************************************************************)
(* What a workflow promises: its steps complete one after another, in      *)
(* order and each for good; it completes when all have; when a step fails, *)
(* or the Gateway restarts under it, it has failed, and resuming it picks  *)
(* up after the steps that completed.  Jobs, branches, promises and events *)
(* do not appear.                                                          *)
(***************************************************************************)
EXTENDS Naturals

CONSTANTS
  Workflows,   \* workflow ids
  MaxSteps     \* the most steps one is submitted with

VARIABLES
  online,   \* the Gateway process is up and has loaded its history
  state,    \* what GET /workflows/:id answers: its state, its steps and how many are done
  record    \* what storage holds

vars == <<online, state, record>>

Absent == [state |-> "absent", done |-> 0, steps |-> 0]

View == {Absent} \cup
        {v \in [state: {"active", "completed", "failed"}, done: 0 .. MaxSteps, steps: 1 .. MaxSteps] :
           v.done <= v.steps}

TypeOK ==
  /\ online \in BOOLEAN
  /\ state \in [Workflows -> View]
  /\ record \in [Workflows -> View]

Init ==
  /\ online = TRUE
  /\ state  = [w \in Workflows |-> Absent]
  /\ record = [w \in Workflows |-> Absent]

Move(w, from, to) ==
  /\ online /\ state[w].state = from
  /\ state' = [state EXCEPT ![w].state = to]
  /\ UNCHANGED <<online, record>>

Submit(w) ==
  /\ online /\ state[w] = Absent /\ record[w] = Absent
  /\ \E n \in 1 .. MaxSteps :
       state' = [state EXCEPT ![w] = [state |-> "active", done |-> 0, steps |-> n]]
  /\ UNCHANGED <<online, record>>

StepCompletes(w) ==
  /\ online /\ state[w].state = "active" /\ state[w].done < state[w].steps
  /\ state' = [state EXCEPT ![w].done = @ + 1]
  /\ UNCHANGED <<online, record>>

Complete(w) == state[w].done = state[w].steps /\ Move(w, "active", "completed")
Fail(w)     == state[w].done < state[w].steps /\ Move(w, "active", "failed")
Resume(w)   == state[w].done < state[w].steps /\ Move(w, "failed", "active")

\* Storage catches up with the workflow, or with an earlier moment of its
\* life, and never loses a completed step.
Record(w) ==
  /\ online /\ state[w] # Absent /\ record[w].state # "completed"
  /\ \E d \in record[w].done .. state[w].done, s \in {"active", "failed", state[w].state} :
       /\ s = "completed" => d = state[w].steps
       /\ record' = [record EXCEPT ![w] = [state |-> s, done |-> d, steps |-> state[w].steps]]
  /\ UNCHANGED <<online, state>>

Stop ==
  /\ online /\ online' = FALSE
  /\ state' = [w \in Workflows |-> Absent]
  /\ UNCHANGED record

Restart ==
  /\ ~online /\ online' = TRUE
  /\ \/ state' = [w \in Workflows |-> IF record[w].state = "active"
                                      THEN [record[w] EXCEPT !.state = "failed"] ELSE record[w]]
     \/ UNCHANGED state
  /\ UNCHANGED record

Next ==
  \/ \E w \in Workflows : Submit(w) \/ StepCompletes(w) \/ Complete(w) \/ Fail(w)
                          \/ Resume(w) \/ Record(w)
  \/ Stop
  \/ Restart

Spec == Init /\ [][Next]_vars
=============================================================================
