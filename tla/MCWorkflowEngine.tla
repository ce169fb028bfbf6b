--------------------------- MODULE MCWorkflowEngine ---------------------------
(* Model-checking instances of WorkflowEngine: the shapes of workflows. *)
EXTENDS WorkflowEngine, TLC

CONSTANT w1   \* a workflow id

Plain    == [branches |-> 0, continueOnError |-> FALSE]
Group    == [branches |-> 2, continueOnError |-> FALSE]
Tolerant == [branches |-> 2, continueOnError |-> TRUE]

\* A group with a step to merge from, and one whose errors pass with a step to
\* merge into.
MCShapes == w1 :> {<<Plain, Group>>, <<Tolerant, Plain>>}

\* The smallest workflow with a step to resume from.
TwoPlainSteps == w1 :> {<<Plain, Plain>>}
=============================================================================
