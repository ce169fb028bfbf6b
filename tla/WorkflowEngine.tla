---------------------------- MODULE WorkflowEngine ----------------------------
(***************************************************************************)
(* The Workflow Engine (src/src/modules/workflow/workflow-engine.ts): the  *)
(* sequence of steps, parallel groups, resuming, and what a restart finds. *)
(*                                                                         *)
(* As in JobEngine an action is one turn of the JavaScript event loop.     *)
(* Every submit() and resume() starts a run: an activation of runStep()    *)
(* and its chain of awaits, which lives until it returns or the process    *)
(* dies.  Runs are numbered and never reused, and the job a run submits    *)
(* for slot b of step i is known as <<run, i, b>>: slot 0 is a plain       *)
(* step's job, slots 1, 2, ... a group's branches.  Jobs are what JobSpec  *)
(* promises: live from submit() until they settle, once.                   *)
(***************************************************************************)
EXTENDS Naturals, Sequences, FiniteSets

CONSTANTS
  Workflows,     \* workflow ids (nanoid: a fresh one per submission)
  Shapes,        \* the sequences of steps each may be submitted with
  MaxSteps,      \* the length of the longest
  MaxBranches,   \* the width of the widest group (the route allows 2 to 20)
  MaxRuns,       \* bound: submissions and resumes explored
  Ordered        \* TRUE: local storage; FALSE: Supabase (see JobEngine)

StepNums   == 1 .. MaxSteps
BranchNums == 1 .. MaxBranches
Slots      == 0 .. MaxBranches
Runs       == 1 .. MaxRuns

\* A plain step has no branches; a group has at least two.
StepSpec == [branches: {0} \cup (2 .. MaxBranches), continueOnError: BOOLEAN]

ASSUME BoundsAssumption ==
  MaxSteps \in Nat \ {0} /\ MaxBranches \in Nat /\ MaxRuns \in Nat
ASSUME ShapesAssumption ==
  \A w \in Workflows : \A shape \in Shapes[w] :
    shape \in Seq(StepSpec) /\ Len(shape) \in StepNums
ASSUME OrderedAssumption == Ordered \in BOOLEAN

VARIABLES
  up,          \* the process is running and has hydrated
  workflows,   \* WorkflowEngine.workflows
  runs,        \* the activations of runStep(), in the order they started
  jobs,        \* the status of the jobs the runs submitted
  pending,     \* snapshots handed to persistWorkflow(), not yet applied, oldest first
  disk         \* the "workflows" collection

vars == <<up, workflows, runs, jobs, pending, disk>>

-----------------------------------------------------------------------------
InFlight == {"queued", "running"}
Settled  == {"completed", "failed"}

\* A branch, or a step without its branches.  A job or a result is told by the
\* run it belongs to, 0 for none.
Unit == [status: {"pending"} \cup InFlight \cup Settled, job: 0 .. MaxRuns, result: 0 .. MaxRuns]
Step == [status: {"pending"} \cup InFlight \cup Settled, job: 0 .. MaxRuns, result: 0 .. MaxRuns,
         branches: [BranchNums -> Unit]]

\* currentStepIndex counts from 0 in the code and from 1 here.
Workflow == [status: InFlight \cup Settled, shape: Seq(StepSpec), current: 1 .. MaxSteps + 1,
             resumes: Nat, steps: [StepNums -> Step]]

FreshUnit == [status |-> "pending", job |-> 0, result |-> 0]
FreshStep == [status |-> "pending", job |-> 0, result |-> 0,
              branches |-> [b \in BranchNums |-> FreshUnit]]

Unsubmitted == [status |-> "absent", shape |-> <<>>, current |-> 1, resumes |-> 0,
                steps |-> [i \in StepNums |-> FreshStep]]

Steps(wf)       == 1 .. Len(wf.shape)
IsGroup(wf, i)  == wf.shape[i].branches > 0
Branches(wf, i) == 1 .. wf.shape[i].branches

\* at: what the run waits for - the job of a plain step, all branches of a
\* group, its turn to run the next step - or that it has returned.  listening
\* and resolved are the slots whose settle() promise is open and resolved.
Run == [workflow: Workflows, step: StepNums, at: {"single", "group", "advance", "over"},
        listening: SUBSET Slots, resolved: SUBSET Slots]

NoJobs == [i \in StepNums |-> [b \in Slots |-> "absent"]]

\* update(): every snapshot of the turn goes into the map, to storage and to
\* the Event Bus; a settled one is also workflow.completed or .failed.
Save(w, snapshots) ==
  /\ workflows' = [workflows EXCEPT ![w] = snapshots[Len(snapshots)]]
  /\ pending'   = [pending EXCEPT ![w] = @ \o snapshots]

-----------------------------------------------------------------------------
\* submit() of a job for each slot, then settle(): the jobs are live, and
\* their listeners are in place before anything else can run.
Dispatch(rs, r, i, at, slots) ==
  /\ jobs' = [jobs EXCEPT ![r][i] = [b \in Slots |-> IF b \in slots THEN "live" ELSE @[b]]]
  /\ runs' = [rs EXCEPT ![r] = [@ EXCEPT !.step = i, !.at = at, !.listening = slots, !.resolved = {}]]

\* runSingle() up to its await.
RunSingle(w, r, i, wf, saved, rs) ==
  LET queued  == [wf EXCEPT !.steps[i].status = "queued"]
      running == [wf EXCEPT !.steps[i] = [@ EXCEPT !.status = "running", !.job = r]]
  IN /\ Save(w, saved \o <<queued, running>>)
     /\ Dispatch(rs, r, i, "single", {0})

\* The branches a group has to run: not those that completed before a resume.
Todo(wf, i) == {b \in Branches(wf, i) : wf.steps[i].branches[b].status # "completed"}

\* The group when the k-th of them has become `last`, and those in front run.
UpTo(wf, i, r, k, last) ==
  LET rank(b) == Cardinality({c \in Todo(wf, i) : c <= b})
  IN [wf EXCEPT !.steps[i].branches = [b \in BranchNums |->
        IF b \notin Todo(wf, i) \/ rank(b) > k THEN @[b]
        ELSE IF rank(b) = k THEN last
        ELSE [status |-> "running", job |-> r, result |-> 0]]]

\* Two updates for each: queued, and running once its job is submitted.
Submitting(wf, i, r, k) ==
  IF k % 2 = 1 THEN UpTo(wf, i, r, (k + 1) \div 2, [status |-> "queued", job |-> 0, result |-> 0])
  ELSE UpTo(wf, i, r, k \div 2, [status |-> "running", job |-> r, result |-> 0])

\* runGroup() up to its await: the branches are queued and submitted one after
\* another.
RunGroup(w, r, i, wf, saved, rs) ==
  LET group == [wf EXCEPT !.steps[i].status = "running"]
      count == Cardinality(Todo(wf, i))
  IN /\ Save(w, saved \o <<group>> \o [k \in 1 .. 2 * count |-> Submitting(group, i, r, k)])
     /\ Dispatch(rs, r, i, "group", Todo(wf, i))

\* runStep(): past the last step the workflow has completed; otherwise the
\* i-th step starts.
RunStep(w, r, i, wf, saved, rs) ==
  LET now == [wf EXCEPT !.status = "running", !.current = i] IN
  \/ /\ i > Len(wf.shape)
     /\ Save(w, Append(saved, [wf EXCEPT !.status = "completed", !.current = i]))
     /\ runs' = [rs EXCEPT ![r] = [@ EXCEPT !.at = "over"]]
     /\ UNCHANGED jobs
  \/ /\ i \in Steps(wf) /\ ~IsGroup(wf, i)
     /\ RunSingle(w, r, i, now, Append(saved, now), rs)
  \/ /\ i \in Steps(wf) /\ IsGroup(wf, i)
     /\ RunGroup(w, r, i, now, Append(saved, now), rs)

\* start(): a new run of w from its i-th step.
Start(w, i, wf) ==
  /\ Len(runs) < MaxRuns
  /\ RunStep(w, Len(runs) + 1, i, wf, <<wf>>,
             Append(runs, [workflow |-> w, step |-> i, at |-> "advance",
                           listening |-> {}, resolved |-> {}]))

\* submit(), from POST /workspaces/:id/workflows.
Submit(w) ==
  /\ up /\ workflows[w] = Unsubmitted /\ disk[w] = Unsubmitted
  /\ \E shape \in Shapes[w] : Start(w, 1, [Unsubmitted EXCEPT !.status = "queued", !.shape = shape])
  /\ UNCHANGED <<up, disk>>

Incomplete(wf) == {i \in Steps(wf) : wf.steps[i].status # "completed"}

\* Mutant of FreshFrom: the branches of the group start over too.
FreshFromScratch(i, steps) == [k \in StepNums |-> IF k < i THEN steps[k] ELSE FreshStep]

\* The steps a resume from the i-th starts with: it and those after it are
\* fresh, except that its own completed branches keep their results.
FreshFrom(i, steps) ==
  [k \in StepNums |->
     IF k < i THEN steps[k]
     ELSE IF k > i THEN FreshStep
     ELSE [FreshStep EXCEPT !.branches =
             [b \in BranchNums |-> IF steps[i].branches[b].status = "completed"
                                   THEN steps[i].branches[b] ELSE FreshUnit]]]

\* Mutant: a workflow is resumed that has not failed.
ResumeUnguarded(w) ==
  /\ up /\ workflows[w].status \notin {"absent", "completed"}
  /\ \E i \in Incomplete(workflows[w]) :
       /\ \A k \in Incomplete(workflows[w]) : i <= k
       /\ Start(w, i, [workflows[w] EXCEPT !.status = "queued", !.current = i, !.resumes = @ + 1,
                                           !.steps = FreshFrom(i, @)])
  /\ UNCHANGED <<up, disk>>

\* resume(), from POST /workflows/:id/resume: from the first step that did not
\* complete; refused when the workflow has not failed or has no such step.
Resume(w) ==
  /\ up /\ workflows[w].status = "failed"
  /\ \E i \in Incomplete(workflows[w]) :
       /\ \A k \in Incomplete(workflows[w]) : i <= k
       /\ Start(w, i, [workflows[w] EXCEPT !.status = "queued", !.current = i, !.resumes = @ + 1,
                                           !.steps = FreshFrom(i, @)])
  /\ UNCHANGED <<up, disk>>

-----------------------------------------------------------------------------
\* Mutant of JobSettles: its event reaches nobody.
JobSettlesUnheard(r, i, b) ==
  /\ up /\ jobs[r][i][b] = "live"
  /\ \E outcome \in Settled : jobs' = [jobs EXCEPT ![r][i][b] = outcome]
  /\ UNCHANGED <<up, workflows, runs, pending, disk>>

\* A job reaches its end; its job.updated resolves the settle() waiting for it.
JobSettles(r, i, b) ==
  /\ up /\ jobs[r][i][b] = "live"
  /\ \E outcome \in Settled : jobs' = [jobs EXCEPT ![r][i][b] = outcome]
  /\ runs' = IF runs[r].step = i /\ b \in runs[r].listening
             THEN [runs EXCEPT ![r].listening = @ \ {b}, ![r].resolved = @ \cup {b}]
             ELSE runs
  /\ UNCHANGED <<up, workflows, pending, disk>>

\* Mutant of SingleSettled: the workflow fails before its step does.
SingleSettledSwapped(r) ==
  LET w == runs[r].workflow
      i == runs[r].step
      failed == [workflows[w] EXCEPT !.status = "failed"]
  IN /\ up /\ runs[r].at = "single" /\ 0 \in runs[r].resolved
     /\ jobs[r][i][0] = "failed"
     /\ Save(w, <<failed, [failed EXCEPT !.steps[i].status = "failed"]>>)
     /\ runs' = [runs EXCEPT ![r] = [@ EXCEPT !.at = "over", !.resolved = {}]]
     /\ UNCHANGED <<up, jobs, disk>>

\* runSingle() goes on: the step completes, or fails and the workflow with it.
SingleSettled(r) ==
  LET w == runs[r].workflow
      i == runs[r].step
      done == [workflows[w] EXCEPT !.steps[i] = [@ EXCEPT !.status = "completed", !.result = r]]
      failed == [workflows[w] EXCEPT !.steps[i].status = "failed"]
  IN /\ up /\ runs[r].at = "single" /\ 0 \in runs[r].resolved
     /\ \/ /\ jobs[r][i][0] = "completed"
           /\ Save(w, <<done>>)
           /\ runs' = [runs EXCEPT ![r] = [@ EXCEPT !.at = "advance", !.resolved = {}]]
        \/ /\ jobs[r][i][0] # "completed"
           /\ Save(w, <<failed, [failed EXCEPT !.status = "failed"]>>)
           /\ runs' = [runs EXCEPT ![r] = [@ EXCEPT !.at = "over", !.resolved = {}]]
     /\ UNCHANGED <<up, jobs, disk>>

\* One branch of runGroup() goes on, to its end.
BranchSettled(r, b) ==
  LET w == runs[r].workflow
      i == runs[r].step
      branch == workflows[w].steps[i].branches[b]
      ended == IF jobs[r][i][b] = "completed"
               THEN [branch EXCEPT !.status = "completed", !.result = r]
               ELSE [branch EXCEPT !.status = "failed"]
  IN /\ up /\ runs[r].at = "group" /\ b \in runs[r].resolved
     /\ Save(w, <<[workflows[w] EXCEPT !.steps[i].branches[b] = ended]>>)
     /\ runs' = [runs EXCEPT ![r].resolved = @ \ {b}]
     /\ UNCHANGED <<up, jobs, disk>>

\* Mutant of GroupSettled: the first failure ends the group.
GroupSettledAtOnce(r) ==
  LET w == runs[r].workflow
      i == runs[r].step
      ended == [workflows[w] EXCEPT !.steps[i].status = "failed", !.status = "failed"]
  IN /\ up /\ runs[r].at = "group"
     /\ \E b \in BranchNums : workflows[w].steps[i].branches[b].status = "failed"
     /\ Save(w, <<ended>>)
     /\ runs' = [runs EXCEPT ![r] = [@ EXCEPT !.at = "over"]]
     /\ UNCHANGED <<up, jobs, disk>>

\* Promise.all() resolves: every branch has ended.  The group completes with
\* all results, or fails because a branch did and errors do not pass.
GroupSettled(r) ==
  LET w == runs[r].workflow
      i == runs[r].step
      wf == workflows[w]
      failures == {b \in Branches(wf, i) : wf.steps[i].branches[b].status = "failed"}
      ended(s) == [wf EXCEPT !.steps[i] = [@ EXCEPT !.status = s, !.result = r]]
  IN /\ up /\ runs[r].at = "group" /\ runs[r].listening = {} /\ runs[r].resolved = {}
     /\ \/ /\ failures # {} /\ ~wf.shape[i].continueOnError
           /\ Save(w, <<ended("failed"), [ended("failed") EXCEPT !.status = "failed"]>>)
           /\ runs' = [runs EXCEPT ![r] = [@ EXCEPT !.at = "over"]]
        \/ /\ failures = {} \/ wf.shape[i].continueOnError
           /\ Save(w, <<ended("completed")>>)
           /\ runs' = [runs EXCEPT ![r] = [@ EXCEPT !.at = "advance"]]
     /\ UNCHANGED <<up, jobs, disk>>

\* runStep() goes on after a step that completed.
Advance(r) ==
  LET w == runs[r].workflow IN
  /\ up /\ runs[r].at = "advance"
  /\ RunStep(w, r, runs[r].step + 1, workflows[w], <<>>, runs)
  /\ UNCHANGED <<up, disk>>

-----------------------------------------------------------------------------
NextWrites(w) == IF Ordered THEN {1} \cap DOMAIN pending[w] ELSE DOMAIN pending[w]

WithoutWrite(w, k) ==
  [pending EXCEPT ![w] = SubSeq(@, 1, k - 1) \o SubSeq(@, k + 1, Len(@))]

\* persistWorkflow() writes a snapshot, or rejects and persist() logs it.
PersistWorkflow(w) ==
  /\ up
  /\ \E k \in NextWrites(w) : disk' = [disk EXCEPT ![w] = pending[w][k]] /\ pending' = WithoutWrite(w, k)
  /\ UNCHANGED <<up, workflows, runs, jobs>>

PersistFails(w) ==
  /\ up
  /\ \E k \in NextWrites(w) : pending' = WithoutWrite(w, k)
  /\ UNCHANGED <<up, workflows, runs, jobs, disk>>

\* The process dies, and with it every run and every write not yet made.  Its
\* jobs are gone: what JobEngine.hydrate() reports of them no run will read.
Crash ==
  /\ up /\ up' = FALSE
  /\ workflows' = [w \in Workflows |-> Unsubmitted]
  /\ runs' = [r \in DOMAIN runs |-> [runs[r] EXCEPT !.at = "over", !.listening = {}, !.resolved = {}]]
  /\ jobs' = [r \in Runs |-> NoJobs]
  /\ pending' = [w \in Workflows |-> <<>>]
  /\ UNCHANGED disk

\* Mutant of Corrected: a workflow found in flight stays so.
CorrectedNever(wf) == wf

\* hydrate(): a workflow found in flight has failed, and so have the steps and
\* branches that were in flight with it.
Interrupted(u) == IF u.status \in InFlight THEN [u EXCEPT !.status = "failed"] ELSE u

InterruptedStep(step) ==
  [Interrupted(step) EXCEPT !.branches = [b \in BranchNums |-> Interrupted(step.branches[b])]]

Corrected(wf) ==
  IF wf.status \in InFlight
  THEN [wf EXCEPT !.status = "failed", !.steps = [i \in StepNums |-> InterruptedStep(wf.steps[i])]]
  ELSE wf

Hydrate ==
  /\ ~up /\ up' = TRUE
  /\ workflows' = [w \in Workflows |-> Corrected(disk[w])]
  /\ pending' = [w \in Workflows |-> IF disk[w].status \in InFlight
                                     THEN <<Corrected(disk[w])>> ELSE <<>>]
  /\ UNCHANGED <<runs, jobs, disk>>

\* listAllJobs() or listAllWorkflows() throws: main() warns and starts empty.
HydrateFails ==
  /\ ~up /\ up' = TRUE
  /\ UNCHANGED <<workflows, runs, jobs, pending, disk>>

-----------------------------------------------------------------------------
Init ==
  /\ up = TRUE
  /\ workflows = [w \in Workflows |-> Unsubmitted]
  /\ runs = <<>>
  /\ jobs = [r \in Runs |-> NoJobs]
  /\ pending = [w \in Workflows |-> <<>>]
  /\ disk = [w \in Workflows |-> Unsubmitted]

RunTurn(r) ==
  \/ SingleSettled(r)
  \/ \E b \in BranchNums : BranchSettled(r, b)
  \/ GroupSettled(r)
  \/ Advance(r)

Next ==
  \/ \E w \in Workflows : Submit(w) \/ Resume(w) \/ PersistWorkflow(w) \/ PersistFails(w)
  \/ \E r \in DOMAIN runs : RunTurn(r) \/ \E i \in StepNums, b \in Slots : JobSettles(r, i, b)
  \/ Crash
  \/ Hydrate
  \/ HydrateFails

Spec == Init /\ [][Next]_vars

\* A turn that is ready runs, a job settles (JobEngine!JobsSettle), a boot
\* finishes, a storage call is answered.  Nobody has to submit or resume.
Fairness ==
  /\ WF_vars(Hydrate \/ HydrateFails)
  /\ \A w \in Workflows : WF_vars(PersistWorkflow(w) \/ PersistFails(w))
  /\ \A r \in Runs :
       /\ WF_vars(r \in DOMAIN runs /\ RunTurn(r))
       /\ WF_vars(r \in DOMAIN runs /\ \E i \in StepNums, b \in Slots : JobSettles(r, i, b))

FairSpec == Spec /\ Fairness
-----------------------------------------------------------------------------
TypeOK ==
  /\ up \in BOOLEAN
  /\ workflows \in [Workflows -> Workflow \cup {Unsubmitted}]
  /\ runs \in Seq(Run) /\ Len(runs) <= MaxRuns
  /\ jobs \in [Runs -> [StepNums -> [Slots -> {"absent", "live"} \cup Settled]]]
  /\ pending \in [Workflows -> Seq(Workflow)]
  /\ disk \in [Workflows -> Workflow \cup {Unsubmitted}]

IsOpen(r) == runs[r].at # "over"
OpenRuns(w) == {r \in DOMAIN runs : runs[r].workflow = w /\ IsOpen(r)}

\* A workflow that says it is running has exactly one run behind it, at the
\* step it says; in any other state it has none, so a resume never finds an
\* earlier run still at work and a running workflow is never abandoned
\* (submit, resume, start, the ends of runSingle and runGroup).
OneRunWhileRunning ==
  \A w \in Workflows :
    IF workflows[w].status = "running"
    THEN \E r \in DOMAIN runs : OpenRuns(w) = {r} /\ runs[r].step = workflows[w].current
    ELSE OpenRuns(w) = {}

\* Every job still live is one that an open run is listening for at its present
\* step: none is left behind by a group that failed or a workflow that ended,
\* and none can settle unheard (settle, runGroup's Promise.all).
LiveJobsAwaited ==
  \A r \in Runs, i \in StepNums, b \in Slots : jobs[r][i][b] = "live" =>
    /\ r \in DOMAIN runs /\ IsOpen(r)
    /\ runs[r].step = i /\ b \in runs[r].listening

\* Workflows, runs and jobs account for each other: one run for each workflow that
\* says it is running, and one of them for each live job (submit, resume, settle).
RunsAccountFor == TypeOK /\ OneRunWhileRunning /\ LiveJobsAwaited

\* No step is touched before all the steps in front of it have completed and
\* left a result to merge (runStep, resume).
StepsInOrder ==
  \A w \in Workflows : \A i \in Steps(workflows[w]) :
    workflows[w].steps[i].status # "pending" =>
      \A k \in 1 .. i - 1 : /\ workflows[w].steps[k].status = "completed"
                            /\ workflows[w].steps[k].result # 0

\* A group has ended only when its branches have: none is in flight in a
\* settled step, and a completed group has all its results unless its errors
\* pass ("it fails, but only once the others have finished", ARCHITECTURE.md).
GroupBarrier ==
  \A w \in Workflows : \A i \in Steps(workflows[w]) :
    LET step == workflows[w].steps[i] IN
    step.status \in Settled => \A b \in Branches(workflows[w], i) :
      /\ step.branches[b].status \notin InFlight
      /\ step.status = "completed" =>
           step.branches[b].status \in
             (IF workflows[w].shape[i].continueOnError THEN Settled ELSE {"completed"})

\* Work goes from one step to the next, and past a group, only when everything
\* before it is done, through failures and resumes (runStep, runGroup, resume).
WorkInOrder == StepsInOrder /\ GroupBarrier

\* Completed work is never run again: while the process lives a completed step
\* or branch stays as it is, whatever fails or is resumed around it.
ResultsKept ==
  [][\A w \in Workflows : up /\ up' => \A i \in Steps(workflows[w]) :
       LET step == workflows[w].steps[i] IN
       /\ step.status = "completed" => workflows'[w].steps[i] = step
       /\ \A b \in Branches(workflows[w], i) : step.branches[b].status = "completed" =>
            workflows'[w].steps[i].branches[b] = step.branches[b]]_vars

\* workflow.completed or workflow.failed is emitted once per run, by the last
\* update of the turn in which the run ends: the Knowledge Indexer writes "one
\* entry per workflow run" (knowledge-indexer.ts onWorkflowSettled).
ReportedOnce ==
  [][\A w \in Workflows : up /\ up' =>
       \A k \in Len(pending[w]) + 1 .. Len(pending'[w]) :
         pending'[w][k].status \in Settled =>
           /\ k = Len(pending'[w])
           /\ \E r \in OpenRuns(w) : runs'[r].at = "over"]_vars

\* Every run comes to its end, the process willing, and leaves the workflow
\* settled: no promise of a job or of a group is left open for ever.
RunsEnd ==
  \A w \in Workflows :
    workflows[w].status \in InFlight ~> (workflows[w].status \in Settled \/ ~up)

\* A failed workflow can be resumed: "A workflow that failed - a step failed, or
\* the Gateway restarted while it ran - can be continued instead of started
\* over" (docs/ARCHITECTURE.md).
FailedIsResumable ==
  \A w \in Workflows : workflows[w].status = "failed" => Incomplete(workflows[w]) # {}

-----------------------------------------------------------------------------
\* Steps complete in order (StepsInOrder), so counting them tells which.
AsView(wf) ==
  [state |-> IF wf.status \in InFlight THEN "active" ELSE wf.status,
   done  |-> Len(wf.shape) - Cardinality(Incomplete(wf)),
   steps |-> Len(wf.shape)]

\* Runs, jobs, branches and the persistence queue implement the plain sequence
\* of WorkflowSpec.
Sequence == INSTANCE WorkflowSpec WITH
  online <- up,
  state  <- [w \in Workflows |-> AsView(workflows[w])],
  record <- [w \in Workflows |-> AsView(disk[w])]

ImplementsWorkflowSpec == Sequence!Spec
=============================================================================
