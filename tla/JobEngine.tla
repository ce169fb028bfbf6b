------------------------------ MODULE JobEngine ------------------------------
(***************************************************************************)
(* The Job Engine (src/src/modules/jobs/job-engine.ts) over the MCP        *)
(* orchestrator (src/src/modules/mcp/orchestrator.ts) and the persistence  *)
(* of jobs (job.service.ts).                                               *)
(*                                                                         *)
(* JavaScript runs one turn at a time, so an action is a turn: everything  *)
(* a function does until its next await, with every function it calls and  *)
(* every Event Bus listener it triggers.  Between turns anything may run:  *)
(* another job, an agent's answer, a storage write, a crash.               *)
(*                                                                         *)
(* A job's n-th attempt dispatches one fresh task, known here as <<j, n>>. *)
(* A task is "queued" only inside the turn that dispatches it, which never *)
(* ends before execute() has moved it on.                                  *)
(***************************************************************************)
EXTENDS Naturals, Sequences

CONSTANTS
  Jobs,          \* job ids (nanoid: a fresh one per submission)
  MaxAttempts,   \* the largest maxAttempts a job is submitted with
  Ordered        \* TRUE: local storage, whose collection lock applies writes
                 \* in order; FALSE: Supabase, independent HTTP upserts

ASSUME MaxAttemptsAssumption == MaxAttempts \in Nat \ {0}
ASSUME OrderedAssumption == Ordered \in BOOLEAN

Attempts == 1 .. MaxAttempts

VARIABLES
  up,         \* the process is running and has hydrated
  jobs,       \* JobEngine.jobs
  tasks,      \* McpOrchestrator.tasks
  attempt,    \* where the runAttempt() that dispatched the task has got to
  pending,    \* snapshots handed to persistJob() and not yet applied, oldest first
  disk,       \* the "jobs" collection
  dropped     \* history: jobs that had a write fail

vars == <<up, jobs, tasks, attempt, pending, disk, dropped>>

-----------------------------------------------------------------------------
InFlight   == {"queued", "running"}
Settled    == {"completed", "failed"}
TaskStatus == {"absent", "running", "completed", "failed"}

\* "awaiting" dispatch(), "listening" to mcp.task.updated, or "over".
Phase == {"none", "awaiting", "listening", "over"}

\* currentTaskId and the task the result came from are told by attempt, 0 for none.
Job == [status: InFlight \cup Settled, attempts: 0 .. MaxAttempts,
        maxAttempts: Attempts, task: 0 .. MaxAttempts, result: 0 .. MaxAttempts]

NoJob == [status |-> "absent", attempts |-> 0, maxAttempts |-> 1, task |-> 0, result |-> 0]

NoTasks    == [n \in Attempts |-> "absent"]
NoAttempts == [n \in Attempts |-> "none"]

\* jobs.set(), persist() and the events of every update of a turn.
Save(j, snapshots) ==
  /\ jobs'    = [jobs EXCEPT ![j] = snapshots[Len(snapshots)]]
  /\ pending' = [pending EXCEPT ![j] = @ \o snapshots]

-----------------------------------------------------------------------------
\* runAttempt() up to its await: one more attempt, then dispatch(), whose
\* execute() starts the agent's handler or, with no handler, fails the task.
\* `saved` are the snapshots the turn has saved before it, `ts` and `as` the
\* job's tasks and attempts at that point.
RunAttempt(j, job, saved, ts, as) ==
  LET n == job.attempts + 1 IN
  /\ Save(j, Append(saved, [job EXCEPT !.status = "running", !.attempts = n]))
  /\ \E s \in {"running", "failed"} : tasks' = [tasks EXCEPT ![j] = [ts EXCEPT ![n] = s]]
  /\ attempt' = [attempt EXCEPT ![j] = [as EXCEPT ![n] = "awaiting"]]

\* submit(), from POST /workspaces/:id/jobs or a workflow step.
Submit(j, max) ==
  LET queued == [status |-> "queued", attempts |-> 0, maxAttempts |-> max, task |-> 0, result |-> 0] IN
  /\ up /\ jobs[j] = NoJob /\ disk[j] = NoJob
  /\ RunAttempt(j, queued, <<queued>>, tasks[j], attempt[j])
  /\ UNCHANGED <<up, disk, dropped>>

\* Mutants of HandleTerminal: a retry more than the budget allows, and an
\* attempt that is handled but never taken to be over.
HandleTerminalOverspends(j, n, job, saved, ts) ==
  /\ ts[n] = "failed" /\ job.attempts <= job.maxAttempts
  /\ RunAttempt(j, job, saved, ts, [attempt[j] EXCEPT ![n] = "over"])

HandleTerminalTwice(j, n, job, saved, ts) ==
  \/ /\ ts[n] = "failed" /\ job.attempts < job.maxAttempts
     /\ RunAttempt(j, job, saved, ts, attempt[j])
  \/ /\ ts[n] = "completed" \/ job.attempts >= job.maxAttempts
     /\ Save(j, Append(saved, [job EXCEPT !.status = ts[n], !.result = n]))
     /\ tasks' = [tasks EXCEPT ![j] = ts]
     /\ UNCHANGED attempt

\* handleTerminal() for the n-th task, settled in `ts`: the job takes a
\* completed task's result, tries again, or fails when no attempts are left.
HandleTerminal(j, n, job, saved, ts) ==
  LET as == [attempt[j] EXCEPT ![n] = "over"]
      End(last) == /\ Save(j, Append(saved, last))
                   /\ tasks' = [tasks EXCEPT ![j] = ts]
                   /\ attempt' = [attempt EXCEPT ![j] = as]
  IN \/ /\ ts[n] = "completed"
        /\ End([job EXCEPT !.status = "completed", !.result = n])
     \/ /\ ts[n] = "failed" /\ job.attempts < job.maxAttempts
        /\ RunAttempt(j, job, saved, ts, as)
     \/ /\ ts[n] = "failed" /\ job.attempts >= job.maxAttempts
        /\ End([job EXCEPT !.status = "failed"])

\* Mutants of AwaitReturns: no look at the task before subscribing, and a look
\* that takes a task that is still running for one that failed.
AwaitReturnsBlind(j, n) ==
  /\ up /\ attempt[j][n] = "awaiting"
  /\ Save(j, <<[jobs[j] EXCEPT !.task = n]>>)
  /\ attempt' = [attempt EXCEPT ![j][n] = "listening"]
  /\ UNCHANGED <<up, tasks, disk, dropped>>

AwaitReturnsImpatient(j, n) ==
  LET job == [jobs[j] EXCEPT !.task = n] IN
  /\ up /\ attempt[j][n] = "awaiting"
  /\ tasks[j][n] # "completed" /\ job.attempts < job.maxAttempts
  /\ RunAttempt(j, job, <<job>>, tasks[j], [attempt[j] EXCEPT ![n] = "over"])
  /\ UNCHANGED <<up, disk, dropped>>

\* The await of dispatch() returns: record the task id, then act on a task
\* that has already settled, or subscribe to its updates.
AwaitReturns(j, n) ==
  LET job == [jobs[j] EXCEPT !.task = n] IN
  /\ up /\ attempt[j][n] = "awaiting"
  /\ \/ /\ tasks[j][n] \in Settled
        /\ HandleTerminal(j, n, job, <<job>>, tasks[j])
     \/ /\ tasks[j][n] \notin Settled
        /\ Save(j, <<job>>)
        /\ attempt' = [attempt EXCEPT ![j][n] = "listening"]
        /\ UNCHANGED tasks
  /\ UNCHANGED <<up, disk, dropped>>

\* The agent's handler returns or throws: updateTask() settles the task, and
\* its mcp.task.updated reaches the attempt's listener, if there is one yet.
HandlerReturns(j, n) ==
  /\ up /\ tasks[j][n] = "running"
  /\ \E outcome \in Settled :
       LET ts == [tasks[j] EXCEPT ![n] = outcome] IN
       \/ /\ attempt[j][n] = "listening"
          /\ HandleTerminal(j, n, jobs[j], <<>>, ts)
       \/ /\ attempt[j][n] # "listening"
          /\ tasks' = [tasks EXCEPT ![j] = ts]
          /\ UNCHANGED <<jobs, attempt, pending>>
  /\ UNCHANGED <<up, disk, dropped>>

-----------------------------------------------------------------------------
\* Mutant of NextWrites: local storage without its lock.
NextWritesUnlocked(j) == DOMAIN pending[j]

\* The position in pending[j] of the write that is applied next.
NextWrites(j) == IF Ordered THEN {1} \cap DOMAIN pending[j] ELSE DOMAIN pending[j]

WithoutWrite(j, k) ==
  [pending EXCEPT ![j] = SubSeq(@, 1, k - 1) \o SubSeq(@, k + 1, Len(@))]

\* persistJob() writes a snapshot ...
PersistJob(j) ==
  /\ up
  /\ \E k \in NextWrites(j) : /\ disk' = [disk EXCEPT ![j] = pending[j][k]]
                              /\ pending' = WithoutWrite(j, k)
  /\ UNCHANGED <<up, jobs, tasks, attempt, dropped>>

\* ... or rejects, and persist() only logs it.  (A local write that failed once
\* it had changed the cached collection still reaches the file, with the next
\* write of any job: that is a PersistJob that comes later.)
PersistFails(j) ==
  /\ up
  /\ \E k \in NextWrites(j) : pending' = WithoutWrite(j, k)
  /\ dropped' = dropped \cup {j}
  /\ UNCHANGED <<up, jobs, tasks, attempt, disk>>

\* The process dies: its memory and the writes it had not made are gone.
Crash ==
  /\ up /\ up' = FALSE
  /\ jobs'    = [j \in Jobs |-> NoJob]
  /\ tasks'   = [j \in Jobs |-> NoTasks]
  /\ attempt' = [j \in Jobs |-> NoAttempts]
  /\ pending' = [j \in Jobs |-> <<>>]
  /\ UNCHANGED <<disk, dropped>>

\* Mutant of Corrected: a job found in flight stays so.
CorrectedNever(job) == job

\* hydrate(): a job found in flight has no live task behind it, so it failed.
Corrected(job) == IF job.status \in InFlight THEN [job EXCEPT !.status = "failed"] ELSE job

Hydrate ==
  /\ ~up /\ up' = TRUE
  /\ jobs'    = [j \in Jobs |-> Corrected(disk[j])]
  /\ pending' = [j \in Jobs |-> IF disk[j].status \in InFlight
                                THEN <<Corrected(disk[j])>> ELSE <<>>]
  /\ dropped' = {}
  /\ UNCHANGED <<tasks, attempt, disk>>

\* listAllJobs() throws: main() warns and the Gateway starts with no history.
HydrateFails ==
  /\ ~up /\ up' = TRUE
  /\ dropped' = {j \in Jobs : disk[j] # NoJob}
  /\ UNCHANGED <<jobs, tasks, attempt, pending, disk>>

-----------------------------------------------------------------------------
Init ==
  /\ up = TRUE
  /\ jobs    = [j \in Jobs |-> NoJob]
  /\ tasks   = [j \in Jobs |-> NoTasks]
  /\ attempt = [j \in Jobs |-> NoAttempts]
  /\ pending = [j \in Jobs |-> <<>>]
  /\ disk    = [j \in Jobs |-> NoJob]
  /\ dropped = {}

JobStep(j) ==
  \/ \E max \in Attempts : Submit(j, max)
  \/ \E n \in Attempts : AwaitReturns(j, n) \/ HandlerReturns(j, n)
  \/ PersistJob(j)
  \/ PersistFails(j)

Next == (\E j \in Jobs : JobStep(j)) \/ Crash \/ Hydrate \/ HydrateFails

Spec == Init /\ [][Next]_vars

\* A turn that is ready runs, an agent's handler returns (fetch ends by
\* itself, some subprocesses have a timeout, and jadx, apktool and adb are taken
\* to exit; the job of one that does not exit does not settle), a boot finishes,
\* a storage call is answered.  No one has to submit a job, and nothing has to
\* crash.
Fairness ==
  /\ WF_vars(Hydrate \/ HydrateFails)
  /\ \A j \in Jobs :
       /\ WF_vars(PersistJob(j) \/ PersistFails(j))
       /\ \A n \in Attempts : WF_vars(AwaitReturns(j, n)) /\ WF_vars(HandlerReturns(j, n))

FairSpec == Spec /\ Fairness
-----------------------------------------------------------------------------
TypeOK ==
  /\ up \in BOOLEAN
  /\ jobs    \in [Jobs -> Job \cup {NoJob}]
  /\ tasks   \in [Jobs -> [Attempts -> TaskStatus]]
  /\ attempt \in [Jobs -> [Attempts -> Phase]]
  /\ pending \in [Jobs -> Seq(Job)]
  /\ disk    \in [Jobs -> Job \cup {NoJob}]
  /\ dropped \in SUBSET Jobs

\* The attempts of j whose runAttempt() still has something to do.
Open(j) == {n \in Attempts : attempt[j][n] \in {"awaiting", "listening"}}

\* A job runs its attempts one at a time: while it is running exactly its
\* latest runAttempt() is open, and once settled none is, so no task's answer
\* can reach a job twice (job-engine.ts runAttempt, handleTerminal).
OneOpenAttempt ==
  \A j \in Jobs : Open(j) = IF jobs[j].status = "running" THEN {jobs[j].attempts} ELSE {}

\* No wakeup is lost between the check of getTask() and the subscription: an
\* attempt that listens is one whose task has yet to settle.
ListensInTime ==
  \A j \in Jobs, n \in Attempts : attempt[j][n] = "listening" => tasks[j][n] = "running"

\* An agent only ever works for a job that is running and on its latest
\* attempt: a settled job leaves nothing executing, a retry overlaps nothing.
NoStrayTask ==
  \A j \in Jobs, n \in Attempts :
    tasks[j][n] = "running" => jobs[j].status = "running" /\ jobs[j].attempts = n

\* A job, its attempts, the tasks they wait for and the agents that work on them
\* keep in step, through retries that begin inside the attempt they replace, answers
\* that come before anyone listens, and crashes (runAttempt, handleTerminal).
AttemptsInStep == OneOpenAttempt /\ ListensInTime /\ NoStrayTask

\* A job tells the truth about its tasks: every attempt before the last one
\* failed, a completed job carries the result of its last task, and a failed
\* one had used up its attempts (tasks are absent after a restart).
OutcomeEarned ==
  \A j \in Jobs :
    LET job == jobs[j]
        Ran(n, s) == tasks[j][n] \in {"absent", s}
    IN /\ \A n \in Attempts : n < job.attempts => Ran(n, "failed")
       /\ \A n \in Attempts : n > job.attempts => tasks[j][n] = "absent"
       /\ job.status = "completed" =>
            job.result = job.attempts /\ job.task = job.attempts /\ Ran(job.attempts, "completed")
       /\ job.status = "failed" /\ tasks[j] # NoTasks =>
            job.attempts = job.maxAttempts /\ Ran(job.attempts, "failed")
       /\ job.attempts <= job.maxAttempts

\* Once every write of a job has been answered, and none failed, storage holds
\* the job's latest snapshot: "this only makes sure the latest snapshot
\* survives a restart" (src/src/modules/jobs/job.service.ts).
LatestSnapshotSurvives ==
  \A j \in Jobs : up /\ pending[j] = <<>> /\ j \notin dropped => disk[j] = jobs[j]

\* A settled job stays settled, its attempts and its result as they are, for
\* as long as the process lives.
SettledForGood ==
  [][\A j \in Jobs : up /\ up' /\ jobs[j].status \in Settled => jobs'[j] = jobs[j]]_vars

\* Every submitted job settles, unless the process dies under it.
JobsSettle ==
  \A j \in Jobs : jobs[j].status \in InFlight ~> (jobs[j].status \in Settled \/ ~up)

-----------------------------------------------------------------------------
AsStatus(job) == IF job.status \in InFlight THEN "live" ELSE job.status

\* The engine implements what a job promises: attempts, tasks, listeners and
\* the two-step hydration all disappear behind JobSpec.
Promise == INSTANCE JobSpec WITH
  online <- up,
  status <- [j \in Jobs |-> AsStatus(jobs[j])],
  record <- [j \in Jobs |-> AsStatus(disk[j])]

ImplementsJobSpec == Promise!FairSpec
=============================================================================
