--------------------------- MODULE JobEngineProofs ---------------------------
(***************************************************************************)
(* Proofs about the Job Engine, for any jobs, any bound on attempts and    *)
(* either storage.  The inductive invariant says, job by job, how the job, *)
(* its tasks and its attempts go together (Coherent), that what is in      *)
(* memory, in the write queue and on disk are snapshots a job can have     *)
(* (Sound), and that nothing survives in memory while the process is down. *)
(* With local storage JobEngine implements JobSpec.                        *)
(***************************************************************************)
EXTENDS JobEngine, TLAPS

\* A snapshot respects the job's budget, and one that is completed carries the
\* result of its last attempt.
Sound(job) ==
  /\ job.attempts <= job.maxAttempts
  /\ job.status = "completed" =>
       job.attempts \in Attempts /\ job.result = job.attempts /\ job.task = job.attempts

\* An attempt is still to be handled exactly while it is the running job's latest.
IsOpen(as, n) == as[n] \in {"awaiting", "listening"}

\* The tasks and attempts of a job whose attempts have all been handled: they
\* failed (or are from before a restart), and there are none beyond the count.
Spent(job, ts, as) ==
  \A n \in Attempts :
    /\ ~IsOpen(as, n)
    /\ n <= job.attempts => ts[n] \in {"absent", "failed"}
    /\ n > job.attempts => ts[n] = "absent" /\ as[n] = "none"

\* A job, its tasks and its attempts, while the latest of them is open.
Busy(job, ts, as) ==
  /\ job.attempts \in Attempts
  /\ IsOpen(as, job.attempts)
  /\ ts[job.attempts] # "absent"
  /\ as[job.attempts] = "listening" => ts[job.attempts] = "running" /\ job.task = job.attempts
  /\ \A n \in Attempts :
       /\ n < job.attempts => ts[n] \in {"absent", "failed"} /\ ~IsOpen(as, n)
       /\ n > job.attempts => ts[n] = "absent" /\ as[n] = "none"

\* A job that ended in this process or in an earlier one.
Over(job, ts, as) ==
  /\ \A n \in Attempts :
       /\ ~IsOpen(as, n) /\ ts[n] # "running"
       /\ n < job.attempts => ts[n] \in {"absent", "failed"}
       /\ n > job.attempts => ts[n] = "absent" /\ as[n] = "none"
  /\ job.status = "completed" /\ job.attempts \in Attempts => ts[job.attempts] \in {"absent", "completed"}
  /\ job.status # "completed" /\ job.attempts \in Attempts => ts[job.attempts] \in {"absent", "failed"}
  /\ job.status = "failed" =>
       \/ \A n \in Attempts : ts[n] = "absent"
       \/ job.attempts = job.maxAttempts

Coherent(job, ts, as) ==
  /\ job.status # "queued"
  /\ IF job.status = "running" THEN Busy(job, ts, as) ELSE Over(job, ts, as)

IInv ==
  /\ TypeOK
  /\ \A j \in Jobs : /\ Coherent(jobs[j], tasks[j], attempt[j])
                     /\ Sound(jobs[j]) /\ Sound(disk[j])
                     /\ \A k \in DOMAIN pending[j] : Sound(pending[j][k])
  /\ ~up => \A j \in Jobs : /\ jobs[j] = NoJob /\ pending[j] = <<>>
                            /\ tasks[j] = NoTasks /\ attempt[j] = NoAttempts

USE DEF Attempts

\* The snapshots a turn may save.
SoundSeq(ss) == ss \in Seq(Job) /\ \A k \in DOMAIN ss : Sound(ss[k])

-----------------------------------------------------------------------------
\* The updates of a job that the engine makes yield jobs.
LEMMA JobUpdate ==
  ASSUME NEW job \in Job, NEW n \in Attempts
  PROVE  /\ [job EXCEPT !.status = "running", !.attempts = n] \in Job
         /\ [job EXCEPT !.status = "completed", !.result = n] \in Job
         /\ [job EXCEPT !.status = "failed"] \in Job
         /\ [job EXCEPT !.task = n] \in Job
  <1>1. n \in 0 .. MaxAttempts
    BY MaxAttemptsAssumption
  <1>2. [job EXCEPT !.status = "running", !.attempts = n] \in Job
    BY <1>1 DEF Job, InFlight
  <1>3. [job EXCEPT !.status = "completed", !.result = n] \in Job
    BY <1>1 DEF Job, Settled
  <1>4. [job EXCEPT !.status = "failed"] \in Job
    BY DEF Job, Settled
  <1>5. [job EXCEPT !.task = n] \in Job
    BY <1>1 DEF Job
  <1> QED BY <1>2, <1>3, <1>4, <1>5

\* Appending a sound snapshot to sound ones (the `saved` of a turn).
LEMMA SoundAppend ==
  ASSUME NEW ss, SoundSeq(ss), NEW job \in Job, Sound(job)
  PROVE  /\ SoundSeq(Append(ss, job)) /\ Len(Append(ss, job)) > 0
         /\ Append(ss, job)[Len(Append(ss, job))] = job
  BY DEF SoundSeq

\* What Save() does to the variables it changes, given sound snapshots.
LEMMA SaveSound ==
  ASSUME IInv, NEW j \in Jobs, NEW ss, SoundSeq(ss), Len(ss) > 0, Save(j, ss)
  PROVE  /\ jobs' = [jobs EXCEPT ![j] = ss[Len(ss)]]
         /\ ss[Len(ss)] \in Job /\ Sound(ss[Len(ss)])
         /\ jobs' \in [Jobs -> Job \cup {NoJob}]
         /\ pending' \in [Jobs -> Seq(Job)]
         /\ \A i \in Jobs : \A k \in DOMAIN pending'[i] : Sound(pending'[i][k])
  <1>1. ss \in Seq(Job) /\ Len(ss) \in DOMAIN ss /\ ss[Len(ss)] \in Job /\ Sound(ss[Len(ss)])
    BY DEF SoundSeq
  <1>2. jobs' = [jobs EXCEPT ![j] = ss[Len(ss)]] /\ pending' = [pending EXCEPT ![j] = @ \o ss]
    BY DEF Save
  <1>3. pending \in [Jobs -> Seq(Job)] /\ jobs \in [Jobs -> Job \cup {NoJob}]
    BY DEF IInv, TypeOK
  <1>4. pending[j] \o ss \in Seq(Job)
    BY <1>1, <1>3
  <1>5. \A k \in DOMAIN (pending[j] \o ss) : Sound((pending[j] \o ss)[k])
    <2> SUFFICES ASSUME NEW k \in DOMAIN (pending[j] \o ss) PROVE Sound((pending[j] \o ss)[k])
      OBVIOUS
    <2>0. k \in 1 .. Len(pending[j]) + Len(ss)
      BY <1>1, <1>3
    <2>1. CASE k <= Len(pending[j])
      <3>1. k \in DOMAIN pending[j] /\ (pending[j] \o ss)[k] = pending[j][k]
        BY <1>1, <1>3, <2>0, <2>1
      <3> QED BY <3>1 DEF IInv
    <2>2. CASE k > Len(pending[j])
      <3>1. k - Len(pending[j]) \in DOMAIN ss /\ (pending[j] \o ss)[k] = ss[k - Len(pending[j])]
        BY <1>1, <1>3, <2>0, <2>2
      <3> QED BY <3>1 DEF SoundSeq
    <2> QED BY <1>1, <1>3, <2>0, <2>1, <2>2
  <1>6. \A i \in Jobs : \A k \in DOMAIN pending'[i] : Sound(pending'[i][k])
    BY <1>2, <1>3, <1>4, <1>5 DEF IInv
  <1> QED BY <1>1, <1>2, <1>3, <1>4, <1>6

-----------------------------------------------------------------------------
\* What a turn of job j leaves behind: everything about the other jobs.
Kept(j) ==
  /\ jobs' \in [Jobs -> Job \cup {NoJob}]
  /\ tasks' \in [Jobs -> [Attempts -> TaskStatus]]
  /\ attempt' \in [Jobs -> [Attempts -> Phase]]
  /\ pending' \in [Jobs -> Seq(Job)]
  /\ Sound(jobs'[j]) /\ Coherent(jobs'[j], tasks'[j], attempt'[j])
  /\ \A i \in Jobs \ {j} : jobs'[i] = jobs[i] /\ tasks'[i] = tasks[i] /\ attempt'[i] = attempt[i]
  /\ \A i \in Jobs : \A k \in DOMAIN pending'[i] : Sound(pending'[i][k])

LEMMA KeptKeepsIInv ==
  ASSUME IInv, up, UNCHANGED <<up, disk, dropped>>, NEW j \in Jobs, Kept(j)
  PROVE  IInv'
  <1>1. TypeOK'
    BY DEF IInv, TypeOK, Kept
  <1>2. ASSUME NEW i \in Jobs
        PROVE  /\ Coherent(jobs[i], tasks[i], attempt[i])' /\ Sound(jobs[i])' /\ Sound(disk[i])'
               /\ (\A k \in DOMAIN pending[i] : Sound(pending[i][k]))'
    <2>1. CASE i = j
      BY <2>1 DEF IInv, Kept, Sound, Coherent, Busy, Over, IsOpen
    <2>2. CASE i # j
      <3>1. jobs'[i] = jobs[i] /\ tasks'[i] = tasks[i] /\ attempt'[i] = attempt[i]
        BY <2>2 DEF Kept
      <3> QED BY <3>1 DEF IInv, Kept, Sound, Coherent, Busy, Over, IsOpen
    <2> QED BY <2>1, <2>2
  <1> QED BY <1>1, <1>2 DEF IInv

\* A job whose attempts are spent and that has one left may run it.
LEMMA RunAttemptKeeps ==
  ASSUME IInv, NEW j \in Jobs, NEW job \in Job, Sound(job), job.attempts < job.maxAttempts,
         NEW saved, SoundSeq(saved),
         NEW ts \in [Attempts -> TaskStatus], NEW as \in [Attempts -> Phase], Spent(job, ts, as),
         RunAttempt(j, job, saved, ts, as)
  PROVE  Kept(j)
  <1> DEFINE n == job.attempts + 1
             next == [job EXCEPT !.status = "running", !.attempts = n]
  <1>1. n \in Attempts /\ next \in Job /\ Sound(next) /\ next.status = "running" /\ next.attempts = n
    <2>1. job.attempts \in 0 .. MaxAttempts /\ job.maxAttempts \in 1 .. MaxAttempts
      BY DEF Job
    <2>2. n \in 1 .. MaxAttempts /\ n <= job.maxAttempts
      BY <2>1, MaxAttemptsAssumption
    <2>3. next.status = "running" /\ next.attempts = n /\ next.maxAttempts = job.maxAttempts
      BY DEF Job
    <2>4. next \in Job
      BY <2>2, JobUpdate
    <2> HIDE DEF n, next
    <2> QED BY <2>2, <2>3, <2>4 DEF Sound
  <1>2. Save(j, Append(saved, next))
    BY DEF RunAttempt
  <1>3. SoundSeq(Append(saved, next)) /\ Len(Append(saved, next)) > 0
        /\ Append(saved, next)[Len(Append(saved, next))] = next
    BY <1>1, SoundAppend
  <1>4. /\ jobs' = [jobs EXCEPT ![j] = next] /\ jobs' \in [Jobs -> Job \cup {NoJob}]
        /\ pending' \in [Jobs -> Seq(Job)]
        /\ \A i \in Jobs : \A k \in DOMAIN pending'[i] : Sound(pending'[i][k])
    <2> HIDE DEF n, next
    <2> QED BY <1>2, <1>3, SaveSound
  <1>5. PICK s \in {"running", "failed"} : tasks' = [tasks EXCEPT ![j] = [ts EXCEPT ![n] = s]]
    BY DEF RunAttempt
  <1>6. attempt' = [attempt EXCEPT ![j] = [as EXCEPT ![n] = "awaiting"]]
    BY DEF RunAttempt
  <1>7. /\ tasks \in [Jobs -> [Attempts -> TaskStatus]] /\ attempt \in [Jobs -> [Attempts -> Phase]]
        /\ jobs \in [Jobs -> Job \cup {NoJob}]
    BY DEF IInv, TypeOK
  <1>8. tasks' \in [Jobs -> [Attempts -> TaskStatus]] /\ attempt' \in [Jobs -> [Attempts -> Phase]]
    BY <1>1, <1>5, <1>6, <1>7 DEF TaskStatus, Phase
  <1>9. jobs'[j] = next /\ tasks'[j] = [ts EXCEPT ![n] = s] /\ attempt'[j] = [as EXCEPT ![n] = "awaiting"]
    BY <1>4, <1>5, <1>6, <1>7
  <1>10. job.attempts \in 0 .. MaxAttempts
    BY DEF Job
  <1>11. Busy(jobs'[j], tasks'[j], attempt'[j])
    <2>1. tasks'[j][n] = s /\ attempt'[j][n] = "awaiting"
      BY <1>1, <1>9
    <2>2. \A m \in Attempts : m # n => tasks'[j][m] = ts[m] /\ attempt'[j][m] = as[m]
      BY <1>9
    <2>3. \A m \in Attempts : m < n => m <= job.attempts
      BY <1>10, MaxAttemptsAssumption
    <2>4. \A m \in Attempts : m > n => m > job.attempts
      BY <1>10, MaxAttemptsAssumption
    <2>5. jobs'[j].attempts = n
      BY <1>1, <1>9
    <2>6. \A m \in Attempts : /\ m < n => m # n
                              /\ m > n => m # n
      BY <1>1
    <2> HIDE DEF n
    <2> QED BY <1>1, <2>1, <2>2, <2>3, <2>4, <2>5, <2>6 DEF Busy, Spent, IsOpen
  <1>12. Coherent(jobs'[j], tasks'[j], attempt'[j]) /\ Sound(jobs'[j])
    BY <1>1, <1>9, <1>11 DEF Coherent
  <1>13. \A i \in Jobs \ {j} : jobs'[i] = jobs[i] /\ tasks'[i] = tasks[i] /\ attempt'[i] = attempt[i]
    BY <1>4, <1>5, <1>6, <1>7
  <1> QED BY <1>4, <1>8, <1>12, <1>13 DEF Kept

\* A turn that ends a job, with its n-th task settled in `ts`, keeps it coherent.
LEMMA EndKeeps ==
  ASSUME IInv, NEW j \in Jobs, NEW n \in Attempts, NEW last \in Job, Sound(last), last.attempts = n,
         NEW saved, SoundSeq(saved),
         NEW ts \in [Attempts -> TaskStatus], NEW as \in [Attempts -> Phase],
         \/ last.status = "completed" /\ ts[n] = "completed"
         \/ last.status = "failed" /\ ts[n] = "failed" /\ last.attempts = last.maxAttempts,
         \A m \in Attempts : /\ ~IsOpen(as, m)
                             /\ m < n => ts[m] \in {"absent", "failed"}
                             /\ m > n => ts[m] = "absent" /\ as[m] = "none",
         Save(j, Append(saved, last)),
         tasks' = [tasks EXCEPT ![j] = ts], attempt' = [attempt EXCEPT ![j] = as]
  PROVE  Kept(j)
  <1>1. /\ tasks \in [Jobs -> [Attempts -> TaskStatus]] /\ attempt \in [Jobs -> [Attempts -> Phase]]
        /\ jobs \in [Jobs -> Job \cup {NoJob}]
    BY DEF IInv, TypeOK
  <1>2. SoundSeq(Append(saved, last)) /\ Len(Append(saved, last)) > 0
        /\ Append(saved, last)[Len(Append(saved, last))] = last
    BY SoundAppend
  <1>3. /\ jobs' = [jobs EXCEPT ![j] = last] /\ jobs' \in [Jobs -> Job \cup {NoJob}]
        /\ pending' \in [Jobs -> Seq(Job)]
        /\ \A i \in Jobs : \A k \in DOMAIN pending'[i] : Sound(pending'[i][k])
    BY <1>2, SaveSound
  <1>4. jobs'[j] = last /\ tasks'[j] = ts /\ attempt'[j] = as
    BY <1>1, <1>3
  <1>5. tasks' \in [Jobs -> [Attempts -> TaskStatus]] /\ attempt' \in [Jobs -> [Attempts -> Phase]]
    BY <1>1
  <1>6. Over(last, ts, as)
    <2>1. \A m \in Attempts : ts[m] # "running"
      <3> SUFFICES ASSUME NEW m \in Attempts PROVE ts[m] # "running"
        OBVIOUS
      <3>1. m < n \/ m > n \/ m = n
        BY MaxAttemptsAssumption
      <3> QED BY <3>1
    <2>2. last.attempts \in Attempts /\ last.status \in {"completed", "failed"}
      OBVIOUS
    <2> QED BY <2>1, <2>2 DEF Over
  <1>7. Coherent(jobs'[j], tasks'[j], attempt'[j]) /\ Sound(jobs'[j])
    BY <1>4, <1>6 DEF Coherent
  <1>8. \A i \in Jobs \ {j} : jobs'[i] = jobs[i] /\ tasks'[i] = tasks[i] /\ attempt'[i] = attempt[i]
    BY <1>1, <1>3
  <1> QED BY <1>3, <1>5, <1>7, <1>8 DEF Kept

\* A turn that ends a job's latest attempt keeps the job coherent: `job` is the
\* running job as the turn has left it so far, `ts` its tasks with the n-th settled.
LEMMA HandleTerminalKeeps ==
  ASSUME IInv, NEW j \in Jobs, NEW n \in Attempts,
         NEW job \in Job, Sound(job), job.status = "running", job.attempts = n, job.task = n,
         NEW saved, SoundSeq(saved),
         NEW ts \in [Attempts -> TaskStatus],
         \A m \in Attempts : /\ m < n => ts[m] \in {"absent", "failed"} /\ ~IsOpen(attempt[j], m)
                             /\ m > n => ts[m] = "absent" /\ attempt[j][m] = "none",
         HandleTerminal(j, n, job, saved, ts)
  PROVE  Kept(j)
  <1> DEFINE as == [attempt[j] EXCEPT ![n] = "over"]
             won  == [job EXCEPT !.status = "completed", !.result = n]
             lost == [job EXCEPT !.status = "failed"]
             End(last) == /\ Save(j, Append(saved, last))
                          /\ tasks' = [tasks EXCEPT ![j] = ts]
                          /\ attempt' = [attempt EXCEPT ![j] = as]
  <1>1. attempt \in [Jobs -> [Attempts -> Phase]]
    BY DEF IInv, TypeOK
  <1>2. as \in [Attempts -> Phase] /\ as[n] = "over" /\ \A m \in Attempts : m # n => as[m] = attempt[j][m]
    BY <1>1 DEF Phase
  <1>3. \A m \in Attempts : /\ ~IsOpen(as, m)
                            /\ m < n => ts[m] \in {"absent", "failed"}
                            /\ m > n => ts[m] = "absent" /\ as[m] = "none"
    BY <1>2 DEF IsOpen
  <1>4. /\ won \in Job /\ Sound(won) /\ won.status = "completed" /\ won.attempts = n
        /\ lost \in Job /\ Sound(lost) /\ lost.status = "failed" /\ lost.attempts = n
        /\ lost.maxAttempts = job.maxAttempts
    <2>1. won \in Job /\ lost \in Job
      BY MaxAttemptsAssumption, JobUpdate
    <2>2. /\ won.status = "completed" /\ won.attempts = n /\ won.result = n /\ won.task = n
          /\ won.maxAttempts = job.maxAttempts
      BY DEF Job
    <2>3. lost.status = "failed" /\ lost.attempts = n /\ lost.maxAttempts = job.maxAttempts
      BY DEF Job
    <2> HIDE DEF won, lost
    <2> QED BY <2>1, <2>2, <2>3 DEF Sound
  <1>5. CASE ts[n] = "completed" /\ End(won)
    <2>1. Save(j, Append(saved, won)) /\ tasks' = [tasks EXCEPT ![j] = ts] /\ attempt' = [attempt EXCEPT ![j] = as]
      BY <1>5
    <2> HIDE DEF as, won
    <2> QED BY <1>2, <1>3, <1>4, <1>5, <2>1, EndKeeps
  <1>6. CASE ts[n] = "failed" /\ job.attempts < job.maxAttempts /\ RunAttempt(j, job, saved, ts, as)
    <2>1. Spent(job, ts, as)
      BY <1>3, <1>6 DEF Spent
    <2> HIDE DEF as
    <2> QED BY <1>2, <1>6, <2>1, RunAttemptKeeps
  <1>7. CASE ts[n] = "failed" /\ job.attempts >= job.maxAttempts /\ End(lost)
    <2>1. Save(j, Append(saved, lost)) /\ tasks' = [tasks EXCEPT ![j] = ts] /\ attempt' = [attempt EXCEPT ![j] = as]
      BY <1>7
    <2>2. job.attempts \in Nat /\ job.maxAttempts \in Nat /\ job.attempts <= job.maxAttempts
      BY MaxAttemptsAssumption DEF Job, Sound
    <2>3. lost.attempts = lost.maxAttempts
      BY <1>4, <1>7, <2>2
    <2> HIDE DEF as, lost
    <2> QED BY <1>2, <1>3, <1>4, <1>7, <2>1, <2>3, EndKeeps
  <1> QED BY <1>5, <1>6, <1>7 DEF HandleTerminal
-----------------------------------------------------------------------------
\* Who has an open attempt, or a running task, is a running job on that attempt.
LEMMA OpenIsLatest ==
  ASSUME IInv, NEW j \in Jobs, NEW n \in Attempts,
         IsOpen(attempt[j], n) \/ tasks[j][n] = "running"
  PROVE  /\ jobs[j].status = "running" /\ jobs[j].attempts = n /\ jobs[j] \in Job
         /\ Busy(jobs[j], tasks[j], attempt[j])
  <1>1. Coherent(jobs[j], tasks[j], attempt[j])
    BY DEF IInv
  <1>2. jobs[j].status = "running" /\ Busy(jobs[j], tasks[j], attempt[j])
    BY <1>1 DEF Coherent, Over
  <1>3. jobs[j].attempts \in Attempts
    BY <1>2 DEF Busy
  <1>4. n < jobs[j].attempts \/ n > jobs[j].attempts \/ n = jobs[j].attempts
    BY <1>3, MaxAttemptsAssumption
  <1>5. jobs[j].attempts = n
    BY <1>2, <1>4 DEF Busy, IsOpen
  <1>6. jobs[j] \in Job
    BY <1>2 DEF IInv, TypeOK, NoJob
  <1> QED BY <1>2, <1>5, <1>6

LEMMA SubmitKeeps ==
  ASSUME IInv, NEW j \in Jobs, NEW max \in Attempts, Submit(j, max)
  PROVE  IInv'
  <1> DEFINE queued == [status |-> "queued", attempts |-> 0, maxAttempts |-> max, task |-> 0, result |-> 0]
  <1>1. queued \in Job /\ Sound(queued) /\ queued.attempts = 0 /\ queued.attempts < queued.maxAttempts
    <2>1. 0 \in 0 .. MaxAttempts /\ 0 < max
      BY MaxAttemptsAssumption
    <2> QED BY <2>1 DEF Job, Sound, InFlight
  <1>2. SoundSeq(<<queued>>)
    <2> HIDE DEF queued
    <2> QED BY <1>1 DEF SoundSeq
  <1>3. RunAttempt(j, queued, <<queued>>, tasks[j], attempt[j]) /\ up /\ jobs[j] = NoJob
    BY DEF Submit
  <1>4. tasks[j] \in [Attempts -> TaskStatus] /\ attempt[j] \in [Attempts -> Phase]
    BY DEF IInv, TypeOK
  <1>5. Spent(queued, tasks[j], attempt[j])
    <2>1. Over(NoJob, tasks[j], attempt[j])
      BY <1>3 DEF IInv, Coherent, NoJob
    <2>2. NoJob.attempts = 0
      BY DEF NoJob
    <2>3. \A n \in Attempts : n > 0 /\ ~(n <= 0)
      BY MaxAttemptsAssumption
    <2> HIDE DEF queued
    <2> QED BY <1>1, <2>1, <2>2, <2>3 DEF Over, Spent
  <1>6. Kept(j)
    <2> HIDE DEF queued
    <2> QED BY <1>1, <1>2, <1>3, <1>4, <1>5, RunAttemptKeeps
  <1> QED BY <1>3, <1>6, KeptKeepsIInv DEF Submit

LEMMA AwaitReturnsKeeps ==
  ASSUME IInv, NEW j \in Jobs, NEW n \in Attempts, AwaitReturns(j, n)
  PROVE  IInv'
  <1> DEFINE job == [jobs[j] EXCEPT !.task = n]
  <1>1. up /\ attempt[j][n] = "awaiting" /\ UNCHANGED <<up, disk, dropped>>
    BY DEF AwaitReturns
  <1>2. /\ jobs[j].status = "running" /\ jobs[j].attempts = n /\ jobs[j] \in Job
        /\ Busy(jobs[j], tasks[j], attempt[j]) /\ Sound(jobs[j])
    BY <1>1, OpenIsLatest DEF IsOpen, IInv
  <1>3. /\ job \in Job /\ Sound(job) /\ job.status = "running" /\ job.attempts = n /\ job.task = n
    <2>1. job \in Job
      BY <1>2, JobUpdate
    <2>2. /\ job.status = jobs[j].status /\ job.attempts = jobs[j].attempts
          /\ job.maxAttempts = jobs[j].maxAttempts /\ job.task = n
      BY <1>2 DEF Job
    <2> HIDE DEF job
    <2> QED BY <1>2, <2>1, <2>2 DEF Sound
  <1>4. SoundSeq(<<job>>) /\ Len(<<job>>) > 0 /\ <<job>>[Len(<<job>>)] = job
    <2> HIDE DEF job
    <2> QED BY <1>3 DEF SoundSeq
  <1>5. /\ tasks \in [Jobs -> [Attempts -> TaskStatus]] /\ attempt \in [Jobs -> [Attempts -> Phase]]
        /\ jobs \in [Jobs -> Job \cup {NoJob}]
    BY DEF IInv, TypeOK
  <1>6. CASE tasks[j][n] \in Settled /\ HandleTerminal(j, n, job, <<job>>, tasks[j])
    <2>1. \A m \in Attempts :
            /\ m < n => tasks[j][m] \in {"absent", "failed"} /\ ~IsOpen(attempt[j], m)
            /\ m > n => tasks[j][m] = "absent" /\ attempt[j][m] = "none"
      BY <1>2 DEF Busy
    <2>2. Kept(j)
      <3> DEFINE saved == <<job>>
                 ts == tasks[j]
      <3>1. SoundSeq(saved) /\ ts \in [Attempts -> TaskStatus] /\ HandleTerminal(j, n, job, saved, ts)
        BY <1>4, <1>5, <1>6
      <3>2. \A m \in Attempts :
              /\ m < n => ts[m] \in {"absent", "failed"} /\ ~IsOpen(attempt[j], m)
              /\ m > n => ts[m] = "absent" /\ attempt[j][m] = "none"
        BY <2>1
      <3> HIDE DEF job, saved, ts
      <3> QED BY <1>3, <3>1, <3>2, HandleTerminalKeeps
    <2> QED BY <1>1, <2>2, KeptKeepsIInv
  <1>7. CASE /\ tasks[j][n] \notin Settled /\ Save(j, <<job>>)
             /\ attempt' = [attempt EXCEPT ![j][n] = "listening"] /\ UNCHANGED tasks
    <2>1. tasks[j][n] = "running"
      <3>1. tasks[j][n] # "absent"
        BY <1>2 DEF Busy
      <3>2. tasks[j][n] \in TaskStatus
        BY <1>5
      <3> QED BY <1>7, <3>1, <3>2 DEF TaskStatus, Settled
    <2>2. /\ jobs' = [jobs EXCEPT ![j] = job] /\ jobs' \in [Jobs -> Job \cup {NoJob}]
          /\ pending' \in [Jobs -> Seq(Job)]
          /\ \A i \in Jobs : \A k \in DOMAIN pending'[i] : Sound(pending'[i][k])
      <3> HIDE DEF job
      <3> QED BY <1>4, <1>7, SaveSound
    <2>3. /\ jobs'[j] = job /\ tasks' = tasks /\ attempt'[j][n] = "listening"
          /\ \A m \in Attempts : m # n => attempt'[j][m] = attempt[j][m]
          /\ attempt' \in [Jobs -> [Attempts -> Phase]]
      BY <1>5, <1>7, <2>2 DEF Phase
    <2>4. Busy(jobs'[j], tasks'[j], attempt'[j])
      <3>1. jobs'[j].attempts = n /\ jobs'[j].task = n
        BY <1>3, <2>3
      <3>2. \A m \in Attempts : m < n => tasks[j][m] \in {"absent", "failed"} /\ ~IsOpen(attempt[j], m)
        BY <1>2 DEF Busy
      <3>3. \A m \in Attempts : m > n => tasks[j][m] = "absent" /\ attempt[j][m] = "none"
        BY <1>2 DEF Busy
      <3>4. \A m \in Attempts : (m < n \/ m > n) => m # n
        BY MaxAttemptsAssumption
      <3> HIDE DEF job
      <3> QED BY <2>1, <2>3, <3>1, <3>2, <3>3, <3>4 DEF Busy, IsOpen
    <2>5. Coherent(jobs'[j], tasks'[j], attempt'[j]) /\ Sound(jobs'[j])
      <3> HIDE DEF job
      <3> QED BY <1>3, <2>3, <2>4 DEF Coherent
    <2>6. \A i \in Jobs \ {j} : jobs'[i] = jobs[i] /\ tasks'[i] = tasks[i] /\ attempt'[i] = attempt[i]
      BY <1>5, <1>7, <2>2
    <2>7. Kept(j)
      <3> HIDE DEF job
      <3> QED BY <1>5, <2>2, <2>3, <2>5, <2>6 DEF Kept
    <2> QED BY <1>1, <2>7, KeptKeepsIInv
  <1> QED BY <1>6, <1>7 DEF AwaitReturns

LEMMA HandlerReturnsKeeps ==
  ASSUME IInv, NEW j \in Jobs, NEW n \in Attempts, HandlerReturns(j, n)
  PROVE  IInv'
  <1>1. up /\ tasks[j][n] = "running" /\ UNCHANGED <<up, disk, dropped>>
    BY DEF HandlerReturns
  <1>2. /\ jobs[j].status = "running" /\ jobs[j].attempts = n /\ jobs[j] \in Job
        /\ Busy(jobs[j], tasks[j], attempt[j]) /\ Sound(jobs[j])
    BY <1>1, OpenIsLatest DEF IInv
  <1>3. /\ tasks \in [Jobs -> [Attempts -> TaskStatus]] /\ attempt \in [Jobs -> [Attempts -> Phase]]
        /\ jobs \in [Jobs -> Job \cup {NoJob}] /\ pending \in [Jobs -> Seq(Job)]
    BY DEF IInv, TypeOK
  <1>4. PICK outcome \in Settled :
          \/ /\ attempt[j][n] = "listening"
             /\ HandleTerminal(j, n, jobs[j], <<>>, [tasks[j] EXCEPT ![n] = outcome])
          \/ /\ attempt[j][n] # "listening"
             /\ tasks' = [tasks EXCEPT ![j] = [tasks[j] EXCEPT ![n] = outcome]]
             /\ UNCHANGED <<jobs, attempt, pending>>
    BY DEF HandlerReturns
  <1> DEFINE ts == [tasks[j] EXCEPT ![n] = outcome]
  <1>5. /\ ts \in [Attempts -> TaskStatus] /\ ts[n] = outcome
        /\ \A m \in Attempts : m # n => ts[m] = tasks[j][m]
    BY <1>3 DEF Settled, TaskStatus
  <1>6. \A m \in Attempts :
          /\ m < n => ts[m] \in {"absent", "failed"} /\ ~IsOpen(attempt[j], m)
          /\ m > n => ts[m] = "absent" /\ attempt[j][m] = "none"
    <2>1. \A m \in Attempts :
            /\ m < n => tasks[j][m] \in {"absent", "failed"} /\ ~IsOpen(attempt[j], m)
            /\ m > n => tasks[j][m] = "absent" /\ attempt[j][m] = "none"
      BY <1>2 DEF Busy
    <2>2. \A m \in Attempts : (m < n \/ m > n) => m # n
      BY MaxAttemptsAssumption
    <2> HIDE DEF ts
    <2> QED BY <1>5, <2>1, <2>2
  <1>7. CASE attempt[j][n] = "listening" /\ HandleTerminal(j, n, jobs[j], <<>>, ts)
    <2>1. jobs[j].task = n
      BY <1>2, <1>7 DEF Busy
    <2>2. SoundSeq(<<>>)
      BY DEF SoundSeq
    <2>3. Kept(j)
      <3> HIDE DEF ts
      <3> QED BY <1>2, <1>5, <1>6, <1>7, <2>1, <2>2, HandleTerminalKeeps
    <2> QED BY <1>1, <2>3, KeptKeepsIInv
  <1>8. CASE attempt[j][n] # "listening" /\ tasks' = [tasks EXCEPT ![j] = ts] /\ UNCHANGED <<jobs, attempt, pending>>
    <2>1. tasks'[j] = ts /\ tasks' \in [Jobs -> [Attempts -> TaskStatus]]
      BY <1>3, <1>5, <1>8
    <2>2. ts[n] # "absent"
      BY <1>5 DEF Settled
    <2>3. Busy(jobs[j], ts, attempt[j])
      <3> HIDE DEF ts
      <3> QED BY <1>2, <1>6, <1>8, <2>2 DEF Busy
    <2>4. Coherent(jobs'[j], tasks'[j], attempt'[j]) /\ Sound(jobs'[j])
      <3> HIDE DEF ts
      <3> QED BY <1>2, <1>8, <2>1, <2>3 DEF Coherent
    <2>5. \A i \in Jobs \ {j} : jobs'[i] = jobs[i] /\ tasks'[i] = tasks[i] /\ attempt'[i] = attempt[i]
      BY <1>3, <1>8
    <2>6. \A i \in Jobs : \A k \in DOMAIN pending'[i] : Sound(pending'[i][k])
      BY <1>8 DEF IInv
    <2>7. Kept(j)
      BY <1>3, <1>8, <2>1, <2>4, <2>5, <2>6 DEF Kept
    <2> QED BY <1>1, <2>7, KeptKeepsIInv
  <1> QED BY <1>4, <1>7, <1>8
\* Taking a write out of a queue leaves sound snapshots.
LEMMA WithoutWriteSound ==
  ASSUME IInv, NEW j \in Jobs, NEW k \in NextWrites(j), pending' = WithoutWrite(j, k)
  PROVE  /\ pending[j][k] \in Job /\ Sound(pending[j][k])
         /\ pending' \in [Jobs -> Seq(Job)]
         /\ \A i \in Jobs : \A m \in DOMAIN pending'[i] : Sound(pending'[i][m])
  <1> DEFINE q == pending[j]
             rest == SubSeq(q, 1, k - 1) \o SubSeq(q, k + 1, Len(q))
  <1>1. pending \in [Jobs -> Seq(Job)] /\ q \in Seq(Job) /\ k \in DOMAIN q /\ k \in 1 .. Len(q)
    BY DEF IInv, TypeOK, NextWrites
  <1>2. \A m \in DOMAIN q : q[m] \in Job /\ Sound(q[m])
    BY <1>1 DEF IInv
  <1>3. /\ rest \in Seq(Job)
        /\ \A m \in DOMAIN rest : Sound(rest[m])
    <2> DEFINE front == SubSeq(q, 1, k - 1)
               back == SubSeq(q, k + 1, Len(q))
    <2> HIDE DEF q
    <2>1. /\ front \in Seq(Job) /\ Len(front) = k - 1
          /\ \A m \in 1 .. k - 1 : front[m] = q[m]
      BY <1>1
    <2>2. /\ back \in Seq(Job) /\ Len(back) = Len(q) - k
          /\ \A m \in 1 .. Len(q) - k : back[m] = q[m + k]
      BY <1>1
    <2>a. rest = front \o back
      OBVIOUS
    <2> HIDE DEF front, back, rest
    <2>b. Len(q) \in Nat /\ k - 1 \in Nat /\ Len(q) - k \in Nat
      BY <1>1
    <2>3. rest \in Seq(Job) /\ Len(rest) = Len(q) - 1
      BY <1>1, <2>1, <2>2, <2>a, <2>b
    <2>4. \A m \in DOMAIN rest : rest[m] = IF m <= k - 1 THEN front[m] ELSE back[m - (k - 1)]
      BY <1>1, <2>1, <2>2, <2>a, <2>b
    <2>5. ASSUME NEW m \in DOMAIN rest PROVE Sound(rest[m])
      <3>1. m \in 1 .. Len(q) - 1
        BY <2>3
      <3>2. CASE m <= k - 1
        <4>1. rest[m] = q[m] /\ m \in DOMAIN q
          BY <1>1, <2>1, <2>4, <3>1, <3>2
        <4> QED BY <1>2, <4>1
      <3>3. CASE m > k - 1
        <4>1. rest[m] = back[m - (k - 1)]
          BY <1>1, <2>4, <3>1, <3>3
        <4>2. m - (k - 1) \in 1 .. Len(q) - k /\ (m - (k - 1)) + k = m + 1 /\ m + 1 \in 1 .. Len(q)
          BY <1>1, <3>1, <3>3
        <4>3. back[m - (k - 1)] = q[m + 1]
          BY <2>2, <4>2
        <4>4. m + 1 \in DOMAIN q
          BY <1>1, <4>2
        <4> QED BY <1>2, <4>1, <4>3, <4>4
      <3> QED BY <1>1, <3>1, <3>2, <3>3
    <2> QED BY <2>3, <2>5
  <1>4. pending' = [pending EXCEPT ![j] = rest]
    BY DEF WithoutWrite
  <1> HIDE DEF rest
  <1>5. pending' \in [Jobs -> Seq(Job)]
    BY <1>1, <1>3, <1>4
  <1>6. \A i \in Jobs : \A m \in DOMAIN pending'[i] : Sound(pending'[i][m])
    BY <1>1, <1>3, <1>4 DEF IInv
  <1> QED BY <1>1, <1>2, <1>5, <1>6

LEMMA PersistKeeps ==
  ASSUME IInv, NEW j \in Jobs, PersistJob(j) \/ PersistFails(j)
  PROVE  IInv'
  <1>1. /\ up /\ UNCHANGED <<up, jobs, tasks, attempt>>
        /\ dropped' \in SUBSET Jobs
    BY DEF PersistJob, PersistFails, IInv, TypeOK
  <1>2. PICK k \in NextWrites(j) :
          /\ pending' = WithoutWrite(j, k)
          /\ disk' = disk \/ disk' = [disk EXCEPT ![j] = pending[j][k]]
    BY DEF PersistJob, PersistFails
  <1>3. /\ pending[j][k] \in Job /\ Sound(pending[j][k])
        /\ pending' \in [Jobs -> Seq(Job)]
        /\ \A i \in Jobs : \A m \in DOMAIN pending'[i] : Sound(pending'[i][m])
    BY <1>2, WithoutWriteSound
  <1>4. disk' \in [Jobs -> Job \cup {NoJob}] /\ \A i \in Jobs : Sound(disk'[i])
    BY <1>2, <1>3 DEF IInv, TypeOK
  <1>5. TypeOK'
    BY <1>1, <1>3, <1>4 DEF IInv, TypeOK
  <1>6. \A i \in Jobs : Coherent(jobs[i], tasks[i], attempt[i])' /\ Sound(jobs[i])' /\ Sound(disk[i])'
    BY <1>1, <1>4 DEF IInv, Coherent, Busy, Over, IsOpen, Sound
  <1> QED BY <1>1, <1>3, <1>5, <1>6 DEF IInv

\* A job with nothing behind it in memory: as submitted-never, or as hydrated.
LEMMA AtRest ==
  ASSUME NEW job \in Job \cup {NoJob}, job.status \notin InFlight
  PROVE  Coherent(job, NoTasks, NoAttempts)
  <1>1. \A n \in Attempts : NoTasks[n] = "absent" /\ NoAttempts[n] = "none"
    BY DEF NoTasks, NoAttempts
  <1> QED BY <1>1 DEF Coherent, Over, IsOpen, InFlight

LEMMA RestTypes ==
  /\ NoTasks \in [Attempts -> TaskStatus] /\ NoAttempts \in [Attempts -> Phase]
  /\ NoJob.status \notin InFlight /\ Sound(NoJob)
  BY DEF NoTasks, NoAttempts, NoJob, TaskStatus, Phase, InFlight, Sound

LEMMA InitIInv == Init => IInv
  <1> SUFFICES ASSUME Init PROVE IInv
    OBVIOUS
  <1>1. TypeOK
    BY RestTypes DEF Init, TypeOK
  <1>2. \A j \in Jobs : Coherent(jobs[j], tasks[j], attempt[j]) /\ Sound(jobs[j]) /\ Sound(disk[j])
    BY AtRest, RestTypes DEF Init
  <1> QED BY <1>1, <1>2 DEF Init, IInv

LEMMA CrashKeeps ==
  ASSUME IInv, Crash
  PROVE  IInv'
  <1>1. /\ \A j \in Jobs : /\ jobs'[j] = NoJob /\ tasks'[j] = NoTasks
                           /\ attempt'[j] = NoAttempts /\ pending'[j] = <<>>
        /\ UNCHANGED <<disk, dropped>> /\ up' = FALSE
    BY DEF Crash
  <1>2. TypeOK'
    <2>1. jobs' \in [Jobs -> Job \cup {NoJob}] /\ pending' \in [Jobs -> Seq(Job)]
      BY DEF Crash
    <2>2. tasks' \in [Jobs -> [Attempts -> TaskStatus]] /\ attempt' \in [Jobs -> [Attempts -> Phase]]
      BY RestTypes DEF Crash
    <2> QED BY <1>1, <2>1, <2>2 DEF IInv, TypeOK
  <1>3. \A j \in Jobs : /\ Coherent(jobs'[j], tasks'[j], attempt'[j])
                        /\ Sound(jobs'[j]) /\ Sound(disk'[j])
                        /\ \A k \in DOMAIN pending'[j] : Sound(pending'[j][k])
    BY <1>1, AtRest, RestTypes DEF IInv
  <1> QED BY <1>1, <1>2, <1>3 DEF IInv, Coherent, Busy, Over, IsOpen, Sound

\* What the hydration correction makes of a stored record.
LEMMA CorrectedSound ==
  ASSUME NEW job \in Job \cup {NoJob}, Sound(job)
  PROVE  /\ Corrected(job) \in Job \cup {NoJob} /\ Sound(Corrected(job))
         /\ Corrected(job).status \notin InFlight
         /\ job.status \in InFlight => Corrected(job) \in Job
  <1>1. CASE job.status \in InFlight
    <2> DEFINE fixed == [job EXCEPT !.status = "failed"]
    <2>1. job \in Job
      BY <1>1, RestTypes
    <2>2. fixed \in Job
      BY <2>1 DEF Job, Settled
    <2>3. /\ fixed.status = "failed" /\ fixed.attempts = job.attempts
          /\ fixed.maxAttempts = job.maxAttempts
      BY <2>1 DEF Job
    <2>4. Corrected(job) = fixed
      BY <1>1 DEF Corrected
    <2> HIDE DEF fixed
    <2> QED BY <2>2, <2>3, <2>4 DEF Sound, InFlight
  <1>2. CASE job.status \notin InFlight
    BY <1>2 DEF Corrected
  <1> QED BY <1>1, <1>2

LEMMA HydrateKeeps ==
  ASSUME IInv, Hydrate \/ HydrateFails
  PROVE  IInv'
  <1>1. /\ up' = TRUE /\ disk' = disk /\ dropped' \in SUBSET Jobs
        /\ tasks' = tasks /\ attempt' = attempt
        /\ \A j \in Jobs : tasks[j] = NoTasks /\ attempt[j] = NoAttempts
    BY DEF Hydrate, HydrateFails, IInv
  <1>2. \A j \in Jobs : /\ Corrected(disk[j]) \in Job \cup {NoJob} /\ Sound(Corrected(disk[j]))
                        /\ Corrected(disk[j]).status \notin InFlight
                        /\ disk[j].status \in InFlight => Corrected(disk[j]) \in Job
    BY CorrectedSound DEF IInv, TypeOK
  <1>3. /\ jobs' \in [Jobs -> Job \cup {NoJob}] /\ pending' \in [Jobs -> Seq(Job)]
        /\ \A j \in Jobs : /\ Sound(jobs'[j]) /\ jobs'[j].status \notin InFlight
                           /\ \A k \in DOMAIN pending'[j] : Sound(pending'[j][k])
    <2>1. CASE Hydrate
      <3>1. /\ jobs' = [j \in Jobs |-> Corrected(disk[j])]
            /\ pending' = [j \in Jobs |-> IF disk[j].status \in InFlight
                                          THEN <<Corrected(disk[j])>> ELSE <<>>]
        BY <2>1 DEF Hydrate
      <3>2. jobs' \in [Jobs -> Job \cup {NoJob}] /\ pending' \in [Jobs -> Seq(Job)]
        BY <1>2, <3>1
      <3> QED BY <1>2, <3>1, <3>2
    <2>2. CASE HydrateFails
      BY <2>2, RestTypes DEF HydrateFails, IInv, TypeOK
    <2> QED BY <2>1, <2>2
  <1>4. \A j \in Jobs : Coherent(jobs'[j], tasks'[j], attempt'[j])
    BY <1>1, <1>3, AtRest
  <1>5. TypeOK'
    BY <1>1, <1>3 DEF IInv, TypeOK
  <1>6. \A j \in Jobs : Sound(disk'[j])
    BY <1>1 DEF IInv
  <1> QED BY <1>1, <1>3, <1>4, <1>5, <1>6 DEF IInv, Coherent, Busy, Over, IsOpen, Sound

\* Every step of the engine keeps the invariant.
LEMMA NextKeepsIInv == IInv /\ [Next]_vars => IInv'
  <1> SUFFICES ASSUME IInv, [Next]_vars PROVE IInv'
    OBVIOUS
  <1>1. ASSUME NEW j \in Jobs, NEW max \in Attempts, Submit(j, max) PROVE IInv'
    BY <1>1, SubmitKeeps
  <1>2. ASSUME NEW j \in Jobs, NEW n \in Attempts, AwaitReturns(j, n) PROVE IInv'
    BY <1>2, AwaitReturnsKeeps
  <1>3. ASSUME NEW j \in Jobs, NEW n \in Attempts, HandlerReturns(j, n) PROVE IInv'
    BY <1>3, HandlerReturnsKeeps
  <1>4. ASSUME NEW j \in Jobs, PersistJob(j) \/ PersistFails(j) PROVE IInv'
    BY <1>4, PersistKeeps
  <1>5. CASE Crash
    BY <1>5, CrashKeeps
  <1>6. CASE Hydrate \/ HydrateFails
    BY <1>6, HydrateKeeps
  <1>7. CASE UNCHANGED vars
    BY <1>7 DEF vars, IInv, TypeOK, Coherent, Busy, Over, IsOpen, Sound
  <1> QED BY <1>1, <1>2, <1>3, <1>4, <1>5, <1>6, <1>7 DEF Next, JobStep

LEMMA InductiveInvariant == Spec => []IInv
  BY InitIInv, NextKeepsIInv, PTL DEF Spec

-----------------------------------------------------------------------------
\* Every variable keeps its type: in particular no job ever counts more
\* attempts than the bound it may be submitted with (job-engine.ts).
THEOREM TypeCorrect == Spec => []TypeOK
  <1>1. IInv => TypeOK
    BY DEF IInv
  <1> QED BY <1>1, InductiveInvariant, PTL

\* A job runs its attempts one at a time (runAttempt, handleTerminal).
THEOREM AttemptsOneAtATime == Spec => []OneOpenAttempt
  <1>1. IInv => OneOpenAttempt
    <2> SUFFICES ASSUME IInv, NEW j \in Jobs
                 PROVE  Open(j) = IF jobs[j].status = "running" THEN {jobs[j].attempts} ELSE {}
      BY DEF OneOpenAttempt
    <2>1. \A n \in Open(j) : jobs[j].status = "running" /\ n = jobs[j].attempts
      BY OpenIsLatest DEF Open, IsOpen
    <2>2. jobs[j].status = "running" => jobs[j].attempts \in Open(j)
      BY DEF IInv, Coherent, Busy, Open, IsOpen
    <2> QED BY <2>1, <2>2
  <1> QED BY <1>1, InductiveInvariant, PTL

\* No wakeup is lost between reading a task and subscribing to it.
THEOREM NoLostWakeup == Spec => []ListensInTime
  <1>1. IInv => ListensInTime
    <2> SUFFICES ASSUME IInv, NEW j \in Jobs, NEW n \in Attempts, attempt[j][n] = "listening"
                 PROVE  tasks[j][n] = "running"
      BY DEF ListensInTime
    <2>1. Busy(jobs[j], tasks[j], attempt[j]) /\ jobs[j].attempts = n
      BY OpenIsLatest DEF IsOpen
    <2> QED BY <2>1 DEF Busy
  <1> QED BY <1>1, InductiveInvariant, PTL

\* An agent only works for a running job, on its latest attempt.
THEOREM NoAgentOutlivesItsJob == Spec => []NoStrayTask
  <1>1. IInv => NoStrayTask
    BY OpenIsLatest DEF NoStrayTask
  <1> QED BY <1>1, InductiveInvariant, PTL

\* A job, its attempts, their tasks and the agents at work keep in step.
THEOREM AttemptsKeepInStep == Spec => []AttemptsInStep
  <1>1. OneOpenAttempt /\ ListensInTime /\ NoStrayTask => AttemptsInStep
    BY DEF AttemptsInStep
  <1> QED BY <1>1, AttemptsOneAtATime, NoLostWakeup, NoAgentOutlivesItsJob, PTL

\* A job's outcome is what its tasks say.
THEOREM OutcomeIsEarned == Spec => []OutcomeEarned
  <1>1. IInv => OutcomeEarned
    <2> SUFFICES ASSUME IInv PROVE OutcomeEarned
      OBVIOUS
    <2>1. ASSUME NEW j \in Jobs
          PROVE  /\ \A n \in Attempts : n < jobs[j].attempts => tasks[j][n] \in {"absent", "failed"}
                 /\ \A n \in Attempts : n > jobs[j].attempts => tasks[j][n] = "absent"
      BY DEF IInv, Coherent, Busy, Over
    <2>2. ASSUME NEW j \in Jobs, jobs[j].status = "completed"
          PROVE  /\ jobs[j].result = jobs[j].attempts /\ jobs[j].task = jobs[j].attempts
                 /\ tasks[j][jobs[j].attempts] \in {"absent", "completed"}
      <3>1. Coherent(jobs[j], tasks[j], attempt[j]) /\ Sound(jobs[j])
        BY DEF IInv
      <3> QED BY <2>2, <3>1 DEF Coherent, Over, Sound
    <2>3. ASSUME NEW j \in Jobs, jobs[j].status = "failed", tasks[j] # NoTasks
          PROVE  jobs[j].attempts = jobs[j].maxAttempts /\ tasks[j][jobs[j].attempts] \in {"absent", "failed"}
      <3>1. Over(jobs[j], tasks[j], attempt[j])
        BY <2>3 DEF IInv, Coherent
      <3>2. jobs[j] \in Job /\ tasks[j] \in [Attempts -> TaskStatus]
        BY <2>3 DEF IInv, TypeOK, NoJob
      <3>3. ~ \A n \in Attempts : tasks[j][n] = "absent"
        BY <2>3, <3>2 DEF NoTasks
      <3>4. jobs[j].attempts = jobs[j].maxAttempts
        BY <2>3, <3>1, <3>3 DEF Over
      <3>5. jobs[j].attempts \in Attempts
        BY <3>2, <3>4 DEF Job
      <3> QED BY <2>3, <3>1, <3>4, <3>5 DEF Over
    <2>4. \A j \in Jobs : jobs[j].attempts <= jobs[j].maxAttempts
      BY DEF IInv, Sound
    <2> QED BY <2>1, <2>2, <2>3, <2>4 DEF OutcomeEarned
  <1> QED BY <1>1, InductiveInvariant, PTL
\* A turn of a job saves that job alone.
LEMMA SavesOnlyItsJob ==
  ASSUME IInv, NEW i \in Jobs, NEW n, NEW job, NEW saved, NEW ts, NEW as,
         HandleTerminal(i, n, job, saved, ts) \/ RunAttempt(i, job, saved, ts, as)
  PROVE  \A j \in Jobs \ {i} : jobs'[j] = jobs[j]
  <1>1. PICK last : jobs' = [jobs EXCEPT ![i] = last]
    BY DEF HandleTerminal, RunAttempt, Save
  <1> QED BY <1>1 DEF IInv, TypeOK

\* A settled job is final while the process lives.
THEOREM SettledIsFinal == Spec => SettledForGood
  <1> DEFINE Final == \A j \in Jobs : up /\ up' /\ jobs[j].status \in Settled => jobs'[j] = jobs[j]
  <1>1. IInv /\ [Next]_vars => Final
    <2> SUFFICES ASSUME IInv, [Next]_vars, NEW j \in Jobs, up, up', jobs[j].status \in Settled
                 PROVE  jobs'[j] = jobs[j]
      OBVIOUS
    <2>1. ASSUME NEW i \in Jobs, NEW max \in Attempts, Submit(i, max)
          PROVE  jobs'[j] = jobs[j]
      <3>1. i # j
        BY <2>1 DEF Submit, NoJob, Settled
      <3>2. \A k \in Jobs \ {i} : jobs'[k] = jobs[k]
        BY <2>1, SavesOnlyItsJob DEF Submit
      <3> QED BY <3>1, <3>2
    <2>2. ASSUME NEW i \in Jobs, NEW n \in Attempts, AwaitReturns(i, n)
          PROVE  jobs'[j] = jobs[j]
      <3>1. i # j
        BY <2>2, OpenIsLatest DEF AwaitReturns, IsOpen, Settled
      <3>2. CASE HandleTerminal(i, n, [jobs[i] EXCEPT !.task = n], <<[jobs[i] EXCEPT !.task = n]>>, tasks[i])
        BY <3>1, <3>2, SavesOnlyItsJob
      <3>3. CASE Save(i, <<[jobs[i] EXCEPT !.task = n]>>)
        BY <3>1, <3>3 DEF Save, IInv, TypeOK
      <3> QED BY <2>2, <3>2, <3>3 DEF AwaitReturns
    <2>3. ASSUME NEW i \in Jobs, NEW n \in Attempts, HandlerReturns(i, n)
          PROVE  jobs'[j] = jobs[j]
      <3>1. i # j
        BY <2>3, OpenIsLatest DEF HandlerReturns, Settled
      <3>2. (\E ts : HandleTerminal(i, n, jobs[i], <<>>, ts)) \/ UNCHANGED jobs
        BY <2>3 DEF HandlerReturns
      <3> QED BY <3>1, <3>2, SavesOnlyItsJob
    <2>4. CASE \E i \in Jobs : PersistJob(i) \/ PersistFails(i)
      BY <2>4 DEF PersistJob, PersistFails
    <2>5. CASE Crash \/ Hydrate \/ HydrateFails
      BY <2>5 DEF Crash, Hydrate, HydrateFails
    <2>6. CASE UNCHANGED vars
      BY <2>6 DEF vars
    <2> QED BY <2>1, <2>2, <2>3, <2>4, <2>5, <2>6 DEF Next, JobStep
  <1>2. IInv /\ [Next]_vars => [Final]_vars
    BY <1>1
  <1> QED BY <1>2, InductiveInvariant, PTL DEF Spec, SettledForGood

-----------------------------------------------------------------------------
(* What becomes of a job's snapshots with local storage, whose lock applies  *)
(* them in order: storage ends up with the latest one, and every step of the *)
(* Job Engine is a step or a stutter of JobSpec.  Both rest on how a job, its*)
(* unwritten snapshots and its record lie on one trail (Trail).              *)

\* A queue of snapshots ends with the job as it is now, and all before that are
\* of a job in flight; storage has an outcome only when nothing is to be written
\* any more; and it has the job as it is now if no write failed.
OnTrail(job, queue, record, failed) ==
  /\ queue # <<>> => /\ queue[Len(queue)] = job
                     /\ record.status \notin Settled
  /\ \A k \in DOMAIN queue : k < Len(queue) => queue[k].status \in InFlight
  /\ record.status \in Settled => job.status \notin InFlight
  /\ queue = <<>> /\ ~failed => record = job

Trail == up => \A j \in Jobs : OnTrail(jobs[j], pending[j], disk[j], j \in dropped)

\* What a turn saves: snapshots of a job in flight, and then any.
Trailing(ss) ==
  /\ ss \in Seq(Job) /\ Len(ss) > 0
  /\ \A k \in DOMAIN ss : k < Len(ss) => ss[k].status \in InFlight

\* A turn of job j that saves does so for a job in flight, or a new one.
Saves(j) ==
  /\ up /\ UNCHANGED <<up, disk, dropped>>
  /\ \E ss : Trailing(ss) /\ Save(j, ss)
  /\ \/ jobs[j].status \in InFlight
     \/ jobs[j] = NoJob /\ disk[j] = NoJob /\ jobs'[j].status = "running"

USE DEF Attempts

-----------------------------------------------------------------------------
\* Appending to snapshots of a job in flight.
LEMMA AppendTrails ==
  ASSUME NEW saved \in Seq(Job), \A k \in DOMAIN saved : saved[k].status \in InFlight,
         NEW last \in Job
  PROVE  /\ Trailing(Append(saved, last))
         /\ Append(saved, last)[Len(Append(saved, last))] = last
  <1> DEFINE ss == Append(saved, last)
  <1>1. ss \in Seq(Job) /\ Len(ss) = Len(saved) + 1 /\ ss[Len(ss)] = last
    OBVIOUS
  <1>2. ASSUME NEW k \in DOMAIN ss, k < Len(ss) PROVE ss[k].status \in InFlight
    <2>1. k \in DOMAIN saved /\ ss[k] = saved[k]
      BY <1>1, <1>2
    <2> QED BY <2>1
  <1>3. Len(ss) > 0
    BY <1>1
  <1> QED BY <1>1, <1>2, <1>3 DEF Trailing

\* Starting an attempt saves snapshots of a job in flight.
LEMMA RunAttemptTrails ==
  ASSUME NEW j \in Jobs, NEW job \in Job, job.attempts < job.maxAttempts,
         NEW saved \in Seq(Job), \A k \in DOMAIN saved : saved[k].status \in InFlight,
         NEW ts, NEW as, RunAttempt(j, job, saved, ts, as)
  PROVE  \E ss : Trailing(ss) /\ Save(j, ss) /\ ss[Len(ss)].status = "running"
  <1> DEFINE next == [job EXCEPT !.status = "running", !.attempts = job.attempts + 1]
  <1>1. job.attempts + 1 \in Attempts
    BY MaxAttemptsAssumption DEF Job
  <1>2. next \in Job /\ next.status = "running"
    BY <1>1, JobUpdate DEF Job
  <1>3. Save(j, Append(saved, next))
    BY DEF RunAttempt
  <1> HIDE DEF next
  <1> QED BY <1>2, <1>3, AppendTrails

\* Handling a settled task saves snapshots of a job in flight, and then any.
LEMMA HandleTerminalTrails ==
  ASSUME NEW j \in Jobs, NEW n \in Attempts, NEW job \in Job,
         NEW saved \in Seq(Job), \A k \in DOMAIN saved : saved[k].status \in InFlight,
         NEW ts, HandleTerminal(j, n, job, saved, ts)
  PROVE  \E ss : Trailing(ss) /\ Save(j, ss)
  <1> DEFINE won  == [job EXCEPT !.status = "completed", !.result = n]
             lost == [job EXCEPT !.status = "failed"]
  <1>1. won \in Job /\ lost \in Job
    BY JobUpdate
  <1> HIDE DEF won, lost
  <1>2. CASE Save(j, Append(saved, won)) \/ Save(j, Append(saved, lost))
    BY <1>1, <1>2, AppendTrails
  <1>3. CASE job.attempts < job.maxAttempts
             /\ RunAttempt(j, job, saved, ts, [attempt[j] EXCEPT ![n] = "over"])
    BY <1>3, RunAttemptTrails
  <1> QED BY <1>2, <1>3 DEF HandleTerminal, won, lost

-----------------------------------------------------------------------------
\* The turns of a job either save or leave its record alone.
LEMMA TurnSaves ==
  ASSUME IInv, NEW j \in Jobs,
         \/ \E max \in Attempts : Submit(j, max)
         \/ \E n \in Attempts : AwaitReturns(j, n) \/ HandlerReturns(j, n)
  PROVE  Saves(j) \/ UNCHANGED <<up, jobs, pending, disk, dropped>>
  <1>0. jobs \in [Jobs -> Job \cup {NoJob}] /\ IInv
    BY DEF IInv, TypeOK
  <1>1. ASSUME NEW max \in Attempts, Submit(j, max) PROVE Saves(j)
    <2> DEFINE queued == [status |-> "queued", attempts |-> 0, maxAttempts |-> max,
                          task |-> 0, result |-> 0]
    <2>1. /\ queued \in Job /\ queued.attempts < queued.maxAttempts
          /\ queued.status \in InFlight
      BY MaxAttemptsAssumption DEF Job, InFlight
    <2>2. /\ up /\ jobs[j] = NoJob /\ disk[j] = NoJob
          /\ RunAttempt(j, queued, <<queued>>, tasks[j], attempt[j])
          /\ UNCHANGED <<up, disk, dropped>>
      BY <1>1 DEF Submit
    <2> HIDE DEF queued
    <2>3. <<queued>> \in Seq(Job) /\ \A k \in DOMAIN <<queued>> : <<queued>>[k].status \in InFlight
      BY <2>1
    <2>4. PICK ss : Trailing(ss) /\ Save(j, ss) /\ ss[Len(ss)].status = "running"
      BY <2>1, <2>2, <2>3, RunAttemptTrails
    <2>5. jobs'[j] = ss[Len(ss)]
      BY <1>0, <2>4 DEF Save
    <2> QED BY <2>2, <2>4, <2>5 DEF Saves
  <1>2. ASSUME NEW n \in Attempts, AwaitReturns(j, n) PROVE Saves(j)
    <2> DEFINE job == [jobs[j] EXCEPT !.task = n]
    <2>1. up /\ attempt[j][n] = "awaiting" /\ UNCHANGED <<up, disk, dropped>>
      BY <1>2 DEF AwaitReturns
    <2>2. jobs[j] \in Job /\ jobs[j].status = "running"
      BY <2>1, OpenIsLatest DEF IsOpen
    <2>3. job \in Job /\ job.status \in InFlight
      BY <2>2, JobUpdate DEF Job, InFlight
    <2>4. \/ HandleTerminal(j, n, job, <<job>>, tasks[j])
          \/ Save(j, <<job>>)
      BY <1>2 DEF AwaitReturns
    <2> HIDE DEF job
    <2>5. <<job>> \in Seq(Job) /\ \A k \in DOMAIN <<job>> : <<job>>[k].status \in InFlight
      BY <2>3
    <2>6. Trailing(<<job>>)
      BY <2>5 DEF Trailing
    <2>7. \E ss : Trailing(ss) /\ Save(j, ss)
      BY <2>3, <2>4, <2>5, <2>6, HandleTerminalTrails
    <2> QED BY <2>1, <2>2, <2>7 DEF Saves, InFlight
  <1>3. ASSUME NEW n \in Attempts, HandlerReturns(j, n)
        PROVE  Saves(j) \/ UNCHANGED <<up, jobs, pending, disk, dropped>>
    <2>1. up /\ tasks[j][n] = "running" /\ UNCHANGED <<up, disk, dropped>>
      BY <1>3 DEF HandlerReturns
    <2>2. jobs[j] \in Job /\ jobs[j].status = "running"
      BY <2>1, OpenIsLatest
    <2>3. \/ \E ts : HandleTerminal(j, n, jobs[j], <<>>, ts)
          \/ UNCHANGED <<jobs, pending>>
      BY <1>3 DEF HandlerReturns
    <2>4. ASSUME NEW ts, HandleTerminal(j, n, jobs[j], <<>>, ts) PROVE \E ss : Trailing(ss) /\ Save(j, ss)
      <3> DEFINE none == <<>>
      <3>1. none \in Seq(Job) /\ \A k \in DOMAIN none : none[k].status \in InFlight
        OBVIOUS
      <3>2. HandleTerminal(j, n, jobs[j], none, ts)
        BY <2>4
      <3> HIDE DEF none
      <3> QED BY <2>2, <3>1, <3>2, HandleTerminalTrails
    <2> QED BY <2>1, <2>2, <2>3, <2>4 DEF Saves, InFlight
  <1> QED BY <1>1, <1>2, <1>3

\* A turn that saves stays on the trail.
LEMMA SavesStaysOnTrail ==
  ASSUME IInv, Trail, NEW j \in Jobs, Saves(j)
  PROVE  Trail'
  <1>1. PICK ss : Trailing(ss) /\ Save(j, ss)
    BY DEF Saves
  <1>2. up /\ UNCHANGED <<up, disk, dropped>>
    BY DEF Saves
  <1>3. /\ jobs \in [Jobs -> Job \cup {NoJob}] /\ pending \in [Jobs -> Seq(Job)]
        /\ jobs' = [jobs EXCEPT ![j] = ss[Len(ss)]] /\ pending' = [pending EXCEPT ![j] = @ \o ss]
    BY <1>1 DEF IInv, TypeOK, Save
  <1> DEFINE q == pending[j]
  <1>4. OnTrail(jobs[j], q, disk[j], j \in dropped)
    BY <1>2 DEF Trail
  <1>5. q \in Seq(Job) /\ ss \in Seq(Job) /\ Len(ss) > 0
    BY <1>1, <1>3 DEF Trailing
  <1>6. /\ jobs'[j] = ss[Len(ss)] /\ pending'[j] = q \o ss /\ Len(q \o ss) = Len(q) + Len(ss)
        /\ (q \o ss)[Len(q) + Len(ss)] = ss[Len(ss)] /\ q \o ss # <<>>
    BY <1>3, <1>5
  <1>7. q # <<>> => jobs[j].status \in InFlight
    <2>1. NoJob \notin Job
      BY DEF NoJob, Job, InFlight, Settled
    <2>2. q # <<>> => jobs[j] \in Job
      BY <1>4, <1>5 DEF OnTrail
    <2> QED BY <2>1, <2>2 DEF Saves
  <1>8. disk[j].status \notin Settled
    BY <1>4 DEF Saves, OnTrail, NoJob, Settled
  <1>9. ASSUME NEW k \in DOMAIN (q \o ss), k < Len(q \o ss) PROVE (q \o ss)[k].status \in InFlight
    <2>1. CASE k < Len(q)
      BY <1>4, <1>5, <1>9, <2>1 DEF OnTrail
    <2>2. CASE k = Len(q)
      <3>1. (q \o ss)[k] = q[Len(q)] /\ q # <<>>
        BY <1>5, <1>9, <2>2
      <3> QED BY <1>4, <1>7, <3>1 DEF OnTrail
    <2>3. CASE k > Len(q)
      <3>1. k - Len(q) \in DOMAIN ss /\ (q \o ss)[k] = ss[k - Len(q)] /\ k - Len(q) < Len(ss)
        BY <1>5, <1>6, <1>9, <2>3
      <3> QED BY <1>1, <3>1 DEF Trailing
    <2> QED BY <1>5, <1>9, <2>1, <2>2, <2>3
  <1>10. OnTrail(jobs[j], pending[j], disk[j], j \in dropped)'
    <2> HIDE DEF q
    <2> QED BY <1>2, <1>6, <1>8, <1>9 DEF OnTrail
  <1>11. ASSUME NEW i \in Jobs, i # j PROVE OnTrail(jobs[i], pending[i], disk[i], i \in dropped)'
    <2>1. jobs'[i] = jobs[i] /\ pending'[i] = pending[i] /\ disk'[i] = disk[i]
          /\ (i \in dropped)' = (i \in dropped)
      BY <1>2, <1>3, <1>11
    <2> QED BY <1>2, <2>1 DEF Trail, OnTrail
  <1> QED BY <1>10, <1>11 DEF Trail

\* What is left of a queue without its first write.
LEMMA WithoutFirst ==
  ASSUME NEW q \in Seq(Job), q # <<>>
  PROVE  LET rest == SubSeq(q, 1, 0) \o SubSeq(q, 2, Len(q))
         IN /\ Len(q) \in Nat \ {0} /\ rest \in Seq(Job) /\ Len(rest) = Len(q) - 1
            /\ \A k \in DOMAIN rest : rest[k] = q[k + 1]
  <1> DEFINE back == SubSeq(q, 1 + 1, Len(q))
             front == SubSeq(q, 1, 0)
             rest == front \o back
  <1>1. Len(q) \in Nat \ {0} /\ 1 \in DOMAIN q /\ DOMAIN q = 1 .. Len(q)
    OBVIOUS
  <1>2. back \in Seq(Job) /\ Len(back) = Len(q) - 1
    BY <1>1
  <1>3. \A m \in 1 .. Len(q) - 1 : back[m] = q[m + 1]
    BY <1>1
  <1>4. front \in Seq(Job) /\ Len(front) = 0
    BY <1>1
  <1> HIDE DEF front, back
  <1>5. rest \in Seq(Job) /\ Len(rest) = Len(q) - 1
    <2>1. rest \in Seq(Job) /\ Len(rest) = Len(front) + Len(back)
      BY <1>2, <1>4
    <2> HIDE DEF rest
    <2> QED BY <1>1, <1>2, <1>4, <2>1
  <1>6. ASSUME NEW k \in DOMAIN rest PROVE rest[k] = q[k + 1]
    <2>1. k \in 1 .. Len(q) - 1
      BY <1>1, <1>5
    <2>2. rest[k] = back[k]
      BY <1>1, <1>2, <1>4, <2>1
    <2> QED BY <1>3, <2>1, <2>2
  <1> QED BY <1>1, <1>5, <1>6 DEF front, back

\* A write that is answered, in order, stays on the trail.
LEMMA PersistStaysOnTrail ==
  ASSUME Ordered, IInv, Trail, NEW j \in Jobs, PersistJob(j) \/ PersistFails(j)
  PROVE  Trail'
  <1> DEFINE q    == pending[j]
             rest == SubSeq(q, 1, 0) \o SubSeq(q, 2, Len(q))
  <1>1. up /\ UNCHANGED <<up, jobs>>
    BY DEF PersistJob, PersistFails
  <1>2. pending \in [Jobs -> Seq(Job)] /\ disk \in [Jobs -> Job \cup {NoJob}] /\ q \in Seq(Job)
    BY DEF IInv, TypeOK
  <1>3. /\ q # <<>> /\ pending' = WithoutWrite(j, 1)
        /\ \/ disk' = [disk EXCEPT ![j] = q[1]] /\ dropped' = dropped
           \/ disk' = disk /\ dropped' = dropped \cup {j}
    BY <1>2 DEF PersistJob, PersistFails, NextWrites
  <1>4. pending' = [pending EXCEPT ![j] = rest]
    BY <1>3 DEF WithoutWrite
  <1>5. /\ Len(q) \in Nat \ {0} /\ rest \in Seq(Job) /\ Len(rest) = Len(q) - 1
        /\ \A k \in DOMAIN rest : rest[k] = q[k + 1]
    <2> HIDE DEF q
    <2> QED BY <1>2, <1>3, WithoutFirst
  <1>6. OnTrail(jobs[j], q, disk[j], j \in dropped)
    BY <1>1 DEF Trail
  <1> HIDE DEF rest
  <1>7. OnTrail(jobs[j], pending[j], disk[j], j \in dropped)'
    <2>1. pending'[j] = rest /\ jobs'[j] = jobs[j]
      BY <1>1, <1>2, <1>4
    <2>2. rest # <<>> => Len(rest) > 0 /\ rest[Len(rest)] = jobs[j]
      <3>1. rest # <<>> => Len(rest) \in DOMAIN rest /\ Len(rest) + 1 = Len(q)
        BY <1>5
      <3> QED BY <1>3, <1>5, <1>6, <3>1 DEF OnTrail
    <2>3. ASSUME NEW k \in DOMAIN rest, k < Len(rest) PROVE rest[k].status \in InFlight
      <3>1. k + 1 \in DOMAIN q /\ k + 1 < Len(q) /\ rest[k] = q[k + 1]
        BY <1>2, <1>5, <2>3
      <3> QED BY <1>6, <3>1 DEF OnTrail
    <2>4. q[1].status \in InFlight \/ (rest = <<>> /\ q[1] = jobs[j])
      <3>0. ASSUME NEW len \in Nat \ {0} PROVE len = 1 \/ len > 1
        OBVIOUS
      <3>1. CASE Len(q) = 1
        BY <1>3, <1>5, <1>6, <3>1 DEF OnTrail
      <3>2. CASE Len(q) > 1
        BY <1>2, <1>6, <3>2 DEF OnTrail
      <3> HIDE DEF q
      <3> QED BY <1>5, <3>0, <3>1, <3>2
    <2>5. InFlight \cap Settled = {}
      BY DEF InFlight, Settled
    <2>6. CASE disk' = [disk EXCEPT ![j] = q[1]] /\ dropped' = dropped
      <3>1. disk'[j] = q[1]
        BY <1>2, <2>6
      <3>2. rest # <<>> => disk'[j].status \notin Settled
        BY <2>4, <2>5, <3>1
      <3>3. disk'[j].status \in Settled => jobs[j].status \notin InFlight
        BY <2>4, <2>5, <3>1
      <3>4. rest = <<>> => disk'[j] = jobs[j]
        <4>1. rest = <<>> => Len(q) = 1
          BY <1>5
        <4> QED BY <1>3, <1>6, <3>1, <4>1 DEF OnTrail
      <3> HIDE DEF q
      <3> QED BY <2>1, <2>2, <2>3, <3>2, <3>3, <3>4 DEF OnTrail
    <2>7. CASE disk' = disk /\ dropped' = dropped \cup {j}
      <3>1. disk'[j] = disk[j] /\ disk[j].status \notin Settled /\ j \in dropped'
        BY <1>3, <1>6, <2>7 DEF OnTrail
      <3> HIDE DEF q
      <3> QED BY <2>1, <2>2, <2>3, <3>1 DEF OnTrail
    <2> HIDE DEF q
    <2> QED BY <1>3, <2>6, <2>7
  <1>8. ASSUME NEW i \in Jobs, i # j PROVE OnTrail(jobs[i], pending[i], disk[i], i \in dropped)'
    <2>1. jobs'[i] = jobs[i] /\ pending'[i] = pending[i] /\ disk'[i] = disk[i]
          /\ (i \in dropped)' = (i \in dropped)
      BY <1>1, <1>2, <1>3, <1>4, <1>8
    <2> QED BY <1>1, <2>1 DEF Trail, OnTrail
  <1> QED BY <1>7, <1>8 DEF Trail

\* A boot begins a trail: from the record, or from nothing.
LEMMA BootBeginsTrail ==
  ASSUME IInv, Hydrate \/ HydrateFails
  PROVE  Trail'
  <1>1. \A j \in Jobs : /\ jobs[j] = NoJob /\ pending[j] = <<>>
                         /\ disk[j] \in Job \cup {NoJob} /\ disk'[j] = disk[j]
    BY DEF Hydrate, HydrateFails, IInv, TypeOK
  <1>2. InFlight \cap Settled = {} /\ NoJob.status \notin InFlight \cup Settled
    BY DEF InFlight, Settled, NoJob
  <1>3. CASE Hydrate
    <2> SUFFICES ASSUME NEW j \in Jobs
                 PROVE  OnTrail(jobs'[j], pending'[j], disk'[j], (j \in dropped)')
      BY DEF Trail
    <2>1. /\ jobs'[j] = Corrected(disk[j])
          /\ pending'[j] = IF disk[j].status \in InFlight THEN <<Corrected(disk[j])>> ELSE <<>>
      BY <1>3 DEF Hydrate
    <2>2. CASE disk[j].status \in InFlight
      BY <1>1, <1>2, <2>1, <2>2 DEF OnTrail
    <2>3. CASE disk[j].status \notin InFlight
      BY <1>1, <2>1, <2>3 DEF OnTrail, Corrected
    <2> QED BY <2>2, <2>3
  <1>4. CASE HydrateFails
    <2> SUFFICES ASSUME NEW j \in Jobs
                 PROVE  OnTrail(jobs'[j], pending'[j], disk'[j], (j \in dropped)')
      BY DEF Trail
    <2>1. jobs'[j] = NoJob /\ pending'[j] = <<>> /\ (disk[j] # NoJob => (j \in dropped)')
      BY <1>1, <1>4 DEF HydrateFails
    <2> QED BY <1>1, <1>2, <2>1 DEF OnTrail
  <1> QED BY <1>3, <1>4

\* Every step of the engine stays on the trail.
LEMMA NextStaysOnTrail ==
  ASSUME Ordered, IInv, Trail, [Next]_vars
  PROVE  Trail'
  <1>1. ASSUME NEW j \in Jobs,
               \/ \E max \in Attempts : Submit(j, max)
               \/ \E n \in Attempts : AwaitReturns(j, n) \/ HandlerReturns(j, n)
        PROVE  Trail'
    <2>1. CASE Saves(j)
      BY <2>1, SavesStaysOnTrail
    <2>2. CASE UNCHANGED <<up, jobs, pending, disk, dropped>>
      BY <2>2 DEF Trail, OnTrail
    <2> QED BY <1>1, <2>1, <2>2, TurnSaves
  <1>2. ASSUME NEW j \in Jobs, PersistJob(j) \/ PersistFails(j) PROVE Trail'
    BY <1>2, PersistStaysOnTrail
  <1>3. CASE Crash
    BY <1>3 DEF Crash, Trail
  <1>4. CASE Hydrate \/ HydrateFails
    BY <1>4, BootBeginsTrail
  <1>5. CASE UNCHANGED vars
    BY <1>5 DEF vars, Trail, OnTrail
  <1> QED BY <1>1, <1>2, <1>3, <1>4, <1>5 DEF Next, JobStep

LEMMA InitBeginsTrail == Init => Trail
  <1>1. NoJob.status \notin InFlight \cup Settled
    BY DEF NoJob, InFlight, Settled
  <1> SUFFICES ASSUME Init, NEW j \in Jobs
               PROVE  OnTrail(jobs[j], pending[j], disk[j], j \in dropped)
    BY DEF Trail
  <1>2. jobs[j] = NoJob /\ pending[j] = <<>> /\ disk[j] = NoJob
    BY DEF Init
  <1> QED BY <1>1, <1>2 DEF OnTrail

LEMMA TrailInvariant ==
  ASSUME Ordered PROVE Spec => [](IInv /\ Trail)
  <1>1. Init => IInv /\ Trail
    BY InitIInv, InitBeginsTrail
  <1>2. IInv /\ Trail /\ [Next]_vars => (IInv /\ Trail)'
    BY NextKeepsIInv, NextStaysOnTrail
  <1> QED BY <1>1, <1>2, PTL DEF Spec

-----------------------------------------------------------------------------
\* With local storage, once a job's writes are answered and none of them failed,
\* storage holds the job as it is (job.service.ts persistJob, local-storage.ts
\* withLock).
THEOREM LatestSurvives ==
  ASSUME Ordered PROVE Spec => []LatestSnapshotSurvives
  <1>1. Trail => LatestSnapshotSurvives
    BY DEF Trail, OnTrail, LatestSnapshotSurvives
  <1> QED BY <1>1, TrailInvariant, PTL

-----------------------------------------------------------------------------
\* What JobSpec is shown of the engine.
Shown  == [j \in Jobs |-> AsStatus(jobs[j])]
Stored == [j \in Jobs |-> AsStatus(disk[j])]

\* What a job looks like from outside.
LEMMA Looks ==
  ASSUME NEW job \in Job \cup {NoJob}
  PROVE  /\ job.status \in InFlight <=> AsStatus(job) = "live"
         /\ job.status \in Settled  <=> AsStatus(job) \in Promise!Outcome
         /\ job = NoJob            <=> AsStatus(job) = "absent"
         /\ job.status \notin InFlight => AsStatus(job) = job.status
  <1>1. CASE job = NoJob
    BY <1>1 DEF NoJob, AsStatus, InFlight, Settled, Promise!Outcome
  <1>2. CASE job \in Job
    <2>1. job.status \in InFlight \cup Settled /\ job # NoJob
      BY <1>2 DEF Job, NoJob, InFlight, Settled
    <2> QED BY <2>1 DEF AsStatus, InFlight, Settled, Promise!Outcome
  <1> QED BY <1>1, <1>2

\* A turn that saves shows nothing, or a job submitted or settled.
LEMMA SavesAsPromised ==
  ASSUME IInv, NEW j \in Jobs, Saves(j)
  PROVE  Promise!Submit(j) \/ Promise!Settle(j) \/ UNCHANGED <<up, Shown, Stored>>
  <1>1. PICK ss : Trailing(ss) /\ Save(j, ss)
    BY DEF Saves
  <1> DEFINE last == ss[Len(ss)]
  <1>2. last \in Job
    BY <1>1 DEF Trailing
  <1>3. jobs' = [jobs EXCEPT ![j] = last]
    BY <1>1 DEF Save
  <1> HIDE DEF last
  <1>4. /\ jobs \in [Jobs -> Job \cup {NoJob}] /\ disk \in [Jobs -> Job \cup {NoJob}]
        /\ up /\ up' = up /\ disk' = disk
    BY DEF Saves, IInv, TypeOK
  <1>5. Shown' = [Shown EXCEPT ![j] = AsStatus(last)] /\ Stored' = Stored
    BY <1>3, <1>4 DEF Shown, Stored
  <1>6. Shown[j] = AsStatus(jobs[j]) /\ Stored[j] = AsStatus(disk[j])
    BY DEF Shown, Stored
  <1>7. CASE jobs[j].status \in InFlight
    <2>1. Shown[j] = "live"
      BY <1>4, <1>6, <1>7, Looks
    <2>2. AsStatus(last) = "live" \/ AsStatus(last) \in Promise!Outcome
      BY <1>2, Looks DEF Job
    <2>3. CASE AsStatus(last) = "live"
      BY <1>4, <1>5, <2>1, <2>3 DEF Shown
    <2>4. CASE AsStatus(last) \in Promise!Outcome
      BY <1>4, <1>5, <2>1, <2>4 DEF Promise!Settle, Shown, Stored
    <2> QED BY <2>2, <2>3, <2>4
  <1>8. CASE jobs[j] = NoJob /\ disk[j] = NoJob /\ jobs'[j].status = "running"
    <2>1. Shown[j] = "absent" /\ Stored[j] = "absent"
      BY <1>4, <1>6, <1>8, Looks
    <2>2. jobs'[j] = last
      BY <1>3, <1>4
    <2>3. AsStatus(last) = "live"
      BY <1>8, <2>2 DEF AsStatus, InFlight
    <2> QED BY <1>4, <1>5, <2>1, <2>3 DEF Promise!Submit, Shown, Stored
  <1> QED BY <1>7, <1>8 DEF Saves

\* A write that is answered shows nothing, or the record catching up.
LEMMA PersistAsPromised ==
  ASSUME Ordered, IInv, Trail, NEW j \in Jobs, PersistJob(j) \/ PersistFails(j)
  PROVE  Promise!Record(j) \/ UNCHANGED <<up, Shown, Stored>>
  <1> DEFINE q == pending[j]
  <1>1. /\ up /\ UNCHANGED <<up, jobs>>
        /\ jobs \in [Jobs -> Job \cup {NoJob}] /\ disk \in [Jobs -> Job \cup {NoJob}]
        /\ q \in Seq(Job)
    BY DEF PersistJob, PersistFails, IInv, TypeOK
  <1>2. q # <<>> /\ (disk' = disk \/ disk' = [disk EXCEPT ![j] = q[1]])
    BY <1>1 DEF PersistJob, PersistFails, NextWrites
  <1>3. Shown' = Shown
    BY <1>1 DEF Shown
  <1>4. CASE disk' = disk
    BY <1>1, <1>3, <1>4 DEF Stored
  <1>5. CASE disk' = [disk EXCEPT ![j] = q[1]]
    <2>1. OnTrail(jobs[j], q, disk[j], j \in dropped)
      BY <1>1 DEF Trail
    <2>2. Len(q) \in Nat \ {0} /\ 1 \in DOMAIN q /\ q[1] \in Job /\ q[Len(q)] \in Job
      BY <1>1, <1>2
    <2>3. jobs[j] \in Job /\ disk[j].status \notin Settled
      BY <1>2, <2>1, <2>2 DEF OnTrail
    <2>4. q[1] = jobs[j] \/ q[1].status \in InFlight
      <3>1. CASE Len(q) = 1
        BY <1>2, <2>1, <3>1 DEF OnTrail
      <3>2. CASE Len(q) > 1
        BY <2>1, <2>2, <3>2 DEF OnTrail
      <3>3. ASSUME NEW len \in Nat \ {0} PROVE len = 1 \/ len > 1
        OBVIOUS
      <3> HIDE DEF q
      <3> QED BY <2>2, <3>1, <3>2, <3>3
    <2> HIDE DEF q
    <2>5. AsStatus(q[1]) \in {"live", Shown[j]}
      BY <2>2, <2>4, Looks DEF Shown
    <2>6. Shown[j] # "absent" /\ Stored[j] \notin Promise!Outcome
      <3>1. AsStatus(jobs[j]) # "absent"
        <4>1. NoJob \notin Job
          BY DEF NoJob, Job, InFlight, Settled
        <4> QED BY <1>1, <2>3, <4>1, Looks
      <3>2. AsStatus(disk[j]) \notin Promise!Outcome
        BY <1>1, <2>3, Looks
      <3> QED BY <3>1, <3>2 DEF Shown, Stored
    <2>7. Stored' = [Stored EXCEPT ![j] = AsStatus(q[1])]
      BY <1>1, <1>5 DEF Stored
    <2> QED BY <1>1, <1>3, <2>5, <2>6, <2>7 DEF Promise!Record, Shown, Stored
  <1> QED BY <1>2, <1>4, <1>5

\* A crash and a boot show what JobSpec has for them.
LEMMA RestartAsPromised ==
  ASSUME IInv
  PROVE  /\ Crash => Promise!Stop
         /\ Hydrate \/ HydrateFails => Promise!Restart
  <1>1. AsStatus(NoJob) = "absent"
    BY Looks
  <1>2. ASSUME Crash PROVE Promise!Stop
    <2>1. /\ up /\ up' = FALSE /\ Stored' = Stored
          /\ Shown' = [j \in Jobs |-> "absent"]
      BY <1>1, <1>2 DEF Crash, Shown, Stored
    <2> QED BY <2>1 DEF Promise!Stop, Shown, Stored
  <1>3. ASSUME Hydrate PROVE Promise!Restart
    <2>1. ASSUME NEW j \in Jobs
          PROVE  AsStatus(Corrected(disk[j])) = IF AsStatus(disk[j]) = "live" THEN "failed" ELSE AsStatus(disk[j])
      <3>1. disk[j] \in Job \cup {NoJob}
        BY DEF IInv, TypeOK
      <3>2. CASE disk[j].status \in InFlight
        <4>1. disk[j] \in Job
          BY <3>1, <3>2 DEF NoJob, InFlight
        <4>2. Corrected(disk[j]).status = "failed"
          BY <3>2, <4>1 DEF Corrected, Job
        <4> QED BY <3>1, <3>2, <4>2, Looks DEF AsStatus, InFlight
      <3>3. CASE disk[j].status \notin InFlight
        BY <3>1, <3>3, Looks DEF Corrected
      <3> QED BY <3>2, <3>3
    <2>2. /\ ~up /\ up' = TRUE /\ Stored' = Stored
          /\ Shown' = [j \in Jobs |-> IF Stored[j] = "live" THEN "failed" ELSE Stored[j]]
      BY <1>3, <2>1 DEF Hydrate, Shown, Stored
    <2> QED BY <2>2 DEF Promise!Restart, Shown, Stored
  <1>4. ASSUME HydrateFails PROVE Promise!Restart
    BY <1>4 DEF HydrateFails, Promise!Restart
  <1> QED BY <1>2, <1>3, <1>4

\* With local storage, all the engine does of a job is what JobSpec promises
\* of it, whatever becomes of its attempts, its writes and the process
\* (job-engine.ts, orchestrator.ts, job.service.ts).
THEOREM KeepsItsPromise ==
  ASSUME Ordered PROVE Spec => Promise!Spec
  <1>1. Init => Promise!Init
    <2>1. AsStatus(NoJob) = "absent"
      BY Looks
    <2> QED BY <2>1 DEF Init, Promise!Init
  <1>2. IInv /\ Trail /\ [Next]_vars => [Promise!Next]_(Promise!vars)
    <2> SUFFICES ASSUME IInv, Trail, [Next]_vars
                 PROVE  Promise!Next \/ UNCHANGED <<up, Shown, Stored>>
      BY DEF Promise!vars, Shown, Stored
    <2>1. ASSUME NEW j \in Jobs,
                 \/ \E max \in Attempts : Submit(j, max)
                 \/ \E n \in Attempts : AwaitReturns(j, n) \/ HandlerReturns(j, n)
          PROVE  Promise!Next \/ UNCHANGED <<up, Shown, Stored>>
      <3>1. CASE Saves(j)
        BY <3>1, SavesAsPromised DEF Promise!Next
      <3>2. CASE UNCHANGED <<up, jobs, pending, disk, dropped>>
        BY <3>2 DEF Shown, Stored
      <3> QED BY <2>1, <3>1, <3>2, TurnSaves
    <2>2. ASSUME NEW j \in Jobs, PersistJob(j) \/ PersistFails(j)
          PROVE  Promise!Next \/ UNCHANGED <<up, Shown, Stored>>
      BY <2>2, PersistAsPromised DEF Promise!Next
    <2>3. CASE Crash \/ Hydrate \/ HydrateFails
      BY <2>3, RestartAsPromised DEF Promise!Next
    <2>4. CASE UNCHANGED vars
      BY <2>4 DEF vars, Shown, Stored
    <2> QED BY <2>1, <2>2, <2>3, <2>4 DEF Next, JobStep
  <1> QED BY <1>1, <1>2, TrailInvariant, PTL DEF Spec, Promise!Spec
=============================================================================
