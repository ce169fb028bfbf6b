------------------------- MODULE WorkflowEngineProofs -------------------------
(***************************************************************************)
(* Proofs about the Workflow Engine, for any number of workflows of any    *)
(* length and width, of resumes, crashes and lost or reordered writes.     *)
(* Every snapshot ever taken of a workflow is sound by itself (Sound); a   *)
(* run that is open stands exactly where its workflow says and waits for   *)
(* exactly the jobs that are live (Live); and there is one run behind      *)
(* every workflow that says it is running. With local storage what is on   *)
(* disk, what is still to be written and what is in memory lie on one      *)
(* course (Course), from which follows that the engine implements          *)
(* WorkflowSpec.                                                           *)
(***************************************************************************)
EXTENDS WorkflowEngine, FiniteSetTheorems, SequenceTheorems, TLAPS

-----------------------------------------------------------------------------
\* All the steps in front of the i-th have completed and left a result.
Front(wf, i) == \A k \in 1 .. i - 1 : wf.steps[k].status = "completed" /\ wf.steps[k].result # 0

Touched(step) == step.status # "pending" \/ \E b \in BranchNums : step.branches[b].status # "pending"

Barrier(spec, step) ==
  step.status \in Settled => \A b \in 1 .. spec.branches :
    /\ step.branches[b].status \notin InFlight
    /\ step.status = "completed" =>
         step.branches[b].status \in (IF spec.continueOnError THEN Settled ELSE {"completed"})

Sound(wf) ==
  /\ wf.shape \in Seq(StepSpec) /\ Len(wf.shape) \in StepNums
  /\ \A i \in Steps(wf) :
       /\ Touched(wf.steps[i]) => Front(wf, i)
       /\ Barrier(wf.shape[i], wf.steps[i])
       /\ wf.steps[i].status = "completed" => wf.steps[i].result # 0

Snapshots == {wf \in Workflow : Sound(wf)}

\* Where an open run stands, its workflow being wf and its jobs at this step js.
Waiting(run) == run.listening \cup run.resolved

Live(run, wf, js) ==
  /\ wf.status = "running" /\ wf.current = run.step /\ run.step \in Steps(wf)
  /\ run.listening \cap run.resolved = {}
  /\ \A b \in run.listening : js[b] = "live"
  /\ \A b \in run.resolved : js[b] \in Settled
  /\ LET step == wf.steps[run.step] IN
     \/ /\ run.at = "single" /\ ~IsGroup(wf, run.step) /\ step.status = "running"
        /\ Waiting(run) = {0}
     \/ /\ run.at = "group" /\ IsGroup(wf, run.step) /\ step.status = "running"
        /\ Waiting(run) \subseteq Branches(wf, run.step)
        /\ \A b \in Branches(wf, run.step) :
             step.branches[b].status \in (IF b \in Waiting(run) THEN {"running"} ELSE Settled)
     \/ /\ run.at = "advance" /\ step.status = "completed"
        /\ Waiting(run) = {}
        /\ run.step + 1 \in Steps(wf) => wf.steps[run.step + 1].status # "completed"

Typed ==
  /\ up \in BOOLEAN
  /\ workflows \in [Workflows -> Snapshots \cup {Unsubmitted}]
  /\ runs \in Seq(Run) /\ Len(runs) <= MaxRuns
  /\ jobs \in [Runs -> [StepNums -> [Slots -> {"absent", "live"} \cup Settled]]]
  /\ pending \in [Workflows -> Seq(Snapshots)]
  /\ disk \in [Workflows -> Snapshots \cup {Unsubmitted}]

RunsLive ==
  \A r \in DOMAIN runs : IsOpen(r) =>
    Live(runs[r], workflows[runs[r].workflow], jobs[r][runs[r].step])

\* No two runs of one workflow, and none missing.
RunsAlone ==
  /\ \A r, s \in DOMAIN runs :
       IsOpen(r) /\ IsOpen(s) /\ runs[r].workflow = runs[s].workflow => r = s
  /\ \A w \in Workflows : workflows[w].status = "running" =>
       \E r \in DOMAIN runs : runs[r].workflow = w /\ IsOpen(r)

DownIsEmpty == ~up => \A w \in Workflows : workflows[w] = Unsubmitted

IInv == Typed /\ RunsLive /\ RunsAlone /\ LiveJobsAwaited /\ DownIsEmpty

-----------------------------------------------------------------------------
\* Snapshots.  A snapshot whose steps are those of another is as sound.
LEMMA Relabelled ==
  ASSUME NEW wf \in Snapshots, NEW new \in Workflow, new.shape = wf.shape, new.steps = wf.steps
  PROVE  new \in Snapshots
  BY DEF Snapshots, Sound, Steps, Front

\* A step that has not completed may change, once those in front of it have.
LEMMA WithStep ==
  ASSUME BoundsAssumption, NEW wf \in Snapshots, NEW i \in Steps(wf), NEW step \in Step,
         wf.steps[i].status # "completed", Front(wf, i),
         Barrier(wf.shape[i], step), step.status = "completed" => step.result # 0
  PROVE  LET new == [wf EXCEPT !.steps = [wf.steps EXCEPT ![i] = step]] IN
         /\ new \in Snapshots
         /\ new.status = wf.status /\ new.current = wf.current /\ new.shape = wf.shape
         /\ new.steps[i] = step /\ \A k \in StepNums : k # i => new.steps[k] = wf.steps[k]
  <1> DEFINE new == [wf EXCEPT !.steps = [wf.steps EXCEPT ![i] = step]]
  <1>1. wf \in Workflow /\ Sound(wf) /\ wf.steps \in [StepNums -> Step] /\ wf.shape \in Seq(StepSpec)
    BY DEF Snapshots, Workflow
  <1>2. i \in StepNums /\ Len(wf.shape) \in StepNums /\ Steps(wf) \subseteq StepNums /\ Steps(wf) \subseteq Nat
    BY <1>1, BoundsAssumption DEF Sound, Steps, StepNums
  <1> DEFINE steps == [wf.steps EXCEPT ![i] = step]
  <1>3. /\ steps \in [StepNums -> Step] /\ steps[i] = step
        /\ \A k \in StepNums : k # i => steps[k] = wf.steps[k]
    BY <1>1, <1>2
  <1> HIDE DEF steps
  <1>4. /\ new \in Workflow /\ new.shape = wf.shape /\ new.steps = steps
        /\ new.status = wf.status /\ new.current = wf.current
    BY <1>1, <1>3 DEF Workflow, steps
  <1> HIDE DEF new
  <1>5. Sound(new)
    <2> SUFFICES ASSUME NEW k \in Steps(wf)
                 PROVE  /\ Touched(steps[k]) => \A j \in 1 .. k - 1 : steps[j].status = "completed" /\ steps[j].result # 0
                        /\ Barrier(wf.shape[k], steps[k])
                        /\ steps[k].status = "completed" => steps[k].result # 0
      BY <1>1, <1>4 DEF Sound, Steps, Front
    <2>0. k \in StepNums /\ i \in Nat /\ k \in Nat /\ \A j \in 1 .. k - 1 : j \in StepNums
      BY <1>2, BoundsAssumption DEF StepNums
    <2>1. CASE k = i
      <3>1. \A j \in 1 .. i - 1 : steps[j] = wf.steps[j]
        BY <1>3, <2>0, <2>1
      <3> QED BY <1>3, <2>1, <3>1 DEF Front
    <2>2. CASE k # i
      <3>1. /\ Touched(wf.steps[k]) => Front(wf, k)
            /\ Barrier(wf.shape[k], wf.steps[k])
            /\ wf.steps[k].status = "completed" => wf.steps[k].result # 0
        BY <1>1 DEF Sound
      <3>2. Touched(wf.steps[k]) => i \notin 1 .. k - 1
        BY <3>1 DEF Front
      <3>3. steps[k] = wf.steps[k] /\ \A j \in 1 .. k - 1 : j # i => steps[j] = wf.steps[j]
        BY <1>3, <2>0, <2>2
      <3> QED BY <3>1, <3>2, <3>3 DEF Front
    <2> QED BY <2>1, <2>2
  <1>6. new \in Snapshots
    BY <1>4, <1>5 DEF Snapshots
  <1> QED BY <1>3, <1>4, <1>6 DEF new

\* The step behind one that has not completed has not completed either.
LEMMA NextIncomplete ==
  ASSUME BoundsAssumption, NEW wf \in Snapshots, NEW i \in Steps(wf), wf.steps[i].status # "completed",
         i + 1 \in Steps(wf)
  PROVE  wf.steps[i + 1].status # "completed" /\ i + 1 \in StepNums /\ i + 1 # i
  <1>1. i \in Nat /\ i >= 1 /\ i \in 1 .. (i + 1) - 1 /\ i + 1 \in StepNums
    BY BoundsAssumption DEF Snapshots, Sound, Steps, StepNums
  <1>2. ~Front(wf, i + 1)
    BY <1>1 DEF Front
  <1>3. ~Touched(wf.steps[i + 1])
    BY <1>2 DEF Snapshots, Sound
  <1> QED BY <1>1, <1>3 DEF Touched

-----------------------------------------------------------------------------
\* What update() does to the engine's map and to the writes in hand.
LEMMA SaveStores ==
  ASSUME Typed, NEW w \in Workflows, NEW snaps \in Seq(Snapshots), snaps # <<>>, Save(w, snaps)
  PROVE  /\ snaps[Len(snaps)] \in Snapshots
         /\ workflows'[w] = snaps[Len(snaps)]
         /\ \A v \in Workflows : v # w => workflows'[v] = workflows[v]
         /\ workflows' \in [Workflows -> Snapshots \cup {Unsubmitted}]
         /\ pending' \in [Workflows -> Seq(Snapshots)]
         /\ pending'[w] = pending[w] \o snaps
         /\ \A v \in Workflows : v # w => pending'[v] = pending[v]
  <1>1. Len(snaps) \in 1 .. Len(snaps)
    BY EmptySeq
  <1>2. snaps[Len(snaps)] \in Snapshots
    BY <1>1, ElementOfSeq
  <1>3. pending[w] \o snaps \in Seq(Snapshots)
    BY ConcatProperties DEF Typed
  <1> QED BY <1>2, <1>3 DEF Save, Typed

LEMMA RunsTyped ==
  ASSUME BoundsAssumption, Typed, NEW s \in DOMAIN runs
  PROVE  /\ s \in Runs /\ s \in 1 .. Len(runs) /\ DOMAIN runs = 1 .. Len(runs)
         /\ runs[s] \in Run
         /\ runs[s].workflow \in Workflows /\ runs[s].step \in StepNums
         /\ runs[s].listening \subseteq Slots /\ runs[s].resolved \subseteq Slots
  <1>1. s \in 1 .. Len(runs) /\ DOMAIN runs = 1 .. Len(runs) /\ Len(runs) \in Nat /\ Len(runs) <= MaxRuns
    BY DEF Typed
  <1>2. s \in Runs
    BY <1>1, BoundsAssumption DEF Runs
  <1>3. runs[s] \in Run
    BY <1>1, ElementOfSeq DEF Typed
  <1> QED BY <1>1, <1>2, <1>3 DEF Run

\* A turn of one run, or the start of one: it may leave the run over, with the
\* workflow at rest, or live again.
LEMMA TurnKeeps ==
  ASSUME NEW w \in Workflows, NEW snaps \in Seq(Snapshots), NEW r \in Runs, NEW run \in Run,
         BoundsAssumption, IInv, up, UNCHANGED <<up, disk>>,
         snaps # <<>>, Save(w, snaps), run.workflow = w, \A s \in OpenRuns(w) : s = r,
         runs' \in Seq(Run), Len(runs') <= MaxRuns, DOMAIN runs' = DOMAIN runs \cup {r}, runs'[r] = run,
         \A s \in DOMAIN runs : s # r => runs'[s] = runs[s],
         r \in DOMAIN runs => runs[r].workflow = w,
         jobs' \in [Runs -> [StepNums -> [Slots -> {"absent", "live"} \cup Settled]]],
         \A s \in Runs : s # r => jobs'[s] = jobs[s],
         \A i \in StepNums, b \in Slots : jobs'[r][i][b] = "live" =>
            run.at # "over" /\ run.step = i /\ b \in run.listening,
         IF run.at = "over" THEN workflows'[w].status # "running"
         ELSE Live(run, workflows'[w], jobs'[r][run.step])
  PROVE  IInv'
  <1>0. Typed /\ RunsLive /\ RunsAlone /\ LiveJobsAwaited
    BY DEF IInv
  <1>1. /\ \A v \in Workflows : v # w => workflows'[v] = workflows[v]
        /\ workflows' \in [Workflows -> Snapshots \cup {Unsubmitted}]
        /\ pending' \in [Workflows -> Seq(Snapshots)]
    BY <1>0, SaveStores
  <1>2. Typed'
    BY <1>0, <1>1 DEF Typed
  <1>3. \A s \in DOMAIN runs : s # r /\ IsOpen(s) => runs[s].workflow \in Workflows \ {w}
    BY <1>0, RunsTyped DEF OpenRuns
  <1>4. ASSUME NEW s \in DOMAIN runs', s # r, IsOpen(s)'
        PROVE  s \in DOMAIN runs /\ IsOpen(s) /\ runs'[s] = runs[s] /\ runs[s].workflow \in Workflows \ {w}
    BY <1>3, <1>4 DEF IsOpen
  <1>5. ASSUME NEW s \in DOMAIN runs', IsOpen(s)'
        PROVE  Live(runs'[s], workflows'[runs'[s].workflow], jobs'[s][runs'[s].step])
    <2>1. CASE s = r
      BY <1>5, <2>1 DEF IsOpen
    <2>2. CASE s # r
      <3>1. s \in DOMAIN runs /\ IsOpen(s) /\ runs'[s] = runs[s] /\ runs[s].workflow \in Workflows \ {w}
        BY <1>4, <1>5, <2>2
      <3>2. s \in Runs
        BY <1>0, <3>1, RunsTyped
      <3>3. workflows'[runs[s].workflow] = workflows[runs[s].workflow] /\ jobs'[s] = jobs[s]
        BY <1>1, <2>2, <3>1, <3>2
      <3>4. Live(runs[s], workflows[runs[s].workflow], jobs[s][runs[s].step])
        BY <1>0, <3>1 DEF RunsLive
      <3> QED BY <3>1, <3>3, <3>4
    <2> QED BY <2>1, <2>2
  <1>6. RunsLive'
    BY <1>5 DEF RunsLive, IsOpen
  <1>7. RunsAlone'
    <2>1. ASSUME NEW s \in DOMAIN runs', NEW t \in DOMAIN runs', IsOpen(s)', IsOpen(t)',
                 runs'[s].workflow = runs'[t].workflow
          PROVE  s = t
      BY <1>0, <1>4, <2>1 DEF RunsAlone
    <2>2. ASSUME NEW v \in Workflows, workflows'[v].status = "running"
          PROVE  \E s \in DOMAIN runs' : runs'[s].workflow = v /\ runs'[s].at # "over"
      <3>1. CASE v = w
        BY <2>2, <3>1
      <3>2. CASE v # w
        <4>1. PICK s \in DOMAIN runs : runs[s].workflow = v /\ IsOpen(s)
          BY <1>0, <1>1, <2>2, <3>2 DEF RunsAlone
        <4>2. s # r
          BY <3>2, <4>1
        <4> QED BY <4>1, <4>2 DEF IsOpen
      <3> QED BY <3>1, <3>2
    <2> QED BY <2>1, <2>2 DEF RunsAlone, IsOpen
  <1>8. LiveJobsAwaited'
    <2> SUFFICES ASSUME NEW s \in Runs, NEW i \in StepNums, NEW b \in Slots, jobs'[s][i][b] = "live"
                 PROVE  s \in DOMAIN runs' /\ runs'[s].at # "over" /\ runs'[s].step = i /\ b \in runs'[s].listening
      BY DEF LiveJobsAwaited, IsOpen
    <2>1. CASE s = r
      BY <2>1
    <2>2. CASE s # r
      <3>1. jobs[s][i][b] = "live"
        BY <2>2
      <3>2. s \in DOMAIN runs /\ runs[s].at # "over" /\ runs[s].step = i /\ b \in runs[s].listening
        BY <1>0, <3>1 DEF LiveJobsAwaited, IsOpen
      <3> QED BY <2>2, <3>2
    <2> QED BY <2>1, <2>2
  <1> QED BY <1>2, <1>6, <1>7, <1>8 DEF IInv, DownIsEmpty

\* Nothing completed is different in `new`.
Keeps(wf, new) ==
  \A i \in Steps(wf) :
    /\ wf.steps[i].status = "completed" => new.steps[i] = wf.steps[i]
    /\ \A b \in Branches(wf, i) : wf.steps[i].branches[b].status = "completed" =>
         new.steps[i].branches[b] = wf.steps[i].branches[b]

\* How far a workflow has got: what has completed in a has completed in b.
Behind(a, b) ==
  /\ a.shape = b.shape
  /\ \A i \in Steps(a) : a.steps[i].status = "completed" => b.steps[i].status = "completed"

Level(a, b) == Behind(a, b) /\ Behind(b, a)

Leveled(snaps, wf) == \A k \in 1 .. Len(snaps) : Level(snaps[k], wf)

\* A turn in which w is as far as wf: only the last of its updates may say that
\* the workflow has completed, and then all its steps have.
Turn(w, wf) ==
  \E snaps \in Seq(Snapshots) :
    /\ snaps # <<>> /\ Save(w, snaps) /\ Leveled(snaps, wf)
    /\ \A k \in 1 .. Len(snaps) : snaps[k].status = "completed" => k = Len(snaps) /\ Incomplete(wf) = {}

\* A turn in which the i-th step of w completes, or fails and w with it.
StepEnds(w, i) ==
  /\ i \in Incomplete(workflows[w])
  /\ \/ /\ workflows'[w].status = "running"
        /\ \E new \in Snapshots : /\ Turn(w, new) /\ new.shape = workflows[w].shape
                                  /\ Incomplete(new) = Incomplete(workflows[w]) \ {i}
     \/ workflows'[w].status = "failed" /\ Turn(w, workflows[w])

LEMMA Levels ==
  ASSUME NEW a, NEW b
  PROVE  /\ Level(a, a)
         /\ a.shape = b.shape /\ a.steps = b.steps => Level(a, b)
         /\ Level(a, b) => Level(b, a) /\ Incomplete(a) = Incomplete(b)
         /\ \A c : Level(a, b) /\ Level(b, c) => Level(a, c)
         /\ \A c : Behind(a, b) /\ Behind(b, c) => Behind(a, c)
         /\ Level(a, b) => Behind(a, b)
  BY DEF Level, Behind, Incomplete, Steps

\* One step changes: the workflow is where it was, or one step further.
LEMMA OneStepOn ==
  ASSUME BoundsAssumption, NEW wf \in Snapshots, NEW i \in Steps(wf), wf.steps[i].status # "completed",
         NEW new, new.shape = wf.shape, \A k \in StepNums : k # i => new.steps[k] = wf.steps[k]
  PROVE  /\ i \in Incomplete(wf)
         /\ new.steps[i].status # "completed" => Level(new, wf)
         /\ new.steps[i].status = "completed" => Incomplete(new) = Incomplete(wf) \ {i}
  <1>1. Steps(wf) \subseteq StepNums /\ Steps(new) = Steps(wf)
    BY BoundsAssumption DEF Snapshots, Sound, Steps, StepNums
  <1>2. i \in Incomplete(wf)
    BY DEF Incomplete
  <1>3. new.steps[i].status # "completed" => Level(new, wf)
    BY <1>1 DEF Level, Behind
  <1>4. new.steps[i].status = "completed" => Incomplete(new) = Incomplete(wf) \ {i}
    BY <1>1 DEF Incomplete
  <1> QED BY <1>2, <1>3, <1>4

LEMMA LeveledAppend ==
  ASSUME NEW snaps \in Seq(Snapshots), NEW last \in Snapshots, NEW wf, Leveled(snaps, wf), Level(last, wf)
  PROVE  Leveled(Append(snaps, last), wf)
  <1> DEFINE all == Append(snaps, last)
  <1>1. /\ Len(all) = Len(snaps) + 1 /\ Len(snaps) \in Nat
        /\ all[Len(snaps) + 1] = last /\ \A k \in 1 .. Len(snaps) : all[k] = snaps[k]
    BY AppendProperties
  <1> HIDE DEF all
  <1>2. ASSUME NEW k \in 1 .. Len(all) PROVE Level(all[k], wf)
    <2>1. k \in 1 .. Len(snaps) \/ k = Len(snaps) + 1
      BY <1>1
    <2> QED BY <1>1, <2>1 DEF Leveled
  <1> QED BY <1>2 DEF Leveled, all

LEMMA LeveledConcat ==
  ASSUME NEW front \in Seq(Snapshots), NEW back \in Seq(Snapshots), NEW wf, Leveled(front, wf), Leveled(back, wf)
  PROVE  Leveled(front \o back, wf)
  <1> DEFINE all == front \o back
  <1>1. /\ Len(all) = Len(front) + Len(back) /\ Len(front) \in Nat /\ Len(back) \in Nat
        /\ \A k \in 1 .. Len(front) + Len(back) : all[k] = IF k <= Len(front) THEN front[k] ELSE back[k - Len(front)]
    BY ConcatProperties
  <1> HIDE DEF all
  <1>2. ASSUME NEW k \in 1 .. Len(all) PROVE Level(all[k], wf)
    <2>1. CASE k <= Len(front)
      BY <1>1, <2>1 DEF Leveled
    <2>2. CASE ~(k <= Len(front))
      <3>1. k - Len(front) \in 1 .. Len(back) /\ all[k] = back[k - Len(front)]
        BY <1>1, <2>2
      <3> QED BY <3>1 DEF Leveled
    <2> QED BY <2>1, <2>2
  <1> QED BY <1>2 DEF Leveled, all

LEMMA LeveledOn ==
  ASSUME NEW snaps, NEW a, NEW b, Leveled(snaps, a), Level(a, b)
  PROVE  Leveled(snaps, b)
  BY Levels DEF Leveled

LEMMA TurnOn ==
  ASSUME NEW w, NEW a, NEW b, Turn(w, a), Level(a, b)
  PROVE  Turn(w, b)
  <1>1. PICK snaps \in Seq(Snapshots) :
          /\ snaps # <<>> /\ Save(w, snaps) /\ Leveled(snaps, a)
          /\ \A k \in 1 .. Len(snaps) : snaps[k].status = "completed" => k = Len(snaps) /\ Incomplete(a) = {}
    BY DEF Turn
  <1>2. Leveled(snaps, b) /\ Incomplete(a) = Incomplete(b)
    BY <1>1, Levels, LeveledOn
  <1> QED BY <1>1, <1>2 DEF Turn

\* The steps that ResultsKept and ReportedOnce allow.
KeepsResults == \A w \in Workflows : up /\ up' => Keeps(workflows[w], workflows'[w])

ReportsEnd ==
  \A w \in Workflows : up /\ up' =>
    \A k \in Len(pending[w]) + 1 .. Len(pending'[w]) :
      pending'[w][k].status \in Settled =>
        /\ k = Len(pending'[w])
        /\ \E r \in OpenRuns(w) : runs'[r].at = "over"

\* The last of a turn's updates alone may settle the workflow, and only if the
\* turn is the run's last.
LEMMA TurnShows ==
  ASSUME Typed, NEW w \in Workflows, NEW snaps \in Seq(Snapshots), snaps # <<>>, Save(w, snaps),
         Keeps(workflows[w], workflows'[w]), NEW r,
         \A k \in 1 .. Len(snaps) : snaps[k].status \in Settled =>
           k = Len(snaps) /\ r \in OpenRuns(w) /\ runs'[r].at = "over"
  PROVE  KeepsResults /\ ReportsEnd
  <1>1. KeepsResults
    <2>1. \A v \in Workflows : v # w => workflows'[v] = workflows[v]
      BY SaveStores
    <2>2. \A wf : Keeps(wf, wf)
      BY DEF Keeps
    <2> QED BY <2>1, <2>2 DEF KeepsResults
  <1>2. ReportsEnd
    <2> SUFFICES ASSUME NEW v \in Workflows, NEW k \in Len(pending[v]) + 1 .. Len(pending'[v]),
                        pending'[v][k].status \in Settled
                 PROVE  k = Len(pending'[v]) /\ \E s \in OpenRuns(v) : runs'[s].at = "over"
      BY DEF ReportsEnd
    <2>1. Len(pending[v]) \in Nat /\ pending[v] \in Seq(Snapshots)
      BY DEF Typed
    <2>2. v = w
      <3>1. v # w => pending'[v] = pending[v]
        BY SaveStores
      <3> QED BY <2>1, <3>1
    <2>3. pending'[v] = pending[v] \o snaps
      BY <2>2, SaveStores
    <2> DEFINE old == pending[v]
               all == pending'[v]
    <2> HIDE DEF old, all
    <2>4. old \in Seq(Snapshots) /\ all = old \o snaps /\ Len(old) \in Nat /\ Len(snaps) \in Nat
      BY <2>1, <2>3 DEF old, all
    <2>5. Len(all) = Len(old) + Len(snaps) /\ \A j \in 1 .. Len(old) + Len(snaps) :
            all[j] = IF j <= Len(old) THEN old[j] ELSE snaps[j - Len(old)]
      BY <2>4, ConcatProperties
    <2>6. k \in Len(old) + 1 .. Len(all) /\ all[k].status \in Settled
      BY DEF old, all
    <2>7. k - Len(old) \in 1 .. Len(snaps) /\ all[k] = snaps[k - Len(old)]
      BY <2>4, <2>5, <2>6
    <2>8. k - Len(old) = Len(snaps) /\ r \in OpenRuns(w) /\ runs'[r].at = "over"
      BY <2>6, <2>7
    <2>9. k = Len(all)
      BY <2>4, <2>5, <2>6, <2>8
    <2> QED BY <2>2, <2>8, <2>9 DEF all
  <1> QED BY <1>1, <1>2

\* What is known of an open run.
Wf(r) == workflows[runs[r].workflow]

LEMMA OpenRun ==
  ASSUME BoundsAssumption, IInv, NEW r \in DOMAIN runs, IsOpen(r)
  PROVE  /\ runs[r].workflow \in Workflows /\ r \in Runs /\ runs[r] \in Run /\ Wf(r) \in Snapshots
         /\ r \in OpenRuns(runs[r].workflow) /\ \A s \in OpenRuns(runs[r].workflow) : s = r
         /\ Live(runs[r], Wf(r), jobs[r][runs[r].step])
         /\ runs[r].step \in Steps(Wf(r)) /\ runs[r].step \in StepNums
         /\ Wf(r).steps[runs[r].step] \in Step /\ Wf(r).shape[runs[r].step] \in StepSpec
         /\ Steps(Wf(r)) \subseteq StepNums /\ Branches(Wf(r), runs[r].step) \subseteq BranchNums
         /\ Front(Wf(r), runs[r].step)
         /\ \A j \in StepNums, b \in Slots : jobs[r][j][b] = "live" =>
              j = runs[r].step /\ b \in runs[r].listening
  <1> DEFINE w  == runs[r].workflow
             i  == runs[r].step
             wf == workflows[w]
  <1>0. Typed /\ RunsLive /\ RunsAlone /\ LiveJobsAwaited
    BY DEF IInv
  <1>1. w \in Workflows /\ r \in Runs /\ runs[r] \in Run /\ i \in StepNums
    BY <1>0, RunsTyped
  <1>2. Live(runs[r], wf, jobs[r][i])
    BY <1>0 DEF RunsLive
  <1>3. wf \in Snapshots
    <2>1. wf.status = "running"
      BY <1>2 DEF Live
    <2>2. Unsubmitted.status = "absent"
      BY DEF Unsubmitted
    <2> QED BY <1>0, <1>1, <2>1, <2>2 DEF Typed
  <1>4. r \in OpenRuns(w) /\ \A s \in OpenRuns(w) : s = r
    BY <1>0 DEF OpenRuns, RunsAlone
  <1>5. i \in Steps(wf)
    BY <1>2 DEF Live
  <1>6. Steps(wf) \subseteq StepNums /\ wf.steps \in [StepNums -> Step] /\ wf.shape \in Seq(StepSpec)
    BY <1>3, BoundsAssumption DEF Snapshots, Sound, Steps, StepNums, Workflow
  <1>7. wf.shape[i] \in StepSpec
    BY <1>5, <1>6, ElementOfSeq DEF Steps
  <1>8. Branches(wf, i) \subseteq BranchNums
    BY <1>7, BoundsAssumption DEF Branches, BranchNums, StepSpec
  <1>9. Front(wf, i)
    <2>1. wf.steps[i].status # "pending"
      BY <1>2 DEF Live
    <2> QED BY <1>3, <1>5, <2>1 DEF Snapshots, Sound, Touched
  <1>10. \A j \in StepNums, b \in Slots : jobs[r][j][b] = "live" => j = i /\ b \in runs[r].listening
    BY <1>0, <1>1 DEF LiveJobsAwaited
  <1>11. wf = Wf(r)
    BY DEF Wf
  <1>12. wf.steps[i] \in Step
    BY <1>1, <1>6
  <1> HIDE DEF wf
  <1> QED BY <1>1, <1>2, <1>3, <1>4, <1>5, <1>6, <1>7, <1>8, <1>9, <1>10, <1>11, <1>12

\* A turn of an open run, at the end of which it is `run`.
LEMMA OwnTurnKeeps ==
  ASSUME BoundsAssumption, IInv, up, UNCHANGED <<up, jobs, disk>>,
         NEW r \in DOMAIN runs, IsOpen(r),
         NEW snaps \in Seq(Snapshots), snaps # <<>>, Save(runs[r].workflow, snaps),
         NEW run \in Run, runs' = [runs EXCEPT ![r] = run],
         run.workflow = runs[r].workflow, run.step = runs[r].step, run.listening = runs[r].listening,
         run.at = "over" => run.listening = {},
         IF run.at = "over" THEN workflows'[runs[r].workflow].status # "running"
         ELSE Live(run, workflows'[runs[r].workflow], jobs[r][runs[r].step])
  PROVE  IInv'
  <1> DEFINE w == runs[r].workflow
             i == runs[r].step
  <1>1. /\ w \in Workflows /\ r \in Runs
        /\ \A s \in OpenRuns(w) : s = r
        /\ \A j \in StepNums, b \in Slots : jobs[r][j][b] = "live" => j = i /\ b \in run.listening
    BY OpenRun
  <1>2. Typed /\ jobs \in [Runs -> [StepNums -> [Slots -> {"absent", "live"} \cup Settled]]]
    BY DEF IInv, Typed
  <1>3. /\ runs' \in Seq(Run) /\ Len(runs') <= MaxRuns /\ DOMAIN runs' = DOMAIN runs \cup {r}
        /\ runs'[r] = run /\ \A s \in DOMAIN runs : s # r => runs'[s] = runs[s]
    <2>1. runs \in Seq(Run) /\ Len(runs) <= MaxRuns /\ r \in 1 .. Len(runs) /\ DOMAIN runs = 1 .. Len(runs)
      BY <1>2 DEF Typed
    <2>2. /\ [runs EXCEPT ![r] = run] \in Seq(Run) /\ Len([runs EXCEPT ![r] = run]) = Len(runs)
          /\ \A s \in 1 .. Len(runs) : [runs EXCEPT ![r] = run][s] = IF s = r THEN run ELSE runs[s]
      BY <2>1, ExceptSeq
    <2> QED BY <2>1, <2>2
  <1>4. jobs' = jobs
    OBVIOUS
  <1>5. \A j \in StepNums, b \in Slots : jobs'[r][j][b] = "live" =>
          run.at # "over" /\ run.step = j /\ b \in run.listening
    BY <1>1, <1>4
  <1>6. IF run.at = "over" THEN workflows'[w].status # "running"
        ELSE Live(run, workflows'[w], jobs'[r][run.step])
    BY <1>4
  <1>7. /\ jobs' \in [Runs -> [StepNums -> [Slots -> {"absent", "live"} \cup Settled]]]
        /\ \A s \in Runs : s # r => jobs'[s] = jobs[s]
    BY <1>2, <1>4
  <1>8. run.workflow = w /\ runs[r].workflow = w /\ Save(w, snaps) /\ UNCHANGED <<up, disk>>
    OBVIOUS
  <1> HIDE DEF w, i
  <1> QED BY <1>1, <1>3, <1>5, <1>6, <1>7, <1>8, TurnKeeps

-----------------------------------------------------------------------------
\* One update, or two, as a sequence of snapshots.
LEMMA OneOrTwo ==
  ASSUME NEW a \in Snapshots, NEW b \in Snapshots
  PROVE  /\ <<a>> \in Seq(Snapshots) /\ <<a>> # <<>> /\ Len(<<a>>) = 1 /\ <<a>>[1] = a
         /\ <<a, b>> \in Seq(Snapshots) /\ <<a, b>> # <<>> /\ Len(<<a, b>>) = 2
         /\ <<a, b>>[1] = a /\ <<a, b>>[2] = b
  OBVIOUS

\* Putting a step in the place of one that had not completed loses no result,
\* if it has the same completed branches.
LEMMA StepKept ==
  ASSUME BoundsAssumption, NEW wf \in Snapshots, NEW i \in Steps(wf), wf.steps[i].status # "completed",
         NEW new, \A k \in StepNums : k # i => new.steps[k] = wf.steps[k],
         \A b \in Branches(wf, i) : wf.steps[i].branches[b].status = "completed" =>
           new.steps[i].branches[b] = wf.steps[i].branches[b]
  PROVE  Keeps(wf, new)
  <1>1. Steps(wf) \subseteq StepNums
    BY BoundsAssumption DEF Snapshots, Sound, Steps, StepNums
  <1> QED BY <1>1 DEF Keeps

LEMMA SingleSettledKeeps ==
  ASSUME BoundsAssumption, IInv, NEW r \in DOMAIN runs, SingleSettled(r)
  PROVE  IInv' /\ KeepsResults /\ ReportsEnd /\ StepEnds(runs[r].workflow, runs[r].step)
  <1> DEFINE w    == runs[r].workflow
             i    == runs[r].step
             wf   == workflows[w]
             step == wf.steps[i]
             won  == [step EXCEPT !.status = "completed", !.result = r]
             lost == [step EXCEPT !.status = "failed"]
             done == [wf EXCEPT !.steps = [wf.steps EXCEPT ![i] = won]]
             broken == [wf EXCEPT !.steps = [wf.steps EXCEPT ![i] = lost]]
             failed == [broken EXCEPT !.status = "failed"]
  <1>0. IsOpen(r) /\ up /\ runs[r].at = "single" /\ 0 \in runs[r].resolved /\ UNCHANGED <<up, jobs, disk>>
    BY DEF SingleSettled, IsOpen
  <1>1. /\ w \in Workflows /\ r \in Runs /\ runs[r] \in Run /\ wf \in Snapshots /\ r \in OpenRuns(w)
        /\ Live(runs[r], wf, jobs[r][i]) /\ i \in Steps(wf) /\ i \in StepNums
        /\ step \in Step /\ wf.shape[i] \in StepSpec /\ Front(wf, i)
    BY <1>0, OpenRun DEF Wf
  <1>2. /\ ~IsGroup(wf, i) /\ step.status = "running" /\ runs[r].listening = {} /\ runs[r].resolved = {0}
        /\ wf.status = "running" /\ wf.current = i
    BY <1>0, <1>1 DEF Live, Waiting
  <1>3. Branches(wf, i) = {} /\ wf.shape[i].branches = 0
    BY <1>1, <1>2 DEF IsGroup, Branches, StepSpec
  <1>4. /\ won \in Step /\ won.status = "completed" /\ won.result = r /\ r # 0
        /\ lost \in Step /\ lost.status = "failed"
    <2>1. r \in 0 .. MaxRuns /\ r # 0
      BY <1>1, BoundsAssumption DEF Runs
    <2> QED BY <1>1, <2>1 DEF Step, Settled
  <1>5. Barrier(wf.shape[i], won) /\ Barrier(wf.shape[i], lost)
    BY <1>3 DEF Barrier
  <1> HIDE DEF won, lost
  <1>6. /\ done \in Snapshots /\ done.status = wf.status /\ done.current = i /\ done.shape = wf.shape
        /\ done.steps[i] = won /\ \A k \in StepNums : k # i => done.steps[k] = wf.steps[k]
    BY <1>1, <1>2, <1>4, <1>5, WithStep
  <1>7. /\ broken \in Snapshots /\ broken.status = wf.status /\ broken.shape = wf.shape
        /\ broken.steps[i] = lost /\ \A k \in StepNums : k # i => broken.steps[k] = wf.steps[k]
    BY <1>1, <1>2, <1>4, <1>5, WithStep
  <1>8. /\ failed \in Workflow /\ failed.status = "failed" /\ failed.shape = broken.shape
        /\ failed.steps = broken.steps
    BY <1>7 DEF Snapshots, Workflow, Settled
  <1>9. failed \in Snapshots
    BY <1>7, <1>8, Relabelled
  <1>10. CASE jobs[r][i][0] = "completed"
    <2> DEFINE run == [runs[r] EXCEPT !.at = "advance", !.resolved = {}]
    <2>1. Save(w, <<done>>) /\ runs' = [runs EXCEPT ![r] = run]
      BY <1>10 DEF SingleSettled, done, won
    <2>2. /\ run \in Run /\ run.workflow = w /\ run.step = i /\ run.listening = runs[r].listening
          /\ run.at = "advance" /\ run.resolved = {}
      BY <1>1 DEF Run
    <2> HIDE DEF run, done
    <2>3. workflows'[w] = done
      <3>1. <<done>> \in Seq(Snapshots) /\ <<done>> # <<>> /\ <<done>>[Len(<<done>>)] = done
        BY <1>6, OneOrTwo
      <3>2. Typed
        BY DEF IInv
      <3> QED BY <1>1, <2>1, <3>1, <3>2, SaveStores
    <2>4. Live(run, done, jobs[r][i])
      <3>1. i + 1 \in Steps(wf) => wf.steps[i + 1].status # "completed" /\ i + 1 \in StepNums /\ i + 1 # i
        BY <1>1, <1>2, NextIncomplete
      <3>2. i + 1 \in Steps(done) => done.steps[i + 1].status # "completed"
        BY <3>1, <1>6 DEF Steps
      <3>3. i \in Steps(done) /\ done.status = "running" /\ done.current = i /\ done.steps[i].status = "completed"
        BY <1>1, <1>2, <1>4, <1>6 DEF Steps
      <3>4. run.listening = {} /\ run.resolved = {} /\ Waiting(run) = {}
        BY <1>2, <2>2 DEF Waiting
      <3> QED BY <2>2, <3>2, <3>3, <3>4 DEF Live
    <2>5. <<done>> \in Seq(Snapshots) /\ <<done>> # <<>>
      BY <1>6, OneOrTwo
    <2>6. IInv'
      BY <1>0, <2>1, <2>2, <2>3, <2>4, <2>5, OwnTurnKeeps
    <2>7. Keeps(wf, done)
      BY <1>1, <1>2, <1>3, <1>6, StepKept
    <2>8. \A k \in 1 .. Len(<<done>>) : <<done>>[k].status \notin Settled
      BY <1>2, <1>6, OneOrTwo DEF Settled
    <2>9. KeepsResults /\ ReportsEnd
      BY <1>1, <2>1, <2>3, <2>5, <2>7, <2>8, TurnShows DEF IInv
    <2>10. StepEnds(w, i)
      <3>1. i \in Incomplete(wf) /\ Incomplete(done) = Incomplete(wf) \ {i}
        BY <1>1, <1>2, <1>4, <1>6, OneStepOn
      <3>2. Leveled(<<done>>, done)
        BY <1>6, OneOrTwo, Levels DEF Leveled
      <3>3. Turn(w, done)
        BY <2>1, <2>5, <2>8, <3>2 DEF Turn, Settled
      <3> QED BY <1>2, <1>6, <2>3, <3>1, <3>3 DEF StepEnds
    <2> QED BY <2>6, <2>9, <2>10
  <1>11. CASE jobs[r][i][0] # "completed"
    <2> DEFINE run == [runs[r] EXCEPT !.at = "over", !.resolved = {}]
    <2>1. Save(w, <<broken, failed>>) /\ runs' = [runs EXCEPT ![r] = run]
      BY <1>11 DEF SingleSettled, broken, failed, lost
    <2>2. /\ run \in Run /\ run.workflow = w /\ run.step = i /\ run.listening = runs[r].listening
          /\ run.at = "over"
      BY <1>1 DEF Run
    <2>3. runs'[r].at = "over"
      BY <1>1, <2>1, <2>2 DEF OpenRuns
    <2> HIDE DEF run, broken, failed
    <2>4. <<broken, failed>> \in Seq(Snapshots) /\ <<broken, failed>> # <<>>
      BY <1>7, <1>9, OneOrTwo
    <2>5. workflows'[w] = failed
      BY <1>1, <1>7, <1>9, <2>1, <2>4, OneOrTwo, SaveStores DEF IInv
    <2>6. IInv'
      BY <1>0, <1>2, <1>8, <2>1, <2>2, <2>4, <2>5, OwnTurnKeeps
    <2>7. Keeps(wf, failed)
      BY <1>1, <1>2, <1>3, <1>7, <1>8, StepKept
    <2>8. \A k \in 1 .. Len(<<broken, failed>>) : <<broken, failed>>[k].status \in Settled =>
            k = Len(<<broken, failed>>)
      BY <1>2, <1>7, <1>9, OneOrTwo DEF Settled
    <2>9. KeepsResults /\ ReportsEnd
      BY <1>1, <2>1, <2>3, <2>4, <2>5, <2>7, <2>8, TurnShows DEF IInv
    <2>10. StepEnds(w, i)
      <3>1. i \in Incomplete(wf) /\ Level(broken, wf)
        BY <1>1, <1>2, <1>4, <1>7, OneStepOn
      <3>2. Level(failed, wf)
        BY <1>8, <3>1, Levels
      <3>3. Leveled(<<broken, failed>>, wf)
        BY <1>7, <1>9, <3>1, <3>2, OneOrTwo DEF Leveled
      <3>4. \A k \in 1 .. Len(<<broken, failed>>) : <<broken, failed>>[k].status # "completed"
        BY <1>2, <1>7, <1>8, <1>9, OneOrTwo
      <3>5. Turn(w, wf)
        BY <2>1, <2>4, <3>3, <3>4 DEF Turn
      <3> QED BY <1>8, <2>5, <3>1, <3>5 DEF StepEnds
    <2> QED BY <2>6, <2>9, <2>10
  <1> QED BY <1>10, <1>11

LEMMA BranchSettledKeeps ==
  ASSUME BoundsAssumption, IInv, NEW r \in DOMAIN runs, NEW b \in BranchNums, BranchSettled(r, b)
  PROVE  /\ IInv' /\ KeepsResults /\ ReportsEnd
         /\ Turn(runs[r].workflow, workflows[runs[r].workflow])
         /\ workflows[runs[r].workflow].status = "running" /\ workflows'[runs[r].workflow].status = "running"
  <1> DEFINE w      == runs[r].workflow
             i      == runs[r].step
             wf     == workflows[w]
             step   == wf.steps[i]
             branch == step.branches[b]
             ended  == IF jobs[r][i][b] = "completed"
                       THEN [branch EXCEPT !.status = "completed", !.result = r]
                       ELSE [branch EXCEPT !.status = "failed"]
             next   == [step EXCEPT !.branches = [step.branches EXCEPT ![b] = ended]]
             new    == [wf EXCEPT !.steps = [wf.steps EXCEPT ![i] = next]]
             run    == [runs[r] EXCEPT !.resolved = runs[r].resolved \ {b}]
  <1>0. IsOpen(r) /\ up /\ runs[r].at = "group" /\ b \in runs[r].resolved /\ UNCHANGED <<up, jobs, disk>>
    BY DEF BranchSettled, IsOpen
  <1>1. /\ w \in Workflows /\ r \in Runs /\ runs[r] \in Run /\ wf \in Snapshots /\ r \in OpenRuns(w)
        /\ Live(runs[r], wf, jobs[r][i]) /\ i \in Steps(wf) /\ i \in StepNums
        /\ step \in Step /\ wf.shape[i] \in StepSpec /\ Front(wf, i)
    BY <1>0, OpenRun DEF Wf
  <1>2. /\ IsGroup(wf, i) /\ step.status = "running" /\ wf.status = "running" /\ wf.current = i
        /\ Waiting(runs[r]) \subseteq Branches(wf, i)
        /\ \A c \in Branches(wf, i) :
             step.branches[c].status \in (IF c \in Waiting(runs[r]) THEN {"running"} ELSE Settled)
    BY <1>0, <1>1 DEF Live
  <1>3. b \in Waiting(runs[r]) /\ b \in Branches(wf, i) /\ branch.status = "running"
    BY <1>0, <1>2 DEF Waiting
  <1>4. branch \in Unit /\ step.branches \in [BranchNums -> Unit]
    BY <1>1 DEF Step
  <1>5. ended \in Unit /\ ended.status \in Settled
    <2>1. r \in 0 .. MaxRuns
      BY <1>1, BoundsAssumption DEF Runs
    <2>2. "completed" \in Settled /\ "failed" \in Settled
      BY DEF Settled
    <2>3. [branch EXCEPT !.status = "completed", !.result = r] \in Unit
      BY <1>4, <2>1, <2>2 DEF Unit
    <2>4. [branch EXCEPT !.status = "failed"] \in Unit
      BY <1>4, <2>2 DEF Unit
    <2>5. /\ [branch EXCEPT !.status = "completed", !.result = r].status = "completed"
          /\ [branch EXCEPT !.status = "failed"].status = "failed"
      BY <1>4 DEF Unit
    <2> QED BY <2>2, <2>3, <2>4, <2>5
  <1>6. /\ next \in Step /\ next.status = "running" /\ next.branches[b] = ended
        /\ \A c \in BranchNums : c # b => next.branches[c] = step.branches[c]
    <2> HIDE DEF ended
    <2> QED BY <1>1, <1>2, <1>4, <1>5 DEF Step
  <1>7. Save(w, <<new>>) /\ runs' = [runs EXCEPT ![r] = run]
    <2>1. Save(w, <<[wf EXCEPT !.steps[i].branches[b] = ended]>>)
      BY DEF BranchSettled
    <2>2. runs' = [runs EXCEPT ![r] = run]
      BY DEF BranchSettled
    <2> HIDE DEF ended
    <2>3. [wf EXCEPT !.steps[i].branches[b] = ended] = new
      BY <1>1
    <2> QED BY <2>1, <2>2, <2>3
  <1> HIDE DEF ended, next
  <1>8. /\ new \in Snapshots /\ new.status = wf.status /\ new.current = i /\ new.shape = wf.shape
        /\ new.steps[i] = next /\ \A k \in StepNums : k # i => new.steps[k] = wf.steps[k]
    <2>1. Barrier(wf.shape[i], next)
      BY <1>6 DEF Barrier, Settled
    <2> QED BY <1>1, <1>2, <1>6, <2>1, WithStep
  <1>9. /\ run \in Run /\ run.workflow = w /\ run.step = i /\ run.listening = runs[r].listening
        /\ run.at = "group" /\ run.resolved = runs[r].resolved \ {b}
    BY <1>0, <1>1 DEF Run
  <1> HIDE DEF new, run
  <1>10. <<new>> \in Seq(Snapshots) /\ <<new>> # <<>> /\ <<new>>[Len(<<new>>)] = new
    BY <1>8, OneOrTwo
  <1>11. Typed
    BY DEF IInv
  <1>12. workflows'[w] = new
    BY <1>1, <1>7, <1>10, <1>11, SaveStores
  <1>13. Live(run, new, jobs[r][i])
    <2>1. /\ new.status = "running" /\ new.current = run.step /\ run.step \in Steps(new)
          /\ run.listening \cap run.resolved = {}
          /\ \A c \in run.listening : jobs[r][i][c] = "live"
          /\ \A c \in run.resolved : jobs[r][i][c] \in Settled
          /\ IsGroup(new, i) /\ new.steps[i].status = "running" /\ Branches(new, i) = Branches(wf, i)
      BY <1>1, <1>2, <1>6, <1>8, <1>9 DEF Live, Steps, IsGroup, Branches
    <2>2. Waiting(run) = Waiting(runs[r]) \ {b}
      BY <1>0, <1>1, <1>9 DEF Waiting, Live
    <2>3. \A c \in Branches(wf, i) :
            new.steps[i].branches[c].status \in (IF c \in Waiting(run) THEN {"running"} ELSE Settled)
      <3>1. Branches(wf, i) \subseteq BranchNums
        BY <1>0, OpenRun DEF Wf
      <3> QED BY <1>2, <1>5, <1>6, <1>8, <2>2, <3>1
    <2> QED BY <1>2, <1>9, <2>1, <2>2, <2>3 DEF Live
  <1>14. IInv'
    BY <1>0, <1>7, <1>9, <1>10, <1>12, <1>13, OwnTurnKeeps
  <1>15. Keeps(wf, new)
    <2>1. Branches(wf, i) \subseteq BranchNums
      BY <1>0, OpenRun DEF Wf
    <2>2. \A c \in Branches(wf, i) : step.branches[c].status = "completed" =>
            new.steps[i].branches[c] = step.branches[c]
      BY <1>3, <1>6, <1>8, <2>1
    <2> QED BY <1>1, <1>2, <1>8, <2>2, StepKept
  <1>16. \A k \in 1 .. Len(<<new>>) : <<new>>[k].status \notin Settled
    BY <1>2, <1>8, OneOrTwo DEF Settled
  <1>17. KeepsResults /\ ReportsEnd
    BY <1>1, <1>7, <1>10, <1>11, <1>12, <1>15, <1>16, TurnShows
  <1>18. Turn(w, wf)
    <2>1. Level(new, wf)
      BY <1>1, <1>2, <1>6, <1>8, OneStepOn
    <2>2. Leveled(<<new>>, wf)
      BY <1>8, <2>1, OneOrTwo DEF Leveled
    <2> QED BY <1>7, <1>10, <1>16, <2>2 DEF Turn, Settled
  <1> QED BY <1>2, <1>8, <1>12, <1>14, <1>17, <1>18

LEMMA GroupSettledKeeps ==
  ASSUME BoundsAssumption, IInv, NEW r \in DOMAIN runs, GroupSettled(r)
  PROVE  IInv' /\ KeepsResults /\ ReportsEnd /\ StepEnds(runs[r].workflow, runs[r].step)
  <1> DEFINE w    == runs[r].workflow
             i    == runs[r].step
             wf   == workflows[w]
             step == wf.steps[i]
             failures == {b \in Branches(wf, i) : step.branches[b].status = "failed"}
             ended(s) == [step EXCEPT !.status = s, !.result = r]
             new(s)   == [wf EXCEPT !.steps = [wf.steps EXCEPT ![i] = ended(s)]]
             failed   == [new("failed") EXCEPT !.status = "failed"]
  <1>0. /\ IsOpen(r) /\ up /\ runs[r].at = "group" /\ runs[r].listening = {} /\ runs[r].resolved = {}
        /\ UNCHANGED <<up, jobs, disk>>
    BY DEF GroupSettled, IsOpen
  <1>1. /\ w \in Workflows /\ r \in Runs /\ runs[r] \in Run /\ wf \in Snapshots /\ r \in OpenRuns(w)
        /\ Live(runs[r], wf, jobs[r][i]) /\ i \in Steps(wf) /\ i \in StepNums
        /\ step \in Step /\ wf.shape[i] \in StepSpec /\ Front(wf, i)
    BY <1>0, OpenRun DEF Wf
  <1>2. /\ step.status = "running" /\ wf.status = "running" /\ wf.current = i
        /\ \A b \in Branches(wf, i) : step.branches[b].status \in Settled
    BY <1>0, <1>1 DEF Live, Waiting
  <1>3. r \in 0 .. MaxRuns /\ r # 0
    BY <1>1, BoundsAssumption DEF Runs
  <1>4. ASSUME NEW s \in Settled
        PROVE  /\ ended(s) \in Step /\ ended(s).status = s /\ ended(s).result = r
               /\ ended(s).branches = step.branches
    BY <1>1, <1>3 DEF Step
  <1> HIDE DEF ended
  <1>5. ASSUME NEW s \in Settled, s = "completed" => failures = {} \/ wf.shape[i].continueOnError
        PROVE  Barrier(wf.shape[i], ended(s))
    BY <1>2, <1>4, <1>5 DEF Barrier, Settled, InFlight, Branches
  <1>6. ASSUME NEW s \in Settled, s = "completed" => failures = {} \/ wf.shape[i].continueOnError
        PROVE  /\ new(s) \in Snapshots /\ new(s).status = wf.status /\ new(s).current = i
               /\ new(s).shape = wf.shape /\ new(s).steps[i] = ended(s)
               /\ \A k \in StepNums : k # i => new(s).steps[k] = wf.steps[k]
    <2>1. Barrier(wf.shape[i], ended(s)) /\ ended(s) \in Step /\ ended(s).result # 0
      BY <1>3, <1>4, <1>5, <1>6
    <2> QED BY <1>1, <1>2, <2>1, WithStep
  <1>7. Typed
    BY DEF IInv
  <1>8. CASE failures # {} /\ ~wf.shape[i].continueOnError
    <2> DEFINE run == [runs[r] EXCEPT !.at = "over"]
               broken == new("failed")
    <2>1. Save(w, <<broken, failed>>) /\ runs' = [runs EXCEPT ![r] = run]
      BY <1>8 DEF GroupSettled, ended
    <2>2. /\ broken \in Snapshots /\ broken.status = "running" /\ broken.shape = wf.shape
          /\ broken.steps[i] = ended("failed") /\ \A k \in StepNums : k # i => broken.steps[k] = wf.steps[k]
      BY <1>2, <1>6 DEF Settled
    <2> HIDE DEF new
    <2>3. /\ failed \in Workflow /\ failed.status = "failed" /\ failed.shape = broken.shape
          /\ failed.steps = broken.steps
      BY <2>2 DEF Snapshots, Workflow, Settled
    <2>4. failed \in Snapshots
      BY <2>2, <2>3, Relabelled
    <2>5. /\ run \in Run /\ run.workflow = w /\ run.step = i /\ run.listening = runs[r].listening
          /\ run.at = "over"
      BY <1>1 DEF Run
    <2>6. runs'[r].at = "over"
      BY <1>1, <2>1, <2>5 DEF OpenRuns
    <2> HIDE DEF run, broken, failed
    <2>7. <<broken, failed>> \in Seq(Snapshots) /\ <<broken, failed>> # <<>>
      BY <2>2, <2>4, OneOrTwo
    <2>8. workflows'[w] = failed
      <3>1. <<broken, failed>>[Len(<<broken, failed>>)] = failed
        BY <2>2, <2>4, OneOrTwo
      <3> QED BY <1>1, <1>7, <2>1, <2>7, <3>1, SaveStores
    <2>9. IInv'
      BY <1>0, <2>1, <2>3, <2>5, <2>7, <2>8, OwnTurnKeeps
    <2>10. Keeps(wf, failed)
      <3>1. failed.steps[i].branches = step.branches
        BY <1>4, <2>2, <2>3 DEF Settled
      <3> QED BY <1>1, <1>2, <2>2, <2>3, <3>1, StepKept
    <2>11. \A k \in 1 .. Len(<<broken, failed>>) : <<broken, failed>>[k].status \in Settled =>
             k = Len(<<broken, failed>>)
      BY <2>2, <2>4, OneOrTwo DEF Settled
    <2>12. KeepsResults /\ ReportsEnd
      BY <1>1, <1>7, <2>1, <2>6, <2>7, <2>8, <2>10, <2>11, TurnShows
    <2>13. StepEnds(w, i)
      <3>0. ended("failed").status = "failed"
        BY <1>4 DEF Settled
      <3>1. i \in Incomplete(wf) /\ Level(broken, wf)
        BY <1>1, <1>2, <2>2, <3>0, OneStepOn
      <3>2. Level(failed, wf)
        BY <2>3, <3>1, Levels
      <3>3. Leveled(<<broken, failed>>, wf)
        BY <2>2, <2>4, <3>1, <3>2, OneOrTwo DEF Leveled
      <3>4. \A k \in 1 .. Len(<<broken, failed>>) : <<broken, failed>>[k].status # "completed"
        BY <2>2, <2>3, <2>4, OneOrTwo
      <3>5. Turn(w, wf)
        BY <2>1, <2>7, <3>3, <3>4 DEF Turn
      <3> QED BY <2>3, <2>8, <3>1, <3>5 DEF StepEnds
    <2> QED BY <2>9, <2>12, <2>13
  <1>9. CASE failures = {} \/ wf.shape[i].continueOnError
    <2> DEFINE run  == [runs[r] EXCEPT !.at = "advance"]
               done == new("completed")
    <2>1. Save(w, <<done>>) /\ runs' = [runs EXCEPT ![r] = run]
      BY <1>9 DEF GroupSettled, ended
    <2>2. /\ done \in Snapshots /\ done.status = "running" /\ done.current = i /\ done.shape = wf.shape
          /\ done.steps[i] = ended("completed") /\ \A k \in StepNums : k # i => done.steps[k] = wf.steps[k]
      BY <1>2, <1>6, <1>9 DEF Settled
    <2>3. ended("completed").status = "completed" /\ ended("completed").branches = step.branches
      BY <1>4 DEF Settled
    <2>4. /\ run \in Run /\ run.workflow = w /\ run.step = i /\ run.listening = {}
          /\ run.at = "advance" /\ run.resolved = {}
      BY <1>0, <1>1 DEF Run
    <2> HIDE DEF run, done
    <2>5. <<done>> \in Seq(Snapshots) /\ <<done>> # <<>> /\ <<done>>[Len(<<done>>)] = done
      BY <2>2, OneOrTwo
    <2>6. workflows'[w] = done
      BY <1>1, <1>7, <2>1, <2>5, SaveStores
    <2>7. Live(run, done, jobs[r][i])
      <3>1. i + 1 \in Steps(wf) => wf.steps[i + 1].status # "completed" /\ i + 1 \in StepNums /\ i + 1 # i
        BY <1>1, <1>2, NextIncomplete
      <3>2. i + 1 \in Steps(done) => done.steps[i + 1].status # "completed"
        BY <3>1, <2>2 DEF Steps
      <3> QED BY <1>1, <1>2, <2>2, <2>3, <2>4, <3>2 DEF Live, Waiting, Steps
    <2>8. IInv'
      BY <1>0, <2>1, <2>4, <2>5, <2>6, <2>7, OwnTurnKeeps
    <2>9. Keeps(wf, done)
      BY <1>1, <1>2, <2>2, <2>3, StepKept
    <2>10. \A k \in 1 .. Len(<<done>>) : <<done>>[k].status \notin Settled
      BY <2>2, OneOrTwo DEF Settled
    <2>11. KeepsResults /\ ReportsEnd
      BY <1>1, <1>7, <2>1, <2>5, <2>6, <2>9, <2>10, TurnShows
    <2>12. StepEnds(w, i)
      <3>1. i \in Incomplete(wf) /\ Incomplete(done) = Incomplete(wf) \ {i}
        BY <1>1, <1>2, <2>2, <2>3, OneStepOn
      <3>2. Leveled(<<done>>, done)
        BY <2>2, OneOrTwo, Levels DEF Leveled
      <3>3. Turn(w, done)
        BY <2>1, <2>5, <2>10, <3>2 DEF Turn, Settled
      <3> QED BY <2>2, <2>6, <3>1, <3>3 DEF StepEnds
    <2> QED BY <2>8, <2>11, <2>12
  <1> QED BY <1>8, <1>9

-----------------------------------------------------------------------------
\* Runs of updates that settle nothing.
Quiet(snaps) == \A k \in 1 .. Len(snaps) : snaps[k].status \notin Settled

LEMMA QuietAppend ==
  ASSUME NEW snaps \in Seq(Snapshots), Quiet(snaps), NEW wf \in Snapshots
  PROVE  /\ Append(snaps, wf) \in Seq(Snapshots) /\ Append(snaps, wf) # <<>>
         /\ Append(snaps, wf)[Len(Append(snaps, wf))] = wf
         /\ \A k \in 1 .. Len(Append(snaps, wf)) : Append(snaps, wf)[k].status \in Settled =>
              k = Len(Append(snaps, wf)) /\ wf.status \in Settled
         /\ wf.status \notin Settled => Quiet(Append(snaps, wf))
  <1> DEFINE all == Append(snaps, wf)
  <1>1. /\ all \in Seq(Snapshots) /\ all # <<>> /\ Len(all) = Len(snaps) + 1 /\ Len(snaps) \in Nat
        /\ all[Len(snaps) + 1] = wf /\ \A k \in 1 .. Len(snaps) : all[k] = snaps[k]
    BY AppendProperties
  <1> HIDE DEF all
  <1>2. \A k \in 1 .. Len(all) : all[k].status \in Settled => k = Len(all) /\ wf.status \in Settled
    BY <1>1 DEF Quiet
  <1>3. wf.status \notin Settled => Quiet(all)
    BY <1>2 DEF Quiet
  <1> QED BY <1>1, <1>2, <1>3 DEF all

LEMMA QuietConcat ==
  ASSUME NEW front \in Seq(Snapshots), Quiet(front), NEW back \in Seq(Snapshots), Quiet(back)
  PROVE  /\ front \o back \in Seq(Snapshots) /\ Quiet(front \o back)
         /\ back # <<>> => /\ front \o back # <<>>
                           /\ (front \o back)[Len(front \o back)] = back[Len(back)]
         /\ back = <<>> => front \o back = front
  <1> DEFINE all == front \o back
  <1>1. /\ all \in Seq(Snapshots) /\ Len(all) = Len(front) + Len(back)
        /\ Len(front) \in Nat /\ Len(back) \in Nat
        /\ \A k \in 1 .. Len(front) + Len(back) : all[k] = IF k <= Len(front) THEN front[k] ELSE back[k - Len(front)]
    BY ConcatProperties
  <1>2. back = <<>> => all = front
    BY ConcatEmptySeq
  <1> HIDE DEF all
  <1>3. Quiet(all)
    <2> SUFFICES ASSUME NEW k \in 1 .. Len(all) PROVE all[k].status \notin Settled
      BY DEF Quiet
    <2>1. CASE k <= Len(front)
      BY <1>1, <2>1 DEF Quiet
    <2>2. CASE ~(k <= Len(front))
      <3>1. k - Len(front) \in 1 .. Len(back) /\ all[k] = back[k - Len(front)]
        BY <1>1, <2>2
      <3> QED BY <3>1 DEF Quiet
    <2> QED BY <2>1, <2>2
  <1>4. ASSUME back # <<>> PROVE all # <<>> /\ all[Len(all)] = back[Len(back)]
    <2>1. Len(back) > 0
      BY <1>1, <1>4, EmptySeq
    <2>2. Len(all) > Len(front) /\ Len(all) - Len(front) = Len(back) /\ Len(all) \in 1 .. Len(front) + Len(back)
      BY <1>1, <2>1
    <2> QED BY <1>1, <2>2, EmptySeq
  <1> QED BY <1>1, <1>2, <1>3, <1>4 DEF all

\* What dispatching jobs for the slots of a step starts.
LEMMA DispatchStarts ==
  ASSUME NEW r \in Runs, NEW i \in StepNums, NEW at, NEW slots, NEW rs \in Seq(Run),
         BoundsAssumption, Typed, at \in {"single", "group"}, slots \subseteq Slots,
         Len(rs) <= MaxRuns, r \in 1 .. Len(rs),
         \A j \in StepNums, b \in Slots : jobs[r][j][b] # "live",
         Dispatch(rs, r, i, at, slots)
  PROVE  /\ jobs' \in [Runs -> [StepNums -> [Slots -> {"absent", "live"} \cup Settled]]]
         /\ \A s \in Runs : s # r => jobs'[s] = jobs[s]
         /\ \A j \in StepNums, b \in Slots : jobs'[r][j][b] = "live" <=> j = i /\ b \in slots
         /\ runs' \in Seq(Run) /\ Len(runs') <= MaxRuns /\ DOMAIN runs' = DOMAIN rs
         /\ \A s \in DOMAIN rs : s # r => runs'[s] = rs[s]
         /\ runs'[r] \in Run /\ runs'[r].workflow = rs[r].workflow /\ runs'[r].step = i /\ runs'[r].at = at
         /\ runs'[r].listening = slots /\ runs'[r].resolved = {}
  <1> DEFINE run == [rs[r] EXCEPT !.step = i, !.at = at, !.listening = slots, !.resolved = {}]
             live == [b \in Slots |-> IF b \in slots THEN "live" ELSE jobs[r][i][b]]
  <1>1. rs[r] \in Run
    BY ElementOfSeq
  <1>2. /\ run \in Run /\ run.workflow = rs[r].workflow /\ run.step = i /\ run.at = at
        /\ run.listening = slots /\ run.resolved = {}
    BY <1>1 DEF Run
  <1>3. runs' = [rs EXCEPT ![r] = run]
    BY DEF Dispatch
  <1>4. /\ [rs EXCEPT ![r] = run] \in Seq(Run) /\ Len([rs EXCEPT ![r] = run]) = Len(rs)
        /\ \A s \in 1 .. Len(rs) : [rs EXCEPT ![r] = run][s] = IF s = r THEN run ELSE rs[s]
    BY <1>2, ExceptSeq
  <1> HIDE DEF run
  <1>5. DOMAIN rs = 1 .. Len(rs) /\ DOMAIN runs' = 1 .. Len(rs)
    BY <1>3
  <1>6. /\ jobs \in [Runs -> [StepNums -> [Slots -> {"absent", "live"} \cup Settled]]]
        /\ live \in [Slots -> {"absent", "live"} \cup Settled]
    BY DEF Typed
  <1>7. jobs' = [jobs EXCEPT ![r] = [jobs[r] EXCEPT ![i] = live]]
    BY <1>6 DEF Dispatch
  <1>8. \A b \in Slots : live[b] = "live" <=> b \in slots
    OBVIOUS
  <1> HIDE DEF live
  <1>9. /\ jobs' \in [Runs -> [StepNums -> [Slots -> {"absent", "live"} \cup Settled]]]
        /\ \A s \in Runs : s # r => jobs'[s] = jobs[s]
        /\ jobs'[r][i] = live /\ \A j \in StepNums : j # i => jobs'[r][j] = jobs[r][j]
    BY <1>6, <1>7
  <1>10. \A j \in StepNums, b \in Slots : jobs'[r][j][b] = "live" <=> j = i /\ b \in slots
    BY <1>8, <1>9
  <1>11. /\ runs' \in Seq(Run) /\ Len(runs') <= MaxRuns /\ DOMAIN runs' = DOMAIN rs
         /\ \A s \in DOMAIN rs : s # r => runs'[s] = rs[s]
    BY <1>3, <1>4, <1>5
  <1>12. runs'[r] = run
    BY <1>3, <1>4
  <1> QED BY <1>2, <1>9, <1>10, <1>11, <1>12

-----------------------------------------------------------------------------
\* The place of a branch among those a group has to run.
Rank(wf, i, b) == Cardinality({c \in Todo(wf, i) : c <= b})

LEMMA RankBounded ==
  ASSUME BoundsAssumption, NEW wf, NEW i, Branches(wf, i) \subseteq BranchNums, NEW b
  PROVE  /\ Cardinality(Todo(wf, i)) \in Nat /\ Rank(wf, i, b) \in Nat
         /\ Rank(wf, i, b) <= Cardinality(Todo(wf, i))
         /\ Cardinality(Todo(wf, i)) = 0 => Todo(wf, i) = {}
  <1>1. IsFiniteSet(BranchNums)
    BY BoundsAssumption, FS_Interval DEF BranchNums
  <1>2. Todo(wf, i) \in SUBSET BranchNums
    BY DEF Todo
  <1>3. IsFiniteSet(Todo(wf, i)) /\ Cardinality(Todo(wf, i)) \in Nat
    BY <1>1, <1>2, FS_Subset, FS_CardinalityType
  <1> DEFINE upToB == {c \in Todo(wf, i) : c <= b}
  <1>4. upToB \in SUBSET Todo(wf, i)
    OBVIOUS
  <1>5. IsFiniteSet(upToB) /\ Cardinality(upToB) <= Cardinality(Todo(wf, i)) /\ Cardinality(upToB) \in Nat
    BY <1>3, <1>4, FS_Subset, FS_CardinalityType
  <1>6. Cardinality(Todo(wf, i)) = 0 => Todo(wf, i) = {}
    BY <1>3, FS_EmptySet
  <1> QED BY <1>3, <1>5, <1>6 DEF Rank

\* A group whose branches are being submitted is a sound snapshot, in which
\* those that had completed are as they were.
LEMMA UpToSound ==
  ASSUME BoundsAssumption, NEW wf \in Snapshots, NEW i \in Steps(wf), NEW r \in Runs, NEW k, NEW last \in Unit,
         wf.steps[i].status = "running", wf.steps[i] \in Step, Front(wf, i)
  PROVE  LET new == UpTo(wf, i, r, k, last) IN
         /\ new \in Snapshots
         /\ new.status = wf.status /\ new.current = wf.current /\ new.shape = wf.shape
         /\ new.steps[i].status = "running" /\ \A j \in StepNums : j # i => new.steps[j] = wf.steps[j]
         /\ \A b \in BranchNums : b \notin Todo(wf, i) =>
              new.steps[i].branches[b] = wf.steps[i].branches[b]
         /\ \A b \in Todo(wf, i) \cap BranchNums : Rank(wf, i, b) \in Nat /\ k \in Nat /\ Rank(wf, i, b) <= k =>
              new.steps[i].branches[b].status \in {"running", last.status}
  <1> DEFINE step == wf.steps[i]
             unit == [status |-> "running", job |-> r, result |-> 0]
             branches == [b \in BranchNums |->
                            IF b \notin Todo(wf, i) \/ Rank(wf, i, b) > k THEN step.branches[b]
                            ELSE IF Rank(wf, i, b) = k THEN last ELSE unit]
             next == [step EXCEPT !.branches = branches]
             new  == [wf EXCEPT !.steps = [wf.steps EXCEPT ![i] = next]]
  <1>1. unit \in Unit /\ unit.status = "running"
    BY BoundsAssumption DEF Unit, Runs, InFlight
  <1> HIDE DEF unit
  <1>2. step.branches \in [BranchNums -> Unit]
    BY DEF Step
  <1>3. branches \in [BranchNums -> Unit]
    BY <1>1, <1>2
  <1>4. UpTo(wf, i, r, k, last) = new
    BY DEF UpTo, Rank, unit
  <1>5. /\ \A b \in BranchNums : b \notin Todo(wf, i) => branches[b] = step.branches[b]
        /\ \A b \in Todo(wf, i) \cap BranchNums : Rank(wf, i, b) \in Nat /\ k \in Nat /\ Rank(wf, i, b) <= k =>
             branches[b].status \in {"running", last.status}
    BY <1>1
  <1> HIDE DEF branches
  <1>6. next \in Step /\ next.status = "running" /\ next.branches = branches
    BY <1>3 DEF Step
  <1> HIDE DEF next
  <1>7. Barrier(wf.shape[i], next)
    BY <1>6 DEF Barrier, Settled
  <1>8. /\ new \in Snapshots
        /\ new.status = wf.status /\ new.current = wf.current /\ new.shape = wf.shape
        /\ new.steps[i] = next /\ \A j \in StepNums : j # i => new.steps[j] = wf.steps[j]
    BY <1>6, <1>7, WithStep
  <1> HIDE DEF new
  <1> QED BY <1>4, <1>5, <1>6, <1>8

LEMMA SubmittingSound ==
  ASSUME BoundsAssumption, NEW wf \in Snapshots, NEW i \in Steps(wf), NEW r \in Runs, NEW k \in Nat,
         wf.steps[i].status = "running", wf.steps[i] \in Step, Front(wf, i),
         Branches(wf, i) \subseteq BranchNums
  PROVE  LET new == Submitting(wf, i, r, k) IN
         /\ new \in Snapshots
         /\ new.status = wf.status /\ new.current = wf.current /\ new.shape = wf.shape
         /\ new.steps[i].status = "running" /\ \A j \in StepNums : j # i => new.steps[j] = wf.steps[j]
         /\ \A b \in BranchNums : b \notin Todo(wf, i) =>
              new.steps[i].branches[b] = wf.steps[i].branches[b]
         /\ k = 2 * Cardinality(Todo(wf, i)) => \A b \in Todo(wf, i) : new.steps[i].branches[b].status = "running"
  <1> DEFINE queued  == [status |-> "queued", job |-> 0, result |-> 0]
             running == [status |-> "running", job |-> r, result |-> 0]
  <1>1. queued \in Unit /\ running \in Unit /\ running.status = "running"
    BY BoundsAssumption DEF Unit, Runs, InFlight
  <1>2. Submitting(wf, i, r, k) = IF k % 2 = 1 THEN UpTo(wf, i, r, (k + 1) \div 2, queued)
                                  ELSE UpTo(wf, i, r, k \div 2, running)
    BY DEF Submitting
  <1> HIDE DEF queued, running
  <1>3. CASE k % 2 = 1
    <2>1. k # 2 * Cardinality(Todo(wf, i))
      <3> DEFINE count == Cardinality(Todo(wf, i))
      <3>1. count \in Nat
        BY RankBounded
      <3> HIDE DEF count
      <3>2. k # 2 * count
        BY <1>3, <3>1
      <3> QED BY <3>2 DEF count
    <2> QED BY <1>1, <1>2, <1>3, <2>1, UpToSound
  <1>4. CASE k % 2 # 1
    <2> DEFINE new == UpTo(wf, i, r, k \div 2, running)
    <2>1. /\ new \in Snapshots
          /\ new.status = wf.status /\ new.current = wf.current /\ new.shape = wf.shape
          /\ new.steps[i].status = "running" /\ \A j \in StepNums : j # i => new.steps[j] = wf.steps[j]
          /\ \A b \in BranchNums : b \notin Todo(wf, i) =>
               new.steps[i].branches[b] = wf.steps[i].branches[b]
          /\ \A b \in Todo(wf, i) \cap BranchNums :
               Rank(wf, i, b) \in Nat /\ (k \div 2) \in Nat /\ Rank(wf, i, b) <= k \div 2 =>
                 new.steps[i].branches[b].status \in {"running", running.status}
      BY <1>1, UpToSound
    <2>2. ASSUME k = 2 * Cardinality(Todo(wf, i)), NEW b \in Todo(wf, i)
          PROVE  new.steps[i].branches[b].status = "running"
      <3> DEFINE count == Cardinality(Todo(wf, i))
      <3>1. count \in Nat /\ Rank(wf, i, b) \in Nat /\ Rank(wf, i, b) <= count
        BY RankBounded
      <3> HIDE DEF count
      <3>2. k \div 2 = count
        <4>1. k = 2 * count
          BY <2>2 DEF count
        <4> QED BY <3>1, <4>1
      <3>3. b \in Todo(wf, i) \cap BranchNums
        BY DEF Todo
      <3> HIDE DEF new
      <3> QED BY <1>1, <2>1, <3>1, <3>2, <3>3
    <2> HIDE DEF new
    <2>3. Submitting(wf, i, r, k) = new
      BY <1>2, <1>4 DEF new
    <2> QED BY <2>1, <2>2, <2>3
  <1> QED BY <1>3, <1>4

-----------------------------------------------------------------------------
\* Run r of w, among the runs rs, is about to take up the i-th step of wf, its
\* turn having made the updates in `saved`.
Ready(w, r, i, wf, saved, rs) ==
  /\ w \in Workflows /\ r \in Runs /\ wf \in Snapshots /\ saved \in Seq(Snapshots) /\ Quiet(saved)
  /\ Leveled(saved, wf)
  /\ rs \in Seq(Run) /\ Len(rs) <= MaxRuns /\ r \in 1 .. Len(rs) /\ DOMAIN rs = DOMAIN runs \cup {r}
  /\ rs[r].workflow = w /\ rs[r].listening = {} /\ rs[r].resolved = {}
  /\ \A s \in DOMAIN runs : s # r => rs[s] = runs[s]
  /\ r \in DOMAIN runs => runs[r].workflow = w
  /\ \A s \in OpenRuns(w) : s = r
  /\ \A j \in StepNums, b \in Slots : jobs[r][j][b] # "live"
  /\ i \in 1 .. MaxSteps + 1 /\ Front(wf, i)
  /\ i \in Steps(wf) => wf.steps[i].status # "completed"
  /\ i \notin Steps(wf) => r \in OpenRuns(w)
  /\ Keeps(workflows[w], wf)
  /\ workflows[w] = Unsubmitted \/ workflows[w].shape = wf.shape

LEMMA KeepsOn ==
  ASSUME NEW old, NEW wf, NEW new, Keeps(old, wf), Keeps(wf, new), old = Unsubmitted \/ old.shape = wf.shape
  PROVE  Keeps(old, new)
  <1>1. CASE old = Unsubmitted
    <2> DEFINE none == <<>>
    <2>1. Len(none) = 0
      BY EmptySeq
    <2>2. old.shape = none
      BY <1>1 DEF Unsubmitted
    <2> HIDE DEF none
    <2>3. Steps(old) = {}
      BY <2>1, <2>2 DEF Steps
    <2> QED BY <2>3 DEF Keeps
  <1>2. CASE old.shape = wf.shape
    BY <1>2 DEF Keeps, Steps, Branches
  <1> QED BY <1>1, <1>2

\* The turn dispatched jobs for slots of that step, and `new` was its last update.
Dispatched(r, i, wf, rs, new, at, slots) ==
  /\ at \in {"single", "group"} /\ slots \subseteq Slots /\ Dispatch(rs, r, i, at, slots)
  /\ Keeps(wf, new)
  /\ Live(runs'[r], new, jobs'[r][i])

LEMMA StartKeeps ==
  ASSUME NEW w, NEW r, NEW i, NEW wf, NEW saved, NEW rs, NEW snaps \in Seq(Snapshots), NEW at, NEW slots,
         BoundsAssumption, IInv, up, UNCHANGED <<up, disk>>,
         Ready(w, r, i, wf, saved, rs), i \in StepNums,
         Quiet(snaps), Leveled(snaps, wf), snaps # <<>>, Save(w, snaps),
         Dispatched(r, i, wf, rs, snaps[Len(snaps)], at, slots)
  PROVE  IInv' /\ KeepsResults /\ ReportsEnd /\ Turn(w, wf) /\ workflows'[w].status = "running"
  <1>1. Typed /\ w \in Workflows /\ r \in Runs
    BY DEF IInv, Ready
  <1>2. /\ jobs' \in [Runs -> [StepNums -> [Slots -> {"absent", "live"} \cup Settled]]]
        /\ \A s \in Runs : s # r => jobs'[s] = jobs[s]
        /\ \A j \in StepNums, b \in Slots : jobs'[r][j][b] = "live" <=> j = i /\ b \in slots
        /\ runs' \in Seq(Run) /\ Len(runs') <= MaxRuns /\ DOMAIN runs' = DOMAIN rs
        /\ \A s \in DOMAIN rs : s # r => runs'[s] = rs[s]
        /\ runs'[r] \in Run /\ runs'[r].workflow = rs[r].workflow /\ runs'[r].step = i /\ runs'[r].at = at
        /\ runs'[r].listening = slots /\ runs'[r].resolved = {}
    <2>1. /\ rs \in Seq(Run) /\ Len(rs) <= MaxRuns /\ r \in 1 .. Len(rs)
          /\ \A j \in StepNums, b \in Slots : jobs[r][j][b] # "live"
      BY DEF Ready
    <2>2. at \in {"single", "group"} /\ slots \subseteq Slots /\ Dispatch(rs, r, i, at, slots)
      BY DEF Dispatched
    <2> QED BY <1>1, <2>1, <2>2, DispatchStarts
  <1>3. workflows'[w] = snaps[Len(snaps)]
    BY <1>1, SaveStores
  <1>4. IInv'
    <2>0. PICK run \in Run : run = runs'[r]
      BY <1>2
    <2>1. run.workflow = w
      BY <1>2, <2>0 DEF Ready
    <2>2. \A s \in OpenRuns(w) : s = r
      BY DEF Ready
    <2>3. /\ runs' \in Seq(Run) /\ Len(runs') <= MaxRuns /\ DOMAIN runs' = DOMAIN runs \cup {r}
          /\ \A s \in DOMAIN runs : s # r => runs'[s] = runs[s]
      BY <1>2 DEF Ready
    <2>4. r \in DOMAIN runs => runs[r].workflow = w
      BY DEF Ready
    <2>5. \A j \in StepNums, b \in Slots : jobs'[r][j][b] = "live" =>
            run.at # "over" /\ run.step = j /\ b \in run.listening
      <3>1. at # "over"
        BY DEF Dispatched
      <3> QED BY <1>2, <2>0, <3>1
    <2>6. IF run.at = "over" THEN workflows'[w].status # "running"
          ELSE Live(run, workflows'[w], jobs'[r][run.step])
      BY <1>2, <1>3, <2>0 DEF Dispatched
    <2>7. runs'[r] = run
      BY <2>0
    <2>8. UNCHANGED <<up, disk>> /\ snaps # <<>> /\ Save(w, snaps)
      OBVIOUS
    <2>9. /\ jobs' \in [Runs -> [StepNums -> [Slots -> {"absent", "live"} \cup Settled]]]
          /\ \A s \in Runs : s # r => jobs'[s] = jobs[s]
      BY <1>2
    <2>10. w \in Workflows /\ r \in Runs
      BY <1>1
    <2> QED BY <2>1, <2>2, <2>3, <2>4, <2>5, <2>6, <2>7, <2>8, <2>9, <2>10, TurnKeeps
  <1>5. Keeps(workflows[w], workflows'[w])
    BY <1>3, KeepsOn DEF Ready, Dispatched
  <1>6. KeepsResults /\ ReportsEnd
    BY <1>1, <1>5, TurnShows DEF Quiet
  <1>7. Turn(w, wf)
    BY DEF Turn, Quiet, Settled
  <1>8. workflows'[w].status = "running"
    BY <1>3 DEF Dispatched, Live
  <1> QED BY <1>4, <1>6, <1>7, <1>8

\* What a step looks like when work on it has begun: the fields a status needs.
LEMMA StepStarted ==
  ASSUME NEW wf \in Snapshots, NEW i \in Steps(wf), NEW step \in Step,
         BoundsAssumption, Front(wf, i), wf.steps[i].status # "completed",
         step.status \in InFlight, step.branches = wf.steps[i].branches
  PROVE  LET new == [wf EXCEPT !.steps = [wf.steps EXCEPT ![i] = step]] IN
         /\ new \in Snapshots
         /\ new.status = wf.status /\ new.current = wf.current /\ new.shape = wf.shape
         /\ new.steps[i] = step /\ \A k \in StepNums : k # i => new.steps[k] = wf.steps[k]
         /\ Keeps(wf, new) /\ Level(new, wf)
  <1> DEFINE new == [wf EXCEPT !.steps = [wf.steps EXCEPT ![i] = step]]
  <1>1. Barrier(wf.shape[i], step) /\ step.status # "completed"
    BY DEF Barrier, InFlight, Settled
  <1>2. /\ new \in Snapshots
        /\ new.status = wf.status /\ new.current = wf.current /\ new.shape = wf.shape
        /\ new.steps[i] = step /\ \A k \in StepNums : k # i => new.steps[k] = wf.steps[k]
    BY <1>1, WithStep
  <1> HIDE DEF new
  <1>3. Keeps(wf, new)
    BY <1>2, StepKept
  <1>4. Level(new, wf)
    BY <1>1, <1>2, OneStepOn
  <1> QED BY <1>2, <1>3, <1>4 DEF new

LEMMA RunSingleKeeps ==
  ASSUME NEW w, NEW r, NEW i, NEW wf, NEW saved, NEW rs,
         BoundsAssumption, IInv, up, UNCHANGED <<up, disk>>,
         Ready(w, r, i, wf, saved, rs), i \in Steps(wf), i \in StepNums, ~IsGroup(wf, i),
         wf.status = "running", wf.current = i,
         RunSingle(w, r, i, wf, saved, rs)
  PROVE  IInv' /\ KeepsResults /\ ReportsEnd /\ Turn(w, wf) /\ workflows'[w].status = "running"
  <1> DEFINE step    == wf.steps[i]
             waiting == [step EXCEPT !.status = "queued"]
             working == [step EXCEPT !.status = "running", !.job = r]
             queued  == [wf EXCEPT !.steps = [wf.steps EXCEPT ![i] = waiting]]
             running == [wf EXCEPT !.steps = [wf.steps EXCEPT ![i] = working]]
             snaps   == saved \o <<queued, running>>
  <1>1. /\ wf \in Snapshots /\ r \in Runs /\ saved \in Seq(Snapshots) /\ Quiet(saved)
        /\ Leveled(saved, wf) /\ Front(wf, i) /\ step.status # "completed"
    BY DEF Ready
  <1>2. step \in Step
    BY <1>1 DEF Snapshots, Workflow
  <1>3. r \in 0 .. MaxRuns
    BY <1>1, BoundsAssumption DEF Runs
  <1>4. /\ waiting \in Step /\ waiting.status = "queued" /\ waiting.branches = step.branches
        /\ working \in Step /\ working.status = "running" /\ working.branches = step.branches
    BY <1>2, <1>3 DEF Step, InFlight
  <1>5. Save(w, snaps) /\ Dispatch(rs, r, i, "single", {0})
    BY DEF RunSingle
  <1> HIDE DEF waiting, working
  <1>6. /\ queued \in Snapshots /\ queued.status = "running" /\ Level(queued, wf)
    BY <1>1, <1>4, StepStarted DEF InFlight
  <1>7. /\ running \in Snapshots /\ running.status = "running" /\ running.current = i /\ running.shape = wf.shape
        /\ running.steps[i] = working /\ Keeps(wf, running) /\ Level(running, wf)
    BY <1>1, <1>4, StepStarted DEF InFlight
  <1> HIDE DEF queued, running
  <1>8. <<queued, running>> \in Seq(Snapshots) /\ Quiet(<<queued, running>>) /\ <<queued, running>> # <<>>
        /\ <<queued, running>>[Len(<<queued, running>>)] = running
    BY <1>6, <1>7, OneOrTwo DEF Quiet, Settled
  <1>9. /\ snaps \in Seq(Snapshots) /\ Quiet(snaps) /\ snaps # <<>> /\ snaps[Len(snaps)] = running
        /\ Leveled(snaps, wf)
    <2>1. Leveled(<<queued, running>>, wf)
      BY <1>6, <1>7, OneOrTwo DEF Leveled
    <2> QED BY <1>1, <1>8, <2>1, QuietConcat, LeveledConcat
  <1> HIDE DEF snaps
  <1>10. /\ jobs'[r][i][0] = "live" /\ runs'[r].step = i /\ runs'[r].at = "single"
         /\ runs'[r].listening = {0} /\ runs'[r].resolved = {} /\ {0} \subseteq Slots
    <2>1. {0} \subseteq Slots
      BY BoundsAssumption DEF Slots
    <2>2. /\ rs \in Seq(Run) /\ Len(rs) <= MaxRuns /\ r \in 1 .. Len(rs)
          /\ \A j \in StepNums, b \in Slots : jobs[r][j][b] # "live"
      BY DEF Ready
    <2>3. Typed
      BY DEF IInv
    <2> QED BY <1>1, <1>5, <2>1, <2>2, <2>3, DispatchStarts
  <1>11. Live(runs'[r], running, jobs'[r][i])
    <2>1. Waiting(runs'[r]) = {0}
      BY <1>10 DEF Waiting
    <2>2. ~IsGroup(running, i) /\ i \in Steps(running)
      BY <1>7 DEF IsGroup, Steps
    <2> QED BY <1>4, <1>7, <1>10, <2>1, <2>2 DEF Live
  <1>12. Dispatched(r, i, wf, rs, snaps[Len(snaps)], "single", {0})
    BY <1>5, <1>7, <1>9, <1>10, <1>11 DEF Dispatched
  <1> QED BY <1>5, <1>9, <1>12, StartKeeps

LEMMA RunGroupKeeps ==
  ASSUME NEW w, NEW r, NEW i, NEW wf, NEW saved, NEW rs,
         BoundsAssumption, IInv, up, UNCHANGED <<up, disk>>,
         Ready(w, r, i, wf, saved, rs), i \in Steps(wf), i \in StepNums, IsGroup(wf, i),
         wf.status = "running", wf.current = i,
         RunGroup(w, r, i, wf, saved, rs)
  PROVE  IInv' /\ KeepsResults /\ ReportsEnd /\ Turn(w, wf) /\ workflows'[w].status = "running"
  <1> DEFINE step    == wf.steps[i]
             working == [step EXCEPT !.status = "running"]
             group   == [wf EXCEPT !.steps = [wf.steps EXCEPT ![i] = working]]
             todo    == Todo(wf, i)
             count   == Cardinality(todo)
             updates == [k \in 1 .. 2 * count |-> Submitting(group, i, r, k)]
             front   == Append(saved, group)
             snaps   == front \o updates
             last    == snaps[Len(snaps)]
  <1>1. /\ wf \in Snapshots /\ r \in Runs /\ saved \in Seq(Snapshots) /\ Quiet(saved)
        /\ Leveled(saved, wf) /\ Front(wf, i) /\ step.status # "completed"
    BY DEF Ready
  <1>2. step \in Step /\ wf.shape \in Seq(StepSpec) /\ i \in 1 .. Len(wf.shape)
    BY <1>1 DEF Snapshots, Workflow, Steps
  <1>3. /\ working \in Step /\ working.status = "running" /\ working.branches = step.branches
    BY <1>2 DEF Step, InFlight
  <1>4. Branches(wf, i) \subseteq BranchNums
    <2>1. wf.shape[i] \in StepSpec
      BY <1>2, ElementOfSeq
    <2> QED BY <2>1, BoundsAssumption DEF Branches, BranchNums, StepSpec
  <1>5. Save(w, (saved \o <<group>>) \o updates) /\ Dispatch(rs, r, i, "group", todo)
    BY DEF RunGroup
  <1> HIDE DEF working
  <1>6. /\ group \in Snapshots /\ group.status = "running" /\ group.current = i /\ group.shape = wf.shape
        /\ group.steps[i] = working /\ Keeps(wf, group) /\ Level(group, wf)
        /\ \A k \in StepNums : k # i => group.steps[k] = wf.steps[k]
    BY <1>1, <1>3, StepStarted DEF InFlight
  <1> HIDE DEF group
  <1>7. /\ i \in Steps(group) /\ IsGroup(group, i) /\ Branches(group, i) = Branches(wf, i)
        /\ Todo(group, i) = todo /\ Front(group, i)
    <2>1. Todo(group, i) = todo
      BY <1>3, <1>6 DEF Todo, Branches
    <2>2. \A k \in 1 .. i - 1 : k \in StepNums /\ k # i
      BY BoundsAssumption DEF StepNums
    <2> QED BY <1>1, <1>6, <2>1, <2>2 DEF Front, Steps, IsGroup, Branches
  <1>8. count \in Nat /\ (count = 0 => todo = {}) /\ todo \subseteq Branches(wf, i)
    <2>1. count \in Nat /\ (count = 0 => todo = {}) /\ Rank(wf, i, 0) \in Nat
      BY <1>4, RankBounded
    <2>2. todo \subseteq Branches(wf, i)
      BY DEF Todo
    <2> QED BY <2>1, <2>2
  <1>9. ASSUME NEW k \in 1 .. 2 * count
        PROVE  LET new == Submitting(group, i, r, k) IN
               /\ new \in Snapshots
               /\ new.status = "running" /\ new.current = i /\ new.shape = wf.shape
               /\ new.steps[i].status = "running" /\ \A j \in StepNums : j # i => new.steps[j] = group.steps[j]
               /\ \A b \in BranchNums : b \notin todo => new.steps[i].branches[b] = step.branches[b]
               /\ k = 2 * count => \A b \in todo : new.steps[i].branches[b].status = "running"
    <2>1. k \in Nat
      BY <1>8
    <2>2. Branches(group, i) \subseteq BranchNums /\ group.steps[i] \in Step /\ group.steps[i].status = "running"
      BY <1>3, <1>4, <1>6, <1>7
    <2> HIDE DEF step, todo
    <2> QED BY <1>1, <1>3, <1>6, <1>7, <2>1, <2>2, SubmittingSound
  <1> HIDE DEF todo, count
  <1>10. /\ updates \in Seq(Snapshots) /\ Len(updates) = 2 * count /\ DOMAIN updates = 1 .. 2 * count
         /\ \A k \in 1 .. 2 * count : updates[k] = Submitting(group, i, r, k)
    <2>1. \A k \in 1 .. 2 * count : Submitting(group, i, r, k) \in Snapshots
      BY <1>9
    <2>2. 2 * count \in Nat
      BY <1>8
    <2> QED BY <2>1, <2>2
  <1> HIDE DEF updates
  <1>11. Quiet(updates) /\ Leveled(updates, wf)
    <2>1. Quiet(updates)
      BY <1>9, <1>10 DEF Quiet, Settled
    <2>2. ASSUME NEW k \in 1 .. 2 * count PROVE Level(updates[k], wf)
      <3> DEFINE new == Submitting(group, i, r, k)
      <3>1. /\ new.shape = wf.shape /\ new.steps[i].status = "running"
            /\ \A j \in StepNums : j # i => new.steps[j] = group.steps[j]
        BY <1>9
      <3> HIDE DEF new
      <3>2. Level(new, wf)
        BY <1>1, <1>6, <3>1, OneStepOn
      <3> QED BY <1>10, <3>2 DEF new
    <2> QED BY <1>10, <2>1, <2>2 DEF Leveled
  <1>12. /\ front \in Seq(Snapshots) /\ front # <<>> /\ Quiet(front) /\ front[Len(front)] = group
         /\ saved \o <<group>> = front /\ Leveled(front, wf)
    <2>1. group.status \notin Settled
      BY <1>6 DEF Settled
    <2>2. saved \o <<group>> = front
      BY <1>1, <1>6
    <2>3. Leveled(front, wf)
      BY <1>1, <1>6, LeveledAppend
    <2> QED BY <1>1, <1>6, <2>1, <2>2, <2>3, QuietAppend
  <1>13. Save(w, snaps)
    BY <1>5, <1>12
  <1> HIDE DEF front
  <1>14. /\ snaps \in Seq(Snapshots) /\ Quiet(snaps) /\ snaps # <<>> /\ Leveled(snaps, wf)
         /\ last = IF count = 0 THEN group ELSE updates[2 * count]
    <2>1. /\ snaps \in Seq(Snapshots) /\ Quiet(snaps)
          /\ updates # <<>> => snaps # <<>> /\ last = updates[Len(updates)]
          /\ updates = <<>> => snaps = front
      BY <1>10, <1>11, <1>12, QuietConcat
    <2>2. count = 0 <=> updates = <<>>
      BY <1>8, <1>10, EmptySeq
    <2>3. Leveled(snaps, wf)
      BY <1>10, <1>11, <1>12, LeveledConcat
    <2> QED BY <1>10, <1>12, <2>1, <2>2, <2>3
  <1> HIDE DEF snaps
  <1>15. /\ last.status = "running" /\ last.current = i /\ last.shape = wf.shape
         /\ last.steps[i].status = "running" /\ \A j \in StepNums : j # i => last.steps[j] = wf.steps[j]
         /\ \A b \in BranchNums : b \notin todo => last.steps[i].branches[b] = step.branches[b]
         /\ \A b \in todo : last.steps[i].branches[b].status = "running"
    <2>1. CASE count = 0
      <3>1. last = group /\ todo = {}
        BY <1>8, <1>14, <2>1
      <3> QED BY <1>3, <1>6, <3>1
    <2>2. CASE count # 0
      <3>1. 2 * count \in 1 .. 2 * count
        BY <1>8, <2>2
      <3>2. last = Submitting(group, i, r, 2 * count)
        BY <1>10, <1>14, <2>2, <3>1
      <3> HIDE DEF last, step
      <3> QED BY <1>6, <1>9, <3>1, <3>2
    <2> QED BY <2>1, <2>2
  <1> HIDE DEF last
  <1>16. \A b \in Branches(wf, i) : b \notin todo => step.branches[b].status = "completed"
    BY DEF todo, Todo
  <1>17. Keeps(wf, last)
    <2>1. \A b \in Branches(wf, i) : step.branches[b].status = "completed" => b \notin todo
      BY DEF todo, Todo
    <2>2. \A b \in Branches(wf, i) : step.branches[b].status = "completed" =>
            last.steps[i].branches[b] = step.branches[b]
      BY <1>4, <1>15, <2>1
    <2> QED BY <1>1, <1>15, <2>2, StepKept
  <1>18. /\ \A b \in todo : jobs'[r][i][b] = "live"
         /\ runs'[r].step = i /\ runs'[r].at = "group"
         /\ runs'[r].listening = todo /\ runs'[r].resolved = {} /\ todo \subseteq Slots
    <2>1. todo \subseteq Slots
      BY <1>4, <1>8, BoundsAssumption DEF BranchNums, Slots
    <2>2. /\ rs \in Seq(Run) /\ Len(rs) <= MaxRuns /\ r \in 1 .. Len(rs)
          /\ \A j \in StepNums, b \in Slots : jobs[r][j][b] # "live"
      BY DEF Ready
    <2>3. Typed
      BY DEF IInv
    <2>4. Dispatch(rs, r, i, "group", todo)
      BY <1>5 DEF todo
    <2>5. \A b \in todo : b \in Slots
      BY <2>1
    <2> QED BY <1>1, <2>1, <2>2, <2>3, <2>4, <2>5, DispatchStarts
  <1>19. Live(runs'[r], last, jobs'[r][i])
    <2>1. Waiting(runs'[r]) = todo
      BY <1>18 DEF Waiting
    <2>2. IsGroup(last, i) /\ i \in Steps(last) /\ Branches(last, i) = Branches(wf, i)
      BY <1>15 DEF IsGroup, Steps, Branches
    <2>3. \A b \in Branches(last, i) :
            last.steps[i].branches[b].status \in (IF b \in todo THEN {"running"} ELSE Settled)
      BY <1>4, <1>15, <1>16, <2>2 DEF Settled
    <2> HIDE DEF step
    <2> QED BY <1>8, <1>15, <1>18, <2>1, <2>2, <2>3 DEF Live
  <1>20. Dispatched(r, i, wf, rs, last, "group", todo)
    BY <1>5, <1>17, <1>18, <1>19 DEF Dispatched, todo
  <1> QED BY <1>13, <1>14, <1>20, StartKeeps DEF last

LEMMA RunStepKeeps ==
  ASSUME NEW w, NEW r, NEW i, NEW wf, NEW saved, NEW rs,
         BoundsAssumption, IInv, up, UNCHANGED <<up, disk>>,
         Ready(w, r, i, wf, saved, rs), RunStep(w, r, i, wf, saved, rs)
  PROVE  /\ IInv' /\ KeepsResults /\ ReportsEnd /\ Turn(w, wf)
         /\ \/ i \in Steps(wf) /\ workflows'[w].status = "running"
            \/ i \notin Steps(wf) /\ workflows'[w].status = "completed" /\ Incomplete(wf) = {}
  <1> DEFINE now   == [wf EXCEPT !.status = "running", !.current = i]
             ended == [wf EXCEPT !.status = "completed", !.current = i]
  <1>1. /\ wf \in Snapshots /\ w \in Workflows /\ r \in Runs /\ saved \in Seq(Snapshots) /\ Quiet(saved)
        /\ i \in 1 .. MaxSteps + 1 /\ Steps(wf) \subseteq StepNums
        /\ Keeps(workflows[w], wf) /\ Typed /\ Leveled(saved, wf)
    <2>1. wf \in Snapshots
      BY DEF Ready
    <2>2. Steps(wf) \subseteq StepNums
      BY <2>1, BoundsAssumption DEF Snapshots, Sound, Steps, StepNums
    <2> QED BY <2>1, <2>2 DEF Ready, IInv
  <1>2. /\ now \in Workflow /\ now.status = "running" /\ now.current = i
        /\ now.shape = wf.shape /\ now.steps = wf.steps
        /\ ended \in Workflow /\ ended.status = "completed"
        /\ ended.shape = wf.shape /\ ended.steps = wf.steps
    BY <1>1 DEF Snapshots, Workflow, InFlight, Settled
  <1>3. CASE /\ i > Len(wf.shape)
             /\ Save(w, Append(saved, ended))
             /\ runs' = [rs EXCEPT ![r] = [@ EXCEPT !.at = "over"]]
             /\ UNCHANGED jobs
    <2> DEFINE snaps == Append(saved, ended)
               run   == [rs[r] EXCEPT !.at = "over"]
    <2>1. ended \in Snapshots
      BY <1>1, <1>2, Relabelled
    <2>2. Keeps(wf, ended)
      BY <1>2 DEF Keeps
    <2> HIDE DEF ended
    <2>3. /\ snaps \in Seq(Snapshots) /\ snaps # <<>> /\ snaps[Len(snaps)] = ended
          /\ \A k \in 1 .. Len(snaps) : snaps[k].status \in Settled => k = Len(snaps)
      BY <1>1, <2>1, QuietAppend
    <2>4. Save(w, snaps) /\ runs' = [rs EXCEPT ![r] = run] /\ jobs' = jobs
      BY <1>3
    <2> HIDE DEF snaps
    <2>5. rs \in Seq(Run) /\ Len(rs) <= MaxRuns /\ r \in 1 .. Len(rs) /\ DOMAIN rs = 1 .. Len(rs) /\ rs[r] \in Run
      <3>1. rs \in Seq(Run) /\ Len(rs) <= MaxRuns /\ r \in 1 .. Len(rs)
        BY DEF Ready
      <3> QED BY <3>1, ElementOfSeq
    <2>6. run \in Run /\ run.workflow = rs[r].workflow /\ run.at = "over"
      BY <2>5 DEF Run
    <2> HIDE DEF run
    <2>7. /\ [rs EXCEPT ![r] = run] \in Seq(Run) /\ Len([rs EXCEPT ![r] = run]) = Len(rs)
          /\ \A s \in 1 .. Len(rs) : [rs EXCEPT ![r] = run][s] = IF s = r THEN run ELSE rs[s]
      BY <2>5, <2>6, ExceptSeq
    <2>8. runs' \in Seq(Run) /\ Len(runs') <= MaxRuns /\ DOMAIN runs' = DOMAIN rs /\ runs'[r] = run
      BY <2>4, <2>5, <2>7
    <2>9. DOMAIN runs' = DOMAIN runs \cup {r} /\ \A s \in DOMAIN runs : s # r => runs'[s] = runs[s]
      <3>1. DOMAIN rs = DOMAIN runs \cup {r} /\ \A s \in DOMAIN runs : s # r => rs[s] = runs[s]
        BY DEF Ready
      <3> QED BY <2>4, <2>5, <2>7, <2>8, <3>1
    <2>10. /\ run.workflow = w /\ (\A s \in OpenRuns(w) : s = r) /\ r \in OpenRuns(w)
           /\ (r \in DOMAIN runs => runs[r].workflow = w)
           /\ \A j \in StepNums, b \in Slots : jobs'[r][j][b] # "live"
      <3>1. i \notin Steps(wf)
        BY <1>1, <1>3 DEF Steps
      <3> QED BY <2>4, <2>6, <3>1 DEF Ready
    <2>11. workflows'[w] = ended
      BY <1>1, <2>3, <2>4, SaveStores
    <2>12. IF run.at = "over" THEN workflows'[w].status # "running"
           ELSE Live(run, workflows'[w], jobs'[r][run.step])
      BY <1>2, <2>6, <2>11 DEF ended
    <2>13. /\ jobs' \in [Runs -> [StepNums -> [Slots -> {"absent", "live"} \cup Settled]]]
           /\ \A s \in Runs : s # r => jobs'[s] = jobs[s]
      BY <1>1, <2>4 DEF Typed
    <2>14. \A j \in StepNums, b \in Slots : jobs'[r][j][b] = "live" =>
             run.at # "over" /\ run.step = j /\ b \in run.listening
      BY <2>10
    <2>15. IInv'
      <3>1. snaps \in Seq(Snapshots) /\ snaps # <<>> /\ Save(w, snaps) /\ UNCHANGED <<up, disk>>
        BY <2>3, <2>4
      <3>2. w \in Workflows /\ r \in Runs /\ run \in Run /\ run.workflow = w
        BY <1>1, <2>6, <2>10
      <3>3. (\A s \in OpenRuns(w) : s = r) /\ (r \in DOMAIN runs => runs[r].workflow = w)
        BY <2>10
      <3> QED BY <2>8, <2>9, <2>12, <2>13, <2>14, <3>1, <3>2, <3>3, TurnKeeps
    <2>16. Keeps(workflows[w], workflows'[w])
      BY <2>2, <2>11, KeepsOn DEF Ready
    <2>17. KeepsResults /\ ReportsEnd
      BY <1>1, <2>3, <2>4, <2>6, <2>8, <2>10, <2>16, TurnShows
    <2>18. Incomplete(wf) = {} /\ i \notin Steps(wf)
      <3>1. Steps(wf) \subseteq 1 .. i - 1 /\ i \notin Steps(wf)
        BY <1>1, <1>3, BoundsAssumption DEF Snapshots, Sound, Steps, StepNums
      <3> QED BY <3>1 DEF Ready, Front, Incomplete
    <2>19. Turn(w, wf)
      <3>1. Level(ended, wf)
        BY <1>2, Levels DEF ended
      <3>2. Leveled(snaps, wf)
        BY <1>1, <2>1, <3>1, LeveledAppend DEF snaps
      <3> QED BY <2>3, <2>4, <2>18, <3>2 DEF Turn, Settled
    <2>20. workflows'[w].status = "completed"
      BY <1>2, <2>11 DEF ended
    <2> QED BY <2>15, <2>17, <2>18, <2>19, <2>20
  <1>4. ASSUME i \in Steps(wf)
        PROVE  Ready(w, r, i, now, Append(saved, now), rs) /\ i \in Steps(now) /\ i \in StepNums
               /\ (IsGroup(now, i) <=> IsGroup(wf, i)) /\ Level(now, wf)
    <2>1. now \in Snapshots
      BY <1>1, <1>2, Relabelled
    <2>2. Keeps(wf, now)
      BY <1>2 DEF Keeps
    <2>3. Keeps(workflows[w], now)
      BY <2>2, KeepsOn DEF Ready
    <2>6. Level(now, wf) /\ Level(now, now) /\ Level(wf, now)
      BY <1>2, Levels
    <2> HIDE DEF now
    <2>7. Leveled(Append(saved, now), now)
      BY <1>1, <2>1, <2>6, LeveledAppend, LeveledOn
    <2>4. Append(saved, now) \in Seq(Snapshots) /\ Quiet(Append(saved, now))
      BY <1>1, <1>2, <2>1, QuietAppend DEF Settled
    <2>5. Steps(now) = Steps(wf) /\ Front(now, i) /\ now.steps[i].status # "completed"
          /\ (IsGroup(now, i) <=> IsGroup(wf, i))
      BY <1>2, <1>4 DEF Steps, Front, IsGroup, Ready
    <2> QED BY <1>1, <1>2, <1>4, <2>1, <2>3, <2>4, <2>5, <2>6, <2>7 DEF Ready
  <1>5. CASE i \in Steps(wf) /\ ~IsGroup(wf, i) /\ RunSingle(w, r, i, now, Append(saved, now), rs)
    <2> HIDE DEF now
    <2> QED BY <1>2, <1>4, <1>5, RunSingleKeeps, TurnOn
  <1>6. CASE i \in Steps(wf) /\ IsGroup(wf, i) /\ RunGroup(w, r, i, now, Append(saved, now), rs)
    <2> HIDE DEF now
    <2> QED BY <1>2, <1>4, <1>6, RunGroupKeeps, TurnOn
  <1> QED BY <1>3, <1>5, <1>6 DEF RunStep

LEMMA AdvanceKeeps ==
  ASSUME BoundsAssumption, IInv, NEW r \in DOMAIN runs, Advance(r)
  PROVE  LET w == runs[r].workflow IN
         /\ IInv' /\ KeepsResults /\ ReportsEnd /\ Turn(w, workflows[w]) /\ workflows[w].status = "running"
         /\ \/ workflows'[w].status = "running"
            \/ workflows'[w].status = "completed" /\ Incomplete(workflows[w]) = {}
  <1> DEFINE w    == runs[r].workflow
             i    == runs[r].step
             wf   == workflows[w]
             none == <<>>
  <1>0. up /\ IsOpen(r) /\ runs[r].at = "advance" /\ UNCHANGED <<up, disk>> /\ RunStep(w, r, i + 1, wf, none, runs)
    BY DEF Advance, IsOpen
  <1>1. /\ w \in Workflows /\ r \in Runs /\ runs[r] \in Run /\ wf \in Snapshots
        /\ r \in OpenRuns(w) /\ (\A s \in OpenRuns(w) : s = r)
        /\ Live(runs[r], wf, jobs[r][i]) /\ i \in Steps(wf) /\ i \in StepNums /\ Front(wf, i)
        /\ \A j \in StepNums, b \in Slots : jobs[r][j][b] = "live" => j = i /\ b \in runs[r].listening
    BY <1>0, OpenRun DEF Wf
  <1>2. /\ wf.steps[i].status = "completed" /\ runs[r].listening = {} /\ runs[r].resolved = {}
        /\ (i + 1 \in Steps(wf) => wf.steps[i + 1].status # "completed") /\ wf.status = "running"
    BY <1>0, <1>1 DEF Live, Waiting
  <1>3. Front(wf, i + 1)
    <2>1. wf.steps[i].result # 0
      BY <1>1, <1>2 DEF Snapshots, Sound
    <2>2. i \in Nat /\ \A k \in 1 .. (i + 1) - 1 : k = i \/ k \in 1 .. i - 1
      BY <1>1, BoundsAssumption DEF StepNums
    <2> QED BY <1>1, <1>2, <2>1, <2>2 DEF Front
  <1>4. runs \in Seq(Run) /\ Len(runs) <= MaxRuns /\ r \in 1 .. Len(runs) /\ DOMAIN runs = DOMAIN runs \cup {r}
    <2>1. runs \in Seq(Run) /\ Len(runs) <= MaxRuns
      BY DEF IInv, Typed
    <2>2. DOMAIN runs = 1 .. Len(runs)
      BY <2>1
    <2> QED BY <2>1, <2>2
  <1>5. none \in Seq(Snapshots) /\ Quiet(none) /\ Leveled(none, wf)
    BY EmptySeq DEF Quiet, Leveled
  <1>6. i + 1 \in 1 .. MaxSteps + 1
    BY <1>1, BoundsAssumption DEF StepNums
  <1>7. Keeps(wf, wf)
    BY DEF Keeps
  <1>8. \A j \in StepNums, b \in Slots : jobs[r][j][b] # "live"
    BY <1>1, <1>2
  <1> HIDE DEF none
  <1>9. Ready(w, r, i + 1, wf, none, runs)
    BY <1>1, <1>2, <1>3, <1>4, <1>5, <1>6, <1>7, <1>8 DEF Ready
  <1> QED BY <1>0, <1>2, <1>9, RunStepKeeps

\* A new run of a workflow that has none.
LEMMA NewRunKeeps ==
  ASSUME NEW w \in Workflows, NEW wf \in Snapshots, NEW i \in Steps(wf),
         BoundsAssumption, IInv, up, UNCHANGED <<up, disk>>,
         workflows[w].status # "running", wf.status = "queued",
         Front(wf, i), wf.steps[i].status # "completed", Keeps(workflows[w], wf),
         workflows[w] = Unsubmitted \/ workflows[w].shape = wf.shape,
         Start(w, i, wf)
  PROVE  IInv' /\ KeepsResults /\ ReportsEnd /\ Turn(w, wf) /\ workflows'[w].status = "running"
  <1> DEFINE r   == Len(runs) + 1
             run == [workflow |-> w, step |-> i, at |-> "advance", listening |-> {}, resolved |-> {}]
             rs  == Append(runs, run)
             own == <<wf>>
  <1>0. Len(runs) < MaxRuns /\ RunStep(w, r, i, wf, own, rs)
    BY DEF Start
  <1>1. /\ Typed /\ RunsLive /\ LiveJobsAwaited /\ runs \in Seq(Run) /\ Len(runs) \in Nat
        /\ DOMAIN runs = 1 .. Len(runs)
    BY DEF IInv, Typed
  <1>2. i \in StepNums /\ i \in 1 .. MaxSteps + 1
    BY BoundsAssumption DEF Snapshots, Sound, Steps, StepNums
  <1>3. r \in Runs /\ r \notin DOMAIN runs
    BY <1>0, <1>1, BoundsAssumption DEF Runs
  <1>4. run \in Run /\ run.workflow = w /\ run.listening = {} /\ run.resolved = {}
    BY <1>2 DEF Run
  <1> HIDE DEF run
  <1>5. /\ rs \in Seq(Run) /\ Len(rs) = Len(runs) + 1 /\ rs[r] = run /\ \A s \in 1 .. Len(runs) : rs[s] = runs[s]
    BY <1>1, <1>4, AppendProperties
  <1> HIDE DEF rs
  <1>6. /\ Len(rs) <= MaxRuns /\ r \in 1 .. Len(rs) /\ DOMAIN rs = DOMAIN runs \cup {r}
        /\ \A s \in DOMAIN runs : s # r => rs[s] = runs[s]
    <2>1. DOMAIN rs = 1 .. Len(rs)
      BY <1>5
    <2> QED BY <1>0, <1>1, <1>5, <2>1, BoundsAssumption
  <1>7. OpenRuns(w) = {}
    BY <1>1 DEF OpenRuns, RunsLive, Live
  <1>8. \A j \in StepNums, b \in Slots : jobs[r][j][b] # "live"
    BY <1>1, <1>3 DEF LiveJobsAwaited
  <1>9. own \in Seq(Snapshots) /\ Quiet(own) /\ Leveled(own, wf)
    <2>1. own \in Seq(Snapshots) /\ Quiet(own)
      BY OneOrTwo DEF Quiet, Settled
    <2> QED BY <2>1, OneOrTwo, Levels DEF Leveled
  <1> HIDE DEF own
  <1>10. Ready(w, r, i, wf, own, rs)
    <2> HIDE DEF r
    <2> QED BY <1>2, <1>3, <1>4, <1>5, <1>6, <1>7, <1>8, <1>9 DEF Ready
  <1> HIDE DEF r
  <1> QED BY <1>0, <1>10, RunStepKeeps

LEMMA SubmitKeeps ==
  ASSUME BoundsAssumption, ShapesAssumption, IInv, NEW w \in Workflows, Submit(w)
  PROVE  /\ IInv' /\ KeepsResults /\ ReportsEnd /\ workflows'[w].status = "running"
         /\ \E wf \in Snapshots : Turn(w, wf) /\ Incomplete(wf) = Steps(wf)
  <1>1. PICK shape \in Shapes[w] : Start(w, 1, [Unsubmitted EXCEPT !.status = "queued", !.shape = shape])
    BY DEF Submit
  <1> DEFINE wf == [Unsubmitted EXCEPT !.status = "queued", !.shape = shape]
  <1>2. up /\ workflows[w] = Unsubmitted /\ UNCHANGED <<up, disk>>
    BY DEF Submit
  <1>3. shape \in Seq(StepSpec) /\ Len(shape) \in StepNums
    BY ShapesAssumption
  <1>4. FreshUnit \in Unit
    BY BoundsAssumption DEF Unit, FreshUnit
  <1>5. /\ FreshStep \in Step /\ FreshStep.status = "pending" /\ ~Touched(FreshStep)
        /\ \A spec : Barrier(spec, FreshStep)
    <2>1. FreshStep \in Step /\ FreshStep.status = "pending"
      BY <1>4, BoundsAssumption DEF FreshStep, Step
    <2>2. \A b \in BranchNums : FreshStep.branches[b].status = "pending"
      BY DEF FreshStep, FreshUnit
    <2> QED BY <2>1, <2>2 DEF Touched, Barrier, Settled
  <1>6. /\ wf \in Workflow /\ wf.status = "queued" /\ wf.shape = shape
        /\ \A i \in StepNums : wf.steps[i] = FreshStep
    <2>1. 1 \in 1 .. MaxSteps + 1
      BY BoundsAssumption
    <2> QED BY <1>3, <1>5, <2>1 DEF Unsubmitted, Workflow, InFlight
  <1> HIDE DEF wf
  <1>7. Steps(wf) \subseteq StepNums /\ 1 \in Steps(wf)
    BY <1>3, <1>6, BoundsAssumption DEF Steps, StepNums
  <1>8. wf \in Snapshots
    BY <1>3, <1>5, <1>6, <1>7 DEF Snapshots, Sound
  <1>9. Front(wf, 1)
    BY DEF Front
  <1>10. wf.steps[1].status # "completed"
    BY <1>5, <1>6, <1>7
  <1>11. Keeps(workflows[w], wf)
    <2> DEFINE none == <<>>
    <2>1. Unsubmitted.shape = none /\ Len(none) = 0
      BY EmptySeq DEF Unsubmitted
    <2> HIDE DEF none
    <2>2. Steps(Unsubmitted) = {}
      BY <2>1 DEF Steps
    <2> QED BY <1>2, <2>2 DEF Keeps
  <1>12. workflows[w].status # "running"
    BY <1>2 DEF Unsubmitted
  <1>13. Start(w, 1, wf)
    BY <1>1 DEF wf
  <1>14. IInv' /\ KeepsResults /\ ReportsEnd /\ Turn(w, wf) /\ workflows'[w].status = "running"
    BY <1>2, <1>6, <1>7, <1>8, <1>9, <1>10, <1>11, <1>12, <1>13, NewRunKeeps
  <1>15. Incomplete(wf) = Steps(wf)
    BY <1>5, <1>6, <1>7 DEF Incomplete
  <1> QED BY <1>8, <1>14, <1>15

LEMMA ResumeKeeps ==
  ASSUME BoundsAssumption, IInv, NEW w \in Workflows, Resume(w)
  PROVE  /\ IInv' /\ KeepsResults /\ ReportsEnd /\ workflows'[w].status = "running"
         /\ Turn(w, workflows[w]) /\ Incomplete(workflows[w]) # {}
  <1> DEFINE old == workflows[w]
  <1>1. PICK i \in Incomplete(old) :
          /\ \A k \in Incomplete(old) : i <= k
          /\ Start(w, i, [old EXCEPT !.status = "queued", !.current = i, !.resumes = @ + 1,
                                     !.steps = FreshFrom(i, @)])
    BY DEF Resume
  <1> DEFINE steps == FreshFrom(i, old.steps)
             wf    == [old EXCEPT !.status = "queued", !.current = i, !.resumes = @ + 1, !.steps = steps]
  <1>2. up /\ old.status = "failed" /\ UNCHANGED <<up, disk>>
    BY DEF Resume
  <1>3. old \in Snapshots
    BY <1>2 DEF IInv, Typed, Unsubmitted
  <1>4. /\ old \in Workflow /\ Sound(old) /\ old.steps \in [StepNums -> Step] /\ Steps(old) \subseteq StepNums
        /\ Steps(old) = 1 .. Len(old.shape) /\ Len(old.shape) \in Nat
        /\ i \in Steps(old) /\ i \in Nat /\ old.steps[i].status # "completed"
    BY <1>3, BoundsAssumption DEF Snapshots, Sound, Steps, StepNums, Workflow, Incomplete
  <1>5. \A k \in 1 .. i - 1 : old.steps[k].status = "completed" /\ old.steps[k].result # 0 /\ k \in StepNums
    <2> SUFFICES ASSUME NEW k \in 1 .. i - 1
                 PROVE  old.steps[k].status = "completed" /\ old.steps[k].result # 0 /\ k \in StepNums
      OBVIOUS
    <2>1. k \in Steps(old) /\ ~(i <= k)
      BY <1>4
    <2>2. old.steps[k].status = "completed"
      BY <1>1, <2>1 DEF Incomplete
    <2> QED BY <1>4, <2>1, <2>2 DEF Sound
  <1>6. \A k \in Steps(old) : k > i => ~Touched(old.steps[k])
    <2> SUFFICES ASSUME NEW k \in Steps(old), k > i PROVE ~Touched(old.steps[k])
      OBVIOUS
    <2>1. i \in 1 .. k - 1
      BY <1>4
    <2>2. ~Front(old, k)
      BY <1>4, <2>1 DEF Front
    <2> QED BY <1>4, <2>2 DEF Sound
  <1>7. FreshUnit \in Unit /\ FreshUnit.status = "pending"
    BY BoundsAssumption DEF Unit, FreshUnit
  <1>8. FreshStep \in Step /\ FreshStep.status = "pending"
    BY <1>7, BoundsAssumption DEF FreshStep, Step
  <1> DEFINE branches == [b \in BranchNums |-> IF old.steps[i].branches[b].status = "completed"
                                               THEN old.steps[i].branches[b] ELSE FreshUnit]
             partial  == [FreshStep EXCEPT !.branches = branches]
  <1>9. branches \in [BranchNums -> Unit]
    <2>1. old.steps[i].branches \in [BranchNums -> Unit]
      BY <1>4 DEF Step
    <2> QED BY <1>7, <2>1
  <1>10. /\ \A k \in StepNums : steps[k] = IF k < i THEN old.steps[k] ELSE IF k > i THEN FreshStep ELSE partial
         /\ DOMAIN steps = StepNums
    BY DEF FreshFrom
  <1>11. \A b \in BranchNums : old.steps[i].branches[b].status = "completed" => branches[b] = old.steps[i].branches[b]
    OBVIOUS
  <1> HIDE DEF branches
  <1>12. partial \in Step /\ partial.status = "pending" /\ partial.branches = branches
    BY <1>8, <1>9 DEF Step
  <1> HIDE DEF partial
  <1>13. steps \in [StepNums -> Step]
    <2>1. steps = [k \in StepNums |-> steps[k]]
      BY DEF FreshFrom
    <2>2. \A k \in StepNums : steps[k] \in Step
      BY <1>4, <1>8, <1>10, <1>12
    <2> HIDE DEF steps
    <2> QED BY <2>1, <2>2
  <1> HIDE DEF steps
  <1>14. /\ wf \in Workflow /\ wf.status = "queued" /\ wf.shape = old.shape /\ wf.steps = steps
    <2>1. i \in 1 .. MaxSteps + 1
      BY <1>4, BoundsAssumption DEF StepNums
    <2>2. old \in Workflow
      BY <1>4
    <2> HIDE DEF old
    <2>3. old.resumes + 1 \in Nat
      BY <2>2 DEF Workflow
    <2>4. wf = [old EXCEPT !.status = "queued", !.current = i, !.resumes = old.resumes + 1, !.steps = steps]
      BY <2>2 DEF Workflow
    <2> HIDE DEF wf
    <2> QED BY <1>13, <2>1, <2>2, <2>3, <2>4 DEF Workflow, InFlight
  <1>15. Start(w, i, wf)
    BY <1>1 DEF steps
  <1> HIDE DEF wf
  <1>16. Steps(wf) = Steps(old) /\ \A k \in StepNums : Branches(wf, k) = Branches(old, k)
    BY <1>14 DEF Steps, Branches
  <1>17. Front(wf, i)
    <2>1. \A k \in 1 .. i - 1 : steps[k] = old.steps[k]
      BY <1>4, <1>5, <1>10
    <2> QED BY <1>5, <1>14, <2>1 DEF Front
  <1>18. wf.steps[i].status # "completed" /\ wf.steps[i] = partial /\ i \in StepNums
    BY <1>4, <1>10, <1>12, <1>14
  <1>19. wf \in Snapshots
    <2> SUFFICES ASSUME NEW k \in Steps(old)
                 PROVE  /\ Touched(wf.steps[k]) => Front(wf, k)
                        /\ Barrier(wf.shape[k], wf.steps[k])
                        /\ wf.steps[k].status = "completed" => wf.steps[k].result # 0
      BY <1>4, <1>14, <1>16 DEF Snapshots, Sound
    <2>0. k \in StepNums /\ k \in Nat
      BY <1>4
    <2>1. CASE k < i
      <3>1. wf.steps[k] = old.steps[k] /\ \A j \in 1 .. k - 1 : j \in 1 .. i - 1
        BY <1>4, <1>10, <1>14, <2>0, <2>1
      <3>2. Front(wf, k)
        BY <1>17, <3>1 DEF Front
      <3> QED BY <1>4, <1>14, <3>1, <3>2 DEF Sound
    <2>2. CASE k = i
      BY <1>12, <1>17, <1>18, <2>2 DEF Barrier, Settled
    <2>3. CASE k > i
      <3>1. wf.steps[k] = FreshStep
        BY <1>4, <1>10, <1>14, <2>0, <2>3
      <3>2. \A b \in BranchNums : FreshStep.branches[b].status = "pending"
        BY DEF FreshStep, FreshUnit
      <3> QED BY <1>8, <3>1, <3>2 DEF Touched, Barrier, Settled
    <2> QED BY <1>4, <2>0, <2>1, <2>2, <2>3
  <1>20. Keeps(old, wf)
    <2> SUFFICES ASSUME NEW k \in Steps(old)
                 PROVE  /\ old.steps[k].status = "completed" => wf.steps[k] = old.steps[k]
                        /\ \A b \in Branches(old, k) : old.steps[k].branches[b].status = "completed" =>
                             wf.steps[k].branches[b] = old.steps[k].branches[b]
      BY DEF Keeps
    <2>0. k \in StepNums /\ k \in Nat /\ Branches(old, k) \subseteq BranchNums
      <3>1. old.shape \in Seq(StepSpec) /\ k \in 1 .. Len(old.shape)
        BY <1>4 DEF Workflow
      <3>2. old.shape[k] \in StepSpec
        BY <3>1, ElementOfSeq
      <3> QED BY <1>4, <3>2, BoundsAssumption DEF Branches, BranchNums, StepSpec
    <2>1. CASE k < i
      BY <1>4, <1>10, <1>14, <2>0, <2>1
    <2>2. CASE k = i
      BY <1>4, <1>11, <1>12, <1>18, <2>0, <2>2
    <2>3. CASE k > i
      <3>1. ~Touched(old.steps[k])
        BY <1>6, <2>3
      <3> QED BY <2>0, <3>1 DEF Touched
    <2> QED BY <1>4, <2>0, <2>1, <2>2, <2>3
  <1>21. old.shape = wf.shape /\ old.status # "running"
    BY <1>2, <1>14
  <1>22. i \in Steps(wf)
    BY <1>4, <1>16
  <1>23. Level(wf, old)
    <2>1. Behind(old, wf)
      BY <1>20, <1>21 DEF Behind, Keeps
    <2>2. ASSUME NEW k \in Steps(wf), wf.steps[k].status = "completed" PROVE old.steps[k].status = "completed"
      <3>1. k \in StepNums /\ k \in Nat /\ FreshStep.status = "pending"
        BY <1>4, <1>16 DEF FreshStep
      <3>2. k # i
        BY <1>18, <2>2
      <3>3. k < i
        BY <1>4, <1>10, <1>14, <2>2, <3>1, <3>2
      <3> QED BY <1>4, <1>10, <1>14, <2>2, <3>1, <3>3
    <2> QED BY <1>21, <2>1, <2>2 DEF Level, Behind
  <1> HIDE DEF old
  <1>24. IInv' /\ KeepsResults /\ ReportsEnd /\ Turn(w, wf) /\ workflows'[w].status = "running"
    BY <1>2, <1>14, <1>15, <1>17, <1>18, <1>19, <1>20, <1>21, <1>22, NewRunKeeps DEF old
  <1>25. Turn(w, old)
    BY <1>23, <1>24, TurnOn
  <1> QED BY <1>24, <1>25 DEF old

-----------------------------------------------------------------------------
\* A step that leaves the map and appends nothing shows nothing.
LEMMA Unmoved ==
  ASSUME Typed, workflows' = workflows,
         \A w \in Workflows : Len(pending'[w]) \in Nat /\ Len(pending'[w]) <= Len(pending[w])
  PROVE  KeepsResults /\ ReportsEnd
  <1>1. \A wf : Keeps(wf, wf)
    BY DEF Keeps
  <1>2. \A w \in Workflows : Len(pending[w]) \in Nat
    BY DEF Typed
  <1>3. \A w \in Workflows : Len(pending[w]) + 1 .. Len(pending'[w]) = {}
    BY <1>2
  <1> QED BY <1>1, <1>3 DEF KeepsResults, ReportsEnd

LEMMA JobSettlesKeeps ==
  ASSUME BoundsAssumption, IInv, NEW r \in DOMAIN runs, NEW i \in StepNums, NEW b \in Slots, JobSettles(r, i, b)
  PROVE  IInv' /\ KeepsResults /\ ReportsEnd
  <1>1. Typed /\ RunsLive /\ RunsAlone /\ LiveJobsAwaited /\ r \in Runs /\ DownIsEmpty
    BY RunsTyped DEF IInv
  <1>2. PICK outcome \in Settled : jobs' = [jobs EXCEPT ![r][i][b] = outcome]
    BY DEF JobSettles
  <1>3. up /\ jobs[r][i][b] = "live" /\ UNCHANGED <<up, workflows, pending, disk>>
    BY DEF JobSettles
  <1>4. IsOpen(r) /\ runs[r].step = i /\ b \in runs[r].listening
    BY <1>1, <1>3 DEF LiveJobsAwaited
  <1> DEFINE run == [runs[r] EXCEPT !.listening = @ \ {b}, !.resolved = @ \cup {b}]
  <1>5. runs' = [runs EXCEPT ![r] = run]
    BY <1>4 DEF JobSettles
  <1>6. runs[r] \in Run /\ Live(runs[r], Wf(r), jobs[r][i]) /\ Wf(r) = workflows[runs[r].workflow]
    BY <1>4, OpenRun DEF Wf
  <1>7. /\ run \in Run /\ run.workflow = runs[r].workflow /\ run.step = i /\ run.at = runs[r].at
        /\ run.listening = runs[r].listening \ {b} /\ run.resolved = runs[r].resolved \cup {b}
    BY <1>4, <1>6 DEF Run
  <1> HIDE DEF run
  <1>8. runs \in Seq(Run) /\ Len(runs) <= MaxRuns /\ DOMAIN runs = 1 .. Len(runs) /\ r \in 1 .. Len(runs)
    BY <1>1, RunsTyped DEF Typed
  <1>9. /\ runs' \in Seq(Run) /\ Len(runs') = Len(runs) /\ DOMAIN runs' = DOMAIN runs
        /\ \A s \in DOMAIN runs : runs'[s] = IF s = r THEN run ELSE runs[s]
    BY <1>5, <1>7, <1>8, ExceptSeq
  <1>10. /\ jobs' \in [Runs -> [StepNums -> [Slots -> {"absent", "live"} \cup Settled]]]
         /\ \A s \in Runs : s # r => jobs'[s] = jobs[s]
         /\ \A j \in StepNums : j # i => jobs'[r][j] = jobs[r][j]
         /\ jobs'[r][i][b] = outcome /\ \A c \in Slots : c # b => jobs'[r][i][c] = jobs[r][i][c]
    BY <1>1, <1>2 DEF Typed
  <1>11. Typed'
    BY <1>1, <1>3, <1>8, <1>9, <1>10 DEF Typed
  <1>12. Live(run, Wf(r), jobs'[r][i])
    <2>1. Waiting(run) = Waiting(runs[r])
      BY <1>4, <1>7 DEF Waiting
    <2>2. run.listening \subseteq Slots /\ run.resolved \subseteq Slots
      BY <1>7 DEF Run
    <2>3. \A c \in run.listening : c # b /\ jobs'[r][i][c] = "live"
      BY <1>6, <1>7, <1>10, <2>2 DEF Live
    <2>4. \A c \in run.resolved : jobs'[r][i][c] \in Settled
      BY <1>6, <1>7, <1>10, <2>2 DEF Live
    <2>5. run.listening \cap run.resolved = {}
      BY <1>6, <1>7 DEF Live
    <2> QED BY <1>6, <1>7, <1>4, <2>1, <2>3, <2>4, <2>5 DEF Live
  <1>13. \A s \in DOMAIN runs : runs'[s].workflow = runs[s].workflow /\ (runs'[s].at # "over" <=> runs[s].at # "over")
    BY <1>7, <1>9
  <1>14. RunsLive'
    <2> SUFFICES ASSUME NEW s \in DOMAIN runs, runs[s].at # "over"
                 PROVE  Live(runs'[s], workflows[runs[s].workflow], jobs'[s][runs'[s].step])
      BY <1>3, <1>9, <1>13 DEF RunsLive, IsOpen
    <2>1. CASE s = r
      BY <1>6, <1>7, <1>9, <1>12, <2>1
    <2>2. CASE s # r
      <3>1. s \in Runs /\ runs'[s] = runs[s]
        BY <1>1, <1>9, <2>2, RunsTyped
      <3> QED BY <1>1, <1>10, <2>2, <3>1 DEF RunsLive, IsOpen
    <2> QED BY <2>1, <2>2
  <1>15. RunsAlone'
    BY <1>1, <1>3, <1>9, <1>13 DEF RunsAlone, IsOpen
  <1>16. LiveJobsAwaited'
    <2> SUFFICES ASSUME NEW s \in Runs, NEW j \in StepNums, NEW c \in Slots, jobs'[s][j][c] = "live"
                 PROVE  /\ s \in DOMAIN runs /\ runs'[s].at # "over"
                        /\ runs'[s].step = j /\ c \in runs'[s].listening
      BY <1>9 DEF LiveJobsAwaited, IsOpen
    <2>1. jobs[s][j][c] = "live" /\ ~(s = r /\ j = i /\ c = b)
      BY <1>10 DEF Settled
    <2>2. s \in DOMAIN runs /\ runs[s].at # "over" /\ runs[s].step = j /\ c \in runs[s].listening
      BY <1>1, <2>1 DEF LiveJobsAwaited, IsOpen
    <2>3. CASE s = r
      <3>1. j = i /\ c # b
        BY <1>4, <2>1, <2>2, <2>3
      <3> QED BY <1>7, <1>9, <2>2, <2>3, <3>1
    <2>4. CASE s # r
      BY <1>9, <2>2, <2>4
    <2> QED BY <2>3, <2>4
  <1>17. IInv'
    BY <1>1, <1>3, <1>11, <1>14, <1>15, <1>16 DEF IInv, DownIsEmpty
  <1>18. KeepsResults /\ ReportsEnd
    <2>1. \A w \in Workflows : Len(pending'[w]) \in Nat /\ Len(pending'[w]) <= Len(pending[w])
      BY <1>1, <1>3 DEF Typed
    <2> QED BY <1>1, <1>3, <2>1, Unmoved
  <1> QED BY <1>17, <1>18

\* A write that is made or lost leaves the others.
LEMMA WriteTaken ==
  ASSUME Typed, OrderedAssumption, NEW w \in Workflows, NEW k \in NextWrites(w), pending' = WithoutWrite(w, k)
  PROVE  /\ pending[w][k] \in Snapshots
         /\ pending' \in [Workflows -> Seq(Snapshots)]
         /\ \A v \in Workflows : Len(pending'[v]) \in Nat /\ Len(pending'[v]) <= Len(pending[v])
  <1> DEFINE queue == pending[w]
  <1>1. queue \in Seq(Snapshots) /\ k \in 1 .. Len(queue) /\ k \in DOMAIN queue /\ Len(queue) \in Nat
    <2>1. queue \in Seq(Snapshots)
      BY DEF Typed
    <2>2. k \in DOMAIN queue
      BY DEF NextWrites
    <2> QED BY <2>1, <2>2
  <1> HIDE DEF queue
  <1> DEFINE before == SubSeq(queue, 1, k - 1)
             after  == SubSeq(queue, k + 1, Len(queue))
             rest   == before \o after
  <1>2. before \in Seq(Snapshots) /\ Len(before) = k - 1 /\ after \in Seq(Snapshots) /\ Len(after) = Len(queue) - k
    BY <1>1, SubSeqProperties
  <1>3. pending' = [pending EXCEPT ![w] = rest]
    BY DEF WithoutWrite, queue
  <1> HIDE DEF before, after
  <1>4. rest \in Seq(Snapshots) /\ Len(rest) = Len(before) + Len(after)
    BY <1>2, ConcatProperties
  <1> HIDE DEF rest
  <1>5. Len(rest) \in Nat /\ Len(rest) <= Len(queue)
    BY <1>1, <1>2, <1>4
  <1>6. queue[k] \in Snapshots
    BY <1>1, ElementOfSeq
  <1>7. pending \in [Workflows -> Seq(Snapshots)] /\ \A v \in Workflows : Len(pending[v]) \in Nat
    BY DEF Typed
  <1> QED BY <1>3, <1>4, <1>5, <1>6, <1>7 DEF queue

\* The storage call of a snapshot is made, or fails.
LEMMA WritesKeep ==
  ASSUME OrderedAssumption, IInv, NEW w \in Workflows, PersistWorkflow(w) \/ PersistFails(w)
  PROVE  IInv' /\ KeepsResults /\ ReportsEnd
  <1>1. PICK k \in NextWrites(w) :
          pending' = WithoutWrite(w, k) /\ (disk' = [disk EXCEPT ![w] = pending[w][k]] \/ disk' = disk)
    BY DEF PersistWorkflow, PersistFails
  <1>2. UNCHANGED <<up, workflows, runs, jobs>> /\ Typed
    BY DEF PersistWorkflow, PersistFails, IInv
  <1>3. /\ pending[w][k] \in Snapshots
        /\ pending' \in [Workflows -> Seq(Snapshots)]
        /\ \A v \in Workflows : Len(pending'[v]) \in Nat /\ Len(pending'[v]) <= Len(pending[v])
    BY <1>1, <1>2, WriteTaken
  <1>4. disk' \in [Workflows -> Snapshots \cup {Unsubmitted}]
    BY <1>1, <1>2, <1>3 DEF Typed
  <1>5. IInv'
    <2>1. Typed'
      BY <1>2, <1>3, <1>4 DEF Typed
    <2> QED BY <1>2, <2>1 DEF IInv, RunsLive, RunsAlone, IsOpen, LiveJobsAwaited, DownIsEmpty
  <1> QED BY <1>2, <1>3, <1>5, Unmoved

-----------------------------------------------------------------------------
\* With the process down nothing is at work.
LEMMA NothingAtWork ==
  ASSUME BoundsAssumption, IInv, ~up
  PROVE  /\ \A r \in DOMAIN runs : ~IsOpen(r)
         /\ \A r \in Runs, i \in StepNums, b \in Slots : jobs[r][i][b] # "live"
  <1>1. \A w \in Workflows : workflows[w].status # "running"
    BY DEF IInv, DownIsEmpty, Unsubmitted
  <1>2. \A r \in DOMAIN runs : ~IsOpen(r)
    BY <1>1, RunsTyped DEF IInv, RunsLive, Live
  <1> QED BY <1>2 DEF IInv, LiveJobsAwaited

LEMMA CrashKeeps ==
  ASSUME BoundsAssumption, IInv, Crash
  PROVE  IInv' /\ KeepsResults /\ ReportsEnd
  <1>1. Typed /\ up' = FALSE /\ disk' = disk
    BY DEF IInv, Crash
  <1>2. /\ workflows' = [w \in Workflows |-> Unsubmitted] /\ pending' = [w \in Workflows |-> <<>>]
        /\ jobs' = [r \in Runs |-> NoJobs]
    BY DEF Crash
  <1>3. runs' \in Seq(Run) /\ Len(runs') <= MaxRuns /\ \A r \in DOMAIN runs' : runs'[r].at = "over"
    <2> DEFINE over(r) == [runs[r] EXCEPT !.at = "over", !.listening = {}, !.resolved = {}]
    <2>1. runs \in Seq(Run) /\ Len(runs) \in Nat /\ Len(runs) <= MaxRuns /\ DOMAIN runs = 1 .. Len(runs)
      BY <1>1 DEF Typed
    <2>2. \A r \in 1 .. Len(runs) : over(r) \in Run /\ over(r).at = "over"
      <3> SUFFICES ASSUME NEW r \in 1 .. Len(runs) PROVE over(r) \in Run /\ over(r).at = "over"
        OBVIOUS
      <3>1. runs[r] \in Run
        BY <2>1, ElementOfSeq
      <3> QED BY <3>1 DEF Run
    <2>3. runs' = [r \in 1 .. Len(runs) |-> over(r)]
      BY <2>1 DEF Crash
    <2> HIDE DEF over
    <2> QED BY <2>1, <2>2, <2>3
  <1>4. Typed'
    <2>1. \A w \in Workflows : pending'[w] \in Seq(Snapshots)
      BY <1>2
    <2>2. jobs' \in [Runs -> [StepNums -> [Slots -> {"absent", "live"} \cup Settled]]]
      BY <1>2 DEF NoJobs
    <2>3. pending' \in [Workflows -> Seq(Snapshots)]
      BY <1>2, <2>1
    <2> QED BY <1>1, <1>2, <1>3, <2>2, <2>3 DEF Typed
  <1>5. RunsLive' /\ DownIsEmpty'
    BY <1>2, <1>3 DEF RunsLive, IsOpen, DownIsEmpty
  <1>6. RunsAlone'
    <2>1. \A w \in Workflows : workflows'[w].status # "running"
      BY <1>2 DEF Unsubmitted
    <2> QED BY <1>3, <2>1 DEF RunsAlone, IsOpen
  <1>7. LiveJobsAwaited'
    <2>1. \A r \in Runs, i \in StepNums, b \in Slots : jobs'[r][i][b] # "live"
      BY <1>2 DEF NoJobs
    <2> QED BY <2>1 DEF LiveJobsAwaited
  <1>8. KeepsResults /\ ReportsEnd
    BY <1>1 DEF KeepsResults, ReportsEnd
  <1> QED BY <1>4, <1>5, <1>6, <1>7, <1>8 DEF IInv

\* hydrate() makes a sound snapshot of a sound snapshot.
LEMMA CorrectedSound ==
  ASSUME BoundsAssumption, NEW wf \in Snapshots \cup {Unsubmitted}
  PROVE  /\ Corrected(wf) \in Snapshots \cup {Unsubmitted} /\ Corrected(wf).status \notin InFlight
         /\ wf.status \in InFlight => Corrected(wf) \in Snapshots
  <1>1. CASE wf.status \notin InFlight
    BY <1>1 DEF Corrected
  <1>2. CASE wf.status \in InFlight
    <2>1. wf \in Snapshots
      BY <1>2 DEF Unsubmitted, InFlight
    <2>2. /\ wf \in Workflow /\ Sound(wf) /\ Steps(wf) \subseteq StepNums /\ Steps(wf) \subseteq Nat
          /\ wf.shape \in Seq(StepSpec) /\ Steps(wf) = 1 .. Len(wf.shape)
      BY <2>1, BoundsAssumption DEF Snapshots, Sound, Steps, StepNums, Workflow
    <2> DEFINE branches(i) == [b \in BranchNums |-> Interrupted(wf.steps[i].branches[b])]
               step(i)     == [Interrupted(wf.steps[i]) EXCEPT !.branches = branches(i)]
               steps       == [i \in StepNums |-> step(i)]
               new         == [wf EXCEPT !.status = "failed", !.steps = steps]
    <2>3. Corrected(wf) = new
      BY <1>2 DEF Corrected, InterruptedStep
    <2>4. ASSUME NEW i \in StepNums
          PROVE  /\ wf.steps[i] \in Step
                 /\ Interrupted(wf.steps[i]) \in Step
                 /\ Interrupted(wf.steps[i]).branches = wf.steps[i].branches
                 /\ Interrupted(wf.steps[i]).result = wf.steps[i].result
                 /\ Interrupted(wf.steps[i]).status =
                      IF wf.steps[i].status \in InFlight THEN "failed" ELSE wf.steps[i].status
      <3>1. wf.steps[i] \in Step
        BY <2>2 DEF Workflow
      <3> QED BY <3>1 DEF Interrupted, Step, Settled
    <2>5. ASSUME NEW i \in StepNums, NEW b \in BranchNums
          PROVE  /\ branches(i)[b] \in Unit
                 /\ branches(i)[b].status = IF wf.steps[i].branches[b].status \in InFlight THEN "failed"
                                            ELSE wf.steps[i].branches[b].status
      <3>1. wf.steps[i].branches[b] \in Unit
        BY <2>4 DEF Step
      <3> QED BY <3>1 DEF Interrupted, Unit, Settled
    <2>6. ASSUME NEW i \in StepNums
          PROVE  /\ step(i) \in Step /\ step(i).branches = branches(i) /\ step(i).result = wf.steps[i].result
                 /\ step(i).status = IF wf.steps[i].status \in InFlight THEN "failed" ELSE wf.steps[i].status
      <3>1. branches(i) \in [BranchNums -> Unit]
        BY <2>5
      <3> HIDE DEF branches
      <3> QED BY <2>4, <3>1 DEF Step
    <2> HIDE DEF step, branches
    <2>8. steps \in [StepNums -> Step] /\ \A i \in StepNums : steps[i] = step(i)
      BY <2>6
    <2> HIDE DEF steps
    <2>9. new \in Workflow /\ new.status = "failed" /\ new.shape = wf.shape /\ new.steps = steps
      BY <2>2, <2>8 DEF Workflow, Settled
    <2> HIDE DEF new
    <2>10. Sound(new)
      <3> SUFFICES ASSUME NEW i \in Steps(wf)
                   PROVE  /\ Touched(step(i)) => \A k \in 1 .. i - 1 : steps[k].status = "completed" /\ steps[k].result # 0
                          /\ Barrier(wf.shape[i], step(i))
                          /\ step(i).status = "completed" => step(i).result # 0
        BY <2>2, <2>8, <2>9 DEF Sound, Steps, Front
      <3>0. /\ i \in StepNums /\ i \in Nat /\ \A k \in 1 .. i - 1 : k \in StepNums
            /\ Touched(wf.steps[i]) => Front(wf, i)
            /\ Barrier(wf.shape[i], wf.steps[i])
            /\ wf.steps[i].status = "completed" => wf.steps[i].result # 0
        BY <2>2, BoundsAssumption DEF Sound, StepNums
      <3>1. Touched(step(i)) => Touched(wf.steps[i])
        BY <2>5, <2>6, <3>0 DEF Touched, InFlight
      <3>2. ASSUME NEW k \in 1 .. i - 1, wf.steps[k].status = "completed", wf.steps[k].result # 0
            PROVE  steps[k].status = "completed" /\ steps[k].result # 0
        BY <2>6, <2>8, <3>0, <3>2 DEF InFlight
      <3>3. 1 .. wf.shape[i].branches \subseteq BranchNums
        <4>1. wf.shape[i] \in StepSpec
          BY <2>2, ElementOfSeq
        <4> QED BY <4>1, BoundsAssumption DEF StepSpec, BranchNums
      <3>4. Barrier(wf.shape[i], step(i))
        <4> SUFFICES ASSUME step(i).status \in Settled, NEW b \in 1 .. wf.shape[i].branches
                     PROVE  /\ branches(i)[b].status \notin InFlight
                            /\ step(i).status = "completed" => branches(i)[b].status \in
                                 (IF wf.shape[i].continueOnError THEN Settled ELSE {"completed"})
          BY <2>6, <3>0 DEF Barrier
        <4>1. b \in BranchNums
          BY <3>3
        <4>2. branches(i)[b].status \notin InFlight
          BY <2>5, <3>0, <4>1 DEF InFlight
        <4>3. ASSUME step(i).status = "completed"
              PROVE  branches(i)[b].status \in (IF wf.shape[i].continueOnError THEN Settled ELSE {"completed"})
          <5>1. wf.steps[i].status = "completed"
            BY <2>6, <3>0, <4>3 DEF InFlight
          <5>2. wf.steps[i].branches[b].status \in (IF wf.shape[i].continueOnError THEN Settled ELSE {"completed"})
            BY <3>0, <5>1 DEF Barrier, Settled
          <5> QED BY <2>5, <3>0, <4>1, <5>2 DEF InFlight, Settled
        <4> QED BY <4>2, <4>3
      <3>5. step(i).status = "completed" => step(i).result # 0
        BY <2>6, <3>0 DEF InFlight
      <3> QED BY <3>0, <3>1, <3>2, <3>4, <3>5 DEF Front
    <2> QED BY <2>3, <2>9, <2>10 DEF Snapshots, InFlight
  <1> QED BY <1>1, <1>2

LEMMA HydrateKeeps ==
  ASSUME BoundsAssumption, IInv, Hydrate \/ HydrateFails
  PROVE  IInv' /\ KeepsResults /\ ReportsEnd
  <1>1. ~up /\ up' = TRUE /\ UNCHANGED <<runs, jobs, disk>> /\ Typed
    BY DEF Hydrate, HydrateFails, IInv
  <1>2. /\ \A r \in DOMAIN runs : runs[r].at = "over"
        /\ \A r \in Runs, i \in StepNums, b \in Slots : jobs[r][i][b] # "live"
    BY <1>1, NothingAtWork DEF IsOpen
  <1>3. /\ workflows' \in [Workflows -> Snapshots \cup {Unsubmitted}]
        /\ pending' \in [Workflows -> Seq(Snapshots)]
        /\ \A w \in Workflows : workflows'[w].status # "running"
    <2>1. CASE HydrateFails
      BY <1>1, <2>1 DEF HydrateFails, IInv, Typed, DownIsEmpty, Unsubmitted
    <2>2. CASE Hydrate
      <3> DEFINE queue(w) == IF disk[w].status \in InFlight THEN <<Corrected(disk[w])>> ELSE <<>>
      <3>1. \A w \in Workflows : disk[w] \in Snapshots \cup {Unsubmitted}
        BY <1>1 DEF Typed
      <3>2. ASSUME NEW w \in Workflows
            PROVE  /\ Corrected(disk[w]) \in Snapshots \cup {Unsubmitted}
                   /\ Corrected(disk[w]).status # "running"
                   /\ queue(w) \in Seq(Snapshots)
        <4>1. /\ Corrected(disk[w]) \in Snapshots \cup {Unsubmitted} /\ Corrected(disk[w]).status \notin InFlight
              /\ disk[w].status \in InFlight => Corrected(disk[w]) \in Snapshots
          BY <3>1, CorrectedSound
        <4>2. queue(w) \in Seq(Snapshots)
          BY <4>1
        <4> QED BY <4>1, <4>2 DEF InFlight
      <3>3. workflows' = [w \in Workflows |-> Corrected(disk[w])] /\ pending' = [w \in Workflows |-> queue(w)]
        BY <2>2 DEF Hydrate
      <3> HIDE DEF queue
      <3> QED BY <3>2, <3>3
    <2> QED BY <2>1, <2>2
  <1>4. Typed'
    BY <1>1, <1>3 DEF Typed
  <1>5. RunsLive' /\ RunsAlone' /\ LiveJobsAwaited' /\ DownIsEmpty'
    BY <1>1, <1>2, <1>3 DEF RunsLive, RunsAlone, LiveJobsAwaited, DownIsEmpty, IsOpen
  <1>6. KeepsResults /\ ReportsEnd
    BY <1>1 DEF KeepsResults, ReportsEnd
  <1> QED BY <1>4, <1>5, <1>6 DEF IInv

-----------------------------------------------------------------------------
LEMMA InitSound ==
  ASSUME BoundsAssumption, Init
  PROVE  IInv
  <1> DEFINE none == <<>>
  <1>1. /\ up = TRUE /\ runs = none
        /\ workflows = [w \in Workflows |-> Unsubmitted] /\ disk = [w \in Workflows |-> Unsubmitted]
        /\ jobs = [r \in Runs |-> NoJobs] /\ pending = [w \in Workflows |-> none]
    BY DEF Init
  <1>2. none \in Seq(Run) /\ none \in Seq(Snapshots) /\ Len(none) = 0 /\ DOMAIN none = {}
    BY EmptySeq
  <1> HIDE DEF none
  <1>3. Typed
    <2>1. jobs \in [Runs -> [StepNums -> [Slots -> {"absent", "live"} \cup Settled]]]
      BY <1>1 DEF NoJobs
    <2> QED BY <1>1, <1>2, <2>1, BoundsAssumption DEF Typed
  <1>4. LiveJobsAwaited
    BY <1>1 DEF LiveJobsAwaited, NoJobs
  <1>5. RunsLive /\ RunsAlone
    BY <1>1, <1>2 DEF RunsLive, RunsAlone, Unsubmitted
  <1> QED BY <1>1, <1>3, <1>4, <1>5 DEF IInv, DownIsEmpty

LEMMA NextKeeps ==
  ASSUME BoundsAssumption, ShapesAssumption, OrderedAssumption, IInv, [Next]_vars
  PROVE  IInv' /\ KeepsResults /\ ReportsEnd
  <1>1. ASSUME NEW w \in Workflows, Submit(w) PROVE IInv' /\ KeepsResults /\ ReportsEnd
    BY <1>1, SubmitKeeps
  <1>2. ASSUME NEW w \in Workflows, Resume(w) PROVE IInv' /\ KeepsResults /\ ReportsEnd
    BY <1>2, ResumeKeeps
  <1>3. ASSUME NEW w \in Workflows, PersistWorkflow(w) \/ PersistFails(w)
        PROVE  IInv' /\ KeepsResults /\ ReportsEnd
    BY <1>3, WritesKeep
  <1>4. ASSUME NEW r \in DOMAIN runs, RunTurn(r) PROVE IInv' /\ KeepsResults /\ ReportsEnd
    <2>1. CASE SingleSettled(r)
      BY <2>1, SingleSettledKeeps
    <2>2. ASSUME NEW b \in BranchNums, BranchSettled(r, b) PROVE IInv' /\ KeepsResults /\ ReportsEnd
      BY <2>2, BranchSettledKeeps
    <2>3. CASE GroupSettled(r)
      BY <2>3, GroupSettledKeeps
    <2>4. CASE Advance(r)
      BY <2>4, AdvanceKeeps
    <2> QED BY <1>4, <2>1, <2>2, <2>3, <2>4 DEF RunTurn
  <1>5. ASSUME NEW r \in DOMAIN runs, NEW i \in StepNums, NEW b \in Slots, JobSettles(r, i, b)
        PROVE  IInv' /\ KeepsResults /\ ReportsEnd
    BY <1>5, JobSettlesKeeps
  <1>6. CASE Crash
    BY <1>6, CrashKeeps
  <1>7. CASE Hydrate \/ HydrateFails
    BY <1>7, HydrateKeeps
  <1>8. CASE UNCHANGED vars
    <2>1. UNCHANGED <<up, workflows, runs, jobs, pending, disk>>
      BY <1>8 DEF vars
    <2>2. Typed /\ \A w \in Workflows : Len(pending'[w]) \in Nat /\ Len(pending'[w]) <= Len(pending[w])
      BY <2>1 DEF IInv, Typed
    <2>3. IInv'
      BY <2>1 DEF IInv, Typed, RunsLive, RunsAlone, LiveJobsAwaited, DownIsEmpty, IsOpen
    <2> QED BY <2>1, <2>2, <2>3, Unmoved
  <1> QED BY <1>1, <1>2, <1>3, <1>4, <1>5, <1>6, <1>7, <1>8 DEF Next

\* The strengthened invariant holds for ever, and every step is one that
\* ResultsKept and ReportedOnce allow (every handler of workflow-engine.ts).
THEOREM InductiveInvariant == Spec => []IInv /\ [][KeepsResults /\ ReportsEnd]_vars
  <1>1. Init => IInv
    BY InitSound, BoundsAssumption
  <1>2. IInv /\ [Next]_vars => IInv' /\ KeepsResults /\ ReportsEnd
    BY NextKeeps, BoundsAssumption, ShapesAssumption, OrderedAssumption
  <1> QED BY <1>1, <1>2, PTL DEF Spec

-----------------------------------------------------------------------------
\* What the invariant says of a snapshot, whole.
LEMMA SnapshotsTold ==
  ASSUME BoundsAssumption, Typed, NEW w \in Workflows
  PROVE  \/ workflows[w] = Unsubmitted /\ Steps(workflows[w]) = {}
         \/ workflows[w] \in Snapshots /\ Steps(workflows[w]) \subseteq StepNums
  <1>1. CASE workflows[w] = Unsubmitted
    <2> DEFINE none == <<>>
    <2>1. Unsubmitted.shape = none /\ Len(none) = 0
      BY EmptySeq DEF Unsubmitted
    <2> HIDE DEF none
    <2> QED BY <1>1, <2>1 DEF Steps
  <1>2. CASE workflows[w] \in Snapshots
    BY <1>2, BoundsAssumption DEF Snapshots, Sound, Steps, StepNums
  <1> QED BY <1>1, <1>2 DEF Typed

\* Workflows, runs and jobs account for each other at all times, for any number
\* of workflows and runs: a workflow that says it is running has exactly one
\* activation of runStep() behind it, at the step it says, no other workflow has
\* one, and no job is live that no activation listens for (start, submit, resume,
\* runSingle, runGroup, settle, hydrate).
THEOREM WorkAccountedFor == Spec => []RunsAccountFor
  <1>1. IInv => RunsAccountFor
    <2> SUFFICES ASSUME IInv PROVE RunsAccountFor
      OBVIOUS
    <2>0. Typed /\ RunsLive /\ RunsAlone /\ LiveJobsAwaited
      BY DEF IInv
    <2>1. TypeOK
      <3>1. Snapshots \subseteq Workflow
        BY DEF Snapshots
      <3>2. \A w \in Workflows : pending[w] \in Seq(Workflow)
        <4> SUFFICES ASSUME NEW w \in Workflows PROVE pending[w] \in Seq(Workflow)
          OBVIOUS
        <4>1. pending[w] \in Seq(Snapshots)
          BY <2>0 DEF Typed
        <4> DEFINE queue == pending[w]
        <4>2. queue \in Seq(Snapshots)
          BY <4>1
        <4> HIDE DEF queue
        <4>3. queue \in Seq(Workflow)
          BY <3>1, <4>2
        <4> QED BY <4>3 DEF queue
      <3>3. pending \in [Workflows -> Seq(Workflow)]
        <4>1. pending = [w \in Workflows |-> pending[w]]
          BY <2>0 DEF Typed
        <4> QED BY <3>2, <4>1
      <3> QED BY <2>0, <3>1, <3>3 DEF Typed, TypeOK
    <2>2. OneRunWhileRunning
      <3> SUFFICES ASSUME NEW w \in Workflows
                   PROVE  IF workflows[w].status = "running"
                          THEN \E r \in DOMAIN runs : OpenRuns(w) = {r} /\ runs[r].step = workflows[w].current
                          ELSE OpenRuns(w) = {}
        BY DEF OneRunWhileRunning
      <3>1. \A r \in OpenRuns(w) : workflows[w].status = "running" /\ runs[r].step = workflows[w].current
        BY <2>0 DEF OpenRuns, RunsLive, Live
      <3>2. ASSUME workflows[w].status = "running"
            PROVE  \E r \in DOMAIN runs : OpenRuns(w) = {r} /\ runs[r].step = workflows[w].current
        <4>1. PICK r \in DOMAIN runs : runs[r].workflow = w /\ IsOpen(r)
          BY <2>0, <3>2 DEF RunsAlone
        <4>2. OpenRuns(w) = {r}
          BY <2>0, <4>1 DEF RunsAlone, OpenRuns
        <4> QED BY <3>1, <4>2
      <3> QED BY <3>1, <3>2
    <2> QED BY <2>0, <2>1, <2>2 DEF RunsAccountFor
  <1> QED BY <1>1, InductiveInvariant, PTL

\* No step begins before all those in front of it have completed and left a
\* result, and none that is a group ends while a branch of it is at work, through
\* every failure, resume, crash and restart (runStep, runGroup, resume, hydrate).
THEOREM StepsTakenInOrder == Spec => []WorkInOrder
  <1>1. IInv => WorkInOrder
    <2> SUFFICES ASSUME IInv PROVE WorkInOrder
      OBVIOUS
    <2>1. ASSUME NEW w \in Workflows, NEW i \in Steps(workflows[w])
          PROVE  /\ workflows[w].steps[i].status # "pending" => Front(workflows[w], i)
                 /\ Barrier(workflows[w].shape[i], workflows[w].steps[i])
      <3>1. workflows[w] \in Snapshots
        BY SnapshotsTold, BoundsAssumption DEF IInv
      <3> QED BY <3>1 DEF Snapshots, Sound, Touched
    <2>2. StepsInOrder
      BY <2>1 DEF StepsInOrder, Front
    <2>3. GroupBarrier
      BY <2>1 DEF GroupBarrier, Barrier, Branches
    <2> QED BY <2>2, <2>3 DEF WorkInOrder
  <1> QED BY <1>1, InductiveInvariant, PTL

\* While the process lives a step or branch that has completed is never run
\* again, whatever fails or is resumed around it (resume, runGroup).
THEOREM CompletedIsKept == Spec => ResultsKept
  <1>1. KeepsResults => \A w \in Workflows : up /\ up' => \A i \in Steps(workflows[w]) :
          LET step == workflows[w].steps[i] IN
          /\ step.status = "completed" => workflows'[w].steps[i] = step
          /\ \A b \in Branches(workflows[w], i) : step.branches[b].status = "completed" =>
               workflows'[w].steps[i].branches[b] = step.branches[b]
    BY DEF KeepsResults, Keeps
  <1> QED BY <1>1, InductiveInvariant, PTL DEF ResultsKept

\* A run tells the Knowledge Indexer of its end once: only the last update of the
\* turn in which it ends is a settled one (runStep, runSingle, runGroup).
THEOREM EndIsReportedOnce == Spec => ReportedOnce
  <1>1. ReportsEnd => \A w \in Workflows : up /\ up' =>
          \A k \in Len(pending[w]) + 1 .. Len(pending'[w]) :
            pending'[w][k].status \in Settled =>
              /\ k = Len(pending'[w])
              /\ \E r \in OpenRuns(w) : runs'[r].at = "over"
    BY DEF ReportsEnd
  <1> QED BY <1>1, InductiveInvariant, PTL DEF ReportedOnce

-----------------------------------------------------------------------------
\* With local storage, whose lock applies the writes in order, a workflow's
\* record, its unwritten snapshots and the workflow as it is now lie on one
\* course, each at least as far as the one before; a completed one ends it.
Whole(wf) == wf.status = "completed" => Incomplete(wf) = {}

OnCourse(wf, queue, record) ==
  /\ Whole(record)
  /\ wf = Unsubmitted => queue = <<>>
  /\ wf # Unsubmitted =>
       /\ Whole(wf)
       /\ \A k \in DOMAIN queue :
            /\ Behind(queue[k], wf) /\ Whole(queue[k])
            /\ \A l \in DOMAIN queue : k <= l => Behind(queue[k], queue[l])
            /\ queue[k].status = "completed" => k = Len(queue) /\ wf.status = "completed"
       /\ record # Unsubmitted =>
            /\ Behind(record, wf) /\ \A k \in DOMAIN queue : Behind(record, queue[k])
            /\ record.status = "completed" => queue = <<>> /\ wf.status = "completed"

Course == \A w \in Workflows : OnCourse(workflows[w], pending[w], disk[w])

LEMMA Submitted ==
  ASSUME NEW wf \in Snapshots
  PROVE  wf # Unsubmitted /\ wf.status \in InFlight \cup Settled
  BY DEF Snapshots, Workflow, Unsubmitted, InFlight, Settled

\* A turn of a workflow that has not completed goes on with its course.
LEMMA TurnStaysOnCourse ==
  ASSUME IInv, Course, NEW w \in Workflows, NEW new \in Snapshots, Turn(w, new), disk' = disk,
         workflows[w].status # "completed",
         \/ workflows[w] = Unsubmitted /\ disk[w] = Unsubmitted
         \/ workflows[w] # Unsubmitted /\ Behind(workflows[w], new)
  PROVE  /\ Course'
         /\ workflows'[w] \in Snapshots /\ Level(workflows'[w], new)
         /\ \A v \in Workflows : v # w => workflows'[v] = workflows[v]
  <1> DEFINE wf     == workflows[w]
             record == disk[w]
             old    == pending[w]
             all    == pending'[w]
             last   == workflows'[w]
  <1>1. PICK snaps \in Seq(Snapshots) :
          /\ snaps # <<>> /\ Save(w, snaps) /\ Leveled(snaps, new)
          /\ \A k \in 1 .. Len(snaps) : snaps[k].status = "completed" => k = Len(snaps) /\ Incomplete(new) = {}
    BY DEF Turn
  <1>2. /\ last = snaps[Len(snaps)] /\ last \in Snapshots
        /\ all = old \o snaps /\ old \in Seq(Snapshots)
        /\ \A v \in Workflows : v # w => workflows'[v] = workflows[v] /\ pending'[v] = pending[v]
    BY <1>1, SaveStores DEF IInv, Typed
  <1>3. OnCourse(wf, old, record)
    BY DEF Course
  <1>4. /\ wf.status # "completed"
        /\ \/ wf = Unsubmitted /\ record = Unsubmitted
           \/ wf # Unsubmitted /\ Behind(wf, new)
    OBVIOUS
  <1>5. disk'[w] = record
    OBVIOUS
  <1>6. \A v \in Workflows : v # w => OnCourse(workflows'[v], pending'[v], disk'[v])
    BY <1>2 DEF Course
  <1> HIDE DEF wf, record, old, all, last
  <1>7. /\ Len(all) = Len(old) + Len(snaps) /\ Len(old) \in Nat /\ Len(snaps) \in Nat /\ Len(snaps) > 0
        /\ DOMAIN all = 1 .. Len(old) + Len(snaps) /\ DOMAIN old = 1 .. Len(old)
        /\ \A k \in 1 .. Len(old) + Len(snaps) : all[k] = IF k <= Len(old) THEN old[k] ELSE snaps[k - Len(old)]
    <2>1. /\ all \in Seq(Snapshots) /\ Len(all) = Len(old) + Len(snaps) /\ Len(old) \in Nat /\ Len(snaps) \in Nat
          /\ \A k \in 1 .. Len(old) + Len(snaps) : all[k] = IF k <= Len(old) THEN old[k] ELSE snaps[k - Len(old)]
      BY <1>2, ConcatProperties
    <2>2. Len(snaps) > 0
      BY <1>1, <2>1, EmptySeq
    <2>3. DOMAIN all = 1 .. Len(all) /\ DOMAIN old = 1 .. Len(old)
      BY <1>2, <2>1
    <2> QED BY <2>1, <2>2, <2>3
  <1>8. ASSUME NEW k \in DOMAIN all, k <= Len(old)
        PROVE  /\ k \in DOMAIN old /\ all[k] = old[k] /\ wf # Unsubmitted /\ Behind(wf, new)
               /\ Behind(all[k], new) /\ Whole(all[k]) /\ all[k].status # "completed"
    <2>1. k \in DOMAIN old /\ all[k] = old[k]
      BY <1>7, <1>8
    <2>2. wf # Unsubmitted
      BY <1>3, <1>7, <2>1 DEF OnCourse
    <2>3. Behind(old[k], wf) /\ Whole(old[k]) /\ old[k].status # "completed"
      BY <1>3, <1>4, <2>1, <2>2 DEF OnCourse
    <2> QED BY <1>4, <2>1, <2>2, <2>3, Levels
  <1>9. ASSUME NEW k \in DOMAIN all, ~(k <= Len(old))
        PROVE  /\ Level(all[k], new) /\ Whole(all[k])
               /\ all[k].status = "completed" => k = Len(all) /\ last.status = "completed"
    <2>1. k - Len(old) \in 1 .. Len(snaps) /\ all[k] = snaps[k - Len(old)]
      BY <1>7, <1>9
    <2>2. Level(all[k], new) /\ Incomplete(all[k]) = Incomplete(new)
      BY <1>1, <2>1, Levels DEF Leveled
    <2>3. all[k].status = "completed" => k - Len(old) = Len(snaps) /\ Incomplete(new) = {}
      BY <1>1, <2>1
    <2>4. ASSUME k - Len(old) = Len(snaps) PROVE k = Len(all) /\ all[k] = last
      <3>1. k \in Nat
        BY <1>7
      <3>2. k = Len(all)
        BY <1>7, <2>4, <3>1
      <3> QED BY <1>2, <2>1, <2>4, <3>2
    <2> QED BY <2>2, <2>3, <2>4 DEF Whole
  <1>10. Level(last, new) /\ Whole(last) /\ last # Unsubmitted
    <2>1. Len(all) \in DOMAIN all /\ ~(Len(all) <= Len(old)) /\ all[Len(all)] = last
      <3>1. Len(all) - Len(old) = Len(snaps) /\ Len(all) \in DOMAIN all /\ ~(Len(all) <= Len(old))
        BY <1>7
      <3> QED BY <1>2, <1>7, <3>1
    <2> QED BY <1>2, <1>9, <2>1, Submitted
  <1>11. ASSUME NEW k \in DOMAIN all
         PROVE  /\ Behind(all[k], last) /\ Whole(all[k])
                /\ \A l \in DOMAIN all : k <= l => Behind(all[k], all[l])
                /\ all[k].status = "completed" => k = Len(all) /\ last.status = "completed"
    <2>1. Behind(all[k], new) /\ Behind(new, last) /\ Whole(all[k])
      BY <1>8, <1>9, <1>10, Levels
    <2>2. ASSUME NEW l \in DOMAIN all, k <= l PROVE Behind(all[k], all[l])
      <3>1. CASE l <= Len(old)
        <4>1. k <= Len(old)
          BY <1>7, <2>2, <3>1
        <4> QED BY <1>3, <1>8, <2>2, <3>1, <4>1 DEF OnCourse
      <3>2. CASE ~(l <= Len(old))
        BY <1>9, <2>1, <3>2, Levels
      <3> QED BY <3>1, <3>2
    <2> QED BY <1>8, <1>9, <2>1, <2>2, Levels
  <1>12. ASSUME record # Unsubmitted
         PROVE  /\ Behind(record, last) /\ \A k \in DOMAIN all : Behind(record, all[k])
                /\ record.status # "completed"
    <2>1. wf # Unsubmitted /\ Behind(wf, new)
      BY <1>4, <1>12
    <2>2. Behind(record, wf) /\ record.status # "completed" /\ \A k \in DOMAIN old : Behind(record, old[k])
      BY <1>3, <1>4, <1>12, <2>1 DEF OnCourse
    <2>3. Behind(record, new)
      BY <2>1, <2>2, Levels
    <2>4. Behind(record, last)
      BY <1>10, <2>3, Levels
    <2>5. ASSUME NEW k \in DOMAIN all PROVE Behind(record, all[k])
      <3>1. CASE k <= Len(old)
        BY <1>8, <2>2, <3>1
      <3>2. CASE ~(k <= Len(old))
        BY <1>9, <2>3, <3>2, Levels
      <3> QED BY <3>1, <3>2
    <2> QED BY <2>2, <2>4, <2>5
  <1>13. OnCourse(last, all, record)
    <2>1. Whole(record)
      BY <1>3 DEF OnCourse
    <2> QED BY <1>10, <1>11, <1>12, <2>1 DEF OnCourse
  <1>14. Course'
    BY <1>5, <1>6, <1>13 DEF Course, last, all
  <1> QED BY <1>2, <1>10, <1>14 DEF last

\* What is left of a queue without its first write.
LEMMA WithoutFirst ==
  ASSUME NEW queue \in Seq(Snapshots), queue # <<>>
  PROVE  LET rest == SubSeq(queue, 1, 0) \o SubSeq(queue, 2, Len(queue))
         IN /\ Len(queue) \in Nat \ {0} /\ rest \in Seq(Snapshots) /\ Len(rest) = Len(queue) - 1
            /\ \A k \in DOMAIN rest : k + 1 \in DOMAIN queue /\ rest[k] = queue[k + 1]
  <1> DEFINE front == SubSeq(queue, 1, 0)
             back  == SubSeq(queue, 1 + 1, Len(queue))
             rest  == front \o back
  <1>1. Len(queue) \in Nat \ {0} /\ 1 \in DOMAIN queue /\ DOMAIN queue = 1 .. Len(queue)
    OBVIOUS
  <1>2. back \in Seq(Snapshots) /\ Len(back) = Len(queue) - 1
    BY <1>1
  <1>3. \A m \in 1 .. Len(queue) - 1 : back[m] = queue[m + 1]
    BY <1>1
  <1>4. front \in Seq(Snapshots) /\ Len(front) = 0
    BY <1>1
  <1> HIDE DEF front, back
  <1>5. rest \in Seq(Snapshots) /\ Len(rest) = Len(queue) - 1
    <2>1. rest \in Seq(Snapshots) /\ Len(rest) = Len(front) + Len(back)
      BY <1>2, <1>4
    <2> HIDE DEF rest
    <2> QED BY <1>1, <1>2, <1>4, <2>1
  <1>6. ASSUME NEW k \in DOMAIN rest PROVE k + 1 \in DOMAIN queue /\ rest[k] = queue[k + 1]
    <2>1. k \in 1 .. Len(queue) - 1
      BY <1>1, <1>5
    <2>2. rest[k] = back[k]
      BY <1>1, <1>2, <1>4, <2>1
    <2> QED BY <1>1, <1>3, <2>1, <2>2
  <1> QED BY <1>1, <1>5, <1>6 DEF front, back

\* The first write is made, or is lost: what is left is still on the course.
LEMMA WriteStaysOnCourse ==
  ASSUME Ordered, IInv, Course, NEW w \in Workflows, PersistWorkflow(w) \/ PersistFails(w)
  PROVE  /\ Course' /\ up /\ UNCHANGED <<up, workflows>>
         /\ \/ disk' = disk
            \/ /\ pending[w] # <<>> /\ 1 \in DOMAIN pending[w] /\ pending[w][1] \in Snapshots
               /\ disk' = [disk EXCEPT ![w] = pending[w][1]]
  <1> DEFINE wf     == workflows[w]
             queue  == pending[w]
             record == disk[w]
             rest   == SubSeq(queue, 1, 0) \o SubSeq(queue, 2, Len(queue))
  <1>1. up /\ UNCHANGED <<up, workflows>> /\ Typed
    BY DEF PersistWorkflow, PersistFails, IInv
  <1>2. /\ queue \in Seq(Snapshots) /\ pending \in [Workflows -> Seq(Snapshots)]
        /\ disk \in [Workflows -> Snapshots \cup {Unsubmitted}]
    BY <1>1 DEF Typed
  <1>3. /\ 1 \in DOMAIN queue /\ pending' = WithoutWrite(w, 1)
        /\ disk' = [disk EXCEPT ![w] = queue[1]] \/ disk' = disk
    BY DEF PersistWorkflow, PersistFails, NextWrites
  <1>4. pending' = [pending EXCEPT ![w] = rest]
    BY <1>3 DEF WithoutWrite
  <1>5. queue # <<>>
    BY <1>3
  <1>6. OnCourse(wf, queue, record)
    BY DEF Course
  <1>7. \A v \in Workflows : v # w => OnCourse(workflows'[v], pending'[v], disk'[v])
    <2>1. \A v \in Workflows : v # w => pending'[v] = pending[v] /\ disk'[v] = disk[v]
      BY <1>2, <1>3, <1>4
    <2> QED BY <1>1, <2>1 DEF Course
  <1>8. pending'[w] = rest /\ workflows'[w] = wf /\ (disk'[w] = queue[1] \/ disk'[w] = record)
    BY <1>1, <1>2, <1>3, <1>4
  <1>9. disk' = disk \/ disk' = [disk EXCEPT ![w] = queue[1]]
    BY <1>3
  <1> HIDE DEF wf, queue, record
  <1>10. /\ Len(queue) \in Nat \ {0} /\ rest \in Seq(Snapshots) /\ Len(rest) = Len(queue) - 1
         /\ \A k \in DOMAIN rest : k + 1 \in DOMAIN queue /\ rest[k] = queue[k + 1]
    BY <1>2, <1>5, WithoutFirst
  <1> HIDE DEF rest
  <1>11. queue[1] \in Snapshots /\ queue[1] # Unsubmitted /\ DOMAIN rest = 1 .. Len(rest) /\ DOMAIN queue = 1 .. Len(queue)
    BY <1>2, <1>3, <1>10, ElementOfSeq, Submitted
  <1>12. wf # Unsubmitted
    BY <1>5, <1>6 DEF OnCourse
  <1>13. ASSUME NEW k \in DOMAIN rest
         PROVE  /\ Behind(rest[k], wf) /\ Whole(rest[k])
                /\ \A l \in DOMAIN rest : k <= l => Behind(rest[k], rest[l])
                /\ rest[k].status = "completed" => k = Len(rest) /\ wf.status = "completed"
                /\ Behind(queue[1], rest[k])
                /\ record # Unsubmitted => Behind(record, rest[k])
    <2>1. k + 1 \in DOMAIN queue /\ rest[k] = queue[k + 1] /\ k \in Nat /\ 1 <= k + 1
      BY <1>10, <1>11
    <2>2. ASSUME NEW l \in DOMAIN rest, k <= l PROVE Behind(rest[k], rest[l])
      <3>1. l + 1 \in DOMAIN queue /\ rest[l] = queue[l + 1] /\ k + 1 <= l + 1
        BY <1>10, <1>11, <2>1, <2>2
      <3> QED BY <1>6, <1>12, <2>1, <3>1 DEF OnCourse
    <2>3. k + 1 = Len(queue) => k = Len(rest)
      BY <1>10, <2>1
    <2> QED BY <1>3, <1>6, <1>12, <2>1, <2>2, <2>3 DEF OnCourse, queue
  <1>14. OnCourse(wf, rest, record)
    <2>1. Whole(record) /\ Whole(wf)
      BY <1>6, <1>12 DEF OnCourse
    <2>2. record # Unsubmitted => Behind(record, wf) /\ record.status # "completed"
      BY <1>5, <1>6, <1>12 DEF OnCourse
    <2> QED BY <1>12, <1>13, <2>1, <2>2 DEF OnCourse
  <1>15. OnCourse(wf, rest, queue[1])
    <2>1. /\ Whole(queue[1]) /\ Whole(wf) /\ Behind(queue[1], wf)
          /\ queue[1].status = "completed" => 1 = Len(queue) /\ wf.status = "completed"
      BY <1>3, <1>6, <1>12 DEF OnCourse, queue
    <2>2. ASSUME 1 = Len(queue) PROVE rest = <<>>
      <3> DEFINE n == Len(queue)
                 m == Len(rest)
      <3>1. n = 1 /\ m = n - 1 /\ rest \in Seq(Snapshots)
        BY <1>10, <2>2
      <3>2. m = 0 => rest = <<>>
        BY <3>1, EmptySeq
      <3> HIDE DEF n, m
      <3> QED BY <3>1, <3>2
    <2> QED BY <1>12, <1>13, <2>1, <2>2 DEF OnCourse
  <1>16. OnCourse(workflows'[w], pending'[w], disk'[w])
    BY <1>8, <1>14, <1>15
  <1>17. Course'
    BY <1>7, <1>16 DEF Course
  <1> QED BY <1>1, <1>3, <1>5, <1>9, <1>11, <1>17 DEF queue

\* hydrate() corrects what is in flight, which is not how far a workflow has got.
LEMMA CorrectedLevel ==
  ASSUME BoundsAssumption, NEW wf \in Snapshots \cup {Unsubmitted}
  PROVE  /\ Level(Corrected(wf), wf)
         /\ IF wf.status \in InFlight THEN Corrected(wf).status = "failed" ELSE Corrected(wf) = wf
  <1>1. CASE wf.status \notin InFlight
    BY <1>1, Levels DEF Corrected
  <1>2. CASE wf.status \in InFlight
    <2>1. wf \in Snapshots
      BY <1>2 DEF Unsubmitted, InFlight
    <2>2. wf \in Workflow /\ Steps(wf) \subseteq StepNums
      BY <2>1, BoundsAssumption DEF Snapshots, Sound, Steps, StepNums
    <2> DEFINE steps == [i \in StepNums |-> InterruptedStep(wf.steps[i])]
               new   == [wf EXCEPT !.status = "failed", !.steps = steps]
    <2>3. Corrected(wf) = new
      BY <1>2 DEF Corrected
    <2>4. ASSUME NEW i \in StepNums
          PROVE  steps[i].status = "completed" <=> wf.steps[i].status = "completed"
      <3> DEFINE step == wf.steps[i]
      <3>1. step \in Step
        BY <2>2 DEF Workflow
      <3>2. steps[i] = InterruptedStep(step)
        OBVIOUS
      <3> HIDE DEF step, steps
      <3>3. Interrupted(step) \in Step /\ (Interrupted(step).status = "completed" <=> step.status = "completed")
        BY <3>1 DEF Interrupted, Step, InFlight, Settled
      <3>4. InterruptedStep(step).status = Interrupted(step).status
        <4> DEFINE inner == Interrupted(step)
        <4>1. inner \in Step /\ InterruptedStep(step) =
                [inner EXCEPT !.branches = [b \in BranchNums |-> Interrupted(step.branches[b])]]
          BY <3>3 DEF InterruptedStep
        <4> HIDE DEF inner
        <4>2. InterruptedStep(step).status = inner.status
          BY <4>1 DEF Step
        <4> QED BY <4>2 DEF inner
      <3> QED BY <3>2, <3>3, <3>4 DEF step
    <2> HIDE DEF steps
    <2>5. new.status = "failed" /\ new.shape = wf.shape /\ new.steps = steps
      BY <2>2 DEF Workflow
    <2> HIDE DEF new
    <2>6. Level(new, wf)
      BY <2>2, <2>4, <2>5 DEF Level, Behind, Steps
    <2> QED BY <1>2, <2>3, <2>5, <2>6
  <1> QED BY <1>1, <1>2

\* A boot begins a course: from the record, or from nothing.
LEMMA BootBeginsCourse ==
  ASSUME BoundsAssumption, IInv, Course, Hydrate \/ HydrateFails
  PROVE  Course'
  <1>1. CASE HydrateFails
    BY <1>1 DEF HydrateFails, Course
  <1>2. CASE Hydrate
    <2> SUFFICES ASSUME NEW w \in Workflows
                 PROVE  OnCourse(workflows'[w], pending'[w], disk'[w])
      BY DEF Course
    <2> DEFINE record == disk[w]
               wf     == Corrected(record)
               queue  == pending'[w]
    <2>1. /\ workflows'[w] = wf /\ disk'[w] = record /\ record \in Snapshots \cup {Unsubmitted}
          /\ queue = IF record.status \in InFlight THEN <<wf>> ELSE <<>>
      BY <1>2 DEF Hydrate, IInv, Typed
    <2>2. Whole(record)
      BY DEF Course, OnCourse
    <2>3. /\ Level(wf, record)
          /\ IF record.status \in InFlight THEN wf.status = "failed" ELSE wf = record
          /\ record.status \in InFlight => wf \in Snapshots
      BY <2>1, CorrectedLevel, CorrectedSound
    <2> HIDE DEF record, wf, queue
    <2>4. CASE record.status \in InFlight
      <3>1. /\ wf # Unsubmitted /\ wf.status # "completed" /\ record.status # "completed" /\ Whole(wf)
        BY <2>3, <2>4, Submitted DEF Whole, InFlight
      <3>2. Behind(record, wf) /\ Behind(wf, wf)
        BY <2>3, Levels
      <3>3. DOMAIN queue = {1} /\ queue[1] = wf
        BY <2>1, <2>4
      <3>4. OnCourse(wf, queue, record)
        BY <2>2, <3>1, <3>2, <3>3 DEF OnCourse
      <3> QED BY <2>1, <3>4 DEF queue
    <2>5. CASE record.status \notin InFlight
      <3>1. wf = record /\ queue = <<>> /\ DOMAIN queue = {}
        BY <2>1, <2>3, <2>5, EmptySeq
      <3>2. Behind(wf, wf)
        BY Levels
      <3>3. OnCourse(wf, queue, record)
        BY <2>2, <3>1, <3>2 DEF OnCourse
      <3> QED BY <2>1, <3>3 DEF queue
    <2> QED BY <2>4, <2>5
  <1> QED BY <1>1, <1>2

-----------------------------------------------------------------------------
\* What a workflow shows of itself.
States  == [w \in Workflows |-> AsView(workflows[w])]
Records == [w \in Workflows |-> AsView(disk[w])]

LEMMA Viewed ==
  ASSUME BoundsAssumption, NEW wf \in Snapshots
  PROVE  /\ IsFiniteSet(Incomplete(wf)) /\ Cardinality(Incomplete(wf)) \in Nat
         /\ Len(wf.shape) \in 1 .. MaxSteps /\ Len(wf.shape) \in Nat
         /\ AsView(wf).steps = Len(wf.shape) /\ AsView(wf).done \in 0 .. Len(wf.shape)
         /\ AsView(wf).done = AsView(wf).steps <=> Incomplete(wf) = {}
         /\ AsView(wf).state = IF wf.status \in InFlight THEN "active" ELSE wf.status
         /\ AsView(wf).state \in {"active", "completed", "failed"}
         /\ AsView(wf) # Sequence!Absent
  <1> DEFINE n     == Len(wf.shape)
             left  == Incomplete(wf)
             count == Cardinality(left)
  <1>1. n \in 1 .. MaxSteps /\ n \in Nat /\ Steps(wf) = 1 .. n /\ left \in SUBSET (1 .. n)
    BY BoundsAssumption DEF Snapshots, Sound, Steps, StepNums, Incomplete
  <1>2. AsView(wf) = [state |-> IF wf.status \in InFlight THEN "active" ELSE wf.status,
                      done |-> n - count, steps |-> n]
    BY DEF AsView
  <1>3. wf.status \in InFlight \cup Settled
    BY Submitted
  <1> HIDE DEF n, left
  <1>4. IsFiniteSet(1 .. n) /\ Cardinality(1 .. n) = n
    BY <1>1, FS_Interval
  <1>5. IsFiniteSet(left) /\ count \in Nat /\ count <= n /\ (count = 0 <=> left = {})
    <2>1. IsFiniteSet(left) /\ Cardinality(left) <= Cardinality(1 .. n)
      BY <1>1, <1>4, FS_Subset
    <2> QED BY <1>4, <2>1, FS_CardinalityType, FS_EmptySet
  <1> HIDE DEF count
  <1>6. count \in 0 .. n /\ n - count \in 0 .. n /\ (n - count = n <=> count = 0)
    BY <1>1, <1>5
  <1>7. AsView(wf).state \in {"active", "completed", "failed"} /\ AsView(wf) # Sequence!Absent
    <2>1. AsView(wf).state \in {"active", "completed", "failed"}
      BY <1>2, <1>3 DEF InFlight, Settled
    <2> QED BY <2>1 DEF Sequence!Absent
  <1> QED BY <1>1, <1>2, <1>5, <1>6, <1>7 DEF n, left, count

LEMMA UnsubmittedIsAbsent == AsView(Unsubmitted) = Sequence!Absent
  <1> DEFINE none == <<>>
  <1>1. Unsubmitted.shape = none /\ Len(none) = 0 /\ Unsubmitted.status = "absent"
    BY EmptySeq DEF Unsubmitted
  <1> HIDE DEF none
  <1>2. Incomplete(Unsubmitted) = {}
    BY <1>1 DEF Incomplete, Steps
  <1>3. Cardinality(Incomplete(Unsubmitted)) = 0
    BY <1>2, FS_EmptySet
  <1> QED BY <1>1, <1>3 DEF AsView, InFlight, Sequence!Absent

\* One that is as far shows as much, one that is further more.
LEMMA LevelViewed ==
  ASSUME NEW a, NEW b, Level(a, b)
  PROVE  AsView(a) = [AsView(b) EXCEPT !.state = AsView(a).state]
  <1>1. a.shape = b.shape /\ Incomplete(a) = Incomplete(b)
    BY Levels DEF Level, Behind
  <1> QED BY <1>1 DEF AsView

LEMMA BehindViewed ==
  ASSUME BoundsAssumption, NEW a \in Snapshots, NEW b \in Snapshots, Behind(a, b)
  PROVE  AsView(a).steps = AsView(b).steps /\ AsView(a).done <= AsView(b).done
  <1> DEFINE left == Cardinality(Incomplete(a))
             rest == Cardinality(Incomplete(b))
             n    == Len(a.shape)
  <1>1. Len(b.shape) = n /\ Incomplete(b) \in SUBSET Incomplete(a)
    BY DEF Behind, Incomplete, Steps
  <1>2. n \in Nat /\ left \in Nat /\ rest \in Nat /\ IsFiniteSet(Incomplete(a))
    BY <1>1, Viewed
  <1>3. rest <= left
    BY <1>1, <1>2, FS_Subset
  <1>4. /\ AsView(a).done = n - left /\ AsView(b).done = n - rest
        /\ AsView(a).steps = n /\ AsView(b).steps = n
    BY <1>1 DEF AsView
  <1> HIDE DEF n, left, rest
  <1> QED BY <1>2, <1>3, <1>4

LEMMA FurtherViewed ==
  ASSUME BoundsAssumption, NEW a \in Snapshots, NEW b \in Snapshots, a.shape = b.shape,
         NEW i \in Incomplete(a), Incomplete(b) = Incomplete(a) \ {i},
         AsView(a).state = AsView(b).state
  PROVE  AsView(b) = [AsView(a) EXCEPT !.done = AsView(a).done + 1]
  <1> DEFINE left == Cardinality(Incomplete(a))
             rest == Cardinality(Incomplete(b))
             n    == Len(a.shape)
             say  == AsView(a).state
  <1>1. n \in Nat /\ left \in Nat /\ rest \in Nat /\ IsFiniteSet(Incomplete(a))
    BY Viewed
  <1>2. rest = left - 1
    <2> DEFINE all == Incomplete(a)
    <2>1. IsFiniteSet(all) /\ i \in all /\ Incomplete(b) = all \ {i}
      BY <1>1
    <2> HIDE DEF all
    <2>2. Cardinality(all \ {i}) = Cardinality(all) - 1
      BY <2>1, FS_RemoveElement
    <2> QED BY <2>1, <2>2 DEF all
  <1>3. /\ AsView(a) = [state |-> say, done |-> n - left, steps |-> n]
        /\ AsView(b) = [state |-> say, done |-> n - rest, steps |-> n]
    BY DEF AsView
  <1> HIDE DEF left, rest, n, say
  <1>4. n - rest = (n - left) + 1
    BY <1>1, <1>2
  <1>5. AsView(a).done = n - left
    BY <1>3
  <1> QED BY <1>3, <1>4, <1>5

LEMMA OneStateMoves ==
  ASSUME NEW w \in Workflows, \A v \in Workflows : v # w => workflows'[v] = workflows[v]
  PROVE  /\ States' = [States EXCEPT ![w] = AsView(workflows'[w])]
         /\ States[w] = AsView(workflows[w]) /\ Records[w] = AsView(disk[w])
         /\ disk' = disk => Records' = Records
  BY DEF States, Records

-----------------------------------------------------------------------------
\* Each action is what WorkflowSpec promises, or shows nothing.
LEMMA SubmitAsPromised ==
  ASSUME BoundsAssumption, ShapesAssumption, IInv, Course, NEW w \in Workflows, Submit(w)
  PROVE  Course' /\ Sequence!Submit(w)
  <1>1. up /\ workflows[w] = Unsubmitted /\ disk[w] = Unsubmitted /\ UNCHANGED <<up, disk>>
    BY DEF Submit
  <1>2. PICK new \in Snapshots : Turn(w, new) /\ Incomplete(new) = Steps(new)
    BY SubmitKeeps
  <1> DEFINE last == workflows'[w]
  <1>3. last.status = "running"
    BY SubmitKeeps
  <1>4. /\ Course' /\ last \in Snapshots /\ Level(last, new)
        /\ \A v \in Workflows : v # w => workflows'[v] = workflows[v]
    <2>1. workflows[w].status # "completed"
      BY <1>1 DEF Unsubmitted
    <2> QED BY <1>1, <1>2, <2>1, TurnStaysOnCourse
  <1> DEFINE n == Len(last.shape)
  <1>5. n \in 1 .. MaxSteps /\ AsView(last) = [state |-> "active", done |-> 0, steps |-> n]
    <2> HIDE DEF last
    <2>1. n \in 1 .. MaxSteps /\ n \in Nat /\ Cardinality(Incomplete(last)) \in Nat
      BY <1>4, Viewed
    <2>2. Incomplete(last) = 1 .. n
      BY <1>2, <1>4, Levels DEF Level, Behind, Steps
    <2>3. Cardinality(1 .. n) = n
      BY <2>1, FS_Interval
    <2>4. AsView(last) = [state |-> "active", done |-> n - n, steps |-> n]
      BY <1>3, <2>2, <2>3 DEF AsView, InFlight
    <2> HIDE DEF n
    <2>5. n - n = 0
      BY <2>1
    <2> QED BY <2>1, <2>4, <2>5
  <1>6. /\ States' = [States EXCEPT ![w] = AsView(last)] /\ Records' = Records
        /\ States[w] = Sequence!Absent /\ Records[w] = Sequence!Absent
    BY <1>1, <1>4, OneStateMoves, UnsubmittedIsAbsent
  <1> HIDE DEF last, n
  <1>7. \E m \in 1 .. MaxSteps : States' = [States EXCEPT ![w] = [state |-> "active", done |-> 0, steps |-> m]]
    BY <1>5, <1>6
  <1> QED BY <1>1, <1>4, <1>6, <1>7 DEF Sequence!Submit, States, Records

LEMMA ResumeAsPromised ==
  ASSUME BoundsAssumption, IInv, Course, NEW w \in Workflows, Resume(w)
  PROVE  Course' /\ Sequence!Resume(w)
  <1> DEFINE wf   == workflows[w]
             last == workflows'[w]
  <1>1. up /\ wf.status = "failed" /\ UNCHANGED <<up, disk>>
    BY DEF Resume
  <1>2. Turn(w, wf) /\ Incomplete(wf) # {} /\ last.status = "running"
    BY ResumeKeeps
  <1>3. wf \in Snapshots /\ wf # Unsubmitted
    BY <1>1 DEF IInv, Typed, Unsubmitted
  <1>4. /\ Course' /\ last \in Snapshots /\ Level(last, wf)
        /\ \A v \in Workflows : v # w => workflows'[v] = workflows[v]
    <2>1. Behind(wf, wf)
      BY Levels
    <2> QED BY <1>1, <1>2, <1>3, <2>1, TurnStaysOnCourse
  <1>5. /\ States' = [States EXCEPT ![w] = AsView(last)] /\ Records' = Records /\ States[w] = AsView(wf)
    BY <1>1, <1>4, OneStateMoves
  <1> HIDE DEF wf, last
  <1>6. AsView(wf).state = "failed" /\ AsView(wf).done < AsView(wf).steps
    <2>1. /\ AsView(wf).steps = Len(wf.shape) /\ AsView(wf).done \in 0 .. Len(wf.shape) /\ Len(wf.shape) \in Nat
          /\ AsView(wf).done # AsView(wf).steps
      BY <1>2, <1>3, Viewed
    <2>2. AsView(wf).state = "failed"
      BY <1>1, <1>3, Viewed DEF InFlight
    <2> QED BY <2>1, <2>2
  <1>7. AsView(last) = [AsView(wf) EXCEPT !.state = "active"]
    <2>1. AsView(last).state = "active"
      BY <1>2, <1>4, Viewed DEF InFlight
    <2> QED BY <1>4, <2>1, LevelViewed
  <1>8. States' = [States EXCEPT ![w].state = "active"]
    BY <1>5, <1>7
  <1> QED BY <1>1, <1>4, <1>5, <1>6, <1>8 DEF Sequence!Resume, Sequence!Move, States, Records

\* What a turn of an open run comes to.
LEMMA RunTurnTold ==
  ASSUME BoundsAssumption, IInv, NEW r \in DOMAIN runs, RunTurn(r)
  PROVE  LET w == runs[r].workflow IN
         /\ w \in Workflows /\ up /\ UNCHANGED <<up, disk>>
         /\ workflows[w] \in Snapshots /\ workflows[w].status = "running"
         /\ \/ StepEnds(w, runs[r].step)
            \/ /\ Turn(w, workflows[w])
               /\ \/ workflows'[w].status = "running"
                  \/ workflows'[w].status = "completed" /\ Incomplete(workflows[w]) = {}
  <1> DEFINE w == runs[r].workflow
  <1>1. IsOpen(r) /\ up /\ UNCHANGED <<up, disk>>
    BY DEF RunTurn, SingleSettled, BranchSettled, GroupSettled, Advance, IsOpen
  <1>2. w \in Workflows /\ workflows[w] \in Snapshots /\ workflows[w].status = "running"
    BY <1>1, OpenRun DEF Wf, Live
  <1>3. CASE SingleSettled(r)
    BY <1>1, <1>2, <1>3, SingleSettledKeeps
  <1>4. ASSUME NEW b \in BranchNums, BranchSettled(r, b)
        PROVE  Turn(w, workflows[w]) /\ workflows'[w].status = "running"
    BY <1>4, BranchSettledKeeps
  <1>5. CASE GroupSettled(r)
    BY <1>1, <1>2, <1>5, GroupSettledKeeps
  <1>6. CASE Advance(r)
    BY <1>1, <1>2, <1>6, AdvanceKeeps
  <1> HIDE DEF w
  <1>7. \/ StepEnds(w, runs[r].step)
        \/ /\ Turn(w, workflows[w])
           /\ \/ workflows'[w].status = "running"
              \/ workflows'[w].status = "completed" /\ Incomplete(workflows[w]) = {}
    BY <1>3, <1>4, <1>5, <1>6 DEF RunTurn, w
  <1> QED BY <1>1, <1>2, <1>7 DEF w

LEMMA RunTurnAsPromised ==
  ASSUME BoundsAssumption, IInv, Course, NEW r \in DOMAIN runs, RunTurn(r)
  PROVE  Course' /\ (Sequence!Next \/ UNCHANGED <<up, States, Records>>)
  <1> DEFINE w    == runs[r].workflow
             wf   == workflows[w]
             last == workflows'[w]
  <1>1. /\ w \in Workflows /\ up /\ UNCHANGED <<up, disk>>
        /\ wf \in Snapshots /\ wf.status = "running"
        /\ \/ StepEnds(w, runs[r].step)
           \/ /\ Turn(w, wf)
              /\ last.status = "running" \/ (last.status = "completed" /\ Incomplete(wf) = {})
    BY RunTurnTold
  <1> HIDE DEF w
  <1>2. wf # Unsubmitted /\ AsView(wf).state = "active"
    BY <1>1, Submitted, Viewed DEF InFlight
  <1>3. ASSUME NEW new \in Snapshots, Turn(w, new), Behind(wf, new)
        PROVE  /\ Course' /\ last \in Snapshots /\ Level(last, new)
               /\ States' = [States EXCEPT ![w] = AsView(last)] /\ Records' = Records
               /\ States[w] = AsView(wf)
    <2>1. /\ Course' /\ last \in Snapshots /\ Level(last, new)
          /\ \A v \in Workflows : v # w => workflows'[v] = workflows[v]
      BY <1>1, <1>2, <1>3, TurnStaysOnCourse
    <2> QED BY <1>1, <2>1, OneStateMoves
  <1>4. ASSUME Turn(w, wf), NEW to, AsView(last).state = to
        PROVE  /\ Course' /\ last \in Snapshots
               /\ States' = [States EXCEPT ![w].state = to] /\ Records' = Records
               /\ States[w] = AsView(wf)
    <2>1. Behind(wf, wf)
      BY Levels
    <2>2. /\ Course' /\ last \in Snapshots /\ Level(last, wf)
          /\ States' = [States EXCEPT ![w] = AsView(last)] /\ Records' = Records
          /\ States[w] = AsView(wf)
      BY <1>1, <1>3, <1>4, <2>1
    <2>3. AsView(last) = [AsView(wf) EXCEPT !.state = to]
      BY <1>4, <2>2, LevelViewed
    <2> HIDE DEF wf, last
    <2> QED BY <2>2, <2>3
  <1>5. last \in Snapshots => AsView(last).state = IF last.status \in InFlight THEN "active" ELSE last.status
    BY Viewed
  <1>6. CASE Turn(w, wf) /\ last.status = "running"
    <2>1. last \in Snapshots /\ Course'
      BY <1>4, <1>6
    <2>2. AsView(last).state = "active"
      BY <1>5, <1>6, <2>1 DEF InFlight
    <2>3. /\ States' = [States EXCEPT ![w].state = "active"] /\ Records' = Records
          /\ States[w] = AsView(wf)
      BY <1>4, <1>6, <2>2
    <2>4. States' = States
      <3>1. [AsView(wf) EXCEPT !.state = "active"] = AsView(wf)
        BY <1>2 DEF AsView
      <3> HIDE DEF wf, last
      <3>2. States' = [States EXCEPT ![w] = States[w]]
        BY <2>3, <3>1
      <3> QED BY <3>2 DEF States
    <2> QED BY <1>1, <2>1, <2>3, <2>4
  <1>7. CASE Turn(w, wf) /\ last.status = "completed" /\ Incomplete(wf) = {}
    <2>1. last \in Snapshots /\ Course'
      BY <1>4, <1>7
    <2>2. AsView(last).state = "completed"
      BY <1>5, <1>7, <2>1 DEF InFlight
    <2>3. /\ States' = [States EXCEPT ![w].state = "completed"] /\ Records' = Records
          /\ States[w] = AsView(wf)
      BY <1>4, <1>7, <2>2
    <2>4. AsView(wf).done = AsView(wf).steps
      BY <1>1, <1>7, Viewed
    <2> HIDE DEF wf, last
    <2>5. Sequence!Complete(w)
      BY <1>1, <1>2, <2>3, <2>4 DEF Sequence!Complete, Sequence!Move, States, Records
    <2> QED BY <1>1, <2>1, <2>5 DEF Sequence!Next
  <1>8. CASE StepEnds(w, runs[r].step)
    <2> DEFINE i == runs[r].step
    <2>1. i \in Incomplete(wf)
      BY <1>8 DEF StepEnds
    <2>2. AsView(wf).done < AsView(wf).steps
      <3>1. /\ AsView(wf).steps = Len(wf.shape) /\ AsView(wf).done \in 0 .. Len(wf.shape) /\ Len(wf.shape) \in Nat
            /\ AsView(wf).done # AsView(wf).steps
        BY <1>1, <2>1, Viewed
      <3> QED BY <3>1
    <2>3. CASE last.status = "failed" /\ Turn(w, wf)
      <3>1. last \in Snapshots /\ Course'
        BY <1>4, <2>3
      <3>2. AsView(last).state = "failed"
        BY <1>5, <2>3, <3>1 DEF InFlight
      <3>3. /\ States' = [States EXCEPT ![w].state = "failed"] /\ Records' = Records
            /\ States[w] = AsView(wf)
        BY <1>4, <2>3, <3>2
      <3> HIDE DEF wf, last
      <3>4. Sequence!Fail(w)
        BY <1>1, <1>2, <2>2, <3>3 DEF Sequence!Fail, Sequence!Move, States, Records
      <3> QED BY <1>1, <3>1, <3>4 DEF Sequence!Next
    <2>4. ASSUME last.status = "running", NEW new \in Snapshots, Turn(w, new), new.shape = wf.shape,
                 Incomplete(new) = Incomplete(wf) \ {i}
          PROVE  Course' /\ Sequence!StepCompletes(w)
      <3>1. Behind(wf, new)
        BY <2>4 DEF Behind, Incomplete, Steps
      <3>2. /\ Course' /\ last \in Snapshots /\ Level(last, new)
            /\ States' = [States EXCEPT ![w] = AsView(last)] /\ Records' = Records
            /\ States[w] = AsView(wf)
        BY <1>3, <2>4, <3>1
      <3>3. AsView(last).state = "active"
        BY <1>5, <2>4, <3>2 DEF InFlight
      <3>4. last.shape = wf.shape /\ Incomplete(last) = Incomplete(wf) \ {i}
        BY <2>4, <3>2, Levels DEF Level, Behind
      <3> HIDE DEF wf, last, i
      <3>5. AsView(last) = [AsView(wf) EXCEPT !.done = AsView(wf).done + 1]
        BY <1>1, <1>2, <2>1, <3>2, <3>3, <3>4, FurtherViewed
      <3>6. States' = [States EXCEPT ![w].done = @ + 1]
        BY <3>2, <3>5
      <3> QED BY <1>1, <1>2, <2>2, <3>2, <3>6 DEF Sequence!StepCompletes, States, Records
    <2>5. \/ last.status = "failed" /\ Turn(w, wf)
          \/ /\ last.status = "running"
             /\ \E new \in Snapshots : Turn(w, new) /\ new.shape = wf.shape /\ Incomplete(new) = Incomplete(wf) \ {i}
      BY <1>8 DEF StepEnds
    <2> HIDE DEF wf, last, i
    <2>6. CASE last.status = "running"
      <3>1. Course' /\ Sequence!StepCompletes(w)
        BY <2>4, <2>5, <2>6
      <3> QED BY <1>1, <3>1 DEF Sequence!Next
    <2> QED BY <2>3, <2>5, <2>6
  <1> HIDE DEF wf, last
  <1> QED BY <1>1, <1>6, <1>7, <1>8

LEMMA WriteAsPromised ==
  ASSUME BoundsAssumption, Ordered, IInv, Course, NEW w \in Workflows, PersistWorkflow(w) \/ PersistFails(w)
  PROVE  Course' /\ (Sequence!Record(w) \/ UNCHANGED <<up, States, Records>>)
  <1> DEFINE wf     == workflows[w]
             record == disk[w]
             queue  == pending[w]
             first  == queue[1]
  <1>1. Course' /\ up /\ UNCHANGED <<up, workflows>>
    BY WriteStaysOnCourse
  <1>2. CASE disk' = disk
    BY <1>1, <1>2 DEF States, Records
  <1>3. CASE /\ queue # <<>> /\ 1 \in DOMAIN queue /\ first \in Snapshots
             /\ disk' = [disk EXCEPT ![w] = first]
    <2>1. OnCourse(wf, queue, record) /\ wf \in Snapshots \cup {Unsubmitted} /\ record \in Snapshots \cup {Unsubmitted}
      BY DEF Course, IInv, Typed
    <2>2. /\ States' = States /\ States[w] = AsView(wf) /\ Records[w] = AsView(record)
          /\ Records' = [Records EXCEPT ![w] = AsView(first)]
      <3>1. disk \in [Workflows -> Snapshots \cup {Unsubmitted}]
        BY DEF IInv, Typed
      <3> HIDE DEF first
      <3> QED BY <1>1, <1>3, <3>1 DEF States, Records
    <2>3. /\ queue # <<>> /\ 1 \in DOMAIN queue /\ first \in Snapshots /\ first = queue[1]
      BY <1>3
    <2> HIDE DEF wf, record, queue, first
    <2>4. /\ wf \in Snapshots /\ wf # Unsubmitted
          /\ Behind(first, wf) /\ Whole(first)
          /\ first.status = "completed" => wf.status = "completed"
          /\ record # Unsubmitted => Behind(record, first) /\ record.status # "completed" /\ record \in Snapshots
      BY <2>1, <2>3 DEF OnCourse
    <2>5. /\ AsView(first).steps = AsView(wf).steps /\ AsView(first).done <= AsView(wf).done
          /\ AsView(first).done \in Nat /\ AsView(wf).done \in Nat
      <3>1. AsView(first).done \in Nat /\ AsView(wf).done \in Nat
        BY <2>3, <2>4, Viewed
      <3> QED BY <2>3, <2>4, <3>1, BehindViewed
    <2>6. /\ AsView(record).done \in Nat /\ AsView(record).done <= AsView(first).done
          /\ AsView(record).state # "completed"
      <3>1. CASE record = Unsubmitted
        <4>1. AsView(record).done = 0 /\ AsView(record).state = "absent"
          BY <3>1, UnsubmittedIsAbsent DEF Sequence!Absent
        <4> QED BY <2>5, <4>1
      <3>2. CASE record # Unsubmitted
        <4>1. AsView(record).done \in Nat /\ AsView(record).state # "completed"
          BY <2>4, <3>2, Viewed
        <4> QED BY <2>3, <2>4, <3>2, <4>1, BehindViewed
      <3> QED BY <3>1, <3>2
    <2> DEFINE d == AsView(first).done
               s == AsView(first).state
    <2>7. d \in AsView(record).done .. AsView(wf).done
      BY <2>5, <2>6
    <2>8. /\ s \in {"active", "failed", AsView(wf).state}
          /\ s = "completed" => d = AsView(wf).steps
      <3>1. s \in {"active", "completed", "failed"} /\ (s = "completed" => first.status = "completed")
        BY <2>3, Viewed
      <3>2. first.status = "completed" => AsView(wf).state = "completed" /\ d = AsView(wf).steps
        <4>1. first.status = "completed" => Incomplete(first) = {} /\ wf.status = "completed"
          BY <2>4 DEF Whole
        <4>2. wf.status = "completed" => AsView(wf).state = "completed"
          BY <2>4, Viewed DEF InFlight
        <4> QED BY <2>3, <2>5, <4>1, <4>2, Viewed
      <3> QED BY <3>1, <3>2
    <2>9. AsView(first) = [state |-> s, done |-> d, steps |-> AsView(wf).steps]
      <3>1. AsView(first) = [state |-> s, done |-> d, steps |-> AsView(first).steps]
        BY DEF AsView
      <3> QED BY <2>5, <3>1
    <2>10. AsView(wf) # Sequence!Absent
      BY <2>4, Viewed
    <2> HIDE DEF d, s
    <2>11. /\ d \in Records[w].done .. States[w].done /\ s \in {"active", "failed", States[w].state}
           /\ s = "completed" => d = States[w].steps
           /\ Records' = [Records EXCEPT ![w] = [state |-> s, done |-> d, steps |-> States[w].steps]]
      BY <2>2, <2>7, <2>8, <2>9
    <2>12. States[w] # Sequence!Absent /\ Records[w].state # "completed"
      BY <2>2, <2>6, <2>10
    <2>13. Sequence!Record(w)
      BY <1>1, <2>2, <2>11, <2>12 DEF Sequence!Record, States, Records
    <2> QED BY <1>1, <2>13
  <1>4. \/ disk' = disk
        \/ /\ queue # <<>> /\ 1 \in DOMAIN queue /\ first \in Snapshots
           /\ disk' = [disk EXCEPT ![w] = first]
    BY WriteStaysOnCourse
  <1> HIDE DEF wf, record, queue, first
  <1> QED BY <1>2, <1>3, <1>4

LEMMA RestartAsPromised ==
  ASSUME BoundsAssumption, IInv, Course
  PROVE  /\ Crash => Course' /\ Sequence!Stop
         /\ Hydrate \/ HydrateFails => Course' /\ Sequence!Restart
  <1>1. ASSUME Crash PROVE Course' /\ Sequence!Stop
    <2>1. /\ up /\ up' = FALSE /\ disk' = disk
          /\ \A w \in Workflows : workflows'[w] = Unsubmitted /\ pending'[w] = <<>>
      BY <1>1 DEF Crash
    <2>2. Course'
      BY <2>1 DEF Course, OnCourse
    <2>3. States' = [w \in Workflows |-> Sequence!Absent] /\ Records' = Records
      BY <2>1, UnsubmittedIsAbsent DEF States, Records
    <2> QED BY <2>1, <2>2, <2>3 DEF Sequence!Stop, States, Records
  <1>2. ASSUME Hydrate PROVE Sequence!Restart
    <2>1. ~up /\ up' = TRUE /\ disk' = disk /\ workflows' = [w \in Workflows |-> Corrected(disk[w])]
      BY <1>2 DEF Hydrate
    <2>2. ASSUME NEW w \in Workflows
          PROVE  AsView(Corrected(disk[w])) =
                   IF AsView(disk[w]).state = "active" THEN [AsView(disk[w]) EXCEPT !.state = "failed"]
                   ELSE AsView(disk[w])
      <3> DEFINE wf  == disk[w]
                 new == Corrected(wf)
      <3>1. wf \in Snapshots \cup {Unsubmitted}
        BY DEF IInv, Typed
      <3>2. Level(new, wf) /\ IF wf.status \in InFlight THEN new.status = "failed" ELSE new = wf
        BY <3>1, CorrectedLevel
      <3>3. AsView(wf).state = IF wf.status \in InFlight THEN "active" ELSE wf.status
        BY DEF AsView
      <3>4. AsView(new).state = IF new.status \in InFlight THEN "active" ELSE new.status
        BY DEF AsView
      <3>5. AsView(new) = [AsView(wf) EXCEPT !.state = AsView(new).state]
        BY <3>2, LevelViewed
      <3>6. wf.status # "active"
        BY <3>1 DEF Snapshots, Workflow, Unsubmitted, InFlight, Settled
      <3> HIDE DEF wf, new
      <3>7. CASE wf.status \in InFlight
        <4>1. AsView(new).state = "failed" /\ AsView(wf).state = "active"
          BY <3>2, <3>3, <3>4, <3>7 DEF InFlight
        <4> QED BY <3>5, <4>1 DEF wf, new
      <3>8. CASE wf.status \notin InFlight
        <4>1. new = wf /\ AsView(wf).state # "active"
          BY <3>2, <3>3, <3>6, <3>8
        <4> QED BY <4>1 DEF wf, new
      <3> QED BY <3>7, <3>8
    <2>3. Records' = Records
      BY <2>1 DEF Records
    <2>4. States' = [w \in Workflows |-> IF Records[w].state = "active"
                                         THEN [Records[w] EXCEPT !.state = "failed"] ELSE Records[w]]
      BY <2>1, <2>2 DEF States, Records
    <2> QED BY <2>1, <2>3, <2>4 DEF Sequence!Restart, States, Records
  <1>3. ASSUME HydrateFails PROVE Sequence!Restart
    <2>1. ~up /\ up' = TRUE /\ UNCHANGED <<workflows, disk>>
      BY <1>3 DEF HydrateFails
    <2>2. States' = States /\ Records' = Records
      BY <2>1 DEF States, Records
    <2> QED BY <2>1, <2>2 DEF Sequence!Restart, States, Records
  <1> QED BY <1>1, <1>2, <1>3, BootBeginsCourse

\* With local storage, all that workflows, their runs, jobs, branches and writes
\* do is what WorkflowSpec promises: steps complete one after another and each
\* for good, what is stored never loses one, and a failed or interrupted workflow
\* goes on after those that did (all of workflow-engine.ts).
THEOREM KeepsItsPromise ==
  ASSUME Ordered PROVE Spec => ImplementsWorkflowSpec
  <1>1. Init => IInv
    BY InitSound, BoundsAssumption
  <1>2. Init => Course
    <2> SUFFICES ASSUME Init, NEW w \in Workflows PROVE OnCourse(workflows[w], pending[w], disk[w])
      BY DEF Course
    <2>1. workflows[w] = Unsubmitted /\ disk[w] = Unsubmitted /\ pending[w] = <<>>
      BY DEF Init
    <2>2. Whole(Unsubmitted)
      BY DEF Whole, Unsubmitted
    <2> QED BY <2>1, <2>2 DEF OnCourse
  <1>3. Init => Sequence!Init
    BY UnsubmittedIsAbsent DEF Init, Sequence!Init
  <1>4. IInv /\ Course /\ [Next]_vars => Course' /\ [Sequence!Next]_(Sequence!vars)
    <2> SUFFICES ASSUME IInv, Course, [Next]_vars
                 PROVE  Course' /\ (Sequence!Next \/ UNCHANGED <<up, States, Records>>)
      BY DEF Sequence!vars, States, Records
    <2>1. ASSUME NEW w \in Workflows, Submit(w) PROVE Course' /\ Sequence!Next
      BY <2>1, SubmitAsPromised, BoundsAssumption, ShapesAssumption DEF Sequence!Next
    <2>2. ASSUME NEW w \in Workflows, Resume(w) PROVE Course' /\ Sequence!Next
      BY <2>2, ResumeAsPromised, BoundsAssumption DEF Sequence!Next
    <2>3. ASSUME NEW w \in Workflows, PersistWorkflow(w) \/ PersistFails(w)
          PROVE  Course' /\ (Sequence!Next \/ UNCHANGED <<up, States, Records>>)
      BY <2>3, WriteAsPromised, BoundsAssumption DEF Sequence!Next
    <2>4. ASSUME NEW r \in DOMAIN runs, RunTurn(r)
          PROVE  Course' /\ (Sequence!Next \/ UNCHANGED <<up, States, Records>>)
      BY <2>4, RunTurnAsPromised, BoundsAssumption
    <2>5. ASSUME NEW r \in DOMAIN runs, NEW i \in StepNums, NEW b \in Slots, JobSettles(r, i, b)
          PROVE  Course' /\ UNCHANGED <<up, States, Records>>
      BY <2>5 DEF JobSettles, Course, States, Records
    <2>6. CASE Crash \/ Hydrate \/ HydrateFails
      BY <2>6, RestartAsPromised, BoundsAssumption DEF Sequence!Next
    <2>7. CASE UNCHANGED vars
      BY <2>7 DEF vars, Course, States, Records
    <2> QED BY <2>1, <2>2, <2>3, <2>4, <2>5, <2>6, <2>7 DEF Next
  <1> QED BY <1>1, <1>2, <1>3, <1>4, InductiveInvariant, PTL DEF Spec, ImplementsWorkflowSpec, Sequence!Spec

=============================================================================
