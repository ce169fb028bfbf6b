---------------------------- MODULE AgentProofs ----------------------------
(***************************************************************************)
(* Proofs about the agents.                                                *)
(*                                                                         *)
(* First the agents that run programs (Tools), for any worlds to start in, *)
(* any number of chains and plans of any length: that a patch is not lost, *)
(* that a record tells what was done and that a signed file is signed hold *)
(* in every reachable state, by an invariant of five parts (IInv).  Base   *)
(* says which task each thread is at, where, and who has overlapped it;    *)
(* Stored what kind of thing the files, records and notes are; Edited,     *)
(* Records and Signatures carry the three promises through the awaits in   *)
(* the middle of a handler.                                                *)
(*                                                                         *)
(* Then the apkmcp agent (ApkMcp), for any number of tasks, any requests   *)
(* of MT's own and any of its answers: what a task completes with and when *)
(* it asks for a deletion follow from what MT told that very task (Sound), *)
(* because the number a task waits for is newer than any answer it has had *)
(* and no other task's.                                                    *)
(***************************************************************************)
EXTENDS Tools, ApkMcp, SequenceTheorems, FiniteSetTheorems, TLAPS

-----------------------------------------------------------------------------
(* The agents that run programs: threads, tasks and stores.                *)

Fields == {"task", "path", "out", "before", "text", "made", "now", "failed"}
Entry  == {"chain", "step", "made", "out", "outcome"}

DecodeSpots == {"clearing", "unpacking", "marking"}
PatchSpots  == {"resolving", "reading"}
EditSpots   == {"opening", "writing"}
BuildSpots  == {"packing", "assembling"}
SignSpots   == {"replacing", "detecting", "lite", "keying", "aligning", "signing", "signed", "litesigned",
                "tidying", "verifying", "discarding"}
TraceSpots  == {"scripting", "filling", "launching", "tracing"}
OtherSpots  == {"listing", "installing", "commanding", "decompiling", "looking", "answering"}
Spots == DecodeSpots \cup PatchSpots \cup EditSpots \cup BuildSpots \cup SignSpots \cup TraceSpots
           \cup OtherSpots \cup {"saving", "making", "deleting", "searching"}

\* What a handler at a place is of.
Fitting(op, spot) ==
  /\ spot \in DecodeSpots => op = "decode"
  /\ spot \in PatchSpots => op = "patch"
  /\ spot \in EditSpots => op \in {"patch", "write"}
  /\ spot \in BuildSpots => op = "build"
  /\ spot \in SignSpots => op = "sign"
  /\ spot \in TraceSpots => op = "trace"
  /\ spot \in OtherSpots => op \notin {"patch", "sign", "trace", "write"}
  /\ spot = "saving" => op \in {"patch", "trace", "scan-secrets"}
  /\ spot = "making" => op = "write"
  /\ spot = "deleting" => op = "delete"
  /\ spot = "searching" => op \in {"search", "scan-secrets"}

\* A handler is at work.
Busy(c) == at[c] \notin Over \cup {"between"}

\* The task of a handler at work is logged as what it is.
AtWork(c) ==
  LET t == work[c].task
  IN  /\ t \in Tasks /\ log[t].outcome = "running" /\ log[t].chain = c
      /\ log[t].step = Step(c) /\ log[t].out = work[c].out
      /\ Fitting(Step(c).op, at[c])
      /\ work[c].failed => at[c] = "tidying"

\* Where a chain is in its plan, and the task it is at.
Thread(c) ==
  /\ at[c] \in Spots \cup Over \cup {"between"}
  /\ step[c] \in 1..(Len(plan[c]) + 1)
  /\ at[c] # "ended" => step[c] <= Len(plan[c])
  /\ DOMAIN work[c] = Fields /\ work[c].task \in Tasks \cup {0}
  /\ Busy(c) => AtWork(c)

\* The domains of what chains and tasks are described by.
Typed ==
  /\ DOMAIN plan = Chains /\ \A c \in Chains : IsSequence(plan[c])
  /\ DOMAIN at = Chains /\ DOMAIN step = Chains /\ DOMAIN work = Chains
  /\ \E S : log \in Seq(S)
  /\ \A t \in Tasks : DOMAIN log[t] = Entry

\* What the log says of a task, and that one that runs is somebody's.
Logged ==
  \A t \in Tasks :
    /\ log[t].outcome \in {"running", "done", "failed", "refused"}
    /\ log[t].outcome = "running" => \E c \in Chains : Busy(c) /\ work[c].task = t
    /\ Op(t) = "sign" => log[t].out[1] = "signed"
    /\ Op(t) = "build" => log[t].out[1] = "build"

\* Whatever has been started since a handler at work overlapped it.
Meetings == \A c \in Chains : Busy(c) => \A t \in Tasks : t > work[c].task => Overlap(t, work[c].task)

Base == Typed /\ Logged /\ Meetings /\ \A c \in Chains : Thread(c)

\* What the files, the records and the notes of the signer hold.
Stored ==
  /\ DOMAIN project = {"exists", "marked", "source", "text", "made"}
  /\ project.made \in {t \in Tasks : Op(t) = "decode"} \cup {0}
  /\ \A p \in DOMAIN disk : disk[p].by \in Tasks \cup {0}
  /\ host.signer \in {"sdk", "lite"}
  /\ flavor \in {"unknown", "sdk", "lite"} /\ keystore \in BOOLEAN
  /\ \A t \in DOMAIN saved : t \in Tasks /\ log[t].outcome = "done"

-----------------------------------------------------------------------------
(* Patches.                                                                *)

\* Somebody has written, decoded or deleted the project beside or after t.
Displaced(t) == \E u \in Tasks \ {t} : Op(u) # "patch" /\ Edits(u) /\ (u > t \/ Overlap(t, u))
\* What may have undone the patch of t, as PatchesKept says.
Excused(t) ==
  \E u \in Tasks \ {t} :
    \/ Op(u) = "patch" /\ Overlap(t, u)
    \/ Op(u) = "patch" /\ u > t /\ log[u].step.find = log[t].step.replace
    \/ Op(u) # "patch" /\ Edits(u) /\ (u > t \/ Overlap(t, u))
\* Somebody has edited the project beside or after t.
Touched(t) == \E u \in Tasks \ {t} : Edits(u) /\ (u > t \/ Overlap(t, u))

\* It is written, though its record may still be to be saved.
Made(t) ==
  /\ Op(t) = "patch"
  /\ \/ log[t].outcome = "done"
     \/ \E c \in Chains : at[c] = "saving" /\ work[c].task = t

\* The text has what t was to put there.
Has(text, t) == Places(text, log[t].step.replace) # {}

\* It is in the file, and in what every handler is about to write there.
Keeps(t) ==
  Made(t) /\ ~Excused(t) =>
    /\ Has(project.text, t) \/ (project.source /\ project.text = << >>)
    /\ \A c \in Chains : at[c] \in EditSpots => Has(work[c].text, t)

\* What a patch holds across its awaits is what it read, and that patched.
Patching(c) ==
  /\ at[c] \in EditSpots \cup {"saving"} /\ Step(c).op = "patch" =>
       /\ Patchable(work[c].before, Step(c))
       /\ work[c].text = Patched(work[c].before, Step(c))
  /\ at[c] = "writing" => StillOpen(c) \/ Displaced(work[c].task)
  /\ at[c] = "saving" /\ Step(c).op = "patch" /\ ~Touched(work[c].task) => project.text = work[c].text

\* The file is as the record of the last edit has it.
Latest(t) == Op(t) = "patch" /\ ~Touched(t) => project.text = saved[t].after

Edited ==
  /\ \A t \in Tasks : Keeps(t)
  /\ \A c \in Chains : Patching(c)
  /\ \A t \in DOMAIN saved : Latest(t)

-----------------------------------------------------------------------------
(* Records.                                                                *)

\* What the script's file of a trace at this spot, or what ran, is made of: its
\* own script, once it is written, and the scripts of traces beside it.
Ran(t, spot, x) ==
  /\ x \subseteq {log[u].step.script : u \in {t} \cup Beside(t)}
  /\ Beside(t) = {} => x = IF spot = "filling" THEN {} ELSE {log[t].step.script}

\* The script a trace is to launch, and the one it launched.
Tracing(c) ==
  /\ at[c] \in {"filling", "launching"} =>
       work[c].now \in DOMAIN scripts /\ Ran(work[c].task, at[c], scripts[work[c].now])
  /\ at[c] \in {"tracing", "saving"} /\ Step(c).op = "trace" => Ran(work[c].task, at[c], work[c].text)

\* What the record of t says of it.
Recorded(t) ==
  LET s == log[t].step
      r == saved[t]
  IN  CASE s.op = "patch" ->
             /\ DOMAIN r = {"before", "after"}
             /\ Patchable(r.before, s) /\ r.after = Patched(r.before, s)
        [] s.op = "trace" -> DOMAIN r = {"ran", "now"} /\ Ran(t, "saving", r.ran)
        [] OTHER -> s.op = "scan-secrets"

Records ==
  /\ \A c \in Chains : Tracing(c)
  /\ \A t \in DOMAIN saved : Recorded(t)

-----------------------------------------------------------------------------
(* Signed files.                                                           *)

\* Nobody else has written its output since, or meanwhile.
Sole(t) == \A u \in Tasks \ {t} : log[u].out = log[t].out => u < t /\ ~Overlap(t, u)

\* How far the signing at work in c has come with its output.
Signing(c) ==
  LET t == work[c].task
      o == work[c].out
  IN  Busy(c) /\ Sole(t) =>
        /\ at[c] \in {"detecting", "keying", "aligning", "signing", "lite"} => ~Whole(o)
        /\ at[c] \in {"signed", "litesigned"} => o \in DOMAIN disk /\ disk[o].by = t /\ ~Whole(o)
        /\ at[c] = "tidying" => IF work[c].failed THEN ~Whole(o) ELSE Whole(o) /\ disk[o].signed

\* What a signing that is over leaves at its output.
Signed(t) ==
  Op(t) = "sign" /\ Sole(t) =>
    /\ log[t].outcome = "done" => Whole(log[t].out) /\ disk[log[t].out].signed
    /\ log[t].outcome = "failed" => ~Whole(log[t].out)

\* A whole aligned copy is there only while its task is at work on it.
Tidied ==
  \A t \in Nat : Whole(AlignedPath(t)) =>
    \E c \in Chains : work[c].task = t /\ at[c] \in {"signing", "signed", "tidying"}

Signatures ==
  /\ \A c \in Chains : Signing(c)
  /\ \A t \in Tasks : Signed(t)
  /\ Tidied

IInv == Base /\ Stored /\ Edited /\ Records /\ Signatures

-----------------------------------------------------------------------------
(* Steps of the handler at work in c.                                      *)

\* What they leave alone.
Steps(c) ==
  /\ DOMAIN log' = DOMAIN log /\ met' = met /\ host' = host /\ work'[c].task = work[c].task
  /\ \A t \in Tasks : log'[t].step = log[t].step /\ log'[t].out = log[t].out
  /\ \A t \in Tasks \ {work[c].task} : log'[t].outcome = log[t].outcome
  /\ \A d \in Chains \ {c} : at'[d] = at[d] /\ work'[d] = work[d] /\ Step(d)' = Step(d)

LEMMA SeqReplaced ==
  ASSUME NEW S, NEW s \in Seq(S), NEW i \in 1..Len(s), NEW e
  PROVE  \E T : [s EXCEPT ![i] = e] \in Seq(T)
  <1>1. s \in Seq(S \cup {e}) /\ e \in S \cup {e}
    BY SeqMonotonic
  <1>2. [s EXCEPT ![i] = e] \in Seq(S \cup {e})
    BY <1>1, ExceptSeq
  <1> QED BY <1>2

LEMMA LogIsSequence ==
  ASSUME Base
  PROVE  Len(log) \in Nat /\ Tasks = 1..Len(log)
  <1>1. PICK S : log \in Seq(S)
    BY DEF Base, Typed
  <1> QED BY <1>1, LenProperties DEF Tasks

LEMMA PlanIsSequence ==
  ASSUME Base, NEW c \in Chains
  PROVE  Len(plan[c]) \in Nat /\ DOMAIN plan[c] = 1..Len(plan[c])
  <1>1. IsSequence(plan[c])
    BY DEF Base, Typed
  <1> QED BY <1>1, LenProperties DEF IsSequence

LEMMA AwaitSteps ==
  ASSUME Base, NEW c \in Chains, Busy(c), NEW place \in Spots, NEW w, Await(c, place, w),
         Fitting(Step(c).op, place), DOMAIN w = Fields,
         w.task = work[c].task, w.out = work[c].out, w.failed => place = "tidying"
  PROVE  Base' /\ Steps(c) /\ at'[c] = place /\ work'[c] = w /\ Step(c)' = Step(c)
         /\ log' = log
  <1>0. c \in DOMAIN at /\ c \in DOMAIN work /\ c \in DOMAIN step
    BY DEF Base, Typed
  <1>1. /\ at'[c] = place /\ work'[c] = w /\ Step(c)' = Step(c) /\ log' = log
        /\ plan' = plan /\ step' = step /\ met' = met /\ host' = host
        /\ \A d \in Chains \ {c} : at'[d] = at[d] /\ work'[d] = work[d]
        /\ DOMAIN at' = DOMAIN at /\ DOMAIN work' = DOMAIN work
    BY <1>0 DEF Await, Goto, Step, Base, Typed
  <1>2. Steps(c)
    BY <1>1 DEF Steps, Step, Tasks
  <1>3. Typed'
    BY <1>1 DEF Base, Typed, Tasks
  <1>4. place \notin Over \cup {"between", "ended"}
    BY DEF Spots, DecodeSpots, PatchSpots, EditSpots, BuildSpots, SignSpots, TraceSpots, OtherSpots, Over
  <1>5. Busy(c)' /\ \A d \in Chains \ {c} : Busy(d)' <=> Busy(d)
    BY <1>1, <1>4 DEF Busy
  <1>6. Logged'
    <2>1. \A t \in Tasks, d \in Chains : Busy(d) /\ work[d].task = t => Busy(d)' /\ work'[d].task = t
      BY <1>1, <1>5
    <2> QED BY <1>1, <2>1 DEF Base, Logged, Tasks, Op
  <1>7. Meetings'
    BY <1>1, <1>5 DEF Base, Meetings, Tasks, Overlap
  <1>8. Thread(c)'
    <2>1. Fitting(Step(c).op, at[c])'
      BY <1>1 DEF Fitting
    <2> QED BY <1>1, <1>4, <2>1 DEF Base, Thread, AtWork, Busy, Over, Tasks
  <1>9. ASSUME NEW d \in Chains \ {c} PROVE Thread(d)'
    BY <1>1, <1>5 DEF Base, Thread, AtWork, Tasks, Step
  <1> QED BY <1>1, <1>2, <1>3, <1>6, <1>7, <1>8, <1>9 DEF Base

\* The outcome of the task at work.
Concludes(c, outcome) ==
  /\ log' = [log EXCEPT ![work[c].task].outcome = outcome]
  /\ at'[c] \in Over \cup {"between"}

LEMMA ConcludingSteps ==
  ASSUME Base, NEW c \in Chains, Busy(c), NEW outcome \in {"done", "failed"},
         log' = [log EXCEPT ![work[c].task].outcome = outcome],
         DOMAIN at' = DOMAIN at, DOMAIN work' = DOMAIN work, DOMAIN step' = DOMAIN step,
         at'[c] \in Over \cup {"between"},
         step'[c] \in 1..(Len(plan[c]) + 1), at'[c] # "ended" => step'[c] <= Len(plan[c]),
         DOMAIN work'[c] = Fields, work'[c].task = work[c].task,
         plan' = plan, met' = met, host' = host,
         \A d \in Chains \ {c} : at'[d] = at[d] /\ work'[d] = work[d] /\ step'[d] = step[d]
  PROVE  Base' /\ Steps(c) /\ log'[work[c].task].outcome = outcome
  <1> DEFINE t == work[c].task
  <1>1. t \in Tasks /\ log[t].outcome = "running" /\ log[t].chain = c
    BY DEF Base, Thread, AtWork
  <1>2. /\ Tasks' = Tasks /\ DOMAIN log' = DOMAIN log
        /\ \A u \in Tasks : u # t => log'[u] = log[u]
        /\ log'[t].outcome = outcome
        /\ DOMAIN log'[t] = Entry /\ log'[t].step = log[t].step /\ log'[t].out = log[t].out
        /\ log'[t].chain = log[t].chain
    BY <1>1 DEF Base, Typed, Tasks, Entry
  <1>3. Typed'
    <2>1. PICK S : log \in Seq(S)
      BY DEF Base, Typed
    <2>5. t \in 1..Len(log)
      BY <1>1, LogIsSequence
    <2>6. \E T : [log EXCEPT ![t] = [log[t] EXCEPT !.outcome = outcome]] \in Seq(T)
      <3> HIDE DEF t
      <3> QED BY <2>1, <2>5, SeqReplaced
    <2>8. log' = [log EXCEPT ![t] = [log[t] EXCEPT !.outcome = outcome]]
      BY <1>1
    <2>7. \A u \in Tasks' : DOMAIN log'[u] = Entry
      BY <1>2 DEF Base, Typed
    <2> QED BY <2>6, <2>7, <2>8 DEF Base, Typed
  <1>4. ~Busy(c)' /\ \A d \in Chains \ {c} : Busy(d)' <=> Busy(d)
    BY DEF Busy
  <1>5. \A d \in Chains \ {c} : Busy(d) => work[d].task # t
    BY <1>1 DEF Base, Thread, AtWork
  <1>6. Logged'
    <2>1. ASSUME NEW u \in Tasks', log'[u].outcome = "running"
          PROVE  \E d \in Chains : Busy(d)' /\ work'[d].task = u
      <3>1. u # t /\ log[u].outcome = "running"
        BY <1>2, <2>1
      <3>2. PICK d \in Chains : Busy(d) /\ work[d].task = u
        BY <1>2, <2>1, <3>1 DEF Base, Logged
      <3> QED BY <3>1, <3>2, <1>4
    <2> QED BY <1>2, <2>1 DEF Base, Logged, Op
  <1>7. Meetings'
    BY <1>2, <1>4 DEF Base, Meetings, Overlap
  <1>8. Thread(c)'
    BY <1>1, <1>2, <1>4 DEF Base, Thread
  <1>9. ASSUME NEW d \in Chains \ {c} PROVE Thread(d)'
    BY <1>2, <1>4, <1>5 DEF Base, Thread, AtWork, Step
  <1>10. Steps(c)
    BY <1>1, <1>2 DEF Steps, Step
  <1> QED BY <1>2, <1>3, <1>6, <1>7, <1>8, <1>9, <1>10 DEF Base

LEMMA ReturnSteps ==
  ASSUME Base, NEW c \in Chains, Busy(c), NEW result, Returns(c, result)
  PROVE  /\ Base' /\ Steps(c) /\ at'[c] \in {"ended", "between"}
         /\ log'[work[c].task].outcome = "done"
  <1>1. /\ c \in DOMAIN at /\ c \in DOMAIN work /\ c \in DOMAIN step
        /\ step[c] \in 1..Len(plan[c]) /\ Len(plan[c]) \in Nat
    BY PlanIsSequence DEF Base, Typed, Thread, Busy, Over
  <1>2. /\ at'[c] = (IF step[c] = Len(plan[c]) THEN "ended" ELSE "between")
        /\ step'[c] = step[c] + 1
        /\ DOMAIN work'[c] = Fields /\ work'[c].task = work[c].task
    BY <1>1 DEF Returns, Goto, Idle, Fields
  <1>3. /\ at'[c] \in {"ended", "between"}
        /\ step'[c] \in 1..(Len(plan[c]) + 1) /\ (at'[c] # "ended" => step'[c] <= Len(plan[c]))
    BY <1>1, <1>2
  <1>4. /\ log' = [log EXCEPT ![work[c].task].outcome = "done"]
        /\ DOMAIN at' = DOMAIN at /\ DOMAIN work' = DOMAIN work /\ DOMAIN step' = DOMAIN step
        /\ plan' = plan /\ met' = met /\ host' = host
        /\ \A d \in Chains \ {c} : at'[d] = at[d] /\ work'[d] = work[d] /\ step'[d] = step[d]
    BY DEF Returns, Goto, Base, Typed
  <1>5. at'[c] \in Over \cup {"between"}
    BY <1>3 DEF Over
  <1> QED BY <1>2, <1>3, <1>4, <1>5, ConcludingSteps

LEMMA ThrowSteps ==
  ASSUME Base, NEW c \in Chains, Busy(c), Throws(c)
  PROVE  /\ Base' /\ Steps(c) /\ at'[c] = "failed"
         /\ log'[work[c].task].outcome = "failed"
  <1>1. c \in DOMAIN at
    BY DEF Base, Typed
  <1>2. /\ log' = [log EXCEPT ![work[c].task].outcome = "failed"]
        /\ DOMAIN at' = DOMAIN at /\ DOMAIN work' = DOMAIN work /\ DOMAIN step' = DOMAIN step
        /\ plan' = plan /\ met' = met /\ host' = host /\ work' = work /\ step' = step
        /\ at'[c] = "failed" /\ \A d \in Chains \ {c} : at'[d] = at[d]
    BY <1>1 DEF Throws, Goto, Base, Typed
  <1>3. at'[c] \in Over \cup {"between"} /\ at'[c] # "ended"
    BY <1>2 DEF Over
  <1>4. /\ step[c] \in 1..(Len(plan[c]) + 1) /\ (at'[c] # "ended" => step[c] <= Len(plan[c]))
        /\ DOMAIN work[c] = Fields
    BY DEF Base, Thread, Busy, Over
  <1> QED BY <1>2, <1>3, <1>4, ConcludingSteps

-----------------------------------------------------------------------------
(* A task is started, or tried again.                                      *)

StartSpots == {"clearing", "resolving", "packing", "replacing", "installing", "commanding", "decompiling",
               "scripting", "looking", "answering", "making", "deleting", "searching"}

\* A task of c begins at `place` with the locals w, or is refused.
Begun(c, place, w) ==
  \E outcome \in {"running", "refused"} :
    LET t == Len(log) + 1
    IN  /\ at[c] = "between"
        /\ log' = Append(log, [chain |-> c, step |-> Step(c), made |-> project.made, out |-> w.out,
                               outcome |-> outcome])
        /\ met' = met \cup {{t, work[d].task} : d \in {d \in Chains \ {c} :
                              at[d] \notin Over /\ work[d].task # 0}}
        /\ work' = [work EXCEPT ![c] = [w EXCEPT !.task = t]]
        /\ Goto(c, IF outcome = "running" THEN place ELSE "failed")
        /\ UNCHANGED <<plan, host, step, files>>

\* A task has been added, and nothing of the others has changed.
Opens(c) ==
  /\ Tasks' = 1..(Len(log) + 1)
  /\ met \subseteq met'
  /\ \A t \in Tasks : log'[t] = log[t]
  /\ log'[Len(log) + 1].outcome \in {"running", "refused"}
  /\ \A d \in Chains \ {c} : at'[d] = at[d] /\ work'[d] = work[d] /\ Step(d)' = Step(d)
  /\ work'[c].task = Len(log) + 1
  /\ at'[c] \in StartSpots \cup {"failed"}
  /\ UNCHANGED <<host, files>>

LEMMA BeginOpens ==
  ASSUME Base, NEW c \in Chains, NEW place \in StartSpots, NEW w, Begun(c, place, w),
         Fitting(Step(c).op, place), DOMAIN w = Fields, ~w.failed,
         Step(c).op = "sign" => w.out[1] = "signed",
         Step(c).op = "build" => w.out[1] = "build"
  PROVE  Base' /\ Opens(c)
  <1> DEFINE n == Len(log) + 1
  <1>1. PICK outcome \in {"running", "refused"} :
          /\ at[c] = "between"
          /\ log' = Append(log, [chain |-> c, step |-> Step(c), made |-> project.made, out |-> w.out,
                                 outcome |-> outcome])
          /\ met' = met \cup {{n, work[d].task} : d \in {d \in Chains \ {c} :
                                at[d] \notin Over /\ work[d].task # 0}}
          /\ work' = [work EXCEPT ![c] = [w EXCEPT !.task = n]]
          /\ Goto(c, IF outcome = "running" THEN place ELSE "failed")
          /\ UNCHANGED <<plan, host, step, files>>
    BY DEF Begun
  <1> DEFINE e == [chain |-> c, step |-> Step(c), made |-> project.made, out |-> w.out, outcome |-> outcome]
  <1>2. PICK S : log \in Seq(S)
    BY DEF Base, Typed
  <1>3. log \in Seq(S \cup {e}) /\ e \in S \cup {e}
    BY <1>2, SeqMonotonic
  <1>4. /\ log' \in Seq(S \cup {e}) /\ Len(log') = n
        /\ \A i \in 1..Len(log) : log'[i] = log[i]
        /\ log'[n] = e
    <2> HIDE DEF e
    <2>1. log' = Append(log, e)
      BY <1>1 DEF e
    <2> QED BY <2>1, <1>3, AppendProperties
  <1>5. Len(log) \in Nat /\ Tasks = 1..Len(log) /\ n \in Nat /\ n \notin Tasks
    BY LogIsSequence
  <1>6. Tasks' = 1..n /\ Tasks' = Tasks \cup {n} /\ \A t \in Tasks : log'[t] = log[t]
    BY <1>4, <1>5, LenProperties DEF Tasks
  <1>7. /\ c \in DOMAIN at /\ c \in DOMAIN work
        /\ DOMAIN at' = Chains /\ DOMAIN work' = Chains /\ DOMAIN step' = Chains
        /\ at'[c] = (IF outcome = "running" THEN place ELSE "failed")
        /\ work'[c] = [w EXCEPT !.task = n]
        /\ \A d \in Chains \ {c} : at'[d] = at[d] /\ work'[d] = work[d]
        /\ Step(c)' = Step(c) /\ \A d \in Chains : Step(d)' = Step(d)
    BY <1>1 DEF Base, Typed, Goto, Step
  <1>8. /\ DOMAIN work'[c] = Fields /\ work'[c].task = n /\ work'[c].out = w.out /\ ~work'[c].failed
    BY <1>7 DEF Fields
  <1>9. /\ DOMAIN log'[n] = Entry /\ log'[n].chain = c /\ log'[n].step = Step(c)
        /\ log'[n].out = w.out /\ log'[n].outcome = outcome
    BY <1>4 DEF Entry
  <1>10. Typed'
    BY <1>1, <1>4, <1>6, <1>7, <1>9 DEF Base, Typed
  <1>11. place \in Spots /\ place \notin Over \cup {"between"}
    BY DEF StartSpots, Spots, DecodeSpots, PatchSpots, EditSpots, BuildSpots, SignSpots, TraceSpots,
           OtherSpots, Over
  <1>12. ~Busy(c) /\ (Busy(c)' <=> outcome = "running") /\ \A d \in Chains \ {c} : Busy(d)' <=> Busy(d)
    BY <1>1, <1>7, <1>11 DEF Busy, Over
  <1>13. Logged'
    <2>1. ASSUME NEW t \in Tasks
          PROVE  /\ log'[t].outcome \in {"running", "done", "failed", "refused"}
                 /\ log'[t].outcome = "running" => \E d \in Chains : Busy(d)' /\ work'[d].task = t
                 /\ log'[t].step.op = "sign" => log'[t].out[1] = "signed"
                 /\ log'[t].step.op = "build" => log'[t].out[1] = "build"
      <3>1. log[t].outcome = "running" => \E d \in Chains \ {c} : Busy(d) /\ work[d].task = t
        BY <1>12 DEF Base, Logged
      <3> QED BY <3>1, <1>6, <1>7, <1>12 DEF Base, Logged, Op
    <2>2. /\ log'[n].outcome \in {"running", "done", "failed", "refused"}
          /\ log'[n].outcome = "running" => \E d \in Chains : Busy(d)' /\ work'[d].task = n
          /\ log'[n].step.op = "sign" => log'[n].out[1] = "signed"
          /\ log'[n].step.op = "build" => log'[n].out[1] = "build"
      BY <1>8, <1>9, <1>12
    <2> QED BY <2>1, <2>2, <1>6 DEF Logged, Op
  <1>14. Meetings'
    <2>1. ASSUME NEW d \in Chains \ {c}, Busy(d)' PROVE {n, work'[d].task} \in met'
      <3>1. Busy(d) /\ at[d] \notin Over /\ work[d].task \in Tasks /\ work[d].task # 0
        BY <1>5, <1>12, <2>1 DEF Base, Thread, AtWork, Busy
      <3> QED BY <3>1, <1>1, <1>7
    <2>2. ASSUME NEW d \in Chains \ {c}, Busy(d)', NEW t \in Tasks, t > work'[d].task
          PROVE  {t, work'[d].task} \in met'
      BY <2>2, <1>1, <1>7, <1>12 DEF Base, Meetings, Overlap
    <2>3. \A t \in Tasks' : ~(t > work'[c].task)
      BY <1>5, <1>6, <1>8
    <2> QED BY <2>1, <2>2, <2>3, <1>6 DEF Meetings, Overlap
  <1>15. Thread(c)'
    <2>1. Fitting(Step(c).op, place)'
      BY <1>7 DEF Fitting
    <2>2. Fitting(Step(c).op, at[c])' \/ outcome # "running"
      BY <1>7, <2>1 DEF Fitting
    <2>3. at'[c] \in Spots \cup Over \cup {"between"} /\ at'[c] # "ended"
      BY <1>7, <1>11 DEF Over
    <2>4. step'[c] \in 1..(Len(plan[c]) + 1)' /\ step'[c] <= Len(plan[c])'
      BY <1>1 DEF Base, Thread
    <2>5. Busy(c)' => AtWork(c)'
      BY <2>2, <1>6, <1>7, <1>8, <1>9, <1>12 DEF AtWork
    <2> QED BY <2>3, <2>4, <2>5, <1>6, <1>8 DEF Thread
  <1>16. ASSUME NEW d \in Chains \ {c} PROVE Thread(d)'
    BY <1>1, <1>6, <1>7, <1>12 DEF Base, Thread, AtWork
  <1>17. Opens(c)
    <2>1. at'[c] \in StartSpots \cup {"failed"}
      BY <1>7
    <2>2. log'[Len(log) + 1].outcome \in {"running", "refused"}
      BY <1>9
    <2> QED BY <2>1, <2>2, <1>1, <1>6, <1>7, <1>8 DEF Opens
  <1> QED BY <1>10, <1>13, <1>14, <1>15, <1>16, <1>17 DEF Base

LEMMA RetryBase ==
  ASSUME Base, NEW c \in Chains, Retry(c)
  PROVE  Base'
  <1>1. /\ c \in DOMAIN at /\ at[c] = "failed" /\ at'[c] = "between"
        /\ DOMAIN at' = DOMAIN at /\ \A d \in Chains \ {c} : at'[d] = at[d]
        /\ work' = work /\ log' = log /\ plan' = plan /\ step' = step /\ met' = met
    BY DEF Retry, Goto, Base, Typed
  <1>2. \A d \in Chains : Busy(d)' <=> Busy(d)
    BY <1>1 DEF Busy, Over
  <1>3. Typed' /\ Logged' /\ Meetings'
    <2>1. Typed'
      BY <1>1 DEF Base, Typed, Tasks
    <2>2. Logged'
      BY <1>1, <1>2 DEF Base, Logged, Tasks, Op
    <2>3. Meetings'
      BY <1>1, <1>2 DEF Base, Meetings, Tasks, Overlap
    <2> QED BY <2>1, <2>2, <2>3
  <1>4. Thread(c)'
    <2>1. ~Busy(c)' /\ at[c] # "ended"
      BY <1>1 DEF Busy
    <2> QED BY <1>1, <2>1 DEF Base, Thread, Tasks
  <1>5. ASSUME NEW d \in Chains \ {c} PROVE Thread(d)'
    BY <1>1, <1>2 DEF Base, Thread, AtWork, Tasks, Step
  <1> QED BY <1>3, <1>4, <1>5 DEF Base

-----------------------------------------------------------------------------
(* What stays true of a task.                                              *)

\* Tasks and their meetings are added to.
Grown ==
  /\ Tasks \subseteq Tasks' /\ met \subseteq met'
  /\ \A t \in Tasks : log'[t].step = log[t].step /\ log'[t].out = log[t].out

LEMMA StepsGrow ==
  ASSUME NEW c \in Chains, Steps(c)
  PROVE  Grown
  BY DEF Steps, Grown, Tasks

LEMMA OpensGrow ==
  ASSUME Base, NEW c \in Chains, Opens(c)
  PROVE  Grown /\ Len(log) + 1 \notin Tasks /\ Tasks' = Tasks \cup {Len(log) + 1}
  BY LogIsSequence DEF Opens, Grown

LEMMA Kept ==
  ASSUME Grown, NEW t \in Tasks
  PROVE  /\ t \in Tasks' /\ Op(t)' = Op(t) /\ (Edits(t)' <=> Edits(t))
         /\ Displaced(t) => Displaced(t)'
         /\ Excused(t) => Excused(t)'
         /\ Touched(t) => Touched(t)'
         /\ Sole(t)' => Sole(t)
         /\ \A spot, x : Ran(t, spot, x) => Ran(t, spot, x)'
  <1>1. /\ \A u \in Tasks : u \in Tasks' /\ Op(u)' = Op(u) /\ log'[u].out = log[u].out /\
              log'[u].step = log[u].step
        /\ \A u, v : Overlap(u, v) => Overlap(u, v)'
    BY DEF Grown, Op, Overlap
  <1>2. \A u \in Tasks : Edits(u)' <=> Edits(u)
    BY <1>1 DEF Edits
  <1>3. Displaced(t) => Displaced(t)'
    BY <1>1, <1>2 DEF Displaced
  <1>4. Excused(t) => Excused(t)'
    BY <1>1, <1>2 DEF Excused
  <1>5. Touched(t) => Touched(t)'
    BY <1>1, <1>2 DEF Touched
  <1>6. Sole(t)' => Sole(t)
    BY <1>1 DEF Sole
  <1>7. \A spot, x : Ran(t, spot, x) => Ran(t, spot, x)'
    <2>1. Beside(t) \subseteq Beside(t)'
      BY <1>1 DEF Beside
    <2>2. \A u \in {t} \cup Beside(t) : log'[u].step = log[u].step
      BY <1>1 DEF Beside
    <2> QED BY <2>1, <2>2 DEF Ran
  <1> QED BY <1>1, <1>2, <1>3, <1>4, <1>5, <1>6, <1>7

\* A task at work is later than those it has not met, ...
LEMMA Concurrent ==
  ASSUME Base, NEW c \in Chains, Busy(c), NEW t \in Tasks \ {work[c].task}
  PROVE  work[c].task > t \/ (Overlap(t, work[c].task) /\ Overlap(work[c].task, t))
  <1> DEFINE u == work[c].task
  <1>1. u \in Tasks
    BY DEF Base, Thread, AtWork
  <1>2. u \in Nat /\ t \in Nat
    BY <1>1, LogIsSequence
  <1>3. t > u => {t, u} \in met
    BY DEF Base, Meetings, Overlap
  <1>4. {t, u} = {u, t}
    OBVIOUS
  <1> QED BY <1>2, <1>3, <1>4 DEF Overlap

\* ... and has met all the others at work.
LEMMA BothAtWork ==
  ASSUME Base, NEW c \in Chains, NEW d \in Chains \ {c}, Busy(c), Busy(d)
  PROVE  /\ work[c].task \in Tasks \ {work[d].task} /\ work[d].task \in Tasks \ {work[c].task}
         /\ Overlap(work[c].task, work[d].task) /\ Overlap(work[d].task, work[c].task)
  <1>1. work[c].task \in Tasks \ {work[d].task} /\ work[d].task \in Tasks \ {work[c].task}
    BY DEF Base, Thread, AtWork
  <1>2. work[c].task \in Nat /\ work[d].task \in Nat
    BY <1>1, LogIsSequence
  <1> QED BY <1>1, <1>2, Concurrent

LEMMA AtWorkDistinct ==
  ASSUME Base', NEW c \in Chains, NEW d \in Chains, Busy(c)', Busy(d)', work'[c].task = work'[d].task
  PROVE  c = d
  BY DEF Base, Thread, AtWork

LEMMA AtWorkFacts ==
  ASSUME Base, NEW c \in Chains, Busy(c)
  PROVE  /\ work[c].task \in Tasks /\ log[work[c].task].outcome = "running"
         /\ log[work[c].task].step = Step(c) /\ Op(work[c].task) = Step(c).op
         /\ log[work[c].task].out = work[c].out /\ Fitting(Step(c).op, at[c])
         /\ work[c].failed => at[c] = "tidying"
         /\ DOMAIN work[c] = Fields
  BY DEF Base, Thread, AtWork, Op

-----------------------------------------------------------------------------
(* Patches: steps that edit the project.                                   *)

\* What a step may do to the project: nothing that matters, what edits of
\* other kinds do, or what a patch does.
Alike == /\ project'.text = project.text /\ project'.source = project.source
         /\ project'.made = project.made /\ (project.exists => project'.exists)

Patches(c) ==
  /\ Op(work[c].task) = "patch" /\ at[c] \in EditSpots
  /\ project'.made = project.made /\ (project.exists => project'.exists)
  /\ \/ project'.text = << >> /\ project'.source
     \/ project'.text = work[c].text
     \/ project'.text = project.text /\ project'.source = project.source

Edit(c) ==
  \/ Alike
  \/ Edits(work[c].task) /\ Op(work[c].task) # "patch"
  \/ Patches(c)

LEMMA EditedStep ==
  ASSUME Base, Stored, Edited, NEW c \in Chains, Busy(c), Steps(c), Base', Edit(c),
         NEW u, u = work[c].task,
         \A t \in Tasks \ {u} :
           Made(t) /\ ~Excused(t) /\ at'[c] \in EditSpots => Has(work'[c].text, t),
         Patching(c)', Keeps(u)',
         \A t \in DOMAIN saved' :
           \/ t \in DOMAIN saved /\ saved'[t] = saved[t]
           \/ Latest(t)'
  PROVE  Edited'
  <1>1. Grown /\ Tasks' = Tasks
    BY StepsGrow DEF Steps, Tasks
  <1>2. /\ u \in Tasks /\ log[u].outcome = "running"
        /\ \A t \in Tasks : log'[t].step = log[t].step /\ Op(t)' = Op(t)
        /\ \A d \in Chains \ {c} : at'[d] = at[d] /\ work'[d] = work[d] /\ Step(d)' = Step(d)
        /\ \A t \in Tasks \ {u} : log'[t].outcome = log[t].outcome
    BY AtWorkFacts DEF Steps, Op
  <1>3. ~Alike => Edits(u)
    BY DEF Edit, Patches, Edits
  <1>4. ASSUME NEW d \in Chains \ {c} PROVE Patching(d)'
    <2> PICK v : v = work[d].task
      OBVIOUS
    <2>1. at[d] \in EditSpots \cup {"saving"} => Busy(d) /\ v \in Tasks
      BY DEF EditSpots, Busy, Over, Base, Thread, AtWork
    <2>2. ASSUME at[d] \in EditSpots \cup {"saving"}, ~Alike
          PROVE  Touched(v) /\ (Op(u) # "patch" => Displaced(v))
      <3>1. u \in Tasks \ {v} /\ Overlap(v, u)
        BY <2>1, <2>2, BothAtWork
      <3> QED BY <3>1, <1>3, <2>2 DEF Touched, Displaced
    <2>3. at[d] = "writing" => StillOpen(d)' \/ Displaced(v)'
      <3>1. SUFFICES ASSUME at[d] = "writing", ~Displaced(v) PROVE StillOpen(d)'
        BY <2>1, <1>1, Kept DEF EditSpots
      <3>2. StillOpen(d)
        BY <3>1 DEF Edited, Patching
      <3>3. project'.made = project.made /\ (project.exists => project'.exists)
        BY <3>1, <2>2 DEF EditSpots, Edit, Alike, Patches
      <3> QED BY <3>2, <3>3, <1>2 DEF StillOpen
    <2>4. at[d] = "saving" /\ Step(d).op = "patch" /\ ~Touched(v)' => project'.text = work[d].text
      <3>1. SUFFICES ASSUME at[d] = "saving", Step(d).op = "patch", ~Touched(v)
                     PROVE  project'.text = work[d].text
        BY <2>1, <1>1, Kept
      <3> QED BY <3>1, <2>2 DEF Edited, Patching, Alike
    <2>5. at[d] \in EditSpots \cup {"saving"} /\ Step(d).op = "patch" =>
            /\ Patchable(work[d].before, Step(d))
            /\ work[d].text = Patched(work[d].before, Step(d))
      BY DEF Edited, Patching
    <2>6. v = work'[d].task
      BY <1>2
    <2>7. at'[d] = "writing" => StillOpen(d)' \/ Displaced(work[d].task)'
      BY <2>3, <2>6, <1>2 DEF Displaced
    <2>8. at'[d] = "saving" /\ Step(d)'.op = "patch" /\ ~Touched(work[d].task)' => project'.text = work'[d].text
      BY <2>4, <2>6, <1>2 DEF Touched
    <2>9. at'[d] \in EditSpots \cup {"saving"} /\ Step(d)'.op = "patch" =>
            /\ Patchable(work[d].before, Step(d))'
            /\ work'[d].text = Patched(work[d].before, Step(d))'
      BY <2>5, <1>2
    <2> QED BY <2>7, <2>8, <2>9 DEF Patching
  <1>5. ASSUME NEW t \in DOMAIN saved' PROVE Latest(t)'
    <2>1. CASE t \in DOMAIN saved /\ saved'[t] = saved[t]
      <3>1. t \in Tasks \ {u}
        BY <2>1, <1>2 DEF Stored
      <3>2. ~Alike => Touched(t)
        BY <3>1, <1>2, <1>3, Concurrent DEF Touched
      <3>3. Latest(t)
        BY <2>1 DEF Edited
      <3>4. Touched(t) => Touched(t)'
        BY <3>1, <1>1, Kept
      <3> QED BY <2>1, <3>1, <3>2, <3>3, <3>4, <1>2 DEF Latest, Alike
    <2> QED BY <2>1
  <1>6. ASSUME NEW t \in Tasks \ {u} PROVE Keeps(t)'
    <2>1. SUFFICES ASSUME Made(t)', ~Excused(t)'
                   PROVE  /\ Has(project'.text, t) \/ (project'.source /\ project'.text = << >>)
                          /\ \A d \in Chains : at'[d] \in EditSpots => Has(work'[d].text, t)
      BY <1>2 DEF Keeps, Has
    <2>2. Made(t) /\ ~Excused(t)
      <3>1. ~Excused(t)
        BY <2>1, <1>1, Kept
      <3>2. work'[c].task = t => ~(at'[c] = "saving")
        <4>1. at'[c] = "saving" => work'[c].task \in Tasks' /\ log'[work'[c].task].outcome = "running" /\
               Busy(c)'
          BY DEF Base, Thread, AtWork, Busy, Over
        <4>2. ASSUME at'[c] = "saving", work'[c].task = t PROVE FALSE
          <5>1. log[t].outcome = "running"
            BY <4>1, <4>2, <1>2
          <5>2. PICK d \in Chains : Busy(d) /\ work[d].task = t
            BY <5>1 DEF Base, Logged
          <5>3. d # c /\ Busy(d)' /\ work'[d].task = t
            BY <5>2, <1>2 DEF Busy
          <5> QED BY <5>3, <4>1, <4>2, AtWorkDistinct
        <4> QED BY <4>2
      <3> QED BY <2>1, <3>1, <3>2, <1>2 DEF Made, Op
    <2>3. /\ Has(project.text, t) \/ (project.source /\ project.text = << >>)
          /\ \A d \in Chains : at[d] \in EditSpots => Has(work[d].text, t)
      BY <2>2 DEF Edited, Keeps
    <2>4. \A d \in Chains : at'[d] \in EditSpots => Has(work'[d].text, t)
      BY <2>2, <2>3, <1>2
    <2>5. CASE Alike
      BY <2>3, <2>4, <2>5 DEF Alike
    <2>6. CASE Edits(u) /\ Op(u) # "patch"
      <3>1. Excused(t)
        BY <2>6, <1>2, Concurrent DEF Excused
      <3> QED BY <3>1, <2>2
    <2>7. CASE Patches(c)
      BY <2>3, <2>4, <2>7 DEF Patches
    <2> QED BY <2>5, <2>6, <2>7 DEF Edit
  <1> QED BY <1>1, <1>4, <1>5, <1>6 DEF Edited

\* The step is no patch's, or none that reads, writes or succeeds.
Plain(c) ==
  /\ at'[c] \notin EditSpots
  /\ Op(work[c].task) = "patch" => at'[c] # "saving" /\ log'[work[c].task].outcome # "done"

LEMMA MadeByItself ==
  ASSUME Base, Base', NEW c \in Chains, Busy(c), Steps(c), NEW u, u = work[c].task,
         at'[c] # "saving", log'[u].outcome # "done"
  PROVE  ~Made(u)'
  <1>1. ASSUME NEW d \in Chains \ {c}, at'[d] = "saving", work'[d].task = u PROVE FALSE
    <2>1. at[d] = "saving" /\ work[d].task = u
      BY <1>1 DEF Steps
    <2>2. Busy(d)
      BY <2>1 DEF Busy, Over
    <2> QED BY <2>1, <2>2, BothAtWork
  <1> QED BY <1>1 DEF Made

LEMMA EditedPlain ==
  ASSUME Base, Stored, Edited, NEW c \in Chains, Busy(c), Steps(c), Base', Plain(c), saved' = saved,
         Alike \/ (Edits(work[c].task) /\ Op(work[c].task) # "patch")
  PROVE  Edited'
  <1> PICK u : u = work[c].task
    OBVIOUS
  <1>1. Edit(c)
    BY DEF Edit
  <1>2. u \in Tasks /\ Op(u)' = Op(u) /\ work'[c].task = u
    BY AtWorkFacts DEF Steps, Op
  <1>3. Patching(c)'
    <2>1. at'[c] = "saving" => Step(c)'.op = Op(u)'
      <3>1. SUFFICES ASSUME at'[c] = "saving" PROVE Step(c)'.op = Op(u)'
        OBVIOUS
      <3>2. Busy(c)'
        BY <3>1 DEF Busy, Over
      <3> QED BY <3>2, <1>2 DEF Base, Thread, AtWork, Op
    <2>2. at'[c] \notin EditSpots /\ at'[c] # "writing" /\ (at'[c] = "saving" => Step(c)'.op # "patch")
      BY <1>2, <2>1 DEF Plain, EditSpots
    <2> QED BY <2>2 DEF Patching
  <1>4. Keeps(u)'
    <2>1. CASE Op(u) # "patch"
      BY <2>1, <1>2 DEF Keeps, Made
    <2>2. CASE Op(u) = "patch"
      <3>1. ~Made(u)'
        BY <2>2, MadeByItself DEF Plain
      <3> QED BY <3>1 DEF Keeps
    <2> QED BY <2>1, <2>2
  <1>5. at'[c] \notin EditSpots
    BY DEF Plain
  <1> QED BY <1>1, <1>3, <1>4, <1>5, EditedStep

LEMMA EditedOpen ==
  ASSUME Base, Stored, Edited, NEW c \in Chains, Opens(c), Base'
  PROVE  Edited'
  <1> DEFINE n == Len(log) + 1
  <1>1. /\ Grown /\ n \notin Tasks /\ Tasks' = Tasks \cup {n}
        /\ project' = project /\ saved' = saved
        /\ \A t \in Tasks : log'[t] = log[t]
        /\ \A d \in Chains \ {c} : at'[d] = at[d] /\ work'[d] = work[d] /\ Step(d)' = Step(d)
        /\ log'[n].outcome # "done" /\ work'[c].task = n
    BY OpensGrow DEF Opens, files, decoded, captures
  <1>2. at'[c] \notin EditSpots \cup {"saving"}
    BY DEF Opens, StartSpots, EditSpots
  <1>3. \A d \in Chains : at'[d] \in EditSpots \cup {"saving"} =>
          d # c /\ at[d] = at'[d] /\ work[d].task \in Tasks
    <2>1. \A d \in Chains : at[d] \in EditSpots \cup {"saving"} => Busy(d)
      BY DEF Busy, Over, EditSpots
    <2> QED BY <2>1, <1>1, <1>2 DEF Base, Thread, AtWork
  <1>4. ASSUME NEW t \in Tasks' PROVE Keeps(t)'
    <2>1. CASE t = n
      <3>1. ~Made(t)'
        BY <2>1, <1>1, <1>3 DEF Made
      <3> QED BY <3>1 DEF Keeps
    <2>2. CASE t \in Tasks
      <3>1. (Made(t)' => Made(t)) /\ (Excused(t) => Excused(t)')
        BY <2>2, <1>1, <1>3, Kept DEF Made, Op
      <3>2. Keeps(t)
        BY <2>2 DEF Edited
      <3> QED BY <2>2, <3>1, <3>2, <1>1, <1>3 DEF Keeps, Has
    <2> QED BY <2>1, <2>2, <1>1
  <1>5. ASSUME NEW d \in Chains PROVE Patching(d)'
    <2> PICK v : v = work[d].task
      OBVIOUS
    <2>1. CASE at'[d] \notin EditSpots \cup {"saving"}
      BY <2>1 DEF Patching, EditSpots
    <2>2. CASE at'[d] \in EditSpots \cup {"saving"}
      <3>1. /\ v \in Tasks /\ at'[d] = at[d] /\ work'[d] = work[d] /\ Step(d)' = Step(d)
            /\ work'[d].task = v
        BY <2>2, <1>1, <1>3
      <3>2. (Displaced(v) => Displaced(v)') /\ (Touched(v) => Touched(v)')
        BY <3>1, <1>1, Kept
      <3>3. (Displaced(v) => Displaced(work[d].task)') /\ (Touched(v) => Touched(work[d].task)')
        BY <3>1, <3>2 DEF Displaced, Touched
      <3> QED BY <3>1, <3>3, <1>1 DEF Edited, Patching, StillOpen
    <2> QED BY <2>1, <2>2
  <1>6. ASSUME NEW t \in DOMAIN saved' PROVE Latest(t)'
    <2>1. t \in Tasks /\ Latest(t)
      BY <1>1 DEF Stored, Edited
    <2>2. Op(t)' = Op(t) /\ (Touched(t) => Touched(t)')
      BY <2>1, <1>1, Kept
    <2> QED BY <2>1, <2>2, <1>1 DEF Latest
  <1> QED BY <1>4, <1>5, <1>6 DEF Edited

-----------------------------------------------------------------------------
(* Records.                                                                *)

LEMMA RecordsStep ==
  ASSUME Base, Stored, Records, NEW c \in Chains, Busy(c), Steps(c), Tracing(c)',
         \/ scripts' = scripts
         \/ /\ Op(work[c].task) = "trace" /\ DOMAIN scripts \subseteq DOMAIN scripts'
            /\ \A m \in DOMAIN scripts :
                 scripts'[m] \subseteq scripts[m] \cup {log[work[c].task].step.script},
         \A t \in DOMAIN saved' :
           \/ t \in DOMAIN saved /\ saved'[t] = saved[t]
           \/ Recorded(t)'
  PROVE  Records'
  <1> PICK u : u = work[c].task
    OBVIOUS
  <1>1. Grown
    BY StepsGrow
  <1>2. ASSUME NEW d \in Chains \ {c} PROVE Tracing(d)'
    <2> PICK v : v = work[d].task
      OBVIOUS
    <2>1. CASE at[d] \notin {"filling", "launching", "tracing", "saving"}
      BY <2>1 DEF Tracing, Steps
    <2>2. CASE at[d] \in {"filling", "launching", "tracing", "saving"}
      <3>1. Busy(d)
        BY <2>2 DEF Busy, Over
      <3>2. v \in Tasks /\ u \in Tasks \ {v} /\ Overlap(v, u)
        BY <3>1, BothAtWork
      <3>3. \A spot, x : Ran(v, spot, x) => Ran(v, spot, x)'
        BY <3>2, <1>1, Kept
      <3> PICK x, m, y, s : x = work[d].text /\ m = work[d].now /\ y = scripts'[m] /\ s = at[d]
        OBVIOUS
      <3>4. /\ at'[d] = at[d] /\ Step(d)' = Step(d)
            /\ work'[d].task = v /\ work'[d].text = x /\ work'[d].now = m
        BY DEF Steps
      <3>5. ASSUME s \in {"filling", "launching"} PROVE m \in DOMAIN scripts' /\ Ran(v, s, y)
        <4> PICK z : z = scripts[m]
          OBVIOUS
        <4>1. m \in DOMAIN scripts /\ Ran(v, s, z)
          BY <3>5 DEF Records, Tracing
        <4>2. CASE y = z
          BY <4>1, <4>2
        <4>3. CASE Op(u) = "trace" /\ y \subseteq z \cup {log[u].step.script}
          <5>1. u \in Beside(v)
            BY <4>3, <3>2 DEF Beside
          <5> QED BY <4>1, <4>3, <5>1 DEF Ran
        <4> QED BY <4>1, <4>2, <4>3
      <3>6. s \in {"filling", "launching"} => m \in DOMAIN scripts' /\ Ran(v, s, y)'
        BY <3>3, <3>5
      <3>7. s \in {"tracing", "saving"} /\ Step(d).op = "trace" => Ran(v, s, x)'
        BY <3>3 DEF Records, Tracing
      <3>8. at'[d] \in {"filling", "launching"} =>
              work'[d].now \in DOMAIN scripts' /\ Ran(work[d].task, at[d], scripts[work[d].now])'
        BY <3>4, <3>6 DEF Ran, Beside
      <3>9. at'[d] \in {"tracing", "saving"} /\ Step(d)'.op = "trace" =>
              Ran(work[d].task, at[d], work[d].text)'
        BY <3>4, <3>7 DEF Ran, Beside
      <3> QED BY <3>8, <3>9 DEF Tracing
    <2> QED BY <2>1, <2>2
  <1>3. ASSUME NEW t \in DOMAIN saved, saved'[t] = saved[t] PROVE Recorded(t)'
    <2>1. t \in Tasks /\ Recorded(t)
      BY DEF Stored, Records
    <2>2. log'[t].step = log[t].step /\ \A spot, x : Ran(t, spot, x) => Ran(t, spot, x)'
      BY <2>1, <1>1, Kept DEF Grown
    <2>3. CASE log[t].step.op = "trace"
      BY <2>1, <2>2, <2>3, <1>3 DEF Recorded
    <2>4. CASE log[t].step.op # "trace"
      BY <2>1, <2>2, <2>4, <1>3 DEF Recorded
    <2> QED BY <2>3, <2>4
  <1> QED BY <1>2, <1>3 DEF Records

LEMMA RecordsPlain ==
  ASSUME Base, Stored, Records, NEW c \in Chains, Busy(c), Steps(c), Base',
         scripts' = scripts, saved' = saved,
         at'[c] \notin {"filling", "launching", "tracing"},
         at'[c] = "saving" => Op(work[c].task) # "trace"
  PROVE  Records'
  <1>1. at'[c] = "saving" => Step(c)'.op = Op(work[c].task)
    <2>1. SUFFICES ASSUME at'[c] = "saving" PROVE Step(c)'.op = Op(work[c].task)
      OBVIOUS
    <2>2. Busy(c)' /\ work[c].task \in Tasks /\ work'[c].task = work[c].task
      BY <2>1, AtWorkFacts DEF Busy, Over, Steps
    <2>3. log'[work'[c].task].step = Step(c)'
      BY <2>2 DEF Base, Thread, AtWork
    <2> QED BY <2>2, <2>3 DEF Steps, Op
  <1>2. Tracing(c)'
    BY <1>1 DEF Tracing
  <1> QED BY <1>2, RecordsStep

LEMMA RecordsOpen ==
  ASSUME Base, Stored, Records, NEW c \in Chains, Opens(c)
  PROVE  Records'
  <1>1. /\ Grown /\ saved' = saved /\ scripts' = scripts
        /\ \A d \in Chains \ {c} : at'[d] = at[d] /\ work'[d] = work[d] /\ Step(d)' = Step(d)
    BY OpensGrow DEF Opens, files, captures
  <1>2. Tracing(c)'
    BY DEF Opens, StartSpots, Tracing
  <1>3. ASSUME NEW d \in Chains \ {c} PROVE Tracing(d)'
    <2> PICK v : v = work[d].task
      OBVIOUS
    <2>1. CASE at[d] \notin {"filling", "launching", "tracing", "saving"}
      BY <2>1, <1>1 DEF Tracing
    <2>2. CASE at[d] \in {"filling", "launching", "tracing", "saving"}
      <3>1. Busy(d)
        BY <2>2 DEF Busy, Over
      <3>2. v \in Tasks
        BY <3>1, AtWorkFacts
      <3>3. \A spot, x : Ran(v, spot, x) => Ran(v, spot, x)'
        BY <3>2, <1>1, Kept
      <3> PICK x, m, y, s : x = work[d].text /\ m = work[d].now /\ y = scripts'[m] /\ s = at[d]
        OBVIOUS
      <3>4. /\ at'[d] = at[d] /\ Step(d)' = Step(d)
            /\ work'[d].task = v /\ work'[d].text = x /\ work'[d].now = m
        BY <1>1
      <3>6. s \in {"filling", "launching"} => m \in DOMAIN scripts' /\ Ran(v, s, y)'
        <4>1. s \in {"filling", "launching"} => m \in DOMAIN scripts /\ Ran(v, s, y)
          BY <1>1 DEF Records, Tracing
        <4> QED BY <4>1, <3>3, <1>1
      <3>7. s \in {"tracing", "saving"} /\ Step(d).op = "trace" => Ran(v, s, x)'
        BY <3>3 DEF Records, Tracing
      <3>8. at'[d] \in {"filling", "launching"} =>
              work'[d].now \in DOMAIN scripts' /\ Ran(work[d].task, at[d], scripts[work[d].now])'
        BY <3>4, <3>6 DEF Ran, Beside
      <3>9. at'[d] \in {"tracing", "saving"} /\ Step(d)'.op = "trace" =>
              Ran(work[d].task, at[d], work[d].text)'
        BY <3>4, <3>7 DEF Ran, Beside
      <3> QED BY <3>8, <3>9 DEF Tracing
    <2> QED BY <2>1, <2>2
  <1>4. ASSUME NEW t \in DOMAIN saved PROVE Recorded(t)'
    <2>1. t \in Tasks /\ Recorded(t)
      BY DEF Stored, Records
    <2>2. log'[t].step = log[t].step /\ \A spot, x : Ran(t, spot, x) => Ran(t, spot, x)'
      BY <2>1, <1>1, Kept DEF Grown
    <2>3. CASE log[t].step.op = "trace"
      BY <2>1, <2>2, <2>3, <1>1 DEF Recorded
    <2>4. CASE log[t].step.op # "trace"
      BY <2>1, <2>2, <2>4, <1>1 DEF Recorded
    <2> QED BY <2>3, <2>4
  <1> QED BY <1>1, <1>2, <1>3, <1>4 DEF Records

-----------------------------------------------------------------------------
(* Signed files.                                                           *)

\* A step leaves the file p as it is.
SameFile(p) == (p \in DOMAIN disk' <=> p \in DOMAIN disk) /\ (p \in DOMAIN disk => disk'[p] = disk[p])

SigningSpots == {"detecting", "keying", "aligning", "signing", "lite", "signed", "litesigned", "tidying"}

LEMMA SigningSpot ==
  ASSUME Base, NEW c \in Chains, at[c] \in SigningSpots
  PROVE  Busy(c) /\ Op(work[c].task) = "sign"
  <1>1. Busy(c) /\ at[c] \in SignSpots
    BY DEF SigningSpots, SignSpots, Busy, Over
  <1>2. Fitting(Step(c).op, at[c]) /\ Op(work[c].task) = Step(c).op
    BY <1>1, AtWorkFacts
  <1> QED BY <1>1, <1>2 DEF Fitting

LEMMA SignedLater ==
  ASSUME Base, Signatures, Grown, NEW t \in Tasks, Signed(t), SameFile(log[t].out) \/ ~Sole(t),
         log'[t].outcome = log[t].outcome
  PROVE  Signed(t)'
  <1> PICK o : o = log[t].out
    OBVIOUS
  <1>1. log'[t].out = o /\ Op(t)' = Op(t) /\ (Sole(t)' => Sole(t))
    BY Kept DEF Grown
  <1>2. SUFFICES ASSUME Op(t) = "sign", Sole(t)
        PROVE  /\ log[t].outcome = "done" => Whole(o)' /\ disk'[o].signed
               /\ log[t].outcome = "failed" => ~Whole(o)'
    <2> DEFINE claim == /\ log[t].outcome = "done" => Whole(o)' /\ disk'[o].signed
                        /\ log[t].outcome = "failed" => ~Whole(o)'
    <2>1. Op(t)' = "sign" /\ Sole(t)' => claim
      BY <1>1, <1>2
    <2>2. (Whole(o)' <=> Whole(log[t].out)') /\ disk'[o].signed = disk'[log'[t].out].signed
      BY <1>1 DEF Whole
    <2> QED BY <2>1, <2>2, <1>1 DEF Signed
  <1>3. SameFile(o)
    BY <1>2
  <1> QED BY <1>2, <1>3 DEF Signed, Whole, SameFile

LEMMA SigningLater ==
  ASSUME Base, Signatures, Grown, NEW d \in Chains,
         at'[d] = at[d], work'[d] = work[d],
         at[d] \in SigningSpots => SameFile(work[d].out) \/ ~Sole(work[d].task)
  PROVE  Signing(d)'
  <1> PICK v, o : v = work[d].task /\ o = work[d].out
    OBVIOUS
  <1>1. CASE at[d] \notin SigningSpots
    BY <1>1 DEF Signing, SigningSpots
  <1>2. CASE at[d] \in SigningSpots
    <2>1. Busy(d) /\ v \in Tasks /\ (Sole(v)' => Sole(v))
      BY <1>2, SigningSpot, AtWorkFacts, Kept
    <2>2. Sole(work[d].task)' => Sole(v)'
      BY DEF Sole
    <2>3. CASE ~Sole(v)
      BY <2>1, <2>2, <2>3 DEF Signing
    <2>4. CASE Sole(v)
      <3>1. SameFile(o) /\ Signing(d)
        BY <1>2, <2>4 DEF Signatures
      <3>2. /\ at[d] \in {"detecting", "keying", "aligning", "signing", "lite"} => ~Whole(o)'
            /\ at[d] \in {"signed", "litesigned"} => o \in DOMAIN disk' /\ disk'[o].by = v /\ ~Whole(o)'
            /\ at[d] = "tidying" => IF work[d].failed THEN ~Whole(o)' ELSE Whole(o)' /\ disk'[o].signed
        BY <3>1, <2>1, <2>4 DEF Signing, Whole, SameFile
      <3>3. work'[d].task = v /\ work'[d].out = o
        OBVIOUS
      <3>4. Whole(work[d].out)' <=> Whole(o)'
        BY <3>3 DEF Whole
      <3> QED BY <3>2, <3>3, <3>4 DEF Signing
    <2> QED BY <2>3, <2>4
  <1> QED BY <1>1, <1>2

LEMMA SignaturesStep ==
  ASSUME Base, Signatures, NEW c \in Chains, Busy(c), Steps(c), NEW u, u = work[c].task,
         \A t \in Tasks \ {u} : Op(t) = "sign" /\ log[t].out # work[c].out => SameFile(log[t].out),
         Signing(c)', Signed(u)', Tidied'
  PROVE  Signatures'
  <1>1. Grown /\ u \in Tasks /\ log[u].out = work[c].out /\ Tasks' = Tasks
    BY StepsGrow, AtWorkFacts DEF Steps, Tasks
  <1>2. ASSUME NEW d \in Chains \ {c} PROVE Signing(d)'
    <2> PICK v : v = work[d].task
      OBVIOUS
    <2>1. ASSUME at[d] \in SigningSpots, Sole(v) PROVE SameFile(work[d].out)
      <3>1. Busy(d) /\ Op(v) = "sign" /\ log[v].out = work[d].out
        BY <2>1, SigningSpot, AtWorkFacts
      <3>2. v \in Tasks \ {u} /\ u \in Tasks \ {v} /\ Overlap(v, u)
        BY <3>1, BothAtWork
      <3>3. log[v].out # work[c].out
        BY <3>2, <2>1, <1>1 DEF Sole
      <3> QED BY <3>1, <3>2, <3>3
    <2> QED BY <2>1, <1>1, SigningLater DEF Steps
  <1>3. ASSUME NEW t \in Tasks \ {u} PROVE Signed(t)'
    <2>1. CASE Op(t) # "sign"
      BY <2>1, <1>1, Kept DEF Signed
    <2>2. CASE Op(t) = "sign"
      <3>1. Sole(t) => log[t].out # work[c].out
        <4>1. u > t \/ Overlap(t, u)
          BY Concurrent
        <4>2. u \in Nat /\ t \in Nat /\ u \in Tasks \ {t}
          BY <1>1, LogIsSequence
        <4>3. log[t].out = log[u].out /\ Sole(t) => u < t /\ ~Overlap(t, u)
          BY <4>2 DEF Sole
        <4> QED BY <4>1, <4>2, <4>3, <1>1
      <3>2. SameFile(log[t].out) \/ ~Sole(t)
        BY <2>2, <3>1
      <3> QED BY <3>2, <1>1, SignedLater DEF Signatures, Steps
    <2> QED BY <2>1, <2>2
  <1> QED BY <1>1, <1>2, <1>3 DEF Signatures

LEMMA SignaturesPlain ==
  ASSUME Base, Signatures, NEW c \in Chains, Busy(c), Steps(c), Base',
         Op(work[c].task) # "sign",
         \A p : p # work[c].out => SameFile(p),
         \A t \in Nat : Whole(AlignedPath(t))' => Whole(AlignedPath(t))
  PROVE  Signatures'
  <1> PICK u : u = work[c].task
    OBVIOUS
  <1>1. Grown /\ u \in Tasks /\ Op(u)' = Op(u) /\ work'[c].task = u
    BY StepsGrow, AtWorkFacts, Kept DEF Steps
  <1>2. at[c] \notin SigningSpots
    BY SigningSpot
  <1>3. at'[c] \notin SigningSpots
    <2>1. SUFFICES ASSUME at'[c] \in SigningSpots PROVE FALSE
      OBVIOUS
    <2>2. Busy(c)' /\ at'[c] \in SignSpots
      BY <2>1 DEF SigningSpots, SignSpots, Busy, Over
    <2>3. Fitting(Step(c)'.op, at'[c]) /\ Op(u)' = Step(c)'.op
      BY <1>1, <2>2 DEF Base, Thread, AtWork, Op
    <2> QED BY <1>1, <2>2, <2>3 DEF Fitting
  <1>4. Signing(c)'
    BY <1>3 DEF Signing, SigningSpots
  <1>5. Signed(u)'
    BY <1>1 DEF Signed
  <1>6. Tidied'
    <2>1. ASSUME NEW t \in Nat, Whole(AlignedPath(t))'
          PROVE  \E d \in Chains : work'[d].task = t /\ at'[d] \in {"signing", "signed", "tidying"}
      <3>1. PICK d \in Chains : work[d].task = t /\ at[d] \in {"signing", "signed", "tidying"}
        BY <2>1 DEF Signatures, Tidied
      <3>2. d # c
        BY <1>2, <3>1 DEF SigningSpots
      <3> QED BY <3>1, <3>2 DEF Steps
    <2> QED BY <2>1 DEF Tidied
  <1> QED BY <1>4, <1>5, <1>6, SignaturesStep

LEMMA SignaturesOpen ==
  ASSUME Base, Base', Signatures, NEW c \in Chains, at[c] = "between", Opens(c)
  PROVE  Signatures'
  <1> PICK n : n = Len(log) + 1
    OBVIOUS
  <1>1. /\ Grown /\ Tasks' = Tasks \cup {n}
        /\ \A p : SameFile(p)
        /\ \A t \in Tasks : log'[t] = log[t]
        /\ log'[n].outcome \in {"running", "refused"}
        /\ \A d \in Chains \ {c} : at'[d] = at[d] /\ work'[d] = work[d]
    BY OpensGrow DEF Opens, files, packages, SameFile
  <1>2. Signing(c)'
    BY DEF Opens, StartSpots, Signing
  <1>3. \A d \in Chains \ {c} : Signing(d)'
    BY <1>1, SigningLater
  <1>4. Signed(n)'
    BY <1>1 DEF Signed
  <1>5. \A t \in Tasks : Signed(t)'
    BY <1>1, SignedLater DEF Signatures
  <1>6. Tidied'
    <2>1. ASSUME NEW t \in Nat, Whole(AlignedPath(t))'
          PROVE  \E d \in Chains : work'[d].task = t /\ at'[d] \in {"signing", "signed", "tidying"}
      <3>1. PICK d \in Chains : work[d].task = t /\ at[d] \in {"signing", "signed", "tidying"}
        BY <2>1, <1>1 DEF Signatures, Tidied, Whole, SameFile
      <3> QED BY <3>1, <1>1
    <2> QED BY <2>1 DEF Tidied
  <1> QED BY <1>1, <1>2, <1>3, <1>4, <1>5, <1>6 DEF Signatures

-----------------------------------------------------------------------------
(* Files.                                                                  *)

LEMMA StoredStep ==
  ASSUME Base, Stored, NEW c \in Chains, Busy(c), Steps(c), NEW u, u = work[c].task,
         DOMAIN project' = DOMAIN project,
         \/ project'.made \in {project.made, 0}
         \/ project'.made = u /\ Op(u) = "decode",
         \A p \in DOMAIN disk' : \/ disk'[p].by \in {0, u}
                                 \/ \E q \in DOMAIN disk : disk'[p] = disk[q],
         flavor' \in {flavor, "sdk", "lite"}, keystore' \in {keystore, TRUE},
         \A t \in DOMAIN saved' : t \in DOMAIN saved \/ (t = u /\ log'[u].outcome = "done")
  PROVE  Stored'
  <1>1. Grown /\ u \in Tasks /\ Tasks' = Tasks /\ host' = host /\ log[u].outcome = "running"
    BY StepsGrow, AtWorkFacts DEF Steps, Tasks
  <1>2. \A t \in Tasks : Op(t)' = Op(t)
    BY <1>1, Kept
  <1>3. project'.made \in {t \in Tasks' : Op(t)' = "decode"} \cup {0}
    BY <1>1, <1>2 DEF Stored
  <1>4. \A p \in DOMAIN disk' : disk'[p].by \in Tasks' \cup {0}
    BY <1>1 DEF Stored
  <1>5. \A t \in DOMAIN saved' : t \in Tasks' /\ log'[t].outcome = "done"
    BY <1>1 DEF Stored, Steps
  <1> QED BY <1>1, <1>3, <1>4, <1>5 DEF Stored

LEMMA StoredOpen ==
  ASSUME Base, Stored, NEW c \in Chains, Opens(c)
  PROVE  Stored'
  <1>1. /\ Grown /\ \A t \in Tasks : log'[t] = log[t] /\ t \in Tasks'
        /\ host' = host /\ project' = project /\ disk' = disk /\ flavor' = flavor /\ keystore' = keystore
        /\ saved' = saved
    BY OpensGrow DEF Opens, files, packages, decoded, captures
  <1>2. \A t \in Tasks : Op(t)' = Op(t)
    BY <1>1, Kept
  <1>3. project'.made \in {t \in Tasks' : Op(t)' = "decode"} \cup {0}
    BY <1>1, <1>2 DEF Stored
  <1>4. /\ \A p \in DOMAIN disk' : disk'[p].by \in Tasks' \cup {0}
        /\ \A t \in DOMAIN saved' : t \in Tasks' /\ log'[t].outcome = "done"
    BY <1>1 DEF Stored
  <1> QED BY <1>1, <1>3, <1>4 DEF Stored

LEMMA OpenSafe ==
  ASSUME IInv, NEW c \in Chains, NEW place \in StartSpots, NEW w, Begun(c, place, w),
         Fitting(Step(c).op, place), DOMAIN w = Fields, ~w.failed,
         Step(c).op = "sign" => w.out[1] = "signed",
         Step(c).op = "build" => w.out[1] = "build"
  PROVE  IInv'
  <1>1. Base /\ Stored /\ Edited /\ Records /\ Signatures
    BY DEF IInv
  <1>2. Base' /\ Opens(c)
    BY <1>1, BeginOpens
  <1>3. at[c] = "between"
    BY DEF Begun
  <1> QED BY <1>1, <1>2, <1>3, EditedOpen, RecordsOpen, SignaturesOpen, StoredOpen DEF IInv

LEMMA RetrySafe ==
  ASSUME IInv, NEW c \in Chains, Retry(c)
  PROVE  IInv'
  <1>1. Base /\ Stored /\ Edited /\ Records /\ Signatures /\ Base'
    BY RetryBase DEF IInv
  <1>2. /\ at[c] = "failed" /\ at'[c] = "between"
        /\ \A d \in Chains \ {c} : at'[d] = at[d]
        /\ work' = work /\ log' = log /\ plan' = plan /\ step' = step /\ met' = met /\ host' = host
        /\ project' = project /\ disk' = disk /\ flavor' = flavor /\ keystore' = keystore
        /\ saved' = saved /\ scripts' = scripts
    BY <1>1 DEF Retry, Goto, Base, Typed, files, packages, decoded, captures
  <1>3. Grown /\ Tasks' = Tasks
    BY <1>2 DEF Grown, Tasks
  <1>4. \A d \in Chains : Step(d)' = Step(d)
    BY <1>2 DEF Step
  <1>5. Stored'
    BY <1>1, <1>2, <1>3 DEF Stored, Op
  <1>6. \A d \in Chains : at'[d] = at[d] \/ at'[d] \notin Spots
    BY <1>2 DEF Spots, DecodeSpots, PatchSpots, EditSpots, BuildSpots, SignSpots, TraceSpots, OtherSpots
  <1>7. Edited'
    <2>1. \A t \in Tasks : (Made(t)' => Made(t)) /\ (Excused(t) => Excused(t)') /\ (Touched(t) => Touched(t)')
      BY <1>2, <1>3, Kept DEF Made, Op
    <2>2. ASSUME NEW t \in Tasks' PROVE Keeps(t)'
      <3>1. Keeps(t)
        BY <1>1, <1>3 DEF Edited
      <3>2. \A d \in Chains : at'[d] \in EditSpots => at[d] \in EditSpots
        BY <1>2 DEF EditSpots
      <3> QED BY <2>1, <3>1, <3>2, <1>2, <1>3 DEF Keeps, Has
    <2>3. ASSUME NEW d \in Chains PROVE Patching(d)'
      <3>1. CASE d = c
        BY <3>1, <1>2 DEF Patching, EditSpots
      <3>2. CASE d # c
        <4>1. Displaced(work[d].task)' <=> Displaced(work[d].task)
          BY <1>2 DEF Displaced, Tasks, Op, Edits, Overlap
        <4>2. Touched(work[d].task)' <=> Touched(work[d].task)
          BY <1>2 DEF Touched, Tasks, Op, Edits, Overlap
        <4> QED BY <3>2, <4>1, <4>2, <1>1, <1>2, <1>4 DEF Patching, Edited, StillOpen
      <3> QED BY <3>1, <3>2
    <2>4. ASSUME NEW t \in DOMAIN saved' PROVE Latest(t)'
      <3>1. t \in Tasks /\ Latest(t)
        BY <1>1, <1>2 DEF Stored, Edited
      <3> QED BY <3>1, <2>1, <1>2 DEF Latest, Op
    <2> QED BY <2>2, <2>3, <2>4 DEF Edited
  <1>8. Records'
    <2>1. \A t, spot, x : Ran(t, spot, x)' <=> Ran(t, spot, x)
      BY <1>2 DEF Ran, Beside, Tasks, Op, Overlap
    <2>2. ASSUME NEW d \in Chains PROVE Tracing(d)'
      <3>1. CASE d = c
        BY <3>1, <1>2 DEF Tracing
      <3>2. CASE d # c
        <4>1. \A spot, x : Ran(work[d].task, spot, x)' <=> Ran(work[d].task, spot, x)
          BY <1>2 DEF Ran, Beside, Tasks, Op, Overlap
        <4>2. Tracing(d)
          BY <1>1 DEF Records
        <4> QED BY <3>2, <4>1, <4>2, <1>2, <1>4 DEF Tracing
      <3> QED BY <3>1, <3>2
    <2>3. ASSUME NEW t \in DOMAIN saved' PROVE Recorded(t)'
      <3>1. Recorded(t)
        BY <1>1, <1>2 DEF Records
      <3>2. CASE log[t].step.op = "trace"
        BY <3>1, <3>2, <2>1, <1>2 DEF Recorded
      <3>3. CASE log[t].step.op # "trace"
        BY <3>1, <3>3, <1>2 DEF Recorded
      <3> QED BY <3>2, <3>3
    <2> QED BY <2>2, <2>3 DEF Records
  <1>9. Signatures'
    <2>1. \A p : SameFile(p)
      BY <1>2 DEF SameFile
    <2>2. Signing(c)'
      BY <1>2 DEF Signing
    <2>3. \A d \in Chains \ {c} : Signing(d)'
      BY <2>1, <1>1, <1>2, <1>3, SigningLater
    <2>4. \A t \in Tasks : Signed(t)'
      BY <2>1, <1>1, <1>2, <1>3, SignedLater DEF Signatures
    <2>5. Tidied'
      BY <1>1, <1>2 DEF Signatures, Tidied, Whole
    <2> QED BY <2>2, <2>3, <2>4, <2>5, <1>3 DEF Signatures
  <1> QED BY <1>1, <1>5, <1>7, <1>8, <1>9 DEF IInv

-----------------------------------------------------------------------------
(* The calls of execute().                                                 *)

LEMMA IdleLocals ==
  /\ DOMAIN Idle = Fields /\ ~Idle.failed
  /\ \A x : DOMAIN [Idle EXCEPT !.path = x] = Fields /\ ~[Idle EXCEPT !.path = x].failed
  /\ \A x : DOMAIN [Idle EXCEPT !.text = x] = Fields /\ ~[Idle EXCEPT !.text = x].failed
  /\ \A x : /\ DOMAIN [Idle EXCEPT !.out = x] = Fields /\ ~[Idle EXCEPT !.out = x].failed
            /\ [Idle EXCEPT !.out = x].out = x
  BY DEF Idle, Fields

\* What a call of a handler finds, and where it goes.
Called(c) ==
  \E place \in StartSpots : \E w :
    /\ Begun(c, place, w) /\ Fitting(Step(c).op, place)
    /\ DOMAIN w = Fields /\ ~w.failed
    /\ Step(c).op = "sign" => w.out[1] = "signed"
    /\ Step(c).op = "build" => w.out[1] = "build"

\* Places where a call that has neither output nor text begins.
LEMMA CalledWith ==
  ASSUME NEW c \in Chains, NEW place \in StartSpots, NEW w, Begun(c, place, w),
         Fitting(Step(c).op, place), DOMAIN w = Fields, ~w.failed,
         Step(c).op \notin {"sign", "build"}
  PROVE  Called(c)
  BY DEF Called

LEMMA FitsStart ==
  ASSUME NEW op
  PROVE  /\ op = "decode" => Fitting(op, "clearing")
         /\ op = "patch" => Fitting(op, "resolving")
         /\ op = "build" => Fitting(op, "packing")
         /\ op = "sign" => Fitting(op, "replacing")
         /\ op = "trace" => Fitting(op, "scripting")
         /\ op = "write" => Fitting(op, "making")
         /\ op = "delete" => Fitting(op, "deleting")
         /\ op \in {"search", "scan-secrets"} => Fitting(op, "searching")
         /\ op \notin {"patch", "sign", "trace", "write"} =>
              \A place \in {"installing", "commanding", "decompiling", "looking", "answering"} :
                     Fitting(op, place)
  BY DEF Fitting, DecodeSpots, PatchSpots, EditSpots, BuildSpots, SignSpots, TraceSpots, OtherSpots

LEMMA ApktoolCalled ==
  ASSUME NEW c \in Chains, ApktoolHandler(c)
  PROVE  Called(c)
  <1> USE IdleLocals, FitsStart
  <1>1. CASE Decode(c)
    <2>1. PICK p : Begun(c, "clearing", [Idle EXCEPT !.path = p])
      BY <1>1 DEF Decode, Begin, Begun
    <2>2. Step(c).op = "decode" /\ "clearing" \in StartSpots
      BY <1>1 DEF Decode, StartSpots
    <2> QED BY <2>1, <2>2, CalledWith
  <1>2. CASE Patch(c)
    <2>1. Begun(c, "resolving", Idle)
      BY <1>2 DEF Patch, Begin, Begun
    <2>2. Step(c).op = "patch" /\ "resolving" \in StartSpots
      BY <1>2 DEF Patch, StartSpots
    <2> QED BY <2>1, <2>2, CalledWith
  <1>3. CASE Build(c)
    <2> PICK o : o = BuildPath(Step(c).name)
      OBVIOUS
    <2>1. Begun(c, "packing", [Idle EXCEPT !.out = o]) /\ o[1] = "build"
      BY <1>3 DEF Build, Begin, Begun, BuildPath
    <2>2. Step(c).op = "build" /\ "packing" \in StartSpots
      BY <1>3 DEF Build, StartSpots
    <2>3. Fitting(Step(c).op, "packing")
      BY <2>2
    <2> QED BY <2>1, <2>2, <2>3 DEF Called
  <1> QED BY <1>1, <1>2, <1>3 DEF ApktoolHandler

LEMMA SignCalled ==
  ASSUME NEW c \in Chains, Sign(c)
  PROVE  Called(c)
  <1> DEFINE w(p, o) == [Idle EXCEPT !.path = p, !.out = o]
  <1> PICK p, o : p = SignInput(c) /\ o = SignOutput(c)
    OBVIOUS
  <1>1. Begun(c, "replacing", w(p, o)) /\ o[1] = "signed"
    <2>1. Begun(c, "replacing", w(p, o))
      BY DEF Sign, Begin, Begun
    <2> QED BY <2>1 DEF SignOutput, SignedPath
  <1>2. DOMAIN w(p, o) = Fields /\ ~w(p, o).failed /\ w(p, o).out = o
    BY IdleLocals DEF Idle, Fields
  <1>3. Step(c).op = "sign" /\ "replacing" \in StartSpots
    BY DEF Sign, StartSpots
  <1>4. Fitting(Step(c).op, "replacing")
    BY <1>3, FitsStart
  <1> QED BY <1>1, <1>2, <1>3, <1>4 DEF Called

LEMMA CommandCalled ==
  ASSUME NEW c \in Chains, NEW ops, Command(c, ops), ops \cap {"patch", "sign", "trace", "write", "build"} = {}
  PROVE  Called(c)
  <1>1. PICK p : Begun(c, "commanding", [Idle EXCEPT !.path = p])
    BY DEF Command, Begin, Begun
  <1>2. Step(c).op \notin {"patch", "sign", "trace", "write", "build"} /\ "commanding" \in StartSpots
    BY DEF Command, StartSpots
  <1> QED BY <1>1, <1>2, IdleLocals, FitsStart, CalledWith

LEMMA DeviceCalled ==
  ASSUME NEW c \in Chains, AdbHandler(c) \/ FridaHandler(c) \/ ApkidHandler(c) \/ Decompile(c)
  PROVE  Called(c)
  <1> USE IdleLocals, FitsStart
  <1>1. CASE Install(c)
    <2>1. PICK p : Begun(c, "installing", [Idle EXCEPT !.path = p])
      BY <1>1 DEF Install, Begin, Begun
    <2>2. Step(c).op = "install" /\ "installing" \in StartSpots
      BY <1>1 DEF Install, StartSpots
    <2> QED BY <2>1, <2>2, CalledWith
  <1>2. CASE Command(c, DeviceCommands \cup {"push"})
    BY <1>2, CommandCalled DEF DeviceCommands
  <1>3. CASE Command(c, FridaCommands \cup {"push-server"})
    BY <1>3, CommandCalled DEF FridaCommands
  <1>4. CASE Command(c, {"identify"})
    BY <1>4, CommandCalled
  <1>5. CASE Trace(c)
    <2>1. Begun(c, "scripting", Idle)
      BY <1>5 DEF Trace, Begin, Begun
    <2>2. Step(c).op = "trace" /\ "scripting" \in StartSpots
      BY <1>5 DEF Trace, StartSpots
    <2> QED BY <2>1, <2>2, CalledWith
  <1>6. CASE Decompile(c)
    <2>1. PICK p : Begun(c, "decompiling", [Idle EXCEPT !.path = p])
      BY <1>6 DEF Decompile, Begin, Begun
    <2>2. Step(c).op = "decompile" /\ "decompiling" \in StartSpots
      BY <1>6 DEF Decompile, StartSpots
    <2> QED BY <2>1, <2>2, CalledWith
  <1> QED BY <1>1, <1>2, <1>3, <1>4, <1>5, <1>6 DEF AdbHandler, FridaHandler, ApkidHandler

LEMMA FilesystemCalled ==
  ASSUME NEW c \in Chains, FilesystemHandler(c)
  PROVE  Called(c)
  <1> USE IdleLocals, FitsStart
  <1>1. CASE Look(c)
    <2>1. PICK place \in {"looking", "answering"} : Begun(c, place, Idle)
      <3>1. CASE Exists(Step(c).path)
        BY <1>1, <3>1 DEF Look, Begin, Begun
      <3>2. CASE ~Exists(Step(c).path)
        BY <1>1, <3>2 DEF Look, Begin, Begun
      <3> QED BY <3>1, <3>2
    <2>2. Step(c).op \in {"read", "list", "stat"} /\ place \in StartSpots
      BY <1>1 DEF Look, StartSpots
    <2> QED BY <2>1, <2>2, CalledWith
  <1>2. CASE Write(c)
    <2>1. PICK x : Begun(c, "making", [Idle EXCEPT !.text = x])
      BY <1>2 DEF Write, Begin, Begun
    <2>2. Step(c).op = "write" /\ "making" \in StartSpots
      BY <1>2 DEF Write, StartSpots
    <2> QED BY <2>1, <2>2, CalledWith
  <1>3. CASE Delete(c)
    <2>1. PICK place \in {"deleting", "answering"} : \E o : Begun(c, place, [Idle EXCEPT !.out = o])
      <3>1. CASE Exists(Step(c).path)
        BY <1>3, <3>1 DEF Delete, Begin, Begun
      <3>2. CASE ~Exists(Step(c).path)
        BY <1>3, <3>2 DEF Delete, Begin, Begun
      <3> QED BY <3>1, <3>2
    <2>2. Step(c).op = "delete" /\ place \in StartSpots
      BY <1>3 DEF Delete, StartSpots
    <2>3. Fitting(Step(c).op, place)
      BY <2>2
    <2>4. PICK o : Begun(c, place, [Idle EXCEPT !.out = o])
      BY <2>1
    <2> QED BY <2>2, <2>3, <2>4, CalledWith
  <1>4. CASE Search(c)
    <2>1. Begun(c, "searching", Idle)
      BY <1>4 DEF Search, Begin, Begun
    <2>2. Step(c).op \in {"search", "scan-secrets"} /\ "searching" \in StartSpots
      BY <1>4 DEF Search, StartSpots
    <2> QED BY <2>1, <2>2, CalledWith
  <1> QED BY <1>1, <1>2, <1>3, <1>4 DEF FilesystemHandler

LEMMA ExecuteSafe ==
  ASSUME IInv, NEW c \in Chains, Execute(c)
  PROVE  IInv'
  <1>1. Called(c)
    BY ApktoolCalled, SignCalled, DeviceCalled, FilesystemCalled DEF Execute
  <1>2. PICK place \in StartSpots : \E w :
          /\ Begun(c, place, w) /\ Fitting(Step(c).op, place)
          /\ DOMAIN w = Fields /\ ~w.failed
          /\ Step(c).op = "sign" => w.out[1] = "signed"
          /\ Step(c).op = "build" => w.out[1] = "build"
    BY <1>1 DEF Called
  <1> QED BY <1>2, OpenSafe

-----------------------------------------------------------------------------
(* The turns of handlers, and the steps of their programs.                 *)

LEMMA FitsOn ==
  ASSUME NEW op
  PROVE  /\ op = "decode" => \A place \in {"unpacking", "marking", "listing"} : Fitting(op, place)
         /\ op = "patch" => \A place \in {"reading", "opening", "writing", "saving"} : Fitting(op, place)
         /\ op = "write" => \A place \in {"opening", "writing"} : Fitting(op, place)
         /\ op = "build" => Fitting(op, "assembling")
         /\ op = "sign" => \A place \in SignSpots : Fitting(op, place)
         /\ op = "trace" => \A place \in {"filling", "launching", "tracing", "saving"} : Fitting(op, place)
         /\ op = "scan-secrets" => Fitting(op, "saving")
  BY DEF Fitting, DecodeSpots, PatchSpots, EditSpots, BuildSpots, SignSpots, TraceSpots, OtherSpots

\* What a place tells of the operation.
LEMMA OpAt ==
  ASSUME Base, NEW c \in Chains, Busy(c), NEW op, op = Op(work[c].task)
  PROVE  /\ op = Step(c).op
         /\ at[c] \in {"clearing", "unpacking", "marking"} => op = "decode"
         /\ at[c] \in {"resolving", "reading"} => op = "patch"
         /\ at[c] \in {"opening", "writing"} => op \in {"patch", "write"}
         /\ at[c] \in {"packing", "assembling"} => op = "build"
         /\ at[c] \in SignSpots => op = "sign"
         /\ at[c] \in {"scripting", "filling", "launching", "tracing"} => op = "trace"
         /\ at[c] \in {"listing", "installing", "commanding", "decompiling", "looking", "answering"} =>
              op \notin {"patch", "sign", "trace", "write"}
         /\ at[c] = "saving" => op \in {"patch", "trace", "scan-secrets"}
         /\ at[c] = "making" => op = "write"
         /\ at[c] = "deleting" => op = "delete"
         /\ at[c] = "searching" => op \in {"search", "scan-secrets"}
  <1>1. op = Step(c).op /\ Fitting(op, at[c])
    BY AtWorkFacts
  <1> QED BY <1>1 DEF Fitting, DecodeSpots, PatchSpots, EditSpots, BuildSpots, TraceSpots, OtherSpots

\* Whatever the handler notes leaves its task and its output alone.
LEMMA Locals ==
  ASSUME NEW c \in Chains, DOMAIN work[c] = Fields
  PROVE  /\ \A x : LET w == [work[c] EXCEPT !.text = x] IN
              /\ DOMAIN w = Fields /\ w.task = work[c].task /\ w.out = work[c].out
              /\ w.failed = work[c].failed /\ w.text = x /\ w.now = work[c].now /\ w.before = work[c].before
         /\ \A x, y : LET w == [work[c] EXCEPT !.before = y, !.text = x] IN
              /\ DOMAIN w = Fields /\ w.task = work[c].task /\ w.out = work[c].out
              /\ w.failed = work[c].failed /\ w.text = x /\ w.before = y
         /\ \A x : LET w == [work[c] EXCEPT !.made = x] IN
              /\ DOMAIN w = Fields /\ w.task = work[c].task /\ w.out = work[c].out
              /\ w.failed = work[c].failed /\ w.made = x /\ w.text = work[c].text /\ w.before = work[c].before
         /\ \A x : LET w == [work[c] EXCEPT !.now = x] IN
              /\ DOMAIN w = Fields /\ w.task = work[c].task /\ w.out = work[c].out
              /\ w.failed = work[c].failed /\ w.now = x /\ w.text = work[c].text
         /\ \A x : LET w == [work[c] EXCEPT !.path = x] IN
              /\ DOMAIN w = Fields /\ w.task = work[c].task /\ w.out = work[c].out
              /\ w.failed = work[c].failed
         /\ LET w == [work[c] EXCEPT !.failed = TRUE] IN
              /\ DOMAIN w = Fields /\ w.task = work[c].task /\ w.out = work[c].out /\ w.failed
  BY DEF Fields

\* A step of a handler that is neither sign's nor trace's, and that no patch
\* takes to an end or to the file.
Ordinary(c) ==
  /\ Busy(c) /\ Steps(c) /\ Base' /\ Plain(c)
  /\ at'[c] \notin {"filling", "launching", "tracing"}
  /\ at'[c] = "saving" => Op(work[c].task) # "trace"
  /\ Op(work[c].task) # "sign"
  /\ UNCHANGED <<keystore, flavor, captures>>

LEMMA ProjectSafe ==
  ASSUME IInv, NEW c \in Chains, Ordinary(c), disk' = disk,
         Alike \/ (Edits(work[c].task) /\ Op(work[c].task) # "patch"),
         DOMAIN project' = DOMAIN project,
         \/ project'.made \in {project.made, 0}
         \/ project'.made = work[c].task /\ Op(work[c].task) = "decode"
  PROVE  IInv'
  <1>1. /\ Base /\ Stored /\ Edited /\ Records /\ Signatures
        /\ Busy(c) /\ Steps(c) /\ Base' /\ Plain(c)
        /\ saved' = saved /\ scripts' = scripts /\ keystore' = keystore /\ flavor' = flavor
    BY DEF IInv, Ordinary, captures
  <1>2. Edited'
    BY <1>1, EditedPlain
  <1>3. Records'
    BY <1>1, RecordsPlain DEF Ordinary
  <1>4. Signatures'
    BY <1>1, SignaturesPlain DEF Ordinary, SameFile, Whole
  <1>5. Stored'
    BY <1>1, StoredStep
  <1> QED BY <1>1, <1>2, <1>3, <1>4, <1>5 DEF IInv

LEMMA OrdinarySafe ==
  ASSUME IInv, NEW c \in Chains, Ordinary(c), disk' = disk, project' = project
  PROVE  IInv'
  BY ProjectSafe DEF Alike

\* A handler that is neither a patch's nor sign's nor trace's returns or throws.
LEMMA EndsOrdinarily ==
  ASSUME Base, NEW c \in Chains, Busy(c), Op(work[c].task) # "sign",
         \/ Throws(c)
         \/ Op(work[c].task) # "patch" /\ \E result : Returns(c, result),
         UNCHANGED <<keystore, flavor, captures>>
  PROVE  Ordinary(c)
  <1>1. /\ Base' /\ Steps(c) /\ at'[c] \in {"ended", "between", "failed"}
        /\ Op(work[c].task) = "patch" => log'[work[c].task].outcome # "done"
    <2>1. CASE Throws(c)
      BY <2>1, ThrowSteps
    <2>2. CASE Op(work[c].task) # "patch" /\ \E result : Returns(c, result)
      BY <2>2, ReturnSteps
    <2> QED BY <2>1, <2>2
  <1>2. Plain(c)
    BY <1>1 DEF Plain, EditSpots
  <1> QED BY <1>1, <1>2 DEF Ordinary

\* It goes on at a place where it does not write.
LEMMA GoesOnOrdinarily ==
  ASSUME Base, NEW c \in Chains, Busy(c), NEW place \in Spots \ (EditSpots \cup TraceSpots), NEW w,
         Await(c, place, w), Fitting(Step(c).op, place), DOMAIN w = Fields,
         w.task = work[c].task, w.out = work[c].out, ~w.failed,
         Op(work[c].task) # "sign",
         place = "saving" => Op(work[c].task) \notin {"patch", "trace"},
         UNCHANGED <<keystore, flavor, captures>>
  PROVE  Ordinary(c)
  <1>1. Base' /\ Steps(c) /\ at'[c] = place /\ log' = log
    BY AwaitSteps
  <1>2. log[work[c].task].outcome = "running"
    BY AtWorkFacts
  <1>3. Plain(c)
    BY <1>1, <1>2 DEF Plain
  <1>4. place \notin {"filling", "launching", "tracing"}
    BY DEF TraceSpots
  <1> QED BY <1>1, <1>3, <1>4 DEF Ordinary

LEMMA DecodeSafe ==
  ASSUME IInv, NEW c \in Chains, ClearProject(c) \/ Unpack(c) \/ MarkProject(c) \/ ListProject(c)
  PROVE  IInv'
  <1>1. Base /\ Stored
    BY DEF IInv
  <1>2. Busy(c) /\ at[c] \in {"clearing", "unpacking", "marking", "listing"}
    BY DEF ClearProject, Unpack, MarkProject, ListProject, Busy, Over
  <1>3. /\ Op(work[c].task) = Step(c).op /\ DOMAIN work[c] = Fields /\ ~work[c].failed
        /\ at[c] # "listing" => Op(work[c].task) = "decode"
        /\ Op(work[c].task) \notin {"patch", "sign", "trace", "write"}
    BY <1>1, <1>2, OpAt, AtWorkFacts
  <1>4. {"unpacking", "marking", "listing"} \subseteq Spots \ (EditSpots \cup TraceSpots \cup {"saving"})
    BY DEF Spots, DecodeSpots, EditSpots, TraceSpots, OtherSpots
  <1>5. Op(work[c].task) = "decode" => Edits(work[c].task)
    BY DEF Edits
  <1>6. CASE ListProject(c)
    <2>1. /\ Throws(c) \/ \E result : Returns(c, result)
          /\ disk' = disk /\ project' = project /\ UNCHANGED <<keystore, flavor, captures>>
      BY <1>6 DEF ListProject, files, packages, decoded
    <2>2. Ordinary(c)
      BY <2>1, <1>1, <1>2, <1>3, EndsOrdinarily
    <2> QED BY <2>1, <2>2, OrdinarySafe
  <1>7. CASE ClearProject(c) \/ Unpack(c) \/ MarkProject(c)
    <2>1. PICK place \in {"unpacking", "marking", "listing"} : Await(c, place, work[c])
      BY <1>7 DEF ClearProject, Unpack, MarkProject
    <2>2. Op(work[c].task) = "decode"
      BY <1>3, <1>7 DEF ClearProject, Unpack, MarkProject
    <2>3. disk' = disk /\ UNCHANGED <<keystore, flavor, captures>>
      BY <1>7 DEF ClearProject, Unpack, MarkProject, packages
    <2>4. Fitting(Step(c).op, place)
      BY <2>2, <1>3, FitsOn
    <2>5. Ordinary(c)
      BY <2>1, <2>2, <2>3, <2>4, <1>1, <1>2, <1>3, <1>4, GoesOnOrdinarily
    <2>6. /\ DOMAIN project' = DOMAIN project
          /\ project'.made \in {project.made, 0, work[c].task}
      <3> USE DEF Stored
      <3>1. CASE ClearProject(c)
        BY <1>1, <3>1 DEF ClearProject, NoProject
      <3>2. CASE Unpack(c)
        BY <1>1, <3>2 DEF Unpack
      <3>3. CASE MarkProject(c)
        BY <1>1, <3>3 DEF MarkProject
      <3> QED BY <1>7, <3>1, <3>2, <3>3
    <2> QED BY <2>2, <2>3, <2>5, <2>6, <1>5, ProjectSafe
  <1> QED BY <1>6, <1>7

LEMMA ReaderSafe ==
  ASSUME IInv, NEW c \in Chains,
         \/ InstallApk(c) \/ CommandEnds(c) \/ Decompiled(c) \/ Looked(c) \/ AnswersAbsent(c) \/ Searched(c)
  PROVE  IInv'
  <1>1. Base
    BY DEF IInv
  <1>2. Busy(c) /\ at[c] \in {"installing", "commanding", "decompiling", "looking", "answering", "searching"}
    BY DEF InstallApk, CommandEnds, Decompiled, Looked, AnswersAbsent, Searched, Busy, Over
  <1>3. /\ Op(work[c].task) = Step(c).op /\ DOMAIN work[c] = Fields /\ ~work[c].failed
        /\ Op(work[c].task) \notin {"patch", "sign", "trace", "write"}
        /\ at[c] = "searching" => Step(c).op \in {"search", "scan-secrets"}
    BY <1>1, <1>2, OpAt, AtWorkFacts
  <1>4. /\ disk' = disk /\ project' = project /\ UNCHANGED <<keystore, flavor, captures>>
        /\ \/ Throws(c)
           \/ \E result : Returns(c, result)
           \/ Step(c).op = "scan-secrets" /\ \E x : Await(c, "saving", [work[c] EXCEPT !.text = x])
    <2>1. CASE InstallApk(c) \/ CommandEnds(c)
      BY <2>1 DEF InstallApk, CommandEnds, packages, decoded
    <2>2. CASE Decompiled(c)
      BY <2>2 DEF Decompiled, packages
    <2>3. CASE Looked(c) \/ AnswersAbsent(c)
      BY <2>3 DEF Looked, AnswersAbsent, files, packages, decoded
    <2>4. CASE Searched(c)
      <3>1. disk' = disk /\ project' = project /\ UNCHANGED <<keystore, flavor, captures>>
        BY <2>4 DEF Searched, files, packages, decoded
      <3>2. Step(c).op \in {"search", "scan-secrets"}
        BY <1>3, <2>4 DEF Searched
      <3> QED BY <2>4, <3>1, <3>2 DEF Searched
    <2> QED BY <2>1, <2>2, <2>3, <2>4
  <1>5. Ordinary(c)
    <2>1. CASE Throws(c) \/ \E result : Returns(c, result)
      BY <2>1, <1>1, <1>2, <1>3, <1>4, EndsOrdinarily
    <2>2. CASE Step(c).op = "scan-secrets" /\ \E x : Await(c, "saving", [work[c] EXCEPT !.text = x])
      <3>1. PICK x : Await(c, "saving", [work[c] EXCEPT !.text = x])
        BY <2>2
      <3> DEFINE w == [work[c] EXCEPT !.text = x]
      <3>2. DOMAIN w = Fields /\ w.task = work[c].task /\ w.out = work[c].out /\ ~w.failed
        BY <1>3, Locals
      <3>3. "saving" \in Spots \ (EditSpots \cup TraceSpots) /\ Fitting(Step(c).op, "saving")
        BY <2>2, FitsOn DEF Spots, EditSpots, TraceSpots
      <3> HIDE DEF w
      <3> QED BY <2>2, <3>1, <3>2, <3>3, <1>1, <1>2, <1>3, <1>4, GoesOnOrdinarily DEF w
    <2> QED BY <1>4, <2>1, <2>2
  <1> QED BY <1>4, <1>5, OrdinarySafe

-----------------------------------------------------------------------------
(* Files that are opened, written and removed.                             *)

LEMMA FilePut ==
  ASSUME NEW o, NEW x, disk' = Put(disk, o, x)
  PROVE  /\ o \in DOMAIN disk' /\ disk'[o] = x
         /\ \A p : p # o => SameFile(p)
         /\ \A p \in DOMAIN disk' : disk'[p] = x \/ \E q \in DOMAIN disk : disk'[p] = disk[q]
  <1>1. DOMAIN disk' = DOMAIN disk \cup {o} /\ disk'[o] = x
    BY DEF Put
  <1>2. \A p \in DOMAIN disk : p # o => disk'[p] = disk[p]
    BY DEF Put
  <1>3. \A p : p # o => SameFile(p)
    BY <1>1, <1>2 DEF SameFile
  <1>4. ASSUME NEW p \in DOMAIN disk' PROVE disk'[p] = x \/ \E q \in DOMAIN disk : disk'[p] = disk[q]
    <2>1. CASE p = o
      BY <2>1, <1>1
    <2>2. CASE p # o
      BY <2>2, <1>1, <1>2
    <2> QED BY <2>1, <2>2
  <1> QED BY <1>1, <1>3, <1>4

LEMMA FileOpened ==
  ASSUME NEW o, NEW t, disk' = Opened(o, t)
  PROVE  /\ o \in DOMAIN disk' /\ disk'[o].by = t /\ ~Whole(o)'
         /\ \A p : p # o => SameFile(p)
         /\ \A p \in DOMAIN disk' : disk'[p].by = t \/ \E q \in DOMAIN disk : disk'[p] = disk[q]
  <1>1. Partial(t).by = t /\ ~Partial(t).whole
    BY DEF Partial, Apk
  <1>2. disk' = Put(disk, o, Partial(t))
    BY DEF Opened
  <1>3. /\ o \in DOMAIN disk' /\ disk'[o] = Partial(t)
        /\ \A p : p # o => SameFile(p)
        /\ \A p \in DOMAIN disk' : disk'[p] = Partial(t) \/ \E q \in DOMAIN disk : disk'[p] = disk[q]
    <2> HIDE DEF Partial
    <2> QED BY <1>2, FilePut
  <1>4. ~Whole(o)'
    BY <1>1, <1>3 DEF Whole
  <1>5. \A p \in DOMAIN disk' : disk'[p].by = t \/ \E q \in DOMAIN disk : disk'[p] = disk[q]
    BY <1>1, <1>3
  <1> QED BY <1>1, <1>3, <1>4, <1>5

LEMMA FileClosed ==
  ASSUME NEW o, NEW t, NEW f, f.by = 0, disk' = Closed(o, t, f)
  PROVE  /\ o \in DOMAIN disk /\ disk[o].by = t => o \in DOMAIN disk' /\ disk'[o] = f
         /\ \A p : p # o => SameFile(p)
         /\ \A p \in DOMAIN disk' : disk'[p].by = 0 \/ \E q \in DOMAIN disk : disk'[p] = disk[q]
  <1>1. CASE o \notin DOMAIN disk
    BY <1>1 DEF Closed, SameFile
  <1>2. CASE o \in DOMAIN disk
    <2> PICK g : g = IF disk[o].by = t THEN f ELSE Partial(0)
      OBVIOUS
    <2>1. disk' = Put(disk, o, g)
      BY <1>2 DEF Closed
    <2>2. g.by = 0 /\ (disk[o].by = t => g = f)
      BY DEF Partial, Apk
    <2>3. /\ o \in DOMAIN disk' /\ disk'[o] = g
          /\ \A p : p # o => SameFile(p)
          /\ \A p \in DOMAIN disk' : disk'[p] = g \/ \E q \in DOMAIN disk : disk'[p] = disk[q]
      BY <2>1, FilePut
    <2>4. \A p \in DOMAIN disk' : disk'[p].by = 0 \/ \E q \in DOMAIN disk : disk'[p] = disk[q]
      BY <2>2, <2>3
    <2> QED BY <2>2, <2>3, <2>4
  <1> QED BY <1>1, <1>2

LEMMA FileRemoved ==
  ASSUME NEW o, disk' = Removed(o)
  PROVE  /\ ~Whole(o)'
         /\ \A p : p # o => SameFile(p)
         /\ \A p \in DOMAIN disk' : \E q \in DOMAIN disk : disk'[p] = disk[q]
  <1>1. DOMAIN disk' = DOMAIN disk \ {o} /\ \A p \in DOMAIN disk' : disk'[p] = disk[p]
    BY DEF Removed
  <1>2. ~Whole(o)'
    BY <1>1 DEF Whole
  <1>3. \A p : p # o => SameFile(p)
    BY <1>1 DEF SameFile
  <1>4. ASSUME NEW p \in DOMAIN disk' PROVE \E q \in DOMAIN disk : disk'[p] = disk[q]
    BY <1>1
  <1> QED BY <1>2, <1>3, <1>4

\* A step of such a handler that writes or removes its output.
LEMMA OutputSafe ==
  ASSUME IInv, NEW c \in Chains, Ordinary(c), project' = project,
         \A p : p # work[c].out => SameFile(p),
         \A p \in DOMAIN disk' : \/ disk'[p].by \in {0, work[c].task}
                                 \/ \E q \in DOMAIN disk : disk'[p] = disk[q],
         \A t \in Nat : Whole(AlignedPath(t))' => Whole(AlignedPath(t))
  PROVE  IInv'
  <1> PICK u : u = work[c].task
    OBVIOUS
  <1>1. /\ Base /\ Stored /\ Edited /\ Records /\ Signatures
        /\ Busy(c) /\ Steps(c) /\ Base' /\ Plain(c)
        /\ saved' = saved /\ scripts' = scripts /\ keystore' = keystore /\ flavor' = flavor
    BY DEF IInv, Ordinary, captures
  <1>2. Edited'
    BY <1>1, EditedPlain DEF Alike
  <1>3. Records'
    BY <1>1, RecordsPlain DEF Ordinary
  <1>4. Signatures'
    BY <1>1, SignaturesPlain DEF Ordinary
  <1>5. Stored'
    BY <1>1, StoredStep
  <1> QED BY <1>1, <1>2, <1>3, <1>4, <1>5 DEF IInv

\* Builds: the APK that is written is no signed and no aligned one.
LEMMA BuildSafe ==
  ASSUME IInv, NEW c \in Chains, Pack(c) \/ Assemble(c)
  PROVE  IInv'
  <1> PICK u, o : u = work[c].task /\ o = work[c].out
    OBVIOUS
  <1>1. Base
    BY DEF IInv
  <1>2. Busy(c) /\ at[c] \in {"packing", "assembling"}
    BY DEF Pack, Assemble, Busy, Over
  <1>3. /\ Op(u) = "build" /\ Step(c).op = "build" /\ DOMAIN work[c] = Fields /\ ~work[c].failed
        /\ u \in Tasks /\ log[u].out = o
    BY <1>1, <1>2, OpAt, AtWorkFacts
  <1>4. o[1] = "build"
    BY <1>1, <1>3 DEF Base, Logged
  <1>5. project' = project /\ UNCHANGED <<keystore, flavor, captures>>
    BY DEF Pack, Assemble, decoded
  <1>6. Ordinary(c)
    <2>1. CASE Pack(c)
      <3>1. PICK x : Await(c, "assembling", [work[c] EXCEPT !.text = x])
        BY <2>1 DEF Pack
      <3> DEFINE w == [work[c] EXCEPT !.text = x]
      <3>2. DOMAIN w = Fields /\ w.task = work[c].task /\ w.out = work[c].out /\ ~w.failed
        BY <1>3, Locals
      <3>3. "assembling" \in Spots \ (EditSpots \cup TraceSpots) /\ Fitting(Step(c).op, "assembling")
        BY <1>3, FitsOn DEF Spots, BuildSpots, EditSpots, TraceSpots
      <3> HIDE DEF w
      <3> QED BY <3>1, <3>2, <3>3, <1>1, <1>2, <1>3, <1>5, GoesOnOrdinarily DEF w
    <2>2. CASE Assemble(c)
      <3>1. \E result : Returns(c, result)
        BY <2>2 DEF Assemble
      <3> QED BY <3>1, <1>1, <1>2, <1>3, <1>5, EndsOrdinarily
    <2> QED BY <2>1, <2>2
  <1>7. /\ \A p : p # o => SameFile(p)
        /\ \A p \in DOMAIN disk' : disk'[p].by \in {0, u} \/ \E q \in DOMAIN disk : disk'[p] = disk[q]
    <2>1. CASE Pack(c)
      <3>1. disk' = Opened(o, u)
        BY <2>1 DEF Pack
      <3> QED BY <3>1, FileOpened
    <2>2. CASE Assemble(c)
      <3> PICK f : f = Apk(work[c].text)
        OBVIOUS
      <3>1. disk' = Closed(o, u, f) /\ f.by = 0
        BY <2>2 DEF Assemble, Apk
      <3> QED BY <3>1, FileClosed
    <2> QED BY <2>1, <2>2
  <1>8. \A t \in Nat : Whole(AlignedPath(t))' => Whole(AlignedPath(t))
    <2>1. \A t \in Nat : AlignedPath(t) # o
      BY <1>4 DEF AlignedPath
    <2> QED BY <2>1, <1>7 DEF Whole, SameFile
  <1> QED BY <1>5, <1>6, <1>7, <1>8, OutputSafe

LEMMA DeleteSafe ==
  ASSUME IInv, NEW c \in Chains, Deleted(c)
  PROVE  IInv'
  <1> PICK u, o : u = work[c].task /\ o = work[c].out
    OBVIOUS
  <1>1. Base /\ Stored
    BY DEF IInv
  <1>2. Busy(c) /\ at[c] = "deleting"
    BY DEF Deleted, Busy, Over
  <1>3. Op(u) = "delete" /\ log[u].out = o
    BY <1>1, <1>2, OpAt, AtWorkFacts
  <1>4. UNCHANGED <<keystore, flavor, captures>> /\ \E result : Returns(c, result)
    BY DEF Deleted
  <1>5. Ordinary(c)
    BY <1>1, <1>2, <1>3, <1>4, EndsOrdinarily
  <1>6. CASE o = ProjectDir
    <2>1. disk' = disk /\ project' = NoProject
      BY <1>6 DEF Deleted
    <2>2. Edits(u) /\ Op(u) # "patch"
      BY <1>3, <1>6 DEF Edits
    <2>3. DOMAIN project' = DOMAIN project /\ project'.made = 0
      BY <2>1, <1>1 DEF NoProject, Stored
    <2> QED BY <2>1, <2>2, <2>3, <1>5, ProjectSafe
  <1>7. CASE o # ProjectDir
    <2>1. disk' = Removed(o) /\ project' = project
      BY <1>7 DEF Deleted
    <2>2. /\ ~Whole(o)' /\ \A p : p # o => SameFile(p)
          /\ \A p \in DOMAIN disk' : \E q \in DOMAIN disk : disk'[p] = disk[q]
      BY <2>1, FileRemoved
    <2>3. ASSUME NEW t \in Nat, Whole(AlignedPath(t))' PROVE Whole(AlignedPath(t))
      <3>1. AlignedPath(t) # o
        <4> PICK p : p = AlignedPath(t)
          OBVIOUS
        <4> QED BY <2>2, <2>3 DEF Whole
      <3> QED BY <3>1, <2>2, <2>3 DEF Whole, SameFile
    <2> QED BY <2>1, <2>2, <2>3, <1>5, OutputSafe
  <1> QED BY <1>6, <1>7

-----------------------------------------------------------------------------
(* Patches, and writes of the project's file.                              *)

LEMMA PatchText ==
  ASSUME NEW text, NEW s, Patchable(text, s)
  PROVE  /\ text # << >>
         /\ Places(Patched(text, s), s.replace) # {}
         /\ \A x : Places(text, x) # {} /\ x # s.find => Places(Patched(text, s), x) # {}
  <1>1. Places(text, s.find) # {}
    <2>1. Cardinality({}) = 0
      BY FS_EmptySet
    <2> QED BY <2>1 DEF Patchable
  <1>2. text # << >>
    BY <1>1 DEF Places
  <1>3. Places(Patched(text, s), s.replace) # {}
    <2>1. PICK i \in DOMAIN text : text[i] = s.find
      BY <1>1 DEF Places
    <2>2. i \in DOMAIN Patched(text, s) /\ Patched(text, s)[i] = s.replace
      BY <2>1 DEF Patched
    <2> QED BY <2>2 DEF Places
  <1>4. ASSUME NEW x, Places(text, x) # {}, x # s.find PROVE Places(Patched(text, s), x) # {}
    <2>1. PICK i \in DOMAIN text : text[i] = x
      BY <1>4 DEF Places
    <2>2. i \in DOMAIN Patched(text, s) /\ Patched(text, s)[i] = x
      BY <2>1, <1>4 DEF Patched
    <2> QED BY <2>2 DEF Places
  <1> QED BY <1>2, <1>3, <1>4

\* A step that edits and is not sign's: the files are as they were.
EditingStep(c) ==
  /\ Busy(c) /\ Steps(c) /\ Base' /\ Op(work[c].task) \in {"patch", "write"}
  /\ Op(work[c].task)' = Op(work[c].task)
  /\ at'[c] \notin {"filling", "launching", "tracing"}
  /\ UNCHANGED <<packages, captures>>
  /\ DOMAIN project' = DOMAIN project /\ project'.made = project.made

LEMMA EditingSafe ==
  ASSUME IInv, NEW c \in Chains, EditingStep(c), Edited'
  PROVE  IInv'
  <1> PICK u : u = work[c].task
    OBVIOUS
  <1>1. /\ Base /\ Stored /\ Records /\ Signatures
        /\ Busy(c) /\ Steps(c) /\ Base' /\ Op(u) \in {"patch", "write"}
        /\ disk' = disk /\ saved' = saved /\ scripts' = scripts /\ keystore' = keystore /\ flavor' = flavor
    BY DEF IInv, EditingStep, packages, captures
  <1>2. Records'
    BY <1>1, RecordsPlain DEF EditingStep
  <1>3. Signatures'
    BY <1>1, SignaturesPlain DEF SameFile, Whole
  <1>4. Stored'
    BY <1>1, StoredStep DEF EditingStep
  <1> QED BY <1>1, <1>2, <1>3, <1>4 DEF IInv

\* A write excuses whatever was patched before it or meanwhile.
LEMMA WriteSafe ==
  ASSUME IInv, NEW c \in Chains, EditingStep(c), Op(work[c].task) = "write",
         at'[c] = "writing" => StillOpen(c)'
  PROVE  IInv'
  <1> PICK u : u = work[c].task
    OBVIOUS
  <1>1. /\ Base /\ Stored /\ Edited /\ Busy(c) /\ Steps(c) /\ Base' /\ Op(u) = "write" /\ Op(u)' = "write"
        /\ saved' = saved /\ u \in Tasks /\ work'[c].task = u
    BY AtWorkFacts DEF IInv, EditingStep, captures, Op, Steps
  <1>2. Edits(u)
    BY <1>1 DEF Edits
  <1>3. Edit(c)
    BY <1>1, <1>2 DEF Edit
  <1>4. \A t \in Tasks \ {u} : Excused(t)
    BY <1>1, <1>2, Concurrent DEF Excused
  <1>5. Patching(c)'
    <2>1. at'[c] \in EditSpots \cup {"saving"} => Step(c)'.op = "write"
      <3>1. SUFFICES ASSUME at'[c] \in EditSpots \cup {"saving"} PROVE Step(c)'.op = "write"
        OBVIOUS
      <3>2. Busy(c)'
        BY <3>1 DEF Busy, Over, EditSpots
      <3> QED BY <3>2, <1>1 DEF Base, Thread, AtWork, Op
    <2> QED BY <2>1 DEF Patching
  <1>6. Keeps(u)'
    BY <1>1 DEF Keeps, Made
  <1>7. Edited'
    BY <1>1, <1>3, <1>4, <1>5, <1>6, EditedStep
  <1> QED BY <1>7, EditingSafe

LEMMA EditLocals ==
  ASSUME Base, NEW c \in Chains, Busy(c), Op(work[c].task) \in {"patch", "write"},
         NEW place \in {"opening", "writing"} \cup {"saving"}, NEW w, Await(c, place, w),
         place = "saving" => Op(work[c].task) = "patch",
         DOMAIN w = Fields, w.task = work[c].task, w.out = work[c].out, ~w.failed,
         UNCHANGED <<packages, captures>>,
         DOMAIN project' = DOMAIN project, project'.made = project.made
  PROVE  /\ EditingStep(c) /\ at'[c] = place /\ work'[c] = w /\ Step(c)' = Step(c) /\ log' = log
         /\ log[work[c].task].outcome = "running"
  <1>1. /\ Op(work[c].task) = Step(c).op /\ log[work[c].task].outcome = "running" /\ work[c].task \in Tasks
    BY AtWorkFacts
  <1>2. Fitting(Step(c).op, place)
    BY <1>1, FitsOn
  <1>3. place \in Spots
    BY DEF Spots, EditSpots
  <1>4. Base' /\ Steps(c) /\ at'[c] = place /\ work'[c] = w /\ Step(c)' = Step(c) /\ log' = log
    BY <1>1, <1>2, <1>3, AwaitSteps
  <1>5. Op(work[c].task)' = Op(work[c].task)
    BY <1>4 DEF Op, Steps
  <1> QED BY <1>1, <1>4, <1>5 DEF EditingStep

LEMMA MakeParentSafe ==
  ASSUME IInv, NEW c \in Chains, MakeParent(c)
  PROVE  IInv'
  <1>1. Base /\ Stored
    BY DEF IInv
  <1>2. Busy(c) /\ at[c] = "making"
    BY DEF MakeParent, Busy, Over
  <1>3. Op(work[c].task) = "write" /\ DOMAIN work[c] = Fields /\ ~work[c].failed
    BY <1>1, <1>2, OpAt, AtWorkFacts
  <1>4. /\ Await(c, "opening", work[c]) /\ UNCHANGED <<packages, captures>>
        /\ DOMAIN project' = DOMAIN project /\ project'.made = project.made
    BY <1>1 DEF MakeParent, Stored
  <1>5. EditingStep(c) /\ at'[c] = "opening"
    BY <1>1, <1>2, <1>3, <1>4, EditLocals
  <1> QED BY <1>3, <1>5, WriteSafe

\* Nothing is found, or the file cannot be read.
LEMMA ResolveSafe ==
  ASSUME IInv, NEW c \in Chains, ResolveSource(c)
  PROVE  IInv'
  <1>1. Base
    BY DEF IInv
  <1>2. Busy(c) /\ at[c] = "resolving"
    BY DEF ResolveSource, Busy, Over
  <1>3. Op(work[c].task) = "patch" /\ Step(c).op = "patch" /\ DOMAIN work[c] = Fields /\ ~work[c].failed
    BY <1>1, <1>2, OpAt, AtWorkFacts
  <1>4. disk' = disk /\ project' = project /\ UNCHANGED <<keystore, flavor, captures>>
    BY DEF ResolveSource, files, packages, decoded
  <1>5. Ordinary(c)
    <2>1. CASE Throws(c)
      BY <2>1, <1>1, <1>2, <1>3, <1>4, EndsOrdinarily
    <2>2. CASE Await(c, "reading", work[c])
      <3>1. "reading" \in Spots \ (EditSpots \cup TraceSpots) /\ Fitting(Step(c).op, "reading")
        BY <1>3, FitsOn DEF Spots, PatchSpots, EditSpots, TraceSpots
      <3> QED BY <2>2, <3>1, <1>1, <1>2, <1>3, <1>4, GoesOnOrdinarily
    <2> QED BY <2>1, <2>2 DEF ResolveSource
  <1> QED BY <1>4, <1>5, OrdinarySafe

\* A patch whose turn it is not yet to have made anything.
LEMMA Unmade ==
  ASSUME Base, Base', NEW c \in Chains, Busy(c), Steps(c), log' = log, at'[c] # "saving",
         log[work[c].task].outcome = "running"
  PROVE  Keeps(work[c].task)'
  <1> PICK u : u = work[c].task
    OBVIOUS
  <1>1. ~Made(u)'
    BY MadeByItself
  <1>2. work'[c].task = u
    BY DEF Steps
  <1> QED BY <1>1, <1>2 DEF Keeps, Made

LEMMA ReadSafe ==
  ASSUME IInv, NEW c \in Chains, ReadSource(c)
  PROVE  IInv'
  <1> PICK u, s, text : u = work[c].task /\ s = Step(c) /\ text = project.text
    OBVIOUS
  <1>1. Base /\ Stored /\ Edited
    BY DEF IInv
  <1>2. Busy(c) /\ at[c] = "reading"
    BY DEF ReadSource, Busy, Over
  <1>3. /\ Op(u) = "patch" /\ s.op = "patch" /\ DOMAIN work[c] = Fields /\ ~work[c].failed
        /\ u \in Tasks /\ log[u].step = s
    BY <1>1, <1>2, OpAt, AtWorkFacts
  <1>4. disk' = disk /\ project' = project /\ UNCHANGED <<packages, captures>>
    BY DEF ReadSource, files, packages, decoded
  <1>5. CASE Throws(c)
    <2>1. Ordinary(c)
      BY <1>1, <1>2, <1>3, <1>4, <1>5, EndsOrdinarily DEF packages
    <2> QED BY <2>1, <1>4, OrdinarySafe
  <1>6. CASE ~Throws(c)
    <2> DEFINE w == [work[c] EXCEPT !.before = text, !.text = Patched(text, s)]
    <2>1. Patchable(text, s) /\ Await(c, "opening", w)
      BY <1>6 DEF ReadSource
    <2>2. /\ DOMAIN w = Fields /\ w.task = u /\ w.out = work[c].out /\ ~w.failed
          /\ w.text = Patched(text, s) /\ w.before = text
      BY <1>3, Locals
    <2> HIDE DEF w
    <2>3. /\ EditingStep(c) /\ at'[c] = "opening" /\ work'[c] = w /\ Step(c)' = s /\ log' = log
          /\ log[u].outcome = "running"
      BY <2>1, <2>2, <1>1, <1>2, <1>3, <1>4, EditLocals
    <2>4. Steps(c) /\ Base'
      BY <2>3 DEF EditingStep
    <2>5. Edit(c)
      BY <1>4 DEF Edit, Alike
    <2>6. ASSUME NEW t \in Tasks \ {u}, Made(t), ~Excused(t) PROVE Has(w.text, t)
      <3>1. Has(text, t)
        <4>1. Keeps(t)
          BY <1>1 DEF Edited
        <4>2. text # << >>
          BY <2>1, PatchText
        <4> QED BY <4>1, <4>2, <2>6 DEF Keeps
      <3>2. log[t].step.replace # s.find
        <4>1. u > t \/ Overlap(t, u)
          BY <1>1, <1>2, Concurrent
        <4> QED BY <4>1, <2>6, <1>3 DEF Excused
      <3> QED BY <3>1, <3>2, <2>1, <2>2, PatchText DEF Has
    <2>7. Patching(c)'
      BY <2>1, <2>2, <2>3 DEF Patching
    <2>8. Keeps(work[c].task)'
      BY <2>3, <2>4, <1>1, <1>2, Unmade
    <2>9. Keeps(u)'
      <3>1. ~Made(u)'
        BY <2>3, <2>4, <1>1, <1>2, MadeByItself
      <3> QED BY <3>1 DEF Keeps
    <2>10. \A t \in Tasks \ {u} : Made(t) /\ ~Excused(t) /\ at'[c] \in EditSpots => Has(work'[c].text, t)
      BY <2>3, <2>6 DEF Has
    <2>11. saved' = saved
      BY <1>4 DEF captures
    <2>12. Edited'
      BY <2>4, <2>5, <2>7, <2>9, <2>10, <2>11, <1>1, <1>2, EditedStep
    <2> QED BY <2>3, <2>12, EditingSafe
  <1> QED BY <1>5, <1>6

LEMMA OpenSourceSafe ==
  ASSUME IInv, NEW c \in Chains, OpenSource(c)
  PROVE  IInv'
  <1> PICK u : u = work[c].task
    OBVIOUS
  <1>1. Base /\ Stored /\ Edited
    BY DEF IInv
  <1>2. Busy(c) /\ at[c] = "opening" /\ at[c] \in EditSpots
    BY DEF OpenSource, Busy, Over, EditSpots
  <1>3. /\ Op(u) \in {"patch", "write"} /\ Op(u) = Step(c).op /\ DOMAIN work[c] = Fields /\ ~work[c].failed
        /\ u \in Tasks
    BY <1>1, <1>2, OpAt, AtWorkFacts
  <1>4. UNCHANGED <<packages, captures>>
    BY DEF OpenSource
  <1>5. CASE Throws(c) /\ project' = project
    <2>1. Ordinary(c)
      BY <1>1, <1>2, <1>3, <1>4, <1>5, EndsOrdinarily DEF packages
    <2> QED BY <2>1, <1>4, <1>5, OrdinarySafe DEF packages
  <1>6. CASE ~(Throws(c) /\ project' = project)
    <2> PICK m : m = project.made
      OBVIOUS
    <2> DEFINE w == [work[c] EXCEPT !.made = m]
    <2>1. /\ project.exists /\ Await(c, "writing", w)
          /\ project' = [project EXCEPT !.source = TRUE, !.text = << >>]
      BY <1>6 DEF OpenSource
    <2>2. /\ DOMAIN w = Fields /\ w.task = u /\ w.out = work[c].out /\ ~w.failed
          /\ w.text = work[c].text /\ w.before = work[c].before /\ w.made = m
      BY <1>3, Locals
    <2> HIDE DEF w
    <2>3. /\ DOMAIN project' = DOMAIN project /\ project'.made = m
          /\ project'.exists /\ project'.source /\ project'.text = << >>
      BY <2>1, <1>1 DEF Stored
    <2>4. /\ EditingStep(c) /\ at'[c] = "writing" /\ work'[c] = w /\ Step(c)' = Step(c) /\ log' = log
          /\ log[u].outcome = "running"
      BY <2>1, <2>2, <2>3, <1>1, <1>2, <1>3, <1>4, EditLocals
    <2>5. StillOpen(c)'
      BY <2>2, <2>3, <2>4 DEF StillOpen
    <2>6. CASE Op(u) = "write"
      BY <2>4, <2>5, <2>6, WriteSafe
    <2>7. CASE Op(u) = "patch"
      <3>1. Steps(c) /\ Base'
        BY <2>4 DEF EditingStep
      <3>2. Edit(c)
        BY <2>3, <2>7, <1>2 DEF Edit, Patches
      <3>3. Patching(c)'
        <4>1. /\ Patchable(work[c].before, Step(c))
              /\ work[c].text = Patched(work[c].before, Step(c))
          BY <2>7, <1>1, <1>2, <1>3 DEF Edited, Patching
        <4>2. Patchable(work[c].before, Step(c))' /\ work'[c].text = Patched(work[c].before, Step(c))'
          BY <4>1, <2>2, <2>4
        <4> QED BY <4>2, <2>4, <2>5 DEF Patching
      <3>4. Keeps(u)'
        <4>1. ~Made(u)'
          BY <2>4, <3>1, <1>1, <1>2, MadeByItself
        <4> QED BY <4>1 DEF Keeps
      <3>5. ASSUME NEW t \in Tasks \ {u}, Made(t), ~Excused(t) PROVE Has(work'[c].text, t)
        <4>1. Has(work[c].text, t)
          BY <3>5, <1>1, <1>2 DEF Edited, Keeps
        <4> QED BY <4>1, <2>2, <2>4
      <3>6. saved' = saved
        BY <1>4 DEF captures
      <3>7. Edited'
        BY <3>1, <3>2, <3>3, <3>4, <3>5, <3>6, <1>1, <1>2, EditedStep
      <3> QED BY <2>4, <3>7, EditingSafe
    <2> QED BY <2>6, <2>7, <1>3
  <1> QED BY <1>5, <1>6

LEMMA WriteSourceSafe ==
  ASSUME IInv, NEW c \in Chains, WriteSource(c)
  PROVE  IInv'
  <1> PICK u, s, text : u = work[c].task /\ s = Step(c) /\ text = work[c].text
    OBVIOUS
  <1>1. Base /\ Stored /\ Edited
    BY DEF IInv
  <1>2. Busy(c) /\ at[c] = "writing" /\ at[c] \in EditSpots
    BY DEF WriteSource, Busy, Over, EditSpots
  <1>3. /\ Op(u) \in {"patch", "write"} /\ Op(u) = s.op /\ DOMAIN work[c] = Fields /\ ~work[c].failed
        /\ u \in Tasks /\ log[u].step = s
    BY <1>1, <1>2, OpAt, AtWorkFacts
  <1>4. UNCHANGED <<packages, captures>> /\ saved' = saved
    BY DEF WriteSource, captures
  <1>5. /\ DOMAIN project' = DOMAIN project /\ project'.made = project.made
        /\ project'.exists = project.exists /\ project'.source = project.source
        /\ project'.text \in {text, project.text} /\ (StillOpen(c) => project'.text = text)
    BY <1>1 DEF WriteSource, Stored
  <1>6. CASE s.op # "patch"
    <2>1. PICK result : Returns(c, result)
      BY <1>6 DEF WriteSource
    <2>2. Base' /\ Steps(c) /\ at'[c] \in {"ended", "between"}
      BY <2>1, <1>1, <1>2, ReturnSteps
    <2>3. Op(u)' = Op(u)
      BY <2>2, <1>3 DEF Steps, Op
    <2>4. EditingStep(c) /\ at'[c] # "writing"
      <3>1. at'[c] \notin {"filling", "launching", "tracing"} /\ at'[c] # "writing"
        BY <2>2
      <3>2. Op(work[c].task)' = Op(work[c].task)
        BY <2>2, <1>3 DEF Steps, Op
      <3> QED BY <3>1, <3>2, <2>2, <1>2, <1>3, <1>4, <1>5 DEF EditingStep
    <2> QED BY <2>4, <1>3, <1>6, WriteSafe
  <1>7. CASE s.op = "patch"
    <2>1. Await(c, "saving", work[c])
      BY <1>7 DEF WriteSource
    <2>2. /\ EditingStep(c) /\ at'[c] = "saving" /\ work'[c] = work[c] /\ Step(c)' = s /\ log' = log
          /\ log[u].outcome = "running"
      BY <2>1, <1>1, <1>2, <1>3, <1>4, <1>5, <1>7, EditLocals
    <2>3. Steps(c) /\ Base' /\ Grown /\ Op(u) = "patch" /\ Op(u)' = "patch"
      BY <2>2, <1>3, <1>7, StepsGrow DEF EditingStep
    <2>4. Edit(c)
      BY <2>3, <1>2, <1>5 DEF Edit, Patches
    <2>5. /\ Patchable(work[c].before, s) /\ text = Patched(work[c].before, s)
          /\ StillOpen(c) \/ Displaced(u)
      BY <1>1, <1>2, <1>7 DEF Edited, Patching
    <2>6. Displaced(u) => Touched(u) /\ Excused(u)
      BY DEF Displaced, Touched, Excused
    <2>7. (Touched(u) => Touched(u)') /\ (Excused(u) => Excused(u)')
      BY <2>3, <1>3, Kept
    <2>8. Patching(c)'
      <3>1. Patchable(work[c].before, Step(c))' /\ work'[c].text = Patched(work[c].before, Step(c))'
        BY <2>2, <2>5
      <3>2. ~Touched(u)' => project'.text = text
        BY <2>5, <2>6, <2>7, <1>5
      <3>3. ~Touched(work[c].task)' => ~Touched(u)'
        BY <2>2 DEF Touched
      <3> QED BY <3>1, <3>2, <3>3, <2>2 DEF Patching
    <2>9. Keeps(u)'
      <3>1. SUFFICES ASSUME ~Excused(u)'
                     PROVE  /\ Has(project.text, u)'
                            /\ \A d \in Chains : at'[d] \in EditSpots => Has(work[d].text, u)'
        BY DEF Keeps
      <3>2. project'.text = text
        BY <3>1, <2>5, <2>6, <2>7, <1>5
      <3>3. Has(text, u)
        BY <2>5, <1>3, PatchText DEF Has
      <3>4. Has(project.text, u)'
        BY <3>2, <3>3, <2>2 DEF Has
      <3>5. ASSUME NEW d \in Chains, at'[d] \in EditSpots PROVE FALSE
        <4>1. d # c
          BY <3>5, <2>2 DEF EditSpots
        <4>2. at[d] \in EditSpots /\ Busy(d)
          BY <3>5, <4>1, <2>3 DEF Steps, EditSpots, Busy, Over
        <4> PICK v : v = work[d].task
          OBVIOUS
        <4>3. v \in Tasks \ {u} /\ Overlap(u, v)
          BY <4>1, <4>2, <1>1, <1>2, BothAtWork
        <4>4. Op(v) \in {"patch", "write"}
          BY <4>2, <1>1, OpAt DEF EditSpots
        <4>5. Excused(u)
          BY <4>3, <4>4 DEF Excused, Edits
        <4> QED BY <4>5, <2>7, <3>1
      <3> QED BY <3>4, <3>5
    <2>10. at'[c] \notin EditSpots
      BY <2>2 DEF EditSpots
    <2>11. Edited'
      BY <2>3, <2>4, <2>8, <2>9, <2>10, <1>1, <1>2, <1>4, EditedStep
    <2> QED BY <2>2, <2>11, EditingSafe
  <1> QED BY <1>6, <1>7

-----------------------------------------------------------------------------
(* Outputs are saved.                                                      *)

LEMMA PutSaved ==
  ASSUME NEW u, NEW r, saved' = Put(saved, u, r)
  PROVE  /\ DOMAIN saved' = DOMAIN saved \cup {u} /\ saved'[u] = r
         /\ \A t \in DOMAIN saved : t # u => saved'[t] = saved[t]
  BY DEF Put

LEMMA SavedRecord ==
  ASSUME NEW c \in Chains, NEW op, op = Step(c).op
  PROVE  /\ op = "patch" => Record(c) = [before |-> work[c].before, after |-> work[c].text]
         /\ op = "trace" => Record(c) = [ran |-> work[c].text, now |-> work[c].now]
  BY DEF Record

LEMMA SaveSafe ==
  ASSUME IInv, NEW c \in Chains, SaveOutput(c)
  PROVE  IInv'
  <1> PICK u, s, r : u = work[c].task /\ s = Step(c) /\ r = Record(c)
    OBVIOUS
  <1>1. Base /\ Stored /\ Edited /\ Records /\ Signatures
    BY DEF IInv
  <1>2. Busy(c) /\ at[c] = "saving"
    BY DEF SaveOutput, Busy, Over
  <1>3. /\ Op(u) = s.op /\ Op(u) \in {"patch", "trace", "scan-secrets"}
        /\ u \in Tasks /\ log[u].step = s
    BY <1>1, <1>2, OpAt, AtWorkFacts
  <1>4. \E result : Returns(c, result)
    BY DEF SaveOutput
  <1>5. /\ Base' /\ Steps(c) /\ at'[c] \in {"ended", "between"} /\ log'[u].outcome = "done"
        /\ Grown /\ Op(u)' = Op(u) /\ log'[u].step = s /\ work'[c].task = u
    <2>1. /\ Base' /\ Steps(c) /\ at'[c] \in {"ended", "between"} /\ log'[u].outcome = "done"
      BY <1>1, <1>2, <1>4, ReturnSteps
    <2> QED BY <2>1, <1>3, StepsGrow DEF Steps, Op
  <1>6. disk' = disk /\ project' = project /\ scripts' = scripts /\ keystore' = keystore /\ flavor' = flavor
    BY DEF SaveOutput, packages, decoded
  <1>7. \/ saved' = saved
        \/ /\ DOMAIN saved' = DOMAIN saved \cup {u} /\ saved'[u] = r
           /\ \A t \in DOMAIN saved : t # u => saved'[t] = saved[t]
    <2>1. saved' = saved \/ saved' = Put(saved, u, r)
      BY DEF SaveOutput, SavedAs
    <2> QED BY <2>1, PutSaved
  <1>8. (Touched(u) => Touched(u)') /\ (Excused(u) => Excused(u)')
        /\ \A spot, x : Ran(u, spot, x) => Ran(u, spot, x)'
    BY <1>3, <1>5, Kept
  <1>9. Edited'
    <2>1. Edit(c)
      BY <1>6 DEF Edit, Alike
    <2>2. at'[c] \notin EditSpots \cup {"writing", "saving"}
      BY <1>5 DEF EditSpots
    <2>3. Patching(c)'
      BY <2>2 DEF Patching, EditSpots
    <2>4. Keeps(u)'
      <3>1. SUFFICES ASSUME Made(u)', ~Excused(u)' PROVE Keeps(u)'
        BY DEF Keeps
      <3>2. Op(u) = "patch"
        BY <3>1, <1>5 DEF Made
      <3>3. Made(u)
        BY <3>2, <1>2 DEF Made
      <3>4. /\ Has(project.text, u) \/ (project.source /\ project.text = << >>)
            /\ \A d \in Chains : at[d] \in EditSpots => Has(work[d].text, u)
        BY <3>1, <3>3, <1>1, <1>3, <1>8 DEF Edited, Keeps
      <3>5. \A d \in Chains : at'[d] \in EditSpots => Has(work'[d].text, u)
        BY <3>4, <2>2, <1>5 DEF Steps
      <3> QED BY <3>4, <3>5, <1>3, <1>5, <1>6 DEF Keeps, Has
    <2>5. saved' # saved => Latest(u)'
      <3>1. SUFFICES ASSUME saved'[u] = r, Op(u) = "patch", ~Touched(u)' PROVE project'.text = saved'[u].after
        BY <1>5, <1>7 DEF Latest
      <3>2. project.text = work[c].text
        BY <3>1, <1>1, <1>2, <1>3, <1>8 DEF Edited, Patching
      <3>3. r.after = work[c].text
        BY <3>1, <1>3, SavedRecord
      <3> QED BY <3>1, <3>2, <3>3, <1>6
    <2>6. \A t \in DOMAIN saved' : (t \in DOMAIN saved /\ saved'[t] = saved[t]) \/ Latest(t)'
      <3>1. ASSUME NEW t \in DOMAIN saved', t # u PROVE t \in DOMAIN saved /\ saved'[t] = saved[t]
        BY <3>1, <1>7
      <3>2. CASE saved' = saved
        BY <3>2
      <3>3. CASE saved' # saved
        BY <3>1, <3>3, <2>5
      <3> QED BY <3>2, <3>3
    <2>7. \A t \in Tasks \ {u} : Made(t) /\ ~Excused(t) /\ at'[c] \in EditSpots => Has(work'[c].text, t)
      BY <2>2
    <2> QED BY <2>1, <2>3, <2>4, <2>6, <2>7, <1>1, <1>2, <1>5, EditedStep
  <1>10. Records'
    <2>1. Tracing(c)'
      BY <1>5 DEF Tracing
    <2>2. ASSUME saved' # saved PROVE Recorded(u)'
      <3>1. saved'[u] = r
        BY <2>2, <1>7
      <3>2. CASE Op(u) = "patch"
        <4>1. DOMAIN r = {"before", "after"} /\ r.before = work[c].before /\ r.after = work[c].text
          BY <3>2, <1>3, SavedRecord
        <4>2. Patchable(work[c].before, s) /\ work[c].text = Patched(work[c].before, s)
          BY <3>2, <1>1, <1>2, <1>3 DEF Edited, Patching
        <4>3. Patchable(r.before, s) /\ r.after = Patched(r.before, s)
          BY <4>1, <4>2
        <4> QED BY <4>1, <4>3, <3>1, <3>2, <1>3, <1>5 DEF Recorded
      <3>3. CASE Op(u) = "trace"
        <4>1. DOMAIN r = {"ran", "now"} /\ r.ran = work[c].text
          BY <3>3, <1>3, SavedRecord
        <4>2. Ran(u, "saving", r.ran)'
          BY <4>1, <3>3, <1>1, <1>2, <1>3, <1>8 DEF Records, Tracing
        <4>3. Ran(u, "saving", saved[u].ran)'
          BY <4>2, <3>1 DEF Ran
        <4> QED BY <4>1, <4>3, <3>1, <3>3, <1>3, <1>5 DEF Recorded
      <3>4. CASE Op(u) = "scan-secrets"
        BY <3>4, <1>3, <1>5 DEF Recorded
      <3> QED BY <3>2, <3>3, <3>4, <1>3
    <2>3. \A t \in DOMAIN saved' : (t \in DOMAIN saved /\ saved'[t] = saved[t]) \/ Recorded(t)'
      <3>1. ASSUME NEW t \in DOMAIN saved', t # u PROVE t \in DOMAIN saved /\ saved'[t] = saved[t]
        BY <3>1, <1>7
      <3>2. CASE saved' = saved
        BY <3>2
      <3>3. CASE saved' # saved
        BY <3>1, <3>3, <2>2
      <3> QED BY <3>2, <3>3
    <2> QED BY <2>1, <2>3, <1>1, <1>2, <1>5, <1>6, RecordsStep
  <1>11. Signatures'
    <2>1. Op(u) # "sign"
      BY <1>3
    <2> QED BY <2>1, <1>1, <1>2, <1>5, <1>6, SignaturesPlain DEF SameFile, Whole
  <1>12. Stored'
    BY <1>1, <1>2, <1>5, <1>6, <1>7, StoredStep
  <1> QED BY <1>5, <1>9, <1>10, <1>11, <1>12 DEF IInv

-----------------------------------------------------------------------------
(* Traces.                                                                 *)

\* What a trace's step may do to the scripts: empty one, or add its own.
Scripted(c) ==
  \/ scripts' = scripts
  \/ /\ DOMAIN scripts \subseteq DOMAIN scripts'
     /\ \A m \in DOMAIN scripts :
          scripts'[m] \subseteq scripts[m] \cup {log[work[c].task].step.script}

LEMMA TraceMoves ==
  ASSUME IInv, NEW c \in Chains, Busy(c), Op(work[c].task) = "trace",
         Steps(c), Base', Plain(c), Tracing(c)', Scripted(c),
         UNCHANGED <<packages, decoded, saved>>
  PROVE  IInv'
  <1>1. Base /\ Stored /\ Edited /\ Records /\ Signatures
    BY DEF IInv
  <1>2. disk' = disk /\ project' = project /\ saved' = saved /\ keystore' = keystore /\ flavor' = flavor
    BY DEF packages, decoded
  <1>3. Edited'
    BY <1>1, <1>2, EditedPlain DEF Alike
  <1>4. Records'
    BY <1>1, <1>2, RecordsStep DEF Scripted
  <1>5. Signatures'
    BY <1>1, <1>2, SignaturesPlain DEF SameFile, Whole
  <1>6. Stored'
    BY <1>1, <1>2, StoredStep
  <1> QED BY <1>3, <1>4, <1>5, <1>6 DEF IInv

LEMMA TraceStep ==
  ASSUME IInv, NEW c \in Chains, Busy(c), Op(work[c].task) = "trace",
         NEW place \in {"filling", "launching", "tracing", "saving"}, NEW w, Await(c, place, w),
         DOMAIN w = Fields, w.task = work[c].task, w.out = work[c].out, ~w.failed,
         UNCHANGED <<packages, decoded, saved>>,
         place \in {"filling", "launching"} =>
           w.now \in DOMAIN scripts' /\ Ran(work[c].task, place, scripts'[w.now]),
         place \in {"tracing", "saving"} => Ran(work[c].task, place, w.text),
         Scripted(c)
  PROVE  IInv'
  <1> PICK u : u = work[c].task
    OBVIOUS
  <1>1. Base /\ u \in Tasks /\ Op(u) = Step(c).op
    BY AtWorkFacts DEF IInv
  <1>2. Fitting(Step(c).op, place) /\ place \in Spots /\ place \notin EditSpots
    BY <1>1, FitsOn DEF Spots, TraceSpots, EditSpots
  <1>3. Base' /\ Steps(c) /\ at'[c] = place /\ work'[c] = w /\ Step(c)' = Step(c) /\ log' = log /\ Grown
    BY <1>1, <1>2, AwaitSteps, StepsGrow
  <1>4. Plain(c)
    BY <1>2, <1>3 DEF Plain
  <1>5. \A spot, x : Ran(u, spot, x) => Ran(u, spot, x)'
    BY <1>1, <1>3, Kept
  <1>6. place \in {"filling", "launching"} => Ran(work[c].task, at[c], scripts[work[c].now])'
    <2> PICK x : x = scripts'[w.now]
      OBVIOUS
    <2>1. place \in {"filling", "launching"} => Ran(u, place, x)'
      BY <1>5
    <2> QED BY <2>1, <1>3 DEF Ran, Beside
  <1>7. place \in {"tracing", "saving"} => Ran(work[c].task, at[c], work[c].text)'
    <2> PICK x : x = w.text
      OBVIOUS
    <2>1. place \in {"tracing", "saving"} => Ran(u, place, x)'
      BY <1>5
    <2> QED BY <2>1, <1>3 DEF Ran, Beside
  <1>8. Tracing(c)'
    BY <1>6, <1>7, <1>3 DEF Tracing
  <1> QED BY <1>3, <1>4, <1>8, TraceMoves

LEMMA TraceSafe ==
  ASSUME IInv, NEW c \in Chains, OpenScript(c) \/ WriteScript(c) \/ Launch(c) \/ TraceEnds(c)
  PROVE  IInv'
  <1> PICK u, script : u = work[c].task /\ script = log[u].step.script
    OBVIOUS
  <1>1. Base /\ Records
    BY DEF IInv
  <1>2. Busy(c) /\ at[c] \in {"scripting", "filling", "launching", "tracing"}
    BY DEF OpenScript, WriteScript, Launch, TraceEnds, Busy, Over
  <1>3. /\ Op(u) = "trace" /\ Step(c).op = "trace" /\ DOMAIN work[c] = Fields /\ ~work[c].failed
        /\ log[u].step = Step(c) /\ script = Step(c).script
    BY <1>1, <1>2, OpAt, AtWorkFacts
  <1>4. Tracing(c)
    BY <1>1 DEF Records
  <1>5. CASE OpenScript(c)
    <2>1. PICK now : scripts' = Put(scripts, now, {}) /\ Await(c, "filling", [work[c] EXCEPT !.now = now])
      BY <1>5 DEF OpenScript
    <2> DEFINE w == [work[c] EXCEPT !.now = now]
    <2>2. DOMAIN w = Fields /\ w.task = u /\ w.out = work[c].out /\ ~w.failed /\ w.now = now
      BY <1>3, Locals
    <2> HIDE DEF w
    <2>3. /\ DOMAIN scripts' = DOMAIN scripts \cup {now} /\ scripts'[now] = {}
          /\ \A m \in DOMAIN scripts : m # now => scripts'[m] = scripts[m]
      BY <2>1 DEF Put
    <2>4. Scripted(c)
      BY <2>3 DEF Scripted
    <2>5. w.now \in DOMAIN scripts' /\ Ran(u, "filling", scripts'[w.now])
      BY <2>2, <2>3 DEF Ran
    <2>6. UNCHANGED <<packages, decoded, saved>> /\ Await(c, "filling", w)
      BY <1>5, <2>1 DEF OpenScript, w
    <2> QED BY <2>2, <2>4, <2>5, <2>6, <1>2, <1>3, TraceStep
  <1>6. CASE WriteScript(c)
    <2> PICK now, old : now = work[c].now /\ old = scripts[now]
      OBVIOUS
    <2>1. now \in DOMAIN scripts /\ Ran(u, "filling", old)
      BY <1>4, <1>6 DEF Tracing, WriteScript
    <2>2. PICK rest \in SUBSET old : scripts' = [scripts EXCEPT ![now] = {script} \cup rest]
      BY <1>3, <1>6 DEF WriteScript
    <2>3. /\ DOMAIN scripts' = DOMAIN scripts /\ scripts'[now] = {script} \cup rest
          /\ \A m \in DOMAIN scripts : m # now => scripts'[m] = scripts[m]
      BY <2>1, <2>2
    <2>4. Scripted(c)
      BY <2>3 DEF Scripted
    <2>5. Ran(u, "launching", scripts'[now])
      BY <2>1, <2>3 DEF Ran
    <2>6. UNCHANGED <<packages, decoded, saved>>
      BY <1>6 DEF WriteScript
    <2>7. CASE Await(c, "launching", work[c])
      BY <2>1, <2>3, <2>4, <2>5, <2>6, <2>7, <1>2, <1>3, TraceStep
    <2>8. CASE Throws(c)
      <3>1. Base' /\ Steps(c) /\ at'[c] = "failed"
        BY <2>8, <1>1, <1>2, ThrowSteps
      <3>2. Plain(c) /\ Tracing(c)'
        BY <3>1, <1>3 DEF Plain, Tracing, EditSpots
      <3> QED BY <3>1, <3>2, <2>4, <2>6, <1>2, <1>3, TraceMoves
    <2> QED BY <2>7, <2>8, <1>6 DEF WriteScript
  <1>7. CASE Launch(c)
    <2> PICK x : x = scripts[work[c].now]
      OBVIOUS
    <2>1. Await(c, "tracing", [work[c] EXCEPT !.text = x])
      BY <1>7 DEF Launch
    <2> DEFINE w == [work[c] EXCEPT !.text = x]
    <2>2. DOMAIN w = Fields /\ w.task = u /\ w.out = work[c].out /\ ~w.failed /\ w.text = x
      BY <1>3, Locals
    <2> HIDE DEF w
    <2>3. Ran(u, "tracing", x)
      BY <1>4, <1>7 DEF Tracing, Launch, Ran
    <2>4. UNCHANGED <<packages, decoded, saved>> /\ scripts' = scripts /\ Await(c, "tracing", w)
      BY <1>7, <2>1 DEF Launch, files, captures, w
    <2> QED BY <2>2, <2>3, <2>4, <1>2, <1>3, TraceStep DEF Scripted
  <1>8. CASE TraceEnds(c)
    <2>1. Ran(u, "saving", work[c].text)
      BY <1>3, <1>4, <1>8 DEF Tracing, TraceEnds, Ran
    <2>2. UNCHANGED <<packages, decoded, saved>> /\ scripts' = scripts /\ Await(c, "saving", work[c])
      BY <1>8 DEF TraceEnds, files, captures
    <2> QED BY <2>1, <2>2, <1>2, <1>3, TraceStep DEF Scripted
  <1> QED BY <1>5, <1>6, <1>7, <1>8

-----------------------------------------------------------------------------
(* apksigner.                                                              *)

\* The aligned copy of a task is whole only while apksigner is at work on it.
LEMMA NotAligned ==
  ASSUME Base, Tidied, NEW c \in Chains, Busy(c), at[c] \notin {"signing", "signed", "tidying"}
  PROVE  ~Whole(AlignedPath(work[c].task))
  <1> PICK u : u = work[c].task
    OBVIOUS
  <1>1. u \in Nat /\ log[u].chain = c
    BY LogIsSequence DEF Base, Thread, AtWork
  <1>2. SUFFICES ASSUME Whole(AlignedPath(u)) PROVE FALSE
    OBVIOUS
  <1>3. PICK d \in Chains : work[d].task = u /\ at[d] \in {"signing", "signed", "tidying"}
    BY <1>1, <1>2 DEF Tidied
  <1>4. Busy(d)
    BY <1>3 DEF Busy, Over
  <1>5. d = c
    BY <1>1, <1>3, <1>4 DEF Base, Thread, AtWork
  <1> QED BY <1>3, <1>5

\* A step of sign that writes or removes its output or its aligned copy.
SignStep(c) ==
  LET u == work[c].task
      o == work[c].out
  IN  /\ Busy(c) /\ Steps(c) /\ Base' /\ Op(u) = "sign"
      /\ at'[c] \notin EditSpots \cup {"filling", "launching", "tracing", "saving"}
      /\ UNCHANGED <<decoded, captures>>
      /\ flavor' \in {flavor, "sdk", "lite"} /\ keystore' \in {keystore, TRUE}
      /\ \A p : p \notin {o, AlignedPath(u)} => SameFile(p)
      /\ \A p \in DOMAIN disk' : disk'[p].by \in {0, u} \/ \E q \in DOMAIN disk : disk'[p] = disk[q]
      /\ Whole(AlignedPath(u))' => at'[c] \in {"signing", "signed", "tidying"}

LEMMA SignedAPath ==
  ASSUME Base, NEW c \in Chains, Busy(c), Op(work[c].task) = "sign"
  PROVE  work[c].out[1] = "signed" /\ \A t : work[c].out # AlignedPath(t)
  <1>1. work[c].out[1] = "signed"
    BY AtWorkFacts DEF Base, Logged
  <1> QED BY <1>1 DEF AlignedPath

LEMMA SignStepSafe ==
  ASSUME IInv, NEW c \in Chains, SignStep(c), Signing(c)', NEW u, u = work[c].task, Signed(u)'
  PROVE  IInv'
  <1> PICK o : o = work[c].out
    OBVIOUS
  <1>1. /\ Base /\ Stored /\ Edited /\ Records /\ Signatures
        /\ Busy(c) /\ Steps(c) /\ Base' /\ Op(u) = "sign" /\ u \in Tasks /\ u \in Nat
        /\ project' = project /\ saved' = saved /\ scripts' = scripts
    BY AtWorkFacts, LogIsSequence DEF IInv, SignStep, decoded, captures
  <1>2. Edited'
    <2>1. Plain(c)
      BY <1>1 DEF Plain, SignStep
    <2> QED BY <2>1, <1>1, EditedPlain DEF Alike
  <1>3. Records'
    BY <1>1, RecordsPlain DEF SignStep
  <1>4. Stored'
    BY <1>1, StoredStep DEF SignStep
  <1>5. Tidied'
    <2>1. ASSUME NEW t \in Nat, Whole(AlignedPath(t))'
          PROVE  \E d \in Chains : work'[d].task = t /\ at'[d] \in {"signing", "signed", "tidying"}
      <3>1. CASE t = u
        <4>1. Whole(AlignedPath(u))' /\ work'[c].task = u
          BY <2>1, <3>1, <1>1 DEF Steps, Whole, AlignedPath
        <4> QED BY <4>1, <3>1 DEF SignStep
      <3>2. CASE t # u
        <4> PICK p : p = AlignedPath(t)
          OBVIOUS
        <4>1. p # o /\ p # AlignedPath(u)
          BY <3>2, <1>1, SignedAPath DEF AlignedPath
        <4>2. SameFile(p)
          BY <4>1 DEF SignStep
        <4>3. Whole(p)'
          BY <2>1 DEF Whole
        <4>4. Whole(AlignedPath(t))
          BY <4>2, <4>3 DEF SameFile, Whole
        <4>5. PICK d \in Chains : work[d].task = t /\ at[d] \in {"signing", "signed", "tidying"}
          BY <4>4, <1>1 DEF Signatures, Tidied
        <4>6. d # c
          BY <4>5, <3>2
        <4> QED BY <4>5, <4>6, <1>1 DEF Steps
      <3> QED BY <3>1, <3>2
    <2> QED BY <2>1 DEF Tidied
  <1>6. ASSUME NEW t \in Tasks \ {u}, Op(t) = "sign", log[t].out # o PROVE SameFile(log[t].out)
    <2>1. log[t].out[1] = "signed"
      BY <1>6, <1>1 DEF Base, Logged
    <2>2. log[t].out # AlignedPath(u)
      BY <2>1 DEF AlignedPath
    <2> QED BY <1>6, <2>2 DEF SignStep
  <1>7. Signatures'
    BY <1>1, <1>5, <1>6, SignaturesStep
  <1> QED BY <1>1, <1>2, <1>3, <1>4, <1>7 DEF IInv

\* It goes on at `place` ...
GoesOn(c, place, w, u, o) ==
  /\ Busy(c) /\ Op(u) = "sign" /\ u = work[c].task /\ o = work[c].out
  /\ place \in SignSpots /\ Await(c, place, w)
  /\ DOMAIN w = Fields /\ w.task = u /\ w.out = o /\ (w.failed => place = "tidying")
  /\ UNCHANGED <<decoded, captures>>
  /\ flavor' \in {flavor, "sdk", "lite"} /\ keystore' \in {keystore, TRUE}
  /\ \A p : p \notin {o, AlignedPath(u)} => SameFile(p)
  /\ \A p \in DOMAIN disk' : disk'[p].by \in {0, u} \/ \E q \in DOMAIN disk : disk'[p] = disk[q]
  /\ Whole(AlignedPath(u))' => place \in {"signing", "signed", "tidying"}
  /\ Sole(u) =>
       /\ place \in {"detecting", "keying", "aligning", "signing", "lite"} => ~Whole(o)'
       /\ place \in {"signed", "litesigned"} => o \in DOMAIN disk' /\ disk'[o].by = u /\ ~Whole(o)'
       /\ place = "tidying" => IF w.failed THEN ~Whole(o)' ELSE Whole(o)' /\ disk'[o].signed

LEMMA SignAwaits ==
  ASSUME IInv, NEW c \in Chains, NEW place, NEW w, NEW u, NEW o, GoesOn(c, place, w, u, o)
  PROVE  IInv'
  <1> USE DEF GoesOn
  <1>1. Base /\ Op(u) = Step(c).op /\ u \in Tasks /\ log[u].outcome = "running"
    BY AtWorkFacts DEF IInv
  <1>2. Fitting(Step(c).op, place) /\ place \in Spots
        /\ place \notin EditSpots \cup {"filling", "launching", "tracing", "saving"}
    BY <1>1, FitsOn DEF Spots, SignSpots, EditSpots
  <1>3. Base' /\ Steps(c) /\ at'[c] = place /\ work'[c] = w /\ Step(c)' = Step(c) /\ log' = log /\ Grown
    BY <1>1, <1>2, AwaitSteps, StepsGrow
  <1>4. Whole(AlignedPath(work[c].task))' => Whole(AlignedPath(u))'
    BY <1>3 DEF Whole
  <1>5. SignStep(c)
    BY <1>2, <1>3, <1>4 DEF SignStep
  <1>6. Signed(u)'
    BY <1>1, <1>3 DEF Signed
  <1>7. Signing(c)'
    <2>1. Sole(u)' => Sole(u)
      BY <1>1, <1>3, Kept
    <2>2. Sole(work[c].task)' => Sole(u)'
      BY <1>3 DEF Sole
    <2>3. Whole(work[c].out)' <=> Whole(o)'
      BY <1>3 DEF Whole
    <2> QED BY <2>1, <2>2, <2>3, <1>3 DEF Signing
  <1> QED BY <1>5, <1>6, <1>7, SignStepSafe

\* ... or comes to an end.
LEMMA SignEnds ==
  ASSUME IInv, NEW c \in Chains, Busy(c), Op(work[c].task) = "sign",
         NEW u, NEW o, u = work[c].task, o = work[c].out,
         \/ Throws(c) /\ (Sole(u) => ~Whole(o)')
         \/ /\ \E result : Returns(c, result)
            /\ Sole(u) => Whole(o)' /\ disk'[o].signed,
         UNCHANGED <<decoded, captures>>,
         flavor' \in {flavor, "sdk", "lite"}, keystore' \in {keystore, TRUE},
         \A p : p \notin {o, AlignedPath(u)} => SameFile(p),
         \A p \in DOMAIN disk' : disk'[p].by \in {0, u} \/ \E q \in DOMAIN disk : disk'[p] = disk[q],
         ~Whole(AlignedPath(u))'
  PROVE  IInv'
  <1>1. Base /\ u \in Tasks /\ log[u].out = o
    BY AtWorkFacts DEF IInv
  <1>2. /\ Base' /\ Steps(c) /\ at'[c] \in Over \cup {"between"} /\ Grown
        /\ \/ log'[u].outcome = "failed" /\ (Sole(u) => ~Whole(o)')
           \/ log'[u].outcome = "done" /\ (Sole(u) => Whole(o)' /\ disk'[o].signed)
    <2>1. CASE Throws(c) /\ (Sole(u) => ~Whole(o)')
      BY <2>1, <1>1, ThrowSteps, StepsGrow DEF Over
    <2>2. CASE (\E result : Returns(c, result)) /\ (Sole(u) => Whole(o)' /\ disk'[o].signed)
      BY <2>2, <1>1, ReturnSteps, StepsGrow DEF Over
    <2> QED BY <2>1, <2>2
  <1>3. ~Whole(AlignedPath(work[c].task))'
    <2>1. work'[c].task = u
      BY <1>2 DEF Steps
    <2> QED BY <2>1 DEF Whole
  <1>4. SignStep(c)
    BY <1>2, <1>3 DEF SignStep, Over, EditSpots
  <1>5. Signed(u)'
    <2>1. Sole(u)' => Sole(u)
      BY <1>1, <1>2, Kept
    <2>2. log'[u].out = o
      BY <1>1, <1>2 DEF Steps
    <2>3. Whole(log[u].out)' <=> Whole(o)'
      BY <2>2 DEF Whole
    <2> QED BY <2>1, <2>2, <2>3, <1>2 DEF Signed
  <1>6. Signing(c)'
    <2>1. ~Busy(c)'
      BY <1>2 DEF Busy
    <2> QED BY <2>1 DEF Signing
  <1> QED BY <1>4, <1>5, <1>6, SignStepSafe

LEMMA FilesStay ==
  ASSUME disk' = disk
  PROVE  /\ \A p : SameFile(p) /\ (Whole(p)' <=> Whole(p))
         /\ \A p \in DOMAIN disk' : \E q \in DOMAIN disk : disk'[p] = disk[q]
  BY DEF SameFile, Whole

LEMMA SignPrepares ==
  ASSUME IInv, NEW c \in Chains,
         RemoveOutput(c) \/ DetectFlavor(c) \/ MistakeFlavor(c) \/ MakeKey(c)
  PROVE  IInv'
  <1> PICK u, o : u = work[c].task /\ o = work[c].out
    OBVIOUS
  <1>1. Base /\ Stored /\ Signatures /\ Tidied
    BY DEF IInv, Signatures
  <1>2. /\ Busy(c) /\ at[c] \in {"replacing", "detecting", "keying"} /\ at[c] \in SignSpots
        /\ at[c] \notin {"signing", "signed", "tidying"}
    BY DEF RemoveOutput, DetectFlavor, MistakeFlavor, MakeKey, Busy, Over, SignSpots
  <1>3. Op(u) = "sign" /\ DOMAIN work[c] = Fields /\ ~work[c].failed
    BY <1>1, <1>2, OpAt, AtWorkFacts
  <1>4. ~Whole(AlignedPath(u)) /\ o # AlignedPath(u)
    BY <1>1, <1>2, <1>3, NotAligned, SignedAPath
  <1>5. at[c] # "replacing" /\ Sole(u) => ~Whole(o)
    BY <1>1, <1>2 DEF Signatures, Signing
  <1>6. UNCHANGED <<decoded, captures>>
    BY DEF RemoveOutput, DetectFlavor, MistakeFlavor, MakeKey
  <1>7. flavor' \in {flavor, "sdk", "lite"} /\ keystore' \in {keystore, TRUE}
    BY <1>1 DEF RemoveOutput, DetectFlavor, MistakeFlavor, MakeKey, Stored
  <1>8. CASE RemoveOutput(c)
    <2> PICK place : place = "detecting"
      OBVIOUS
    <2>1. disk' = Removed(o) /\ Await(c, place, work[c]) /\ place \in SignSpots
      BY <1>8 DEF RemoveOutput, SignSpots
    <2>2. /\ ~Whole(o)' /\ \A p : p # o => SameFile(p)
          /\ \A p \in DOMAIN disk' : \E q \in DOMAIN disk : disk'[p] = disk[q]
      BY <2>1, FileRemoved
    <2>3. ~Whole(AlignedPath(u))'
      BY <2>2, <1>4 DEF SameFile, Whole
    <2>4. /\ \A p : p \notin {o, AlignedPath(u)} => SameFile(p)
          /\ \A p \in DOMAIN disk' : disk'[p].by \in {0, u} \/ \E q \in DOMAIN disk : disk'[p] = disk[q]
      BY <2>2
    <2>5. place \notin {"signed", "litesigned", "tidying"}
      OBVIOUS
    <2>20. GoesOn(c, place, work[c], u, o)
      BY <2>1, <2>2, <2>3, <2>4, <2>5, <1>2, <1>3, <1>6, <1>7 DEF GoesOn
    <2> QED BY <2>20, SignAwaits
  <1>9. CASE DetectFlavor(c) \/ MistakeFlavor(c) \/ MakeKey(c)
    <2>1. disk' = disk
      BY <1>9 DEF DetectFlavor, MistakeFlavor, MakeKey
    <2>2. /\ \A p : SameFile(p) /\ (Whole(p)' <=> Whole(p))
          /\ \A p \in DOMAIN disk' : \E q \in DOMAIN disk : disk'[p] = disk[q]
      BY <2>1, FilesStay
    <2>3. ~Whole(AlignedPath(u))' /\ (Sole(u) => ~Whole(o)')
      BY <2>2, <1>4, <1>5, <1>9 DEF DetectFlavor, MistakeFlavor, MakeKey
    <2>4. CASE Throws(c)
      BY <2>2, <2>3, <2>4, <1>2, <1>3, <1>6, <1>7, SignEnds
    <2>5. CASE \E place \in {"lite", "aligning", "keying"} : Await(c, place, work[c])
      <3>1. PICK place \in {"lite", "aligning", "keying"} : Await(c, place, work[c])
        BY <2>5
      <3>2. place \in SignSpots /\ place \notin {"signed", "litesigned", "tidying"}
        BY DEF SignSpots
      <3>3. /\ \A p : p \notin {o, AlignedPath(u)} => SameFile(p)
            /\ \A p \in DOMAIN disk' : disk'[p].by \in {0, u} \/ \E q \in DOMAIN disk : disk'[p] = disk[q]
        BY <2>2
      <3>4. /\ place \in {"detecting", "keying", "aligning", "signing", "lite"} => (Sole(u) => ~Whole(o)')
            /\ Whole(AlignedPath(u))' => place \in {"signing", "signed", "tidying"}
        BY <2>3
      <3>20. GoesOn(c, place, work[c], u, o)
        BY <3>1, <3>2, <3>3, <3>4, <1>2, <1>3, <1>6, <1>7 DEF GoesOn
      <3> QED BY <3>20, SignAwaits
    <2>6. Throws(c) \/ \E place \in {"lite", "aligning", "keying"} : Await(c, place, work[c])
      <3>1. CASE DetectFlavor(c)
        <4>1. \A f : AfterFlavor(f) \in {"lite", "aligning", "keying"}
          BY DEF AfterFlavor
        <4>2. \E f : Await(c, AfterFlavor(f), work[c])
          <5>1. AfterFlavor(flavor') \in {"lite", "aligning", "keying"}
            BY <4>1
          <5> QED BY <3>1 DEF DetectFlavor
        <4> QED BY <4>1, <4>2
      <3>2. CASE MistakeFlavor(c)
        BY <3>2 DEF MistakeFlavor
      <3>3. CASE MakeKey(c)
        BY <3>3 DEF MakeKey
      <3> QED BY <3>1, <3>2, <3>3, <1>9
    <2> QED BY <2>4, <2>5, <2>6
  <1> QED BY <1>8, <1>9

LEMMA AlignSafe ==
  ASSUME IInv, NEW c \in Chains, Align(c)
  PROVE  IInv'
  <1> PICK u, o, a : u = work[c].task /\ o = work[c].out /\ a = AlignedPath(u)
    OBVIOUS
  <1>1. Base /\ Stored /\ Signatures /\ Tidied
    BY DEF IInv, Signatures
  <1>2. Busy(c) /\ at[c] = "aligning" /\ at[c] \in SignSpots
    BY DEF Align, Busy, Over, SignSpots
  <1>3. Op(u) = "sign" /\ DOMAIN work[c] = Fields /\ ~work[c].failed
    BY <1>1, <1>2, OpAt, AtWorkFacts
  <1>4. o # a
    BY <1>1, <1>2, <1>3, SignedAPath
  <1>5. Sole(u) => ~Whole(o)
    BY <1>1, <1>2 DEF Signatures, Signing
  <1>6. UNCHANGED <<keystore, flavor, decoded, captures>>
    BY DEF Align
  <1>7. PICK w : /\ Await(c, "signing", w) /\ DOMAIN w = Fields /\ w.task = u /\ w.out = o /\ ~w.failed
    <2>1. CASE Await(c, "signing", work[c])
      BY <2>1, <1>3
    <2>2. CASE \E x : Await(c, "signing", [work[c] EXCEPT !.path = x])
      <3>1. PICK x : Await(c, "signing", [work[c] EXCEPT !.path = x])
        BY <2>2
      <3> DEFINE v == [work[c] EXCEPT !.path = x]
      <3>2. DOMAIN v = Fields /\ v.task = u /\ v.out = o /\ ~v.failed
        BY <1>3, Locals
      <3> HIDE DEF v
      <3> QED BY <3>1, <3>2 DEF v
    <2> QED BY <2>1, <2>2 DEF Align
  <1>8. /\ \A p : p # a => SameFile(p)
        /\ \A p \in DOMAIN disk' : \E q \in DOMAIN disk : disk'[p] = disk[q]
    <2>1. CASE disk' = disk
      BY <2>1, FilesStay
    <2>2. CASE disk' # disk
      <3> PICK b, f : b = work[c].path /\ f = disk[b]
        OBVIOUS
      <3>1. b \in DOMAIN disk /\ disk' = Put(disk, a, f)
        BY <2>2 DEF Align, Whole
      <3> QED BY <3>1, FilePut
    <2> QED BY <2>1, <2>2
  <1>9. Sole(u) => ~Whole(o)'
    BY <1>4, <1>5, <1>8 DEF SameFile, Whole
  <1>10. "signing" \in SignSpots
    BY DEF SignSpots
  <1>20. GoesOn(c, "signing", w, u, o)
    BY <1>2, <1>3, <1>6, <1>7, <1>8, <1>9, <1>10 DEF GoesOn
  <1> QED BY <1>20, SignAwaits

LEMMA OpenOutputSafe ==
  ASSUME IInv, NEW c \in Chains, OpenOutput(c)
  PROVE  IInv'
  <1> PICK u, o, a : u = work[c].task /\ o = work[c].out /\ a = AlignedPath(u)
    OBVIOUS
  <1>1. Base /\ Stored /\ Signatures /\ Tidied
    BY DEF IInv, Signatures
  <1>2. Busy(c) /\ at[c] \in {"signing", "lite"} /\ at[c] \in SignSpots
    BY DEF OpenOutput, Busy, Over, SignSpots
  <1>3. Op(u) = "sign" /\ DOMAIN work[c] = Fields /\ ~work[c].failed
    BY <1>1, <1>2, OpAt, AtWorkFacts
  <1>4. o # a
    BY <1>1, <1>2, <1>3, SignedAPath
  <1> PICK place, x : /\ place = (IF at[c] = "lite" THEN "litesigned" ELSE "signed")
                      /\ x = disk[work[c].path].text
    OBVIOUS
  <1>5. /\ UNCHANGED <<flavor, decoded, captures>> /\ keystore' = TRUE /\ disk' = Opened(o, u)
        /\ Await(c, place, [work[c] EXCEPT !.text = x])
    BY DEF OpenOutput
  <1> DEFINE w == [work[c] EXCEPT !.text = x]
  <1>6. DOMAIN w = Fields /\ w.task = u /\ w.out = o /\ ~w.failed
    BY <1>3, Locals
  <1>7. Await(c, place, w)
    BY <1>5
  <1> HIDE DEF w
  <1>8. /\ o \in DOMAIN disk' /\ disk'[o].by = u /\ ~Whole(o)'
        /\ \A p : p # o => SameFile(p)
        /\ \A p \in DOMAIN disk' : disk'[p].by = u \/ \E q \in DOMAIN disk : disk'[p] = disk[q]
    BY <1>5, FileOpened
  <1>9. place \in SignSpots /\ place \notin {"detecting", "keying", "aligning", "signing", "lite", "tidying"}
    BY DEF SignSpots
  <1>10. Whole(a)' => place = "signed"
    <2>1. at[c] = "lite" => ~Whole(a)
      BY <1>1, <1>2, NotAligned
    <2>2. Whole(a)' => Whole(a)
      BY <1>4, <1>8 DEF SameFile, Whole
    <2> QED BY <2>1, <2>2, <1>2
  <1>20. GoesOn(c, place, w, u, o)
    BY <1>2, <1>3, <1>5, <1>6, <1>7, <1>8, <1>9, <1>10 DEF GoesOn
  <1> QED BY <1>20, SignAwaits

LEMMA SignFileSafe ==
  ASSUME IInv, NEW c \in Chains, SignFile(c)
  PROVE  IInv'
  <1> PICK u, o, a : u = work[c].task /\ o = work[c].out /\ a = AlignedPath(u)
    OBVIOUS
  <1>1. Base /\ Stored /\ Signatures /\ Tidied
    BY DEF IInv, Signatures
  <1>2. Busy(c) /\ at[c] \in {"signed", "litesigned"} /\ at[c] \in SignSpots
    BY DEF SignFile, Busy, Over, SignSpots
  <1>3. Op(u) = "sign" /\ DOMAIN work[c] = Fields /\ ~work[c].failed
    BY <1>1, <1>2, OpAt, AtWorkFacts
  <1>4. o # a
    BY <1>1, <1>2, <1>3, SignedAPath
  <1>5. Sole(u) => o \in DOMAIN disk /\ disk[o].by = u
    BY <1>1, <1>2 DEF Signatures, Signing
  <1> PICK f : f = [Apk(work[c].text) EXCEPT !.signed = TRUE]
    OBVIOUS
  <1>6. f.by = 0 /\ f.whole /\ f.signed
    BY DEF Apk
  <1>7. UNCHANGED <<keystore, flavor, decoded, captures>> /\ disk' = Closed(o, u, f)
    BY DEF SignFile
  <1>8. /\ o \in DOMAIN disk /\ disk[o].by = u => o \in DOMAIN disk' /\ disk'[o] = f
        /\ \A p : p # o => SameFile(p)
        /\ \A p \in DOMAIN disk' : disk'[p].by = 0 \/ \E q \in DOMAIN disk : disk'[p] = disk[q]
    <2>1. f.by = 0 /\ disk' = Closed(o, u, f)
      BY <1>6, <1>7
    <2>2. o \in DOMAIN disk /\ disk[o].by = u => o \in DOMAIN disk' /\ disk'[o] = f
      BY <2>1 DEF Closed, Put
    <2>3. \A p : p # o => SameFile(p)
      BY <2>1, FileClosed
    <2>4. \A p \in DOMAIN disk' : disk'[p].by = 0 \/ \E q \in DOMAIN disk : disk'[p] = disk[q]
      BY <2>1, FileClosed
    <2> QED BY <2>2, <2>3, <2>4
  <1>9. Sole(u) => Whole(o)' /\ disk'[o].signed
    BY <1>5, <1>6, <1>8 DEF Whole
  <1>10. Whole(a)' => Whole(a)
    BY <1>4, <1>8 DEF SameFile, Whole
  <1>11. CASE at[c] = "signed"
    <2>1. Await(c, "tidying", work[c]) /\ "tidying" \in SignSpots
      BY <1>11 DEF SignFile, SignSpots
    <2>2. Sole(u) => IF work[c].failed THEN ~Whole(o)' ELSE Whole(o)' /\ disk'[o].signed
      BY <1>3, <1>9
    <2>3. /\ \A p : p \notin {o, AlignedPath(u)} => SameFile(p)
          /\ \A p \in DOMAIN disk' : disk'[p].by \in {0, u} \/ \E q \in DOMAIN disk : disk'[p] = disk[q]
      BY <1>8
    <2>4. flavor' = flavor /\ keystore' = keystore /\ UNCHANGED <<decoded, captures>>
      BY <1>7
    <2>20. GoesOn(c, "tidying", work[c], u, o)
      BY <2>1, <2>2, <2>3, <2>4, <1>2, <1>3 DEF GoesOn
    <2> QED BY <2>20, SignAwaits
  <1>12. CASE at[c] = "litesigned"
    <2>1. \E result : Returns(c, result)
      BY <1>12 DEF SignFile
    <2>2. ~Whole(a)'
      BY <1>1, <1>2, <1>10, <1>12, NotAligned
    <2> QED BY <2>1, <2>2, <1>2, <1>3, <1>7, <1>8, <1>9, SignEnds
  <1> QED BY <1>2, <1>11, <1>12

LEMMA SignConcludes ==
  ASSUME IInv, NEW c \in Chains, Tidy(c) \/ Verify(c) \/ Discard(c)
  PROVE  IInv'
  <1> PICK u, o, a : u = work[c].task /\ o = work[c].out /\ a = AlignedPath(u)
    OBVIOUS
  <1>1. Base /\ Stored /\ Signatures /\ Tidied
    BY DEF IInv, Signatures
  <1>2. Busy(c) /\ at[c] \in {"tidying", "verifying", "discarding"} /\ at[c] \in SignSpots
    BY DEF Tidy, Verify, Discard, Busy, Over, SignSpots
  <1>3. Op(u) = "sign" /\ DOMAIN work[c] = Fields /\ (work[c].failed => at[c] = "tidying")
    BY <1>1, <1>2, OpAt, AtWorkFacts
  <1>4. o # a
    BY <1>1, <1>2, <1>3, SignedAPath
  <1>5. at[c] # "tidying" => ~Whole(a)
    BY <1>1, <1>2, NotAligned
  <1>6. UNCHANGED <<keystore, flavor, decoded, captures>>
    BY DEF Tidy, Verify, Discard, files, packages
  <1>7. CASE Tidy(c)
    <2>1. disk' = Removed(a) /\ at[c] = "tidying"
      BY <1>7 DEF Tidy
    <2>2. /\ ~Whole(a)' /\ \A p : p # a => SameFile(p)
          /\ \A p \in DOMAIN disk' : \E q \in DOMAIN disk : disk'[p] = disk[q]
      BY <2>1, FileRemoved
    <2>3. CASE work[c].failed
      <3>1. Throws(c)
        BY <1>7, <2>3 DEF Tidy
      <3>2. Sole(u) => ~Whole(o)
        BY <2>1, <2>3, <1>1, <1>2 DEF Signatures, Signing
      <3>3. Sole(u) => ~Whole(o)'
        BY <3>2, <2>2, <1>4 DEF SameFile, Whole
      <3> QED BY <3>1, <3>3, <2>2, <1>2, <1>3, <1>6, SignEnds
    <2>4. CASE ~work[c].failed
      <3>1. Await(c, "verifying", work[c]) /\ "verifying" \in SignSpots
        BY <1>7, <2>4 DEF Tidy, SignSpots
      <3>20. GoesOn(c, "verifying", work[c], u, o)
        BY <3>1, <2>2, <2>4, <1>2, <1>3, <1>6 DEF GoesOn
      <3> QED BY <3>20, SignAwaits
    <2> QED BY <2>3, <2>4
  <1>8. CASE Verify(c)
    <2>1. disk' = disk /\ at[c] = "verifying"
      BY <1>8 DEF Verify, files, packages
    <2>2. /\ \A p : SameFile(p) /\ (Whole(p)' <=> Whole(p))
          /\ \A p \in DOMAIN disk' : \E q \in DOMAIN disk : disk'[p] = disk[q]
      BY <2>1, FilesStay
    <2>3. ~Whole(a)'
      BY <2>1, <2>2, <1>5
    <2>4. CASE Whole(o) /\ disk[o].signed
      <3>1. \E result : Returns(c, result)
        BY <1>8, <2>4 DEF Verify
      <3>2. Whole(o)' /\ disk'[o].signed
        BY <2>1, <2>2, <2>4
      <3> QED BY <3>1, <3>2, <2>2, <2>3, <1>2, <1>3, <1>6, SignEnds
    <2>5. CASE ~(Whole(o) /\ disk[o].signed)
      <3>1. Await(c, "discarding", work[c]) /\ "discarding" \in SignSpots
        BY <1>8, <2>5 DEF Verify, SignSpots
      <3>20. GoesOn(c, "discarding", work[c], u, o)
        BY <3>1, <2>1, <2>2, <2>3, <1>2, <1>3, <1>6 DEF GoesOn
      <3> QED BY <3>20, SignAwaits
    <2> QED BY <2>4, <2>5
  <1>9. CASE Discard(c)
    <2>1. disk' = Removed(o) /\ at[c] = "discarding" /\ Throws(c)
      BY <1>9 DEF Discard
    <2>2. /\ ~Whole(o)' /\ \A p : p # o => SameFile(p)
          /\ \A p \in DOMAIN disk' : \E q \in DOMAIN disk : disk'[p] = disk[q]
      BY <2>1, FileRemoved
    <2>3. ~Whole(a)'
      BY <2>1, <2>2, <1>4, <1>5 DEF SameFile, Whole
    <2> QED BY <2>1, <2>2, <2>3, <1>2, <1>3, <1>6, SignEnds
  <1> QED BY <1>7, <1>8, <1>9

LEMMA SignBreaks ==
  ASSUME IInv, NEW c \in Chains, Breaks(c), Op(work[c].task) = "sign"
  PROVE  IInv'
  <1> PICK u, o, a : u = work[c].task /\ o = work[c].out /\ a = AlignedPath(u)
    OBVIOUS
  <1>1. Base /\ Stored /\ Signatures /\ Tidied
    BY DEF IInv, Signatures
  <1>2. Busy(c)
    BY DEF Breaks, Untimed, Timed, TimedButSearches, Busy, Over
  <1>3. /\ DOMAIN work[c] = Fields /\ (work[c].failed => at[c] = "tidying")
        /\ Fitting("sign", at[c])
    BY <1>1, <1>2, OpAt, AtWorkFacts
  <1>4. at[c] \in {"keying", "aligning", "signing", "signed", "lite", "litesigned", "verifying"}
    BY <1>3 DEF Breaks, Untimed, Timed, TimedButSearches, Fitting, DecodeSpots, PatchSpots, EditSpots,
           BuildSpots,
                TraceSpots, OtherSpots
  <1>5. o # a
    BY <1>1, <1>2, SignedAPath
  <1>6. UNCHANGED <<keystore, flavor, decoded, captures>>
    BY DEF Breaks
  <1>7. /\ \A p : p # a => SameFile(p)
        /\ \A p \in DOMAIN disk' : disk'[p].by = u \/ \E q \in DOMAIN disk : disk'[p] = disk[q]
        /\ Whole(a)' => Whole(a)
    <2>1. CASE disk' = disk
      BY <2>1, FilesStay
    <2>2. CASE disk' = Opened(a, u)
      BY <2>2, FileOpened
    <2> QED BY <2>1, <2>2 DEF Breaks
  <1>8. at[c] # "verifying" /\ Sole(u) => ~Whole(o)
    BY <1>1, <1>2, <1>4 DEF Signatures, Signing
  <1>9. at[c] # "verifying" /\ Sole(u) => ~Whole(o)'
    BY <1>5, <1>7, <1>8 DEF SameFile, Whole
  <1>10. at[c] \notin {"signing", "signed"} => ~Whole(a)'
    BY <1>1, <1>2, <1>4, <1>7, NotAligned
  <1>11. CASE at[c] \in {"signing", "signed"}
    <2> DEFINE w == [work[c] EXCEPT !.failed = TRUE]
    <2>1. DOMAIN w = Fields /\ w.task = u /\ w.out = o /\ w.failed
      BY <1>3, Locals
    <2>2. Await(c, "tidying", w) /\ "tidying" \in SignSpots
      BY <1>11 DEF Breaks, SignSpots
    <2> HIDE DEF w
    <2>3. Sole(u) => ~Whole(o)'
      BY <1>9, <1>11
    <2>20. GoesOn(c, "tidying", w, u, o)
      BY <2>1, <2>2, <2>3, <1>2, <1>6, <1>7 DEF GoesOn
    <2> QED BY <2>20, SignAwaits
  <1>12. CASE at[c] = "verifying"
    <2>1. Await(c, "discarding", work[c]) /\ "discarding" \in SignSpots
      BY <1>12 DEF Breaks, SignSpots
    <2>2. ~work[c].failed
      BY <1>3, <1>12
    <2>20. GoesOn(c, "discarding", work[c], u, o)
      BY <2>1, <2>2, <1>2, <1>3, <1>6, <1>7, <1>10, <1>12 DEF GoesOn
    <2> QED BY <2>20, SignAwaits
  <1>13. CASE at[c] \notin {"signing", "signed", "verifying"}
    <2>1. Throws(c)
      BY <1>13 DEF Breaks
    <2>2. (Sole(u) => ~Whole(o)') /\ ~Whole(a)'
      BY <1>9, <1>10, <1>13
    <2> QED BY <2>1, <2>2, <1>2, <1>6, <1>7, SignEnds
  <1> QED BY <1>11, <1>12, <1>13

LEMMA BreaksSafe ==
  ASSUME IInv, NEW c \in Chains, Breaks(c)
  PROVE  IInv'
  <1>1. Base
    BY DEF IInv
  <1>2. Busy(c)
    BY DEF Breaks, Untimed, Timed, TimedButSearches, Busy, Over
  <1>3. CASE Op(work[c].task) # "sign"
    <2>1. at[c] \notin {"signing", "signed", "verifying", "aligning"}
      BY <1>1, <1>2, <1>3, OpAt DEF SignSpots
    <2>2. Throws(c) /\ disk' = disk /\ project' = project /\ UNCHANGED <<keystore, flavor, captures>>
      BY <2>1 DEF Breaks, decoded
    <2>3. Ordinary(c)
      BY <2>2, <1>1, <1>2, <1>3, EndsOrdinarily
    <2> QED BY <2>2, <2>3, OrdinarySafe
  <1> QED BY <1>3, SignBreaks

LEMMA StutterSafe ==
  ASSUME IInv, UNCHANGED vars
  PROVE  IInv'
  <1>1. /\ plan' = plan /\ host' = host /\ at' = at /\ step' = step /\ prev' = prev /\ work' = work
        /\ tries' = tries /\ log' = log /\ met' = met
        /\ disk' = disk /\ keystore' = keystore /\ flavor' = flavor
        /\ project' = project /\ sources' = sources
        /\ scripts' = scripts /\ clock' = clock /\ saved' = saved /\ device' = device
    BY DEF vars, files, packages, decoded, captures
  <1>2. Base /\ Stored /\ Edited /\ Records /\ Signatures
    BY DEF IInv
  <1>3. /\ Tasks' = Tasks /\ \A t : Op(t)' = Op(t)
        /\ \A t, u : Overlap(t, u)' <=> Overlap(t, u)
        /\ \A t : Edits(t)' <=> Edits(t)
        /\ \A c : (Busy(c)' <=> Busy(c)) /\ Step(c)' = Step(c)
    BY <1>1 DEF Tasks, Op, Overlap, Edits, Busy, Step
  <1>4. Base'
    <2>1. Typed' /\ Logged' /\ Meetings'
      BY <1>1, <1>2, <1>3 DEF Base, Typed, Logged, Meetings
    <2>2. ASSUME NEW c \in Chains PROVE Thread(c)'
      BY <1>1, <1>2, <1>3 DEF Base, Thread, AtWork
    <2> QED BY <2>1, <2>2 DEF Base
  <1>5. Stored'
    BY <1>1, <1>2, <1>3 DEF Stored
  <1>6. \A t : /\ Displaced(t)' <=> Displaced(t)
               /\ Excused(t)' <=> Excused(t)
               /\ Touched(t)' <=> Touched(t)
               /\ Sole(t)' <=> Sole(t)
               /\ \A spot, x : Ran(t, spot, x)' <=> Ran(t, spot, x)
    BY <1>1, <1>3 DEF Displaced, Excused, Touched, Sole, Ran, Beside
  <1>7. Edited'
    <2>1. ASSUME NEW t \in Tasks' PROVE Keeps(t)'
      BY <1>1, <1>2, <1>3, <1>6 DEF Edited, Keeps, Made, Has
    <2>2. ASSUME NEW c \in Chains PROVE Patching(c)'
      <3> PICK u : u = work[c].task
        OBVIOUS
      <3>1. (Displaced(u)' <=> Displaced(u)) /\ (Touched(u)' <=> Touched(u))
        BY <1>6
      <3>2. (Displaced(work[c].task)' <=> Displaced(u)') /\ (Touched(work[c].task)' <=> Touched(u)')
        BY <1>1 DEF Displaced, Touched
      <3> QED BY <3>1, <3>2, <1>1, <1>2, <1>3 DEF Edited, Patching, StillOpen
    <2>3. ASSUME NEW t \in DOMAIN saved' PROVE Latest(t)'
      BY <1>1, <1>2, <1>3, <1>6 DEF Edited, Latest
    <2> QED BY <2>1, <2>2, <2>3 DEF Edited
  <1>8. Records'
    <2>1. ASSUME NEW c \in Chains PROVE Tracing(c)'
      <3> PICK u : u = work[c].task
        OBVIOUS
      <3>1. \A spot, x : Ran(u, spot, x)' <=> Ran(u, spot, x)
        BY <1>6
      <3>2. \A spot, x : Ran(work[c].task, spot, x)' <=> Ran(u, spot, x)'
        BY <1>1 DEF Ran, Beside
      <3>3. Tracing(c)
        BY <1>2 DEF Records
      <3> QED BY <3>1, <3>2, <3>3, <1>1, <1>3 DEF Tracing
    <2>2. ASSUME NEW t \in DOMAIN saved' PROVE Recorded(t)'
      <3>1. Recorded(t)
        BY <1>1, <1>2 DEF Records
      <3>2. CASE log[t].step.op = "trace"
        BY <3>1, <3>2, <1>1, <1>6 DEF Recorded
      <3>3. CASE log[t].step.op # "trace"
        BY <3>1, <3>3, <1>1 DEF Recorded
      <3> QED BY <3>2, <3>3
    <2> QED BY <2>1, <2>2 DEF Records
  <1>9. Signatures'
    <2>1. Grown /\ \A p : SameFile(p)
      BY <1>1, <1>3, FilesStay DEF Grown
    <2>2. \A c \in Chains : Signing(c)'
      BY <2>1, <1>1, <1>2, SigningLater
    <2>3. \A t \in Tasks : Signed(t)'
      BY <2>1, <1>1, <1>2, SignedLater DEF Signatures
    <2>4. Tidied'
      BY <1>1, <1>2 DEF Signatures, Tidied, Whole
    <2> QED BY <2>2, <2>3, <2>4, <1>3 DEF Signatures
  <1> QED BY <1>4, <1>5, <1>7, <1>8, <1>9 DEF IInv

LEMMA InitSafe ==
  ASSUME Init
  PROVE  IInv
  <1>1. PICK w \in Worlds : plan = w.plan /\ host = w.host
    BY DEF Init
  <1>2. DOMAIN plan = Chains /\ (\A c \in Chains : IsSequence(plan[c])) /\ host.signer \in {"sdk", "lite"}
    BY <1>1, ToolAssumption
  <1>3. log = << >> /\ met = {} /\ saved = << >> /\ project = NoProject /\ flavor = "unknown" /\
         keystore = FALSE
        /\ disk = [p \in {Given(n) : n \in DOMAIN Source} |-> Apk(Source[p[2]])]
        /\ at = [c \in Chains |-> IF plan[c] = << >> THEN "ended" ELSE "between"]
        /\ step = [c \in Chains |-> 1] /\ work = [c \in Chains |-> Idle]
    BY DEF Init
  <1>4. Tasks = {} /\ DOMAIN saved = {}
    <2>1. DOMAIN << >> = {}
      OBVIOUS
    <2> QED BY <2>1, <1>3 DEF Tasks
  <1>5. \A c \in Chains : ~Busy(c) /\ at[c] \in {"ended", "between"} /\ at[c] \notin Spots
    BY <1>3 DEF Busy, Over, Spots, DecodeSpots, PatchSpots, EditSpots, BuildSpots, SignSpots, TraceSpots,
           OtherSpots
  <1>6. Typed
    <2>1. log \in Seq({})
      BY <1>3
    <2> QED BY <2>1, <1>2, <1>3, <1>4 DEF Typed
  <1>7. ASSUME NEW c \in Chains PROVE Thread(c)
    <2> PICK s : s = plan[c]
      OBVIOUS
    <2>1. s \in Seq({s[i] : i \in DOMAIN s})
      BY <1>2 DEF IsSequence
    <2>2. Len(s) \in Nat /\ (s # << >> => Len(s) >= 1)
      BY <2>1, EmptySeq, LenProperties
    <2>3. step[c] \in 1..(Len(plan[c]) + 1) /\ (at[c] # "ended" => step[c] <= Len(plan[c]))
      BY <2>2, <1>3
    <2>4. DOMAIN work[c] = Fields /\ work[c].task = 0
      BY <1>3, IdleLocals DEF Idle
    <2>5. at[c] \in Over \cup {"between"}
      BY <1>5 DEF Over
    <2> QED BY <2>3, <2>4, <2>5, <1>5 DEF Thread
  <1>8. Base
    BY <1>4, <1>5, <1>6, <1>7 DEF Base, Logged, Meetings
  <1>9. Stored
    <2>1. \A p \in DOMAIN disk : disk[p].by = 0
      BY <1>3 DEF Apk
    <2>2. DOMAIN project = {"exists", "marked", "source", "text", "made"} /\ project.made = 0
      BY <1>3 DEF NoProject
    <2> QED BY <2>1, <2>2, <1>2, <1>3, <1>4 DEF Stored
  <1>10. Edited
    <2>1. \A c \in Chains : Patching(c)
      BY <1>5 DEF Patching, EditSpots
    <2> QED BY <2>1, <1>4 DEF Edited
  <1>11. Records
    <2>1. \A c \in Chains : Tracing(c)
      BY <1>5 DEF Tracing
    <2> QED BY <2>1, <1>4 DEF Records
  <1>12. Signatures
    <2>1. \A c \in Chains : Signing(c)
      BY <1>5 DEF Signing
    <2>2. \A p \in DOMAIN disk : p[1] = "given"
      BY <1>3 DEF Given
    <2>3. \A t \in Nat : ~Whole(AlignedPath(t))
      BY <2>2 DEF AlignedPath, Whole
    <2> QED BY <2>1, <2>3, <1>4 DEF Signatures, Tidied
  <1> QED BY <1>8, <1>9, <1>10, <1>11, <1>12 DEF IInv

LEMMA NextSafe ==
  ASSUME IInv, [Next]_vars
  PROVE  IInv'
  <1>1. CASE UNCHANGED vars
    BY <1>1, StutterSafe
  <1>2. ASSUME NEW c \in Chains, Turn(c) PROVE IInv'
    <2>1. CASE Execute(c)
      BY <2>1, ExecuteSafe
    <2>2. CASE ListProject(c)
      BY <2>2, DecodeSafe
    <2>3. CASE ResolveSource(c) \/ ReadSource(c)
      BY <2>3, ResolveSafe, ReadSafe
    <2>4. CASE OpenSource(c) \/ WriteSource(c)
      BY <2>4, OpenSourceSafe, WriteSourceSafe
    <2>5. CASE SaveOutput(c)
      BY <2>5, SaveSafe
    <2>6. CASE RemoveOutput(c) \/ DetectFlavor(c) \/ MistakeFlavor(c) \/ MakeKey(c)
      BY <2>6, SignPrepares
    <2>7. CASE Align(c) \/ OpenOutput(c) \/ SignFile(c)
      BY <2>7, AlignSafe, OpenOutputSafe, SignFileSafe
    <2>8. CASE Tidy(c) \/ Verify(c) \/ Discard(c)
      BY <2>8, SignConcludes
    <2>9. CASE OpenScript(c) \/ WriteScript(c) \/ Launch(c) \/ TraceEnds(c)
      BY <2>9, TraceSafe
    <2>10. CASE Looked(c) \/ AnswersAbsent(c)
      BY <2>10, ReaderSafe
    <2>11. CASE MakeParent(c)
      BY <2>11, MakeParentSafe
    <2>12. CASE Deleted(c)
      BY <2>12, DeleteSafe
    <2>13. CASE Breaks(c)
      BY <2>13, BreaksSafe
    <2> QED BY <1>2, <2>1, <2>2, <2>3, <2>4, <2>5, <2>6, <2>7, <2>8, <2>9, <2>10, <2>11, <2>12, <2>13 DEF Turn
  <1>3. ASSUME NEW c \in Chains, Program(c) PROVE IInv'
    <2>1. CASE ClearProject(c) \/ Unpack(c) \/ MarkProject(c)
      BY <2>1, DecodeSafe
    <2>2. CASE Pack(c) \/ Assemble(c)
      BY <2>2, BuildSafe
    <2>3. CASE InstallApk(c) \/ CommandEnds(c) \/ Decompiled(c) \/ Searched(c)
      BY <2>3, ReaderSafe
    <2>4. CASE Breaks(c)
      BY <2>4, BreaksSafe
    <2> QED BY <1>3, <2>1, <2>2, <2>3, <2>4 DEF Program
  <1>4. ASSUME NEW c \in Chains, Retry(c) PROVE IInv'
    BY <1>4, RetrySafe
  <1> QED BY <1>1, <1>2, <1>3, <1>4 DEF Next

-----------------------------------------------------------------------------
(* The theorems about the agents that run programs.                        *)

\* The invariant holds in every reachable state: what execute(), the handlers'
\* awaits, the programs they run and the retries of the orchestrator do keeps it.
THEOREM ToolsInvariant == Spec => []IInv
  <1>1. Init => IInv
    BY InitSafe
  <1>2. IInv /\ [Next]_vars => IInv'
    BY NextSafe
  <1> QED BY <1>1, <1>2, PTL DEF Spec

\* The type invariant is part of it.
LEMMA InvariantTypes ==
  ASSUME IInv
  PROVE  TypeOK
  <1>1. Base /\ Stored
    BY DEF IInv
  <1>2. ASSUME NEW c \in Chains
        PROVE  /\ step[c] \in 1..(Len(plan[c]) + 1)
               /\ at[c] # "ended" => step[c] <= Len(plan[c])
               /\ work[c].task \in Tasks \cup {0}
               /\ at[c] \notin Over \cup {"between"} => log[work[c].task].outcome = "running"
    BY <1>1 DEF Base, Thread, AtWork, Busy
  <1>3. DOMAIN saved \subseteq Tasks
    BY <1>1 DEF Stored
  <1> QED BY <1>1, <1>2, <1>3 DEF TypeOK, Stored

\* However many tasks edit the project, in whatever order, a patch whose task
\* completed is in the file, unless the project was since written, decoded or
\* deleted, a patch overlapped it, or a later one is to replace just what it wrote.
\* filesystem.agent.ts, the patch of a file: read, replace, write.
THEOREM PatchesAreKept == Spec => []PatchesKept
  <1>1. ASSUME IInv PROVE PatchesKept
    <2>1. SUFFICES ASSUME NEW t \in Tasks, Op(t) = "patch", log[t].outcome = "done", ~Excused(t)
                   PROVE  \/ Places(project.text, log[t].step.replace) # {}
                          \/ project.source /\ project.text = << >>
      BY <1>1, InvariantTypes DEF PatchesKept, Excused
    <2>2. Made(t) /\ Keeps(t)
      BY <1>1, <2>1 DEF Made, IInv, Edited
    <2> QED BY <2>1, <2>2 DEF Keeps, Has
  <1> QED BY <1>1, ToolsInvariant, PTL

\* Of any number of tasks, what is saved of one is what it did: the patch's text
\* before and after, and the file has it while nobody has edited it since; what
\* a trace ran is its own script if no other overlapped it, and never has text
\* of a trace that was not beside it.
THEOREM RecordsTellWhatWasDone == Spec => []RecordsTell
  <1>1. ASSUME IInv PROVE RecordsTell
    <2>1. SUFFICES ASSUME NEW t \in DOMAIN saved
                   PROVE  LET s == log[t].step
                              r == saved[t]
                          IN  CASE s.op = "patch" ->
                                     /\ DOMAIN r = {"before", "after"}
                                     /\ Patchable(r.before, s) /\ r.after = Patched(r.before, s)
                                     /\ (\A u \in Tasks \ {t} : Edits(u) => u < t /\ ~Overlap(t, u))
                                          => project.text = r.after
                                [] s.op = "trace" ->
                                     /\ DOMAIN r = {"ran", "now"}
                                     /\ r.ran \subseteq {log[u].step.script : u \in {t} \cup Beside(t)}
                                     /\ Beside(t) = {} => r.ran = {s.script}
                                [] OTHER -> s.op = "scan-secrets"
      BY DEF RecordsTell
    <2>2. Base /\ Recorded(t) /\ Latest(t) /\ t \in Tasks
      BY <1>1 DEF IInv, Records, Edited, Stored
    <2>3. Len(log) \in Nat /\ Tasks = 1..Len(log)
      BY <2>2, LogIsSequence
    <2>4. CASE Op(t) = "patch"
      <3>1. (\A u \in Tasks \ {t} : Edits(u) => u < t /\ ~Overlap(t, u)) => ~Touched(t)
        BY <2>2, <2>3 DEF Touched
      <3> QED BY <2>2, <2>4, <3>1 DEF Recorded, Latest, Op
    <2>5. CASE Op(t) = "trace"
      BY <2>2, <2>5 DEF Recorded, Ran, Op
    <2>6. CASE Op(t) \notin {"patch", "trace"}
      BY <2>2, <2>6 DEF Recorded, Op
    <2> QED BY <2>4, <2>5, <2>6
  <1> QED BY <1>1, ToolsInvariant, PTL

\* However chains and retries share the outputs, a task that signed a file nobody
\* else has written has a signed file there, one that failed has left none to be
\* taken for it, and no whole aligned copy outlives its task.
THEOREM SignedIsSigned == Spec => []SignedOrGone
  <1>1. ASSUME IInv PROVE SignedOrGone
    <2>1. SUFFICES ASSUME NEW t \in Tasks, Op(t) = "sign"
                   PROVE  /\ Sole(t) => /\ log[t].outcome = "done" =>
                                              Whole(log[t].out) /\ disk[log[t].out].signed
                                        /\ log[t].outcome = "failed" => ~Whole(log[t].out)
                          /\ Whole(AlignedPath(t)) => log[t].outcome = "running"
      BY DEF SignedOrGone, Sole
    <2>2. Base /\ Signed(t) /\ Tidied
      BY <1>1 DEF IInv, Signatures
    <2>3. ASSUME Whole(AlignedPath(t)) PROVE log[t].outcome = "running"
      <3>1. t \in Nat
        BY <2>2, LogIsSequence
      <3>2. PICK c \in Chains : work[c].task = t /\ at[c] \in {"signing", "signed", "tidying"}
        BY <3>1, <2>2, <2>3 DEF Tidied
      <3>3. Busy(c)
        BY <3>2 DEF Busy, Over
      <3> QED BY <3>2, <3>3, <2>2, AtWorkFacts
    <2> QED BY <2>1, <2>2, <2>3 DEF Signed
  <1> QED BY <1>1, ToolsInvariant, PTL

-----------------------------------------------------------------------------
(* The apkmcp agent: what is true of a task.                               *)

\* Answers that a session has had, with their numbers.
Heard == Nat \X Contents

Task == [op: Ops \cup {"none"}, workspace: Workspaces \cup {"none"}, force: BOOLEAN,
         tool: {"none", "any", "new", "old"}, stage: Stages \cup {"none"}, id: Nat,
         wait: {"none", "response", "stream", "late", "over"}, reply: Contents \cup {"none"},
         past: SUBSET Heard, listed: {"none", "kept", "free"}, did: BOOLEAN,
         value: Contents \cup {"none", "failed"}]

\* What MT may have answered at each stage.
Replies(stage) ==
  CASE stage = "initialize" -> {"ok", "error"}
    [] stage = "list" -> Versions \cup {"declined", "error"}
    [] stage = "check" -> {"kept", "free", "declined", "error"}
    [] stage = "call" -> {"done", "declined", "error"}
    [] OTHER -> {}

\* A task that has begun and is not over.
Live(r) == r.wait \in {"response", "stream", "late"}

\* It awaits an answer whose number none of its earlier ones had.
Awaits(r) ==
  Live(r) =>
    /\ r.stage \in Stages /\ r.op # "none" /\ r.value = "none"
    /\ r.stage = "initialize" => r.id = 1 /\ r.past = {}
    /\ r.stage = "initialized" => r.wait = "response" /\ r.reply = "none"
    /\ r.stage \in {"list", "check", "call"} => r.id >= 2 /\ \A m \in r.past : m[1] < r.id

\* What it has been answered, and what was done of what it asked.
Told(r) ==
  /\ r.reply \in Replies(r.stage) \cup {"none"}
  /\ r.stage # "none" => (r.did <=> r.stage = "call" /\ r.reply = "done")
  /\ r.stage = "check" => r.op = "close"
  /\ r.stage = "check" /\ r.reply = "free" => r.listed = "free"
  /\ r.stage = "call" => r.op # "tools"

\* It asks for a deletion that was forced, or of what it was told is not saved.
Asks(r) == r.stage = "call" /\ r.op = "close" /\ r.tool = "new" => r.force \/ r.listed = "free"

\* It has completed; a call may be left that MT has yet to carry out.
Completed(r) ==
  r.wait = "over" =>
    /\ r.op # "none" /\ r.stage \in {"none", "call"} /\ r.reply = "none"
    /\ r.stage = "call" => r.value \in {"failed", "request"}
    /\ r.op # "tools" => /\ r.value \in {"failed", "done", "declined", "request"}
                         /\ r.value = "done" => r.did
                         /\ r.value = "declined" => ~r.did

Sound(r) ==
  /\ r.wait = "none" => r = Unasked
  /\ Awaits(r) /\ Told(r) /\ Asks(r) /\ Completed(r)

Numbered ==
  /\ \A t \in Activations : task[t].id < nextId /\ \A m \in task[t].past : m[1] < nextId
  /\ \A s, t \in Activations : s # t /\ task[s].id > 1 => task[s].id # task[t].id

Settings ==
  version \in Versions /\ savedAtMT \subseteq Workspaces /\ cache \in Versions \cup {"none"}

TalkInv ==
  /\ Settings /\ nextId \in Nat \ {0, 1}
  /\ task \in [Activations -> Task] /\ Numbered
  /\ \A t \in Activations : Sound(task[t])

\* The body of SavedWorkspacesKept.
KeepsSaved ==
  \A w \in savedAtMT \ savedAtMT' : \E t \in Activations :
    /\ task[t].op = "close" /\ task[t].workspace = w
    /\ task[t].force \/ task[t].listed = "free"

-----------------------------------------------------------------------------
(* A step of one task. *)

LEMMA TaskStep ==
  ASSUME NEW t \in Activations, NEW r \in Task,
         TalkInv, Settings', nextId' \in Nat, nextId <= nextId', task' = [task EXCEPT ![t] = r], Sound(r),
         r.id \in {0, 1, task[t].id} \/ (r.id = nextId /\ nextId < nextId'),
         \A m \in r.past : m[1] < nextId'
  PROVE  TalkInv'
  <1>1. task' \in [Activations -> Task] /\ task'[t] = r /\ \A s \in Activations : s # t => task'[s] = task[s]
    BY DEF TalkInv
  <1>2. nextId \in Nat /\ nextId > 1 /\ nextId' \in Nat \ {0, 1}
    BY DEF TalkInv
  <1>3. \A s \in Activations : /\ task[s] \in Task /\ task[s].id \in Nat /\ task[s].past \subseteq Heard
                         /\ task[s].id < nextId /\ \A m \in task[s].past : m[1] < nextId
    BY DEF TalkInv, Numbered, Task
  <1>4. r.id \in Nat /\ r.id < nextId'
    BY <1>2, <1>3 DEF Task
  <1>5. ASSUME NEW s \in Activations PROVE task'[s].id < nextId' /\ \A m \in task'[s].past : m[1] < nextId'
    <2>1. CASE s = t
      BY <1>1, <1>4, <2>1
    <2>2. CASE s # t
      <3>1. \A m \in task[s].past : m[1] \in Nat
        BY <1>3 DEF Heard
      <3> QED BY <1>1, <1>2, <1>3, <2>2, <3>1
    <2> QED BY <2>1, <2>2
  <1>6. ASSUME NEW s \in Activations, NEW u \in Activations, s # u, task'[s].id > 1
        PROVE  task'[s].id # task'[u].id
    BY <1>1, <1>2, <1>3, <1>4, <1>6 DEF TalkInv, Numbered
  <1>7. \A s \in Activations : Sound(task'[s])
    BY <1>1 DEF TalkInv
  <1> QED BY <1>1, <1>2, <1>5, <1>6, <1>7 DEF TalkInv, Numbered

\* A request is posted, under a number that is nobody's.
LEMMA PostKeeps ==
  ASSUME NEW t \in Activations, NEW stage \in {"list", "check", "call"},
         NEW tool \in {"none", "any", "new", "old"},
         TalkInv, Settings', Live(task[t]), task[t].stage \in {"initialized", "list", "check"},
         stage = "check" => task[t].op = "close",
         stage = "call" => task[t].op # "tools",
         stage = "call" /\ task[t].op = "close" /\ tool = "new" => task[t].force \/ task[t].listed = "free",
         Post(t, stage, tool)
  PROVE  TalkInv'
  <1> DEFINE past == task[t].past \cup ({task[t].id} \X ({task[t].reply} \ {"none"}))
             r == [task[t] EXCEPT !.stage = stage, !.tool = tool, !.id = nextId, !.wait = "response",
                                  !.reply = "none", !.past = past]
  <1>1. task[t] \in Task /\ Sound(task[t]) /\ nextId \in Nat /\ nextId > 1
    BY DEF TalkInv
  <1>2. past \subseteq Heard
    BY <1>1 DEF Task, Heard
  <1>3. \A m \in past : m[1] < nextId
    BY <1>1 DEF TalkInv, Numbered
  <1>4. task' = [task EXCEPT ![t] = r] /\ nextId' = nextId + 1
    BY DEF Post
  <1> HIDE DEF past
  <1>11. r \in Task
    <2> DEFINE half == [task[t] EXCEPT !.stage = stage, !.tool = tool, !.id = nextId]
    <2>1. half \in Task
      BY <1>1 DEF Task, Stages
    <2>2. r = [half EXCEPT !.wait = "response", !.reply = "none", !.past = past]
      OBVIOUS
    <2> HIDE DEF half, r
    <2> QED BY <1>2, <2>1, <2>2 DEF Task
  <1>5. /\ r \in Task /\ r.stage = stage /\ r.tool = tool /\ r.id = nextId /\ r.wait = "response"
        /\ r.reply = "none" /\ r.past = past /\ r.op = task[t].op /\ r.force = task[t].force
        /\ r.listed = task[t].listed /\ r.did = task[t].did /\ r.value = task[t].value
    BY <1>1, <1>11 DEF Task
  <1> HIDE DEF r
  <1>6. ~task[t].did /\ task[t].op # "none" /\ task[t].value = "none"
    BY <1>1 DEF Sound, Told, Awaits, Task
  <1>7. Awaits(r)
    BY <1>1, <1>3, <1>5, <1>6 DEF Awaits, Stages
  <1>8. Told(r) /\ Asks(r) /\ Completed(r)
    BY <1>5, <1>6 DEF Told, Asks, Completed
  <1>9. Sound(r)
    BY <1>5, <1>7, <1>8 DEF Sound
  <1>10. \A m \in r.past : m[1] < nextId'
    <2>1. \A m \in past : m[1] \in Nat
      BY <1>2 DEF Heard
    <2> QED BY <1>1, <1>3, <1>4, <1>5, <2>1
  <1>12. nextId' \in Nat /\ nextId <= nextId' /\ r.id = nextId /\ nextId < nextId'
    BY <1>1, <1>4, <1>5
  <1> QED BY <1>4, <1>5, <1>9, <1>10, <1>12, TaskStep

\* What is left of a task that is over, and was answered or made no call.
Left(op, did, value) == [Unasked EXCEPT !.op = op, !.wait = "over", !.did = did, !.value = value]

LEMMA Forgotten ==
  ASSUME NEW op \in Ops \cup {"none"}, NEW did \in BOOLEAN, NEW value \in Contents \cup {"none", "failed"}
  PROVE  LET left == Left(op, did, value) IN
         /\ left \in Task /\ left.id = 0 /\ left.past = {} /\ left.wait = "over" /\ left.value = value
         /\ left.stage = "none" /\ left.reply = "none" /\ left.op = op /\ left.did = did
  <1> DEFINE half == [Unasked EXCEPT !.op = op, !.wait = "over", !.did = did]
             left == [Unasked EXCEPT !.op = op, !.wait = "over", !.did = did, !.value = value]
  <1>1. Unasked \in Task
    BY DEF Task, Unasked
  <1>2. half \in Task
    BY <1>1 DEF Task
  <1>3. left = [half EXCEPT !.value = value]
    OBVIOUS
  <1>4. left \in Task
    <2> HIDE DEF half, left
    <2> QED BY <1>2, <1>3 DEF Task
  <1> QED BY <1>4 DEF Left, Unasked

\* A task ends with what it was told.
LEMMA EndKeeps ==
  ASSUME NEW t \in Activations, NEW value \in Contents \cup {"failed"},
         TalkInv, Settings', Live(task[t]), End(t, value),
         task[t].stage = "call" /\ task[t].reply = "none" => value \in {"failed", "request"},
         task[t].op # "tools" => /\ value \in {"failed", "done", "declined", "request"}
                                 /\ value = "done" => task[t].did
                                 /\ value = "declined" => ~task[t].did
  PROVE  TalkInv'
  <1> DEFINE over == [task[t] EXCEPT !.wait = "over", !.value = value]
             r == Remains(over)
  <1>1. task[t] \in Task /\ Sound(task[t]) /\ nextId \in Nat
    BY DEF TalkInv
  <1>2. /\ over \in Task /\ over.wait = "over" /\ over.value = value /\ over.stage = task[t].stage
        /\ over.reply = task[t].reply /\ over.op = task[t].op /\ over.did = task[t].did
        /\ over.tool = task[t].tool /\ over.force = task[t].force /\ over.listed = task[t].listed
    BY <1>1 DEF Task
  <1>3. task' = [task EXCEPT ![t] = r] /\ nextId' = nextId
    BY DEF End
  <1>4. task[t].op # "none"
    BY <1>1 DEF Sound, Awaits
  <1> HIDE DEF over
  <1>5. CASE over.stage = "call" /\ over.reply = "none"
    <2>1. r = [over EXCEPT !.id = 0, !.past = {}]
      BY <1>5 DEF Remains
    <2> HIDE DEF r
    <2>2. /\ r \in Task /\ r.id = 0 /\ r.past = {} /\ r.wait = "over" /\ r.value = value
          /\ r.stage = "call" /\ r.reply = "none" /\ r.op = task[t].op /\ r.did = task[t].did
          /\ r.tool = task[t].tool /\ r.force = task[t].force /\ r.listed = task[t].listed
      BY <1>2, <1>5, <2>1 DEF Task
    <2>3. Told(r) /\ Asks(r)
      BY <1>1, <1>2, <1>5, <2>2 DEF Sound, Told, Asks
    <2>4. Sound(r)
      BY <1>2, <1>4, <1>5, <2>2, <2>3 DEF Sound, Awaits, Live, Completed
    <2>5. nextId' \in Nat /\ nextId <= nextId' /\ r.id = 0 /\ \A m \in r.past : m[1] < nextId'
      BY <1>1, <1>3, <2>2
    <2> QED BY <1>3, <2>2, <2>4, <2>5, TaskStep
  <1>6. CASE ~(over.stage = "call" /\ over.reply = "none")
    <2>1. r = Left(over.op, over.did, over.value)
      BY <1>2, <1>6 DEF Remains, Left
    <2> HIDE DEF r
    <2>6. /\ over.op \in Ops \cup {"none"} /\ over.did \in BOOLEAN
          /\ over.value \in Contents \cup {"none", "failed"}
      BY <1>2 DEF Task
    <2>2. /\ r \in Task /\ r.id = 0 /\ r.past = {} /\ r.wait = "over" /\ r.value = value
          /\ r.stage = "none" /\ r.reply = "none" /\ r.op = task[t].op /\ r.did = task[t].did
      BY <1>2, <2>1, <2>6, Forgotten
    <2>3. Told(r) /\ Asks(r)
      BY <2>2 DEF Told, Asks
    <2>4. Sound(r)
      BY <1>4, <2>2, <2>3 DEF Sound, Awaits, Live, Completed
    <2>5. nextId' \in Nat /\ nextId <= nextId' /\ r.id = 0 /\ \A m \in r.past : m[1] < nextId'
      BY <1>1, <1>3, <2>2
    <2> QED BY <1>3, <2>2, <2>4, <2>5, TaskStep
  <1> QED BY <1>5, <1>6

LEMMA FailKeeps ==
  ASSUME NEW t \in Activations, TalkInv, Settings', Live(task[t]), Fail(t)
  PROVE  TalkInv'
  BY EndKeeps DEF Fail

-----------------------------------------------------------------------------
(* What a task does with an answer. *)

LEMMA ResolvedKeeps ==
  ASSUME NEW t \in Activations, NEW names,
         TalkInv, Settings', Live(task[t]), task[t].stage \in {"initialized", "list"}, task[t].op # "tools",
         Resolved(t, names)
  PROVE  TalkInv'
  <1>1. CASE names = "other"
    BY <1>1, FailKeeps DEF Resolved
  <1>2. CASE names = "old"
    <2>1. Post(t, "call", "old")
      BY <1>2 DEF Resolved
    <2> QED BY <2>1, PostKeeps
  <1>3. CASE names \notin {"other", "old"}
    <2>1. Post(t, IF task[t].op = "close" /\ ~task[t].force THEN "check" ELSE "call", "new")
      BY <1>3 DEF Resolved
    <2>2. CASE task[t].op = "close" /\ ~task[t].force
      <3>1. Post(t, "check", "new")
        BY <2>1, <2>2
      <3> QED BY <2>2, <3>1, PostKeeps
    <2>3. CASE ~(task[t].op = "close" /\ ~task[t].force)
      <3>1. Post(t, "call", "new")
        BY <2>1, <2>3
      <3> QED BY <2>3, <3>1, PostKeeps
    <2> QED BY <2>2, <2>3
  <1> QED BY <1>1, <1>2, <1>3

LEMMA BeginKeeps ==
  ASSUME NEW t \in Activations,
         TalkInv, Settings', Live(task[t]), task[t].stage = "initialized", Proceed(t)
  PROVE  TalkInv'
  <1>1. CASE task[t].op = "invalid"
    BY <1>1, FailKeeps DEF Proceed
  <1>2. CASE task[t].op = "tools"
    <2>1. Post(t, "list", "none")
      BY <1>2 DEF Proceed
    <2> QED BY <2>1, PostKeeps
  <1>3. CASE task[t].op = "call"
    <2>1. Post(t, "call", "any")
      BY <1>3 DEF Proceed
    <2> QED BY <1>3, <2>1, PostKeeps
  <1>4. CASE task[t].op \notin {"invalid", "tools", "call"}
    <2>1. IF cache = "none" THEN Post(t, "list", "none") ELSE Resolved(t, cache)
      BY <1>4 DEF Proceed
    <2>2. CASE cache = "none"
      <3>1. Post(t, "list", "none")
        BY <2>1, <2>2
      <3> QED BY <3>1, PostKeeps
    <2>3. CASE cache # "none"
      BY <1>4, <2>1, <2>3, ResolvedKeeps
    <2> QED BY <2>2, <2>3
  <1> QED BY <1>1, <1>2, <1>3, <1>4

LEMMA InitializedKeeps ==
  ASSUME NEW t \in Activations, NEW c,
         TalkInv, Settings', Live(task[t]), task[t].stage = "initialize", Initialized(t, c)
  PROVE  TalkInv'
  <1>1. CASE c = "error"
    BY <1>1, FailKeeps DEF Initialized
  <1>2. CASE c # "error"
    <2> DEFINE r == [task[t] EXCEPT !.stage = "initialized", !.id = 0, !.wait = "response", !.reply = "none",
                                    !.past = {<<1, "ok">>}]
    <2>1. task[t] \in Task /\ Sound(task[t]) /\ nextId \in Nat /\ nextId > 1
      BY DEF TalkInv
    <2>2. task' = [task EXCEPT ![t] = r] /\ nextId' = nextId
      BY <1>2 DEF Initialized
    <2>3. r \in Task
      <3> DEFINE half == [task[t] EXCEPT !.stage = "initialized", !.id = 0, !.wait = "response"]
      <3>1. half \in Task
        BY <2>1 DEF Task, Stages
      <3>2. r = [half EXCEPT !.reply = "none", !.past = {<<1, "ok">>}]
        OBVIOUS
      <3>3. {<<1, "ok">>} \in SUBSET Heard
        BY DEF Heard, Contents
      <3> HIDE DEF half, r
      <3> QED BY <3>1, <3>2, <3>3 DEF Task
    <2>4. /\ r.stage = "initialized" /\ r.id = 0 /\ r.wait = "response" /\ r.reply = "none"
          /\ r.past = {<<1, "ok">>} /\ r.op = task[t].op /\ r.did = task[t].did /\ r.value = task[t].value
      BY <2>1, <2>3 DEF Task
    <2> HIDE DEF r
    <2>5. ~task[t].did /\ task[t].op # "none" /\ task[t].value = "none"
      BY <2>1 DEF Sound, Told, Awaits, Task
    <2>6. Sound(r)
      BY <2>4, <2>5 DEF Sound, Awaits, Live, Stages, Told, Asks, Completed
    <2>7. \A m \in r.past : m[1] < nextId'
      BY <2>1, <2>2, <2>4
    <2>8. nextId' \in Nat /\ nextId <= nextId' /\ r.id = 0
      BY <2>1, <2>2, <2>4
    <2> QED BY <2>2, <2>3, <2>6, <2>7, <2>8, TaskStep
  <1> QED BY <1>1, <1>2

LEMMA ListedKeeps ==
  ASSUME NEW t \in Activations, NEW c \in Contents,
         TalkInv, UNCHANGED <<version, savedAtMT>>, Live(task[t]), task[t].stage = "list", Listed(t, c)
  PROVE  TalkInv'
  <1>1. CASE task[t].op = "tools"
    <2>1. (IF c = "error" THEN Fail(t) ELSE End(t, c)) /\ UNCHANGED cache
      BY <1>1 DEF Listed
    <2>2. Settings'
      BY <2>1 DEF TalkInv, Settings
    <2>3. CASE c = "error"
      BY <2>1, <2>2, <2>3, FailKeeps
    <2>4. CASE c # "error"
      <3>1. End(t, c)
        BY <2>1, <2>4
      <3> QED BY <1>1, <2>2, <3>1, EndKeeps
    <2> QED BY <2>3, <2>4
  <1>2. CASE task[t].op # "tools" /\ c \in Versions
    <2>1. cache' = c /\ Resolved(t, c)
      BY <1>2 DEF Listed
    <2>2. Settings'
      BY <1>2, <2>1 DEF TalkInv, Settings
    <2> QED BY <1>2, <2>1, <2>2, ResolvedKeeps
  <1>3. CASE task[t].op # "tools" /\ c \notin Versions
    <2>1. UNCHANGED cache /\ Resolved(t, "none")
      BY <1>3 DEF Listed
    <2>2. Settings'
      BY <2>1 DEF TalkInv, Settings
    <2> QED BY <1>3, <2>1, <2>2, ResolvedKeeps
  <1> QED BY <1>1, <1>2, <1>3

\* The messages a task may take for the answer: that answer, or a request.
Taken(t) == {task[t].reply, "request"} \ {"none"}

LEMMA TakeKeeps ==
  ASSUME NEW t \in Activations, NEW c \in Taken(t),
         TalkInv, Live(task[t]), task[t].stage # "initialized", Take(t, c)
  PROVE  TalkInv' /\ UNCHANGED savedAtMT
  <1>0. UNCHANGED <<version, savedAtMT>>
    BY DEF Take
  <1>1. task[t] \in Task /\ Sound(task[t]) /\ task[t].stage \in {"initialize", "list", "check", "call"}
    BY DEF TalkInv, Sound, Awaits, Stages
  <1>2. c \in Contents
    BY <1>1 DEF Taken, Task, Contents
  <1>3. UNCHANGED cache => Settings'
    BY <1>0 DEF TalkInv, Settings
  <1>4. CASE task[t].stage = "initialize"
    <2>1. Initialized(t, c) /\ UNCHANGED cache
      BY <1>4 DEF Take
    <2> QED BY <1>0, <1>3, <1>4, <2>1, InitializedKeeps
  <1>5. CASE task[t].stage = "list"
    <2>1. Listed(t, c)
      BY <1>5 DEF Take
    <2> QED BY <1>0, <1>2, <1>5, <2>1, ListedKeeps
  <1>6. CASE task[t].stage = "check"
    <2>1. Checked(t, c) /\ UNCHANGED cache
      BY <1>6 DEF Take
    <2>2. CASE c = "free"
      <3>1. Post(t, "call", "new")
        BY <2>1, <2>2 DEF Checked
      <3>2. task[t].reply = "free"
        BY <2>2 DEF Taken
      <3>3. task[t].op = "close" /\ task[t].listed = "free"
        BY <1>1, <1>6, <3>2 DEF Sound, Told
      <3> QED BY <1>0, <1>3, <1>6, <2>1, <3>1, <3>3, PostKeeps
    <2>3. CASE c # "free"
      BY <1>0, <1>3, <2>1, <2>3, FailKeeps DEF Checked
    <2> QED BY <2>2, <2>3
  <1>7. CASE task[t].stage = "call"
    <2>1. Performed(t, c) /\ UNCHANGED cache
      BY <1>7 DEF Take
    <2>2. CASE c = "error"
      BY <1>0, <1>3, <2>1, <2>2, FailKeeps DEF Performed
    <2>3. CASE c # "error"
      <3>1. End(t, c)
        BY <2>1, <2>3 DEF Performed
      <3>2. task[t].reply \in {"done", "declined", "error", "none"}
        BY <1>1, <1>7 DEF Sound, Told, Replies
      <3>3. c \in {"done", "declined", "request"} /\ (task[t].reply = "none" => c = "request")
        BY <2>3, <3>2 DEF Taken
      <3>4. c = "done" => task[t].did
        BY <1>1, <1>7 DEF Sound, Told, Taken
      <3>5. c = "declined" => ~task[t].did
        BY <1>1, <1>7, <3>2 DEF Sound, Told, Taken
      <3> QED BY <1>0, <1>2, <1>3, <2>1, <3>1, <3>3, <3>4, <3>5, EndKeeps
    <2> QED BY <2>2, <2>3
  <1> QED BY <1>1, <1>4, <1>5, <1>6, <1>7

-----------------------------------------------------------------------------
(* Every action. *)

LEMMA Stutter ==
  ASSUME TalkInv, UNCHANGED <<nextId, task>>, Settings'
  PROVE  TalkInv'
  BY DEF TalkInv, Numbered

LEMMA StartKeeps ==
  ASSUME AskedAssumption, TalkInv, NEW t \in Activations, Start(t)
  PROVE  TalkInv' /\ UNCHANGED savedAtMT
  <1>0. task[t].op = "none" /\ UNCHANGED <<version, savedAtMT, cache, nextId>> /\ Settings'
    BY DEF Start, TalkInv, Settings
  <1>1. PICK o \in Asked[t], w \in Workspaces, f \in BOOLEAN :
          task' = [task EXCEPT ![t] = [task[t] EXCEPT
            !.op = o, !.workspace = w, !.force = f, !.stage = "initialize", !.id = 1, !.wait = "response"]]
    BY DEF Start
  <1> DEFINE r == [task[t] EXCEPT !.op = o, !.workspace = w, !.force = f,
                                  !.stage = "initialize", !.id = 1, !.wait = "response"]
  <1>2. task[t] \in Task /\ Sound(task[t]) /\ nextId \in Nat /\ nextId > 1 /\ o \in Ops /\ o # "none"
    BY DEF TalkInv, AskedAssumption, Ops
  <1>3. task[t] = Unasked
    BY <1>0, <1>2 DEF Sound, Awaits, Completed, Live, Task
  <1>4. r \in Task
    <2> DEFINE half == [task[t] EXCEPT !.op = o, !.workspace = w, !.force = f]
    <2>1. half \in Task
      BY <1>2 DEF Task
    <2>2. r = [half EXCEPT !.stage = "initialize", !.id = 1, !.wait = "response"]
      OBVIOUS
    <2> HIDE DEF half, r
    <2> QED BY <2>1, <2>2 DEF Task, Stages
  <1>5. /\ r.op = o /\ r.stage = "initialize" /\ r.id = 1 /\ r.wait = "response"
        /\ r.reply = task[t].reply /\ r.past = task[t].past /\ r.did = task[t].did /\ r.value = task[t].value
    BY <1>2, <1>4 DEF Task
  <1>6. task' = [task EXCEPT ![t] = r]
    BY <1>1
  <1> HIDE DEF r
  <1>7. r.reply = "none" /\ r.past = {} /\ ~r.did /\ r.value = "none"
    BY <1>3, <1>5 DEF Unasked
  <1>8. Sound(r)
    BY <1>2, <1>5, <1>7 DEF Sound, Awaits, Live, Stages, Told, Asks, Completed
  <1>9. nextId' \in Nat /\ nextId <= nextId' /\ \A m \in r.past : m[1] < nextId'
    BY <1>0, <1>2, <1>7
  <1>10. TalkInv'
    BY <1>0, <1>4, <1>5, <1>6, <1>8, <1>9, TaskStep
  <1> QED BY <1>0, <1>10

\* The response begins, or thirty seconds have gone: the wait goes on.
LEMMA WaitKeeps ==
  ASSUME NEW t \in Activations, NEW wait \in {"stream", "late"},
         TalkInv, UNCHANGED <<version, savedAtMT, cache, nextId>>, Live(task[t]), task[t].stage # "initialized",
         task' = [task EXCEPT ![t].wait = wait]
  PROVE  TalkInv'
  <1> DEFINE r == [task[t] EXCEPT !.wait = wait]
  <1>1. task[t] \in Task /\ Sound(task[t]) /\ nextId \in Nat /\ Settings' /\ Numbered
    BY DEF TalkInv, Settings
  <1>2. task' = [task EXCEPT ![t] = r]
    BY DEF TalkInv
  <1>3. r \in Task
    BY <1>1 DEF Task
  <1>4. /\ r.op = task[t].op /\ r.stage = task[t].stage /\ r.id = task[t].id /\ r.wait = wait
        /\ r.reply = task[t].reply /\ r.past = task[t].past /\ r.did = task[t].did /\ r.value = task[t].value
        /\ r.tool = task[t].tool /\ r.force = task[t].force /\ r.listed = task[t].listed
    BY <1>1 DEF Task
  <1> HIDE DEF r
  <1>5. Told(r) /\ Asks(r)
    BY <1>1, <1>4 DEF Sound, Told, Asks
  <1>6. Awaits(r) /\ Completed(r)
    BY <1>1, <1>4 DEF Sound, Awaits, Live, Completed
  <1>7. Sound(r)
    BY <1>4, <1>5, <1>6 DEF Sound
  <1>8. nextId' \in Nat /\ nextId <= nextId' /\ \A m \in r.past : m[1] < nextId'
    BY <1>1, <1>4 DEF Numbered
  <1> QED BY <1>1, <1>2, <1>3, <1>4, <1>7, <1>8, TaskStep

LEMMA HeadersKeeps ==
  ASSUME TalkInv, NEW t \in Activations, Headers(t)
  PROVE  TalkInv' /\ UNCHANGED savedAtMT
  <1>0. UNCHANGED <<version, savedAtMT, cache>> /\ Settings' /\ Live(task[t])
    BY DEF Headers, TalkInv, Settings, Live
  <1>1. CASE task[t].stage = "initialized"
    <2>1. Proceed(t)
      BY <1>1 DEF Headers
    <2> QED BY <1>0, <1>1, <2>1, BeginKeeps
  <1>2. CASE task[t].stage # "initialized"
    <2>1. task' = [task EXCEPT ![t].wait = "stream"] /\ UNCHANGED nextId
      BY <1>2 DEF Headers
    <2> QED BY <1>0, <1>2, <2>1, WaitKeeps
  <1> QED BY <1>1, <1>2

LEMMA DeadlineKeeps ==
  ASSUME TalkInv, NEW t \in Activations, Deadline(t)
  PROVE  TalkInv' /\ UNCHANGED savedAtMT
  <1>1. Live(task[t]) /\ Sound(task[t]) /\ task[t].wait = "stream"
    BY DEF Deadline, Live, TalkInv
  <1>2. task[t].stage # "initialized"
    BY <1>1 DEF Sound, Awaits
  <1>3. task' = [task EXCEPT ![t].wait = "late"] /\ UNCHANGED <<version, savedAtMT, cache, nextId>>
    BY DEF Deadline
  <1> QED BY <1>1, <1>2, <1>3, WaitKeeps

LEMMA BodyKeeps ==
  ASSUME TalkInv, NEW t \in Activations, Body(t)
  PROVE  TalkInv' /\ UNCHANGED savedAtMT
  <1>1. Live(task[t]) /\ Sound(task[t]) /\ task[t].reply # "none" /\ Take(t, task[t].reply)
    BY DEF Body, Live, TalkInv
  <1>2. task[t].stage # "initialized" /\ task[t].reply \in Taken(t)
    BY <1>1 DEF Sound, Awaits, Taken
  <1> QED BY <1>1, <1>2, TakeKeeps

LEMMA ChunkKeeps ==
  ASSUME TalkInv, NEW t \in Activations, Chunk(t)
  PROVE  TalkInv' /\ UNCHANGED savedAtMT
  <1>0. Live(task[t]) /\ Sound(task[t]) /\ task[t].wait \in {"stream", "late"}
    BY DEF Chunk, Streaming, Live, TalkInv
  <1>1. PICK m \in Messages(t) :
          CASE m[1] = task[t].id -> Take(t, m[2])
            [] m[1] # task[t].id /\ task[t].wait = "late" -> Fail(t) /\ UNCHANGED <<version, savedAtMT, cache>>
            [] OTHER -> UNCHANGED mtVars
    BY DEF Chunk
  <1>2. task[t].stage \in {"initialize", "list", "check", "call"}
    BY <1>0 DEF Sound, Awaits, Stages
  <1>3. CASE m[1] = task[t].id
    <2>1. Take(t, m[2])
      BY <1>1, <1>3
    <2>2. m[2] \in Taken(t)
      <3>1. m \notin task[t].past
        <4>1. task[t] \in Task
          BY DEF TalkInv
        <4>2. task[t].id \in Nat
          BY <4>1 DEF Task
        <4> QED BY <1>0, <1>2, <1>3, <4>2 DEF Sound, Awaits
      <3>2. CASE m = <<task[t].id, task[t].reply>> /\ task[t].reply # "none"
        BY <3>2 DEF Taken
      <3>3. CASE m \in OwnIds \X {"request"}
        BY <3>3 DEF Taken
      <3>4. CASE m = <<0, "request">>
        BY <3>4 DEF Taken
      <3> QED BY <3>1, <3>2, <3>3, <3>4 DEF Messages
    <2> QED BY <1>0, <1>2, <2>1, <2>2, TakeKeeps
  <1>4. CASE m[1] # task[t].id /\ task[t].wait = "late"
    <2>1. Fail(t) /\ UNCHANGED <<version, savedAtMT, cache>>
      BY <1>1, <1>4
    <2>2. Settings'
      BY <2>1 DEF TalkInv, Settings
    <2> QED BY <1>0, <2>1, <2>2, FailKeeps
  <1>5. CASE m[1] # task[t].id /\ task[t].wait # "late"
    <2>1. UNCHANGED <<version, savedAtMT, cache, nextId, task>>
      BY <1>1, <1>5 DEF mtVars
    <2>2. Settings'
      BY <2>1 DEF TalkInv, Settings
    <2> QED BY <2>1, <2>2, Stutter
  <1> QED BY <1>3, <1>4, <1>5

LEMMA BrokenKeeps ==
  ASSUME TalkInv, NEW t \in Activations, Broken(t)
  PROVE  TalkInv' /\ UNCHANGED savedAtMT
  <1>1. Live(task[t]) /\ Fail(t) /\ UNCHANGED <<version, savedAtMT, cache>> /\ Settings'
    BY DEF Broken, Waiting, Live, TalkInv, Settings
  <1> QED BY <1>1, FailKeeps

\* MT carries out a request.  What it deletes was forced, or told not to be saved.
LEMMA ServeKeeps ==
  ASSUME TalkInv, NEW t \in Activations, Serve(t)
  PROVE  TalkInv' /\ KeepsSaved
  <1>0. /\ task[t].stage \notin {"none", "initialized"} /\ task[t].reply = "none"
        /\ UNCHANGED <<version, cache, nextId>>
    BY DEF Serve
  <1> DEFINE listed(a) == IF a \in {"kept", "free"} THEN a ELSE task[t].listed
             r(a) == [task[t] EXCEPT !.reply = a, !.listed = listed(a), !.did = task[t].did \/ a = "done"]
  <1>1. PICK a \in Answers(t) :
          /\ task' = [task EXCEPT ![t] = IF r(a).wait = "over" THEN Remains(r(a)) ELSE r(a)]
          /\ savedAtMT' = IF a = "done" /\ task[t].op = "close" /\ task[t].tool = "new"
                        THEN savedAtMT \ {task[t].workspace} ELSE savedAtMT
    BY DEF Serve
  <1>2. task[t] \in Task /\ Sound(task[t]) /\ nextId \in Nat /\ nextId > 1 /\ Settings /\ Numbered
    BY DEF TalkInv
  <1>3. a \in Replies(task[t].stage)
    <2>1. task[t].stage \in {"initialize", "list", "check", "call"}
      BY <1>0, <1>2 DEF Task, Stages
    <2> QED BY <1>2, <2>1 DEF Answers, Replies, Settings
  <1>4. a \in Contents /\ a # "none" /\ Settings'
    BY <1>0, <1>1, <1>2, <1>3 DEF Replies, Contents, Versions, Settings
  <1>5. ~task[t].did
    BY <1>0, <1>2 DEF Sound, Told
  <1>6. listed(a) \in {"none", "kept", "free"}
    BY <1>2 DEF Task
  <1> DEFINE did == task[t].did \/ a = "done"
  <1>7. did \in BOOLEAN /\ (did <=> a = "done")
    BY <1>5
  <1> DEFINE s == r(a)
  <1>8. s = [task[t] EXCEPT !.reply = a, !.listed = listed(a), !.did = did]
    OBVIOUS
  <1> HIDE DEF did, s, listed
  <1>9. s \in Task
    BY <1>2, <1>4, <1>6, <1>7, <1>8 DEF Task
  <1>10. /\ s.reply = a /\ s.listed = listed(a) /\ s.did = did
         /\ s.op = task[t].op /\ s.stage = task[t].stage /\ s.id = task[t].id /\ s.wait = task[t].wait
         /\ s.past = task[t].past /\ s.value = task[t].value /\ s.tool = task[t].tool
         /\ s.force = task[t].force
    BY <1>2, <1>8, <1>9 DEF Task
  <1>11. TalkInv'
    <2>1. CASE task[t].wait # "over"
      <3>1. task' = [task EXCEPT ![t] = s]
        BY <1>1, <1>10, <2>1 DEF s
      <3>2. Awaits(s) /\ Completed(s)
        BY <1>0, <1>2, <1>10, <2>1 DEF Sound, Awaits, Live, Completed
      <3>3. Told(s)
        BY <1>2, <1>3, <1>7, <1>10 DEF Sound, Told, Replies, Versions, listed
      <3>4. Asks(s)
        BY <1>2, <1>3, <1>10 DEF Sound, Asks, Replies, listed
      <3>5. s.wait # "none"
        BY <1>0, <1>2, <1>10 DEF Sound, Unasked
      <3>6. Sound(s)
        BY <3>2, <3>3, <3>4, <3>5 DEF Sound
      <3>7. nextId' \in Nat /\ nextId <= nextId' /\ \A m \in s.past : m[1] < nextId'
        BY <1>0, <1>2, <1>10 DEF Numbered
      <3> QED BY <1>4, <1>9, <1>10, <3>1, <3>6, <3>7, TaskStep
    <2>2. CASE task[t].wait = "over"
      <3> DEFINE left == Remains(s)
      <3>1. task' = [task EXCEPT ![t] = left]
        BY <1>1, <1>10, <2>2 DEF s
      <3>2. left = Left(s.op, s.did, s.value)
        BY <1>4, <1>10 DEF Remains, Left
      <3>7. /\ s.op \in Ops \cup {"none"} /\ s.did \in BOOLEAN
            /\ s.value \in Contents \cup {"none", "failed"}
        BY <1>9 DEF Task
      <3>3. /\ left \in Task /\ left.id = 0 /\ left.past = {} /\ left.wait = "over" /\ left.value = s.value
            /\ left.stage = "none" /\ left.reply = "none" /\ left.op = s.op /\ left.did = s.did
        BY <3>2, <3>7, Forgotten
      <3> HIDE DEF left
      <3>4. task[t].op # "none" /\ task[t].value \in {"failed", "request"}
        BY <1>0, <1>2, <2>2 DEF Sound, Completed
      <3>5. Sound(left)
        BY <1>10, <3>3, <3>4 DEF Sound, Awaits, Live, Told, Asks, Completed
      <3>6. nextId' \in Nat /\ nextId <= nextId' /\ \A m \in left.past : m[1] < nextId'
        BY <1>0, <1>2, <3>3
      <3> QED BY <1>4, <3>1, <3>3, <3>5, <3>6, TaskStep
    <2> QED BY <2>1, <2>2
  <1>12. KeepsSaved
    <2>1. CASE a = "done" /\ task[t].op = "close" /\ task[t].tool = "new"
      <3>1. task[t].stage = "call"
        BY <1>0, <1>2, <1>3, <2>1 DEF Replies, Task, Stages, Versions
      <3>2. task[t].force \/ task[t].listed = "free"
        BY <1>2, <2>1, <3>1 DEF Sound, Asks
      <3>3. savedAtMT \ savedAtMT' \subseteq {task[t].workspace}
        BY <1>1, <2>1
      <3> QED BY <2>1, <3>2, <3>3 DEF KeepsSaved
    <2>2. CASE ~(a = "done" /\ task[t].op = "close" /\ task[t].tool = "new")
      BY <1>1, <2>2 DEF KeepsSaved
    <2> QED BY <2>1, <2>2
  <1> QED BY <1>11, <1>12

LEMMA NextKeeps ==
  ASSUME AskedAssumption, TalkInv, [MTNext]_mtVars
  PROVE  TalkInv' /\ KeepsSaved
  <1>0. UNCHANGED savedAtMT => KeepsSaved
    BY DEF KeepsSaved
  <1>1. ASSUME NEW t \in Activations, Act(t) PROVE TalkInv' /\ KeepsSaved
    BY <1>0, <1>1, StartKeeps, HeadersKeeps, BodyKeeps, ChunkKeeps, DeadlineKeeps, BrokenKeeps DEF Act
  <1>2. CASE Expire \/ Update \/ (\E w \in Workspaces : Save(w)) \/ UNCHANGED mtVars
    <2>1. UNCHANGED <<nextId, task>> /\ savedAtMT \subseteq savedAtMT'
      BY <1>2 DEF Expire, Update, Save, mtVars
    <2>2. Settings'
      BY <1>2 DEF Expire, Update, Save, mtVars, TalkInv, Settings, Versions
    <2>3. KeepsSaved
      BY <2>1 DEF KeepsSaved
    <2> QED BY <2>1, <2>2, <2>3, Stutter
  <1> QED BY <1>1, <1>2, ServeKeeps DEF MTNext

LEMMA InitSound ==
  ASSUME MTInit
  PROVE  TalkInv
  <1>1. Unasked \in Task /\ Sound(Unasked)
    BY DEF Unasked, Task, Sound, Awaits, Live, Told, Asks, Completed
  <1>2. \A t \in Activations : task[t] = Unasked
    BY DEF MTInit
  <1>3. Numbered
    BY <1>2 DEF MTInit, Numbered, Unasked
  <1> QED BY <1>1, <1>2, <1>3 DEF MTInit, TalkInv, Settings

-----------------------------------------------------------------------------
(* The theorems. *)

\* The invariant holds in every state, and every step keeps what is saved.
THEOREM TalkInvariant == MTSpec => []TalkInv /\ [][KeepsSaved]_mtVars
  <1>1. MTInit => TalkInv
    BY InitSound
  <1>2. TalkInv /\ [MTNext]_mtVars => TalkInv' /\ KeepsSaved
    BY NextKeeps, AskedAssumption
  <1> QED BY <1>1, <1>2, PTL DEF MTSpec

\* A task completes with what MT answered to that task's own call - done if its
\* tool was carried out, declined if not - or with a request of MT's own under the
\* same number, for any tasks at once, whatever else a stream carries, and however
\* late MT acts (sendMcpMessage, newRequestId).
THEOREM ResultsAnswer == MTSpec => []ResultsAreAnswers
  <1>1. TalkInv => ResultsAreAnswers
    <2> SUFFICES ASSUME TalkInv PROVE ResultsAreAnswers
      OBVIOUS
    <2>1. MTTypeOK
      <3>1. ASSUME NEW t \in Activations
            PROVE  /\ task[t] \in Task /\ task[t].id \in 0 .. nextId - 1
                   /\ task[t].past \subseteq Nat \X Contents
        BY DEF TalkInv, Numbered, Task, Heard
      <3> QED BY <3>1 DEF TalkInv, Settings, Numbered, MTTypeOK, Task
    <2>2. ASSUME NEW t \in Activations, task[t].op \notin {"none", "tools"}
          PROVE  /\ task[t].value \in {"none", "failed", "done", "declined", "request"}
                 /\ task[t].value = "done" => task[t].did
                 /\ task[t].value = "declined" => ~task[t].did
      <3>1. Sound(task[t]) /\ task[t] \in Task
        BY DEF TalkInv
      <3>2. CASE task[t].wait = "over"
        BY <2>2, <3>1, <3>2 DEF Sound, Completed
      <3>3. CASE task[t].wait # "over"
        BY <2>2, <3>1, <3>3 DEF Sound, Awaits, Live, Unasked, Task
      <3> QED BY <3>2, <3>3
    <2> QED BY <2>1, <2>2 DEF ResultsAreAnswers
  <1> QED BY <1>1, TalkInvariant, PTL

\* A workspace that MT keeps saved is deleted only by a close that was forced or
\* that MT had told it is not saved, for any tasks, workspaces and answers of MT
\* (apkMcpHandler, assertSafeToDelete, resolveToolName).
THEOREM OnlyCheckedDeletes == MTSpec => SavedWorkspacesKept
  <1> QED BY TalkInvariant, PTL DEF SavedWorkspacesKept, KeepsSaved

=============================================================================
