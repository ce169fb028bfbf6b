------------------------------- MODULE Tools --------------------------------
(***************************************************************************)
(* The process agents: apktool, apksigner, adb, jadx, apkid, frida and     *)
(* filesystem (src/modules/mcp/agents).  Each operation is an async        *)
(* handler that starts programs which read and write one workspace's       *)
(* files; handlers of different tasks interleave at every await, and so do *)
(* the programs.  Tasks come in workflows, one after the other with        *)
(* mergePreviousResult, and workflows run side by side.                    *)
(*                                                                         *)
(* The decoded project has one source file, a sequence of tokens.  What a  *)
(* program does between two turns of its handler is an action of its own.  *)
(***************************************************************************)
EXTENDS Naturals, Sequences, FiniteSets, TLC

CONSTANTS
  Chains,     \* workflows
  Worlds,     \* what they may be, and the programs they find: a set of
              \* [plan: [Chains -> sequences of steps], host: Hosts]
  Source,     \* [names of APKs on disk -> the text of their source file]
  MaxResults, \* a search stops at this many matches
  MaxNow      \* last millisecond in which a trace starts

IsSequence(s) == s \in Seq({s[i] : i \in DOMAIN s})

ASSUME ToolAssumption ==
  /\ \A w \in Worlds : /\ DOMAIN w.plan = Chains /\ \A c \in Chains : IsSequence(w.plan[c])
                       /\ w.host.signer \in {"sdk", "lite"}
  /\ {MaxResults, MaxNow} \subseteq Nat
  /\ MaxResults > 0

VARIABLES
  plan,     \* the workflows' steps
  host,     \* what is installed: the kind of apksigner, and zipalign or not
  disk,     \* APK files: path -> what the file holds
  project,  \* apktool/decode, the decoded project
  sources,  \* jadx/, the decompiled classes
  keystore, \* does the debug keystore exist?
  flavor,   \* detectedFlavor of apksigner.agent.ts
  scripts,  \* frida/scripts: millisecond -> the scripts of which the file has text
  clock,    \* Date.now()
  saved,    \* outputs saved by withSavedOutput: task -> record
  device,   \* the app on the device, and the task that installed it
  at,       \* where each workflow is
  step,     \* its current step
  prev,     \* the result of the step before
  work,     \* the local variables of the current task's handler
  tries,    \* attempts at its current step
  log,      \* history: the tasks in the order of their starts
  met       \* history: pairs of tasks that were at work at the same time

packages == <<disk, keystore, flavor>>
decoded  == <<project, sources>>
captures == <<scripts, clock, saved>>
files == <<packages, decoded, captures, device>>
vars == <<plan, host, files, at, step, prev, work, tries, log, met>>

-----------------------------------------------------------------------------
(* Paths and files.                                                        *)

Given(n)  == <<"given", n>>
BuildPath(n) == <<"build", n>>
SignedPath(n) == <<"signed", n>>
ProjectDir == <<"decode", "">>
NoPath == <<"none", "">>

IsApk(p) == p[1] \in {"given", "build", "signed"}

Apk(text) == [text |-> text, whole |-> TRUE, signed |-> FALSE, by |-> 0]
Partial(t) == [Apk(<< >>) EXCEPT !.whole = FALSE, !.by = t]

\* A directory, or a list of records by their names, with one set.
Put(f, name, value) == [n \in DOMAIN f \cup {name} |-> IF n = name THEN value ELSE f[n]]

\* The file p, opened by task t's program, and written to its end as f.  A
\* file that was removed meanwhile stays removed; one that another program
\* has opened too is garbled.
Opened(p, t) == Put(disk, p, Partial(t))
Closed(p, t, f) ==
  IF p \notin DOMAIN disk THEN disk
  ELSE Put(disk, p, IF disk[p].by = t THEN f ELSE Partial(0))
Removed(p) == [q \in DOMAIN disk \ {p} |-> disk[q]]
Whole(p) == p \in DOMAIN disk /\ disk[p].whole

NoProject == [exists |-> FALSE, marked |-> FALSE, source |-> FALSE, text |-> << >>, made |-> 0]

Exists(p) == p \in DOMAIN disk \/ (p = ProjectDir /\ project.exists)

\* What the checks of build and patch ask for: a directory with apktool.yml.
IsProject(p) == p = ProjectDir /\ project.exists /\ project.marked

-----------------------------------------------------------------------------
(* applyTextPatch(): plain text, found once or, with `all`, anywhere.      *)

Places(text, find) == {i \in DOMAIN text : text[i] = find}

Patchable(text, s) == \/ Cardinality(Places(text, s.find)) = 1
                      \/ Places(text, s.find) # {} /\ s.all

Patched(text, s) == [i \in DOMAIN text |-> IF text[i] = s.find THEN s.replace ELSE text[i]]

\* The search worker: the first matches in the order of the lines.
Found(text, find) ==
  LET hits == Places(text, find)
  IN  [lines     |-> {i \in hits : Cardinality({j \in hits : j <= i}) <= MaxResults},
       truncated |-> Cardinality(hits) >= MaxResults]

-----------------------------------------------------------------------------
(* Tasks, and the workflows they are steps of.                             *)

Step(c) == plan[c][step[c]]

\* payloadFor(): the result before is merged in, and wins.
Payload(c) == prev[c] @@ Step(c).payload

\* a ?? b ?? c
FirstOf(p, keys) ==
  IF \E i \in DOMAIN keys : keys[i] \in DOMAIN p
  THEN p[keys[CHOOSE i \in DOMAIN keys : keys[i] \in DOMAIN p
                       /\ \A j \in 1..(i - 1) : keys[j] \notin DOMAIN p]]
  ELSE NoPath

Idle == [task |-> 0, path |-> NoPath, out |-> NoPath, before |-> << >>, text |-> << >>,
         made |-> 0, now |-> 0, failed |-> FALSE]

Over == {"ended", "failed"}
Goto(c, place) == at' = [at EXCEPT ![c] = place]

\* The handler goes on at `place` with its locals w.
Await(c, place, w) ==
  /\ Goto(c, place)
  /\ work' = [work EXCEPT ![c] = w]
  /\ UNCHANGED <<plan, host, step, prev, tries, log, met>>

\* It returns, and the workflow dispatches its next step.
Returns(c, result) ==
  /\ prev' = [prev EXCEPT ![c] = result]
  /\ step' = [step EXCEPT ![c] = @ + 1]
  /\ tries' = [tries EXCEPT ![c] = 0]
  /\ Goto(c, IF step[c] = Len(plan[c]) THEN "ended" ELSE "between")
  /\ log' = [log EXCEPT ![work[c].task].outcome = "done"]
  /\ work' = [work EXCEPT ![c] = [Idle EXCEPT !.task = work[c].task]]
  /\ UNCHANGED <<plan, host, met>>

\* It throws, and the workflow has failed.
Throws(c) ==
  /\ Goto(c, "failed")
  /\ log' = [log EXCEPT ![work[c].task].outcome = "failed"]
  /\ UNCHANGED <<plan, host, step, prev, work, tries, met>>

\* The task of c's next step is created and its handler makes its checks.
\* What `passes` goes on at `place` with the locals w, the rest is refused.
Begin(c, passes, place, w) ==
  LET t == Len(log) + 1
  IN  /\ at[c] = "between"
      /\ log' = Append(log, [chain |-> c, step |-> Step(c), made |-> project.made, out |-> w.out,
                             outcome |-> IF passes THEN "running" ELSE "refused"])
      /\ met' = met \cup {{t, work[d].task} : d \in {d \in Chains \ {c} :
                            at[d] \notin Over /\ work[d].task # 0}}
      /\ work' = [work EXCEPT ![c] = [w EXCEPT !.task = t]]
      /\ tries' = [tries EXCEPT ![c] = @ + 1]
      /\ Goto(c, IF passes THEN place ELSE "failed")
      /\ UNCHANGED <<plan, host, step, prev, files>>

\* Mutant of Retry: it goes on with the next step.
RetryNext(c) ==
  /\ at[c] = "failed" /\ tries[c] < Step(c).maxAttempts /\ step[c] < Len(plan[c])
  /\ step' = [step EXCEPT ![c] = @ + 1]
  /\ Goto(c, "between")
  /\ UNCHANGED <<plan, host, files, prev, tries, work, log, met>>

\* The job's next attempt.
Retry(c) ==
  /\ at[c] = "failed" /\ tries[c] < Step(c).maxAttempts
  /\ Goto(c, "between")
  /\ UNCHANGED <<plan, host, files, step, prev, tries, work, log, met>>

-----------------------------------------------------------------------------
(* apktool: decode.  `apktool d -f` clears the directory and fills it.     *)

Decode(c) ==
  LET p == FirstOf(Payload(c), <<"apkPath">>)
  IN  /\ Step(c).op = "decode"
      /\ Begin(c, p \in DOMAIN disk, "clearing", [Idle EXCEPT !.path = p])

ClearProject(c) ==
  /\ at[c] = "clearing"
  /\ project' = NoProject
  /\ Await(c, "unpacking", work[c])
  /\ UNCHANGED <<packages, sources, captures, device>>

Unpack(c) ==
  /\ at[c] = "unpacking" /\ Whole(work[c].path)
  /\ project' = [exists |-> TRUE, marked |-> FALSE, source |-> TRUE,
                 text |-> disk[work[c].path].text, made |-> work[c].task]
  /\ Await(c, "marking", work[c])
  /\ UNCHANGED <<packages, sources, captures, device>>

\* apktool.yml comes last.
MarkProject(c) ==
  /\ at[c] = "marking"
  /\ project' = [project EXCEPT !.exists = TRUE, !.marked = TRUE]
  /\ Await(c, "listing", work[c])
  /\ UNCHANGED <<packages, sources, captures, device>>

\* listFilesCapped() reads a directory that another decode may have removed.
ListProject(c) ==
  /\ at[c] = "listing"
  /\ IF project.exists THEN Returns(c, [outputDir |-> ProjectDir]) ELSE Throws(c)
  /\ UNCHANGED files

-----------------------------------------------------------------------------
(* apktool: patch.                                                         *)

Patch(c) ==
  LET dir == FirstOf(Payload(c), <<"projectDir", "inputDir", "outputDir">>)
  IN  /\ Step(c).op = "patch"
      /\ Begin(c, IsProject(dir), "resolving", Idle)

\* realpath() and stat().
ResolveSource(c) ==
  /\ at[c] = "resolving"
  /\ IF project.source THEN Await(c, "reading", work[c]) ELSE Throws(c)
  /\ UNCHANGED files

\* readFile(), and the edit in memory.
ReadSource(c) ==
  /\ at[c] = "reading"
  /\ IF project.source /\ Patchable(project.text, Step(c))
     THEN Await(c, "opening", [work[c] EXCEPT !.before = project.text,
                                              !.text = Patched(project.text, Step(c))])
     ELSE Throws(c)
  /\ UNCHANGED files

\* writeFile() empties the file first ...
OpenSource(c) ==
  /\ at[c] = "opening"
  /\ \/ /\ project.exists
        /\ project' = [project EXCEPT !.source = TRUE, !.text = << >>]
        /\ Await(c, "writing", [work[c] EXCEPT !.made = project.made])
     \/ ~project.exists /\ Throws(c) /\ UNCHANGED project
  /\ UNCHANGED <<packages, sources, captures, device>>

\* Is the file that it opened still the one in the project?
StillOpen(c) == project.exists /\ project.made = work[c].made

\* Mutant of WriteSource: the text it had read is written.
WriteSourceUnedited(c) ==
  /\ at[c] = "writing"
  /\ project' = IF StillOpen(c) THEN [project EXCEPT !.text = work[c].before] ELSE project
  /\ IF Step(c).op = "patch" THEN Await(c, "saving", work[c]) ELSE Returns(c, << >>)
  /\ UNCHANGED <<packages, sources, captures, device>>

\* ... and fills it, although it may have been removed since.
WriteSource(c) ==
  /\ at[c] = "writing"
  /\ project' = IF StillOpen(c) THEN [project EXCEPT !.text = work[c].text] ELSE project
  /\ IF Step(c).op = "patch" THEN Await(c, "saving", work[c]) ELSE Returns(c, << >>)
  /\ UNCHANGED <<packages, sources, captures, device>>

-----------------------------------------------------------------------------
(* withSavedOutput(): one file per task, and no failure if it can't be     *)
(* written.                                                                *)

\* What the handler has to save.
Record(c) ==
  CASE Step(c).op = "patch" -> [before |-> work[c].before, after |-> work[c].text]
    [] Step(c).op = "trace" -> [ran |-> work[c].text, now |-> work[c].now]
    [] OTHER                -> [hits |-> work[c].text]

\* Mutant of SavedAs: named for the step of the workflow.
SavedAsStep(c) == step[c]

SavedAs(c) == work[c].task

SaveOutput(c) ==
  LET rest == IF Step(c).op = "patch" THEN [projectDir |-> ProjectDir] ELSE << >>
  IN  /\ at[c] = "saving"
      /\ \/ /\ saved' = Put(saved, SavedAs(c), Record(c))
            /\ Returns(c, [outputPath |-> <<"saved", "json">>] @@ rest)
         \/ Returns(c, rest) /\ UNCHANGED saved
      /\ UNCHANGED <<packages, decoded, scripts, clock, device>>

-----------------------------------------------------------------------------
(* apktool: build.                                                         *)

Build(c) ==
  LET dir == FirstOf(Payload(c), <<"inputDir", "projectDir", "outputDir">>)
  IN  /\ Step(c).op = "build"
      /\ Begin(c, IsProject(dir), "packing", [Idle EXCEPT !.out = BuildPath(Step(c).name)])

\* apktool reads the project ...
Pack(c) ==
  /\ at[c] = "packing" /\ project.source
  /\ disk' = Opened(work[c].out, work[c].task)
  /\ Await(c, "assembling", [work[c] EXCEPT !.text = project.text])
  /\ UNCHANGED <<keystore, flavor, decoded, captures, device>>

\* ... and has written the APK.
Assemble(c) ==
  /\ at[c] = "assembling"
  /\ disk' = Closed(work[c].out, work[c].task, Apk(work[c].text))
  /\ Returns(c, [outputPath |-> work[c].out])
  /\ UNCHANGED <<keystore, flavor, decoded, captures, device>>

-----------------------------------------------------------------------------
(* apksigner: sign.                                                        *)

AlignedPath(t) == <<"aligned", t>>
SignInput(c) == FirstOf(Payload(c), <<"apkPath", "outputPath">>)

\* The output is named for the input, unless the step names it.
SignOutput(c) ==
  SignedPath(IF "outputName" \in DOMAIN Payload(c) THEN Payload(c).outputName ELSE SignInput(c)[2])

Sign(c) ==
  LET p == SignInput(c)
      o == SignOutput(c)
  IN  /\ Step(c).op = "sign"
      /\ Begin(c, p \in DOMAIN disk /\ IsApk(p) /\ o # p, "replacing",
               [Idle EXCEPT !.path = p, !.out = o])

\* Mutant of RemoveOutput: apksigner will replace it.
RemoveOutputLater(c) ==
  /\ at[c] = "replacing"
  /\ Await(c, "detecting", work[c])
  /\ UNCHANGED files

\* rm(output, force).
RemoveOutput(c) ==
  /\ at[c] = "replacing"
  /\ disk' = Removed(work[c].out)
  /\ Await(c, "detecting", work[c])
  /\ UNCHANGED <<keystore, flavor, decoded, captures, device>>

\* ensureKeystore() looks for the key in the turn that has the flavor.
AfterFlavor(f) == IF f = "lite" THEN "lite" ELSE IF keystore THEN "aligning" ELSE "keying"

\* signerFlavor(): what was detected is remembered.
DetectFlavor(c) ==
  /\ at[c] = "detecting"
  /\ flavor' = IF flavor = "unknown" THEN host.signer ELSE flavor
  /\ Await(c, AfterFlavor(flavor'), work[c])
  /\ UNCHANGED <<disk, keystore, decoded, captures, device>>

\* A program that could not be asked within its deadline counts as lite.
MistakeFlavor(c) ==
  /\ at[c] = "detecting" /\ flavor = "unknown"
  /\ flavor' = "lite"
  /\ Await(c, "lite", work[c])
  /\ UNCHANGED <<disk, keystore, decoded, captures, device>>

\* keytool refuses to make a key that is there.
MakeKey(c) ==
  /\ at[c] = "keying"
  /\ keystore' = TRUE
  /\ IF keystore THEN Throws(c) ELSE Await(c, "aligning", work[c])
  /\ UNCHANGED <<disk, flavor, decoded, captures, device>>

\* zipalign, into a file named for the task; without it the input is signed.
Align(c) ==
  LET p == work[c].path
      t == work[c].task
  IN  /\ at[c] = "aligning"
      /\ IF host.zipalign
         THEN /\ Whole(p)
              /\ disk' = Put(disk, AlignedPath(t), disk[p])
              /\ Await(c, "signing", [work[c] EXCEPT !.path = AlignedPath(t)])
         ELSE Await(c, "signing", work[c]) /\ UNCHANGED disk
      /\ UNCHANGED <<keystore, flavor, decoded, captures, device>>

\* apksigner sign opens its output; the lite one aligns too, and makes the
\* key when there is none.
OpenOutput(c) ==
  /\ at[c] \in {"signing", "lite"} /\ Whole(work[c].path)
  /\ at[c] = "lite" => host.signer = "lite"
  /\ disk' = Opened(work[c].out, work[c].task)
  /\ keystore' = TRUE
  /\ Await(c, IF at[c] = "lite" THEN "litesigned" ELSE "signed",
           [work[c] EXCEPT !.text = disk[work[c].path].text])
  /\ UNCHANGED <<flavor, decoded, captures, device>>

SignFile(c) ==
  /\ at[c] \in {"signed", "litesigned"}
  /\ disk' = Closed(work[c].out, work[c].task,
                    [Apk(work[c].text) EXCEPT !.signed = TRUE])
  /\ IF at[c] = "signed" THEN Await(c, "tidying", work[c])
     ELSE Returns(c, [outputPath |-> work[c].out, apkPath |-> work[c].out])
  /\ UNCHANGED <<keystore, flavor, decoded, captures, device>>

\* finally: rm the aligned copy, whether apksigner succeeded or not.
Tidy(c) ==
  /\ at[c] = "tidying"
  /\ disk' = Removed(AlignedPath(work[c].task))
  /\ IF work[c].failed THEN Throws(c) ELSE Await(c, "verifying", work[c])
  /\ UNCHANGED <<keystore, flavor, decoded, captures, device>>

Verify(c) ==
  LET o == work[c].out
  IN  /\ at[c] = "verifying"
      /\ IF Whole(o) /\ disk[o].signed
         THEN Returns(c, [outputPath |-> o, apkPath |-> o])
         ELSE Await(c, "discarding", work[c])
      /\ UNCHANGED files

Discard(c) ==
  /\ at[c] = "discarding"
  /\ disk' = Removed(work[c].out)
  /\ Throws(c)
  /\ UNCHANGED <<keystore, flavor, decoded, captures, device>>

-----------------------------------------------------------------------------
(* adb, and the other programs that only read files or change the device.  *)

Install(c) ==
  LET p == FirstOf(Payload(c), <<"apkPath">>)
  IN  /\ Step(c).op = "install"
      /\ Begin(c, p \in DOMAIN disk, "installing", [Idle EXCEPT !.path = p])

\* adb reads the file, and a device takes only what is signed.
InstallApk(c) ==
  LET p == work[c].path
  IN  /\ at[c] = "installing" /\ Whole(p) /\ disk[p].signed
      /\ device' = [app |-> disk[p].text, task |-> work[c].task]
      /\ Returns(c, [apkPath |-> p])
      /\ UNCHANGED <<packages, decoded, captures>>

DeviceCommands == {"devices", "packages", "uninstall", "shell", "logcat", "pull"}
FridaCommands  == {"list-devices", "list-processes", "start-server", "stop-server"}
FileCommands   == {"push", "push-server", "identify"}

\* An operation that is one command; some need the file they are given.
Command(c, ops) ==
  LET p == FirstOf(Payload(c), <<"localPath", "apkPath">>)
  IN  /\ Step(c).op \in ops
      /\ Begin(c, Step(c).op \in FileCommands => p \in DOMAIN disk, "commanding",
               [Idle EXCEPT !.path = p])

CommandEnds(c) ==
  /\ at[c] = "commanding"
  /\ device' = IF Step(c).op = "uninstall" THEN [app |-> << >>, task |-> 0] ELSE device
  /\ Returns(c, << >>)
  /\ UNCHANGED <<packages, decoded, captures>>

\* jadx adds to what earlier decompiles of the workspace left.
Decompile(c) ==
  LET p == FirstOf(Payload(c), <<"apkPath">>)
  IN  /\ Step(c).op = "decompile"
      /\ Begin(c, p \in DOMAIN disk, "decompiling", [Idle EXCEPT !.path = p])

Decompiled(c) ==
  /\ at[c] = "decompiling" /\ Whole(work[c].path)
  /\ sources' = sources \cup {disk[work[c].path].text[i] : i \in DOMAIN disk[work[c].path].text}
  /\ Returns(c, [outputDir |-> <<"jadx", "">>])
  /\ UNCHANGED <<packages, project, captures, device>>

-----------------------------------------------------------------------------
(* frida: trace.  The script's file is named for the millisecond.          *)

Trace(c) == Step(c).op = "trace" /\ Begin(c, TRUE, "scripting", Idle)

\* writeFile() empties the file first ...
OpenScript(c) ==
  /\ at[c] = "scripting"
  /\ \E now \in clock..MaxNow :
       /\ clock' = now
       /\ scripts' = Put(scripts, now, {})
       /\ Await(c, "filling", [work[c] EXCEPT !.now = now])
  /\ UNCHANGED <<packages, decoded, saved, device>>

\* ... and writes its script over what another trace has put there since, or
\* fails half way.
WriteScript(c) ==
  /\ at[c] = "filling"
  /\ \E rest \in SUBSET scripts[work[c].now] :
       scripts' = [scripts EXCEPT ![work[c].now] = {Step(c).script} \cup rest]
  /\ Await(c, "launching", work[c]) \/ Throws(c)
  /\ UNCHANGED <<packages, decoded, clock, saved, device>>

\* frida reads the file ...
Launch(c) ==
  /\ at[c] = "launching"
  /\ Await(c, "tracing", [work[c] EXCEPT !.text = scripts[work[c].now]])
  /\ UNCHANGED files

\* ... and ends, or is ended at its deadline, which is no failure.
TraceEnds(c) ==
  /\ at[c] = "tracing"
  /\ Await(c, "saving", work[c])
  /\ UNCHANGED files

-----------------------------------------------------------------------------
(* filesystem.  read, list and stat leave nothing behind; write and delete *)
(* are aimed at the project or at an APK of the workspace.                 *)

Look(c) ==
  /\ Step(c).op \in {"read", "list", "stat"}
  /\ Begin(c, Exists(Step(c).path) \/ Step(c).op = "stat",
           IF Exists(Step(c).path) THEN "looking" ELSE "answering", Idle)

\* What was there may be gone by now, and then the call is rejected.
Looked(c) ==
  /\ at[c] = "looking"
  /\ IF Exists(Step(c).path) THEN Returns(c, << >>) ELSE Throws(c)
  /\ UNCHANGED files

\* To stat or delete what does not exist is no error.
AnswersAbsent(c) ==
  /\ at[c] = "answering"
  /\ Returns(c, << >>)
  /\ UNCHANGED files

Write(c) == Step(c).op = "write" /\ Begin(c, TRUE, "making", [Idle EXCEPT !.text = Step(c).text])

\* mkdir(recursive) of the file's directory.
MakeParent(c) ==
  /\ at[c] = "making"
  /\ project' = [project EXCEPT !.exists = TRUE]
  /\ Await(c, "opening", work[c])
  /\ UNCHANGED <<packages, sources, captures, device>>

Delete(c) ==
  LET p == Step(c).path
  IN  /\ Step(c).op = "delete"
      /\ Begin(c, TRUE, IF Exists(p) THEN "deleting" ELSE "answering", [Idle EXCEPT !.out = p])

\* rm(recursive, force).
Deleted(c) ==
  LET p == work[c].out
  IN  /\ at[c] = "deleting"
      /\ IF p = ProjectDir THEN project' = NoProject /\ UNCHANGED disk
                           ELSE disk' = Removed(p) /\ UNCHANGED project
      /\ Returns(c, << >>)
      /\ UNCHANGED <<keystore, flavor, sources, captures, device>>

\* search and scan-secrets start a worker thread on the project.
Search(c) ==
  /\ Step(c).op \in {"search", "scan-secrets"}
  /\ Begin(c, project.exists, "searching", Idle)

\* The worker's message: matches, or its error for a directory that went.
Searched(c) ==
  /\ at[c] = "searching"
  /\ IF ~project.exists THEN Throws(c)
     ELSE IF Step(c).op = "search" THEN Returns(c, << >>)
     ELSE Await(c, "saving", [work[c] EXCEPT !.text = <<Found(project.text, Step(c).find)>>])
  /\ UNCHANGED files

-----------------------------------------------------------------------------
(* Programs and calls that fail, and programs killed at their deadline.    *)

\* Programs that execFile() gives no time limit, and calls of node:fs.
Untimed == {"clearing", "unpacking", "marking", "packing", "assembling", "installing",
            "commanding", "decompiling", "opening", "writing", "deleting", "scripting",
            "filling", "launching", "tracing"}

\* Mutant of Timed: nobody limits the search worker.
TimedButSearches == {"keying", "aligning", "signing", "signed", "lite", "litesigned", "verifying"}

\* Programs with a limit, of 120 seconds or less, and the worker thread.
Timed == TimedButSearches \cup {"searching"}

\* The program ends with an error or is killed: what it was writing stays as
\* it is, and signSdk() cleans up from its first try on.
Breaks(c) ==
  /\ at[c] \in Untimed \cup Timed
  /\ CASE at[c] \in {"signing", "signed"} -> Await(c, "tidying", [work[c] EXCEPT !.failed = TRUE])
       [] at[c] = "verifying"             -> Await(c, "discarding", work[c])
       [] OTHER                           -> Throws(c)
  /\ \/ UNCHANGED disk
     \/ at[c] = "aligning" /\ host.zipalign /\ disk' = Opened(AlignedPath(work[c].task), work[c].task)
  /\ UNCHANGED <<keystore, flavor, decoded, captures, device>>

-----------------------------------------------------------------------------
Init ==
  /\ \E w \in Worlds : plan = w.plan /\ host = w.host
  /\ disk = [p \in {Given(n) : n \in DOMAIN Source} |-> Apk(Source[p[2]])]
  /\ project = NoProject
  /\ sources = {}
  /\ keystore = FALSE
  /\ flavor = "unknown"
  /\ scripts = << >>
  /\ clock = 1
  /\ saved = << >>
  /\ device = [app |-> << >>, task |-> 0]
  /\ at = [c \in Chains |-> IF plan[c] = << >> THEN "ended" ELSE "between"]
  /\ step = [c \in Chains |-> 1]
  /\ prev = [c \in Chains |-> << >>]
  /\ work = [c \in Chains |-> Idle]
  /\ tries = [c \in Chains |-> 0]
  /\ log = << >>
  /\ met = {}

ApktoolHandler(c)    == Decode(c) \/ Patch(c) \/ Build(c)
AdbHandler(c)        == Install(c) \/ Command(c, DeviceCommands \cup {"push"})
FridaHandler(c)      == Trace(c) \/ Command(c, FridaCommands \cup {"push-server"})
ApkidHandler(c)      == Command(c, {"identify"})
FilesystemHandler(c) == Look(c) \/ Write(c) \/ Delete(c) \/ Search(c)

\* execute(): the handler of the step's agent is called.
Execute(c) ==
  /\ at[c] = "between"
  /\ \/ ApktoolHandler(c) \/ Sign(c) \/ AdbHandler(c) \/ FridaHandler(c)
     \/ Decompile(c) \/ ApkidHandler(c) \/ FilesystemHandler(c)

\* What comes to an end by itself: turns, calls of node:fs, limited programs.
Turn(c) ==
  \/ Execute(c)
  \/ ListProject(c)
  \/ ResolveSource(c) \/ ReadSource(c) \/ OpenSource(c) \/ WriteSource(c) \/ SaveOutput(c)
  \/ RemoveOutput(c) \/ DetectFlavor(c) \/ MistakeFlavor(c) \/ MakeKey(c) \/ Align(c)
  \/ OpenOutput(c) \/ SignFile(c) \/ Tidy(c) \/ Verify(c) \/ Discard(c)
  \/ OpenScript(c) \/ WriteScript(c) \/ Launch(c) \/ TraceEnds(c)
  \/ Looked(c) \/ AnswersAbsent(c) \/ MakeParent(c) \/ Deleted(c)
  \/ at[c] \in Timed /\ Breaks(c)

\* What may take for ever.
Program(c) ==
  \/ ClearProject(c) \/ Unpack(c) \/ MarkProject(c)
  \/ Pack(c) \/ Assemble(c)
  \/ InstallApk(c) \/ CommandEnds(c) \/ Decompiled(c)
  \/ Searched(c)
  \/ at[c] \notin Timed /\ Breaks(c)

Next == \E c \in Chains : Turn(c) \/ Program(c) \/ Retry(c)

Spec == Init /\ [][Next]_vars /\ \A c \in Chains : WF_vars(Turn(c))

-----------------------------------------------------------------------------
(* Properties.                                                             *)

Tasks == DOMAIN log
Op(t) == log[t].step.op
Overlap(t, u) == {t, u} \in met

\* Handlers hold what their operation needs: a workflow at work is on its
\* latest task, an aligned copy or an opened file belongs to a task that was
\* started, and the project is the one some decode unpacked.
TypeOK ==
  /\ \A c \in Chains :
       /\ step[c] \in 1..(Len(plan[c]) + 1)
       /\ at[c] # "ended" => step[c] <= Len(plan[c])
       /\ work[c].task \in Tasks \cup {0}
       /\ at[c] \notin Over \cup {"between"} => log[work[c].task].outcome = "running"
  /\ \A p \in DOMAIN disk : disk[p].by \in Tasks \cup {0}
  /\ project.made \in {t \in Tasks : Op(t) = "decode"} \cup {0}
  /\ flavor \in {"unknown", "sdk", "lite"} /\ keystore \in BOOLEAN
  /\ DOMAIN saved \subseteq Tasks

\* Tasks that write the project's source.
Edits(t) == \/ Op(t) \in {"decode", "patch", "write"}
            \/ Op(t) = "delete" /\ log[t].out = ProjectDir

\* A patch that was reported as made is in the file until a decode, a write or
\* a delete of the project, or a patch that overlapped it: no later patch takes
\* it back but one that is to replace just that, whether it fails or not.  (A file
\* somebody has just opened is empty, and stays so if the write fails.)
PatchesKept ==
  /\ TypeOK
  /\ \A t \in Tasks : Op(t) = "patch" /\ log[t].outcome = "done" =>
       \/ Places(project.text, log[t].step.replace) # {}
       \/ project.source /\ project.text = << >>
       \/ \E u \in Tasks \ {t} :
            \/ Op(u) = "patch" /\ Overlap(t, u)
            \/ Op(u) = "patch" /\ u > t /\ log[u].step.find = log[t].step.replace
            \/ Op(u) # "patch" /\ Edits(u) /\ (u > t \/ Overlap(t, u))

\* The traces that were at work at the same time.
Beside(t) == {u \in Tasks \ {t} : Op(u) = "trace" /\ Overlap(t, u)}

\* What was saved for a task stays what that task did: a patch's record leads
\* from the text it found to the text it wrote, which the file still holds if
\* nobody has edited it since.  What ran in a trace that no other overlapped is
\* its own script; one of the same millisecond may have left an empty file, or a
\* mix of the two, but never the text of a trace that was not beside it.
RecordsTell ==
  \A t \in DOMAIN saved :
    LET s == log[t].step
        r == saved[t]
    IN  CASE s.op = "patch" ->
               /\ DOMAIN r = {"before", "after"}
               /\ Patchable(r.before, s) /\ r.after = Patched(r.before, s)
               /\ (\A u \in Tasks \ {t} : Edits(u) => u < t /\ ~Overlap(t, u))
                    => project.text = r.after
          [] s.op = "trace" ->
               /\ DOMAIN r = {"ran", "now"}
               /\ r.ran \subseteq {log[u].step.script : u \in {t} \cup Beside(t)}
               /\ Beside(t) = {} => r.ran = {s.script}
          [] OTHER -> s.op = "scan-secrets"

\* Of the tasks that write or delete one signed APK, the last one decides, if
\* none overlapped it: signed is what it says is signed, and where it failed
\* there is no APK to be taken for one, nor a whole aligned copy.  (One that was
\* refused has touched nothing; of a zipalign that was killed a partial copy stays.)
SignedOrGone ==
  \A t \in Tasks : Op(t) = "sign" =>
    /\ (\A u \in Tasks \ {t} : log[u].out = log[t].out => u < t /\ ~Overlap(t, u))
         => /\ log[t].outcome = "done" => Whole(log[t].out) /\ disk[log[t].out].signed
            /\ log[t].outcome = "failed" => ~Whole(log[t].out)
    /\ Whole(AlignedPath(t)) => log[t].outcome = "running"

\* What a workflow makes of the APK it starts from.
Intended(c) ==
  LET text[k \in 0..Len(plan[c])] ==
        IF k = 0 THEN << >>
        ELSE LET s == plan[c][k]
             IN  IF "apkPath" \in DOMAIN s.payload /\ s.payload.apkPath[1] = "given"
                 THEN Source[s.payload.apkPath[2]]
                 ELSE IF s.op = "patch" THEN Patched(text[k - 1], s) ELSE text[k - 1]
  IN  text[Len(plan[c])]

\* Does u write something of which a task of c's workflow reads?
Disturbs(u, c) ==
  /\ log[u].chain # c
  /\ \E t \in Tasks : log[t].chain = c /\ Overlap(t, u)
  /\ \/ Edits(u)
     \/ \E t \in Tasks : log[t].chain = c /\ log[t].out = log[u].out /\ log[u].out # NoPath

\* The app on the device is the one that its workflow was to make: decoded,
\* patched, built, signed and installed with the results handed from step to
\* step, also after failed attempts, if no other workflow's task has edited the
\* project or written one of its APKs meanwhile.
InstalledAsIntended ==
  LET c == log[device.task].chain
  IN  device.task # 0 =>
        \/ device.app = Intended(c)
        \/ \E u \in Tasks : Disturbs(u, c)

\* A task whose programs have a time limit, or that starts none, ends: a
\* program that hangs is killed, a trace that goes on is ended, and a search
\* that never answers is given up.
Limited(c) == /\ at[c] \notin Over \cup {"between"}
              /\ Step(c).op \in {"patch", "sign", "trace", "search", "scan-secrets",
                                 "read", "list", "stat", "write", "delete"}
LimitedTasksEnd == \A c \in Chains : Limited(c) ~> ~Limited(c)
=============================================================================
