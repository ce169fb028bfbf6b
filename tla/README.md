# Verification of the HexForge Gateway

HexForge Gateway is a Node.js/TypeScript server that lets AI clients and people
work on Android applications: it keeps *workspaces*, runs tools ("agents") as
*jobs* and chains of jobs as *workflows*, and records what the tools found
(*artifacts*, an *intelligence graph*, *findings*, *knowledge entries*).
This directory holds TLA+ models of its core, the configurations that
model-check them with TLC, and machine-checked proofs of theorems about them.
Paths below are relative to the repository, which lies under `src/`.

Contents

1. Inventory of the system
2. The models and how they correspond to the code
3. The runs: what is checked, with which bounds
4. Fairness
5. Findings
6. Proofs
7. What is only model-checked, and what is not modelled
8. Plan

## 1. Inventory of the system

One Node.js process. Every piece of state below lives in that process or in
its storage (local JSON files, or Supabase over HTTP); all concurrency is
interleaving of JavaScript turns at `await`s, and child processes or HTTP
calls that answer later.

| Part | State | Operations | Talks to |
|---|---|---|---|
| **Job Engine** `src/modules/jobs/` | `jobs` map, snapshots on their way to storage | `submit`, `runAttempt`, `hydrate`, `update`, `list` | orchestrator (calls, `mcp.task.updated` events), storage, Event Bus |
| **MCP orchestrator** `src/modules/mcp/orchestrator.ts` | `handlers`, `tasks` maps | `registerAgent`, `dispatch`, `execute`, `updateTask`, `getTask` | agents, Event Bus |
| **Workflow Engine** `src/modules/workflow/` | `workflows` map, one chain of awaits per run | `submit`, `resume`, `runStep`, `runSingle`, `runGroup`, `settle`, `hydrate` | Job Engine (calls, `job.updated`), storage, Event Bus |
| **Local storage** `src/providers/local-storage.provider.ts` | file per collection, parsed cache, lock chain per collection | `getRecord`, `findRecord`, `listRecords`, `upsertRecord(s)`, `deleteRecord` | every service |
| **Supabase client** `src/providers/supabase.client.ts` | remote tables | the same operations over HTTP, chosen per call by every service | every service |
| **Event Bus, WebSocket** `src/events/`, `src/core/websocket.ts` | listeners; sockets | `emit` (synchronous), `on`, `off`; `attachConnection` | all parts |
| **Workspaces** `src/modules/workspace/`, `src/api/v1/workspace.routes.ts` | `workspaces` collection | create, get-or-create by name, status | Inbox, CLI, plugins |
| **Artifacts** `src/artifacts/` | `artifacts` collection | `recordArtifact`, `missingArtifactIds`; recorder on task completion | orchestrator events, findings, graph |
| **Intelligence graph, indexers** `src/graph/` | `entities`, `edges` collections | `upsertEntity`, `addEdge`, `indexBatch`; Java and smali indexers | artifact events, findings |
| **Findings and verifier** `src/findings/` | `findings` collection | create, update, delete, `verifyFinding` | artifacts, graph, workspace files |
| **Knowledge** `src/modules/knowledge/` | `knowledge` collection | CRUD, search; an indexer that writes one entry per workflow run | workflow events |
| **AI chat** `src/modules/ai/`, `src/providers/ai.provider.ts` | conversation in `knowledge` entries | `chat`, `buildChatHistory`; provider fallbacks | knowledge, HTTP |
| **Inbox watcher** `src/modules/inbox/` | file sizes of the last poll, claimed names | `start`, `runOnce`, `claim` | file system, workspaces, workflows, knowledge |
| **Agents** `src/modules/mcp/agents/` | none, or per-call child processes and HTTP sessions | `apkmcp`, `filesystem`, `apktool`, `apksigner`, `jadx`, `adb`, `frida`, `apkid` | file system, tools, ApkMCP server |
| **Capability registry** `src/capabilities/` | capabilities and their providers | `register`, `providersOf`, `resolve` | routes, MCP server |
| **Plugins** `src/plugins/` | loaded plugins | `loadPlugins`; a webhook notifier and a strings example | Event Bus, registry, services |
| **MCP server** `src/mcp-server/` | HTTP sessions, requests in flight | `handleRequest`, `callTool`, `runJob` (submit, then poll) | the Gateway's REST API |
| **API routes** `src/api/v1/` | none | validation, then one call of a service | all services |
| **Report** `src/report/` | none | builds a Markdown report from artifacts and findings | artifacts, findings |
| **CLI** `scripts/hf/` | none | terminal client of the REST API | REST API |

### Behaviours that are hard, and the properties that answer them

* **Answers that come early or late.** A task can settle before anyone
  listens to it (`job-engine.ts:127-155`), a retry starts inside the listener of
  the attempt it replaces. *Properties*: `AttemptsInStep` (its parts
  `OneOpenAttempt`, `ListensInTime`, `NoStrayTask`), `OutcomeEarned`, `SettledForGood`,
  `JobsSettle`.
* **Fire-and-forget persistence.** Every snapshot is handed to storage without
  waiting; a failure is only logged; a crash may fall between any two.
  *Properties*: `LatestSnapshotSurvives`, and the refinements
  `ImplementsJobSpec` and `ImplementsWorkflowSpec`.
* **Chains of awaits that share a record.** A workflow's steps, the parallel
  branches of a group and a resume all update one workflow object around awaits.
  *Properties*: `RunsAccountFor` (`OneRunWhileRunning`, `LiveJobsAwaited`),
  `WorkInOrder` (`StepsInOrder`, `GroupBarrier`), `ResultsKept`, `ReportedOnce`, `RunsEnd`,
  and the refuted `FailedIsResumable`.
* **Read, modify and write of whole files** by concurrent callers, with a cache
  that readers fill without a lock. *Properties*: `WritesKept` (refuted where a first
  read overlaps a write), `OnlyLateReadsUndo` (that nothing else drops a write),
  `ReadsAreFresh`, `CallsEnd`, `ImplementsStoreSpec`.
* **References across collections.** Artifacts, entities, edges and findings are
  four files, and every service reads, awaits and writes. *Properties*:
  `ReferencesHold` (with `ConfirmedHasEvidence`), `ReportsTell`, `LostToStaleReads`.
* **A timer that does not wait** for the work it started: inbox ticks overlap and
  share their bookkeeping, and create workspaces that clients create too.
  *Properties*: `NothingLost`, `DropsLand`.
* **Calls that outlive those who wait for them.** A tool call over MCP submits a job
  and polls it against a deadline, over a network that loses requests and answers,
  from a Gateway that may restart. *Properties*: `OneJobPerCall`, `OutcomesAreTrue`,
  `EveryRequestAnswered`.
* **A conversation kept as records**, cut into turns by position, while requests store,
  change and delete them and providers fail. *Properties*: `HistoryIsRecentTalk`,
  `ConversationsHold` (`PromptNotInHistory`, `RepliesFollowQuestions`), `AlternatesUndisturbed`.
* **A server that answers as it likes**: event streams that never end, carry other
  messages or fall silent, a phone whose app is updated behind a cache.
  *Properties*: `ResultsAreAnswers`, `SavedWorkspacesKept`, `TasksSettle`.
* **Programs that share a directory.** Decoding, patching, building, signing and installing
  are tasks that read and write the same files, some of them through programs that fail,
  hang or are killed half way, and are tried again. *Properties*: `PatchesKept`, `RecordsTell`,
  `SignedOrGone`, `InstalledAsIntended`, `LimitedTasksEnd`.
* **Listeners called inside emit().** They update records and so emit again before others
  have heard of the first event; they are added and removed meanwhile; and one that throws
  unwinds into the emitter. *Properties*: `NobodyOwed` (`ListenersPaired`,
  `SocketsUpToDate`), `ToldInOrder`, `SettledUnlessThrown`, and for plugins that fail while they
  are loaded `PluginsApart`.

`PROJECT.json` lists the hazards of this kind that the survey found, with the line at
which each bites and the properties that cover it, or why none does yet.

## 2. The models and how they correspond to the code

An action is one turn of the JavaScript event loop (but in `Events`, see there): everything a function does
up to its next `await`, with every function it calls and every Event Bus listener
it triggers (`emit()` is synchronous). What happens elsewhere between two turns (an
agent at work, a file system call, an HTTP request, a crash) is an action of its
own. `PROJECT.json` maps every definition to its lines.

| Module | Is | Extends / instantiates |
|---|---|---|
| `JobSpec` | what a job promises: live until it settles once; what a restart makes of its record | - |
| `JobEngine` | Job Engine, orchestrator, persistence of jobs | implements `JobSpec` |
| `JobEngineProofs` | theorems about `JobEngine`; what becomes of a job's snapshots; it implements `JobSpec` | extends `JobEngine`, `TLAPS` |
| `WorkflowSpec` | what a workflow promises: steps done in order, one outcome, resumable | - |
| `WorkflowEngine` | Workflow Engine and persistence of workflows; its jobs are those of `JobSpec` | implements `WorkflowSpec` |
| `WorkflowEngineProofs` | theorems about `WorkflowEngine` | extends `WorkflowEngine`, `TLAPS` |
| `StoreSpec` | one map, changed at once, flushed as a whole, that a late first read takes back | - |
| `LocalStorage` | one collection of the local store | implements `StoreSpec` |
| `LocalStorageProofs` | theorems about `LocalStorage`; it implements `StoreSpec` | extends `LocalStorage`, `TLAPS` |
| `Verifier` | the checks of one piece of evidence, and the report made of them, as operators | - |
| `Evidence` | artifacts, graph, indexers, findings over four cold collections that behave as `StoreSpec`, and their verification | extends `Verifier` |
| `EvidenceProofs` | theorems about `Evidence` and the verifier's reports | extends `Evidence`, `TLAPS` |
| `Inbox` | inbox watcher, workspaces and their clients | - |
| `InboxProofs` | theorems about `Inbox` | extends `Inbox`, `TLAPS` |
| `McpServer` | the MCP frontend process, both transports, its calls of the Gateway | instantiates `JobSpec` for the Gateway's jobs |
| `Chat` | knowledge entries, summaries, the chat and its history | - |
| `ChatProofs` | theorems about `Chat` | extends `Chat`, `TLAPS` |
| `ApkMcp` | the apkmcp agent and the MCP server on the phone | - |
| `Tools` | the agents that run programs, on one workspace's project, APKs, outputs and device | - |
| `AgentProofs` | theorems about what agents do: of `Tools`, and of `ApkMcp` | extends `Tools`, `ApkMcp`, `TLAPS` |
| `Events` | Event Bus, plugin loader, capability registry, orchestrator, job attempts, workspace status, WebSocket | - |
| `ClientProofs` | theorems about what clients hear: of `Events`, and of `McpServer` | extends `Events`, `McpServer`, `TLAPS` |
| `MC...` | constants of the instances that TLC explores | extends its module |

**`JobEngine`.** `jobs`, `tasks` are the two maps of the code; `attempt[j][n]` is
the position of the n-th activation of `runAttempt()` (awaiting `dispatch()`,
listening, over); `pending` holds the snapshots passed to `persistJob()`, `disk`
the collection. `Submit`, `AwaitReturns` (the second look at the task and the
subscription), `HandlerReturns` (the agent's answer, `updateTask`, and
`handleTerminal` when someone listens), `PersistJob`, `PersistFails`, `Crash`,
`Hydrate`, `HydrateFails`. A retry is a call of `RunAttempt` inside
`HandleTerminal`, in the same turn, as in the code. Payloads and results are
abstracted to the attempt that produced them. `Ordered` chooses between local
storage, whose lock applies writes in order, and Supabase.

**`WorkflowEngine`.** A *run* is one activation of `runStep()` with its chain of
awaits; `submit()` and `resume()` start one. `runs[r].listening` are the `settle()`
promises that are open, `resolved` those that have fired and whose continuation
has not run yet. `RunStep`, `RunSingle`, `RunGroup` are operators used inside the
turns that call them; `SingleSettled`, `BranchSettled`, `GroupSettled`, `Advance`
are the turns. Merged payloads are abstracted to the run a result came from.

**`LocalStorage`.** The parsed collection is a JavaScript object shared by whoever
holds a reference to it, so the model has a `heap` of parsed objects, and `cache`
and `data` are references into it: a mutation before a failed write is visible to
the next reader, as it is in the code. `queue` is the promise chain of the lock.
`use` says what the collection is used for, the same throughout. `jobs` and `workflows` are read
once at boot (`index.ts:103-105`) and only written after that (`hydrated`); every other collection
starts cold, and its first reads, which take no lock, may overlap writes: `CallRead`, `OpenFile`
and `FileRead` are three steps, and what the last puts into the cache may be older than a write
that has returned. `missed` and `past` remember which renames a read under way has missed and what the
file has been since boot; with `truth` and `view` they are history variables and influence nothing.
`StoreSpec` has such a read as its `Recall`: memory becomes what the file was at some time since boot.

**`Evidence`.** `work[p]` are the local variables of a chain of awaits: what it has
read, what it wants to write. One call of a service is a sequence read (with one
await per record, or one per batch as in `indexBatch`), merge, write. `mem` and
`disk` are the four collections, `due` what each file is about to be. None of the four is hydrated at boot, so that each
behaves as `StoreSpec` says of a cold one: `LateRead(c)` lets memory fall back, at any time, to anything the
file has been since boot (`past`), and the write that is next saves that. A restart falls back to the file.
`lost` is the set of collections whose memory has fallen back; what referred to those need not be there any more.
Ids made from names (entities, edges) are the things themselves; what a parser finds
in a file is the constant `Observes`. `VerifyFinding` is the read-only report of
`verifier.ts`, a function of the state; what lies on disk at an output's path is the
constant `OnDisk`.

**`Inbox`.** `seen` and `claiming` are the watcher's two collections; `at[t]` and
`work[t]` the position and local variables of a tick or of a client's call of
`getOrCreateWorkspace()`. `Fire` is the interval: it starts a tick whether or not
others are at work. `Sighted` is the turn after `stat()`, in which a file is
recorded or claimed. A move is `Rename` on one volume and `Copy`, `Unlink` across
two. A drop's number stands for its modification time.

**`McpServer`.** A process of its own, which the Gateway knows only as a client. `pc[c]`
is where the handler of a message stands: resolving the workspace, at the POST,
asking, or in the loop of `runJob()` (`polling` between polls, `reading` while a GET is under
way). The Gateway's jobs are the variables of `JobSpec`, which `JobEngine` is shown to
implement, and its `Settle`, `Record`, `Stop` and `Restart` happen between any two steps.
`Fail` stands for every way a request ends without its answer; `PostUnheard` for a POST that was
carried out and whose answer was lost. One poll that fails ends the call, so that
`gateway-client.ts:182-183` ("blocks until it settles") holds only while every poll is
answered; what the property claims is what the code keeps, that what is told is true.
A body past the limit is answered with a 413 that never arrives, because the
request is destroyed first: `AtOnce` gives it no answer, and it is not `Answerable`.

**`Chat`.** An entry is its id, type, author, time and length. `pc` and `about` are the
position and the local variables of a request: `chat()` is four awaits (listing,
asking, completing, the reply's creation). `BuildChatHistory` is `buildChatHistory()`: from the newest entry backwards, in
pairs, up to the turns and the characters allowed, each message truncated on its own. `disturbed`
notes whether something happened that the code's comment excludes.

**`ApkMcp`.** A task is one activation of `apkMcpHandler()`: `stage` is the request it is at,
`wait` whether its response, its event stream, or a stream past the deadline is awaited.
`Take` continues the handler with the message taken for the answer; each of the functions it
goes on to posts the next request or ends. MT is external: `Serve` carries out and answers the
last request at any time, also when nobody waits any more, `Update` and `Save` are its users.

**`Tools`.** A workflow is a plan of steps, each a task of one agent, tried as often as its
budget allows; `at[c]` is where the handler of workflow `c`'s current task stands, between two awaits,
`work[c]` its local variables and `prev[c]` the result that is merged into the next payload. The file
system is what the handlers can tell apart: the decoded `project`, with one source file of a few tokens and the
mark (`apktool.yml`) that `apktool d` writes last; APK files, each with the text packed into it and
whether it is signed; saved outputs, scripts by the millisecond, and the device. A file a program is writing is
`Partial`; one removed meanwhile stays removed, and one that two have opened is garbled. `writeFile()` is
two steps, one that empties the file and one that fills it (`OpenSource`, `WriteSource`; `OpenScript`,
`WriteScript`), so that a script file is the set of the scripts of which it has text: two traces of
one millisecond may leave one, both or none in it, and a write that fails half way leaves what it has written. What the
programs do is external; how they end is a choice: done, failed, or, where the code sets a limit
(`Timed`), killed. Listings, logs and device commands are one action each, because all they change
is their own task. `log` and `met` are histories.

**`Events`.** Here a turn is several steps, because who is called after whom inside `emit()` is the
question. `todo` is the call stack of the present turn, the innermost call first: an emission
puts a call of each listener there is at that moment on it, a listener what it does itself.
`Catch` items are the catch clauses, and `Unwind` drops the calls down to the nearest; `Nobody` is the
end of a promise that nobody awaits, where a throw ends the process. A turn begins
(`Submit`, `PostTask`, `HandlerReturns`, `Connect`, ...) when `todo` is empty. Records carry the
number of their updates, and `told` is the number each socket has seen last. A plugin is its
`Script`: the steps of its `register()`.

**Mutants.** Operators whose comment begins with "Mutant" are not part of the
model: each is a plausible bug in the definition it stands beside, and the property
paired with it in `PROJECT.json` is violated when it takes that definition's place.

## 3. The runs: what is checked, with which bounds

| Run | Instance | Shows |
|---|---|---|
| `jobs` | 2 jobs, 2 attempts each, local storage | every invariant, `SettledForGood`, `JobsSettle`, `JobSpec` implemented |
| `workflows` | 1 workflow of 2 steps, groups of 2 strict and tolerant, 2 runs | every invariant, action properties, `RunsEnd`, `WorkflowSpec` implemented |
| `workflow_resume` | 2 plain steps, 2 runs | *violates* `FailedIsResumable` |
| `storage` | a hydrated collection that is written (3 puts, a delete), or a cold one that is read too (2 puts and 2 reads; 2 puts, a delete and a read), 2 records | no write dropped and no stale read but for late first reads, `CallsEnd`, `StoreSpec` implemented |
| `storage_first_read` | 2 puts and a first read | *violates* `WritesKept` |
| `evidence` | 2 tasks of one output, 3 calls, 3 entities, 1 finding, 2 workspaces, late first reads of 1 collection | references until what they refer to has fallen back, confirmed findings, reports of verification, what overlapping writers and late reads may lose |
| `inbox` | 2 overlapping ticks, 3 files, 1 client, 1 fault | `NothingLost`, `DropsLand` |
| `mcp` | 2 messages of any kind, either transport, 3 job ids, 2 polls | one job per call, true outcomes, every request answered |
| `chat` | 4 requests of any kind, 2 at a time, histories of 2 turns and 6 characters | the history is the end of the talk, replies follow questions, alternation when undisturbed |
| `apkmcp` | a close beside a task of another kind, 1 workspace | saved workspaces kept, results are answers, tasks settle |
| `tools` | decode, patch, build, sign, install beside a second workflow of any kind, either apksigner | patches kept, records true, no unsigned APK left as signed, the intended app installed, limits kept |
| `events` | 6 plugins, a job of 2 attempts, a task without a job, 2 sockets, 1 throw | sockets told the present and in order, listeners paired, plugins loaded apart, outcomes final but for a throw |

`MCEvidence` also assumes, and TLC evaluates, `LocationsAreChecked`: over every pair of
entries a name may stand for and every way to give up to two lines, `CheckLocation`
verifies only lines that are there and leaves open only files that are not read.

Why these bounds are enough to be interesting. *Jobs* share nothing but storage
order, which is per job, so that two show every interaction; two attempts have a
first, a retry and a last one. *Workflows* share no state in the engine except
`up`; one suffices, with two steps to have an order, a group of two to have one
branch end before the other, and a second run for a resume. The hazards of a
*collection* need two records (one whose change is dropped), two writers and a
reader. In *Evidence* two indexers overlap on one entity and on one artifact, and two updates of a
finding each keep the field the other changes; late reads take one collection back, any number
of times, and restarts any (`MaxFallen`; the proofs of section 6 hold for every value of it). In *Inbox* a file of the same name
arrives while the first is being moved, and a second name makes a tick's loop go
on after a claim. In *McpServer* calls meet only in the Gateway's job ids; two polls
have a first, a last and, with none left, a deadline. In *Chat* four requests are two chats
with a third and something that disturbs them; a length of 3 is past the cap, so
that one, two or no turns fit. In *ApkMcp* tasks meet in the remembered names and in the
request numbers: a close, where both matter most, with a task of each other kind
(two closes at once are left out to keep the run short). The first request after
"initialize" has the number MT gives to a request of its own.
In *Tools* two workflows meet on one project: the loop as it is used, and one of each kind of
step that touches the same files (`MCWorlds` lists them). In *Events* one job with a retry has
every nesting of emissions; a second record of another workspace shows that a scoped socket is
not told of it; of the plugins one works and listens to ends, one breaks off, two are refused (one
operation twice, a bad capability id), one brings an agent, one is not enabled.

Type invariants are conjuncts of the first invariant of each run (`RunsAccountFor`,
`ReadsAreFresh`, `ReferencesHold`, `NothingLost`, `ConversationsHold`, `ResultsAreAnswers`, `PatchesKept`,
`NobodyOwed`); `jobs` checks its own by name, and `McpServer`'s is proved (section 6).

`MaxAttempts`, `MaxRuns`, `MaxSteps`, `MaxBranches`, `Full`, `MaxFaults`, `Patience`, `MaxCalls`,
`MaxOpen`, `MaxTurns`, `Budget`, `Cap`, `MaxResults`, `MaxNow`, `MaxThrows` and `MaxFallen` are the named bounds (`MaxTurns`,
`Budget` and `Cap` of `Chat`, and `MaxResults` of `Tools`, are limits of the code, made small; `MaxNow` bounds the clock
that names script files). Crashes and failed writes are unbounded in `JobEngine` and
`WorkflowEngine`; a job is submitted once (its id is fresh), and once it
has settled its snapshots run dry, so that these state spaces are finite without
a bound on faults. In `Inbox`, failed calls and restarts together are at most
`MaxFaults`. In `ApkMcp` MT is updated at most once, to the version with the new names.

`inbox` has two ticks at once. With three that wait for one `stat()` the first claims the file and
forgets that it was seen, the second puts that back, and the third, which looked at `claiming` before
all that, claims the file again while the first moves it: it may then be noted twice, or, across
volumes, a newer file of the name deleted. `StatIsPrompt` says that this does not happen: no three
ticks wait for a `stat()` of one file. It is an assumption about the file system
(three polls pass within one call), and under it `NothingLost` is proved for any number of ticks.

`jobs` holds for local storage (`Ordered = TRUE`). With Supabase the upserts of one job are
independent requests, and an earlier snapshot may be applied last (`job.service.ts:23`).

Deadlock is checked where the system cannot stop. `Evidence`, `Chat`, `ApkMcp`, `Tools` and `Events` set
`CHECK_DEADLOCK FALSE`: their tasks and calls are finite in number, and when all
are over nothing is left to do.

## 4. Fairness

Weak fairness is assumed of turns that are ready to run (the event loop starves
none), of storage calls (answered or rejected), of a boot (it ends, hydrated or
not) and of agents (`HandlerReturns`). Nothing is assumed of callers, of crashes, of
failures or of resumes.

That an agent answers is an assumption about it. A search worker and some child processes
have a timeout; jadx, apktool and adb have none, and one that never exits keeps its job
running: `JobsSettle` and `RunsEnd` do not hold of such a job, which their fairness
excludes. The apkmcp agent looks at its deadline only between chunks of an event stream
(`apkmcp.agent.ts:105-106`); `TasksSettle` shows that it answers all the same, given that
Node's fetch gives up on a body that is silent for minutes.

In `McpServer` a handler that can go on does: timers fire and a fetch ends one way or
another. Nothing is assumed of the Gateway, which need not settle any job nor come back. In
`ApkMcp` nothing is assumed of MT: a stream is either silent, and then fetch gives up on
it (`GiveUp`), or carries messages (`Chunk`, for the tasks in `Talking`), and then the clock
is seen to run (`Deadline`).

In `Tools` a workflow's turn is fair, but for programs without a limit: `LimitedTasksEnd`
speaks of tasks whose programs have one, and assumes that a timer fires and that a killed process
is gone. `Events` states no fairness and no liveness.

In `Inbox` a tick always has a turn to take, so that weak fairness of its turns is
that it takes infinitely many. Whether a file's writer ever finishes is open:
`DropsLand` speaks of files that lie complete in the folder.

## 5. Findings

Each is a run that TLC ends with a counterexample; `PROJECT.json` quotes the line
of the repository it contradicts.

1. **A failed workflow with nothing to resume** (`workflow_resume`,
   `workflow-engine.ts:175`). A restart between the last step's snapshot and the
   workflow's marks it failed; every step is complete, so that resume refuses.
2. **A first read can undo a write** (`storage_first_read`,
   `local-storage.provider.ts:89`). A reader opens the file before a writer renames
   its successor into place, and fills the cache with the old contents after it;
   the next write saves them. It concerns every collection but `jobs` and `workflows`;
   what it means for artifacts, the graph and findings is in `Evidence`.

Known limitations the models contain and no property denies:

* *Records.* Two tasks with one output may each record an artifact for it
  (`artifact.service.ts:18`); a client and the inbox watcher may each create a workspace of one name
  (`workspace.service.ts:87`), of which lookups return the first. Of two indexers that read one
  entity before either writes it, the later drops the artifact the other added
  (`graph.service.ts:207`), and a late first read (finding 2) drops whole records; `LostToStaleReads` allows
  just these, and a finding that cites what is gone then fails verification, which `verifier.ts:138-140` calls
  impossible. Snapshots over Supabase and three ticks at once, as said in section 3.
* *Chat.* A message is stored before the provider is asked and stays when it fails; pairs are
  counted by position, so that a later history may have two messages of the user in a row
  (`ai.service.ts:113`). `AlternatesUndisturbed` excludes failures for that reason.
* *Programs.* A killed `apksigner sign` may leave part of its output and a killed `zipalign` part of its
  aligned copy (the handler's own cleanup begins later, `apksigner.agent.ts:112-123`); a flavor
  detected as lite after a timeout is remembered; two traces of one millisecond share a script file, and either may
  run the other's script, a mix of both or an empty one (`frida.agent.ts:223-224`);
  a patch whose write fails leaves the file empty.
* *Listeners that throw.* A throw while a completed task is being told makes it fail and its job
  try again (`orchestrator.ts:87-95`); one on `job.created` leaves the job queued for ever; one outside
  any try block ends the process. That includes a listener for `plugin.failed`, emitted from the
  loader's catch clause, although a plugin is to take nothing down (`loader.ts:44-46`). None of the
  listeners in this repository throws.

## 6. Proofs

`JobEngineProofs` proves, for any set of jobs, any `MaxAttempts \in Nat \ {0}` and
either storage:

| Theorem | States |
|---|---|
| `TypeCorrect` | `Spec => []TypeOK` |
| `AttemptsOneAtATime` | `Spec => []OneOpenAttempt` |
| `NoLostWakeup` | `Spec => []ListensInTime` |
| `NoAgentOutlivesItsJob` | `Spec => []NoStrayTask` |
| `AttemptsKeepInStep` | `Spec => []AttemptsInStep`, the three above |
| `OutcomeIsEarned` | `Spec => []OutcomeEarned` |
| `SettledIsFinal` | `Spec => SettledForGood` |

The only assumptions are those the module states of its constants.

None of these invariants is inductive. `OneOpenAttempt` alone does not tell what
the task of the open attempt is doing, without which a handler's return could
close a stranger's attempt; `OutcomeEarned` needs to know that the attempts before the
last have been handled; and all of them must survive a restart, so that what is
on disk and on its way there matters. The inductive invariant `IInv` says
of each job, its tasks and its attempts that they are `Coherent`: a running job is
`Busy` (its latest attempt is open and every earlier one failed and is closed), any
other is `Over`, and *queued* is never seen between turns. It says of every
snapshot in memory, in the queue and on disk that it is `Sound` (attempts within its budget, a
completed one carrying its last attempt's result), and that nothing
survives in memory while the process is down.

The proof follows the code. `RunAttemptKeeps`, `EndKeeps` and `HandleTerminalKeeps`
are about the functions that several turns call, over the values they are called
with, including a retry's turn inside the handler of the attempt it replaces. One
lemma per action (`SubmitKeeps`, `AwaitReturnsKeeps`, `HandlerReturnsKeeps`,
`PersistKeeps`, `CrashKeeps`, `HydrateKeeps`) rests on them, `NextKeepsIInv`
collects them, and the theorems follow from `IInv` in a step each; `SettledIsFinal`
from `IInv` and a look at each action again.

The second part of `JobEngineProofs` proves, for local storage (`ASSUME Ordered`: the collection lock applies writes
in the order in which they were made) and otherwise as generally:

| Theorem | States |
|---|---|
| `LatestSurvives` | `Spec => []LatestSnapshotSurvives` |
| `KeepsItsPromise` | `Spec => Promise!Spec`: each step of the engine is a step or a stutter of `JobSpec` |

Without the order neither holds of the code: two upserts in flight at Supabase may be applied the wrong
way round. `IInv` says nothing of the order of snapshots, so `Trail` adds it: the queue of a job
ends with the job as it is, every snapshot before that is of a job in flight, storage has an
outcome only when no write is left, and has the job as it is when none is left and none
failed. `TurnSaves` shows that a turn only saves for a job in flight or a new one, and only its
last snapshot may be settled; that is what `SavesStaysOnTrail` needs to append to the queue.
`PersistStaysOnTrail` takes the head off it, `BootBeginsTrail` starts from a record or from
nothing. That `JobSpec` then allows each step (`SavesAsPromised`, `PersistAsPromised`,
`RestartAsPromised`) is a matter of what a job looks like from outside (`Looks`). The record never
goes back from an outcome because of `Trail`: a write that is left means that storage has none.

`WorkflowEngineProofs` proves, for any number of workflows, of steps, branches and runs, for any shape of
a workflow and, but for the last, either storage:

| Theorem | States |
|---|---|
| `WorkAccountedFor` | `Spec => []RunsAccountFor` |
| `StepsTakenInOrder` | `Spec => []WorkInOrder` |
| `CompletedIsKept` | `Spec => ResultsKept` |
| `EndIsReportedOnce` | `Spec => ReportedOnce` |
| `KeepsItsPromise` | `Ordered`: `Spec => ImplementsWorkflowSpec` |

`WorkInOrder` says nothing of what is on disk, from which a restart takes its workflows, nor of what
an activation is about to do. So `IInv` asks of every snapshot ever taken - in memory, in
the queue, on disk - that it is `Sound`: steps in front of one that was touched have completed with a
result, and a group has completed only when its branches have. Of every open run it asks that it is `Live`: its
workflow is running and stands at the run's step, and the run waits for exactly the jobs that its step or the
branches of its group have submitted. `RunsAlone` gives a workflow one open run, `LiveJobsAwaited` every live job a
run. The operators `RunStep`, `RunSingle` and `RunGroup` are proved once, over the
snapshot they are called with (`RunStepKeeps`, `RunSingleKeeps`, `RunGroupKeeps`), since a submission, a resume, a
step that ends and a group that ends all call them in the same turn. The two action
properties are proved beside the invariant, of each step.

`KeepsItsPromise` is about local storage (`Ordered`), for the reason given above. `IInv` says what each snapshot is,
not how they lie; `Course` adds that the record, the snapshots not yet written and the workflow
in memory each go at least as far (`Behind`) as the one before, and that a completed one ends the course. `Turn`
says of the snapshots of one turn that all are level and that only the last may say completed, and every lemma
`...Keeps` proves it beside `IInv`; from that `TurnStaysOnCourse` appends to the queue, `WriteStaysOnCourse` takes the
head off it, and `BootBeginsCourse` starts again from what `hydrate()` makes of a record. `WorkflowSpec` sees
how many steps are left, so its guards come from comparing sets of incomplete steps
(`LevelViewed`, `BehindViewed`, `FurtherViewed`); `SubmitAsPromised` to `RestartAsPromised` then take
one action each.

`LocalStorageProofs` proves, for any calls on any records, any failed reads and writes, any restarts and any use
of the collection, hydrated or cold:

| Theorem | States |
|---|---|
| `TypeCorrect` | `Spec => []TypeOK` |
| `OnlyLateReadsDropWrites` | `Spec => []OnlyLateReadsUndo` |
| `NoStaleRead` | `Spec => []ReadsAreFresh` |
| `CollectionIsAMap` | `Spec => ImplementsStoreSpec` |
| `NoWriteDropped` | `SafelyUsed`: `Spec => []WritesKept` |

The first four hold of every collection of the code, and say of late first reads exactly what they may
undo. The last needs `SafelyUsed` (hydrated at boot, or never read), under which no read of the file can come
back after a write of it. Only `jobs` and `workflows` are used so, and they are never read again: for all other collections
`WritesKept` is false, as `storage_first_read` shows (section 5). `IInv` says that only the head of the queue is at
work on the file (`Locked`), that nobody else has the object of an operation which is still reading (`Unshared`), that
what a writer finds cold no write has changed since boot, and that memory and all parsed copies hold what the file has
been (`Warming`). `Kept` gives for each record the values it may have: what the writes that returned made of it, what one did
whose caller knows no better, or what a late read has brought back; a reader that still holds something else is
`Missing` the rename of a write, so that its own return will account for it (`Seen`, `Promised`).

`EvidenceProofs` proves, for any tasks, calls and workspaces, any directories on disk and any
overlap of reads and writes, with failed writes, restarts and late first reads of any collections (any `MaxFallen`):

| Theorem | States |
|---|---|
| `ReferencesAreReal` | `Spec => []ReferencesHold` |
| `LossesAreStaleReads` | `Spec => LostToStaleReads` |
| `ReportsAreTrue` | `Spec => []ReportsTell` |

What a chain of awaits has read may be stale when it writes. What it relies on is not: `Grows` says
that no step takes away an artifact or an entity until its collection falls back to a file, so that what a chain has
checked (`Informed`: the artifacts it cites, the ends of its edge, the evidence it was given) is still so when it
writes. Since any collection may fall back at any time, the same must hold of all it may yet be, in memory, in the
write under way and in every past of its file (`Held`): each of these contents is `Sound` beside the artifacts and
entities in memory, and stays so while those grow (`SoundStays`). That a collection falls back makes what refers to
it unsound, which is why `lost` is a set: a lost edge or finding breaks no reference, and lost artifacts break none to
entities. Neither breaks the truth of the reports, which need only what is right of a content by itself (`Alone`: an
entity's artifacts are of its own workspace), nor `ConfirmedHasEvidence`, which holds of every content held. `CheckLocationTells`, `SummarizeTells` and `ReportTells` are about the operators of
`Verifier`. The proof corrected `ReportsTell`: an absolute name shows nothing, and
`sources/` stands in for a missing name only when the directory has not even a link of it, which TLC's two
directories had not told apart.

`InboxProofs` proves, for any number of ticks, clients, files, workspaces and faults, for behaviours in
which no three ticks wait for a `stat()` of one file at once (`[]StatIsPrompt`, section 3):

| Theorem | States |
|---|---|
| `NothingIsLost` | `Spec /\ []StatIsPrompt => []NothingLost` |

That a name is claimed by one tick at a time is not inductive, because `claiming` is looked at before
`stat()` and `seen` after it. `Exclusive` adds what saves it: while a name is claimed at most
one other tick still looks at the file, and does not find it in `seen`. A tick may also have heard of a
file that has been moved since, and find a new one of the name; `Outdated` says that
nobody else has heard of the old one and that `seen` does not agree, so that it is only recorded, never
claimed. `Kept` then has the claimed file in the folder until its own claim moves it
(`MovedKeeps`), which makes `unlink()` by name safe and a file's note its only one. `PlacedLands`,
`FoundIsStored` and `StatTells` are about the operators; `ClaimEnds` is about a note and a failed claim alike.

`AgentProofs` has two parts. The first is about `Tools` and proves, for any workflows side by side, plans of any
length, budgets, workspaces to start in, ways for programs to end and any signer that is there:

| Theorem | States |
|---|---|
| `ToolsInvariant` | `Spec => []IInv` |
| `PatchesAreKept` | `Spec => []PatchesKept` |
| `RecordsTellWhatWasDone` | `Spec => []RecordsTell` |
| `SignedIsSigned` | `Spec => []SignedOrGone` |

All three speak of tasks that are over; what makes them true are handlers in the middle of their awaits. `Base` says of
each thread which task it is at and that whatever was started since has met it (`Meetings`): `Overlap` is then
what the properties take it for, and a task that overlaps none has the files to itself. `Edited` carries a patch through its awaits: what a patch is
about to write is what it read, patched (`Patching`), and a patch that is made and not `Excused` is in the file *and in the text
of every other handler that is about to write it* (`Keeps`), without which the next write would take it back.
`Latest` has the file as the last record says. `Records` follows a trace's script from the file to what ran (`Tracing`): at every
spot the file has text only of the trace itself and of those `Beside` it, and with nobody beside it is empty until
the trace has written it and its own script from then on (`Ran`); a step that empties or fills another trace's file is of one that
is beside it.
`Signatures` says at each place of `signSdk()` and `signLite()` what lies at the output of a task that has it alone (`Signing`):
nothing whole before the signer has run, something of its own and not whole while it runs,
signed or gone while the handler tidies up; a whole aligned copy exists only while its task is at work (`Tidied`).

The proof has a lemma for each part and each kind of step (a task starts, a handler goes on, one returns or throws,
a file is opened, written or removed), of which the lemmas for the actions, `...Safe`, are made; `NextSafe` collects
them. What a patch makes of a text (`PatchText`) is no induction: a text is compared
place by place. TLC checked `IInv` on the instance of run `tools` first.

The proof corrected the model. `PatchesKept` was false for plans that TLC's did not contain: a later
patch may be *asked* to replace what an earlier one wrote, and is excused now only for exactly that. A task
that is refused before its handler has touched anything was logged like one that failed half way, although it leaves an earlier signed
APK where it is; its outcome is now `refused`. `RecordsTell` compares what a trace ran, not what the
script file holds later. The theorems assume `ToolAssumption` (the plans are sequences, the signer is one of
the two) and nothing else.

The second part is about `ApkMcp`, for any tasks at once, any workspaces, any streams and any behaviour of MT:

| Theorem | States |
|---|---|
| `TalkInvariant` | `MTSpec => []TalkInv /\ [][KeepsSaved]_mtVars` |
| `ResultsAnswer` | `MTSpec => []ResultsAreAnswers` |
| `OnlyCheckedDeletes` | `MTSpec => SavedWorkspacesKept` |

Both properties follow from what a task has been told. `Sound` says of each task that a number it waits for is newer than
any answer it has had (`Awaits`), that what it knows was MT's answer to its own request (`Told`), that it asks
for a deletion under the new names only after that (`Asks`), and what that makes of its completion
(`Completed`); `Numbered` that no two tasks wait for one number.

`ChatProofs` proves, for any requests at once, any lengths and any budget:

| Theorem | States |
|---|---|
| `TypeCorrect` | `Spec => []TypeOK` |
| `ConversationsStayWhole` | `Spec => []ConversationsHold` |
| `HistoriesAlternate` | `Spec => []AlternatesUndisturbed` |

An update may write back an entry that was deleted meanwhile, and its record then is the newest in
the collection. `IInv` therefore speaks of what is `Known` of an id, stored or read by a request that
may still write it: that all of it agrees and is stored unless it was deleted (`Agreed`), and that a
reply's question was there before it (`Answering`). The alternation is stated over the times of the
messages, not their places (`InTurn`: the number of later messages, and of the unanswered question, tells
whose it is), so that entries that are no messages come and go without disturbing it. It ends with
`disturbed`, the model's note of what the code's comment excludes. That the history lists those messages in order
rests on `PlacesTaken`: sorted by counting who is newer, each message has one place (a pigeonhole over the
places). Of the walk through the pairs, `Pairs`, it needs only that it stops and yields whole pairs (`PairsThereAre`).

Assumptions on constants are those the modules name. That a place is either a tick's or a
client's, or that a value that stands for nothing is no record, tells model values apart and
says nothing of the code; `BatchAssumption`, `RequestAssumption`, `OnDiskAssumption` and
`AskedAssumption` say which inputs there are.

`ClientProofs` has two parts. The first is about `Events` and proves, for any jobs with any budgets, any requests,
workspaces, sockets and scopes, any plugins and scripts, and any number of listeners that throw:

| Theorem | States |
|---|---|
| `NobodyIsEverOwed` | `Spec => []NobodyOwed` (`TypeOK`, `ListenersPaired`, `SocketsUpToDate`) |
| `NewsInOrder` | `Spec => ToldInOrder` |
| `EndsAreFinal` | `Spec => SettledUnlessThrown` |

What `NobodyOwed` says between two turns is false inside them, so the inductive invariant is about the stack
`todo`. `Above(a, b)` says of two calls of which `a` is done first what `a` may be, given what `b` is: while an
event of a task is still to be told, nothing above it updates or starts that task; before an attempt that a
listener has asked for, before a look, an update or the end of a `try` block comes only what the code does in
front of it. `Framed` and `Bottom` say which catch clause is under what, so that `Unwind` always finds one and it is known what
it leaves out. With that order each call can be said to fit the records (`Fits`): the snapshot an event carries is the
record as it is *now*, because no update can come between an emission and its listeners; this is the heart of `ToldInOrder`. `Counted` ties
attempts, versions and the tasks that are awaited, `Paired` the listeners to sockets and attempts, and `Heard` has every open socket know
a record's version or be owed it by a call that is left.

`SettledUnlessThrown` needs more, which a throw destroys: after one in the middle of telling that a task
completed, the task fails as well and its job may have two attempts at work. `Calm` is what holds until then (`Quiet`):
a queued task is about to be executed (`Worked`), an attempt that listens has a task that runs or will be told
of its end (`Heeded`), a live attempt is its job's last and nothing else on the stack moves the job (`Alone`),
and no call on the stack touches what has ended (`Sound`). `IInv /\ Quiet` is inductive; `NobodyOwed` needs `Quiet` too, for
the attempts' listeners.

The proof has one chapter for each part of the invariant, with one lemma for each action in it. What most
lemmas share is two facts, proved once: `ShapeAfter` (what may replace the top of the stack without disturbing the order)
and the `...Turn` lemmas, which give for each action the set of calls that go and that come, without their order.
`Joins` and `Leaves` say what `on()` and `off()` do to who listens. `TLC` checked `IInv` and `Quiet` on the instance of
run `events` before they were proved. The assumption is `EventsAssumption`, that of the module.

The second part is about `McpServer`, for any messages, any job ids and any number of polls:

| Theorem | States |
|---|---|
| `McpInvariant` | `MCPSpec => []McpInv` |
| `TypeCorrect` | `MCPSpec => []MCPTypeOK` |
| `NothingRunsTwice` | `MCPSpec => []OneJobPerCall` |
| `ClientsAreToldTheTruth` | `MCPSpec => OutcomesAreTrue` |

`OneJobPerCall` is not inductive: a handler at the POST must be known to have no job yet.
`PastPost` says so (who has created a job is in the polling loop or over), and `Polls`
that who is in the loop polls the job it created and has not seen it settled. One
lemma for each kind of step: the arrival, answers outside the loop, the POST, the poll, and
what others do. Of the Gateway the proof uses only that its steps keep the types of
`JobSpec` (`GatewayTypes`). That what is told is true then is a look at the two steps that tell it.

## 7. What is only model-checked, and what is not modelled

Only model-checked: liveness (`JobsSettle`, `RunsEnd`, `CallsEnd`, `DropsLand`,
`EveryRequestAnswered`, `TasksSettle`, `LimitedTasksEnd`) and
whatever needs `ENABLED`, which the prover does not handle;
of `ImplementsJobSpec` the fairness, its safety being `KeepsItsPromise`;
how much of the conversation fits the budget (`HistoryIsRecentTalk` of `Chat`), a sum over entries and so an
induction over data; `PluginsApart` of `Events`, whose outcome is folded over the plugins' scripts and sorted by
priority (an induction over data again); and `InstalledAsIntended` of `Tools`, whose reference, `Intended`, follows a
plan of any length from its first step (the same).

Late first reads are modelled where records refer to each other and a loss shows, in `LocalStorage` and `Evidence`.
`Chat` and `Inbox` take the collections they use (`knowledge`, `workspaces`) for maps that are warm: a first read
that comes back late and drops an entry or a workspace (finding 2) is outside what their properties say.
`SavedWorkspacesKept` is about the close operation of the apkmcp agent; who calls MT's deleting tool by its name,
through `call_tool`, is checked by nobody, and in the model such a call deletes nothing.

Abstracted in what is modelled: payloads, results, names and error texts;
validation of requests by the routes (the models' inputs are the valid ones and those the
services themselves refuse); listeners that throw, outside `Events`; Supabase's fall back to local
files within one call; what the built-in descriptors say; in `Tools`, a restart of the Gateway while
programs run.

Not modelled: rendering of reports, the banner and console, configuration, HTTP
authentication and the terminal client. They keep no state the rest depends on. Of the capability
registry `resolve()` and `unregister()`, which nothing in `src/` calls, and the cache of tool
versions; of the WebSocket gateway a send that fails.

## 8. Plan

In the order in which they will be added:

1. **`TwoStores`**: Supabase with per-call fall back to local files: where a record is
   after each combination of failures, and who finds it.
2. **Pure algorithms** against reference definitions over bounded inputs: the entities the two
   indexers read from paths.
3. **Cold collections elsewhere**: `Chat` and `Inbox` over collections that may fall back as
   `StoreSpec`'s `Recall` allows.
