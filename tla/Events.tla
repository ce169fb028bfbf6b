-------------------------------- MODULE Events --------------------------------
(***************************************************************************)
(* The Event Bus and those who hang on it: the plugin loader, the MCP      *)
(* orchestrator, the Job Engine's attempts, changes of a workspace's       *)
(* status, and the WebSocket connections that are told of them.            *)
(*                                                                         *)
(* emit() calls its listeners one after the other in the emitter's turn.   *)
(* A listener may update other records, which emits again before the       *)
(* listeners behind it are called, and one that throws unwinds the calls   *)
(* to the nearest catch.  So a turn is more than one step here: `todo` is  *)
(* what is left to do of it, the call stack with the innermost call first, *)
(* and a new turn starts when it is empty.                                 *)
(***************************************************************************)
EXTENDS Naturals, Sequences, FiniteSets, TLC, SequencesExt

CONSTANTS
  Jobs,        \* jobs that may be submitted
  Requests,    \* requests for a task without a job
  Workspaces,
  Home,        \* [Jobs \cup Requests -> Workspaces]
  AgentOf,     \* [Jobs \cup Requests -> kinds of agent]
  Budget,      \* [Jobs -> maxAttempts]
  Sockets,     \* WebSocket connections
  Scope,       \* [Sockets -> Workspaces \cup {All}]
  All,         \* the scope of /ws
  Installed,   \* plugins, in the order their directories are read
  Script,      \* [plugins -> what register() does: a sequence of steps]
  Enabled,     \* PLUGINS_ENABLED
  Builtin,     \* descriptors of the agents that are not plugins, by kind
  Malformed,   \* capability ids that are none
  MaxThrows    \* at most this many listeners of plugins throw

ASSUME EventsAssumption ==
  /\ Jobs \cap Requests = {}
  /\ Home \in [Jobs \cup Requests -> Workspaces]
  /\ Budget \in [Jobs -> Nat \ {0}]
  /\ Installed \in Seq(ToSet(Installed)) /\ Enabled \subseteq ToSet(Installed)
  /\ \A p \in Enabled : Script[p] \in Seq(ToSet(Script[p]))
  /\ MaxThrows \in Nat

VARIABLES
  phase,      \* "loading" plugins, "serving", or "down"
  toLoad,     \* directories still to be looked at
  loaded,     \* loadedPlugins
  handlers,   \* McpOrchestrator.handlers: kind -> whose handler it is
  adapters,   \* CapabilityRegistry.adapters, a Map: a sequence of descriptors
  listeners,  \* EventEmitter: event -> its listeners, in their order
  todo,       \* the turn that is being made
  record,     \* tasks, jobs and workspaces, with a count of their versions
  working,    \* tasks whose handler is at work
  awaiting,   \* tasks whose dispatch() is awaited, or the write of a status after it
  link,       \* sockets: "new", "open" or "closed"
  told,       \* history: the version of each record each socket was last told
  base,       \* history: the versions there were when it was attached
  throws,     \* history: how often a listener threw
  cut         \* history: kinds of records of which an update was not told to all

registry == <<toLoad, loaded, handlers, adapters>>
sockets  == <<link, told, base>>
vars == <<phase, registry, listeners, todo, record, working, awaiting, sockets, throws, cut>>

-----------------------------------------------------------------------------
(* Records, events and listeners.                                          *)

JobRec(j)       == <<"job", j, 0>>
TaskRec(x, n)   == <<"task", x, n>>
WorkspaceRec(w) == <<"workspace", w, 0>>
PluginRec(p)    == <<"plugin", p, 0>>

TasksOf(j) == {TaskRec(j, n) : n \in 1..Budget[j]}
Records == {JobRec(j) : j \in Jobs} \cup {WorkspaceRec(w) : w \in Workspaces}
             \cup (UNION {TasksOf(j) : j \in Jobs}) \cup {TaskRec(c, 1) : c \in Requests}

Absent  == [status |-> "absent", attempts |-> 0, version |-> 0]
Unused  == [status |-> "created", attempts |-> 0, version |-> 0]    \* a new workspace
Settled == {"completed", "failed"}

WorkspaceOf(r) == IF r[1] = "workspace" THEN r[2] ELSE Home[r[2]]

\* What the sockets listen to; workflow.updated and knowledge.entry_created
\* are forwarded in the same way and not modelled.
SocketEvents == {<<"task", "updated">>, <<"job", "updated">>, <<"workspace", "status_changed">>}
Events == SocketEvents
            \cup {<<k, e>> : k \in {"task", "job"}, e \in {"created", "completed", "failed"}}
            \cup {<<"plugin", e>> : e \in {"loaded", "failed"}}

Socket(s)     == <<"socket", s, 0>>
Attempt(j, n) == <<"attempt", j, n>>
Plugin(p)     == <<"plugin", p, 0>>

\* on(), and off(), which removes a listener once: where it was added last.
On(l, events) == [e \in Events |-> IF e \in events THEN Append(listeners[e], l) ELSE listeners[e]]
Off(l, events) ==
  LET Places(e) == {i \in DOMAIN listeners[e] : listeners[e][i] = l}
      Newest(e) == CHOOSE i \in Places(e) : \A k \in Places(e) : k <= i
  IN  [e \in Events |-> IF e \in events /\ Places(e) # {}
                        THEN RemoveAt(listeners[e], Newest(e)) ELSE listeners[e]]

-----------------------------------------------------------------------------
(* What may be left to do.                                                 *)

Emit(what, r, snapshot) ==
  [do |-> "emit", event |-> <<r[1], what>>, about |-> r, snapshot |-> snapshot]
Call(l, e) ==
  [do |-> "call", listener |-> l, event |-> e.event, about |-> e.about, snapshot |-> e.snapshot]
Update(r, patch)   == [do |-> "update", about |-> r, patch |-> patch]
RunAttempt(j)      == [do |-> "attempt", job |-> j]
Dispatch(x, n)     == [do |-> "dispatch", about |-> TaskRec(x, n)]
Await(t)           == [do |-> "await", about |-> t]
Execute(t)         == [do |-> "execute", about |-> t]
StartHandler(t)    == [do |-> "start", about |-> t]
Unsubscribe(l)     == [do |-> "off", listener |-> l]
LookAt(j, n)       == [do |-> "look", job |-> j, attempt |-> n]
Register(p, step)  == [do |-> "register", plugin |-> p, step |-> step]
PushLoaded(p)      == [do |-> "loaded", plugin |-> p]

\* Where a throw is caught: a request's handler answers 500; execute() and
\* the loader go on as their catch clauses say; and nobody catches what makes
\* the promise of a call behind `void` reject, or that of main().
Catch(where, r) == [do |-> "catch", where |-> where, about |-> r]
Nobody == Catch("nobody", <<>>)

AtTop(what) == todo # <<>> /\ Head(todo).do = what
Then(items) == todo' = items \o Tail(todo)

\* The calls down to the nearest catch are gone.
Unwind ==
  LET k == CHOOSE i \in DOMAIN todo : /\ todo[i].do = "catch"
                                      /\ \A j \in 1..(i - 1) : todo[j].do # "catch"
      caught == todo[k]
      below == SubSeq(todo, k + 1, Len(todo))
  IN  CASE caught.where = "request" -> todo' = below /\ UNCHANGED phase
        [] caught.where = "execute" ->
             todo' = <<Update(caught.about, [status |-> "failed"])>> \o below /\ UNCHANGED phase
        [] caught.where = "loader" ->
             todo' = <<Emit("failed", caught.about, Absent)>> \o below /\ UNCHANGED phase
        [] caught.where = "nobody" -> todo' = <<>> /\ phase' = "down"

-----------------------------------------------------------------------------
(* emit(), and the listeners.                                              *)

EmitEvent ==
  /\ AtTop("emit")
  /\ LET e == Head(todo)
     IN  Then([k \in DOMAIN listeners[e.event] |-> Call(listeners[e.event][k], e)])
  /\ UNCHANGED <<phase, registry, listeners, record, working, awaiting, sockets, throws, cut>>

Calling(who) == AtTop("call") /\ Head(todo).listener[1] = who

\* Mutant of InScope: a scoped socket takes a task's or a job's own id for
\* that of its workspace.
InScopeById(s, r) == Scope[s] = All \/ r[2] = Scope[s]

\* workspaceIdOf() and the scope of the connection.
InScope(s, r) == Scope[s] = All \/ WorkspaceOf(r) = Scope[s]

\* forwardIfInScope().
TellSocket ==
  /\ Calling("socket")
  /\ LET e == Head(todo)
         s == e.listener[2]
     IN  told' = IF InScope(s, e.about)
                 THEN [told EXCEPT ![s][e.about] = e.snapshot.version] ELSE told
  /\ Then(<<>>)
  /\ UNCHANGED <<phase, registry, listeners, record, working, awaiting, link, base, throws, cut>>

\* handleTerminal() of a job's attempt.
HandleTerminal(j, task) ==
  IF task.status = "completed" THEN <<Update(JobRec(j), [status |-> "completed"])>>
  ELSE IF record[JobRec(j)].attempts < Budget[j] THEN <<RunAttempt(j)>>
  ELSE <<Update(JobRec(j), [status |-> "failed"])>>

\* onTaskUpdate().
TellAttempt ==
  /\ Calling("attempt")
  /\ LET e == Head(todo)
         j == e.listener[2]
     IN  IF e.about = TaskRec(j, e.listener[3]) /\ e.snapshot.status \in Settled
         THEN Then(HandleTerminal(j, e.snapshot) \o <<Unsubscribe(e.listener)>>)
         ELSE Then(<<>>)
  /\ UNCHANGED <<phase, registry, listeners, record, working, awaiting, sockets, throws, cut>>

\* A plugin's listener returns (what it starts goes on by itself) ...
TellPlugin ==
  /\ Calling("plugin")
  /\ Then(<<>>)
  /\ UNCHANGED <<phase, registry, listeners, record, working, awaiting, sockets, throws, cut>>

\* ... or throws.  Those in the core, and in the plugins of this repository, don't.
PluginThrows ==
  /\ Calling("plugin") /\ throws < MaxThrows
  /\ throws' = throws + 1
  /\ LET e == Head(todo).event
     IN  cut' = IF e[2] \in {"created", "updated", "status_changed"} THEN cut \cup {e[1]} ELSE cut
  /\ Unwind
  /\ UNCHANGED <<registry, listeners, record, working, awaiting, sockets>>

\* off().  The array that an emission goes through is not changed by it.
RemoveListener ==
  /\ AtTop("off")
  /\ listeners' = Off(Head(todo).listener, {<<"task", "updated">>})
  /\ Then(<<>>)
  /\ UNCHANGED <<phase, registry, record, working, awaiting, sockets, throws, cut>>

\* The end of a block whose throws are caught.
Caught ==
  /\ AtTop("catch")
  /\ Then(<<>>)
  /\ UNCHANGED <<phase, registry, listeners, record, working, awaiting, sockets, throws, cut>>

-----------------------------------------------------------------------------
(* Tasks and jobs.                                                         *)

Merged(old, patch) ==
  [status   |-> IF "status" \in DOMAIN patch THEN patch.status ELSE old.status,
   attempts |-> IF "attempts" \in DOMAIN patch THEN patch.attempts ELSE old.attempts,
   version  |-> old.version + 1]

\* updateTask() and JobEngine.update(): the record, and then its events.
UpdateRecord ==
  /\ AtTop("update")
  /\ LET r == Head(todo).about
         updated == Merged(record[r], Head(todo).patch)
     IN  /\ record' = [record EXCEPT ![r] = updated]
         /\ Then(<<Emit("updated", r, updated)>>
                 \o IF updated.status \in Settled THEN <<Emit(updated.status, r, updated)>> ELSE <<>>)
  /\ UNCHANGED <<phase, registry, listeners, working, awaiting, sockets, throws, cut>>

\* runAttempt() up to its await, a call behind `void`.
BeginAttempt ==
  /\ AtTop("attempt")
  /\ LET j == Head(todo).job
         n == record[JobRec(j)].attempts + 1
     IN  Then(<<Update(JobRec(j), [status |-> "running", attempts |-> n]), Dispatch(j, n), Nobody>>)
  /\ UNCHANGED <<phase, registry, listeners, record, working, awaiting, sockets, throws, cut>>

\* Mutant of Tasked: the handler is started before anyone hears of the task.
TaskedAfter(t, queued) ==
  <<Execute(t), Emit("created", t, queued), Emit("updated", t, queued), Await(t)>>

\* What dispatch() does with a new task.
Tasked(t, queued) ==
  <<Emit("created", t, queued), Emit("updated", t, queued), Execute(t), Await(t)>>

New == [status |-> "queued", attempts |-> 0, version |-> 1]

\* dispatch(), to its return.
DispatchTask ==
  /\ AtTop("dispatch")
  /\ LET t == Head(todo).about
     IN  record' = [record EXCEPT ![t] = New] /\ Then(Tasked(t, New))
  /\ UNCHANGED <<phase, registry, listeners, working, awaiting, sockets, throws, cut>>

AwaitDispatch ==
  /\ AtTop("await")
  /\ awaiting' = awaiting \cup {[after |-> "dispatch", task |-> Head(todo).about]}
  /\ Then(<<>>)
  /\ UNCHANGED <<phase, registry, listeners, record, working, sockets, throws, cut>>

\* execute() up to its await, a call behind `void` too.
ExecuteTask ==
  /\ AtTop("execute")
  /\ LET t == Head(todo).about
     IN  Then(<<Update(t, [status |-> "running"])>>
              \o (IF AgentOf[t[2]] \in DOMAIN handlers THEN <<StartHandler(t)>>
                  ELSE <<Update(t, [status |-> "failed"])>>)
              \o <<Nobody>>)
  /\ UNCHANGED <<phase, registry, listeners, record, working, awaiting, sockets, throws, cut>>

HandlerStarts ==
  /\ AtTop("start")
  /\ working' = working \cup {Head(todo).about}
  /\ Then(<<>>)
  /\ UNCHANGED <<phase, registry, listeners, record, awaiting, sockets, throws, cut>>

\* The look at a task that may have settled before it was listened to.
LookAtTask ==
  /\ AtTop("look")
  /\ LET j == Head(todo).job
         n == Head(todo).attempt
         task == record[TaskRec(j, n)]
     IN  IF task.status \in Settled
         THEN Then(HandleTerminal(j, task)) /\ UNCHANGED listeners
         ELSE Then(<<>>) /\ listeners' = On(Attempt(j, n), {<<"task", "updated">>})
  /\ UNCHANGED <<phase, registry, record, working, awaiting, sockets, throws, cut>>

-----------------------------------------------------------------------------
(* New turns, when nothing is left to do of the last one.                  *)

Ready == phase = "serving" /\ todo = <<>>

\* submit().
Submit(j) ==
  /\ Ready /\ record[JobRec(j)] = Absent
  /\ record' = [record EXCEPT ![JobRec(j)] = New]
  /\ todo' = <<Emit("created", JobRec(j), New), Emit("updated", JobRec(j), New),
               RunAttempt(j), Catch("request", JobRec(j))>>
  /\ UNCHANGED <<phase, registry, listeners, working, awaiting, sockets, throws, cut>>

\* POST /workspaces/:id/tasks.
PostTask(c) ==
  /\ Ready /\ record[TaskRec(c, 1)] = Absent
  /\ todo' = <<Dispatch(c, 1), Catch("request", TaskRec(c, 1))>>
  /\ UNCHANGED <<phase, registry, listeners, record, working, awaiting, sockets, throws, cut>>

\* Its await of dispatch() returns, and it reads the workspace ...
ReadStatus(c) ==
  LET a == [after |-> "dispatch", task |-> TaskRec(c, 1)]
  IN  /\ Ready /\ a \in awaiting
      /\ awaiting' = (awaiting \ {a}) \cup
           {[after |-> record[WorkspaceRec(Home[c])].status, task |-> TaskRec(c, 1)]}
      /\ UNCHANGED <<phase, registry, listeners, todo, record, working, sockets, throws, cut>>

\* ... to set its status, which is an event if it was another one then.
WriteStatus(c) ==
  LET r == WorkspaceRec(Home[c])
      changed == IF record[r].status = "analyzing" THEN 0 ELSE 1
      written == [status |-> "analyzing", attempts |-> 0, version |-> record[r].version + changed]
  IN  \E a \in awaiting :
        /\ Ready /\ a.task = TaskRec(c, 1) /\ a.after # "dispatch"
        /\ awaiting' = awaiting \ {a}
        /\ \/ /\ record' = [record EXCEPT ![r] = written]
              /\ todo' = IF a.after = "analyzing" THEN <<>>
                         ELSE <<Emit("status_changed", r, written), Catch("request", r)>>
           \/ UNCHANGED <<record, todo>>    \* the write fails
        /\ UNCHANGED <<phase, registry, listeners, working, sockets, throws, cut>>

\* The await of dispatch() in runAttempt() returns.
JobGoesOn(j, n) ==
  LET a == [after |-> "dispatch", task |-> TaskRec(j, n)]
  IN  /\ Ready /\ a \in awaiting
      /\ awaiting' = awaiting \ {a}
      /\ todo' = <<Update(JobRec(j), <<>>), LookAt(j, n), Nobody>>
      /\ UNCHANGED <<phase, registry, listeners, record, working, sockets, throws, cut>>

\* Mutant of Returned: the failure is reported from the try block's end as well.
ReturnedFinally(t) ==
  <<Update(t, [status |-> "completed"]), Catch("execute", t),
    Update(t, [status |-> "failed"]), Nobody>>

\* execute() after its await; the try block holds the update, too.
Returned(t) == <<Update(t, [status |-> "completed"]), Catch("execute", t), Nobody>>

\* The agent's handler returns or throws.
HandlerReturns(t) ==
  /\ Ready /\ t \in working
  /\ working' = working \ {t}
  /\ \/ todo' = Returned(t)
     \/ todo' = <<Update(t, [status |-> "failed"]), Nobody>>
  /\ UNCHANGED <<phase, registry, listeners, record, awaiting, sockets, throws, cut>>

\* attachConnection(), and the socket's close.
Connect(s) ==
  /\ Ready /\ link[s] = "new"
  /\ link' = [link EXCEPT ![s] = "open"]
  /\ listeners' = On(Socket(s), SocketEvents)
  /\ base' = [base EXCEPT ![s] = [r \in Records |-> record[r].version]]
  /\ UNCHANGED <<phase, registry, todo, record, working, awaiting, told, throws, cut>>

Close(s) ==
  /\ Ready /\ link[s] = "open"
  /\ link' = [link EXCEPT ![s] = "closed"]
  /\ listeners' = Off(Socket(s), SocketEvents)
  /\ UNCHANGED <<phase, registry, todo, record, working, awaiting, told, base, throws, cut>>

-----------------------------------------------------------------------------
(* Loading plugins, before anything is served.                             *)

NoDescriptor == [priority |-> 0, operations |-> <<>>]

\* CapabilityRegistry.register(): what it refuses, and its Map, in which a
\* kind that is set again keeps its place.
Valid(d) ==
  /\ \A i \in DOMAIN d.operations : d.operations[i].capability \notin Malformed
  /\ \A i, j \in DOMAIN d.operations : d.operations[i].name = d.operations[j].name => i = j

Registered(d) ==
  IF \E i \in DOMAIN adapters : adapters[i].kind = d.kind
  THEN [i \in DOMAIN adapters |-> IF adapters[i].kind = d.kind THEN d ELSE adapters[i]]
  ELSE Append(adapters, d)

\* providersOf(): kinds, the highest priority first.
Offers(d, c) == \E i \in DOMAIN d.operations : d.operations[i].capability = c
ProvidersOf(c) ==
  LET places == {i \in DOMAIN adapters : Offers(adapters[i], c)}
      Before(i, j) == \/ adapters[i].priority > adapters[j].priority
                      \/ adapters[i].priority = adapters[j].priority /\ i < j
      order == SetToSortSeq(places, Before)
  IN  [k \in DOMAIN order |-> adapters[order[k]].kind]

\* Mutant of Tried: the loop is in the try block, not the try block in the loop.
TriedTogether(p, items) == items \o <<Nobody>>

\* A plugin is loaded in a try block of its own.
Tried(p, items) == items \o <<Catch("loader", PluginRec(p)), Nobody>>

\* A plugin's directory: it is left alone, or imported and registered.
LoadNext ==
  /\ phase = "loading" /\ todo = <<>> /\ toLoad # <<>>
  /\ LET p == Head(toLoad)
         steps == Script[p]
     IN  todo' = IF p \notin Enabled THEN <<>>
                 ELSE Tried(p, [k \in DOMAIN steps |-> Register(p, steps[k])] \o <<PushLoaded(p)>>)
  /\ toLoad' = Tail(toLoad)
  /\ UNCHANGED <<phase, loaded, handlers, adapters, listeners, record, working, awaiting,
                 sockets, throws, cut>>

\* registerAgent(): the descriptor first, so that a bad one registers nothing.
RegisterAgent ==
  /\ AtTop("register") /\ Head(todo).step.do = "agent"
  /\ LET step == Head(todo).step
     IN  /\ Valid(step.descriptor)
         /\ adapters' = IF step.descriptor = NoDescriptor THEN adapters
                        ELSE Registered(step.descriptor @@ [kind |-> step.kind])
         /\ handlers' = (step.kind :> Head(todo).plugin) @@ handlers
  /\ Then(<<>>)
  /\ UNCHANGED <<phase, toLoad, loaded, listeners, record, working, awaiting, sockets, throws, cut>>

Subscribe ==
  /\ AtTop("register") /\ Head(todo).step.do = "on"
  /\ listeners' = On(Plugin(Head(todo).plugin), {Head(todo).step.event})
  /\ Then(<<>>)
  /\ UNCHANGED <<phase, registry, record, working, awaiting, sockets, throws, cut>>

Fails(step) == step.do = "throw" \/ (step.do = "agent" /\ ~Valid(step.descriptor))

RegisterThrows ==
  /\ AtTop("register") /\ Fails(Head(todo).step)
  /\ Unwind
  /\ UNCHANGED <<registry, listeners, record, working, awaiting, sockets, throws, cut>>

NoteLoaded ==
  /\ AtTop("loaded")
  /\ loaded' = Append(loaded, Head(todo).plugin)
  /\ Then(<<Emit("loaded", PluginRec(Head(todo).plugin), Absent)>>)
  /\ UNCHANGED <<phase, toLoad, handlers, adapters, listeners, record, working, awaiting,
                 sockets, throws, cut>>

Serve ==
  /\ phase = "loading" /\ todo = <<>> /\ toLoad = <<>>
  /\ phase' = "serving"
  /\ UNCHANGED <<registry, listeners, todo, record, working, awaiting, sockets, throws, cut>>

-----------------------------------------------------------------------------
NoVersions == [s \in Sockets |-> [r \in Records |-> 0]]

Init ==
  /\ phase = "loading"
  /\ toLoad = Installed /\ loaded = <<>>
  /\ handlers = [k \in {Builtin[i].kind : i \in DOMAIN Builtin} |-> "core"]
  /\ adapters = Builtin
  /\ listeners = [e \in Events |-> <<>>]
  /\ todo = <<>>
  /\ record = [r \in Records |-> IF r[1] = "workspace"
                                 THEN Unused ELSE Absent]
  /\ working = {} /\ awaiting = {}
  /\ link = [s \in Sockets |-> "new"] /\ told = NoVersions /\ base = NoVersions
  /\ throws = 0 /\ cut = {}

\* The calls of a turn.
Proceed ==
  \/ EmitEvent \/ TellSocket \/ TellAttempt \/ TellPlugin \/ PluginThrows
  \/ RemoveListener \/ Caught
  \/ UpdateRecord \/ BeginAttempt \/ DispatchTask \/ AwaitDispatch \/ ExecuteTask
  \/ HandlerStarts \/ LookAtTask
  \/ RegisterAgent \/ Subscribe \/ RegisterThrows \/ NoteLoaded

Next ==
  \/ Proceed
  \/ LoadNext \/ Serve
  \/ \E j \in Jobs : Submit(j) \/ \E n \in 1..Budget[j] : JobGoesOn(j, n)
  \/ \E c \in Requests : PostTask(c) \/ ReadStatus(c) \/ WriteStatus(c)
  \/ \E t \in Records : HandlerReturns(t)
  \/ \E s \in Sockets : Connect(s) \/ Close(s)

Spec == Init /\ [][Next]_vars

-----------------------------------------------------------------------------
(* Properties.                                                             *)

TypeOK ==
  /\ phase \in {"loading", "serving", "down"}
  /\ \A r \in Records : r[1] = "job" => record[r].attempts <= Budget[r[2]]
  /\ \A t \in working \cup {a.task : a \in awaiting} : record[t].version > 0
  /\ phase = "down" => todo = <<>>

InTurn == todo # <<>>

\* Is s to be told of r, by the path it connected to?
Watches(s, r) == Scope[s] \in {All, IF r[1] = "workspace" THEN r[2] ELSE Home[r[2]]}

\* The listeners there are between two turns are those of open sockets and of
\* attempts whose task has not settled, once each: "every subscriber is paired
\* with a corresponding .off()" (event-bus.ts:24-30).  A throw may leave an
\* attempt's listener behind.
ListenersPaired ==
  \A e \in Events : \A i \in DOMAIN listeners[e] :
    LET l == listeners[e][i]
    IN  l[1] # "plugin" =>
          /\ \A k \in DOMAIN listeners[e] : listeners[e][k] = l => k = i
          /\ l[1] = "socket" => link[l[2]] = "open"
          /\ l[1] = "attempt" /\ throws = 0 => record[TaskRec(l[2], l[3])].status = "running"

\* Each open socket has been told the current version of every record in its
\* scope that has changed since it connected, and nothing of the others; also
\* when a listener of a plugin threw, if it was one for the ends of tasks and
\* jobs, as the installed plugins have: the catch that follows reports anew.
SocketsUpToDate ==
  \A s \in Sockets : link[s] = "open" => \A r \in Records :
    IF Watches(s, r) /\ r[1] \notin cut
    THEN \/ told[s][r] = record[r].version
         \/ told[s][r] = 0 /\ base[s][r] = record[r].version
    ELSE Watches(s, r) \/ told[s][r] = 0

\* Between two turns nobody is owed an event, and nobody listens who should
\* not (websocket.ts:69-112, job-engine.ts:155-165, orchestrator.ts:77-113).
NobodyOwed ==
  /\ TypeOK
  /\ phase = "serving" /\ ~InTurn => ListenersPaired /\ SocketsUpToDate

\* No socket is told an older version of a record after a newer one, though
\* listeners update records while the events of earlier updates are still
\* being emitted, to others that stand behind them.
ToldInOrder ==
  [][\A s \in Sockets : \A r \in Records : told'[s][r] >= told[s][r]]_vars

\* A task or job that has settled is never updated to anything else, unless a
\* listener threw: a throw while "completed" is being told makes it fail, and
\* the job is tried again (orchestrator.ts:87-95, event-bus.ts:33).
SettledUnlessThrown ==
  [][throws' = 0 => \A r \in Records : record[r].status \in Settled =>
       record'[r].status = record[r].status]_vars

\* What register() of each plugin comes to if nothing else happens.
Reached(p) == {i \in DOMAIN Script[p] : \A k \in 1..i : ~Fails(Script[p][k])}
Works(p)   == Reached(p) = DOMAIN Script[p]

Steps(what) ==
  {x \in (DOMAIN Installed) \X UNION {DOMAIN Script[p] : p \in Enabled} :
     /\ Installed[x[1]] \in Enabled
     /\ x[2] \in Reached(Installed[x[1]])
     /\ Script[Installed[x[1]]][x[2]].do = what}
StepAt(x) == Script[Installed[x[1]]][x[2]]
Latest(xs) == CHOOSE x \in xs : \A y \in xs : y[1] < x[1] \/ (y[1] = x[1] /\ y[2] <= x[2])

LoadedApart ==
  /\ loaded = SelectSeq(Installed, LAMBDA p : p \in Enabled /\ Works(p))
  /\ \A kind \in DOMAIN handlers :
       LET mine == {x \in Steps("agent") : StepAt(x).kind = kind}
           described == {x \in mine : StepAt(x).descriptor # NoDescriptor}
       IN  /\ handlers[kind] = IF mine = {} THEN "core" ELSE Installed[Latest(mine)[1]]
           /\ described # {} =>
                StepAt(Latest(described)).descriptor @@ [kind |-> kind] \in ToSet(adapters)
  /\ {StepAt(x).kind : x \in Steps("agent")} \subseteq DOMAIN handlers
  /\ \A x \in Steps("on") : Contains(listeners[StepAt(x).event], Plugin(Installed[x[1]]))
  /\ \A i \in DOMAIN adapters : \A op \in ToSet(adapters[i].operations) :
       LET kinds == ProvidersOf(op.capability)
           Priority(k) == (CHOOSE d \in ToSet(adapters) : d.kind = k).priority
       IN  /\ Contains(kinds, adapters[i].kind)
           /\ \A m, n \in DOMAIN kinds : m < n => /\ kinds[m] # kinds[n]
                                                   /\ Priority(kinds[m]) >= Priority(kinds[n])

\* The Gateway comes up with every enabled plugin that works, whatever the
\* others do: each agent is the last one registered under its kind, described
\* by the last descriptor given for it, each listener listens, and a capability
\* has all its providers, by priority.  "One plugin throwing during load never
\* takes down the Gateway or another plugin" (loader.ts:46-47) - but a listener
\* of one that throws when it is told that another has failed does.
PluginsApart ==
  [][/\ phase' = "down" => throws' > 0
     /\ phase = "loading" /\ phase' = "serving" => LoadedApart']_vars
=============================================================================
