------------------------------- MODULE ApkMcp -------------------------------
(***************************************************************************)
(* The apkmcp agent (apkmcp.agent.ts): a client of MT Manager's MCP server *)
(* on a phone.  A task opens a session and makes up to three requests,     *)
(* one after the other, each answered by a JSON body or on an event stream *)
(* that may carry other messages and may stay open or silent.  Tasks share *)
(* the counter of request ids and a list of MT's tool names remembered for *)
(* a minute.                                                               *)
(*                                                                         *)
(* MT is outside the repository: it is updated, saves workspaces and       *)
(* answers as it likes.  It carries out a request it has received whether  *)
(* or not the agent still waits for the answer.                            *)
(***************************************************************************)
EXTENDS Naturals, FiniteSets

CONSTANTS
  Activations,        \* activations of apkMcpHandler()
  Workspaces,   \* workspaces at MT
  Asked,        \* the operations each task may be asked for
  Talking,      \* tasks whose event streams never fall silent
  OwnIds        \* numbers MT gives to requests of its own

ASSUME OwnIdsAssumption == OwnIds \subseteq Nat

ASSUME TalkingAssumption == Talking \subseteq Activations

VARIABLES
  version,   \* which of its tool names MT has: the "new" ones, the "old", or "other"
  savedAtMT,     \* workspaces MT keeps; the rest are temporary
  cache,     \* toolLists: the names found there less than a minute ago, or "none"
  nextId,    \* nextRequestId
  task       \* what each task was asked, and where it stands

mtVars == <<version, savedAtMT, cache, nextId, task>>

Versions == {"new", "old", "other"}

(***************************************************************************)
(* "tools" is list_tools; "call" is call_tool or an operation whose tool   *)
(* kept its name; "renamed" is open or outline_class; "invalid" lacks a    *)
(* required field or names no operation.                                   *)
(***************************************************************************)
Ops == {"tools", "call", "renamed", "close", "invalid"}

ASSUME AskedAssumption == \A t \in Activations : Asked[t] \subseteq Ops

\* What a message of MT says, as far as the agent looks into it: the tools it
\* lists; whether its saved workspaces include ("kept") the task's or not
\* ("free"); that it did what was asked, or an object saying that it did not; an
\* error, of the protocol or a tool's in words; or a request, and no answer at all.
Contents == Versions \cup {"ok", "kept", "free", "done", "declined", "error", "request"}

Stages == {"initialize", "initialized", "list", "check", "call"}

Unasked == [op |-> "none", workspace |-> "none", force |-> FALSE, tool |-> "none",
         stage |-> "none", id |-> 0, wait |-> "none", reply |-> "none",
         past |-> {},
         listed |-> "none", did |-> FALSE, value |-> "none"]

MTTypeOK ==
  /\ version \in Versions /\ savedAtMT \subseteq Workspaces
  /\ cache \in Versions \cup {"none"} /\ nextId \in Nat \ {0, 1}
  /\ \A t \in Activations :
       /\ task[t].op \in Ops \cup {"none"} /\ task[t].workspace \in Workspaces \cup {"none"}
       /\ task[t].force \in BOOLEAN /\ task[t].tool \in {"none", "any", "new", "old"}
       /\ task[t].stage \in Stages \cup {"none"} /\ task[t].id \in 0 .. nextId - 1
       /\ task[t].wait \in {"none", "response", "stream", "late", "over"}
       /\ task[t].reply \in Contents \cup {"none"} /\ task[t].past \subseteq Nat \X Contents
       /\ task[t].listed \in {"none", "kept", "free"} /\ task[t].did \in BOOLEAN
       /\ task[t].value \in Contents \cup {"none", "failed"}
  \* No two requests of the Gateway bear the same number, but for "initialize".
  /\ \A s, t \in Activations : s # t /\ task[s].id > 1 => task[s].id # task[t].id

MTInit ==
  /\ version \in Versions /\ savedAtMT \in SUBSET Workspaces
  /\ cache = "none" /\ nextId = 2
  /\ task = [t \in Activations |-> Unasked]

-----------------------------------------------------------------------------
(* The task's side. *)

Waiting(t) == task[t].wait \in {"response", "stream", "late"}

\* Mutant: every request after "initialize" has number 2.
PostAlike(t, stage, tool) ==
  /\ task' = [task EXCEPT ![t] = [task[t] EXCEPT
       !.stage = stage, !.tool = tool, !.id = 2, !.wait = "response", !.reply = "none",
       !.past = task[t].past \cup ({task[t].id} \X ({task[t].reply} \ {"none"}))]]
  /\ UNCHANGED nextId

\* sendMcpMessage() up to its first await, with a number from newRequestId().
Post(t, stage, tool) ==
  /\ task' = [task EXCEPT ![t] = [task[t] EXCEPT
       !.stage = stage, !.tool = tool, !.id = nextId, !.wait = "response", !.reply = "none",
       !.past = task[t].past \cup ({task[t].id} \X ({task[t].reply} \ {"none"}))]]
  /\ nextId' = nextId + 1

\* What is left of a task that is over: its outcome, and a tool call that MT has
\* yet to carry out.
Remains(r) ==
  IF r.stage = "call" /\ r.reply = "none" THEN [r EXCEPT !.id = 0, !.past = {}]
  ELSE [Unasked EXCEPT !.op = r.op, !.wait = "over", !.did = r.did, !.value = r.value]

End(t, value) ==
  /\ task' = [task EXCEPT ![t] = Remains([task[t] EXCEPT !.wait = "over", !.value = value])]
  /\ UNCHANGED nextId

Fail(t) == End(t, "failed")

\* apkMcpHandler() is called, and posts "initialize", always number 1.
Start(t) ==
  /\ task[t].op = "none"
  /\ \E o \in Asked[t], w \in Workspaces, f \in BOOLEAN :
       /\ f => o = "close"
       /\ task' = [task EXCEPT ![t] = [task[t] EXCEPT
            !.op = o, !.workspace = w, !.force = f,
            !.stage = "initialize", !.id = 1, !.wait = "response"]]
  /\ UNCHANGED <<version, savedAtMT, cache, nextId>>

\* resolveToolName() has MT's names, or none and takes the newest; a close by
\* the tool that deletes is checked first, unless forced.
Resolved(t, names) ==
  CASE names = "other" -> Fail(t)
    [] names = "old" -> Post(t, "call", "old")
    [] OTHER -> Post(t, IF task[t].op = "close" /\ ~task[t].force THEN "check" ELSE "call", "new")

\* The session is open: the operation begins.
Proceed(t) ==
  CASE task[t].op = "invalid" -> Fail(t)
    [] task[t].op = "tools" -> Post(t, "list", "none")
    [] task[t].op = "call" -> Post(t, "call", "any")
    [] OTHER -> IF cache = "none" THEN Post(t, "list", "none") ELSE Resolved(t, cache)

\* initSession(): the answer to "initialize", then a notification without a number.
Initialized(t, c) ==
  IF c = "error" THEN Fail(t)
  ELSE /\ task' = [task EXCEPT ![t] = [task[t] EXCEPT
            !.stage = "initialized", !.id = 0, !.wait = "response", !.reply = "none",
            !.past = {<<1, "ok">>}]]
       /\ UNCHANGED nextId

\* availableTools(), or all that list_tools wanted.
Listed(t, c) ==
  CASE task[t].op = "tools" -> (IF c = "error" THEN Fail(t) ELSE End(t, c)) /\ UNCHANGED cache
    [] task[t].op # "tools" /\ c \in Versions -> cache' = c /\ Resolved(t, c)
    [] OTHER -> UNCHANGED cache /\ Resolved(t, "none")

\* Mutant: a list of saved workspaces that cannot be read has none.
CheckedLoosely(t, c) ==
  IF c \in {"kept", "error"} THEN Fail(t) ELSE Post(t, "call", "new")

\* assertSafeToDelete(): only a list that can be read, without the workspace.
Checked(t, c) == IF c = "free" THEN Post(t, "call", "new") ELSE Fail(t)

\* callTool(): an object is handed on, whatever it says.
Performed(t, c) == IF c = "error" THEN Fail(t) ELSE End(t, c)

\* What the task does with the message it takes for the answer.
Take(t, c) ==
  /\ CASE task[t].stage = "initialize" -> Initialized(t, c) /\ UNCHANGED cache
       [] task[t].stage = "list" -> Listed(t, c)
       [] task[t].stage = "check" -> Checked(t, c) /\ UNCHANGED cache
       [] task[t].stage = "call" -> Performed(t, c) /\ UNCHANGED cache
  /\ UNCHANGED <<version, savedAtMT>>

\* The response begins: a notification needs no more of it, and an event stream
\* may stay open.
Headers(t) ==
  /\ task[t].wait = "response"
  /\ IF task[t].stage = "initialized"
       THEN Proceed(t)
       ELSE task' = [task EXCEPT ![t].wait = "stream"] /\ UNCHANGED nextId
  /\ UNCHANGED <<version, savedAtMT, cache>>

\* The response is a JSON body: the answer, whatever its number.
Body(t) == task[t].wait = "response" /\ task[t].reply # "none" /\ Take(t, task[t].reply)

Streaming(t) == task[t].wait \in {"stream", "late"}

\* What a stream may carry: the answer, earlier answers of the session once
\* more, requests of MT's own, and events that are nothing of the kind.
Messages(t) ==
  {m \in {<<task[t].id, task[t].reply>>} : task[t].reply # "none"}
    \cup task[t].past \cup (OwnIds \X {"request"}) \cup {<<0, "request">>}

\* Mutant: the loop does not look at the clock.
ChunkUntimed(t) ==
  /\ Streaming(t)
  /\ \E m \in Messages(t) :
       IF m[1] = task[t].id THEN Take(t, m[2]) ELSE UNCHANGED mtVars

\* A message has come.  The one with the request's number ends the wait; after
\* any other the loop looks at the clock before it waits for more.
Chunk(t) ==
  /\ Streaming(t)
  /\ \E m \in Messages(t) :
       CASE m[1] = task[t].id -> Take(t, m[2])
         [] m[1] # task[t].id /\ task[t].wait = "late" -> Fail(t) /\ UNCHANGED <<version, savedAtMT, cache>>
         [] OTHER -> UNCHANGED mtVars

\* Thirty seconds have gone since the stream began.
Deadline(t) ==
  /\ task[t].wait = "stream"
  /\ task' = [task EXCEPT ![t].wait = "late"]
  /\ UNCHANGED <<version, savedAtMT, cache, nextId>>

\* An HTTP error, a connection that cannot be made or breaks, a stream that
\* ends.  In availableTools() this is not caught either.
Broken(t) == Waiting(t) /\ Fail(t) /\ UNCHANGED <<version, savedAtMT, cache>>

\* Node's fetch gives up on headers or a body that are silent for five minutes.
GiveUp(t) == ~(t \in Talking /\ Streaming(t)) /\ Broken(t)

\* A minute has gone since the tool names were stored.
Expire ==
  /\ cache # "none" /\ cache' = "none"
  /\ UNCHANGED <<version, savedAtMT, nextId, task>>

-----------------------------------------------------------------------------
(* MT's side. *)

\* The tools that list and delete saved workspaces came with the new names.
Offers(tool) == tool = "any" \/ tool = version

Answers(t) ==
  CASE task[t].stage = "initialize" -> {"ok", "error"}
    [] task[t].stage = "list" -> {version, "declined", "error"}
    [] task[t].stage = "check" /\ Offers("new") ->
         {IF task[t].workspace \in savedAtMT THEN "kept" ELSE "free", "declined", "error"}
    [] task[t].stage = "call" /\ Offers(task[t].tool) -> {"done", "declined", "error"}
    [] OTHER -> {"error"}

\* MT carries out the request that was last posted, and answers it.
Serve(t) ==
  /\ task[t].stage \notin {"none", "initialized"} /\ task[t].reply = "none"
  /\ \E a \in Answers(t) :
       /\ LET r == [task[t] EXCEPT !.reply = a,
                      !.listed = IF a \in {"kept", "free"} THEN a ELSE @,
                      !.did = @ \/ a = "done"]
          IN task' = [task EXCEPT ![t] = IF r.wait = "over" THEN Remains(r) ELSE r]
       /\ savedAtMT' = IF a = "done" /\ task[t].op = "close" /\ task[t].tool = "new"
                     THEN savedAtMT \ {task[t].workspace} ELSE savedAtMT
  /\ UNCHANGED <<version, cache, nextId>>

Update ==
  /\ version = "old" /\ version' = "new"
  /\ UNCHANGED <<savedAtMT, cache, nextId, task>>

Save(w) ==
  /\ w \notin savedAtMT /\ savedAtMT' = savedAtMT \cup {w}
  /\ UNCHANGED <<version, cache, nextId, task>>

-----------------------------------------------------------------------------
Act(t) == Start(t) \/ Headers(t) \/ Body(t) \/ Chunk(t) \/ Deadline(t) \/ Broken(t)

MTNext ==
  \/ \E t \in Activations : Act(t) \/ Serve(t)
  \/ Expire \/ Update
  \/ \E w \in Workspaces : Save(w)

MTSpec == MTInit /\ [][MTNext]_mtVars

\* Fetch does not wait for ever on a server that is silent; on a stream that talks
\* messages keep coming, and the clock runs.  Nothing is assumed of MT.
Fairness ==
  /\ \A t \in Activations : WF_mtVars(GiveUp(t))
  /\ \A t \in Talking : WF_mtVars(Chunk(t)) /\ WF_mtVars(Deadline(t))

FairSpec == MTSpec /\ Fairness

-----------------------------------------------------------------------------
(* Properties. *)

\* A saved workspace is deleted only by a close that was forced, or that was told
\* by MT, before it asked for the deletion, that the workspace was not saved: with
\* names remembered from another version of MT, with a list of tools or of
\* workspaces that cannot be read, and with messages that are no answers.  It is
\* about the close operation: who calls MT's deleting tool by its name, through
\* call_tool, is checked by nobody, and in Serve such a call deletes nothing.
\* apkmcp.agent.ts:309-341, 483-492
SavedWorkspacesKept ==
  [][\A w \in savedAtMT \ savedAtMT' : \E t \in Activations :
       /\ task[t].op = "close" /\ task[t].workspace = w
       /\ task[t].force \/ task[t].listed = "free"]_mtVars

\* A task that completes with "done" has had its tool carried out, one told "declined"
\* has not: no message of an earlier request passes for the answer.  What a task
\* completes with may be empty, if MT gave a request of its own the same number.
\* apkmcp.agent.ts:41-51, 125-131
ResultsAreAnswers ==
  /\ MTTypeOK
  /\ \A t \in Activations : task[t].op \notin {"none", "tools"} =>
       /\ task[t].value \in {"none", "failed", "done", "declined", "request"}
       /\ task[t].value = "done" => task[t].did
       /\ task[t].value = "declined" => ~task[t].did

\* Every task settles: whatever a stream carries, and if it never ends.
\* apkmcp.agent.ts:98-141
TasksSettle == \A t \in Activations : Waiting(t) ~> task[t].wait = "over"
=============================================================================
