------------------------------ MODULE McpServer ------------------------------
(***************************************************************************)
(* The MCP frontend (src/mcp-server): a process of its own that turns the  *)
(* tool calls of an AI client into requests to the Gateway.  Two           *)
(* transports share one protocol module: stdio, where answers are lines on *)
(* stdout and the end of input ends the process, and Streamable HTTP,      *)
(* where each answer goes back on its own connection.                      *)
(*                                                                         *)
(* A call of an agent tool resolves its workspace, submits a job and polls *)
(* it until it settles or two minutes have gone.  The Gateway's side of    *)
(* that is JobSpec, which JobEngine is shown to implement: it may settle a *)
(* job, stop and come back between any two steps of a call.                *)
(*                                                                         *)
(* Names that Events has too are told apart (MCPInit, MCPSpec, ...), so    *)
(* that ClientProofs can extend both.                                      *)
(***************************************************************************)
EXTENDS Naturals, FiniteSets

CONSTANTS
  Calls,      \* messages of the client, each sent at most once
  Ids,        \* job ids the Gateway may give out
  Patience,   \* polls that fit into the two minutes
  None        \* no job

ASSUME PatienceAssumption == Patience \in Nat
ASSUME NoneAssumption == None \notin Calls \cup Ids

VARIABLES
  transport,   \* "stdio" or "http"
  up,          \* the frontend process is running
  kind,        \* what each message is, once it has arrived
  pc,          \* where its handler stands
  job,         \* the job id the handler polls
  seen,        \* the job's status in the last snapshot the handler read
  left,        \* polls left before the deadline
  answer,      \* what the client has been sent for the message
  owner,       \* the call whose POST created each job
  online, status, recorded   \* the Gateway (JobSpec)

Gateway == INSTANCE JobSpec WITH Jobs <- Ids, record <- recorded

gateway == <<online, status, recorded>>
mcpVars == <<transport, up, kind, pc, job, seen, left, answer, owner, gateway>>

(***************************************************************************)
(* Messages.  "job" calls an agent tool; "meta" a tool that resolves a     *)
(* workspace and makes one request; "direct" one that makes one request    *)
(* and needs no workspace; "local" is anything answered on the spot        *)
(* (initialize, ping, tools/list, an unknown method or tool, a missing     *)
(* argument).  A notification has no id: its "notification" is a           *)
(* tools/call.  The other three never become a request: text that is not   *)
(* JSON, JSON that is not an object, and over HTTP a body past the limit   *)
(* or a request the listener turns away.                                   *)
(***************************************************************************)
JobKinds       == {"job"}
WorkspaceKinds == JobKinds \cup {"meta"}
RequestKinds   == WorkspaceKinds \cup {"direct"}
Answerable     == RequestKinds \cup {"local"}
Kinds == Answerable \cup {"notification", "garbled", "null"}
           \cup (IF transport = "http" THEN {"oversized", "unwelcome"} ELSE {})

Answers == {"none", "reply", "result", "failed", "error", "timeout",
            "accepted", "rejected"}

MCPTypeOK ==
  /\ transport \in {"stdio", "http"} /\ up \in BOOLEAN
  /\ kind \in [Calls -> Kinds \cup {"unsent"}]
  /\ pc \in [Calls -> {"idle", "resolving", "submitting", "asking", "polling", "reading", "done"}]
  /\ job \in [Calls -> Ids \cup {None}]
  /\ seen \in [Calls -> Gateway!Status]
  /\ left \in [Calls -> 0..Patience]
  /\ answer \in [Calls -> Answers]
  /\ owner \in [Ids -> Calls \cup {None}]
  /\ Gateway!TypeOK

MCPInit ==
  /\ transport \in {"stdio", "http"} /\ up = TRUE
  /\ kind = [c \in Calls |-> "unsent"]
  /\ pc = [c \in Calls |-> "idle"]
  /\ job = [c \in Calls |-> None]
  /\ seen = [c \in Calls |-> "absent"]
  /\ left = [c \in Calls |-> 0]
  /\ answer = [c \in Calls |-> "none"]
  /\ owner = [j \in Ids |-> None]
  /\ Gateway!Init

(***************************************************************************)
(* Arrival: everything up to the handler's first await.                    *)
(***************************************************************************)

\* What goes back for a message that starts no request.  Over HTTP a
\* notification is a 202, what cannot be parsed a 400 and what throws a 500;
\* on stdio these are only logged.  A body past the limit destroys the
\* connection before its 413 is written.
AtOnce(k) ==
  CASE k = "local" -> "reply"
    [] k = "notification" /\ transport = "http" -> "accepted"
    [] k \in {"garbled", "null"} /\ transport = "http" -> "rejected"
    [] k = "unwelcome" -> "rejected"
    [] OTHER -> "none"

FirstStep(k) ==
  CASE k \in WorkspaceKinds -> "resolving"
    [] k = "direct" -> "asking"
    [] OTHER -> "done"

Receive(c) ==
  /\ up /\ pc[c] = "idle"
  /\ \E k \in Kinds :
       /\ kind' = [kind EXCEPT ![c] = k]
       /\ pc' = [pc EXCEPT ![c] = FirstStep(k)]
       /\ answer' = [answer EXCEPT ![c] = AtOnce(k)]
  /\ UNCHANGED <<transport, up, job, seen, left, owner, gateway>>

(***************************************************************************)
(* Requests to the Gateway.                                                *)
(***************************************************************************)
Answer(c, a) ==
  /\ pc' = [pc EXCEPT ![c] = "done"]
  /\ answer' = [answer EXCEPT ![c] = a]

\* PUT /workspaces/by-name/:name has answered.
Resolve(c) ==
  /\ up /\ online /\ pc[c] = "resolving"
  /\ pc' = [pc EXCEPT ![c] = IF kind[c] \in JobKinds THEN "submitting" ELSE "asking"]
  /\ UNCHANGED <<transport, up, kind, job, seen, left, answer, owner, gateway>>

\* The one request of a tool that is not a job has answered.
Ask(c) ==
  /\ up /\ online /\ pc[c] = "asking"
  /\ Answer(c, "reply")
  /\ UNCHANGED <<transport, up, kind, job, seen, left, owner, gateway>>

\* Any request may fail: the Gateway is down or answers 4xx or 5xx (a job it
\* has forgotten is a 404), the network breaks, a response never comes and
\* fetch gives up.  callTool() turns what was thrown into an error result.
Fail(c) ==
  /\ up /\ pc[c] \in {"resolving", "submitting", "asking", "reading"}
  /\ Answer(c, "error")
  /\ UNCHANGED <<transport, up, kind, job, seen, left, owner, gateway>>

\* POST /workspaces/:id/jobs has created the job and the 202 has come back.
Post(c) ==
  /\ up /\ pc[c] = "submitting"
  /\ \E j \in Ids :
       /\ owner[j] = None
       /\ Gateway!Submit(j)
       /\ owner' = [owner EXCEPT ![j] = c]
       /\ job' = [job EXCEPT ![c] = j]
  /\ seen' = [seen EXCEPT ![c] = "live"]
  /\ left' = [left EXCEPT ![c] = Patience]
  /\ pc' = [pc EXCEPT ![c] = "polling"]
  /\ UNCHANGED <<transport, up, kind, answer>>

\* Mutant: a POST that seems to have failed is sent again.
PostAgain(c) ==
  /\ up /\ pc[c] = "submitting"
  /\ \E j \in Ids :
       /\ owner[j] = None
       /\ Gateway!Submit(j)
       /\ owner' = [owner EXCEPT ![j] = c]
  /\ UNCHANGED <<transport, up, kind, pc, job, seen, left, answer>>

\* The same, but the 202 is lost on its way back.
PostUnheard(c) ==
  /\ up /\ pc[c] = "submitting"
  /\ \E j \in Ids :
       /\ owner[j] = None
       /\ Gateway!Submit(j)
       /\ owner' = [owner EXCEPT ![j] = c]
  /\ Answer(c, "error")
  /\ UNCHANGED <<transport, up, kind, job, seen, left>>

(***************************************************************************)
(* The polling loop of runJob().                                           *)
(***************************************************************************)
GiveUp(c) ==
  /\ up /\ pc[c] = "polling" /\ left[c] = 0
  /\ Answer(c, "timeout")
  /\ UNCHANGED <<transport, up, kind, job, seen, left, owner, gateway>>

\* Mutant: the deadline starts anew with each poll.
SleepAnew(c) ==
  /\ up /\ pc[c] = "polling" /\ left[c] > 0
  /\ pc' = [pc EXCEPT ![c] = "reading"]
  /\ UNCHANGED <<transport, up, kind, job, seen, left, answer, owner, gateway>>

\* Half a second's sleep, then GET /jobs/:id is sent.  A slow answer may use
\* up more than one interval of the two minutes.
Sleep(c) ==
  /\ up /\ pc[c] = "polling" /\ left[c] > 0
  /\ pc' = [pc EXCEPT ![c] = "reading"]
  /\ \E n \in 0..(left[c] - 1) : left' = [left EXCEPT ![c] = n]
  /\ UNCHANGED <<transport, up, kind, job, seen, answer, owner, gateway>>

\* Mutant: a failed job is handed over like a completed one.
ToolResultOfAny(s) == "result"

ToolResult(s) == IF s = "failed" THEN "failed" ELSE "result"

\* The snapshot has come.  A settled job ends the loop before the deadline is
\* looked at again.
Read(c) ==
  /\ up /\ online /\ pc[c] = "reading"
  /\ status[job[c]] # "absent"
  /\ seen' = [seen EXCEPT ![c] = status[job[c]]]
  /\ IF status[job[c]] \in Gateway!Outcome
       THEN Answer(c, ToolResult(status[job[c]]))
       ELSE pc' = [pc EXCEPT ![c] = "polling"] /\ UNCHANGED answer
  /\ UNCHANGED <<transport, up, kind, job, left, owner, gateway>>

(***************************************************************************)
(* The end of stdin, or the HTTP process being stopped: what is in flight  *)
(* is dropped, and its jobs go on in the Gateway.                          *)
(***************************************************************************)
EndOfInput ==
  /\ up /\ up' = FALSE
  /\ UNCHANGED <<transport, kind, pc, job, seen, left, answer, owner, gateway>>

\* The Gateway on its own.
GatewayStep ==
  /\ \/ \E j \in Ids : Gateway!Settle(j) \/ Gateway!Record(j)
     \/ Gateway!Stop
     \/ Gateway!Restart
  /\ UNCHANGED <<transport, up, kind, pc, job, seen, left, answer, owner>>

Handle(c) ==
  Resolve(c) \/ Ask(c) \/ Fail(c) \/ Post(c) \/ PostUnheard(c)
    \/ GiveUp(c) \/ Sleep(c) \/ Read(c)

MCPNext == (\E c \in Calls : Receive(c) \/ Handle(c)) \/ EndOfInput \/ GatewayStep

MCPSpec == MCPInit /\ [][MCPNext]_mcpVars

\* A handler goes on: a timer fires, and a fetch ends one way or the other
\* (undici gives up on a response that does not come).  Nothing is assumed of
\* the Gateway, which need not settle any job.
Fairness == \A c \in Calls : WF_mcpVars(Handle(c))

FairSpec == MCPSpec /\ Fairness

(***************************************************************************)
(* Properties.                                                             *)
(***************************************************************************)

\* One call submits one job at most, though its POST may have been carried
\* out when the request for it fails: tools that are not idempotent
\* (adb_shell, patch_apk_project) are never run twice for one call.
\* gateway-client.ts:195, protocol.ts:206-220
OneJobPerCall ==
  \A i, j \in Ids : owner[i] # None /\ owner[i] = owner[j] => i = j

\* A result or a failure told to the client is the outcome, at that moment, of
\* the very job its call created; a timeout names that job and is told only
\* of one not seen settled.  gateway-client.ts:203-214, protocol.ts:214-217
OutcomesAreTrue ==
  [][\A c \in Calls : answer[c] = "none" =>
       /\ answer'[c] = "result" => owner[job[c]] = c /\ status[job[c]] = "completed"
       /\ answer'[c] = "failed" => owner[job[c]] = c /\ status[job[c]] = "failed"
       /\ answer'[c] = "timeout" => owner[job[c]] = c /\ seen[c] \notin Gateway!Outcome]_mcpVars

\* Every request is answered, unless the process ends: also one whose job never
\* settles, or is forgotten by a Gateway that restarted.
\* gateway-client.ts:205-210
EveryRequestAnswered ==
  \A c \in Calls : (kind[c] \in Answerable) ~> (answer[c] # "none" \/ ~up)
=============================================================================
