-------------------------------- MODULE Chat --------------------------------
(***************************************************************************)
(* The knowledge entries of one workspace (knowledge.service.ts) and the   *)
(* conversation kept in them (ai.service.ts).  chat() reads the stored     *)
(* chat entries, cuts a history out of them by position, stores the user's *)
(* message, asks the AI provider and stores its reply: four awaits, with   *)
(* other requests in between.  An entry has an id, a type, an author, the  *)
(* time of its creation and the length of its content; nothing else of the *)
(* content matters here.                                                   *)
(*                                                                         *)
(* The collection is the Gateway's local one, as its callers see it        *)
(* (StoreSpec): a sequence in the order of insertion.                      *)
(***************************************************************************)
EXTENDS Naturals, FiniteSets, Sequences, SequencesExt

CONSTANTS
  MaxCalls,    \* requests to the Gateway
  MaxOpen,     \* of which so many may be at work at once
  Ops,         \* what they may ask for
  Gap,         \* least time between two entries, in milliseconds: 0 or 1
  Asked,       \* lengths of the users' messages
  Sizes,       \* lengths of replies and of updated entries
  MaxTurns,    \* MAX_CHAT_HISTORY_TURNS
  Budget,      \* MAX_CHAT_HISTORY_CHARS
  Cap,         \* MAX_HISTORY_MESSAGE_CHARS
  Mark         \* length of the note a truncated message ends with

ASSUME OpsAssumption == Ops \subseteq {"chat", "create", "summarize", "update", "delete"}
ASSUME BoundsAssumption ==
  /\ Asked \cup Sizes \subseteq Nat /\ Gap \in {0, 1}
  /\ MaxTurns \in Nat \ {0} /\ {Budget, Cap, Mark} \subseteq Nat

\* Any two messages fit into the budget once each has been truncated.
ASSUME BudgetAssumption == 2 * (Cap + Mark) <= Budget

Calls == 1..MaxCalls

VARIABLES
  entries,    \* the collection
  clock,      \* Date.now(), as far as it tells entries apart
  op, pc,     \* each request: what it is, and where it stands
  about,      \* the id of the entry it was given, and that entry as last read
  history,    \* what a chat sends to the provider before its message
  answer,     \* what the client was told
  deleted,    \* ids a client deleted
  disturbed   \* something has happened that chat() does not expect (see below)

vars == <<entries, clock, op, pc, about, history, answer, deleted, disturbed>>

(***************************************************************************)
(* The collection.                                                         *)
(***************************************************************************)
Ids == Calls \X {"question", "reply", "entry"}

Entry == [id : Ids, type : {"chat", "note", "summary"}, source : {"user", "system"},
          at : Nat, size : Nat, related : SUBSET Ids]

NoEntry == [id |-> <<0, "entry">>]

Stored == {entries[i].id : i \in DOMAIN entries}

Find(id) == CHOOSE e \in ToSet(entries) : e.id = id

\* upsertRecord: in its place if there is one, at the end otherwise.
Upsert(e) ==
  entries' = IF e.id \in Stored
               THEN [i \in DOMAIN entries |-> IF entries[i].id = e.id THEN e ELSE entries[i]]
               ELSE Append(entries, e)

\* deleteRecord: no other record has its id.
Without(id) ==
  IF id \in Stored THEN RemoveAt(entries, CHOOSE i \in DOMAIN entries : entries[i].id = id)
                   ELSE entries

\* listEntriesForWorkspace(type "chat"): newest first, by a stable sort on
\* createdAt, so that entries of one millisecond stay in insertion order.
Newer(i, j) ==
  \/ entries[i].at > entries[j].at
  \/ entries[i].at = entries[j].at /\ i < j

RecentChat ==
  LET chats == {i \in DOMAIN entries : entries[i].type = "chat"}
      At(k) == CHOOSE i \in chats : Cardinality({j \in chats : Newer(j, i)}) = k - 1
  IN [k \in 1..Cardinality(chats) |-> entries[At(k)]]

\* GET /workspaces/:id/chat.
Transcript == Reverse(RecentChat)

(***************************************************************************)
(* buildChatHistory().                                                     *)
(***************************************************************************)
Role(e) == IF e.source = "user" THEN "user" ELSE "assistant"

Truncated(n) == IF n > Cap THEN Cap + Mark ELSE n

Message(e) == [id |-> e.id, role |-> Role(e), size |-> Truncated(e.size)]

PairSize(recent, i) == Truncated(recent[2 * i + 1].size) + Truncated(recent[2 * i + 2].size)

Least(a, b) == IF a < b THEN a ELSE b

Candidates(recent) == Least(MaxTurns, Len(recent) \div 2)

\* What the first i pairs take of the budget.
Spent(recent, i) == MapThenSumSet(LAMBDA k : PairSize(recent, k), 0..(i - 1))

\* Mutant: the budget is not reduced by what has been picked.
PairsUnspent(recent) ==
  LET Stops(i) == i = Candidates(recent) \/ PairSize(recent, i) > Budget
  IN CHOOSE i \in 0..Candidates(recent) : Stops(i) /\ \A k \in 0..(i - 1) : ~Stops(k)

\* Pairs from the newest on, up to the first that what is left does not hold.
Pairs(recent) ==
  LET Stops(i) == i = Candidates(recent) \/ Spent(recent, i + 1) > Budget
  IN CHOOSE i \in 0..Candidates(recent) : Stops(i) /\ \A k \in 0..(i - 1) : ~Stops(k)

\* Mutant: the pairs are sent newest first.
BuildChatHistoryBackwards(recent) ==
  LET picked == SubSeq(recent, 1, 2 * Pairs(recent))
  IN [k \in DOMAIN picked |-> Message(picked[k])]

BuildChatHistory(recent) ==
  LET picked == SubSeq(recent, 1, 2 * Pairs(recent))
  IN Reverse([k \in DOMAIN picked |-> Message(picked[k])])

(***************************************************************************)
(* Requests.                                                               *)
(***************************************************************************)
Init ==
  /\ entries = <<>> /\ clock = 0
  /\ op = [c \in Calls |-> "none"]
  /\ pc = [c \in Calls |-> "idle"]
  /\ about = [c \in Calls |-> NoEntry]
  /\ history = [c \in Calls |-> <<>>]
  /\ answer = [c \in Calls |-> "none"]
  /\ deleted = {}
  /\ disturbed = FALSE

Open == {c \in Calls : pc[c] \notin {"idle", "done"}}

FirstStep(o) ==
  CASE o = "chat" -> "listing"
    [] o = "create" -> "creating"
    [] OTHER -> "looking"

\* A request has passed the checks of its route.  One entry's id comes with a
\* request about an entry, which its client has seen.
Arrive(c) ==
  /\ pc[c] = "idle" /\ \A d \in Calls : d < c => pc[d] # "idle"
  /\ Cardinality(Open) < MaxOpen
  /\ \E o \in Ops :
       /\ op' = [op EXCEPT ![c] = o]
       /\ pc' = [pc EXCEPT ![c] = FirstStep(o)]
       /\ IF FirstStep(o) = "looking"
            THEN \E e \in ToSet(entries) : about' = [about EXCEPT ![c] = e]
            ELSE UNCHANGED about
       /\ disturbed' = (disturbed \/ \E d \in Open : {op[d], o} = {"chat"})
  /\ UNCHANGED <<entries, clock, history, answer, deleted>>

Answer(c, a) ==
  /\ pc' = [pc EXCEPT ![c] = "done"]
  /\ answer' = [answer EXCEPT ![c] = a]
  /\ history' = [history EXCEPT ![c] = <<>>]
  /\ about' = [about EXCEPT ![c] = NoEntry]

GoTo(c, l) == pc' = [pc EXCEPT ![c] = l] /\ UNCHANGED answer

\* createEntry(): the lock on the collection serves its callers in the order in
\* which they took their time, so that time and place are drawn together.
CreateEntry(e) ==
  \E now \in (clock + Gap)..(clock + 1) :
    /\ clock' = now
    /\ entries' = Append(entries, [e EXCEPT !.at = now])

Chat(c, who, author, size) ==
  [id |-> <<c, who>>, type |-> "chat", source |-> author, at |-> 0, size |-> size,
   related |-> {}]

\* The stored conversation as it is now, and the history cut from it.
ListHistory(c) ==
  /\ pc[c] = "listing"
  /\ history' = [history EXCEPT ![c] = BuildChatHistory(RecentChat)]
  /\ GoTo(c, "asking")
  /\ UNCHANGED <<entries, clock, op, about, deleted, disturbed>>

\* A message that shares its millisecond with an entry before it may change
\* places with it when the conversation is sorted.
StoreQuestion(c) ==
  /\ pc[c] = "asking"
  /\ \E n \in Asked : CreateEntry(Chat(c, "question", "user", n))
  /\ disturbed' = (disturbed \/ (entries # <<>> /\ clock' = clock))
  /\ GoTo(c, "completing")
  /\ UNCHANGED <<op, about, history, deleted>>

\* complete() has answered with text.  The round trip takes its time, so that
\* a reply is never of the millisecond of its question.
StoreReply(c) ==
  /\ pc[c] = "completing" /\ op[c] = "chat"
  /\ \E n \in Sizes :
       LET reply == Chat(c, "reply", "system", n)
       IN entries' = Append(entries, [reply EXCEPT !.at = clock + 1])
  /\ clock' = clock + 1
  /\ Answer(c, "ok")
  /\ UNCHANGED <<op, deleted, disturbed>>

\* complete() throws: the provider is unreachable, answers with an error (also
\* because it refuses the messages it was sent) or with no text.  A reply that
\* cannot be stored, or a process that dies here, leaves the same entries.
ProviderFails(c) ==
  /\ pc[c] = "completing"
  /\ Answer(c, "502")
  /\ disturbed' = (disturbed \/ op[c] = "chat")
  /\ UNCHANGED <<entries, clock, op, deleted>>

\* POST /workspaces/:id/knowledge, an inbox note or a workflow's report.  Only
\* the route lets its client write a "chat" entry.
Create(c) ==
  /\ pc[c] = "creating"
  /\ \E t \in {"chat", "note"} :
       /\ CreateEntry([id |-> <<c, "entry">>, type |-> t, source |-> "user", at |-> 0,
                       size |-> 1, related |-> {}])
       /\ disturbed' = (disturbed \/ t = "chat")
  /\ Answer(c, "ok")
  /\ UNCHANGED <<op, deleted>>

\* getEntry(), of the route and again of the service: the second look counts,
\* and both answer without a trace if the entry is gone.
Look(c) ==
  /\ pc[c] = "looking"
  /\ IF about[c].id \in Stored
       THEN /\ about' = [about EXCEPT ![c] = Find(about[c].id)]
            /\ GoTo(c, CASE op[c] = "summarize" -> "completing"
                         [] op[c] = "update" -> "writing"
                         [] op[c] = "delete" -> "deleting")
            /\ UNCHANGED history
       ELSE Answer(c, "404")
  /\ UNCHANGED <<entries, clock, op, deleted, disturbed>>

StoreSummary(c) ==
  /\ pc[c] = "completing" /\ op[c] = "summarize"
  /\ CreateEntry([id |-> <<c, "entry">>, type |-> "summary", source |-> "system",
                  at |-> 0, size |-> 1, related |-> {about[c].id}])
  /\ Answer(c, "ok")
  /\ UNCHANGED <<op, deleted, disturbed>>

\* Mutant: the update is written as a new record with a new time.
WriteUpdateAnew(c) ==
  /\ pc[c] = "writing"
  /\ \E n \in Sizes :
       Upsert([about[c] EXCEPT !.size = n, !.at = clock, !.source = "user"])
  /\ Answer(c, "ok")
  /\ UNCHANGED <<clock, op, deleted, disturbed>>

\* updateEntry(): what was read, with the patch, is written back whole, also if
\* the entry has been deleted since.
WriteUpdate(c) ==
  /\ pc[c] = "writing"
  /\ \E n \in Sizes : Upsert([about[c] EXCEPT !.size = n])
  /\ Answer(c, "ok")
  /\ UNCHANGED <<clock, op, deleted, disturbed>>

DeleteEntry(c) ==
  /\ pc[c] = "deleting"
  /\ entries' = Without(about[c].id)
  /\ deleted' = deleted \cup {about[c].id}
  /\ disturbed' = (disturbed \/ about[c].type = "chat")
  /\ Answer(c, "ok")
  /\ UNCHANGED <<clock, op>>

Step(c) ==
  \/ ListHistory(c) \/ StoreQuestion(c) \/ StoreReply(c) \/ ProviderFails(c)
  \/ Create(c) \/ Look(c) \/ StoreSummary(c) \/ WriteUpdate(c) \/ DeleteEntry(c)

Next == \E c \in Calls : Arrive(c) \/ Step(c)

Spec == Init /\ [][Next]_vars

(***************************************************************************)
(* Properties.                                                             *)
(***************************************************************************)
TypeOK ==
  /\ ToSet(entries) \subseteq Entry
  /\ Cardinality(Stored) = Len(entries)
  /\ \A e \in ToSet(entries) : e.at <= clock
  /\ op \in [Calls -> Ops \cup {"none"}]
  /\ pc \in [Calls -> {"idle", "listing", "asking", "completing", "creating", "looking",
                       "writing", "deleting", "done"}]
  /\ about \in [Calls -> Entry \cup {NoEntry}]
  /\ \A c \in Calls : \A k \in DOMAIN history[c] :
       history[c][k] \in [id : Ids, role : {"user", "assistant"}, size : 0..(Cap + Mark)]
  /\ answer \in [Calls -> {"none", "ok", "404", "502"}]
  /\ deleted \subseteq Ids /\ disturbed \in BOOLEAN

Total(messages) ==
  LET sum[k \in 0..Len(messages)] == IF k = 0 THEN 0 ELSE sum[k - 1] + messages[k].size
  IN sum[Len(messages)]

Latest(messages, n) == SubSeq(messages, Len(messages) - n + 1, Len(messages))

\* The walk over pairs comes to what docs/AI.md says of it: the history is the end
\* of the transcript a client would be shown at that moment, without a gap, in
\* whole pairs, no more than the turns and the characters allowed, and as long as
\* these allow.  ai.service.ts:96-133
HistoryIsRecentTalk ==
  [][\A c \in Calls : pc[c] = "listing" /\ pc'[c] # "listing" =>
       LET transcript == Transcript
           talk == [k \in DOMAIN transcript |-> Message(transcript[k])]
           h == history'[c]
           Fits(n) == 2 * n <= Len(talk) /\ Total(Latest(talk, 2 * n)) <= Budget
       IN \E n \in 0..MaxTurns :
            /\ Fits(n)
            /\ h = Latest(talk, 2 * n)
            /\ \A more \in (n + 1)..MaxTurns : ~Fits(more)]_vars

\* The message being answered reaches the provider once, as the prompt, and never
\* as part of its own history, though it is stored before the provider is asked.
\* ai.service.ts:153-171
PromptNotInHistory ==
  \A c \in Calls : \A k \in DOMAIN history[c] : history[c][k].id # <<c, "question">>

\* A reply never stands before its question, nor without it, whatever is stored,
\* updated or deleted meanwhile.  ai.service.ts:158-179, knowledge.service.ts:87-120
RepliesFollowQuestions ==
  \A j \in DOMAIN entries : entries[j].id[2] = "reply" =>
    LET question == <<entries[j].id[1], "question">>
    IN \/ question \in deleted
       \/ \E i \in DOMAIN entries :
            /\ entries[i].id = question
            /\ entries[i].at < entries[j].at
            /\ i < j \/ entries[j].id \in deleted

\* What is stored and what is sent stay a conversation while other requests
\* store, change and delete entries between the awaits of this one.
ConversationsHold == TypeOK /\ PromptNotInHistory /\ RepliesFollowQuestions

\* What is sent to the provider alternates strictly, from the user's oldest message
\* to the prompt: several providers refuse anything else.  ai.service.ts:108-112
Alternates ==
  \A c \in Calls : pc[c] = "completing" =>
    \A k \in DOMAIN history[c] : history[c][k].role = (IF k % 2 = 1 THEN "user" ELSE "assistant")

\* It does as long as requests chat one after the other, no message shares its
\* millisecond with the entry before it, every message gets its reply, and nobody
\* writes or deletes chat entries.  ai.service.ts:87-94
AlternatesUndisturbed == disturbed \/ Alternates
=============================================================================
