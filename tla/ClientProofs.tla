---------------------------- MODULE ClientProofs ----------------------------
(***************************************************************************)
(* What clients of the Gateway can rely on: theorems about Events, whose   *)
(* sockets are told of every change, and about McpServer, whose calls      *)
(* submit a job and poll it (in the last part).                            *)
(*                                                                         *)
(* A turn of Events is a stack of calls, `todo`.  What is true between two *)
(* turns is not true within one, so the invariant says of each call on the *)
(* stack what it still has to do, and what may stand above what:           *)
(*                                                                         *)
(*   Typed            the variables' types, the calls on the stack among   *)
(*                    them;                                                *)
(*   Stacked, Bottom, the order of the calls: a record's events are over   *)
(*   Framed           before another call updates it, and who catches;     *)
(*   AllFit           each call fits the records: an event that is being   *)
(*                    told is the news of its record;                      *)
(*   Counted          attempts, versions and tasks agree;                  *)
(*   Paired           listeners are those of open sockets and of attempts; *)
(*   Heard            a socket knows a record's version or is owed it.     *)
(*                                                                         *)
(* A plugin's listener that throws takes calls off the stack, so that a    *)
(* completed task fails and a second attempt of its job is at work.  What  *)
(* keeps a job at one attempt and its end final is Calm, which holds while *)
(* nothing has thrown (Quiet).                                             *)
(***************************************************************************)
EXTENDS Events, McpServer, FiniteSetTheorems, SequenceTheorems, WellFoundedInduction, TLAPS

Tasks  == {r \in Records : r[1] = "task"}
Plugs  == {PluginRec(p) : p \in ToSet(Installed)}
Told   == Records \cup Plugs

Statuses == {"absent", "queued", "running", "completed", "failed", "created", "analyzing"}
States   == [status : Statuses, attempts : Nat, version : Nat]
Patches  == {<<>>} \cup [status : Statuses] \cup [status : Statuses, attempts : Nat]

AttemptsOf(j) == {Attempt(j, n) : n \in 1..Budget[j]}
Listeners == {Socket(s) : s \in Sockets} \cup (UNION {AttemptsOf(j) : j \in Jobs})
               \cup {Plugin(p) : p \in ToSet(Installed)}

ScriptSteps == UNION {ToSet(Script[p]) : p \in Enabled}

Emits      == [do : {"emit"}, event : Events, about : Told, snapshot : States]
CallItems  == [do : {"call"}, listener : Listeners, event : Events, about : Told, snapshot : States]
Updates    == [do : {"update"}, about : Records, patch : Patches]
Attempts   == [do : {"attempt"}, job : Jobs]
TaskItems  == [do : {"dispatch", "await", "execute", "start"}, about : Tasks]
Offs       == [do : {"off"}, listener : Listeners]
Looks      == [do : {"look"}, job : Jobs, attempt : Nat \ {0}]
Registers  == [do : {"register"}, plugin : ToSet(Installed), step : ScriptSteps]
Loadeds    == [do : {"loaded"}, plugin : ToSet(Installed)]
Catches    == [do : {"catch"}, where : {"request", "execute", "loader", "nobody"}, about : Told \cup {<<>>}]
Items == Emits \cup CallItems \cup Updates \cup Attempts \cup TaskItems \cup Offs \cup Looks
           \cup Registers \cup Loadeds \cup Catches

\* The variables' types.
Typed ==
  /\ phase \in {"loading", "serving", "down"}
  /\ toLoad \in Seq(ToSet(Installed))
  /\ listeners \in [Events -> Seq(Listeners)]
  /\ todo \in Seq(Items)
  /\ record \in [Records -> States]
  /\ working \subseteq Tasks
  /\ awaiting \subseteq [after : {"dispatch", "created", "analyzing"}, task : Tasks]
  /\ link \in [Sockets -> {"new", "open", "closed"}]
  /\ told \in [Sockets -> [Records -> Nat]] /\ base \in [Sockets -> [Records -> Nat]]
  /\ throws \in Nat
  /\ cut \subseteq {"job", "task", "workspace", "plugin"}

\* Events, and calls of the listeners of one.
Tells(a)     == a.do \in {"emit", "call"}
TellsOf(a, r) == Tells(a) /\ a.about = r
Carries(a)   == Tells(a) /\ a.event \in SocketEvents

\* An event of an update and a later one of the same update, that of its end last;
\* a listener is called once.
Follows(a, b) ==
  /\ a.event[2] \in Settled => b.event[2] \in Settled
  /\ a.event = b.event => /\ a.do = "call" /\ b.do = "call"
                          /\ a.listener[1] # "plugin" => a.listener # b.listener

\* Calls of the core's own code outside a job's second half and the loader.
Serves(a) == a.do \notin {"look", "register", "loaded"} /\ (a.do = "catch" => a = Nobody)

\* May the call a be done before the call b?  One part for each kind of b: before an
\* event is told, nothing else happens to its record; before an update, an attempt or a
\* look that a listener makes, comes what it waits for.
Above(a, b) ==
  /\ Tells(b) /\ b.about[1] = "task" =>
       /\ Serves(a)
       /\ a.do \in {"update", "dispatch", "execute"} => a.about # b.about
       /\ TellsOf(a, b.about) => Follows(a, b)
  /\ Tells(b) /\ b.about[1] # "task" => TellsOf(a, b.about) /\ Follows(a, b)
  /\ b.do = "update" =>
       /\ b.about[1] = "task"
       /\ \/ a = Update(b.about, [status |-> "running"])
          \/ TellsOf(a, b.about) /\ a.snapshot.status \notin Settled
  /\ b.do = "attempt" => TellsOf(a, JobRec(b.job))
  /\ b.do = "dispatch" =>
       /\ b.about[2] \in Jobs
       /\ \/ a = Update(JobRec(b.about[2]), [status |-> "running", attempts |-> b.about[3]])
          \/ TellsOf(a, JobRec(b.about[2]))
  /\ b.do = "execute" => TellsOf(a, b.about) /\ a.snapshot.status = "queued"
  /\ b.do = "await" =>
       \/ /\ a.do \in {"emit", "call", "update", "execute", "start"} /\ a.about = b.about
          /\ a.do = "call" => a.listener # Attempt(b.about[2], b.about[3])
       \/ a = Nobody
  /\ b.do = "start" =>
       \/ a = Update(b.about, [status |-> "running"])
       \/ TellsOf(a, b.about) /\ a.snapshot.status \notin Settled
  /\ b.do = "look" => a = Update(JobRec(b.job), <<>>) \/ TellsOf(a, JobRec(b.job))
  /\ b.do = "off" \/ (b.do = "catch" /\ b.where = "request") => Serves(a)
  /\ b.do = "catch" /\ b.where = "execute" =>
       \/ TellsOf(a, b.about) /\ a.snapshot.status = "completed"
       \/ a = Update(b.about, [status |-> "completed"])
       \/ TellsOf(a, JobRec(b.about[2]))
       \/ a = Update(JobRec(b.about[2]), [status |-> "completed"])
       \/ a.do = "off"
  /\ b.do = "catch" /\ b.where = "loader" =>
       TellsOf(a, b.about) \/ (a.do \in {"register", "loaded"} /\ PluginRec(a.plugin) = b.about)
  /\ b.do \in {"register", "loaded"} => a.do = "register" /\ a.plugin = b.plugin

Stacked == \A i \in DOMAIN todo : \A k \in 1..(i - 1) : Above(todo[k], todo[i])

\* A turn is a request's, or one whose throws nobody catches.
Bottom == todo # <<>> => LET c == todo[Len(todo)] IN c.do = "catch" /\ c.where \in {"request", "nobody"}

\* what is above a request's catch and under no other one
Plain(a, r) ==
  \/ a.do = "attempt" /\ r[1] = "job"
  \/ a.do \in {"dispatch", "execute", "await"} /\ r[1] = "task"
  \/ /\ Tells(a) /\ a.about[1] = r[1] /\ a.event[2] \notin Settled /\ a.snapshot.status \notin Settled

Framed == \A i \in DOMAIN todo : todo[i].do = "catch" /\ todo[i].where = "request" =>
  \A k \in 1..(i - 1) : \/ Plain(todo[k], todo[i].about)
                        \/ \E m \in k..(i - 1) : todo[m] = Nobody

\* Nobody but a plugin is a listener twice.
Apart(s) == \A i, k \in DOMAIN s : s[i] = s[k] /\ s[i][1] # "plugin" => i = k
Among(x, s) == \E i \in DOMAIN s : s[i] = x

Listens(l, e) == Among(l, listeners[e])
Hears(j, n)   == Listens(Attempt(j, n), <<"task", "updated">>)

Version(r) == record[r].version
JobOf(j) == record[JobRec(j)]

\* an update that counts an attempt
Numbered(a) == a.patch \in [status : Statuses, attempts : Nat]

\* A call fits the records it is about: what is told is the news, an attempt is within its
\* job's budget, a task to be dispatched is new, and no one yet waits for one whose dispatch
\* is to be awaited.
Fits(a) ==
  CASE Tells(a) ->
         /\ a.event[1] = a.about[1]
         /\ a.about \in Records => /\ a.snapshot = record[a.about]
                                   /\ Version(a.about) > 0
         /\ a.do = "call" =>
              /\ a.listener[1] = "socket" => a.event \in SocketEvents
              /\ a.listener[1] = "attempt" => a.event = <<"task", "updated">>
    [] a.do = "update" ->
         /\ a.about[1] \in {"job", "task"} /\ Version(a.about) > 0
         /\ Numbered(a) => /\ a.about[1] = "job"
                           /\ record[a.about].attempts <= a.patch.attempts
                           /\ a.patch.attempts <= Budget[a.about[2]]
    [] a.do = "attempt" -> JobOf(a.job).attempts < Budget[a.job] /\ Version(JobRec(a.job)) > 0
    [] a.do = "dispatch" ->
         LET x == a.about[2] IN
         /\ record[a.about] = Absent
         /\ x \in Jobs => \/ JobOf(x).attempts = a.about[3]
                          \/ Head(todo) = Update(JobRec(x), [status |-> "running", attempts |-> a.about[3]])
    [] a.do = "await" -> Version(a.about) > 0 /\ (\A w \in awaiting : w.task # a.about)
                           /\ ~Hears(a.about[2], a.about[3])
    [] a.do = "look" -> LET t == TaskRec(a.job, a.attempt) IN
         /\ t \in Records /\ Version(t) > 0 /\ (\A w \in awaiting : w.task # t)
         /\ ~Hears(a.job, a.attempt)
    [] a.do \in {"execute", "start"} -> Version(a.about) > 0
    [] a.do = "off" -> a.listener[1] = "attempt"
    [] a.do = "catch" -> /\ a.where = "execute" => a.about \in Tasks /\ Version(a.about) > 0
                         /\ a.where = "loader" => a.about \in Plugs
                         /\ a.where = "nobody" <=> a.about = <<>>
    [] OTHER -> TRUE

AllFit == \A i \in DOMAIN todo : Fits(todo[i])

\* A record has a version since it was created, a task's number is at most its job's
\* count of attempts, and what waits for a dispatch() waits for a task there is.
Counted ==
  /\ \A j \in Jobs : JobOf(j).attempts <= Budget[j]
  /\ \A j \in Jobs : Version(JobRec(j)) = 0 => JobOf(j) = Absent
  /\ \A t \in Tasks : /\ record[t].attempts = 0
                      /\ Version(t) = 0 <=> record[t] = Absent
                      /\ Version(t) > 0 /\ t[2] \in Jobs => t[3] <= JobOf(t[2]).attempts
  /\ \A w \in Workspaces : LET r == record[WorkspaceRec(w)] IN
        r.status \in {"created", "analyzing"} /\ r.attempts = 0 /\ (r.status = "analyzing" => r.version > 0)
  /\ \A t \in working : Version(t) > 0
  /\ \A a \in awaiting :
       /\ Version(a.task) > 0
       /\ a.after = "dispatch" =>
            ~Hears(a.task[2], a.task[3])
       /\ a.after # "dispatch" => a.task[2] \in Requests
       /\ a.after = "analyzing" => record[WorkspaceRec(Home[a.task[2]])].status = "analyzing"
  /\ phase = "down" => todo = <<>>

\* Each open socket listens once to each of its events, and nobody else does; an attempt
\* listens to the updates of tasks, and its task is there.
Paired ==
  \A e \in Events :
    /\ Apart(listeners[e])
    /\ \A s \in Sockets : Listens(Socket(s), e) <=> e \in SocketEvents /\ link[s] = "open"
    /\ \A j \in Jobs : \A n \in 1..Budget[j] :
         Listens(Attempt(j, n), e) => e = <<"task", "updated">> /\ Version(TaskRec(j, n)) > 0

\* what is left to do tells the socket of the record
Owes(a, s, r) ==
  /\ a.do \in {"emit", "call", "update"} /\ a.about = r
  /\ Tells(a) => Carries(a)
  /\ a.do = "call" => a.listener = Socket(s)
Owed(s, r) == \E i \in DOMAIN todo : Owes(todo[i], s, r)

Rings(a, s) == a.do = "call" /\ a.listener = Socket(s)

\* A socket knows the version of the record, or the record is as it was when it connected.
Current(s, r) == told[s][r] = Version(r) \/ (told[s][r] = 0 /\ base[s][r] = Version(r))

\* A socket is up to date with a record, or will be when what is left to do is done.
Abreast(s, r) ==
  phase # "down" /\ link[s] = "open" /\ Watches(s, r) /\ r[1] \notin cut => Current(s, r) \/ Owed(s, r)

Heard ==
  \A s \in Sockets :
    /\ link[s] = "new" => \A i \in DOMAIN todo : ~Rings(todo[i], s)
    /\ \A r \in Records : /\ told[s][r] <= Version(r)
                          /\ ~Watches(s, r) \/ link[s] = "new" => told[s][r] = 0
                          /\ Abreast(s, r)

\* As long as nothing has thrown ...
Ends(r) == record[r].status \in Settled
Has(a)  == \E i \in DOMAIN todo : todo[i] = a

\* ... the attempt n of j is still to be told how its task has ended,
Pends(a, j, n) ==
  /\ TellsOf(a, TaskRec(j, n)) /\ a.event = <<"task", "updated">>
  /\ a.do = "call" => a.listener = Attempt(j, n)
Pending(j, n) == \E i \in DOMAIN todo : Pends(todo[i], j, n)

\* or it has its task being dispatched or at work, which it will look at or hears of:
Waits(j, n) == [after |-> "dispatch", task |-> TaskRec(j, n)] \in awaiting
Live(j, n) ==
  \/ Has(Await(TaskRec(j, n))) \/ Waits(j, n) \/ Has(LookAt(j, n))
  \/ Hears(j, n) /\ (~Ends(TaskRec(j, n)) \/ Pending(j, n))

\* then it is the job's only one, and nothing else moves the job.
Spares(a, j) ==
  /\ a.do = "attempt" => a.job # j
  /\ a.do = "dispatch" => a.about[2] # j
  /\ a.do = "update" /\ a.about = JobRec(j) => a.patch = <<>>

Settings == {[status |-> x] : x \in {"running"} \cup Settled}

\* A call does nothing to what has ended: no other update of a record that has settled, no
\* start of a task that has, no attempt of such a job; an attempt's listener is called only as long as
\* it is one, and is removed when its task has ended and it has heard so.
Sound(a) ==
  /\ a.do = "update" => /\ a.about \notin working
                        /\ a.about[1] = "task" => a.patch \in Settings
                        /\ Ends(a.about) => a.patch = <<>>
  /\ a.do \in {"execute", "start"} => ~Ends(a.about) /\ a.about \notin working
  /\ a.do = "attempt" => ~Ends(JobRec(a.job))
  /\ a.do = "dispatch" /\ a.about[2] \in Jobs => ~Ends(JobRec(a.about[2]))
  /\ \A j \in Jobs : \A n \in 1..Budget[j] :
       /\ a.do = "call" /\ Pends(a, j, n) => Hears(j, n)
       /\ a = Unsubscribe(Attempt(j, n)) => Ends(TaskRec(j, n)) /\ ~Pending(j, n)

\* A queued task is about to be executed, and one at work has not ended.
Worked(t) ==
  /\ Version(t) > 0 => record[t].status \in {"queued", "running"} \cup Settled
  /\ record[t].status = "queued" => Has(Execute(t)) \/ Has(Update(t, [status |-> "running"]))
  /\ t \in working => ~Ends(t)

\* An attempt that listens has a task that runs, or will hear of its end, or is being removed.
Heeded(j, n) == Hears(j, n) =>
  \/ record[TaskRec(j, n)].status = "running"
  \/ Ends(TaskRec(j, n)) /\ (Pending(j, n) \/ Has(Unsubscribe(Attempt(j, n))))

\* A live attempt is its job's last, and the job has not ended.
Alone(j, n) == Live(j, n) =>
  n = JobOf(j).attempts /\ ~Ends(JobRec(j)) /\ \A i \in DOMAIN todo : Spares(todo[i], j)

Calm ==
  /\ \A t \in Tasks : Worked(t)
  /\ \A i \in DOMAIN todo : Sound(todo[i])
  /\ \A j \in Jobs : \A n \in 1..Budget[j] : Heeded(j, n) /\ Alone(j, n)

IInv == Typed /\ Stacked /\ Bottom /\ Framed /\ AllFit /\ Counted /\ Paired /\ Heard
Quiet == throws = 0 /\ phase # "down" => Calm

-----------------------------------------------------------------------------
(* The stack.                                                              *)

LEMMA NothingInEmpty == DOMAIN <<>> = {}
  OBVIOUS

\* What todo becomes when the d calls on its top give way to the calls P.
LEMMA Replaced ==
  ASSUME todo \in Seq(Items), NEW d \in DOMAIN todo, NEW P \in Seq(Items),
         todo' = P \o SubSeq(todo, d + 1, Len(todo))
  PROVE  /\ todo' \in Seq(Items) /\ Len(todo') = Len(P) + Len(todo) - d
         /\ DOMAIN todo' = 1..(Len(P) + Len(todo) - d)
         /\ DOMAIN P = 1..Len(P) /\ Len(P) \in Nat /\ Len(todo) \in Nat
         /\ DOMAIN todo = 1..Len(todo)
         /\ \A i \in 1..Len(P) : todo'[i] = P[i]
         /\ \A i \in (d + 1)..Len(todo) : todo'[Len(P) + i - d] = todo[i]
         /\ \A i \in DOMAIN todo' : i \notin 1..Len(P) =>
              i - Len(P) + d \in (d + 1)..Len(todo) /\ todo'[i] = todo[i - Len(P) + d]
  <1>1. /\ d \in 1..Len(todo) /\ Len(todo) \in Nat /\ DOMAIN todo = 1..Len(todo)
        /\ DOMAIN P = 1..Len(P) /\ Len(P) \in Nat
    BY LenProperties
  <1> DEFINE rest == SubSeq(todo, d + 1, Len(todo))
  <1>2. /\ rest \in Seq(Items) /\ Len(rest) = Len(todo) - d
        /\ \A i \in 1..(Len(todo) - d) : rest[i] = todo[d + i]
    <2>1. d + 1 \in Int /\ Len(todo) \in Int /\ \A i \in (d + 1)..Len(todo) : todo[i] \in Items
      BY <1>1, ElementOfSeq
    <2>2. /\ rest \in Seq(Items)
          /\ Len(rest) = IF d + 1 <= Len(todo) THEN Len(todo) - (d + 1) + 1 ELSE 0
          /\ \A i \in 1..(Len(todo) - (d + 1) + 1) : rest[i] = todo[(d + 1) + i - 1]
      BY <2>1, SubSeqProperties
    <2>3. Len(rest) = Len(todo) - d
      BY <1>1, <2>2
    <2>4. \A i \in 1..(Len(todo) - d) : rest[i] = todo[d + i]
      <3> TAKE i \in 1..(Len(todo) - d)
      <3>1. i \in 1..(Len(todo) - (d + 1) + 1) /\ (d + 1) + i - 1 = d + i
        BY <1>1
      <3> QED BY <2>2, <3>1
    <2> QED BY <2>2, <2>3, <2>4
  <1> HIDE DEF rest
  <1>3. /\ todo' \in Seq(Items) /\ Len(todo') = Len(P) + Len(rest)
        /\ \A i \in 1..(Len(P) + Len(rest)) :
             todo'[i] = IF i <= Len(P) THEN P[i] ELSE rest[i - Len(P)]
    BY <1>2, ConcatProperties DEF rest
  <1>4. DOMAIN todo' = 1..(Len(P) + Len(todo) - d)
    BY <1>1, <1>2, <1>3, LenProperties
  <1>5. \A i \in 1..Len(P) : todo'[i] = P[i]
    BY <1>1, <1>2, <1>3
  <1>6. \A i \in (d + 1)..Len(todo) : todo'[Len(P) + i - d] = todo[i]
    <2> TAKE i \in (d + 1)..Len(todo)
    <2> DEFINE p == Len(P)
               n == Len(todo)
               k == Len(P) + i - d
    <2>1. p \in Nat /\ n \in Nat /\ d \in 1..n /\ Len(rest) = n - d /\ i \in (d + 1)..n
      BY <1>1, <1>2
    <2>2. /\ p + i - d \in 1..(p + (n - d)) /\ ~(p + i - d <= p)
          /\ (p + i - d) - p = i - d /\ i - d \in 1..(n - d) /\ d + (i - d) = i
      <3> HIDE DEF p, n
      <3>1. d \in Int /\ i \in Int /\ 1 <= d /\ d <= n /\ d + 1 <= i /\ i <= n
        BY <2>1
      <3>2. i - d \in 1..(n - d) /\ d + (i - d) = i
        BY <2>1, <3>1
      <3>3. p + i - d \in 1..(p + (n - d))
        <4>1. p + i - d \in Int /\ p + (n - d) \in Int /\ p \in Int /\ p >= 0
          BY <2>1, <3>1
        <4>2. 1 <= p + i - d
          BY <2>1, <3>1, <4>1
        <4>3. p + i - d <= p + (n - d)
          BY <2>1, <3>1, <4>1
        <4> QED BY <4>1, <4>2, <4>3
      <3>4. ~(p + i - d <= p) /\ (p + i - d) - p = i - d
        BY <2>1, <3>1
      <3> QED BY <3>2, <3>3, <3>4
    <2>3. k \in 1..(Len(P) + Len(rest)) /\ ~(k <= Len(P)) /\ k - Len(P) = i - d
          /\ i - d \in 1..(Len(todo) - d) /\ d + (i - d) = i
      BY <2>1, <2>2
    <2>4. todo'[k] = rest[k - Len(P)]
      BY <1>3, <2>3
    <2>5. rest[i - d] = todo[d + (i - d)]
      BY <1>2, <2>3
    <2> QED BY <2>3, <2>4, <2>5
  <1>7. \A i \in DOMAIN todo' : i \notin 1..Len(P) =>
              i - Len(P) + d \in (d + 1)..Len(todo) /\ todo'[i] = todo[i - Len(P) + d]
    <2> SUFFICES ASSUME NEW i \in DOMAIN todo', i \notin 1..Len(P)
                 PROVE  i - Len(P) + d \in (d + 1)..Len(todo) /\ todo'[i] = todo[i - Len(P) + d]
      OBVIOUS
    <2>1. i \in Nat /\ i > Len(P) /\ i <= Len(P) + Len(todo) - d
      BY <1>1, <1>4
    <2>2. i - Len(P) + d \in (d + 1)..Len(todo) /\ Len(P) + (i - Len(P) + d) - d = i
      BY <1>1, <2>1
    <2> QED BY <1>6, <2>2
  <1> QED BY <1>1, <1>2, <1>3, <1>4, <1>5, <1>6, <1>7

\* The calls P on the top of todo give way to the order that is kept if they may
\* stand above what the call they come from stood above.
LEMMA StackedAfter ==
  ASSUME todo \in Seq(Items), NEW d \in DOMAIN todo, NEW P \in Seq(Items),
         todo' = P \o SubSeq(todo, d + 1, Len(todo)),
         Stacked,
         \A i \in 1..Len(P) : \A k \in 1..(i - 1) : Above(P[k], P[i]),
         \A k \in 1..Len(P) : \A i \in (d + 1)..Len(todo) :
           Above(todo[d], todo[i]) => Above(P[k], todo[i])
  PROVE  Stacked'
  <1> SUFFICES ASSUME NEW i \in DOMAIN todo', NEW k \in 1..(i - 1)
               PROVE  Above(todo'[k], todo'[i])
    BY DEF Stacked, Above, Tells, TellsOf, Serves, Follows
  <1>0. /\ Len(P) \in Nat /\ Len(todo) \in Nat /\ d \in 1..Len(todo) /\ DOMAIN todo = 1..Len(todo)
        /\ DOMAIN todo' = 1..(Len(P) + Len(todo) - d)
        /\ \A m \in 1..Len(P) : todo'[m] = P[m]
        /\ \A m \in DOMAIN todo' : m \notin 1..Len(P) =>
              m - Len(P) + d \in (d + 1)..Len(todo) /\ todo'[m] = todo[m - Len(P) + d]
    BY Replaced
  <1>1. k \in DOMAIN todo' /\ i \in Nat /\ k \in Nat /\ k < i
    BY <1>0
  <1>2. CASE i \in 1..Len(P)
    <2>1. k \in 1..Len(P)
      BY <1>0, <1>1, <1>2
    <2> QED BY <1>0, <1>1, <1>2, <2>1
  <1>3. CASE i \notin 1..Len(P)
    <2> DEFINE m == i - Len(P) + d
    <2>1. m \in (d + 1)..Len(todo) /\ todo'[i] = todo[m]
      BY <1>0, <1>3
    <2>2. m \in DOMAIN todo
      BY <1>0, <2>1
    <2>3. CASE k \in 1..Len(P)
      <3>1. d \in 1..(m - 1)
        BY <1>0, <2>1
      <3>2. Above(todo[d], todo[m])
        BY <2>2, <3>1 DEF Stacked
      <3> QED BY <1>0, <2>1, <2>3, <3>2
    <2>4. CASE k \notin 1..Len(P)
      <3> DEFINE l == k - Len(P) + d
      <3>1. l \in (d + 1)..Len(todo) /\ todo'[k] = todo[l]
        BY <1>0, <1>1, <2>4
      <3>2. l < m
        BY <1>0, <1>1
      <3>3. l \in 1..(m - 1)
        <4> HIDE DEF l, m
        <4> QED BY <1>0, <2>1, <3>1, <3>2
      <3> QED BY <2>1, <2>2, <3>1, <3>3 DEF Stacked
    <2> QED BY <2>3, <2>4
  <1> QED BY <1>2, <1>3

\* What is on the top of todo, and how all the rest of it stands to that.
LEMMA OnTop ==
  ASSUME Typed, Stacked, AllFit, todo # <<>>
  PROVE  /\ 1 \in DOMAIN todo /\ todo[1] = Head(todo) /\ Head(todo) \in Items /\ Fits(Head(todo))
         /\ Len(todo) \in Nat /\ DOMAIN todo = 1..Len(todo) /\ Len(todo) > 0
         /\ Tail(todo) = SubSeq(todo, 2, Len(todo))
         /\ \A k \in 2..Len(todo) : /\ todo[k] \in Items /\ Fits(todo[k])
                                    /\ Above(Head(todo), todo[k])
  <1>1. todo \in Seq(Items) /\ Len(todo) \in Nat /\ DOMAIN todo = 1..Len(todo) /\ Len(todo) > 0
    BY LenProperties, EmptySeq DEF Typed
  <1>2. todo[1] = Head(todo) /\ Head(todo) \in Items
    BY <1>1, HeadTailProperties, ElementOfSeq
  <1>3. Tail(todo) = SubSeq(todo, 2, Len(todo))
    BY <1>1, TailIsSubSeq
  <1>4. ASSUME NEW k \in 2..Len(todo)
        PROVE  todo[k] \in Items /\ Fits(todo[k]) /\ Above(Head(todo), todo[k])
    <2>1. k \in DOMAIN todo /\ 1 \in 1..(k - 1)
      BY <1>1
    <2> QED BY <1>1, <1>2, <2>1, ElementOfSeq DEF Stacked, AllFit
  <1>5. Fits(Head(todo))
    BY <1>1, <1>2 DEF AllFit
  <1> QED BY <1>1, <1>2, <1>3, <1>4, <1>5

\* The d calls on the top give way to the calls P: what is to be shown of them.
Gives(d, P) == todo' = P \o SubSeq(todo, d + 1, Len(todo))

Stands(d, P) ==
  /\ P = <<>> \/ ~(todo[d].do = "catch" /\ todo[d].where \in {"request", "nobody"})
  /\ \A i \in 1..Len(P) : \A k \in 1..(i - 1) : Above(P[k], P[i])
  /\ \A i \in 1..Len(P) : P[i].do = "catch" => P[i].where # "request"
  /\ \A i \in (d + 1)..Len(todo) : Above(todo[d], todo[i]) => \A k \in 1..Len(P) : Above(P[k], todo[i])
  /\ \A k \in 1..Len(P) : \/ \E m \in k..Len(P) : P[m] = Nobody
                          \/ \A r : Plain(todo[d], r) => Plain(P[k], r)

LEMMA ShapeAfter ==
  ASSUME Typed, Stacked, Bottom, Framed, NEW d \in DOMAIN todo, NEW P \in Seq(Items),
         Gives(d, P), Stands(d, P)
  PROVE  Stacked' /\ Bottom' /\ Framed' /\ todo' \in Seq(Items)
  <1>1. todo \in Seq(Items)
    BY DEF Typed
  <1>2. Len(P) = 0 => P = <<>>
    BY EmptySeq
  <1>3. /\ todo' \in Seq(Items) /\ Len(todo') = Len(P) + Len(todo) - d
        /\ DOMAIN todo' = 1..(Len(P) + Len(todo) - d)
        /\ Len(P) \in Nat /\ Len(todo) \in Nat /\ DOMAIN todo = 1..Len(todo)
        /\ d \in Nat /\ d \in 1..Len(todo) /\ d <= Len(todo)
    BY <1>1, Replaced DEF Gives
  <1>0. /\ \A m \in 1..Len(P) : todo'[m] = P[m]
        /\ \A m \in DOMAIN todo' : m \notin 1..Len(P) =>
              m - Len(P) + d \in (d + 1)..Len(todo) /\ todo'[m] = todo[m - Len(P) + d]
    BY <1>1, Replaced DEF Gives
  <1>5. P = <<>> \/ ~(todo[d].do = "catch" /\ todo[d].where \in {"request", "nobody"})
    BY DEF Stands
  <1>4. Stacked'
    BY <1>1, StackedAfter DEF Stands, Gives
  <1>7. Bottom'
    <2> SUFFICES ASSUME todo' # <<>>
                 PROVE  todo'[Len(todo')].do = "catch" /\ todo'[Len(todo')].where \in {"request", "nobody"}
      BY DEF Bottom
    <2>1. todo[Len(todo)].do = "catch" /\ todo[Len(todo)].where \in {"request", "nobody"}
      BY <1>3, EmptySeq DEF Bottom
    <2>2. Len(todo') # 0
      BY <1>3, EmptySeq
    <2>3. Len(todo) # d
      BY <1>2, <1>3, <1>5, <2>1, <2>2
    <2>4. Len(todo') \in DOMAIN todo' /\ Len(todo') \notin 1..Len(P) /\ Len(todo') - Len(P) + d = Len(todo)
      <3>1. d \in Nat /\ d <= Len(todo)
        BY <1>3
      <3>2. Len(todo') - Len(P) + d = Len(todo) /\ Len(todo') > Len(P) /\ Len(todo') \in Nat
        BY <1>3, <2>3, <3>1
      <3> QED BY <1>3, <3>2
    <2>5. todo'[Len(todo')] = todo[Len(todo)]
      BY <1>0, <2>4
    <2> QED BY <2>1, <2>5
  <1>6. Framed'
    <2> SUFFICES ASSUME NEW i \in DOMAIN todo', todo'[i].do = "catch", todo'[i].where = "request",
                        NEW k \in 1..(i - 1)
                 PROVE  \/ Plain(todo'[k], todo'[i].about)
                        \/ \E m \in k..(i - 1) : todo'[m] = Nobody
      BY DEF Framed, Plain, Tells
    <2>0. i \notin 1..Len(P)
      <3> SUFFICES ASSUME i \in 1..Len(P) PROVE FALSE
        OBVIOUS
      <3>1. todo'[i] = P[i]
        BY <1>0
      <3> QED BY <3>1 DEF Stands
    <2>1. i \notin 1..Len(P) /\ i \in Nat /\ k \in Nat /\ k < i /\ k \in DOMAIN todo'
      <3>1. i \in Nat /\ k \in Nat /\ k < i /\ k >= 1 /\ i <= Len(P) + Len(todo) - d
        BY <1>3
      <3> QED BY <1>3, <2>0, <3>1
    <2>6. PICK n \in Nat : n = i - Len(P) + d
      BY <1>3, <2>1
    <2>2. n \in (d + 1)..Len(todo) /\ todo'[i] = todo[n] /\ n \in DOMAIN todo
      BY <1>0, <1>3, <2>1, <2>6
    <2>3. ASSUME NEW m \in (d + 1)..(n - 1), todo[m] = Nobody, m >= k - Len(P) + d
          PROVE  \E j \in k..(i - 1) : todo'[j] = Nobody
      <3>8. Len(P) \in Nat /\ Len(todo) \in Nat /\ i \in Nat /\ k \in Nat /\ m \in Nat /\ d \in Nat
        BY <1>3, <2>1
      <3>3. PICK p, l, a, b, c, e \in Nat : /\ p = Len(P) /\ l = Len(todo)
                                             /\ a = i /\ b = k /\ c = m /\ e = d
        BY <3>8
      <3>4. e + 1 <= c /\ c <= n - 1 /\ n <= l
        BY <2>2, <3>3
      <3>5. n = a - p + e /\ c >= b - p + e
        BY <2>3, <2>6, <3>3
      <3>6. PICK j \in Nat : j = c + p - e
        BY <3>4
      <3>7. j > p /\ j <= p + l - e /\ j <= a - 1 /\ j >= b /\ j - p + e = c
        BY <3>4, <3>5, <3>6
      <3>1. j \in DOMAIN todo' /\ j \notin 1..Len(P) /\ j \in k..(i - 1) /\ j - Len(P) + d = m
        BY <1>3, <3>3, <3>7
      <3>2. todo'[j] = todo[m]
        BY <1>0, <3>1
      <3> QED BY <2>3, <3>1, <3>2
    <2>4. CASE k \in 1..Len(P)
      <3>1. CASE \E m \in k..Len(P) : P[m] = Nobody
        <4>1. PICK m \in k..Len(P) : P[m] = Nobody
          BY <3>1
        <4>2. m \in 1..Len(P) /\ m \in k..(i - 1)
          BY <1>3, <2>1, <2>4
        <4> QED BY <1>0, <4>1, <4>2
      <3>2. CASE \A r : Plain(todo[d], r) => Plain(P[k], r)
        <4>1. \/ Plain(todo[d], todo[n].about)
              \/ \E m \in d..(n - 1) : todo[m] = Nobody
          <5>1. d \in 1..(n - 1)
            BY <1>3, <2>2
          <5> QED BY <2>2, <5>1 DEF Framed
        <4>2. CASE Plain(todo[d], todo[n].about)
          BY <1>0, <2>2, <2>4, <3>2, <4>2
        <4>3. CASE \E m \in d..(n - 1) : todo[m] = Nobody
          <5>1. PICK m \in d..(n - 1) : todo[m] = Nobody
            BY <4>3
          <5>2. m # d
            <6>1. P # <<>>
              BY <2>4, EmptySeq
            <6> QED BY <1>5, <5>1, <6>1 DEF Nobody, Catch
          <5>3. m \in (d + 1)..(n - 1)
            BY <1>3, <2>2, <5>1, <5>2
          <5>4. m >= k - Len(P) + d
            <6>1. k \in Nat /\ k <= Len(P) /\ m \in Nat /\ m > d /\ d \in Nat
              BY <1>3, <2>4, <5>3
            <6> QED BY <1>3, <6>1
          <5> QED BY <2>3, <5>1, <5>3, <5>4
        <4> QED BY <4>1, <4>2, <4>3
      <3> QED BY <2>4, <3>1, <3>2 DEF Stands
    <2>5. CASE k \notin 1..Len(P)
      <3> DEFINE l == k - Len(P) + d
      <3>1. l \in (d + 1)..Len(todo) /\ todo'[k] = todo[l]
        BY <1>0, <2>1, <2>5
      <3>2. l \in 1..(n - 1)
        BY <1>3, <2>1, <2>2, <2>6, <3>1
      <3>3. Plain(todo[l], todo[n].about) \/ \E m \in l..(n - 1) : todo[m] = Nobody
        BY <2>2, <3>2 DEF Framed
      <3>4. CASE \E m \in l..(n - 1) : todo[m] = Nobody
        <4>1. PICK m \in l..(n - 1) : todo[m] = Nobody
          BY <3>4
        <4>2. m \in (d + 1)..(n - 1) /\ m >= k - Len(P) + d
          BY <1>3, <2>2, <3>1, <4>1
        <4> QED BY <2>3, <4>1, <4>2
      <3> QED BY <2>2, <3>1, <3>3, <3>4
    <2> QED BY <2>4, <2>5
  <1> QED BY <1>3, <1>4, <1>6, <1>7

\* The call on the top gives way to the calls P.
LEMMA ShapeKept ==
  ASSUME Typed, Stacked, Bottom, Framed, AllFit, todo # <<>>,
         NEW P \in Seq(Items), Then(P), P = <<>> \/ Head(todo).do # "catch",
         \A i \in 1..Len(P) : \A k \in 1..(i - 1) : Above(P[k], P[i]),
         \A i \in 1..Len(P) : P[i].do = "catch" => P[i].where # "request",
         \A x \in Items : Fits(x) /\ Above(Head(todo), x) => \A k \in 1..Len(P) : Above(P[k], x),
         \A k \in 1..Len(P) : \/ \E m \in k..Len(P) : P[m] = Nobody
                              \/ \A r : Plain(Head(todo), r) => Plain(P[k], r)
  PROVE  Stacked' /\ Bottom' /\ Framed' /\ todo' \in Seq(Items)
  <1>1. 1 \in DOMAIN todo /\ todo[1] = Head(todo)
    BY OnTop
  <1>2. todo' = P \o SubSeq(todo, 1 + 1, Len(todo))
    BY OnTop DEF Then
  <1>3. \A i \in (1 + 1)..Len(todo) : Above(todo[1], todo[i]) =>
           \A k \in 1..Len(P) : Above(P[k], todo[i])
    BY OnTop
  <1> HIDE DEF Then, Stacked, Bottom, Framed, AllFit, Typed
  <1> QED BY <1>1, <1>2, <1>3, ShapeAfter DEF Stands, Gives

\* An item is of the kind that it says it is.
LEMMA ItemKinds ==
  ASSUME NEW a \in Items
  PROVE  /\ a.do = "emit" => a \in Emits
         /\ a.do = "call" => a \in CallItems
         /\ a.do = "update" => a \in Updates
         /\ a.do = "attempt" => a \in Attempts
         /\ a.do \in {"dispatch", "await", "execute", "start"} => a \in TaskItems
         /\ a.do = "off" => a \in Offs
         /\ a.do = "look" => a \in Looks
         /\ a.do = "register" => a \in Registers
         /\ a.do = "loaded" => a \in Loadeds
         /\ a.do = "catch" => a \in Catches
  BY DEF Items, Emits, CallItems, Updates, Attempts, TaskItems, Offs, Looks, Registers, Loadeds, Catches

LEMMA RecordsAre ==
  /\ \A r \in Records : \/ \E j \in Jobs : r = JobRec(j)
                        \/ \E w \in Workspaces : r = WorkspaceRec(w)
                        \/ \E j \in Jobs : \E n \in 1..Budget[j] : r = TaskRec(j, n)
                        \/ \E c \in Requests : r = TaskRec(c, 1)
  /\ \A j \in Jobs : JobRec(j) \in Records /\ \A n \in 1..Budget[j] : TaskRec(j, n) \in Records
  /\ \A w \in Workspaces : WorkspaceRec(w) \in Records
  /\ \A c \in Requests : TaskRec(c, 1) \in Records
  <1>1. /\ \A r : r \in Records <=> \/ \E j \in Jobs : r = JobRec(j)
                                    \/ \E w \in Workspaces : r = WorkspaceRec(w)
                                    \/ \E j \in Jobs : r \in TasksOf(j)
                                    \/ \E c \in Requests : r = TaskRec(c, 1)
    <2> DEFINE T == UNION {TasksOf(j) : j \in Jobs}
    <2>1. \A r : r \in T <=> \E j \in Jobs : r \in TasksOf(j)
      OBVIOUS
    <2>2. \A r : r \in Records <=> \/ \E j \in Jobs : r = JobRec(j)
                                   \/ \E w \in Workspaces : r = WorkspaceRec(w)
                                   \/ r \in T
                                   \/ \E c \in Requests : r = TaskRec(c, 1)
      BY DEF Records
    <2> HIDE DEF T
    <2> QED BY <2>1, <2>2
  <1>2. \A j : \A r : r \in TasksOf(j) <=> \E n \in 1..Budget[j] : r = TaskRec(j, n)
    BY DEF TasksOf
  <1> QED BY <1>1, <1>2

\* The records and the agents' tasks are what their names say.
LEMMA Names ==
  /\ \A j \in Jobs : JobRec(j) \in Records /\ JobRec(j)[1] = "job" /\ JobRec(j)[2] = j
  /\ \A j \in Jobs : \A n \in 1..Budget[j] : TaskRec(j, n) \in Tasks
  /\ \A c \in Requests : TaskRec(c, 1) \in Tasks
  /\ \A t \in Tasks : /\ t \in Records /\ t[1] = "task" /\ t = TaskRec(t[2], t[3])
                      /\ \/ t[2] \in Jobs /\ t[3] \in 1..Budget[t[2]]
                         \/ t[2] \in Requests /\ t[3] = 1
  /\ \A r \in Records : r[1] \in {"job", "task", "workspace"}
  /\ \A r \in Records : r[1] = "job" => r[2] \in Jobs /\ r = JobRec(r[2])
  /\ \A r \in Records : r[1] = "task" => r \in Tasks
  /\ \A r \in Plugs : r[1] = "plugin"
  <1>2. \A t \in Tasks : \/ \E j \in Jobs : \E n \in 1..Budget[j] : t = TaskRec(j, n)
                         \/ \E c \in Requests : t = TaskRec(c, 1)
    BY RecordsAre DEF Tasks, JobRec, WorkspaceRec
  <1>3. \A j \in Jobs : JobRec(j) \in Records /\ JobRec(j)[1] = "job" /\ JobRec(j)[2] = j
    BY RecordsAre DEF JobRec
  <1>4. /\ \A j \in Jobs : \A n \in 1..Budget[j] : TaskRec(j, n) \in Tasks
        /\ \A c \in Requests : TaskRec(c, 1) \in Tasks
    BY RecordsAre DEF Tasks, TaskRec
  <1>5. \A t \in Tasks : /\ t \in Records /\ t[1] = "task" /\ t = TaskRec(t[2], t[3])
                         /\ \/ t[2] \in Jobs /\ t[3] \in 1..Budget[t[2]]
                            \/ t[2] \in Requests /\ t[3] = 1
    BY <1>2 DEF Tasks, TaskRec
  <1>6. /\ \A r \in Records : r[1] \in {"job", "task", "workspace"}
        /\ \A r \in Records : r[1] = "job" => r[2] \in Jobs /\ r = JobRec(r[2])
        /\ \A r \in Records : r[1] = "task" => r \in Tasks
    BY RecordsAre DEF Tasks, TaskRec, JobRec, WorkspaceRec
  <1>7. \A r \in Plugs : r[1] = "plugin"
    BY DEF Plugs, PluginRec
  <1> QED BY <1>3, <1>4, <1>5, <1>6, <1>7

LEMMA Callers ==
  ASSUME NEW l \in Listeners
  PROVE  /\ l[1] \in {"socket", "attempt", "plugin"}
         /\ l[1] = "socket" => l[2] \in Sockets /\ l = Socket(l[2])
         /\ l[1] = "attempt" => /\ l[2] \in Jobs /\ l[3] \in 1..Budget[l[2]]
                                /\ l = Attempt(l[2], l[3]) /\ TaskRec(l[2], l[3]) \in Tasks
  <1>1. \/ l \in {Socket(s) : s \in Sockets} \/ \E j \in Jobs : l \in AttemptsOf(j)
        \/ l \in {Plugin(p) : p \in ToSet(Installed)}
    <2> DEFINE T == UNION {AttemptsOf(j) : j \in Jobs}
    <2>1. l \in T <=> \E j \in Jobs : l \in AttemptsOf(j)
      OBVIOUS
    <2>2. \/ l \in {Socket(s) : s \in Sockets} \/ l \in T
          \/ l \in {Plugin(p) : p \in ToSet(Installed)}
      BY DEF Listeners
    <2> HIDE DEF T
    <2> QED BY <2>1, <2>2
  <1>2. CASE \E j \in Jobs : l \in AttemptsOf(j)
    <2>1. PICK j \in Jobs : l \in AttemptsOf(j)
      BY <1>2
    <2>2. PICK n \in 1..Budget[j] : l = Attempt(j, n)
      BY <2>1 DEF AttemptsOf
    <2>3. l[1] = "attempt" /\ l[2] = j /\ l[3] = n
      BY <2>2 DEF Attempt
    <2> QED BY <2>2, <2>3, Names
  <1>3. CASE l \in {Socket(s) : s \in Sockets}
    BY <1>3 DEF Socket
  <1>4. CASE l \in {Plugin(p) : p \in ToSet(Installed)}
    BY <1>4 DEF Plugin
  <1> QED BY <1>1, <1>2, <1>3, <1>4

\* What it takes for each item to fit.
LEMMA Fitting ==
  ASSUME NEW a, Fits(a)
  PROVE  /\ Tells(a) => /\ a.event[1] = a.about[1]
                        /\ a.about \in Records => a.snapshot = record[a.about] /\ Version(a.about) > 0
         /\ a.do = "call" => /\ a.listener[1] = "socket" => a.event \in SocketEvents
                             /\ a.listener[1] = "attempt" => a.event = <<"task", "updated">>
         /\ a.do = "update" =>
              /\ a.about[1] \in {"job", "task"} /\ Version(a.about) > 0
              /\ Numbered(a) => /\ a.about[1] = "job"
                                /\ record[a.about].attempts <= a.patch.attempts
                                /\ a.patch.attempts <= Budget[a.about[2]]
         /\ a.do = "attempt" => JobOf(a.job).attempts < Budget[a.job] /\ Version(JobRec(a.job)) > 0
         /\ a.do = "dispatch" => record[a.about] = Absent
         /\ a.do \in {"await", "execute", "start"} => Version(a.about) > 0
         /\ a.do = "await" =>
              /\ \A w \in awaiting : w.task # a.about
              /\ ~Hears(a.about[2], a.about[3])
         /\ a.do = "off" => a.listener[1] = "attempt"
         /\ a.do = "catch" => /\ a.where = "execute" => a.about \in Tasks /\ Version(a.about) > 0
                              /\ a.where = "loader" => a.about \in Plugs
                              /\ a.where = "nobody" <=> a.about = <<>>
  <1>1. CASE Tells(a)
    BY <1>1 DEF Fits, Tells
  <1>2. CASE ~Tells(a)
    BY <1>2 DEF Fits, Tells
  <1> QED BY <1>1, <1>2

LEMMA EmitShape ==
  ASSUME Typed, Stacked, Bottom, Framed, AllFit, Paired, EmitEvent
  PROVE  Stacked' /\ Bottom' /\ Framed' /\ todo' \in Seq(Items)
  <1> DEFINE e == Head(todo)
             P == [k \in DOMAIN listeners[e.event] |-> Call(listeners[e.event][k], e)]
  <1>1. /\ todo # <<>> /\ e \in Items /\ e.do = "emit" /\ Fits(e) /\ Then(P)
    BY OnTop DEF EmitEvent, AtTop
  <1>2. /\ e \in Emits /\ e.event \in Events /\ e.event[1] = e.about[1]
    BY <1>1, ItemKinds DEF Emits, Fits, Tells
  <1>3. /\ listeners[e.event] \in Seq(Listeners)
        /\ DOMAIN listeners[e.event] = 1..Len(listeners[e.event]) /\ Len(listeners[e.event]) \in Nat
    BY <1>2, LenProperties DEF Typed
  <1>4. P \in Seq(Items) /\ Len(P) = Len(listeners[e.event])
        /\ \A k \in 1..Len(P) : P[k] = Call(listeners[e.event][k], e) /\ listeners[e.event][k] \in Listeners
    <2>1. \A k \in 1..Len(listeners[e.event]) : listeners[e.event][k] \in Listeners
      BY <1>3, ElementOfSeq
    <2>2. \A l \in Listeners : Call(l, e) \in Items
      BY <1>2 DEF Call, Items, CallItems, Emits
    <2>3. P \in [1..Len(listeners[e.event]) -> Items]
      BY <1>3, <2>1, <2>2
    <2>4. P \in Seq(Items) /\ Len(P) = Len(listeners[e.event])
      BY <1>3, <2>3, SeqDef, LenProperties
    <2> QED BY <1>3, <2>1, <2>4
  <1> HIDE DEF P, e
  <1>5. ASSUME NEW i \in 1..Len(P), NEW k \in 1..(i - 1)
        PROVE  Above(P[k], P[i])
    <2>1. i \in 1..Len(P) /\ k \in 1..Len(P) /\ i # k
      BY <1>3, <1>4
    <2> DEFINE l == listeners[e.event][k]
               m == listeners[e.event][i]
    <2>2. l = m => l[1] = "plugin"
      BY <1>2, <1>3, <1>4, <2>1 DEF Paired, Apart
    <2>3. P[k] = Call(l, e) /\ P[i] = Call(m, e)
      BY <1>4, <2>1
    <2> HIDE DEF l, m
    <2> QED BY <2>2, <2>3 DEF Above, Call, Tells, TellsOf, Serves, Follows
  <1>6. ASSUME NEW x \in Items, Fits(x), Above(e, x), NEW k \in 1..Len(P)
        PROVE  Above(P[k], x)
    <2> DEFINE l == listeners[e.event][k]
    <2>1. P[k] = Call(l, e)
      BY <1>4
    <2>2. x.do = "await" /\ l = Attempt(x.about[2], x.about[3]) => e.about # x.about
      <3> SUFFICES ASSUME x.do = "await", l = Attempt(x.about[2], x.about[3]) PROVE FALSE
        OBVIOUS
      <3>1. ~Hears(x.about[2], x.about[3]) /\ x.about \in Tasks
        BY <1>6, Fitting, ItemKinds DEF TaskItems
      <3>2. k \in DOMAIN listeners[e.event] /\ Listens(l, e.event)
        BY <1>3, <1>4 DEF Listens, Among
      <3>3. l \in Listeners /\ l[1] = "attempt" /\ l[2] = x.about[2] /\ l[3] = x.about[3]
        BY <1>4 DEF Attempt
      <3>4. e.event = <<"task", "updated">>
        BY <1>2, <3>2, <3>3, Callers DEF Paired
      <3> QED BY <3>1, <3>2, <3>4 DEF Hears
    <2> HIDE DEF l
    <2> QED BY <1>1, <1>6, <2>1, <2>2 DEF Above, Call, Tells, TellsOf, Serves, Follows, Update, Nobody, Catch
  <1>7. ASSUME NEW k \in 1..Len(P), NEW r, Plain(e, r)
        PROVE  Plain(P[k], r)
    <2> DEFINE l == listeners[e.event][k]
    <2>1. P[k] = Call(l, e)
      BY <1>4
    <2> HIDE DEF l
    <2> QED BY <1>1, <1>7, <2>1 DEF Plain, Call, Tells
  <1>8. ASSUME NEW k \in 1..Len(P)
        PROVE  P[k].do # "catch"
    <2> DEFINE l == listeners[e.event][k]
    <2>1. P[k] = Call(l, e)
      BY <1>4
    <2> HIDE DEF l
    <2> QED BY <2>1 DEF Call
  <1> QED BY <1>1, <1>4, <1>5, <1>6, <1>7, <1>8, ShapeKept DEF e


LEMMA Joined ==
  ASSUME NEW x, NEW y, NEW z
  PROVE  /\ <<x>> \o <<y>> = <<x, y>> /\ <<x, y>> \o <<z>> = <<x, y, z>> /\ <<x>> \o <<>> = <<x>>
  <1> DEFINE S == {x, y, z}
  <1>1. <<x>> \in Seq(S) /\ <<y>> \in Seq(S) /\ <<z>> \in Seq(S) /\ <<x, y>> \in Seq(S)
    OBVIOUS
  <1>2. <<x>> \o <<y>> = <<x, y>>
    <2>1. /\ <<x>> \o <<y>> \in Seq(S) /\ Len(<<x>> \o <<y>>) = 2
          /\ (<<x>> \o <<y>>)[1] = x /\ (<<x>> \o <<y>>)[2] = y
      BY <1>1, ConcatProperties
    <2>2. <<x, y>> \in Seq(S) /\ Len(<<x, y>>) = 2 /\ <<x, y>>[1] = x /\ <<x, y>>[2] = y
      OBVIOUS
    <2> DEFINE a == <<x>> \o <<y>>
               b == <<x, y>>
    <2> HIDE DEF S, a, b
    <2>3. a \in Seq(S) /\ b \in Seq(S) /\ Len(a) = 2 /\ Len(b) = 2 /\ a[1] = b[1] /\ a[2] = b[2]
      BY <2>1, <2>2 DEF a, b
    <2>4. \A i \in 1..Len(a) : a[i] = b[i]
      BY <2>3
    <2>5. a = b
      BY <2>3, <2>4, SeqEqual
    <2> QED BY <2>5 DEF a, b
  <1>3. <<x, y>> \o <<z>> = <<x, y, z>>
    <2>1. /\ <<x, y>> \o <<z>> \in Seq(S) /\ Len(<<x, y>> \o <<z>>) = 3
          /\ (<<x, y>> \o <<z>>)[1] = x /\ (<<x, y>> \o <<z>>)[2] = y /\ (<<x, y>> \o <<z>>)[3] = z
      BY <1>1, ConcatProperties
    <2>2. /\ <<x, y, z>> \in Seq(S) /\ Len(<<x, y, z>>) = 3
          /\ <<x, y, z>>[1] = x /\ <<x, y, z>>[2] = y /\ <<x, y, z>>[3] = z
      OBVIOUS
    <2> DEFINE a == <<x, y>> \o <<z>>
               b == <<x, y, z>>
    <2> HIDE DEF S, a, b
    <2>3. /\ a \in Seq(S) /\ b \in Seq(S) /\ Len(a) = 3 /\ Len(b) = 3
          /\ a[1] = b[1] /\ a[2] = b[2] /\ a[3] = b[3]
      BY <2>1, <2>2 DEF a, b
    <2>4. \A i \in 1..Len(a) : a[i] = b[i]
      BY <2>3
    <2>5. a = b
      BY <2>3, <2>4, SeqEqual
    <2> QED BY <2>5 DEF a, b
  <1> QED BY <1>1, <1>2, <1>3, ConcatEmptySeq

\* A call that leaves nothing to be done.
LEMMA PopShape ==
  ASSUME Typed, Stacked, Bottom, Framed, AllFit, todo # <<>>, Then(<<>>)
  PROVE  Stacked' /\ Bottom' /\ Framed' /\ todo' \in Seq(Items)
  <1>1. <<>> \in Seq(Items) /\ Len(<<>>) = 0
    BY EmptySeq
  <1>2. \A k \in 1..Len(<<>>) : FALSE
    BY <1>1
  <1> HIDE DEF Then
  <1> QED BY <1>1, <1>2, ShapeKept

LEMMA AttemptShape ==
  ASSUME Typed, Stacked, Bottom, Framed, AllFit, TellAttempt
  PROVE  Stacked' /\ Bottom' /\ Framed' /\ todo' \in Seq(Items)
  <1> DEFINE e == Head(todo)
             j == e.listener[2]
             l == e.listener
  <1>1. /\ todo # <<>> /\ e \in Items /\ e.do = "call" /\ l[1] = "attempt"
    BY OnTop DEF TellAttempt, Calling, AtTop
  <1>2. l \in Listeners
    BY <1>1, ItemKinds DEF CallItems
  <1>3. j \in Jobs /\ l = Attempt(j, l[3])
    BY <1>1, <1>2, Callers
  <1>4. CASE Then(<<>>)
    BY <1>1, <1>4, PopShape
  <1>5. CASE /\ e.about = TaskRec(j, l[3]) /\ e.snapshot.status \in Settled
             /\ Then(HandleTerminal(j, e.snapshot) \o <<Unsubscribe(l)>>)
    <2>1. PICK x \in {Update(JobRec(j), [status |-> "completed"]), RunAttempt(j),
                       Update(JobRec(j), [status |-> "failed"])} :
            /\ HandleTerminal(j, e.snapshot) = <<x>>
            /\ e.snapshot.status = "completed" => x = Update(JobRec(j), [status |-> "completed"])
      BY DEF HandleTerminal
    <2> DEFINE P == <<x, Unsubscribe(l)>>
    <2>2. Then(P)
      <3>1. <<x>> \o <<Unsubscribe(l)>> = P
        BY Joined
      <3> QED BY <1>5, <2>1, <3>1
    <2>3. P \in Seq(Items) /\ Len(P) = 2 /\ P[1] = x /\ P[2] = Unsubscribe(l)
      <3>1. x \in Items /\ Unsubscribe(l) \in Items
        BY <1>2, <1>3, <2>1, Names
          DEF Items, Updates, Attempts, Offs, Update, RunAttempt, Unsubscribe, Patches, Statuses
      <3> QED BY <3>1
    <2> HIDE DEF P, l
    <2>4. Above(P[1], P[2])
      BY <2>1, <2>3 DEF Above, Unsubscribe, Serves, Tells, Update, RunAttempt
    <2>5. ASSUME NEW y \in Items, Fits(y), Above(e, y)
          PROVE  Above(P[1], y) /\ Above(P[2], y)
      <3>1. e.about[1] = "task" /\ e.about[2] = j /\ e.about[3] = l[3]
        BY <1>5 DEF TaskRec
      <3>2. y.do = "await" => ~(e.about = y.about)
        BY <1>1, <1>3, <2>5, <3>1 DEF Above, l, Nobody, Catch
      <3>3. e.about = TaskRec(j, l[3]) /\ e.snapshot.status \in {"completed", "failed"} /\ e.do = "call"
        BY <1>1, <1>5 DEF Settled
      <3> HIDE DEF e, j
      <3>4. P[2].do = "off" /\ (P[1].do = "attempt" \/ (P[1].do = "update" /\ P[1].about = JobRec(j)))
        BY <2>1, <2>3 DEF Unsubscribe, Update, RunAttempt
      <3>5. y.do = "catch" /\ y.where = "execute" /\ y.about = e.about =>
              P[1] = Update(JobRec(y.about[2]), [status |-> "completed"])
        BY <2>1, <2>3, <2>5, <3>1, <3>3 DEF Above, TellsOf, Tells, Update, JobRec
      <3>6. /\ y.do \notin {"update", "attempt", "dispatch", "execute", "await", "start", "look",
                            "register", "loaded"}
            /\ y.do = "catch" => y.where # "loader" /\ (y.where = "execute" => y.about = e.about)
            /\ Tells(y) => y.about[1] = "task"
        <4>1. y.do = "catch" => y.where # "loader" /\ (y.where = "execute" => y.about = e.about)
          BY <2>5, <3>1, <3>3, Names DEF Above, TellsOf, Tells, Update, JobRec, Fits
        <4>2. Tells(y) => y.about[1] = "task"
          BY <2>5, <3>1, <3>3 DEF Above, TellsOf, Tells
        <4>3. y.do \notin {"update", "attempt", "dispatch", "execute", "await", "start"}
          BY <2>5, <3>1, <3>2, <3>3 DEF Above, TellsOf, Tells, Update, JobRec, Settled, Nobody, Catch
        <4>4. y.do \notin {"look", "register", "loaded"}
          BY <2>5, <3>1, <3>3 DEF Above, TellsOf, Tells, Update, JobRec
        <4> QED BY <4>1, <4>2, <4>3, <4>4
      <3> QED BY <3>1, <3>4, <3>5, <3>6 DEF Above, TellsOf, Tells, Serves, JobRec
    <2>6. \A r : ~Plain(e, r)
      BY <1>1, <1>5 DEF Plain, Settled
    <2>7. \A k \in 1..Len(P) : P[k].do # "catch"
      BY <2>1, <2>3 DEF Unsubscribe, Update, RunAttempt
    <2> QED BY <1>1, <2>2, <2>3, <2>4, <2>5, <2>6, <2>7, ShapeKept
  <1> QED BY <1>4, <1>5 DEF TellAttempt

\* What an update makes of a record.
LEMMA Merging ==
  ASSUME NEW old \in States, NEW patch \in Patches
  PROVE  /\ Merged(old, patch) \in States
         /\ Merged(old, patch).version = old.version + 1 /\ Merged(old, patch).version > old.version
         /\ patch = <<>> => Merged(old, patch).status = old.status /\ Merged(old, patch).attempts = old.attempts
         /\ patch \in [status : Statuses] =>
              Merged(old, patch).status = patch.status /\ Merged(old, patch).attempts = old.attempts
         /\ patch \in [status : Statuses, attempts : Nat] =>
              Merged(old, patch).status = patch.status /\ Merged(old, patch).attempts = patch.attempts
  <1>1. CASE patch = <<>>
    <2>1. "status" \notin DOMAIN patch /\ "attempts" \notin DOMAIN patch
      BY <1>1, NothingInEmpty
    <2>2. patch \notin [status : Statuses] /\ patch \notin [status : Statuses, attempts : Nat]
      BY <2>1
    <2> QED BY <2>1, <2>2 DEF Merged, States
  <1>2. CASE patch \in [status : Statuses]
    <2>1. "status" \in DOMAIN patch /\ "attempts" \notin DOMAIN patch
      BY <1>2
    <2>3. patch # <<>>
      BY <2>1, NothingInEmpty
    <2>2. patch \notin [status : Statuses, attempts : Nat]
      BY <2>1
    <2> QED BY <1>2, <2>1, <2>2, <2>3 DEF Merged, States
  <1>3. CASE patch \in [status : Statuses, attempts : Nat]
    <2>1. "status" \in DOMAIN patch /\ "attempts" \in DOMAIN patch
      BY <1>3
    <2>3. patch # <<>>
      BY <2>1, NothingInEmpty
    <2>2. patch \notin [status : Statuses]
      BY <2>1
    <2> QED BY <1>3, <2>1, <2>2, <2>3 DEF Merged, States
  <1> QED BY <1>1, <1>2, <1>3 DEF Patches

UpdateFacts(e, r, u, P) ==
  /\ todo # <<>> /\ e = Head(todo) /\ e \in Items /\ e.do = "update" /\ Fits(e)
  /\ r = e.about /\ r \in Records /\ r[1] \in {"job", "task"}
  /\ e.patch \in Patches
  /\ u = Merged(record[r], e.patch) /\ u \in States
  /\ e = Update(r, e.patch)
  /\ P \in Seq(Items) /\ Then(P)
  /\ P[1] = Emit("updated", r, u)
  /\ \/ u.status \notin Settled /\ Len(P) = 1
     \/ u.status \in Settled /\ Len(P) = 2 /\ P[2] = Emit(u.status, r, u)

LEMMA UpdateGives ==
  ASSUME Typed, Stacked, AllFit, UpdateRecord
  PROVE  \E e, r, u, P : UpdateFacts(e, r, u, P) /\ record' = [record EXCEPT ![r] = u]
  <1> DEFINE e == Head(todo)
             r == e.about
             u == Merged(record[r], e.patch)
             P == IF u.status \in Settled THEN <<Emit("updated", r, u), Emit(u.status, r, u)>>
                  ELSE <<Emit("updated", r, u)>>
  <1>1. todo # <<>> /\ e \in Items /\ e.do = "update" /\ Fits(e)
    BY OnTop DEF UpdateRecord, AtTop
  <1>2. r \in Records /\ e.patch \in Patches /\ e = Update(r, e.patch)
    BY <1>1, ItemKinds DEF Updates, Update
  <1>3. r[1] \in {"job", "task"}
    BY <1>1 DEF Fits, Tells
  <1>4. u \in States
    BY <1>2, Merging DEF Typed
  <1>5. Emit("updated", r, u) \in Items
    <2>1. <<r[1], "updated">> \in Events
      BY <1>3 DEF Events, SocketEvents
    <2> HIDE DEF u, r
    <2> QED BY <1>2, <1>4, <2>1 DEF Items, Emits, Emit, Told
  <1>6. u.status \in Settled => Emit(u.status, r, u) \in Items
    <2>1. \A e2 \in Settled : <<r[1], e2>> \in Events
      BY <1>3 DEF Events, SocketEvents, Settled
    <2> HIDE DEF u, r
    <2> QED BY <1>2, <1>4, <2>1 DEF Items, Emits, Emit, Told
  <1>7. Then(P)
    <2>1. CASE u.status \in Settled
      BY <2>1, Joined DEF UpdateRecord
    <2>2. CASE u.status \notin Settled
      BY <2>2, Joined DEF UpdateRecord
    <2> QED BY <2>1, <2>2
  <1>8. /\ P \in Seq(Items) /\ P[1] = Emit("updated", r, u)
        /\ \/ u.status \notin Settled /\ Len(P) = 1
           \/ u.status \in Settled /\ Len(P) = 2 /\ P[2] = Emit(u.status, r, u)
    <2> HIDE DEF u, r
    <2> QED BY <1>5, <1>6
  <1>9. record' = [record EXCEPT ![r] = u]
    BY DEF UpdateRecord
  <1>10. UpdateFacts(e, r, u, P)
    <2> HIDE DEF P, u
    <2> QED BY <1>1, <1>2, <1>3, <1>4, <1>7, <1>8 DEF UpdateFacts, u
  <1> QED BY <1>9, <1>10

LEMMA UpdateShape ==
  ASSUME Typed, Stacked, Bottom, Framed, AllFit, UpdateRecord
  PROVE  Stacked' /\ Bottom' /\ Framed' /\ todo' \in Seq(Items)
  <1>1. PICK e, r, u, P : UpdateFacts(e, r, u, P)
    BY UpdateGives
  <1>2. \A k \in 1..Len(P) : /\ Tells(P[k]) /\ P[k].do = "emit" /\ P[k].about = r /\ P[k].snapshot = u
                             /\ P[k].event[1] = r[1]
    BY <1>1 DEF UpdateFacts, Emit, Tells
  <1>3. ASSUME NEW i \in 1..Len(P), NEW k \in 1..(i - 1)
        PROVE  Above(P[k], P[i])
    <2>0. Len(P) = 1 \/ (Len(P) = 2 /\ u.status \in Settled)
      BY <1>1 DEF UpdateFacts
    <2>1. k = 1 /\ i = 2 /\ Len(P) = 2 /\ u.status \in Settled
      <3>1. CASE Len(P) = 1
        BY <3>1
      <3>2. CASE Len(P) = 2 /\ u.status \in Settled
        BY <3>2
      <3> QED BY <2>0, <3>1, <3>2
    <2> QED BY <1>1, <1>2, <2>1 DEF UpdateFacts, Above, Emit, Tells, TellsOf, Serves, Follows, Settled
  <1>4. ASSUME NEW y \in Items, Fits(y), Above(e, y), NEW k \in 1..Len(P)
        PROVE  Above(P[k], y)
    <2>1. e.do = "update" /\ e.about = r /\ ~Tells(e)
      BY <1>1 DEF UpdateFacts, Tells
    <2>2. Tells(y) => y.about[1] = "task" /\ y.about # r
      BY <1>4, <2>1 DEF Above, TellsOf
    <2>3. y.do \notin {"attempt", "execute", "register", "loaded"} /\ (y.do = "catch" => y.where # "loader")
      BY <1>4, <2>1 DEF Above, TellsOf
    <2>4. y.do \in {"update", "start"} => y.about = r /\ u.status = "running" /\
           (y.do = "update" => r[1] = "task")
      <3> SUFFICES ASSUME y.do \in {"update", "start"}
                   PROVE  y.about = r /\ u.status = "running" /\ (y.do = "update" => r[1] = "task")
        OBVIOUS
      <3>1. e = Update(y.about, [status |-> "running"]) /\ (y.do = "update" => y.about[1] = "task")
        BY <1>4, <2>1 DEF Above, TellsOf
      <3>2. e.patch = [status |-> "running"] /\ y.about = r
        BY <2>1, <3>1 DEF Update
      <3>3. e.patch \in [status : Statuses]
        BY <3>2 DEF Statuses
      <3> QED BY <1>1, <3>1, <3>2, <3>3, Merging DEF UpdateFacts, Typed
    <2>5. y.do = "dispatch" => y.about[2] \in Jobs /\ r = JobRec(y.about[2])
      BY <1>4, <2>1 DEF Above, TellsOf, Update
    <2>6. y.do = "await" => y.about = r
      BY <1>4, <2>1 DEF Above, Nobody, Catch
    <2>7. y.do = "look" => r = JobRec(y.job)
      BY <1>4, <2>1 DEF Above, TellsOf, Update
    <2>8. y.do = "catch" /\ y.where = "execute" =>
            r = JobRec(y.about[2]) \/ (r = y.about /\ u.status = "completed")
      <3> SUFFICES ASSUME y.do = "catch" /\ y.where = "execute", r # JobRec(y.about[2])
                   PROVE  r = y.about /\ u.status = "completed"
        OBVIOUS
      <3>1. e = Update(y.about, [status |-> "completed"])
        BY <1>4, <2>1 DEF Above, TellsOf, Update
      <3>2. e.patch = [status |-> "completed"] /\ y.about = r
        BY <2>1, <3>1 DEF Update
      <3>3. e.patch \in [status : Statuses]
        BY <3>2 DEF Statuses
      <3> QED BY <1>1, <3>1, <3>2, <3>3, Merging DEF UpdateFacts, Typed
    <2>9. P[k].do = "emit" /\ P[k].about = r /\ P[k].snapshot = u /\ Tells(P[k])
      BY <1>2
    <2> QED BY <2>2, <2>3, <2>4, <2>5, <2>6, <2>7, <2>8, <2>9 DEF Above, Serves, TellsOf, Settled, Tells
  <1>5. \A q : ~Plain(e, q)
    BY <1>1 DEF UpdateFacts, Plain, Tells
  <1>6. \A k \in 1..Len(P) : P[k].do # "catch"
    BY <1>2
  <1>7. P \in Seq(Items) /\ todo # <<>> /\ e = Head(todo) /\ e.do # "catch" /\ Then(P)
    BY <1>1 DEF UpdateFacts
  <1> HIDE DEF Then
  <1> QED BY <1>3, <1>4, <1>5, <1>6, <1>7, ShapeKept

LEMMA BeginShape ==
  ASSUME Typed, Stacked, Bottom, Framed, AllFit, Counted, BeginAttempt
  PROVE  Stacked' /\ Bottom' /\ Framed' /\ todo' \in Seq(Items)
  <1> DEFINE e == Head(todo)
             j == e.job
             n == JobOf(j).attempts + 1
             U == Update(JobRec(j), [status |-> "running", attempts |-> n])
             D == Dispatch(j, n)
             P == <<U, D, Nobody>>
  <1>1. todo # <<>> /\ e \in Items /\ e.do = "attempt" /\ Fits(e) /\ Then(P)
    BY OnTop DEF BeginAttempt, AtTop, JobOf
  <1>2. j \in Jobs
    BY <1>1, ItemKinds DEF Attempts
  <1>3. JobOf(j).attempts \in Nat /\ Budget[j] \in Nat \ {0} /\ JobOf(j).attempts < Budget[j]
    BY <1>1, <1>2, Names, EventsAssumption DEF Typed, JobOf, States, Fits, Tells
  <1>4. n \in 1..Budget[j] /\ n \in Nat /\ n > JobOf(j).attempts
    <2> HIDE DEF j
    <2> QED BY <1>3
  <1>5. U \in Items /\ D \in Items /\ Nobody \in Items
    <2>1. JobRec(j) \in Records /\ TaskRec(j, n) \in Tasks
      BY <1>2, <1>4, Names
    <2> HIDE DEF j, n
    <2> QED BY <1>4, <2>1 DEF Items, Updates, Update, Patches, Statuses, TaskItems, Dispatch, Nobody,
           Catch, Catches
  <1> HIDE DEF n
  <1>6. /\ U.do = "update" /\ U.about = JobRec(j)
        /\ D.do = "dispatch" /\ D.about = TaskRec(j, n) /\ D.about[2] = j /\ D.about[3] = n
        /\ Nobody.do = "catch" /\ Nobody.where = "nobody"
    BY DEF Update, Dispatch, Nobody, Catch, TaskRec
  <1>7. P \in Seq(Items) /\ Len(P) = 3 /\ P[1] = U /\ P[2] = D /\ P[3] = Nobody
    <2> HIDE DEF U, D
    <2> QED BY <1>5
  <1> HIDE DEF P
  <1>8. ASSUME NEW i \in 1..Len(P), NEW k \in 1..(i - 1)
        PROVE  Above(P[k], P[i])
    <2>1. (k = 1 /\ i = 2) \/ (i = 3)
      BY <1>7
    <2>2. Above(P[1], P[2])
      BY <1>2, <1>6, <1>7 DEF Above, Tells, U
    <2>3. \A a : Above(a, Nobody)
      BY <1>6 DEF Above, Tells
    <2> QED BY <1>7, <2>1, <2>2, <2>3
  <1>9. ASSUME NEW y \in Items, Fits(y), Above(e, y), NEW k \in 1..Len(P)
        PROVE  Above(P[k], y)
    <2>1. ~Tells(e)
      BY <1>1 DEF Tells
    <2>2. Tells(y) => y.about[1] = "task" /\ y.about # TaskRec(j, n) /\ y.about # JobRec(j)
      <3> SUFFICES ASSUME Tells(y)
                   PROVE  y.about[1] = "task" /\ y.about # TaskRec(j, n) /\ y.about # JobRec(j)
        OBVIOUS
      <3>1. y.about[1] = "task"
        BY <1>9, <2>1 DEF Above, TellsOf
      <3>2. y.about # JobRec(j)
        BY <3>1 DEF JobRec
      <3>3. y.about # TaskRec(j, n)
        <4> SUFFICES ASSUME y.about = TaskRec(j, n) PROVE FALSE
          OBVIOUS
        <4>1. TaskRec(j, n) \in Tasks /\ TaskRec(j, n) \in Records
          BY <1>2, <1>4, Names
        <4>2. Version(TaskRec(j, n)) > 0
          BY <1>9, <4>1, Fitting
        <4>3. TaskRec(j, n)[2] = j /\ TaskRec(j, n)[3] = n
          BY DEF TaskRec
        <4>4. n <= JobOf(j).attempts
          <5> DEFINE t == TaskRec(j, n)
          <5> HIDE DEF t, j
          <5>1. t \in Tasks /\ Version(t) > 0 /\ t[2] = j /\ t[3] = n /\ t[2] \in Jobs
            BY <1>2, <4>1, <4>2, <4>3 DEF t
          <5>2. \A x \in Tasks : Version(x) > 0 /\ x[2] \in Jobs => x[3] <= JobOf(x[2]).attempts
            BY Zenon DEF Counted
          <5> QED BY <5>1, <5>2
        <4> QED BY <1>3, <1>4, <4>4
      <3> QED BY <3>1, <3>2, <3>3
    <2>3. y.do \notin {"update", "attempt", "dispatch", "execute", "await", "start", "look", "register",
           "loaded"}
      BY <1>1, <1>9, <2>1 DEF Above, TellsOf, Update, Nobody, Catch
    <2>4. y.do = "catch" => y.where \notin {"execute", "loader"}
      BY <1>1, <1>9, <2>1 DEF Above, TellsOf, Update
    <2>5. P[k] \in {U, D, Nobody}
      BY <1>7
    <2>6. ~Tells(P[k]) /\ Serves(P[k])
      BY <1>6, <2>5 DEF Tells, Serves
    <2> QED BY <1>6, <2>2, <2>3, <2>4, <2>5, <2>6 DEF Above, TellsOf
  <1>10. \A k \in 1..Len(P) : 3 \in k..Len(P) /\ P[3] = Nobody
    BY <1>7
  <1>11. \A k \in 1..Len(P) : P[k].do = "catch" => P[k].where # "request"
    BY <1>6, <1>7
  <1> HIDE DEF Then
  <1> QED BY <1>1, <1>7, <1>8, <1>9, <1>10, <1>11, ShapeKept

LEMMA DispatchShape ==
  ASSUME Typed, Stacked, Bottom, Framed, AllFit, DispatchTask
  PROVE  Stacked' /\ Bottom' /\ Framed' /\ todo' \in Seq(Items)
  <1> DEFINE e == Head(todo)
             t == e.about
             A == Emit("created", t, New)
             B == Emit("updated", t, New)
             C == Execute(t)
             D == Await(t)
             P == <<A, B, C, D>>
  <1>1. todo # <<>> /\ e \in Items /\ e.do = "dispatch" /\ Fits(e) /\ Then(P)
    BY OnTop DEF DispatchTask, AtTop, Tasked
  <1>2. t \in Tasks /\ t \in Records /\ t[1] = "task"
    BY <1>1, ItemKinds, Names DEF TaskItems
  <1>3. New \in States /\ New.status = "queued"
    BY DEF New, States, Statuses
  <1>4. A \in Items /\ B \in Items /\ C \in Items /\ D \in Items
    <2>1. <<t[1], "created">> \in Events /\ <<t[1], "updated">> \in Events
      BY <1>2 DEF Events, SocketEvents
    <2> HIDE DEF t
    <2> QED BY <1>2, <1>3, <2>1 DEF Items, Emits, Emit, Told, TaskItems, Execute, Await
  <1>5. /\ A.do = "emit" /\ A.about = t /\ A.event = <<t[1], "created">> /\ A.snapshot = New
        /\ B.do = "emit" /\ B.about = t /\ B.event = <<t[1], "updated">> /\ B.snapshot = New
        /\ C.do = "execute" /\ C.about = t /\ D.do = "await" /\ D.about = t
    BY DEF Emit, Execute, Await
  <1>6. P \in Seq(Items) /\ Len(P) = 4 /\ P[1] = A /\ P[2] = B /\ P[3] = C /\ P[4] = D
    <2> HIDE DEF A, B, C, D
    <2> QED BY <1>4
  <1> HIDE DEF P, A, B, C, D
  <1>7. ASSUME NEW i \in 1..Len(P), NEW k \in 1..(i - 1)
        PROVE  Above(P[k], P[i])
    <2>1. <<k, i>> \in {<<1, 2>>, <<1, 3>>, <<2, 3>>, <<1, 4>>, <<2, 4>>, <<3, 4>>}
      BY <1>6
    <2>2. Above(A, B)
      BY <1>2, <1>5 DEF Above, Tells, TellsOf, Serves, Follows, Settled
    <2>3. Above(A, C) /\ Above(B, C)
      BY <1>3, <1>5 DEF Above, Tells, TellsOf
    <2>4. Above(A, D) /\ Above(B, D) /\ Above(C, D)
      BY <1>5 DEF Above, Tells
    <2> QED BY <1>6, <2>1, <2>2, <2>3, <2>4
  <1>8. ASSUME NEW y \in Items, Fits(y), Above(e, y), NEW k \in 1..Len(P)
        PROVE  Above(P[k], y)
    <2>1. ~Tells(e)
      BY <1>1 DEF Tells
    <2>2. Tells(y) => y.about[1] = "task" /\ y.about # t
      BY <1>1, <1>8, <2>1 DEF Above, TellsOf
    <2>3. y.do \notin {"update", "attempt", "dispatch", "execute", "await", "start", "look", "register",
           "loaded"}
      BY <1>1, <1>8, <2>1 DEF Above, TellsOf, Update, Nobody, Catch
    <2>4. y.do = "catch" => y.where \notin {"execute", "loader"}
      BY <1>1, <1>8, <2>1 DEF Above, TellsOf, Update
    <2>5. P[k] \in {A, B, C, D}
      BY <1>6
    <2>6. Serves(P[k]) /\ P[k].about = t
      BY <1>5, <2>5 DEF Serves
    <2> QED BY <1>5, <2>2, <2>3, <2>4, <2>5, <2>6 DEF Above, TellsOf, Tells
  <1>9. ASSUME NEW k \in 1..Len(P), NEW r, Plain(e, r)
        PROVE  Plain(P[k], r)
    <2>1. r[1] = "task"
      BY <1>1, <1>9 DEF Plain, Tells
    <2>2. P[k] \in {A, B, C, D}
      BY <1>6
    <2> QED BY <1>2, <1>3, <1>5, <2>1, <2>2 DEF Plain, Tells, Settled
  <1>10. \A k \in 1..Len(P) : P[k].do # "catch"
    BY <1>5, <1>6
  <1> HIDE DEF Then
  <1> QED BY <1>1, <1>6, <1>7, <1>8, <1>9, <1>10, ShapeKept

LEMMA ExecuteShape ==
  ASSUME Typed, Stacked, Bottom, Framed, AllFit, ExecuteTask
  PROVE  Stacked' /\ Bottom' /\ Framed' /\ todo' \in Seq(Items)
  <1> DEFINE e == Head(todo)
             t == e.about
             U == Update(t, [status |-> "running"])
             F == Update(t, [status |-> "failed"])
             S == StartHandler(t)
  <1>1. todo # <<>> /\ e \in Items /\ e.do = "execute" /\ Fits(e)
    BY OnTop DEF ExecuteTask, AtTop
  <1>2. t \in Tasks /\ t \in Records /\ t[1] = "task"
    BY <1>1, ItemKinds, Names DEF TaskItems
  <1>3. PICK M \in {F, S} : Then(<<U, M, Nobody>>)
    <2>1. CASE AgentOf[t[2]] \in DOMAIN handlers
      BY <2>1, Joined DEF ExecuteTask
    <2>2. CASE AgentOf[t[2]] \notin DOMAIN handlers
      BY <2>2, Joined DEF ExecuteTask
    <2> QED BY <2>1, <2>2
  <1>4. U \in Items /\ F \in Items /\ S \in Items /\ Nobody \in Items
    <2> HIDE DEF t
    <2> QED BY <1>2 DEF Items, Updates, Update, Patches, Statuses, TaskItems, StartHandler,
                        Nobody, Catch, Catches
  <1>5. /\ U.do = "update" /\ U.about = t /\ F.do = "update" /\ F.about = t /\ S.do = "start" /\ S.about = t
        /\ Nobody.do = "catch" /\ Nobody.where = "nobody"
    BY DEF Update, StartHandler, Nobody, Catch
  <1> DEFINE P == <<U, M, Nobody>>
  <1>6. P \in Seq(Items) /\ Len(P) = 3 /\ P[1] = U /\ P[2] = M /\ P[3] = Nobody
    <2> HIDE DEF U, F, S
    <2> QED BY <1>4
  <1> HIDE DEF P
  <1>7. ASSUME NEW i \in 1..Len(P), NEW k \in 1..(i - 1)
        PROVE  Above(P[k], P[i])
    <2>1. (k = 1 /\ i = 2) \/ (i = 3)
      BY <1>6
    <2>2. Above(P[1], P[2])
      BY <1>2, <1>5, <1>6 DEF Above, Tells, U
    <2>3. \A a : Above(a, Nobody)
      BY <1>5 DEF Above, Tells
    <2> QED BY <1>6, <2>1, <2>2, <2>3
  <1>8. ASSUME NEW y \in Items, Fits(y), Above(e, y), NEW k \in 1..Len(P)
        PROVE  Above(P[k], y)
    <2>1. ~Tells(e)
      BY <1>1 DEF Tells
    <2>2. Tells(y) => y.about[1] = "task" /\ y.about # t
      BY <1>1, <1>8, <2>1 DEF Above, TellsOf
    <2>3. y.do \notin {"update", "attempt", "dispatch", "execute", "start", "look", "register", "loaded"}
      BY <1>1, <1>8, <2>1 DEF Above, TellsOf, Update, Nobody, Catch
    <2>4. y.do = "catch" => y.where \notin {"execute", "loader"}
      BY <1>1, <1>8, <2>1 DEF Above, TellsOf, Update
    <2>5. y.do = "await" => y.about = t
      BY <1>1, <1>8, <2>1 DEF Above, Nobody, Catch
    <2>6. P[k] \in {U, F, S, Nobody}
      BY <1>6
    <2>7. /\ Serves(P[k]) /\ ~Tells(P[k])
          /\ P[k] = Nobody \/ (P[k].do \in {"update", "start"} /\ P[k].about = t)
      BY <1>5, <2>6 DEF Serves, Tells
    <2> QED BY <1>5, <2>2, <2>3, <2>4, <2>5, <2>7 DEF Above, TellsOf, Tells
  <1>9. \A k \in 1..Len(P) : 3 \in k..Len(P) /\ P[3] = Nobody
    BY <1>6
  <1>10. \A k \in 1..Len(P) : P[k].do = "catch" => P[k].where # "request"
    BY <1>5, <1>6
  <1>11. Then(P) /\ e.do # "catch"
    BY <1>1, <1>3 DEF P
  <1> HIDE DEF Then
  <1> QED BY <1>1, <1>6, <1>7, <1>8, <1>9, <1>10, <1>11, ShapeKept

LEMMA LookShape ==
  ASSUME Typed, Stacked, Bottom, Framed, AllFit, LookAtTask
  PROVE  Stacked' /\ Bottom' /\ Framed' /\ todo' \in Seq(Items)
  <1> DEFINE e == Head(todo)
             j == e.job
  <1>1. todo # <<>> /\ e \in Items /\ e.do = "look" /\ Fits(e)
    BY OnTop DEF LookAtTask, AtTop
  <1>2. j \in Jobs
    BY <1>1, ItemKinds DEF Looks
  <1>3. CASE Then(<<>>)
    BY <1>1, <1>3, PopShape
  <1>4. CASE \E task : Then(HandleTerminal(j, task))
    <2>1. PICK task : Then(HandleTerminal(j, task))
      BY <1>4
    <2>2. PICK x \in {Update(JobRec(j), [status |-> "completed"]), RunAttempt(j),
                       Update(JobRec(j), [status |-> "failed"])} :
            HandleTerminal(j, task) = <<x>>
      BY DEF HandleTerminal
    <2> DEFINE P == <<x>>
    <2>3. P \in Seq(Items) /\ Len(P) = 1 /\ P[1] = x
      <3>1. x \in Items
        BY <1>2, <2>2, Names DEF Items, Updates, Attempts, Update, RunAttempt, Patches, Statuses
      <3> QED BY <3>1
    <2>4. Then(P)
      BY <2>1, <2>2
    <2> HIDE DEF P
    <2>5. ASSUME NEW y \in Items, Fits(y), Above(e, y), NEW k \in 1..Len(P)
          PROVE  Above(P[k], y)
      <3>1. ~Tells(e) /\ ~Serves(e)
        BY <1>1 DEF Tells, Serves
      <3>2. ~Tells(y) /\ y.do # "off" /\ (y.do = "catch" => y.where \notin {"execute", "loader", "request"})
        BY <1>1, <2>5, <3>1 DEF Above, TellsOf, Update
      <3>3. y.do \notin {"update", "attempt", "dispatch", "execute", "await", "start", "look", "register",
             "loaded"}
        BY <1>1, <2>5, <3>1 DEF Above, TellsOf, Update, Nobody, Catch
      <3> QED BY <3>2, <3>3 DEF Above
    <2>6. \A i \in 1..Len(P) : \A k \in 1..(i - 1) : Above(P[k], P[i])
      BY <2>3
    <2>7. P[1].do # "catch"
      BY <2>2, <2>3 DEF Update, RunAttempt
    <2>8. \A r : ~Plain(e, r)
      BY <1>1 DEF Plain, Tells
    <2> HIDE DEF Then
    <2> QED BY <1>1, <2>3, <2>4, <2>5, <2>6, <2>7, <2>8, ShapeKept
  <1> QED BY <1>3, <1>4 DEF LookAtTask

LEMMA LoadedShape ==
  ASSUME Typed, Stacked, Bottom, Framed, AllFit, NoteLoaded
  PROVE  Stacked' /\ Bottom' /\ Framed' /\ todo' \in Seq(Items)
  <1> DEFINE e == Head(todo)
             x == Emit("loaded", PluginRec(e.plugin), Absent)
             P == <<x>>
  <1>1. todo # <<>> /\ e \in Items /\ e.do = "loaded" /\ Fits(e) /\ Then(P)
    BY OnTop DEF NoteLoaded, AtTop
  <1>2. e.plugin \in ToSet(Installed)
    BY <1>1, ItemKinds DEF Loadeds
  <1>3. PluginRec(e.plugin) \in Told /\ PluginRec(e.plugin)[1] = "plugin"
    BY <1>2 DEF Told, Plugs, PluginRec
  <1>4. x \in Items
    <2>1. <<"plugin", "loaded">> \in Events
      BY DEF Events
    <2>2. Absent \in States
      BY DEF Absent, States, Statuses
    <2> DEFINE q == PluginRec(e.plugin)
    <2> HIDE DEF q
    <2>3. q \in Told /\ q[1] = "plugin"
      BY <1>3 DEF q
    <2>4. Emit("loaded", q, Absent) \in Items
      BY <2>1, <2>2, <2>3 DEF Items, Emits, Emit
    <2> QED BY <2>4 DEF q
  <1>5. x.do = "emit" /\ x.about = PluginRec(e.plugin)
    BY DEF Emit
  <1>6. P \in Seq(Items) /\ Len(P) = 1 /\ P[1] = x
    <2> HIDE DEF x
    <2> QED BY <1>4
  <1> HIDE DEF P, x
  <1>7. ASSUME NEW y \in Items, Fits(y), Above(e, y), NEW k \in 1..Len(P)
        PROVE  Above(P[k], y)
    <2>1. ~Tells(e) /\ ~Serves(e)
      BY <1>1 DEF Tells, Serves
    <2>2. ~Tells(y) /\ y.do # "off" /\ (y.do = "catch" => y.where \notin {"execute", "request"})
      BY <1>1, <1>7, <2>1 DEF Above, TellsOf, Update
    <2>3. y.do \notin {"update", "attempt", "dispatch", "execute", "await", "start", "look", "register",
           "loaded"}
      BY <1>1, <1>7, <2>1 DEF Above, TellsOf, Update, Nobody, Catch
    <2>4. y.do = "catch" /\ y.where = "loader" => y.about = PluginRec(e.plugin)
      BY <1>1, <1>7, <2>1 DEF Above, TellsOf
    <2>5. P[k] = x
      BY <1>6
    <2> QED BY <1>5, <2>2, <2>3, <2>4, <2>5 DEF Above, TellsOf, Tells
  <1>8. \A i \in 1..Len(P) : \A k \in 1..(i - 1) : Above(P[k], P[i])
    BY <1>6
  <1>9. \A k \in 1..Len(P) : P[k].do # "catch"
    BY <1>5, <1>6
  <1>10. \A r : ~Plain(e, r)
    BY <1>1 DEF Plain, Tells
  <1> HIDE DEF Then
  <1> QED BY <1>1, <1>6, <1>7, <1>8, <1>9, <1>10, ShapeKept

-----------------------------------------------------------------------------
(* A throw.                                                                *)

\* The calls down to d, the nearest catch, give way to P.
Unwound(d, P) ==
  /\ d \in DOMAIN todo /\ todo[d] \in Items /\ todo[d].do = "catch" /\ Fits(todo[d])
  /\ \A j \in 1..(d - 1) : todo[j].do # "catch"
  /\ P \in Seq(Items) /\ Gives(d, P) /\ phase' = phase
  /\ \/ todo[d].where = "request" /\ P = <<>>
     \/ /\ todo[d].where = "execute" /\ todo[d].about \in Tasks
        /\ P = <<Update(todo[d].about, [status |-> "failed"])>>
     \/ /\ todo[d].where = "loader" /\ todo[d].about \in Plugs
        /\ P = <<Emit("failed", todo[d].about, Absent)>>

LEMMA UnwindGives ==
  ASSUME Typed, Stacked, Bottom, AllFit, todo # <<>>, Unwind
  PROVE  (todo' = <<>> /\ phase' = "down") \/ \E d, P : Unwound(d, P)
  <1> DEFINE Catching(i) == todo[i].do = "catch" /\ \A j \in 1..(i - 1) : todo[j].do # "catch"
             d == CHOOSE i \in DOMAIN todo : Catching(i)
             below == SubSeq(todo, d + 1, Len(todo))
  <1>1. todo \in Seq(Items) /\ Len(todo) \in Nat /\ Len(todo) > 0 /\ DOMAIN todo = 1..Len(todo)
    BY OnTop DEF Typed
  <1>2. \E i \in DOMAIN todo : Catching(i)
    <2> DEFINE C == {i \in DOMAIN todo : todo[i].do = "catch"}
    <2>1. C \subseteq Nat /\ Len(todo) \in C
      BY <1>1 DEF Bottom
    <2>2. PICK i \in C : \A k \in C : ~(<<k, i>> \in OpToRel(<, Nat))
      BY <2>1, WFMin, NatLessThanWellFounded
    <2>3. ASSUME NEW j \in 1..(i - 1) PROVE todo[j].do # "catch"
      <3> SUFFICES ASSUME todo[j].do = "catch" PROVE FALSE
        OBVIOUS
      <3>1. j \in C /\ j \in Nat /\ i \in Nat /\ j < i
        BY <1>1, <2>1
      <3>2. <<j, i>> \in OpToRel(<, Nat)
        BY <3>1 DEF OpToRel
      <3> QED BY <2>2, <3>1, <3>2
    <2> QED BY <2>2, <2>3
  <1>3. d \in DOMAIN todo /\ Catching(d)
    <2> HIDE DEF Catching
    <2> QED BY <1>2
  <1>4. todo[d] \in Items /\ Fits(todo[d])
    <2> HIDE DEF d
    <2> QED BY <1>1, <1>3, ElementOfSeq DEF AllFit
  <1>5. todo[d].where \in {"request", "execute", "loader", "nobody"}
    <2> HIDE DEF d
    <2> QED BY <1>3, <1>4, ItemKinds DEF Catches
  <1>6. below \in Seq(Items)
    <2> HIDE DEF d
    <2>1. d + 1 \in Int /\ Len(todo) \in Int /\ \A i \in (d + 1)..Len(todo) : todo[i] \in Items
      BY <1>1, <1>3, ElementOfSeq
    <2> QED BY <2>1, SubSeqProperties
  <1>7. /\ todo[d].where = "request" => todo' = below /\ phase' = phase
        /\ todo[d].where = "execute" =>
             todo' = <<Update(todo[d].about, [status |-> "failed"])>> \o below /\ phase' = phase
        /\ todo[d].where = "loader" =>
             todo' = <<Emit("failed", todo[d].about, Absent)>> \o below /\ phase' = phase
        /\ todo[d].where = "nobody" => todo' = <<>> /\ phase' = "down"
    BY DEF Unwind
  <1> DEFINE c == todo[d]
  <1> HIDE DEF d
  <1>8. CASE c.where = "request"
    <2>1. below = <<>> \o below
      BY <1>6, ConcatEmptySeq
    <2>2. <<>> \in Seq(Items)
      BY EmptySeq
    <2>3. Unwound(d, <<>>)
      BY <1>3, <1>4, <1>7, <1>8, <2>1, <2>2 DEF Unwound, Gives
    <2> QED BY <2>3
  <1>9. CASE c.where = "execute"
    <2>1. c.about \in Tasks /\ c.about \in Records
      BY <1>3, <1>4, <1>9, Fitting, Names
    <2>2. Update(c.about, [status |-> "failed"]) \in Items
      <3> HIDE DEF c
      <3> QED BY <2>1 DEF Items, Updates, Update, Patches, Statuses
    <2>3. Unwound(d, <<Update(c.about, [status |-> "failed"])>>)
      <3>1. <<Update(c.about, [status |-> "failed"])>> \in Seq(Items)
        BY <2>2
      <3> QED BY <1>3, <1>4, <1>7, <1>9, <2>1, <3>1 DEF Unwound, Gives
    <2> QED BY <2>3
  <1>10. CASE c.where = "loader"
    <2>1. c.about \in Plugs /\ c.about[1] = "plugin"
      BY <1>3, <1>4, <1>10, Fitting, Names
    <2>2. Emit("failed", c.about, Absent) \in Items
      <3>1. <<"plugin", "failed">> \in Events /\ Absent \in States
        BY DEF Events, Absent, States, Statuses
      <3> HIDE DEF c
      <3> QED BY <2>1, <3>1 DEF Items, Emits, Emit, Told
    <2>3. Unwound(d, <<Emit("failed", c.about, Absent)>>)
      <3>1. <<Emit("failed", c.about, Absent)>> \in Seq(Items)
        BY <2>2
      <3> QED BY <1>3, <1>4, <1>7, <1>10, <2>1, <3>1 DEF Unwound, Gives
    <2> QED BY <2>3
  <1>11. CASE c.where = "nobody"
    BY <1>7, <1>11
  <1> QED BY <1>5, <1>8, <1>9, <1>10, <1>11

LEMMA UnwindShape ==
  ASSUME Typed, Stacked, Bottom, Framed, AllFit, todo # <<>>, Unwind
  PROVE  Stacked' /\ Bottom' /\ Framed' /\ todo' \in Seq(Items)
  <1>1. CASE todo' = <<>>
    <2>1. todo' \in Seq(Items) /\ \A i \in DOMAIN todo' : FALSE
      BY <1>1, EmptySeq
    <2> QED BY <1>1, <2>1 DEF Stacked, Bottom, Framed
  <1>2. CASE \E d, P : Unwound(d, P)
    <2>1. PICK d, P : Unwound(d, P)
      BY <1>2
    <2> DEFINE c == todo[d]
    <2>2. /\ d \in DOMAIN todo /\ c \in Items /\ c.do = "catch" /\ P \in Seq(Items) /\ Gives(d, P)
          /\ c # Nobody
      BY <2>1 DEF Unwound, Nobody, Catch
    <2>3. Len(P) = 0 \/ Len(P) = 1
      BY <2>1 DEF Unwound
    <2>4. \A k \in 1..Len(P) : P[k].do # "catch"
      <3>1. CASE P = <<>>
        BY <3>1
      <3>2. CASE P = <<Update(c.about, [status |-> "failed"])>>
        BY <3>2 DEF Update
      <3>3. CASE P = <<Emit("failed", c.about, Absent)>>
        BY <3>3 DEF Emit
      <3> HIDE DEF c
      <3> QED BY <2>1, <3>1, <3>2, <3>3 DEF Unwound, c
    <2>5. \A i \in 1..Len(P) : \A k \in 1..(i - 1) : Above(P[k], P[i])
      BY <2>3
    <2>6. ASSUME NEW i \in (d + 1)..Len(todo), Above(c, todo[i]), NEW k \in 1..Len(P)
          PROVE  Above(P[k], todo[i])
      <3> DEFINE y == todo[i]
      <3> HIDE DEF y, c
      <3>0. Above(c, y)
        BY <2>6 DEF y, c
      <3>1. ~Serves(c) /\ ~Tells(c)
        BY <2>2 DEF Serves, Tells
      <3>2. ~Tells(y) /\ y.do # "off" /\ (y.do = "catch" => y.where \notin {"execute", "loader", "request"})
        BY <2>2, <3>0, <3>1 DEF Above, TellsOf, Update
      <3>3. y.do \notin {"update", "attempt", "dispatch", "execute", "await", "start", "look", "register",
             "loaded"}
        BY <2>2, <3>0, <3>1 DEF Above, TellsOf, Update
      <3>4. \A a : Above(a, y)
        BY <3>2, <3>3 DEF Above
      <3> QED BY <3>4 DEF y
    <2>7. \A k \in 1..Len(P) : k = 1 /\ Len(P) = 1
      BY <2>3
    <2>8. \A r : ~Plain(c, r)
      BY <2>2 DEF Plain, Tells
    <2>9. P = <<>> \/ ~(c.do = "catch" /\ c.where \in {"request", "nobody"})
      BY <2>1 DEF Unwound
    <2>10. Stands(d, P)
      BY <2>4, <2>5, <2>6, <2>7, <2>8, <2>9 DEF Stands
    <2> QED BY <2>2, <2>10, ShapeAfter
  <1> QED BY <1>1, <1>2, UnwindGives

-----------------------------------------------------------------------------
(* New turns.                                                              *)

FreshlySet(P) ==
  /\ P # <<>> => P[Len(P)].do = "catch" /\ P[Len(P)].where \in {"request", "nobody"}
  /\ \A i \in 1..Len(P) : \A k \in 1..(i - 1) : Above(P[k], P[i])
  /\ \A i \in 1..Len(P) : P[i].do = "catch" /\ P[i].where = "request" =>
       \A k \in 1..(i - 1) : Plain(P[k], P[i].about)

LEMMA FreshShape ==
  ASSUME NEW P \in Seq(Items), todo' = P, FreshlySet(P)
  PROVE  Stacked' /\ Bottom' /\ Framed' /\ todo' \in Seq(Items)
  <1>1. DOMAIN todo' = 1..Len(P)
    BY LenProperties
  <1>2. Stacked'
    BY <1>1 DEF FreshlySet, Stacked
  <1>3. Bottom'
    BY DEF FreshlySet, Bottom
  <1>4. Framed'
    BY <1>1 DEF FreshlySet, Framed
  <1> QED BY <1>2, <1>3, <1>4

LEMMA SubmitShape ==
  ASSUME NEW j \in Jobs, Submit(j)
  PROVE  Stacked' /\ Bottom' /\ Framed' /\ todo' \in Seq(Items)
  <1> DEFINE r == JobRec(j)
             A == Emit("created", r, New)
             B == Emit("updated", r, New)
             C == RunAttempt(j)
             D == Catch("request", r)
             P == <<A, B, C, D>>
  <1>1. r \in Records /\ r[1] = "job" /\ New \in States /\ New.status = "queued"
    BY Names DEF New, States, Statuses
  <1>2. A \in Items /\ B \in Items /\ C \in Items /\ D \in Items
    <2>1. <<r[1], "created">> \in Events /\ <<r[1], "updated">> \in Events
      BY <1>1 DEF Events, SocketEvents
    <2> HIDE DEF r
    <2> QED BY <1>1, <2>1 DEF Items, Emits, Emit, Told, Attempts, RunAttempt, Catches, Catch
  <1>3. /\ A.do = "emit" /\ A.about = r /\ A.event = <<r[1], "created">> /\ A.snapshot = New
        /\ B.do = "emit" /\ B.about = r /\ B.event = <<r[1], "updated">> /\ B.snapshot = New
        /\ C.do = "attempt" /\ C.job = j /\ D.do = "catch" /\ D.where = "request" /\ D.about = r
    BY DEF Emit, RunAttempt, Catch
  <1>4. P \in Seq(Items) /\ Len(P) = 4 /\ P[1] = A /\ P[2] = B /\ P[3] = C /\ P[4] = D /\ todo' = P
    <2>1. todo' = P
      BY DEF Submit
    <2> HIDE DEF A, B, C, D
    <2> QED BY <1>2, <2>1
  <1> HIDE DEF P, A, B, C, D
  <1>5. Above(A, B)
    BY <1>1, <1>3 DEF Above, Tells, TellsOf, Follows, Settled
  <1>6. Above(A, C) /\ Above(B, C)
    BY <1>3 DEF Above, Tells, TellsOf
  <1>7. Above(A, D) /\ Above(B, D) /\ Above(C, D)
    BY <1>3 DEF Above, Tells, Serves
  <1>8. Plain(A, r) /\ Plain(B, r) /\ Plain(C, r)
    BY <1>1, <1>3 DEF Plain, Tells, Settled
  <1>9. ASSUME NEW i \in 1..Len(P), NEW k \in 1..(i - 1)
        PROVE  Above(P[k], P[i]) /\ (i = 4 => Plain(P[k], r))
    <2>1. <<k, i>> \in {<<1, 2>>, <<1, 3>>, <<2, 3>>, <<1, 4>>, <<2, 4>>, <<3, 4>>}
      BY <1>4
    <2> QED BY <1>4, <1>5, <1>6, <1>7, <1>8, <2>1
  <1>10. \A i \in 1..Len(P) : P[i].do = "catch" => i = 4
    BY <1>3, <1>4
  <1>11. FreshlySet(P)
    BY <1>3, <1>4, <1>9, <1>10 DEF FreshlySet
  <1> QED BY <1>4, <1>11, FreshShape

LEMMA PostShape ==
  ASSUME NEW c \in Requests, PostTask(c)
  PROVE  Stacked' /\ Bottom' /\ Framed' /\ todo' \in Seq(Items)
  <1> DEFINE t == TaskRec(c, 1)
             A == Dispatch(c, 1)
             B == Catch("request", t)
             P == <<A, B>>
  <1>1. t \in Tasks /\ t \in Records /\ t[1] = "task"
    BY Names
  <1>2. A \in Items /\ B \in Items /\ A.do = "dispatch" /\ B.do = "catch" /\ B.where = "request" /\ B.about = t
    <2>1. A.about = t
      BY DEF Dispatch
    <2> HIDE DEF t
    <2> QED BY <1>1, <2>1 DEF Items, Told, TaskItems, Dispatch, Catches, Catch
  <1>3. P \in Seq(Items) /\ Len(P) = 2 /\ P[1] = A /\ P[2] = B /\ todo' = P
    <2>1. todo' = P
      BY DEF PostTask
    <2> HIDE DEF A, B
    <2> QED BY <1>2, <2>1
  <1> HIDE DEF P, A, B
  <1>4. Above(A, B) /\ Plain(A, t)
    BY <1>1, <1>2 DEF Above, Tells, Serves, Plain
  <1>5. ASSUME NEW i \in 1..Len(P), NEW k \in 1..(i - 1)
        PROVE  i = 2 /\ k = 1
    BY <1>3
  <1>6. \A i \in 1..Len(P) : P[i].do = "catch" => i = 2
    BY <1>2, <1>3
  <1>7. FreshlySet(P)
    BY <1>2, <1>3, <1>4, <1>5, <1>6 DEF FreshlySet
  <1> QED BY <1>3, <1>7, FreshShape

LEMMA StatusShape ==
  ASSUME Typed, NEW c \in Requests, WriteStatus(c), EventsAssumption
  PROVE  Stacked' /\ Bottom' /\ Framed' /\ todo' \in Seq(Items)
  <1> DEFINE r == WorkspaceRec(Home[c])
  <1>1. r \in Records /\ r[1] = "workspace"
    BY RecordsAre DEF EventsAssumption, WorkspaceRec
  <1>2. CASE todo' = <<>>
    <2>1. todo' \in Seq(Items) /\ \A i \in DOMAIN todo' : FALSE
      BY <1>2, EmptySeq
    <2> QED BY <1>2, <2>1 DEF Stacked, Bottom, Framed
  <1>3. ASSUME todo' # <<>>
        PROVE  \E u \in States : u.status = "analyzing" /\
                 todo' = <<Emit("status_changed", r, u), Catch("request", r)>>
    <2> DEFINE changed == IF record[r].status = "analyzing" THEN 0 ELSE 1
               u == [status |-> "analyzing", attempts |-> 0, version |-> record[r].version + changed]
    <2>1. todo' = <<Emit("status_changed", r, u), Catch("request", r)>>
      BY <1>3 DEF WriteStatus, Ready
    <2>2. u \in States /\ u.status = "analyzing"
      BY <1>1 DEF Typed, States, Statuses
    <2> QED BY <2>1, <2>2
  <1>4. ASSUME NEW u \in States, u.status = "analyzing",
               todo' = <<Emit("status_changed", r, u), Catch("request", r)>>
        PROVE  Stacked' /\ Bottom' /\ Framed' /\ todo' \in Seq(Items)
    <2> DEFINE A == Emit("status_changed", r, u)
               B == Catch("request", r)
               P == <<A, B>>
    <2>1. /\ A \in Items /\ B \in Items
          /\ A.do = "emit" /\ A.about = r /\ A.event = <<r[1], "status_changed">> /\ A.snapshot = u
          /\ B.do = "catch" /\ B.where = "request" /\ B.about = r
      <3>1. <<r[1], "status_changed">> \in Events
        BY <1>1 DEF Events, SocketEvents
      <3> HIDE DEF r
      <3> QED BY <1>1, <1>4, <3>1 DEF Items, Emits, Emit, Told, Catches, Catch
    <2>2. P \in Seq(Items) /\ Len(P) = 2 /\ P[1] = A /\ P[2] = B /\ todo' = P
      <3>1. todo' = P
        BY <1>4
      <3> HIDE DEF A, B
      <3> QED BY <2>1, <3>1
    <2> HIDE DEF P, A, B
    <2>3. Above(A, B) /\ Plain(A, r)
      BY <1>1, <1>4, <2>1 DEF Above, Tells, Serves, Plain, Settled
    <2>4. ASSUME NEW i \in 1..Len(P), NEW k \in 1..(i - 1)
          PROVE  i = 2 /\ k = 1
      BY <2>2
    <2>5. \A i \in 1..Len(P) : P[i].do = "catch" => i = 2
      BY <2>1, <2>2
    <2>6. FreshlySet(P)
      BY <2>1, <2>2, <2>3, <2>4, <2>5 DEF FreshlySet
    <2> QED BY <2>2, <2>6, FreshShape
  <1> QED BY <1>2, <1>3, <1>4

LEMMA GoesOnShape ==
  ASSUME NEW j \in Jobs, NEW n \in 1..Budget[j], JobGoesOn(j, n)
  PROVE  Stacked' /\ Bottom' /\ Framed' /\ todo' \in Seq(Items)
  <1> DEFINE A == Update(JobRec(j), <<>>)
             B == LookAt(j, n)
             P == <<A, B, Nobody>>
  <1>1. A \in Items /\ B \in Items /\ Nobody \in Items
    <2>1. n \in Nat \ {0} /\ JobRec(j) \in Records
      BY Names
    <2> QED BY <2>1 DEF Items, Updates, Update, Patches, Looks, LookAt, Catches, Catch, Nobody
  <1>2. /\ A.do = "update" /\ A.about = JobRec(j) /\ B.do = "look" /\ B.job = j
        /\ Nobody.do = "catch" /\ Nobody.where = "nobody"
    BY DEF Update, LookAt, Nobody, Catch
  <1>3. P \in Seq(Items) /\ Len(P) = 3 /\ P[1] = A /\ P[2] = B /\ P[3] = Nobody /\ todo' = P
    <2>1. todo' = P
      BY DEF JobGoesOn
    <2> HIDE DEF A, B
    <2> QED BY <1>1, <2>1
  <1>4. Above(A, B)
    <2>1. A = Update(JobRec(B.job), <<>>)
      BY <1>2
    <2> HIDE DEF A, B
    <2> QED BY <1>2, <2>1 DEF Above, Tells
  <1> HIDE DEF P, A, B
  <1>5. Above(A, Nobody) /\ Above(B, Nobody)
    BY <1>2 DEF Above, Tells
  <1>6. ASSUME NEW i \in 1..Len(P), NEW k \in 1..(i - 1)
        PROVE  Above(P[k], P[i])
    <2>1. <<k, i>> \in {<<1, 2>>, <<1, 3>>, <<2, 3>>}
      BY <1>3
    <2> QED BY <1>3, <1>4, <1>5, <2>1
  <1>7. \A i \in 1..Len(P) : P[i].do = "catch" => P[i].where # "request"
    BY <1>2, <1>3
  <1>8. FreshlySet(P)
    BY <1>2, <1>3, <1>6, <1>7 DEF FreshlySet
  <1> QED BY <1>3, <1>8, FreshShape

LEMMA ReturnsShape ==
  ASSUME Typed, NEW t \in Records, HandlerReturns(t)
  PROVE  Stacked' /\ Bottom' /\ Framed' /\ todo' \in Seq(Items)
  <1> DEFINE A == Update(t, [status |-> "completed"])
             B == Catch("execute", t)
             F == Update(t, [status |-> "failed"])
  <1>1. A \in Items /\ B \in Items /\ F \in Items /\ Nobody \in Items
    <2>1. t \in Records /\ t \in Told
      BY DEF Told
    <2> QED BY <2>1 DEF Items, Updates, Update, Patches, Statuses, Catches, Catch, Nobody
  <1>2. /\ A.do = "update" /\ A.about = t /\ F.do = "update"
        /\ B.do = "catch" /\ B.where = "execute" /\ B.about = t
        /\ Nobody.do = "catch" /\ Nobody.where = "nobody"
    BY DEF Update, Nobody, Catch
  <1>3. Above(A, B)
    <2>1. A = Update(B.about, [status |-> "completed"])
      BY <1>2
    <2> HIDE DEF A, B
    <2> QED BY <1>2, <2>1 DEF Above, Tells
  <1>4. CASE todo' = <<A, B, Nobody>>
    <2> DEFINE P == <<A, B, Nobody>>
    <2>1. P \in Seq(Items) /\ Len(P) = 3 /\ P[1] = A /\ P[2] = B /\ P[3] = Nobody /\ todo' = P
      <3> HIDE DEF A, B
      <3> QED BY <1>1, <1>4
    <2> HIDE DEF P, A, B
    <2>2. Above(A, Nobody) /\ Above(B, Nobody)
      BY <1>2 DEF Above, Tells
    <2>3. ASSUME NEW i \in 1..Len(P), NEW k \in 1..(i - 1)
          PROVE  Above(P[k], P[i])
      <3>1. <<k, i>> \in {<<1, 2>>, <<1, 3>>, <<2, 3>>}
        BY <2>1
      <3> QED BY <1>3, <2>1, <2>2, <3>1
    <2>4. \A i \in 1..Len(P) : P[i].do = "catch" => P[i].where # "request"
      BY <1>2, <2>1
    <2>5. FreshlySet(P)
      BY <1>2, <2>1, <2>3, <2>4 DEF FreshlySet
    <2> QED BY <2>1, <2>5, FreshShape
  <1>5. CASE todo' = <<F, Nobody>>
    <2> DEFINE P == <<F, Nobody>>
    <2>1. P \in Seq(Items) /\ Len(P) = 2 /\ P[1] = F /\ P[2] = Nobody /\ todo' = P
      <3> HIDE DEF F
      <3> QED BY <1>1, <1>5
    <2> HIDE DEF P, F, A, B
    <2>2. Above(F, Nobody)
      BY <1>2 DEF Above, Tells
    <2>3. ASSUME NEW i \in 1..Len(P), NEW k \in 1..(i - 1)
          PROVE  k = 1 /\ i = 2
      BY <2>1
    <2>4. \A i \in 1..Len(P) : P[i].do = "catch" => P[i].where # "request"
      BY <1>2, <2>1
    <2>5. FreshlySet(P)
      BY <1>2, <2>1, <2>2, <2>3, <2>4 DEF FreshlySet
    <2> QED BY <2>1, <2>5, FreshShape
  <1> QED BY <1>4, <1>5 DEF HandlerReturns, Returned

\* What is to be done to load p, in its order.
LEMMA LoadGives ==
  ASSUME Typed, LoadNext, EventsAssumption, todo' # <<>>
  PROVE  \E p \in ToSet(Installed), P \in Seq(Items) :
           /\ todo' = P /\ Len(P) > 2 /\ PluginRec(p) \in Plugs
           /\ P[Len(P)] = Nobody /\ P[Len(P) - 1] = Catch("loader", PluginRec(p))
           /\ P[Len(P) - 2] = PushLoaded(p)
           /\ \A i \in 1..(Len(P) - 3) : \E x \in ToSet(Script[p]) : P[i] = Register(p, x)
  <1> DEFINE p == Head(toLoad)
             steps == Script[p]
             R == [k \in DOMAIN steps |-> Register(p, steps[k])]
             Q == R \o <<PushLoaded(p)>>
             P == Q \o <<Catch("loader", PluginRec(p)), Nobody>>
  <1>1. p \in ToSet(Installed) /\ p \in Enabled /\ todo' = P
    <2>1. toLoad # <<>> /\ (p \in Enabled => todo' = P) /\ (p \notin Enabled => todo' = <<>>)
      BY DEF LoadNext, Tried
    <2>2. p \in ToSet(Installed)
      BY <2>1, HeadTailProperties DEF Typed
    <2> QED BY <2>1, <2>2
  <1>2. steps \in Seq(ToSet(steps))
    BY <1>1 DEF EventsAssumption
  <1> DEFINE n == Len(steps)
  <1>3. n \in Nat /\ DOMAIN steps = 1..n /\ \A k \in 1..n : steps[k] \in ToSet(steps)
    BY <1>2, LenProperties, ElementOfSeq
  <1>4. ToSet(steps) \subseteq ScriptSteps
    <2> HIDE DEF p
    <2> QED BY <1>1 DEF ScriptSteps
  <1> HIDE DEF steps, p
  <1>5. R \in Seq(Items) /\ Len(R) = n /\ \A k \in 1..n : R[k] = Register(p, steps[k])
    <2>1. \A k \in 1..n : Register(p, steps[k]) \in Items
      <3> TAKE k \in 1..n
      <3>1. steps[k] \in ScriptSteps
        BY <1>3, <1>4
      <3> QED BY <1>1, <3>1 DEF Items, Registers, Register
    <2> HIDE DEF n
    <2>2. R \in [1..n -> Items]
      BY <1>3, <2>1
    <2> QED BY <1>3, <2>2, SeqDef, LenProperties
  <1>6. PluginRec(p) \in Plugs /\ PluginRec(p) \in Told
    BY <1>1 DEF Plugs, Told
  <1>7. PushLoaded(p) \in Items /\ Catch("loader", PluginRec(p)) \in Items /\ Nobody \in Items
    BY <1>1, <1>6 DEF Items, Loadeds, PushLoaded, Catches, Catch, Nobody
  <1>8. Q \in Seq(Items) /\ Len(Q) = n + 1 /\ Q[n + 1] = PushLoaded(p) /\ \A k \in 1..n : Q[k] = R[k]
    <2> HIDE DEF R, n
    <2>1. <<PushLoaded(p)>> \in Seq(Items) /\ Len(<<PushLoaded(p)>>) = 1
      BY <1>7
    <2>2. /\ Q \in Seq(Items) /\ Len(Q) = Len(R) + 1
          /\ \A k \in 1..(Len(R) + 1) : Q[k] = IF k <= Len(R) THEN R[k] ELSE <<PushLoaded(p)>>[k - Len(R)]
      BY <1>5, <2>1, ConcatProperties
    <2> QED BY <1>3, <1>5, <2>2
  <1>9. /\ P \in Seq(Items) /\ Len(P) = n + 3 /\ P[n + 3] = Nobody
        /\ P[n + 2] = Catch("loader", PluginRec(p)) /\ \A k \in 1..(n + 1) : P[k] = Q[k]
    <2> HIDE DEF Q, n
    <2> DEFINE E == <<Catch("loader", PluginRec(p)), Nobody>>
    <2>1. E \in Seq(Items) /\ Len(E) = 2 /\ E[1] = Catch("loader", PluginRec(p)) /\ E[2] = Nobody
      BY <1>7
    <2> HIDE DEF E
    <2>2. /\ Q \o E \in Seq(Items) /\ Len(Q \o E) = Len(Q) + 2
          /\ \A k \in 1..(Len(Q) + 2) : (Q \o E)[k] = IF k <= Len(Q) THEN Q[k] ELSE E[k - Len(Q)]
      <3>1. Q \in Seq(Items) /\ E \in Seq(Items) /\ Len(E) = 2
        BY <1>8, <2>1
      <3>2. /\ Q \o E \in Seq(Items) /\ Len(Q \o E) = Len(Q) + Len(E)
            /\ \A k \in 1..(Len(Q) + Len(E)) : (Q \o E)[k] = IF k <= Len(Q) THEN Q[k] ELSE E[k - Len(Q)]
        BY ONLY <3>1, ConcatProperties
      <3> QED BY <3>1, <3>2
    <2>3. P = Q \o E
      BY DEF E
    <2> HIDE DEF P
    <2> QED BY <1>3, <1>8, <2>1, <2>2, <2>3
  <1> HIDE DEF P, Q, R, n
  <1>10. Len(P) > 2 /\ Len(P) - 1 = n + 2 /\ Len(P) - 2 = n + 1 /\ Len(P) - 3 = n
    BY <1>3, <1>9
  <1>11. P[n + 1] = PushLoaded(p)
    BY <1>3, <1>8, <1>9
  <1>12. \A i \in 1..n : \E x \in ToSet(steps) : P[i] = Register(p, x)
    <2> TAKE i \in 1..n
    <2>1. P[i] = Register(p, steps[i])
      BY <1>3, <1>5, <1>8, <1>9
    <2> QED BY <1>3, <2>1
  <1> QED BY <1>1, <1>6, <1>9, <1>10, <1>11, <1>12 DEF steps

LEMMA LoadShape ==
  ASSUME Typed, LoadNext, EventsAssumption
  PROVE  Stacked' /\ Bottom' /\ Framed' /\ todo' \in Seq(Items)
  <1>1. CASE todo' = <<>>
    <2>1. todo' \in Seq(Items) /\ \A i \in DOMAIN todo' : FALSE
      BY <1>1, EmptySeq
    <2> QED BY <1>1, <2>1 DEF Stacked, Bottom, Framed
  <1>2. CASE todo' # <<>>
    <2>1. PICK p \in ToSet(Installed), P \in Seq(Items) :
           /\ todo' = P /\ Len(P) > 2 /\ PluginRec(p) \in Plugs
           /\ P[Len(P)] = Nobody /\ P[Len(P) - 1] = Catch("loader", PluginRec(p))
           /\ P[Len(P) - 2] = PushLoaded(p)
           /\ \A i \in 1..(Len(P) - 3) : \E x \in ToSet(Script[p]) : P[i] = Register(p, x)
      BY <1>2, LoadGives
    <2> DEFINE n == Len(P)
    <2>2. n \in Nat /\ n > 2
      BY <2>1, LenProperties
    <2> HIDE DEF n
    <2>3. \A i \in 1..(n - 3) : P[i].do = "register" /\ P[i].plugin = p
      <3> TAKE i \in 1..(n - 3)
      <3>1. PICK x \in ToSet(Script[p]) : P[i] = Register(p, x)
        BY <2>1 DEF n
      <3> QED BY <3>1 DEF Register
    <2>4. P[n - 2].do = "loaded" /\ P[n - 2].plugin = p
      BY <2>1 DEF PushLoaded, n
    <2>5. P[n - 1].do = "catch" /\ P[n - 1].where = "loader" /\ P[n - 1].about = PluginRec(p)
      BY <2>1 DEF Catch, n
    <2>6. P[n].do = "catch" /\ P[n].where = "nobody"
      BY <2>1 DEF Nobody, Catch, n
    <2>7. ASSUME NEW i \in 1..n, NEW k \in 1..(i - 1)
          PROVE  Above(P[k], P[i])
      <3>1. CASE i = n
        BY <2>6, <3>1 DEF Above, Tells
      <3>2. CASE i = n - 1
        <4>1. k \in 1..(n - 3) \/ k = n - 2
          BY <2>2, <3>2
        <4>2. P[k].do \in {"register", "loaded"} /\ P[k].plugin = p
          BY <2>3, <2>4, <4>1
        <4> QED BY <2>5, <3>2, <4>2 DEF Above, Tells
      <3>3. CASE i \in 1..(n - 2)
        <4>1. k \in 1..(n - 3) /\ (i \in 1..(n - 3) \/ i = n - 2)
          BY <2>2, <3>3
        <4>2. P[k].do = "register" /\ P[k].plugin = p /\ P[i].do \in {"register", "loaded"} /\ P[i].plugin = p
          BY <2>3, <2>4, <4>1
        <4> QED BY <4>2 DEF Above, Tells
      <3>4. i = n \/ i = n - 1 \/ i \in 1..(n - 2)
        BY <2>2
      <3> QED BY <3>1, <3>2, <3>3, <3>4
    <2>8. ASSUME NEW i \in 1..n, P[i].do = "catch"
          PROVE  P[i].where # "request"
      <3>1. i = n \/ i = n - 1 \/ i = n - 2 \/ i \in 1..(n - 3)
        BY <2>2
      <3> QED BY <2>3, <2>4, <2>5, <2>6, <2>8, <3>1
    <2>9. FreshlySet(P)
      BY <2>6, <2>7, <2>8 DEF FreshlySet, n
    <2> QED BY <2>1, <2>9, FreshShape
  <1> QED BY <1>1, <1>2

Shape == Stacked /\ Bottom /\ Framed

\* Every step leaves the calls that are to be made in the order they are in.
LEMMA ShapeKeeps ==
  ASSUME EventsAssumption, Typed, Shape, AllFit, Counted, Paired, [Next]_vars
  PROVE  Shape' /\ todo' \in Seq(Items)
  <1> USE DEF Shape
  <1>0. CASE UNCHANGED todo
    <2>1. UNCHANGED todo /\ todo \in Seq(Items)
      BY <1>0 DEF Typed
    <2> QED BY <2>1 DEF Stacked, Bottom, Framed
  <1>1. CASE todo # <<>> /\ Then(<<>>)
    BY <1>1, PopShape
  <1>2. CASE EmitEvent
    BY <1>2, EmitShape
  <1>3. CASE TellAttempt
    BY <1>3, AttemptShape
  <1>4. CASE PluginThrows \/ RegisterThrows
    BY <1>4, UnwindShape DEF PluginThrows, RegisterThrows, Calling, AtTop
  <1>5. CASE UpdateRecord
    BY <1>5, UpdateShape
  <1>6. CASE BeginAttempt
    BY <1>6, BeginShape
  <1>7. CASE DispatchTask
    BY <1>7, DispatchShape
  <1>8. CASE ExecuteTask
    BY <1>8, ExecuteShape
  <1>9. CASE LookAtTask
    BY <1>9, LookShape
  <1>10. CASE NoteLoaded
    BY <1>10, LoadedShape
  <1>11. CASE LoadNext
    BY <1>11, LoadShape
  <1>12. CASE \E j \in Jobs : Submit(j) \/ \E n \in 1..Budget[j] : JobGoesOn(j, n)
    BY <1>12, SubmitShape, GoesOnShape
  <1>13. CASE \E c \in Requests : PostTask(c) \/ WriteStatus(c)
    BY <1>13, PostShape, StatusShape
  <1>14. CASE \E t \in Records : HandlerReturns(t)
    BY <1>14, ReturnsShape
  <1>15. CASE TellSocket \/ TellPlugin \/ RemoveListener \/ Caught \/ AwaitDispatch \/ HandlerStarts
               \/ RegisterAgent \/ Subscribe
    <2>1. todo # <<>> /\ Then(<<>>)
      BY <1>15 DEF TellSocket, TellPlugin, RemoveListener, Caught, AwaitDispatch, HandlerStarts,
                   RegisterAgent, Subscribe, Calling, AtTop
    <2> QED BY <1>1, <2>1
  <1>16. CASE Serve \/ (\E c \in Requests : ReadStatus(c)) \/ (\E s \in Sockets : Connect(s) \/ Close(s))
    BY <1>0, <1>16 DEF Serve, ReadStatus, Connect, Close
  <1>17. CASE UNCHANGED vars
    BY <1>0, <1>17 DEF vars
  <1> QED BY <1>2, <1>3, <1>4, <1>5, <1>6, <1>7, <1>8, <1>9, <1>10, <1>11, <1>12, <1>13, <1>14, <1>15,
             <1>16, <1>17 DEF Next, Proceed

-----------------------------------------------------------------------------
(* Who listens.                                                            *)

LEMMA Removal ==
  ASSUME NEW S, NEW s \in Seq(S), NEW i \in 1..Len(s)
  PROVE  /\ RemoveAt(s, i) \in Seq(S) /\ Len(RemoveAt(s, i)) = Len(s) - 1
         /\ \A k \in 1..(Len(s) - 1) : RemoveAt(s, i)[k] = IF k < i THEN s[k] ELSE s[k + 1]
  <1> DEFINE n == Len(s)
             A == SubSeq(s, 1, i - 1)
             B == SubSeq(s, i + 1, n)
  <1>1. n \in Nat /\ i \in Nat /\ i >= 1 /\ i <= n /\ \A k \in 1..n : s[k] \in S
    BY LenProperties, ElementOfSeq
  <1>2. A \in Seq(S) /\ Len(A) = i - 1 /\ \A k \in 1..(i - 1) : A[k] = s[k]
    <2>1. 1 \in Int /\ i - 1 \in Int /\ \A k \in 1..(i - 1) : s[k] \in S
      BY <1>1
    <2>2. /\ A \in Seq(S) /\ Len(A) = IF 1 <= i - 1 THEN (i - 1) - 1 + 1 ELSE 0
          /\ \A k \in 1..((i - 1) - 1 + 1) : A[k] = s[1 + k - 1]
      BY ONLY <2>1, SubSeqProperties
    <2> HIDE DEF A
    <2> QED BY <1>1, <2>2
  <1>3. B \in Seq(S) /\ Len(B) = n - i /\ \A k \in 1..(n - i) : B[k] = s[i + k]
    <2>1. i + 1 \in Int /\ n \in Int /\ \A k \in (i + 1)..n : s[k] \in S
      BY <1>1
    <2>2. /\ B \in Seq(S) /\ Len(B) = IF i + 1 <= n THEN n - (i + 1) + 1 ELSE 0
          /\ \A k \in 1..(n - (i + 1) + 1) : B[k] = s[(i + 1) + k - 1]
      BY ONLY <2>1, SubSeqProperties
    <2> HIDE DEF B, n
    <2>3. Len(B) = n - i
      BY <1>1, <2>2
    <2>4. ASSUME NEW k \in 1..(n - i) PROVE B[k] = s[i + k]
      <3>1. k \in 1..(n - (i + 1) + 1) /\ (i + 1) + k - 1 = i + k
        BY <1>1
      <3> QED BY <2>2, <3>1
    <2> QED BY <2>2, <2>3, <2>4
  <1>4. RemoveAt(s, i) = A \o B
    BY DEF RemoveAt
  <1> HIDE DEF A, B, n
  <1>5. /\ A \o B \in Seq(S) /\ Len(A \o B) = Len(A) + Len(B)
        /\ \A k \in 1..(Len(A) + Len(B)) : (A \o B)[k] = IF k <= Len(A) THEN A[k] ELSE B[k - Len(A)]
    BY <1>2, <1>3, ConcatProperties
  <1>6. Len(A) + Len(B) = n - 1
    BY <1>1, <1>2, <1>3
  <1>7. ASSUME NEW k \in 1..(n - 1)
        PROVE  (A \o B)[k] = IF k < i THEN s[k] ELSE s[k + 1]
    <2>1. CASE k < i
      <3>1. k <= Len(A) /\ k \in 1..(i - 1)
        BY <1>1, <1>2, <2>1
      <3> QED BY <1>2, <1>5, <1>6, <2>1, <3>1
    <2>2. CASE ~(k < i)
      <3>1. ~(k <= Len(A)) /\ k - Len(A) \in 1..(n - i) /\ i + (k - Len(A)) = k + 1
        BY <1>1, <1>2, <2>2
      <3> QED BY <1>3, <1>5, <1>6, <2>2, <3>1
    <2> QED BY <2>1, <2>2
  <1> QED BY <1>4, <1>5, <1>6, <1>7 DEF n

\* on() adds the listener; a socket's or an attempt's should not listen yet.
LEMMA OnGives ==
  ASSUME Typed, NEW l \in Listeners, NEW E, NEW e \in Events
  PROVE  /\ On(l, E)[e] \in Seq(Listeners)
         /\ \A x : Among(x, On(l, E)[e]) <=> Among(x, listeners[e]) \/ (x = l /\ e \in E)
         /\ Apart(listeners[e]) /\ (l[1] # "plugin" /\ e \in E => ~Among(l, listeners[e])) => Apart(On(l, E)[e])
  <1> DEFINE s == listeners[e]
             n == On(l, E)[e]
  <1>1. s \in Seq(Listeners) /\ n = IF e \in E THEN Append(s, l) ELSE s
    BY DEF Typed, On
  <1>2. CASE e \notin E
    BY <1>1, <1>2
  <1>3. CASE e \in E
    <2>1. n = Append(s, l)
      BY <1>1, <1>3
    <2> HIDE DEF n, s
    <2>2. /\ n \in Seq(Listeners) /\ Len(n) = Len(s) + 1 /\ n[Len(s) + 1] = l
          /\ \A k \in 1..Len(s) : n[k] = s[k]
          /\ DOMAIN n = 1..(Len(s) + 1) /\ DOMAIN s = 1..Len(s) /\ Len(s) \in Nat
      BY <1>1, <2>1, AppendProperties, LenProperties
    <2>3. \A k \in DOMAIN n : (k \in DOMAIN s /\ n[k] = s[k]) \/ (k = Len(s) + 1 /\ n[k] = l)
      BY <2>2
    <2>4. ASSUME NEW x PROVE Among(x, n) <=> Among(x, s) \/ x = l
      <3>1. ASSUME Among(x, n) PROVE Among(x, s) \/ x = l
        BY <2>3, <3>1 DEF Among
      <3>2. Among(x, s) => Among(x, n)
        BY <2>2 DEF Among
      <3>3. Among(l, n)
        BY <2>2 DEF Among
      <3> QED BY <3>1, <3>2, <3>3
    <2>5. ASSUME Apart(s), l[1] # "plugin" => ~Among(l, s) PROVE Apart(n)
      <3> SUFFICES ASSUME NEW i \in DOMAIN n, NEW k \in DOMAIN n, n[i] = n[k], n[i][1] # "plugin"
                   PROVE  i = k
        BY DEF Apart
      <3> QED BY <2>3, <2>5 DEF Apart, Among
    <2> QED BY <1>3, <2>2, <2>4, <2>5 DEF n, s
  <1> QED BY <1>2, <1>3

\* off() removes it, and nothing else.
LEMMA OffGives ==
  ASSUME Typed, NEW l \in Listeners, l[1] # "plugin", NEW E, NEW e \in Events,
         Apart(listeners[e])
  PROVE  /\ Off(l, E)[e] \in Seq(Listeners)
         /\ \A x : Among(x, Off(l, E)[e]) <=> Among(x, listeners[e]) /\ (x # l \/ e \notin E)
         /\ Apart(Off(l, E)[e])
  <1> DEFINE s == listeners[e]
             n == Off(l, E)[e]
  <1>1. s \in Seq(Listeners) /\ DOMAIN s = 1..Len(s) /\ Len(s) \in Nat
    BY LenProperties DEF Typed
  <1>2. CASE e \notin E \/ ~Among(l, s)
    <2>1. n = s
      BY <1>2 DEF Off, Among
    <2> QED BY <1>1, <1>2, <2>1
  <1>3. CASE e \in E /\ Among(l, s)
    <2>1. PICK i \in DOMAIN s : s[i] = l
      BY <1>3 DEF Among
    <2>2. \A k \in DOMAIN s : s[k] = l => k = i
      BY <2>1 DEF Apart
    <2>3. n = RemoveAt(s, i)
      <3> DEFINE Places == {k \in DOMAIN listeners[e] : listeners[e][k] = l}
      <3>1. Places = {i}
        BY <2>1, <2>2
      <3>2. (CHOOSE k \in Places : \A m \in Places : m <= k) = i
        <4>1. i <= i
          BY <1>1, <2>1
        <4> HIDE DEF Places
        <4> QED BY <3>1, <4>1
      <3>3. n = IF e \in E /\ Places # {}
                THEN RemoveAt(listeners[e], CHOOSE k \in Places : \A m \in Places : m <= k)
                ELSE listeners[e]
        BY DEF Off
      <3> HIDE DEF Places, n
      <3> QED BY <1>3, <3>1, <3>2, <3>3
    <2> HIDE DEF n, s
    <2>4. i \in 1..Len(s)
      BY <1>1, <2>1
    <2>5. /\ n \in Seq(Listeners) /\ Len(n) = Len(s) - 1
          /\ \A k \in 1..(Len(s) - 1) : n[k] = IF k < i THEN s[k] ELSE s[k + 1]
      BY <1>1, <2>3, <2>4, Removal
    <2>6. DOMAIN n = 1..(Len(s) - 1)
      BY <2>5, LenProperties
    <2> DEFINE was(k) == IF k < i THEN k ELSE k + 1
    <2>7. \A k \in DOMAIN n : was(k) \in DOMAIN s /\ was(k) # i /\ n[k] = s[was(k)]
      BY <1>1, <2>4, <2>5, <2>6
    <2>8. \A k, m \in DOMAIN n : was(k) = was(m) => k = m
      BY <2>4, <2>6
    <2>9. ASSUME NEW k \in DOMAIN s, k # i
          PROVE  \E m \in DOMAIN n : n[m] = s[k]
      <3>1. CASE k < i
        <4>1. k \in DOMAIN n
          BY <1>1, <2>4, <2>6, <3>1
        <4> QED BY <2>5, <2>6, <3>1, <4>1
      <3>2. CASE ~(k < i)
        <4>1. k - 1 \in DOMAIN n /\ ~(k - 1 < i) /\ (k - 1) + 1 = k
          BY <1>1, <2>4, <2>6, <2>9, <3>2
        <4> QED BY <2>5, <2>6, <4>1
      <3> QED BY <3>1, <3>2
    <2> HIDE DEF was
    <2>10. ASSUME NEW x PROVE Among(x, n) <=> Among(x, s) /\ x # l
      BY <2>1, <2>2, <2>7, <2>9 DEF Among
    <2>11. Apart(n)
      BY <2>7, <2>8 DEF Apart, s
    <2> QED BY <1>3, <2>5, <2>10, <2>11 DEF n, s
  <1> QED BY <1>2, <1>3

-----------------------------------------------------------------------------
(* What is left to do, whatever its order.                                 *)

Left     == {todo[i] : i \in DOMAIN todo}
Lower(d) == {todo[i] : i \in (d + 1)..Len(todo)}
Made(P)  == {P[i] : i \in 1..Len(P)}

LEMMA LeftAfter ==
  ASSUME Typed, Stacked, AllFit, NEW d \in DOMAIN todo, NEW P \in Seq(Items), Gives(d, P)
  PROVE  /\ Left' = Made(P) \cup Lower(d)
         /\ Lower(d) \subseteq Left
         /\ \A a \in Lower(d) : a \in Items /\ Fits(a) /\ Above(todo[d], a)
         /\ P # <<>> => Head(todo') = P[1]
  <1>1. todo \in Seq(Items)
    BY DEF Typed
  <1>2. /\ Len(todo') = Len(P) + Len(todo) - d /\ todo' \in Seq(Items)
        /\ DOMAIN todo' = 1..(Len(P) + Len(todo) - d)
        /\ Len(P) \in Nat /\ Len(todo) \in Nat /\ DOMAIN todo = 1..Len(todo) /\ d \in 1..Len(todo)
        /\ \A i \in 1..Len(P) : todo'[i] = P[i]
        /\ \A i \in (d + 1)..Len(todo) : todo'[Len(P) + i - d] = todo[i]
        /\ \A i \in DOMAIN todo' : i \notin 1..Len(P) =>
              i - Len(P) + d \in (d + 1)..Len(todo) /\ todo'[i] = todo[i - Len(P) + d]
    BY <1>1, Replaced DEF Gives
  <1>3. \A a \in Left' : a \in Made(P) \cup Lower(d)
    <2> SUFFICES ASSUME NEW i \in DOMAIN todo'
                 PROVE  todo'[i] \in Made(P) \cup Lower(d)
      BY DEF Left
    <2>1. CASE i \in 1..Len(P)
      BY <1>2, <2>1 DEF Made
    <2>2. CASE i \notin 1..Len(P)
      BY <1>2, <2>2 DEF Lower
    <2> QED BY <2>1, <2>2
  <1>4. \A a \in Made(P) : a \in Left'
    <2> SUFFICES ASSUME NEW i \in 1..Len(P) PROVE P[i] \in Left'
      BY DEF Made
    <2>1. i \in DOMAIN todo'
      BY <1>2
    <2> QED BY <1>2, <2>1 DEF Left
  <1>5. \A a \in Lower(d) : a \in Left'
    <2> SUFFICES ASSUME NEW i \in (d + 1)..Len(todo) PROVE todo[i] \in Left'
      BY DEF Lower
    <2>1. Len(P) + i - d \in DOMAIN todo'
      <3>1. Len(P) + i - d \in Int /\ Len(P) + i - d >= 1
        BY <1>2
      <3>2. Len(P) + i - d <= Len(P) + Len(todo) - d
        BY <1>2
      <3> QED BY <1>2, <3>1, <3>2
    <2> QED BY <1>2, <2>1 DEF Left
  <1>6. \A i \in (d + 1)..Len(todo) : i \in DOMAIN todo /\ d \in 1..(i - 1)
    BY <1>2
  <1>7. Lower(d) \subseteq Left
    BY <1>6 DEF Lower, Left
  <1>8. \A a \in Lower(d) : a \in Items /\ Fits(a) /\ Above(todo[d], a)
    <2> SUFFICES ASSUME NEW i \in (d + 1)..Len(todo)
                 PROVE  todo[i] \in Items /\ Fits(todo[i]) /\ Above(todo[d], todo[i])
      BY DEF Lower
    <2> QED BY <1>1, <1>6, ElementOfSeq DEF AllFit, Stacked
  <1>9. P # <<>> => Head(todo') = P[1]
    <2> SUFFICES ASSUME P # <<>> PROVE Head(todo') = P[1]
      OBVIOUS
    <2>1. Len(P) > 0
      BY <1>2, EmptySeq
    <2>2. 1 \in 1..Len(P) /\ todo'[1] = P[1] /\ 1 \in DOMAIN todo'
      BY <1>2, <2>1
    <2>3. todo' # <<>>
      BY <2>2, EmptySeq
    <2>4. Head(todo') = todo'[1]
      BY <1>2, <2>3, HeadTailProperties
    <2> QED BY <2>2, <2>4
  <1> QED BY <1>3, <1>4, <1>5, <1>7, <1>8, <1>9

\* The call on the top gives way to the calls P.
Rest == Lower(1)

LEMMA LeftThen ==
  ASSUME Typed, Stacked, AllFit, todo # <<>>, NEW P \in Seq(Items), Then(P)
  PROVE  /\ Left = {Head(todo)} \cup Rest
         /\ Left' = Made(P) \cup Rest
         /\ Head(todo) \in Items /\ Fits(Head(todo))
         /\ \A a \in Rest : a \in Items /\ Fits(a) /\ Above(Head(todo), a)
         /\ P # <<>> => Head(todo') = P[1]
  <1>1. /\ 1 \in DOMAIN todo /\ todo[1] = Head(todo) /\ Tail(todo) = SubSeq(todo, 2, Len(todo))
        /\ Head(todo) \in Items /\ Fits(Head(todo)) /\ DOMAIN todo = 1..Len(todo) /\ Len(todo) \in Nat
    BY OnTop
  <1>2. Gives(1, P)
    BY <1>1 DEF Gives, Then
  <1>3. Left = {Head(todo)} \cup Rest
    <2>1. \A i : i \in DOMAIN todo <=> i = 1 \/ i \in (1 + 1)..Len(todo)
      BY <1>1
    <2> QED BY <1>1, <2>1 DEF Left, Rest, Lower
  <1> QED BY <1>1, <1>2, <1>3, LeftAfter DEF Rest

\* A new turn.
LEMMA LeftFresh ==
  ASSUME NEW P \in Seq(Items), todo' = P
  PROVE  Left' = Made(P) /\ (P # <<>> => Head(todo') = P[1])
  <1>1. DOMAIN P = 1..Len(P)
    BY LenProperties
  <1> QED BY <1>1, HeadTailProperties DEF Left, Made

LEMMA MadeOf ==
  ASSUME NEW x, NEW y, NEW z, NEW w
  PROVE  /\ Made(<<>>) = {} /\ Made(<<x>>) = {x} /\ Made(<<x, y>>) = {x, y}
         /\ Made(<<x, y, z>>) = {x, y, z} /\ Made(<<x, y, z, w>>) = {x, y, z, w}
  BY DEF Made

-----------------------------------------------------------------------------
(* What was right to do stays right.                                       *)

Grows == /\ record' \in [Records -> States]
         /\ \A r \in Records : Version(r) \in Nat /\ Version(r)' \in Nat /\ Version(r) <= Version(r)'

\* What an item relies on, beside that the records only grow.
Steady(a) ==
  /\ Tells(a) /\ a.about \in Records => record'[a.about] = record[a.about]
  /\ a.do = "update" /\ Numbered(a) => record'[a.about] = record[a.about]
  /\ a.do = "attempt" => record'[JobRec(a.job)] = record[JobRec(a.job)]
  /\ a.do = "await" => (\A w \in awaiting' : w.task # a.about) /\ ~Hears(a.about[2], a.about[3])'
  /\ a.do = "look" => /\ \A w \in awaiting' : w.task # TaskRec(a.job, a.attempt)
                      /\ ~Hears(a.job, a.attempt)'
  /\ a.do = "dispatch" => Fits(a)'

LEMMA StillFits ==
  ASSUME NEW a \in Items, Fits(a), Grows, Steady(a)
  PROVE  Fits(a)'
  <1>0. \A r \in Records : Version(r) > 0 => Version(r)' > 0
    BY DEF Grows
  <1>1. CASE Tells(a)
    <2>1. a.about \in Records => Version(a.about)' = Version(a.about)
      BY <1>1 DEF Steady, Version
    <2>2. /\ a.event[1] = a.about[1]
          /\ a.about \in Records => a.snapshot = record[a.about] /\ Version(a.about) > 0
          /\ a.do = "call" => /\ a.listener[1] = "socket" => a.event \in SocketEvents
                              /\ a.listener[1] = "attempt" => a.event = <<"task", "updated">>
      BY <1>1, Fitting
    <2>3. a.about \in Records => a.snapshot = record'[a.about] /\ Version(a.about)' > 0
      BY <1>1, <2>1, <2>2 DEF Steady
    <2> QED BY <1>1, <2>2, <2>3 DEF Fits, Tells
  <1>2. CASE a.do = "update"
    <2>1. a.about \in Records
      BY <1>2, ItemKinds DEF Updates
    <2>2. /\ a.about[1] \in {"job", "task"} /\ Version(a.about) > 0
          /\ Numbered(a) => /\ a.about[1] = "job"
                            /\ record[a.about].attempts <= a.patch.attempts
                            /\ a.patch.attempts <= Budget[a.about[2]]
      BY <1>2, Fitting
    <2>3. Numbered(a) => record'[a.about] = record[a.about]
      BY <1>2 DEF Steady
    <2> QED BY <1>0, <1>2, <2>1, <2>2, <2>3 DEF Fits, Tells, Numbered
  <1>3. CASE a.do = "attempt"
    <2>1. JobRec(a.job) \in Records
      BY <1>3, ItemKinds, Names DEF Attempts
    <2>2. JobOf(a.job)' = JobOf(a.job)
      BY <1>3 DEF Steady, JobOf
    <2>3. JobOf(a.job).attempts < Budget[a.job] /\ Version(JobRec(a.job)) > 0
      BY <1>3, Fitting
    <2> QED BY <1>0, <1>3, <2>1, <2>2, <2>3 DEF Fits, Tells
  <1>4. CASE a.do \in {"await", "execute", "start"}
    <2>1. a.about \in Records /\ Version(a.about) > 0
      BY <1>4, ItemKinds, Names, Fitting DEF TaskItems
    <2> QED BY <1>0, <1>4, <2>1 DEF Fits, Tells, Steady
  <1>5. CASE a.do = "look"
    <2>1. TaskRec(a.job, a.attempt) \in Records /\ Version(TaskRec(a.job, a.attempt)) > 0
      BY <1>5 DEF Fits, Tells
    <2> QED BY <1>0, <1>5, <2>1 DEF Fits, Tells, Steady
  <1>6. CASE a.do = "off"
    BY <1>6, Fitting DEF Fits, Tells
  <1>7. CASE a.do = "catch"
    <2>1. /\ a.where = "execute" => a.about \in Tasks /\ Version(a.about) > 0
          /\ a.where = "loader" => a.about \in Plugs
          /\ a.where = "nobody" <=> a.about = <<>>
      BY <1>7, Fitting
    <2>2. a.where = "execute" => Version(a.about)' > 0
      BY <1>0, <2>1, Names
    <2> QED BY <1>7, <2>1, <2>2 DEF Fits, Tells
  <1>8. CASE a.do = "dispatch"
    BY <1>8 DEF Steady
  <1>9. CASE a.do \in {"register", "loaded"}
    BY <1>9 DEF Fits, Tells
  <1>10. Tells(a) \/ a.do \in {"update", "attempt", "await", "execute", "start", "look", "off", "catch",
                               "dispatch", "register", "loaded"}
    BY DEF Items, Emits, CallItems, Updates, Attempts, TaskItems, Offs, Looks, Registers, Loadeds,
           Catches, Tells
  <1> QED BY <1>1, <1>2, <1>3, <1>4, <1>5, <1>6, <1>7, <1>8, <1>9, <1>10

LEMMA FitIsLeft == AllFit <=> \A a \in Left : Fits(a)
  BY DEF AllFit, Left

\* Where only todo changes, a task that is to be dispatched may only stand below
\* what tells of its job: what is below the top, or a catch, fits as it did.
Same == UNCHANGED <<record, listeners, awaiting>>

LEMMA SameFits ==
  ASSUME Typed, Same, NEW a \in Items, Fits(a), a.do # "dispatch" \/ Fits(a)'
  PROVE  Fits(a)'
  <1>1. Grows
    BY DEF Typed, Grows, Same, Version, States
  <1>2. Steady(a)
    BY Fitting DEF Steady, Same, Hears, Listens, Fits, Tells
  <1> QED BY <1>1, <1>2, StillFits

LEMMA SameDispatch ==
  ASSUME Typed, Same, NEW b \in Items, Fits(b), b.do # "update", NEW a \in Items, Fits(a), Above(b, a),
         b.do = "catch" \/ b = Head(todo)
  PROVE  Fits(a)'
  <1>1. CASE a.do # "dispatch"
    BY <1>1, SameFits
  <1>2. CASE a.do = "dispatch"
    <2>1. TellsOf(b, JobRec(a.about[2])) /\ a.about[2] \in Jobs
      BY <1>2 DEF Above, Update
    <2>2. b = Head(todo)
      BY <2>1 DEF TellsOf, Tells
    <2>3. record[a.about] = Absent /\ JobOf(a.about[2]).attempts = a.about[3]
      <3>1. Head(todo) # Update(JobRec(a.about[2]), [status |-> "running", attempts |-> a.about[3]])
        BY <2>2 DEF Update
      <3> QED BY <1>2, <2>1, <3>1 DEF Fits, Tells
    <2> QED BY <1>2, <2>1, <2>3 DEF Fits, Tells, Same, JobOf
  <1> QED BY <1>1, <1>2

-----------------------------------------------------------------------------
(* What each call of a turn leaves to be done.                             *)

\* The call e on the top gives way to those of M.
Turn(e, M) ==
  /\ todo # <<>> /\ e = Head(todo) /\ e \in Items /\ Fits(e) /\ M \subseteq Items
  /\ Left = {e} \cup Rest /\ Left' = M \cup Rest
  /\ \A a \in Rest : a \in Items /\ Fits(a) /\ Above(e, a)

LEMMA TurnBy ==
  ASSUME Typed, Stacked, AllFit, todo # <<>>, NEW P \in Seq(Items), Then(P)
  PROVE  Turn(Head(todo), Made(P)) /\ (P # <<>> => Head(todo') = P[1])
  <1>1. Made(P) \subseteq Items
    BY LenProperties, ElementOfSeq DEF Made
  <1> QED BY <1>1, LeftThen DEF Turn

LEMMA PopTurn ==
  ASSUME Typed, Stacked, AllFit, todo # <<>>, Then(<<>>)
  PROVE  Turn(Head(todo), {})
  <1>1. <<>> \in Seq(Items) /\ Made(<<>>) = {}
    BY EmptySeq, MadeOf
  <1> HIDE DEF Then
  <1> QED BY <1>1, TurnBy

Called(e) == {Call(listeners[e.event][k], e) : k \in DOMAIN listeners[e.event]}

LEMMA EmitTurn ==
  ASSUME Typed, Stacked, AllFit, EmitEvent
  PROVE  /\ Turn(Head(todo), Called(Head(todo))) /\ Head(todo) \in Emits
         /\ listeners[Head(todo).event] \in Seq(Listeners)
         /\ \A k \in DOMAIN listeners[Head(todo).event] : listeners[Head(todo).event][k] \in Listeners
  <1> DEFINE e == Head(todo)
             P == [k \in DOMAIN listeners[e.event] |-> Call(listeners[e.event][k], e)]
  <1>1. /\ todo # <<>> /\ e \in Items /\ e.do = "emit" /\ Fits(e) /\ Then(P)
    BY OnTop DEF EmitEvent, AtTop
  <1>2. e \in Emits /\ e.event \in Events
    BY <1>1, ItemKinds DEF Emits
  <1>3. /\ listeners[e.event] \in Seq(Listeners)
        /\ DOMAIN listeners[e.event] = 1..Len(listeners[e.event]) /\ Len(listeners[e.event]) \in Nat
    BY <1>2, LenProperties DEF Typed
  <1>4. \A k \in 1..Len(listeners[e.event]) : listeners[e.event][k] \in Listeners
    BY <1>3, ElementOfSeq
  <1>5. P \in Seq(Items) /\ Len(P) = Len(listeners[e.event])
    <2>1. \A l \in Listeners : Call(l, e) \in Items
      BY <1>2 DEF Call, Items, CallItems, Emits
    <2>2. P \in [1..Len(listeners[e.event]) -> Items]
      BY <1>3, <1>4, <2>1
    <2> QED BY <1>3, <2>2, SeqDef, LenProperties
  <1>6. Made(P) = Called(e)
    BY <1>3, <1>5 DEF Made, Called
  <1> HIDE DEF P, e
  <1>7. Turn(e, Made(P))
    BY <1>1, <1>5, TurnBy DEF e
  <1> QED BY <1>2, <1>3, <1>4, <1>6, <1>7 DEF e

\* What handleTerminal() may do.
Ending(j, x, task) ==
  \/ x = Update(JobRec(j), [status |-> "completed"]) /\ task.status = "completed"
  \/ x = RunAttempt(j) /\ task.status # "completed" /\ JobOf(j).attempts < Budget[j]
  \/ x = Update(JobRec(j), [status |-> "failed"]) /\ task.status # "completed"

AttemptTurns(e, j, l) ==
  /\ e \in CallItems /\ j \in Jobs /\ l = e.listener /\ l = Attempt(j, l[3]) /\ l[3] \in 1..Budget[j]
  /\ \/ /\ Turn(e, {})
        /\ ~(e.about = TaskRec(j, l[3]) /\ e.snapshot.status \in Settled)
     \/ /\ e.about = TaskRec(j, l[3]) /\ e.snapshot.status \in Settled
        /\ \E x : Ending(j, x, e.snapshot) /\ Turn(e, {x, Unsubscribe(l)})

LEMMA AttemptTurn ==
  ASSUME Typed, Stacked, AllFit, TellAttempt
  PROVE  \E j, l : AttemptTurns(Head(todo), j, l)
  <1> DEFINE e == Head(todo)
             j == e.listener[2]
             l == e.listener
  <1>1. /\ todo # <<>> /\ e \in Items /\ e.do = "call" /\ l[1] = "attempt"
    BY OnTop DEF TellAttempt, Calling, AtTop
  <1>2. e \in CallItems /\ l \in Listeners
    BY <1>1, ItemKinds DEF CallItems
  <1>3. j \in Jobs /\ l = Attempt(j, l[3]) /\ l[3] \in 1..Budget[j]
    BY <1>1, <1>2, Callers
  <1>4. CASE ~(e.about = TaskRec(j, l[3]) /\ e.snapshot.status \in Settled)
    <2>1. Then(<<>>)
      BY <1>4 DEF TellAttempt
    <2>2. Turn(e, {})
      BY <1>1, <2>1, PopTurn
    <2>3. AttemptTurns(e, j, l)
      <3> HIDE DEF e, j, l
      <3> QED BY <1>2, <1>3, <1>4, <2>2 DEF AttemptTurns, j, l
    <2> QED BY <2>3
  <1>5. CASE e.about = TaskRec(j, l[3]) /\ e.snapshot.status \in Settled
    <2>0. Then(HandleTerminal(j, e.snapshot) \o <<Unsubscribe(l)>>)
      BY <1>5 DEF TellAttempt
    <2>1. PICK x : HandleTerminal(j, e.snapshot) = <<x>> /\ Ending(j, x, e.snapshot)
      BY DEF HandleTerminal, Ending, JobOf
    <2> DEFINE P == <<x, Unsubscribe(l)>>
    <2>2. Then(P)
      <3>1. <<x>> \o <<Unsubscribe(l)>> = P
        BY Joined
      <3> QED BY <2>0, <2>1, <3>1
    <2>3. P \in Seq(Items) /\ Made(P) = {x, Unsubscribe(l)}
      <3>1. x \in Items /\ Unsubscribe(l) \in Items
        BY <1>2, <1>3, <2>1, Names
          DEF Items, Updates, Attempts, Offs, Update, RunAttempt, Unsubscribe, Patches, Statuses, Ending
      <3>2. Made(<<x, Unsubscribe(l)>>) = {x, Unsubscribe(l)}
        BY MadeOf
      <3>3. P \in Seq(Items)
        BY <3>1
      <3> QED BY <3>2, <3>3
    <2> HIDE DEF P
    <2>4. Turn(e, Made(P))
      BY <1>1, <2>2, <2>3, TurnBy
    <2>5. AttemptTurns(e, j, l)
      <3> HIDE DEF e, j, l
      <3> QED BY <1>2, <1>3, <1>5, <2>1, <2>3, <2>4 DEF AttemptTurns, l
    <2> QED BY <2>5
  <1> QED BY <1>4, <1>5

UpdateTurns(e, r, u) ==
  /\ e \in Updates /\ r = e.about /\ r \in Records /\ r[1] \in {"job", "task"}
  /\ u = Merged(record[r], e.patch) /\ u \in States /\ record' = [record EXCEPT ![r] = u]
  /\ e = Update(r, e.patch)
  /\ \/ u.status \notin Settled /\ Turn(e, {Emit("updated", r, u)})
     \/ u.status \in Settled /\ Turn(e, {Emit("updated", r, u), Emit(u.status, r, u)})

LEMMA UpdateTurn ==
  ASSUME Typed, Stacked, AllFit, UpdateRecord
  PROVE  \E r, u : UpdateTurns(Head(todo), r, u)
  <1>1. PICK e, r, u, P : UpdateFacts(e, r, u, P) /\ record' = [record EXCEPT ![r] = u]
    BY UpdateGives
  <1>2. /\ e = Head(todo) /\ todo # <<>> /\ P \in Seq(Items) /\ Then(P) /\ e.do = "update" /\ e \in Items
        /\ r = e.about /\ r \in Records /\ r[1] \in {"job", "task"} /\ u = Merged(record[r], e.patch)
        /\ u \in States /\ e = Update(r, e.patch)
    BY <1>1 DEF UpdateFacts
  <1>3. Made(P) = IF u.status \in Settled THEN {Emit("updated", r, u), Emit(u.status, r, u)}
                  ELSE {Emit("updated", r, u)}
    <2>1. /\ P[1] = Emit("updated", r, u)
          /\ \/ u.status \notin Settled /\ Len(P) = 1
             \/ u.status \in Settled /\ Len(P) = 2 /\ P[2] = Emit(u.status, r, u)
      BY <1>1 DEF UpdateFacts
    <2> QED BY <2>1 DEF Made
  <1> HIDE DEF Then
  <1>4. Turn(e, Made(P))
    BY <1>2, TurnBy
  <1>5. e \in Updates
    BY <1>2, ItemKinds
  <1>6. UpdateTurns(e, r, u)
    BY <1>1, <1>2, <1>3, <1>4, <1>5 DEF UpdateTurns
  <1> QED BY <1>2, <1>6

BeginTurns(e, j, n) ==
  /\ e \in Attempts /\ j = e.job /\ j \in Jobs /\ n = JobOf(j).attempts + 1 /\ n \in 1..Budget[j] /\ n \in Nat
  /\ JobOf(j).attempts \in Nat
  /\ Turn(e, {Update(JobRec(j), [status |-> "running", attempts |-> n]), Dispatch(j, n), Nobody})
  /\ Head(todo') = Update(JobRec(j), [status |-> "running", attempts |-> n])

LEMMA BeginTurn ==
  ASSUME EventsAssumption, Typed, Stacked, AllFit, BeginAttempt
  PROVE  \E j, n : BeginTurns(Head(todo), j, n)
  <1> DEFINE e == Head(todo)
             j == e.job
             n == JobOf(j).attempts + 1
             U == Update(JobRec(j), [status |-> "running", attempts |-> n])
             D == Dispatch(j, n)
             P == <<U, D, Nobody>>
  <1>1. todo # <<>> /\ e \in Items /\ e.do = "attempt" /\ Fits(e) /\ Then(P)
    BY OnTop DEF BeginAttempt, AtTop, JobOf
  <1>2. j \in Jobs /\ e \in Attempts
    BY <1>1, ItemKinds DEF Attempts
  <1>3. JobOf(j).attempts \in Nat /\ Budget[j] \in Nat \ {0} /\ JobOf(j).attempts < Budget[j]
    BY <1>1, <1>2, Names DEF EventsAssumption, Typed, JobOf, States, Fits, Tells
  <1>4. n \in 1..Budget[j] /\ n \in Nat
    <2> HIDE DEF j
    <2> QED BY <1>3
  <1>5. U \in Items /\ D \in Items /\ Nobody \in Items
    <2>1. JobRec(j) \in Records /\ TaskRec(j, n) \in Tasks
      BY <1>2, <1>4, Names
    <2> HIDE DEF j, n
    <2> QED BY <1>4, <2>1 DEF Items, Updates, Update, Patches, Statuses, TaskItems, Dispatch, Nobody,
           Catch, Catches
  <1>6. P \in Seq(Items) /\ P[1] = U /\ P # <<>>
    <2> HIDE DEF U, D
    <2> QED BY <1>5
  <1>7. Made(P) = {U, D, Nobody}
    <2> HIDE DEF U, D
    <2> QED BY DEF Made
  <1> HIDE DEF P, U, D, n, Then
  <1>8. Turn(e, {U, D, Nobody}) /\ Head(todo') = U
    BY <1>1, <1>6, <1>7, TurnBy
  <1>9. BeginTurns(e, j, n)
    <2> HIDE DEF e, j
    <2>1. j = e.job /\ n = JobOf(j).attempts + 1
      BY DEF j, n
    <2> QED BY <1>2, <1>3, <1>4, <1>8, <2>1 DEF BeginTurns, U, D
  <1> QED BY <1>9

DispatchTurns(e, t) ==
  /\ e \in TaskItems /\ e.do = "dispatch" /\ t = e.about /\ t \in Tasks /\ record[t] = Absent
  /\ Turn(e, {Emit("created", t, New), Emit("updated", t, New), Execute(t), Await(t)})

LEMMA DispatchTurn ==
  ASSUME Typed, Stacked, AllFit, DispatchTask
  PROVE  \E t : DispatchTurns(Head(todo), t)
  <1> DEFINE e == Head(todo)
             t == e.about
             A == Emit("created", t, New)
             B == Emit("updated", t, New)
             C == Execute(t)
             D == Await(t)
             P == <<A, B, C, D>>
  <1>1. todo # <<>> /\ e \in Items /\ e.do = "dispatch" /\ Fits(e) /\ Then(P)
    BY OnTop DEF DispatchTask, AtTop, Tasked
  <1>2. t \in Tasks /\ t \in Records /\ t[1] = "task" /\ e \in TaskItems /\ record[t] = Absent
    BY <1>1, ItemKinds, Names, Fitting DEF TaskItems
  <1>3. A \in Items /\ B \in Items /\ C \in Items /\ D \in Items
    <2>1. <<t[1], "created">> \in Events /\ <<t[1], "updated">> \in Events
      BY <1>2 DEF Events, SocketEvents
    <2>2. New \in States
      BY DEF New, States, Statuses
    <2> HIDE DEF t
    <2> QED BY <1>2, <2>1, <2>2 DEF Items, Emits, Emit, Told, TaskItems, Execute, Await
  <1>4. P \in Seq(Items)
    <2> HIDE DEF A, B, C, D
    <2> QED BY <1>3
  <1>5. Made(P) = {A, B, C, D}
    <2> HIDE DEF A, B, C, D
    <2> QED BY DEF Made
  <1> HIDE DEF P, A, B, C, D, Then
  <1>6. Turn(e, {A, B, C, D})
    BY <1>1, <1>4, <1>5, TurnBy
  <1>7. DispatchTurns(e, t)
    <2> HIDE DEF e, t
    <2>1. t = e.about
      BY DEF t
    <2> QED BY <1>1, <1>2, <1>6, <2>1 DEF DispatchTurns, A, B, C, D
  <1> QED BY <1>7

ExecuteTurns(e, t, x) ==
  /\ e \in TaskItems /\ e.do = "execute" /\ t = e.about /\ t \in Tasks /\ Version(t) > 0
  /\ x \in {StartHandler(t), Update(t, [status |-> "failed"])}
  /\ Turn(e, {Update(t, [status |-> "running"]), x, Nobody})

LEMMA ExecuteTurn ==
  ASSUME Typed, Stacked, AllFit, ExecuteTask
  PROVE  \E t, x : ExecuteTurns(Head(todo), t, x)
  <1> DEFINE e == Head(todo)
             t == e.about
             U == Update(t, [status |-> "running"])
             F == Update(t, [status |-> "failed"])
             S == StartHandler(t)
  <1>1. todo # <<>> /\ e \in Items /\ e.do = "execute" /\ Fits(e)
    BY OnTop DEF ExecuteTask, AtTop
  <1>2. t \in Tasks /\ t \in Records /\ e \in TaskItems /\ Version(t) > 0
    BY <1>1, ItemKinds, Names, Fitting DEF TaskItems
  <1>3. PICK M \in {S, F} : Then(<<U, M, Nobody>>)
    <2>1. CASE AgentOf[t[2]] \in DOMAIN handlers
      BY <2>1, Joined DEF ExecuteTask
    <2>2. CASE AgentOf[t[2]] \notin DOMAIN handlers
      BY <2>2, Joined DEF ExecuteTask
    <2> QED BY <2>1, <2>2
  <1>4. U \in Items /\ F \in Items /\ S \in Items /\ Nobody \in Items
    <2> HIDE DEF t
    <2> QED BY <1>2 DEF Items, Updates, Update, Patches, Statuses, TaskItems, StartHandler,
                        Nobody, Catch, Catches
  <1> DEFINE P == <<U, M, Nobody>>
  <1>5. P \in Seq(Items)
    <2> HIDE DEF U, F, S
    <2> QED BY <1>4
  <1>6. Made(P) = {U, M, Nobody}
    <2> HIDE DEF U
    <2> QED BY DEF Made
  <1>7. Then(P)
    BY <1>3
  <1> HIDE DEF P, U, Then
  <1>8. Turn(e, {U, M, Nobody})
    BY <1>1, <1>5, <1>6, <1>7, TurnBy
  <1>9. ExecuteTurns(e, t, M)
    <2>1. t = e.about /\ M \in {StartHandler(t), Update(t, [status |-> "failed"])}
      OBVIOUS
    <2> HIDE DEF e, t, F, S
    <2> QED BY <1>1, <1>2, <1>8, <2>1 DEF ExecuteTurns, U
  <1> QED BY <1>9

LookTurns(e, j, n, t) ==
  /\ e \in Looks /\ e.do = "look" /\ j = e.job /\ n = e.attempt /\ j \in Jobs /\ n \in Nat
  /\ t = TaskRec(j, n) /\ t \in Tasks /\ Version(t) > 0 /\ ~Hears(j, n)
  /\ \/ /\ record[t].status \notin Settled /\ Turn(e, {})
        /\ listeners' = On(Attempt(j, n), {<<"task", "updated">>})
     \/ /\ record[t].status \in Settled /\ UNCHANGED listeners
        /\ \E x : Ending(j, x, record[t]) /\ Turn(e, {x})

LEMMA LookTurn ==
  ASSUME Typed, Stacked, AllFit, LookAtTask
  PROVE  \E j, n, t : LookTurns(Head(todo), j, n, t)
  <1> DEFINE e == Head(todo)
             j == e.job
             n == e.attempt
             t == TaskRec(j, n)
  <1>1. todo # <<>> /\ e \in Items /\ e.do = "look" /\ Fits(e)
    BY OnTop DEF LookAtTask, AtTop
  <1>2. j \in Jobs /\ n \in Nat /\ e \in Looks
    BY <1>1, ItemKinds DEF Looks
  <1>3. t \in Records /\ Version(t) > 0 /\ ~Hears(j, n)
    BY <1>1 DEF Fits, Tells
  <1>4. t \in Tasks
    BY <1>3, Names DEF TaskRec
  <1>5. CASE record[t].status \notin Settled
    <2>1. Then(<<>>) /\ listeners' = On(Attempt(j, n), {<<"task", "updated">>})
      BY <1>5 DEF LookAtTask
    <2>2. Turn(e, {})
      BY <1>1, <2>1, PopTurn
    <2>3. LookTurns(e, j, n, t)
      <3>1. j = e.job /\ n = e.attempt /\ t = TaskRec(j, n)
        OBVIOUS
      <3> HIDE DEF e, j, n, t
      <3> QED BY <1>1, <1>2, <1>3, <1>4, <1>5, <2>1, <2>2, <3>1 DEF LookTurns
    <2> QED BY <2>3
  <1>6. CASE record[t].status \in Settled
    <2>1. Then(HandleTerminal(j, record[t])) /\ UNCHANGED listeners
      BY <1>6 DEF LookAtTask
    <2>2. PICK x : HandleTerminal(j, record[t]) = <<x>> /\ Ending(j, x, record[t])
      BY DEF HandleTerminal, Ending, JobOf
    <2> DEFINE P == <<x>>
    <2>3. P \in Seq(Items)
      <3>1. x \in Items
        BY <1>2, <2>2, Names DEF Items, Updates, Attempts, Update, RunAttempt, Patches, Statuses, Ending
      <3> QED BY <3>1
    <2>4. Then(P) /\ Made(P) = {x}
      BY <2>1, <2>2, MadeOf
    <2> HIDE DEF P, Then
    <2>5. Turn(e, {x})
      BY <1>1, <2>3, <2>4, TurnBy
    <2>6. LookTurns(e, j, n, t)
      <3>1. j = e.job /\ n = e.attempt /\ t = TaskRec(j, n)
        OBVIOUS
      <3> HIDE DEF e, j, n, t
      <3> QED BY <1>1, <1>2, <1>3, <1>4, <1>6, <2>1, <2>2, <2>5, <3>1 DEF LookTurns
    <2> QED BY <2>6
  <1> QED BY <1>5, <1>6

LoadedTurns(e, q) ==
  /\ e.do = "loaded" /\ q \in Plugs /\ q[1] = "plugin" /\ Turn(e, {Emit("loaded", q, Absent)})

LEMMA LoadedTurn ==
  ASSUME Typed, Stacked, AllFit, NoteLoaded
  PROVE  \E q : LoadedTurns(Head(todo), q)
  <1> DEFINE e == Head(todo)
             q == PluginRec(e.plugin)
             P == <<Emit("loaded", q, Absent)>>
  <1>1. todo # <<>> /\ e \in Items /\ e.do = "loaded" /\ Fits(e) /\ Then(P)
    BY OnTop DEF NoteLoaded, AtTop
  <1>2. e.plugin \in ToSet(Installed)
    BY <1>1, ItemKinds DEF Loadeds
  <1>3. q \in Told /\ q \in Plugs /\ q[1] = "plugin"
    BY <1>2 DEF Told, Plugs, PluginRec
  <1>4. P \in Seq(Items) /\ Made(P) = {Emit("loaded", q, Absent)}
    <2>1. <<"plugin", "loaded">> \in Events
      BY DEF Events
    <2>2. Absent \in States
      BY DEF Absent, States, Statuses
    <2> HIDE DEF q
    <2>3. Emit("loaded", q, Absent) \in Items
      BY <1>3, <2>1, <2>2 DEF Items, Emits, Emit
    <2>4. P \in Seq(Items)
      BY <2>3
    <2> QED BY <2>4, MadeOf
  <1> HIDE DEF P, q, Then
  <1>5. Turn(e, Made(P))
    BY <1>1, <1>4, TurnBy
  <1>6. LoadedTurns(e, q)
    BY <1>1, <1>3, <1>4, <1>5 DEF LoadedTurns
  <1> QED BY <1>6

\* What is left after a throw, of what was left before it.
ThrowTurns(c, M, B) ==
  /\ c \in Items /\ c.do = "catch" /\ Fits(c) /\ c \in Left /\ phase' = phase
  /\ M \subseteq Items /\ Left' = M \cup B /\ B \subseteq Left
  /\ \A a \in B : a \in Items /\ Fits(a) /\ Above(c, a)
  /\ \/ c.where = "request" /\ M = {}
     \/ c.where = "execute" /\ c.about \in Tasks /\ M = {Update(c.about, [status |-> "failed"])}
     \/ c.where = "loader" /\ c.about \in Plugs /\ M = {Emit("failed", c.about, Absent)}

LEMMA ThrowTurn ==
  ASSUME Typed, Stacked, Bottom, AllFit, todo # <<>>, Unwind
  PROVE  (todo' = <<>> /\ phase' = "down") \/ \E c, M, B : ThrowTurns(c, M, B)
  <1>1. CASE \E d, P : Unwound(d, P)
    <2>1. PICK d, P : Unwound(d, P)
      BY <1>1
    <2>2. /\ d \in DOMAIN todo /\ todo[d] \in Items /\ todo[d].do = "catch" /\ Fits(todo[d])
          /\ P \in Seq(Items) /\ Gives(d, P) /\ phase' = phase
      BY <2>1 DEF Unwound
    <2>3. /\ Left' = Made(P) \cup Lower(d) /\ Lower(d) \subseteq Left
          /\ \A a \in Lower(d) : a \in Items /\ Fits(a) /\ Above(todo[d], a)
      BY <2>2, LeftAfter
    <2>4. todo[d] \in Left /\ Made(P) \subseteq Items
      BY <2>2, LenProperties, ElementOfSeq DEF Left, Made
    <2>5. \/ todo[d].where = "request" /\ Made(P) = {}
          \/ /\ todo[d].where = "execute" /\ todo[d].about \in Tasks
             /\ Made(P) = {Update(todo[d].about, [status |-> "failed"])}
          \/ /\ todo[d].where = "loader" /\ todo[d].about \in Plugs
             /\ Made(P) = {Emit("failed", todo[d].about, Absent)}
      BY <2>1, MadeOf DEF Unwound
    <2>6. ThrowTurns(todo[d], Made(P), Lower(d))
      BY <2>2, <2>3, <2>4, <2>5 DEF ThrowTurns
    <2> QED BY <2>6
  <1> QED BY <1>1, UnwindGives

LEMMA LeftIs ==
  ASSUME NEW x, NEW y, NEW z, NEW w
  PROVE  /\ todo = <<>> => Left = {}
         /\ todo' = <<>> => Left' = {}
         /\ todo' = <<x, y>> => Left' = {x, y} /\ Head(todo') = x
         /\ todo' = <<x, y, z>> => Left' = {x, y, z} /\ Head(todo') = x
         /\ todo' = <<x, y, z, w>> => Left' = {x, y, z, w} /\ Head(todo') = x
  BY DEF Left

-----------------------------------------------------------------------------
(* Records only grow, and who listens.                                     *)

\* A record r gets the value u, of a version that is not older.
Writes(r, u) ==
  /\ r \in Records /\ u \in States /\ record' = [record EXCEPT ![r] = u]
  /\ record[r] \in States /\ record[r].version <= u.version

LEMMA WritesGrow ==
  ASSUME Typed, NEW r, NEW u, Writes(r, u)
  PROVE  Grows /\ record'[r] = u /\ \A x \in Records : x # r => record'[x] = record[x]
  <1>1. record \in [Records -> States] /\ r \in Records /\ u \in States
        /\ record' = [record EXCEPT ![r] = u]
    BY DEF Typed, Writes
  <1>2. /\ record' \in [Records -> States] /\ record'[r] = u
        /\ \A x \in Records : x # r => record'[x] = record[x]
    BY <1>1
  <1>3. \A x \in Records : record[x].version \in Nat /\ record'[x].version \in Nat
    BY <1>1, <1>2 DEF States
  <1>4. \A x \in Records : record[x].version <= record'[x].version
    BY <1>2, <1>3 DEF Writes
  <1> QED BY <1>2, <1>3, <1>4 DEF Grows, Version

LEMMA UpdateWrites ==
  ASSUME Typed, NEW e, NEW r, NEW u, UpdateTurns(e, r, u)
  PROVE  Writes(r, u) /\ u.version = record[r].version + 1 /\ record[r].version \in Nat
  <1>1. r \in Records /\ record[r] \in States /\ e.patch \in Patches /\ u = Merged(record[r], e.patch)
    BY DEF UpdateTurns, Updates, Typed
  <1>2. u.version = record[r].version + 1 /\ record[r].version \in Nat
    BY <1>1, Merging DEF States
  <1> QED BY <1>1, <1>2 DEF Writes, UpdateTurns

LEMMA DispatchWrites ==
  ASSUME Typed, DispatchTask, NEW e, NEW t, e = Head(todo), DispatchTurns(e, t)
  PROVE  Writes(t, New)
  <1>1. t \in Records /\ record[t] = Absent /\ record' = [record EXCEPT ![t] = New]
    BY Names DEF DispatchTurns, DispatchTask
  <1> QED BY <1>1 DEF Writes, New, Absent, States, Statuses

LEMMA SubmitWrites ==
  ASSUME Typed, NEW j \in Jobs, Submit(j)
  PROVE  Writes(JobRec(j), New)
  <1>1. JobRec(j) \in Records /\ record[JobRec(j)] = Absent /\ record' = [record EXCEPT ![JobRec(j)] = New]
    BY Names DEF Submit
  <1> QED BY <1>1 DEF Writes, New, Absent, States, Statuses

\* What the write of a status may do.
StatusTurns(c, r, a) ==
  /\ r = WorkspaceRec(Home[c]) /\ r \in Records /\ r[1] = "workspace"
  /\ a \in awaiting /\ a.task = TaskRec(c, 1) /\ a.after # "dispatch" /\ awaiting' = awaiting \ {a}
  /\ todo = <<>>
  /\ \/ UNCHANGED <<record, todo>>
     \/ \E u : /\ Writes(r, u) /\ u.status = "analyzing" /\ u.attempts = 0
               /\ u.version = record[r].version + (IF record[r].status = "analyzing" THEN 0 ELSE 1)
               /\ \/ a.after = "analyzing" /\ todo' = <<>>
                  \/ /\ a.after # "analyzing"
                     /\ todo' = <<Emit("status_changed", r, u), Catch("request", r)>>

LEMMA StatusTurn ==
  ASSUME EventsAssumption, Typed, NEW c \in Requests, WriteStatus(c)
  PROVE  \E r, a : StatusTurns(c, r, a)
  <1> DEFINE r == WorkspaceRec(Home[c])
             changed == IF record[r].status = "analyzing" THEN 0 ELSE 1
             u == [status |-> "analyzing", attempts |-> 0, version |-> record[r].version + changed]
  <1>1. r \in Records /\ r[1] = "workspace"
    BY RecordsAre DEF EventsAssumption, WorkspaceRec
  <1>2. PICK a \in awaiting :
          /\ todo = <<>> /\ a.task = TaskRec(c, 1) /\ a.after # "dispatch"
          /\ awaiting' = awaiting \ {a}
          /\ \/ /\ record' = [record EXCEPT ![r] = u]
                /\ todo' = IF a.after = "analyzing" THEN <<>>
                           ELSE <<Emit("status_changed", r, u), Catch("request", r)>>
             \/ UNCHANGED <<record, todo>>
    BY DEF WriteStatus, Ready
  <1>3. CASE UNCHANGED <<record, todo>>
    <2>1. StatusTurns(c, r, a)
      BY <1>1, <1>2, <1>3 DEF StatusTurns
    <2> QED BY <2>1
  <1>4. CASE /\ record' = [record EXCEPT ![r] = u]
             /\ todo' = IF a.after = "analyzing" THEN <<>>
                        ELSE <<Emit("status_changed", r, u), Catch("request", r)>>
    <2>1. record[r] \in States /\ changed \in {0, 1}
      BY <1>1 DEF Typed
    <2>2. /\ u \in States /\ record[r].version <= u.version /\ u.status = "analyzing" /\ u.attempts = 0
          /\ u.version = record[r].version + changed
      <3> HIDE DEF changed
      <3> QED BY <2>1 DEF States, Statuses
    <2>3. Writes(r, u)
      <3> HIDE DEF u
      <3> QED BY <1>1, <1>4, <2>1, <2>2 DEF Writes
    <2>4. StatusTurns(c, r, a)
      <3> HIDE DEF u
      <3>1. u.version = record[r].version + (IF record[r].status = "analyzing" THEN 0 ELSE 1)
        BY <2>2
      <3>2. \/ a.after = "analyzing" /\ todo' = <<>>
            \/ a.after # "analyzing" /\ todo' = <<Emit("status_changed", r, u), Catch("request", r)>>
        BY <1>4
      <3> QED BY <1>1, <1>2, <2>2, <2>3, <3>1, <3>2 DEF StatusTurns
    <2> QED BY <2>4
  <1> QED BY <1>2, <1>3, <1>4

LEMMA RecordsGrow ==
  ASSUME EventsAssumption, Typed, Stacked, AllFit, [Next]_vars
  PROVE  Grows
  <1>1. CASE UNCHANGED record
    BY <1>1 DEF Typed, Grows, Version, States
  <1>2. CASE UpdateRecord
    BY <1>2, UpdateTurn, UpdateWrites, WritesGrow
  <1>3. CASE DispatchTask
    BY <1>3, DispatchTurn, DispatchWrites, WritesGrow
  <1>4. CASE \E j \in Jobs : Submit(j)
    BY <1>4, SubmitWrites, WritesGrow
  <1>5. CASE \E c \in Requests : WriteStatus(c)
    <2>1. PICK c, r, a : StatusTurns(c, r, a)
      BY <1>5, StatusTurn
    <2> QED BY <1>1, <2>1, WritesGrow DEF StatusTurns
  <1> QED BY <1>1, <1>2, <1>3, <1>4, <1>5
          DEF Next, Proceed, EmitEvent, TellSocket, TellAttempt, TellPlugin, PluginThrows, RemoveListener,
              Caught, BeginAttempt, AwaitDispatch, ExecuteTask, HandlerStarts, LookAtTask, RegisterAgent,
              Subscribe, RegisterThrows, NoteLoaded, LoadNext, Serve, JobGoesOn, PostTask, ReadStatus,
              HandlerReturns, Connect, Close, vars

LEMMA OffKeeps ==
  ASSUME Typed, Paired, NEW l \in Listeners, l[1] # "plugin", NEW E, listeners' = Off(l, E)
  PROVE  /\ listeners' \in [Events -> Seq(Listeners)]
         /\ \A e \in Events : /\ Apart(listeners'[e])
                              /\ \A x : Listens(x, e)' <=> Listens(x, e) /\ (x # l \/ e \notin E)
  <1>1. \A e \in Events : /\ Off(l, E)[e] \in Seq(Listeners) /\ Apart(Off(l, E)[e])
                          /\ \A x : Among(x, Off(l, E)[e]) <=> Among(x, listeners[e]) /\ (x # l \/ e \notin E)
    BY OffGives DEF Paired
  <1>2. DOMAIN Off(l, E) = Events /\ Off(l, E) = [e \in Events |-> Off(l, E)[e]]
    BY DEF Off
  <1>3. listeners' \in [Events -> Seq(Listeners)]
    <2> DEFINE f == Off(l, E)
    <2>1. listeners' = f /\ f = [e \in Events |-> f[e]] /\ \A e \in Events : f[e] \in Seq(Listeners)
      BY <1>1, <1>2
    <2> HIDE DEF f
    <2> QED BY <2>1
  <1> QED BY <1>1, <1>3 DEF Listens

LEMMA OnKeeps ==
  ASSUME Typed, Paired, NEW l \in Listeners, NEW E, listeners' = On(l, E),
         l[1] # "plugin" => \A e \in Events : e \in E => ~Listens(l, e)
  PROVE  /\ listeners' \in [Events -> Seq(Listeners)]
         /\ \A e \in Events : /\ Apart(listeners'[e])
                              /\ \A x : Listens(x, e)' <=> Listens(x, e) \/ (x = l /\ e \in E)
  <1>1. \A e \in Events : /\ On(l, E)[e] \in Seq(Listeners) /\ Apart(On(l, E)[e])
                          /\ \A x : Among(x, On(l, E)[e]) <=> Among(x, listeners[e]) \/ (x = l /\ e \in E)
    BY OnGives DEF Paired, Listens
  <1>2. DOMAIN On(l, E) = Events /\ On(l, E) = [e \in Events |-> On(l, E)[e]]
    BY DEF On
  <1>3. listeners' \in [Events -> Seq(Listeners)]
    <2> DEFINE f == On(l, E)
    <2>1. listeners' = f /\ f = [e \in Events |-> f[e]] /\ \A e \in Events : f[e] \in Seq(Listeners)
      BY <1>1, <1>2
    <2> HIDE DEF f
    <2> QED BY <2>1
  <1> QED BY <1>1, <1>3 DEF Listens

\* How the listeners may change: one comes or goes, for the events E.
Joins(l, E) == /\ listeners' \in [Events -> Seq(Listeners)]
               /\ \A e \in Events : /\ Apart(listeners'[e])
                                    /\ \A x : Listens(x, e)' <=> Listens(x, e) \/ (x = l /\ e \in E)
Leaves(l, E) == /\ listeners' \in [Events -> Seq(Listeners)]
                /\ \A e \in Events : /\ Apart(listeners'[e])
                                     /\ \A x : Listens(x, e)' <=> Listens(x, e) /\ (x # l \/ e \notin E)

LEMMA WhoListens ==
  /\ \A s \in Sockets : Socket(s) \in Listeners /\ Socket(s)[1] = "socket" /\ Socket(s)[2] = s
  /\ \A j \in Jobs : \A n \in 1..Budget[j] :
       /\ Attempt(j, n) \in Listeners /\ Attempt(j, n)[1] = "attempt"
       /\ Attempt(j, n)[2] = j /\ Attempt(j, n)[3] = n
  /\ \A p \in ToSet(Installed) : Plugin(p) \in Listeners /\ Plugin(p)[1] = "plugin"
  <1>1. \A j \in Jobs : \A n \in 1..Budget[j] : Attempt(j, n) \in Listeners
    <2> SUFFICES ASSUME NEW j \in Jobs, NEW n \in 1..Budget[j] PROVE Attempt(j, n) \in Listeners
      OBVIOUS
    <2>1. Attempt(j, n) \in AttemptsOf(j)
      BY DEF AttemptsOf
    <2> QED BY <2>1 DEF Listeners
  <1>2. \A s \in Sockets : Socket(s) \in Listeners
    BY DEF Listeners
  <1>3. \A p \in ToSet(Installed) : Plugin(p) \in Listeners
    BY DEF Listeners
  <1> QED BY <1>1, <1>2, <1>3 DEF Socket, Attempt, Plugin

LEMMA RemoveLeaves ==
  ASSUME Typed, Stacked, AllFit, Paired, RemoveListener
  PROVE  \E j \in Jobs : \E n \in 1..Budget[j] :
           /\ Head(todo) = Unsubscribe(Attempt(j, n)) /\ Leaves(Attempt(j, n), {<<"task", "updated">>})
  <1> DEFINE e == Head(todo)
             l == e.listener
  <1>1. e \in Offs /\ l \in Listeners /\ l[1] = "attempt"
    BY OnTop, ItemKinds, Fitting DEF RemoveListener, AtTop, Offs
  <1>2. l[2] \in Jobs /\ l[3] \in 1..Budget[l[2]] /\ l = Attempt(l[2], l[3])
    BY <1>1, Callers
  <1>3. listeners' = Off(l, {<<"task", "updated">>})
    BY DEF RemoveListener
  <1>4. e = Unsubscribe(l)
    BY <1>1 DEF Offs, Unsubscribe
  <1> HIDE DEF e, l
  <1>5. Leaves(l, {<<"task", "updated">>})
    BY <1>1, <1>3, OffKeeps DEF Leaves
  <1> QED BY <1>2, <1>4, <1>5 DEF e

LEMMA LookJoins ==
  ASSUME Typed, Paired, NEW e, NEW j, NEW n, NEW t, LookTurns(e, j, n, t), ~UNCHANGED listeners
  PROVE  /\ j \in Jobs /\ n \in 1..Budget[j] /\ Joins(Attempt(j, n), {<<"task", "updated">>})
         /\ TaskRec(j, n) \in Tasks /\ Version(TaskRec(j, n)) > 0 /\ Turn(e, {})
         /\ record[TaskRec(j, n)].status \notin Settled
  <1>1. /\ j \in Jobs /\ t = TaskRec(j, n) /\ t \in Tasks /\ Version(t) > 0 /\ ~Hears(j, n)
        /\ record[t].status \notin Settled /\ Turn(e, {})
        /\ listeners' = On(Attempt(j, n), {<<"task", "updated">>})
    BY DEF LookTurns
  <1>2. n \in 1..Budget[j]
    <2>1. t[2] = j /\ t[3] = n /\ \/ t[2] \in Jobs /\ t[3] \in 1..Budget[t[2]]
                                  \/ t[2] \in Requests /\ t[3] = 1
      BY <1>1, Names DEF TaskRec
    <2>2. j \notin Requests
      BY <1>1, EventsAssumption DEF EventsAssumption
    <2> QED BY <2>1, <2>2
  <1>3. Joins(Attempt(j, n), {<<"task", "updated">>})
    <2>1. \A e2 \in Events : e2 \in {<<"task", "updated">>} => ~Listens(Attempt(j, n), e2)
      BY <1>1 DEF Hears
    <2>2. Attempt(j, n) \in Listeners
      BY <1>1, <1>2, WhoListens
    <2> QED BY <1>1, <2>1, <2>2, OnKeeps DEF Joins
  <1> QED BY <1>1, <1>2, <1>3

LEMMA SubscribeJoins ==
  ASSUME Typed, Stacked, AllFit, Paired, Subscribe
  PROVE  \E p, E : Plugin(p) \in Listeners /\ Plugin(p)[1] = "plugin" /\ Joins(Plugin(p), E)
  <1>1. Head(todo) \in Registers
    BY OnTop, ItemKinds DEF Subscribe, AtTop
  <1>2. PICK p \in ToSet(Installed) : \E ev : listeners' = On(Plugin(p), {ev})
    BY <1>1 DEF Registers, Subscribe
  <1>3. PICK ev : listeners' = On(Plugin(p), {ev})
    BY <1>2
  <1>4. Plugin(p) \in Listeners /\ Plugin(p)[1] = "plugin"
    BY WhoListens
  <1>5. Joins(Plugin(p), {ev})
    BY <1>3, <1>4, OnKeeps DEF Joins
  <1> QED BY <1>4, <1>5

\* None, an attempt, or a plugin comes or goes.
Moved ==
  \/ UNCHANGED listeners
  \/ \E j \in Jobs : \E n \in 1..Budget[j] : Leaves(Attempt(j, n), {<<"task", "updated">>})
  \/ \E j \in Jobs : \E n \in 1..Budget[j] :
       /\ Joins(Attempt(j, n), {<<"task", "updated">>})
       /\ Version(TaskRec(j, n)) > 0
  \/ \E p, E : Plugin(p) \in Listeners /\ Plugin(p)[1] = "plugin" /\ Joins(Plugin(p), E)

\* Who is paired stays so.
LEMMA PairedAfter ==
  ASSUME Paired, Grows, UNCHANGED link, Moved
  PROVE  Paired'
  <1>0. \A j \in Jobs : \A n \in 1..Budget[j] :
          Version(TaskRec(j, n)) > 0 => Version(TaskRec(j, n))' > 0
    BY Names DEF Grows
  <1> SUFFICES ASSUME NEW e \in Events
               PROVE  /\ Apart(listeners'[e])
                      /\ \A s \in Sockets : Listens(Socket(s), e)' <=> e \in SocketEvents /\ link'[s] = "open"
                      /\ \A j \in Jobs : \A n \in 1..Budget[j] :
                           Listens(Attempt(j, n), e)' =>
                             e = <<"task", "updated">> /\ Version(TaskRec(j, n))' > 0
    BY DEF Paired
  <1>1. /\ Apart(listeners[e])
        /\ \A s \in Sockets : Listens(Socket(s), e) <=> e \in SocketEvents /\ link[s] = "open"
        /\ \A j \in Jobs : \A n \in 1..Budget[j] :
             Listens(Attempt(j, n), e) => e = <<"task", "updated">> /\ Version(TaskRec(j, n)) > 0
    BY DEF Paired
  <1>2. CASE UNCHANGED listeners
    <2>1. \A x : Listens(x, e)' <=> Listens(x, e)
      BY <1>2 DEF Listens
    <2> QED BY <1>0, <1>1, <1>2, <2>1
  <1>3. CASE \E j \in Jobs : \E n \in 1..Budget[j] : Leaves(Attempt(j, n), {<<"task", "updated">>})
    <2>0. PICK j \in Jobs : \E n \in 1..Budget[j] : Leaves(Attempt(j, n), {<<"task", "updated">>})
      BY <1>3
    <2>1. PICK n \in 1..Budget[j] : Leaves(Attempt(j, n), {<<"task", "updated">>})
      BY <2>0
    <2>2. /\ Apart(listeners'[e])
          /\ \A x : Listens(x, e)' <=> Listens(x, e) /\ (x # Attempt(j, n) \/ e \notin {<<"task", "updated">>})
      BY <2>1 DEF Leaves
    <2>3. \A s \in Sockets : Socket(s) # Attempt(j, n)
      BY DEF Socket, Attempt
    <2> QED BY <1>0, <1>1, <2>2, <2>3
  <1>4. CASE \E j \in Jobs : \E n \in 1..Budget[j] :
               /\ Joins(Attempt(j, n), {<<"task", "updated">>})
               /\ Version(TaskRec(j, n)) > 0
    <2>0. PICK j \in Jobs : \E n \in 1..Budget[j] : /\ Joins(Attempt(j, n), {<<"task", "updated">>})
                                                     /\ Version(TaskRec(j, n)) > 0
      BY <1>4
    <2>1. PICK n \in 1..Budget[j] : /\ Joins(Attempt(j, n), {<<"task", "updated">>})
                                    /\ Version(TaskRec(j, n)) > 0
      BY <2>0
    <2>2. /\ Apart(listeners'[e])
          /\ \A x : Listens(x, e)' <=> Listens(x, e) \/ (x = Attempt(j, n) /\ e = <<"task", "updated">>)
      BY <2>1 DEF Joins
    <2>3. \A s \in Sockets : Socket(s) # Attempt(j, n)
      BY DEF Socket, Attempt
    <2>4. \A i \in Jobs : \A m \in 1..Budget[i] : Attempt(i, m) = Attempt(j, n) => i = j /\ m = n
      BY DEF Attempt
    <2>5. ASSUME NEW i \in Jobs, NEW m \in 1..Budget[i], Listens(Attempt(i, m), e)'
          PROVE  e = <<"task", "updated">> /\ Version(TaskRec(i, m))' > 0
      <3>1. CASE Listens(Attempt(i, m), e)
        BY <1>0, <1>1, <3>1
      <3>2. CASE Attempt(i, m) = Attempt(j, n) /\ e = <<"task", "updated">>
        BY <1>0, <2>1, <2>4, <3>2
      <3> QED BY <2>2, <2>5, <3>1, <3>2
    <2> QED BY <1>1, <2>2, <2>3, <2>5
  <1>5. CASE \E p, E : Plugin(p) \in Listeners /\ Plugin(p)[1] = "plugin" /\ Joins(Plugin(p), E)
    <2>1. PICK p, E : Plugin(p) \in Listeners /\ Plugin(p)[1] = "plugin" /\ Joins(Plugin(p), E)
      BY <1>5
    <2>2. /\ Apart(listeners'[e])
          /\ \A x : Listens(x, e)' <=> Listens(x, e) \/ (x = Plugin(p) /\ e \in E)
      BY <2>1 DEF Joins
    <2>3. /\ \A s \in Sockets : Socket(s) # Plugin(p)
          /\ \A i \in Jobs : \A m \in 1..Budget[i] : Attempt(i, m) # Plugin(p)
      BY DEF Socket, Attempt, Plugin
    <2> QED BY <1>0, <1>1, <2>2, <2>3
  <1> QED BY <1>2, <1>3, <1>4, <1>5 DEF Moved

LEMMA ConnectPaired ==
  ASSUME Typed, Paired, NEW s \in Sockets, Connect(s) \/ Close(s)
  PROVE  Paired' /\ listeners' \in [Events -> Seq(Listeners)]
  <1> DEFINE l == Socket(s)
  <1>1. l \in Listeners /\ l[1] # "plugin"
    BY WhoListens
  <1>2. /\ \A s2 \in Sockets : Socket(s2) = l => s2 = s
        /\ \A i \in Jobs : \A m \in 1..Budget[i] : Attempt(i, m) # l
    BY DEF Socket, Attempt
  <1>3. record' = record
    BY DEF Connect, Close
  <1>4. CASE Connect(s)
    <2>1. link[s] = "new" /\ link' = [link EXCEPT ![s] = "open"] /\ listeners' = On(l, SocketEvents)
      BY <1>4 DEF Connect
    <2>2. \A e \in Events : ~Listens(l, e)
      BY <2>1 DEF Paired
    <2> HIDE DEF l
    <2>3. /\ listeners' \in [Events -> Seq(Listeners)]
          /\ \A e \in Events : /\ Apart(listeners'[e])
                               /\ \A x : Listens(x, e)' <=> Listens(x, e) \/ (x = l /\ e \in SocketEvents)
      BY <1>1, <2>1, <2>2, OnKeeps
    <2>4. \A s2 \in Sockets : link'[s2] = IF s2 = s THEN "open" ELSE link[s2]
      BY <2>1 DEF Typed
    <2>5. Paired'
      <3> SUFFICES ASSUME NEW e \in Events
                   PROVE  /\ Apart(listeners'[e])
                          /\ \A s2 \in Sockets :
                               Listens(Socket(s2), e)' <=> e \in SocketEvents /\ link'[s2] = "open"
                          /\ \A j \in Jobs : \A n \in 1..Budget[j] :
                               Listens(Attempt(j, n), e)' =>
                                 e = <<"task", "updated">> /\ Version(TaskRec(j, n))' > 0
        BY DEF Paired
      <3>1. /\ \A s2 \in Sockets : Listens(Socket(s2), e) <=> e \in SocketEvents /\ link[s2] = "open"
            /\ \A j \in Jobs : \A n \in 1..Budget[j] :
                 Listens(Attempt(j, n), e) => e = <<"task", "updated">> /\ Version(TaskRec(j, n)) > 0
        BY DEF Paired
      <3>2. \A j \in Jobs : \A n \in 1..Budget[j] : Version(TaskRec(j, n))' = Version(TaskRec(j, n))
        BY <1>3 DEF Version
      <3>3. ASSUME NEW s2 \in Sockets
            PROVE  Listens(Socket(s2), e)' <=> e \in SocketEvents /\ link'[s2] = "open"
        <4>1. CASE s2 = s
          BY <2>1, <2>2, <2>3, <2>4, <3>1, <4>1 DEF l
        <4>2. CASE s2 # s
          <5>1. Socket(s2) # l
            BY <1>2, <4>2
          <5> QED BY <2>3, <2>4, <3>1, <4>2, <5>1
        <4> QED BY <4>1, <4>2
      <3> QED BY <1>2, <2>3, <3>1, <3>2, <3>3
    <2> QED BY <2>3, <2>5
  <1>5. CASE Close(s)
    <2>1. link[s] = "open" /\ link' = [link EXCEPT ![s] = "closed"] /\ listeners' = Off(l, SocketEvents)
      BY <1>5 DEF Close
    <2>2. \A e \in Events : Listens(l, e) => e \in SocketEvents
      BY DEF Paired
    <2> HIDE DEF l
    <2>3. /\ listeners' \in [Events -> Seq(Listeners)]
          /\ \A e \in Events : /\ Apart(listeners'[e])
                               /\ \A x : Listens(x, e)' <=> Listens(x, e) /\ (x # l \/ e \notin SocketEvents)
      BY <1>1, <2>1, OffKeeps
    <2>4. \A s2 \in Sockets : link'[s2] = IF s2 = s THEN "closed" ELSE link[s2]
      BY <2>1 DEF Typed
    <2>5. Paired'
      <3> SUFFICES ASSUME NEW e \in Events
                   PROVE  /\ Apart(listeners'[e])
                          /\ \A s2 \in Sockets :
                               Listens(Socket(s2), e)' <=> e \in SocketEvents /\ link'[s2] = "open"
                          /\ \A j \in Jobs : \A n \in 1..Budget[j] :
                               Listens(Attempt(j, n), e)' =>
                                 e = <<"task", "updated">> /\ Version(TaskRec(j, n))' > 0
        BY DEF Paired
      <3>1. /\ \A s2 \in Sockets : Listens(Socket(s2), e) <=> e \in SocketEvents /\ link[s2] = "open"
            /\ \A j \in Jobs : \A n \in 1..Budget[j] :
                 Listens(Attempt(j, n), e) => e = <<"task", "updated">> /\ Version(TaskRec(j, n)) > 0
        BY DEF Paired
      <3>2. \A j \in Jobs : \A n \in 1..Budget[j] : Version(TaskRec(j, n))' = Version(TaskRec(j, n))
        BY <1>3 DEF Version
      <3>3. ASSUME NEW s2 \in Sockets
            PROVE  Listens(Socket(s2), e)' <=> e \in SocketEvents /\ link'[s2] = "open"
        <4>1. CASE s2 = s
          BY <2>1, <2>2, <2>3, <2>4, <3>1, <4>1 DEF l
        <4>2. CASE s2 # s
          <5>1. Socket(s2) # l
            BY <1>2, <4>2
          <5> QED BY <2>3, <2>4, <3>1, <4>2, <5>1
        <4> QED BY <4>1, <4>2
      <3> QED BY <1>2, <2>3, <3>1, <3>2, <3>3
    <2> QED BY <2>3, <2>5
  <1> QED BY <1>4, <1>5

LEMMA PairedKeeps ==
  ASSUME EventsAssumption, Typed, Stacked, AllFit, Paired, [Next]_vars
  PROVE  Paired' /\ listeners' \in [Events -> Seq(Listeners)]
  <1>0. Grows
    BY RecordsGrow
  <1>1. CASE UNCHANGED <<listeners, link>>
    BY <1>0, <1>1, PairedAfter DEF Typed, Moved
  <1>2. CASE RemoveListener
    <2>1. \E j \in Jobs : \E n \in 1..Budget[j] : Leaves(Attempt(j, n), {<<"task", "updated">>})
      BY <1>2, RemoveLeaves
    <2>2. UNCHANGED link
      BY <1>2 DEF RemoveListener, sockets
    <2> QED BY <1>0, <2>1, <2>2, PairedAfter DEF Leaves, Moved
  <1>3. CASE LookAtTask
    <2>1. PICK j, n, t : LookTurns(Head(todo), j, n, t)
      BY <1>3, LookTurn
    <2>2. UNCHANGED link
      BY <1>3 DEF LookAtTask, sockets
    <2>3. CASE ~UNCHANGED listeners
      <3>1. /\ j \in Jobs /\ n \in 1..Budget[j] /\ Joins(Attempt(j, n), {<<"task", "updated">>})
            /\ Version(TaskRec(j, n)) > 0
        BY <2>1, <2>3, LookJoins
      <3> QED BY <1>0, <2>2, <3>1, PairedAfter DEF Joins, Moved
    <2> QED BY <1>1, <2>2, <2>3
  <1>4. CASE Subscribe
    <2>1. PICK p, E : Plugin(p) \in Listeners /\ Plugin(p)[1] = "plugin" /\ Joins(Plugin(p), E)
      BY <1>4, SubscribeJoins
    <2>2. UNCHANGED link
      BY <1>4 DEF Subscribe, sockets
    <2> QED BY <1>0, <2>1, <2>2, PairedAfter DEF Joins, Moved
  <1>5. CASE \E s \in Sockets : Connect(s) \/ Close(s)
    BY <1>5, ConnectPaired
  <1> QED BY <1>1, <1>2, <1>3, <1>4, <1>5
          DEF Next, Proceed, EmitEvent, TellSocket, TellAttempt, TellPlugin, PluginThrows, UpdateRecord,
              Caught, BeginAttempt, DispatchTask, AwaitDispatch, ExecuteTask, HandlerStarts, RegisterAgent,
              RegisterThrows, NoteLoaded, LoadNext, Serve, Submit, JobGoesOn, PostTask, ReadStatus,
              WriteStatus, HandlerReturns, vars, sockets

-----------------------------------------------------------------------------
(* All that is left fits.                                                  *)

LEMMA FitsAfter ==
  ASSUME NEW e, NEW M, Turn(e, M), \A a \in M : Fits(a)', \A a \in Rest : Fits(a)'
  PROVE  AllFit'
  BY DEF Turn, AllFit, Left

LEMMA SteadyFits ==
  ASSUME NEW e, NEW M, Turn(e, M), Grows, \A a \in M : Fits(a)', \A a \in Rest : Steady(a)
  PROVE  AllFit'
  <1>1. \A a \in Rest : a \in Items /\ Fits(a)
    BY DEF Turn
  <1>2. \A a \in Rest : Fits(a)'
    BY <1>1, StillFits
  <1> QED BY <1>2, FitsAfter

LEMMA SameTurn ==
  ASSUME Typed, Same, NEW e, NEW M, Turn(e, M), e.do # "update", \A a \in M : Fits(a)'
  PROVE  AllFit'
  <1>1. /\ e = Head(todo) /\ e \in Items /\ Fits(e)
        /\ \A a \in Rest : a \in Items /\ Fits(a) /\ Above(e, a)
    BY DEF Turn
  <1>2. \A a \in Rest : Fits(a)'
    BY <1>1, SameDispatch
  <1> QED BY <1>2, FitsAfter

\* A job with a task has been submitted.
LEMMA Begun ==
  ASSUME EventsAssumption, Typed, Counted, NEW j \in Jobs, NEW n, TaskRec(j, n) \in Tasks,
         Version(TaskRec(j, n)) > 0
  PROVE  /\ Version(JobRec(j)) > 0 /\ n \in 1..Budget[j] /\ n <= JobOf(j).attempts /\ JobOf(j).attempts \in Nat
  <1> DEFINE t == TaskRec(j, n)
  <1>1. t[2] = j /\ t[3] = n /\ t \in Tasks /\ Version(t) > 0
    BY DEF TaskRec
  <1>2. n \in 1..Budget[j]
    <2>1. j \notin Requests
      BY DEF EventsAssumption
    <2> QED BY <1>1, <2>1, Names
  <1>3. n <= JobOf(j).attempts
    <2> HIDE DEF t
    <2>1. \A x \in Tasks : Version(x) > 0 /\ x[2] \in Jobs => x[3] <= JobOf(x[2]).attempts
      BY Zenon DEF Counted
    <2> QED BY <1>1, <2>1
  <1>4. JobOf(j) \in States /\ JobOf(j).attempts \in Nat /\ JobOf(j).version \in Nat
    BY Names DEF Typed, JobOf, States
  <1>5. Version(JobRec(j)) > 0
    <2>1. JobOf(j) # Absent
      <3>1. n \in Nat /\ n > 0
        BY <1>2
      <3>2. JobOf(j).attempts # 0
        BY <1>3, <1>4, <3>1
      <3> QED BY <3>2 DEF Absent
    <2>2. Version(JobRec(j)) # 0
      BY <2>1 DEF Counted
    <2> QED BY <1>4, <2>2 DEF Version, JobOf
  <1> QED BY <1>2, <1>3, <1>4, <1>5

\* What handleTerminal() does fits.
LEMMA EndingFits ==
  ASSUME EventsAssumption, Typed, Counted, NEW j \in Jobs, NEW n, NEW x, NEW task,
         TaskRec(j, n) \in Tasks, Version(TaskRec(j, n)) > 0, Ending(j, x, task), UNCHANGED record
  PROVE  Fits(x)'
  <1>1. Version(JobRec(j)) > 0 /\ JobRec(j)[1] = "job"
    BY Begun, Names
  <1>2. CASE x = RunAttempt(j)
    <2>1. x.do = "attempt" /\ x.job = j /\ JobOf(j).attempts < Budget[j]
      BY <1>2 DEF Ending, RunAttempt, Update
    <2> QED BY <1>1, <2>1 DEF Fits, Tells, Version, JobOf
  <1>3. ASSUME NEW s \in {"completed", "failed"}, x = Update(JobRec(j), [status |-> s])
        PROVE  Fits(x)'
    <2>1. x.do = "update" /\ x.about = JobRec(j) /\ x.patch = [status |-> s]
      BY <1>3 DEF Update
    <2>2. ~Numbered(x)
      <3>1. DOMAIN x.patch = {"status"}
        BY <2>1
      <3>2. \A p \in [status : Statuses, attempts : Nat] : DOMAIN p = {"status", "attempts"}
        OBVIOUS
      <3>3. "attempts" \notin {"status"}
        OBVIOUS
      <3> QED BY <3>1, <3>2, <3>3 DEF Numbered
    <2> QED BY <1>1, <2>1, <2>2 DEF Fits, Tells, Version, Numbered
  <1> QED BY <1>2, <1>3 DEF Ending

LEMMA EmitFits ==
  ASSUME Typed, Stacked, AllFit, Paired, EmitEvent
  PROVE  AllFit'
  <1>1. PICK e : /\ e = Head(todo) /\ Turn(e, Called(e)) /\ e \in Emits
                 /\ \A k \in DOMAIN listeners[e.event] : listeners[e.event][k] \in Listeners
    BY EmitTurn
  <1>2. Same
    BY DEF EmitEvent, Same
  <1>3. Fits(e) /\ e.do = "emit" /\ e.event \in Events
    BY <1>1 DEF Turn, Emits
  <1>4. /\ e.event[1] = e.about[1]
        /\ e.about \in Records => e.snapshot = record[e.about] /\ Version(e.about) > 0
    BY <1>3, Fitting DEF Tells
  <1>5. ASSUME NEW c \in Called(e)
        PROVE  Fits(c)'
    <2>0. PICK k \in DOMAIN listeners[e.event] : c = Call(listeners[e.event][k], e)
      BY DEF Called
    <2>1. PICK l : l = listeners[e.event][k] /\ l \in Listeners /\ Listens(l, e.event)
      BY <1>1 DEF Listens, Among
    <2>2. l[1] = "socket" => e.event \in SocketEvents
      BY <1>3, <2>1, Callers DEF Paired
    <2>3. l[1] = "attempt" => e.event = <<"task", "updated">>
      BY <1>3, <2>1, Callers DEF Paired
    <2>4. /\ c.do = "call" /\ c.listener = l /\ c.event = e.event /\ c.about = e.about /\
                c.snapshot = e.snapshot
      BY <2>0, <2>1 DEF Call
    <2> QED BY <1>2, <1>4, <2>2, <2>3, <2>4 DEF Fits, Tells, Same, Version
  <1> QED BY <1>1, <1>2, <1>3, <1>5, SameTurn

LEMMA AttemptFits ==
  ASSUME EventsAssumption, Typed, Stacked, AllFit, Counted, TellAttempt
  PROVE  AllFit'
  <1>1. PICK e, j, l : AttemptTurns(e, j, l)
    BY AttemptTurn
  <1>2. Same
    BY DEF TellAttempt, Same
  <1>3. e \in CallItems /\ j \in Jobs /\ l = e.listener /\ l = Attempt(j, l[3]) /\ e.do = "call"
    BY <1>1 DEF AttemptTurns, CallItems
  <1>4. CASE Turn(e, {})
    BY <1>2, <1>3, <1>4, SameTurn
  <1>5. CASE /\ e.about = TaskRec(j, l[3])
             /\ \E x : Ending(j, x, e.snapshot) /\ Turn(e, {x, Unsubscribe(l)})
    <2>1. PICK x : Ending(j, x, e.snapshot) /\ Turn(e, {x, Unsubscribe(l)})
      BY <1>5
    <2>2. Fits(e)
      BY <2>1 DEF Turn
    <2>3. l[1] = "attempt" /\ l[3] \in 1..Budget[j]
      BY <1>1, <1>3 DEF Attempt, AttemptTurns
    <2>4. TaskRec(j, l[3]) \in Tasks /\ TaskRec(j, l[3]) \in Records
      BY <1>3, <2>3, Names
    <2>5. Version(TaskRec(j, l[3])) > 0
      BY <1>3, <1>5, <2>2, <2>4, Fitting DEF Tells
    <2>6. Fits(x)'
      BY <1>2, <1>3, <2>1, <2>4, <2>5, EndingFits DEF Same
    <2>7. Fits(Unsubscribe(l))'
      BY <2>3 DEF Fits, Tells, Unsubscribe
    <2>8. \A a \in {x, Unsubscribe(l)} : Fits(a)'
      BY <2>6, <2>7
    <2> QED BY <1>2, <1>3, <2>1, <2>8, SameTurn
  <1> QED BY <1>1, <1>4, <1>5 DEF AttemptTurns

LEMMA PopFits ==
  ASSUME Typed, Stacked, AllFit, Same, todo # <<>>, Then(<<>>), Head(todo).do # "update"
  PROVE  AllFit'
  <1>1. PICK e : e = Head(todo) /\ Turn(e, {})
    BY PopTurn
  <1> HIDE DEF Then
  <1> QED BY <1>1, SameTurn

LEMMA NobodyFits == Fits(Nobody)'
  BY DEF Fits, Nobody, Catch, Tells

\* An update that only sets the status.
LEMMA SettingFits ==
  ASSUME NEW r \in Records, r[1] \in {"job", "task"}, Version(r)' > 0, NEW x,
         x = Update(r, <<>>) \/ \E s : x = Update(r, [status |-> s])
  PROVE  Fits(x)'
  <1>1. x.do = "update" /\ x.about = r
    BY DEF Update
  <1>2. ~Numbered(x)
    <2>1. DOMAIN x.patch = {"status"} \/ x.patch = <<>>
      BY DEF Update
    <2>2. \A p \in [status : Statuses, attempts : Nat] : DOMAIN p = {"status", "attempts"}
      OBVIOUS
    <2>3. "attempts" \notin {"status"} /\ {"status", "attempts"} # {}
      OBVIOUS
    <2>4. DOMAIN <<>> = {}
      BY EmptySeq, LenProperties
    <2> QED BY <2>1, <2>2, <2>3, <2>4 DEF Numbered
  <1> QED BY <1>1, <1>2 DEF Fits, Tells, Version, Numbered

LEMMA BeginFits ==
  ASSUME EventsAssumption, Typed, Stacked, AllFit, Counted, BeginAttempt
  PROVE  AllFit'
  <1>1. PICK e, j, n : BeginTurns(e, j, n) /\ e = Head(todo)
    BY BeginTurn
  <1>2. Same
    BY DEF BeginAttempt, Same
  <1> DEFINE U == Update(JobRec(j), [status |-> "running", attempts |-> n])
             D == Dispatch(j, n)
  <1>3. /\ e \in Attempts /\ j = e.job /\ j \in Jobs /\ n = JobOf(j).attempts + 1 /\ n \in 1..Budget[j]
        /\ n \in Nat /\ JobOf(j).attempts \in Nat
        /\ Turn(e, {U, D, Nobody}) /\ Head(todo') = U /\ e.do = "attempt"
    BY <1>1 DEF BeginTurns, Attempts
  <1>4. Version(JobRec(j)) > 0 /\ JobRec(j)[1] = "job" /\ JobRec(j)[2] = j
    BY <1>3, Fitting, Names DEF Turn
  <1>5. Fits(U)'
    <2>1. PICK x : x = U
      OBVIOUS
    <2>2. x.do = "update" /\ x.about = JobRec(j) /\ x.patch.attempts = n
      BY <2>1 DEF Update
    <2>3. JobOf(j).attempts <= n /\ n <= Budget[j]
      BY <1>3
    <2>4. Fits(x)'
      BY <1>2, <1>4, <2>2, <2>3 DEF Fits, Tells, Same, Version, JobOf, Numbered
    <2> QED BY <2>1, <2>4
  <1>6. Fits(D)'
    <2>1. PICK x : x = D
      OBVIOUS
    <2>2. x.do = "dispatch" /\ x.about = TaskRec(j, n) /\ x.about[2] = j /\ x.about[3] = n
      BY <2>1 DEF Dispatch, TaskRec
    <2>3. TaskRec(j, n) \in Tasks /\ TaskRec(j, n) \in Records
      BY <1>3, Names
    <2>4. record[TaskRec(j, n)] = Absent
      <3>1. ~(n <= JobOf(j).attempts)
        BY <1>3
      <3>2. ~(Version(TaskRec(j, n)) > 0)
        BY <1>3, <2>3, <3>1, Begun
      <3>3. Version(TaskRec(j, n)) \in Nat
        BY <2>3 DEF Typed, Version, States
      <3>4. Version(TaskRec(j, n)) = 0
        BY <3>2, <3>3
      <3> QED BY <2>3, <3>4 DEF Counted
    <2>5. Fits(x)'
      BY <1>2, <1>3, <2>2, <2>4 DEF Fits, Tells, Same
    <2> QED BY <2>1, <2>5
  <1>7. \A a \in {U, D, Nobody} : Fits(a)'
    BY <1>5, <1>6, NobodyFits
  <1> HIDE DEF U, D
  <1> QED BY <1>2, <1>3, <1>7, SameTurn

LEMMA DispatchFits ==
  ASSUME Typed, Stacked, AllFit, DispatchTask, Counted, Paired
  PROVE  AllFit'
  <1>1. PICK e, t : DispatchTurns(e, t) /\ e = Head(todo)
    BY DispatchTurn
  <1> DEFINE A == Emit("created", t, New)
             B == Emit("updated", t, New)
             M == {A, B, Execute(t), Await(t)}
  <1>2. Writes(t, New)
    BY <1>1, DispatchWrites
  <1>3. Grows /\ record'[t] = New /\ \A x \in Records : x # t => record'[x] = record[x]
    BY <1>2, WritesGrow
  <1>4. UNCHANGED <<listeners, awaiting>>
    BY DEF DispatchTask
  <1>5. /\ e.do = "dispatch" /\ e.about = t /\ t \in Tasks /\ t \in Records /\ record[t] = Absent
        /\ Turn(e, M) /\ t[1] = "task" /\ t = TaskRec(t[2], t[3])
    BY <1>1, Names DEF DispatchTurns
  <1>6. Version(t)' > 0 /\ Version(t) = 0
    BY <1>3, <1>5 DEF Version, New, Absent
  <1>7. Fits(A)' /\ Fits(B)' /\ Fits(Execute(t))'
    <2>1. PICK x, y, z : x = A /\ y = B /\ z = Execute(t)
      OBVIOUS
    <2>2. /\ x.do = "emit" /\ x.about = t /\ x.event[1] = t[1] /\ x.snapshot = New
          /\ y.do = "emit" /\ y.about = t /\ y.event[1] = t[1] /\ y.snapshot = New
          /\ z.do = "execute" /\ z.about = t
      BY <2>1 DEF Emit, Execute
    <2>3. Fits(x)' /\ Fits(y)' /\ Fits(z)'
      BY <1>3, <1>6, <2>2 DEF Fits, Tells
    <2> QED BY <2>1, <2>3
  <1>8. Fits(Await(t))'
    <2>1. \A w \in awaiting : w.task # t
      BY <1>6 DEF Counted
    <2>2. ~Hears(t[2], t[3])
      <3> SUFFICES ASSUME Hears(t[2], t[3]) PROVE FALSE
        OBVIOUS
      <3>1. <<"task", "updated">> \in Events
        BY DEF Events, SocketEvents
      <3>2. CASE t[2] \in Jobs /\ t[3] \in 1..Budget[t[2]]
        <4>1. Version(TaskRec(t[2], t[3])) > 0
          BY <3>1, <3>2 DEF Hears, Paired
        <4> QED BY <1>5, <1>6, <4>1
      <3>3. CASE ~(t[2] \in Jobs /\ t[3] \in 1..Budget[t[2]])
        <4> DEFINE l == Attempt(t[2], t[3])
        <4>1. PICK i \in DOMAIN listeners[<<"task", "updated">>] : listeners[<<"task", "updated">>][i] = l
          BY DEF Hears, Listens, Among
        <4>2. l \in Listeners
          BY <3>1, <4>1, ElementOfSeq, LenProperties DEF Typed
        <4>3. l[1] = "attempt" /\ l[2] = t[2] /\ l[3] = t[3]
          BY DEF Attempt
        <4> HIDE DEF l
        <4> QED BY <3>3, <4>2, <4>3, Callers
      <3> QED BY <3>2, <3>3
    <2>3. PICK x : x = Await(t)
      OBVIOUS
    <2>4. x.do = "await" /\ x.about = t
      BY <2>3 DEF Await
    <2>5. Fits(x)'
      BY <1>4, <1>6, <2>1, <2>2, <2>4 DEF Fits, Tells, Hears, Listens
    <2> QED BY <2>3, <2>5
  <1>9. \A a \in M : Fits(a)'
    BY <1>7, <1>8
  <1>10. ASSUME NEW a \in Rest
         PROVE  Steady(a)
    <2>1. a \in Items /\ Fits(a) /\ Above(e, a)
      BY <1>5 DEF Turn
    <2>2. ~Tells(e)
      BY <1>5 DEF Tells
    <2>3. Tells(a) => a.about # t
      BY <1>5, <2>1, <2>2 DEF Above, TellsOf
    <2>4. a.do \notin {"update", "attempt", "dispatch", "await", "look"}
      BY <1>5, <2>1, <2>2 DEF Above, TellsOf, Update, Nobody, Catch
    <2> QED BY <1>3, <2>3, <2>4 DEF Steady
  <1> HIDE DEF M
  <1> QED BY <1>3, <1>5, <1>9, <1>10, SteadyFits

LEMMA ExecuteFits ==
  ASSUME Typed, Stacked, AllFit, ExecuteTask
  PROVE  AllFit'
  <1>1. PICK e, t, x : ExecuteTurns(e, t, x)
    BY ExecuteTurn
  <1>2. Same
    BY DEF ExecuteTask, Same
  <1> DEFINE U == Update(t, [status |-> "running"])
  <1>3. /\ e.do = "execute" /\ t \in Tasks /\ t \in Records /\ Version(t) > 0 /\ t[1] = "task"
        /\ x \in {StartHandler(t), Update(t, [status |-> "failed"])} /\ Turn(e, {U, x, Nobody})
    BY <1>1, Names DEF ExecuteTurns
  <1>4. Version(t)' > 0
    BY <1>2, <1>3 DEF Same, Version
  <1>5. Fits(U)'
    <2>1. PICK y : y = U
      OBVIOUS
    <2>2. Fits(y)'
      BY <1>3, <1>4, <2>1, SettingFits
    <2> QED BY <2>1, <2>2
  <1>6. Fits(x)'
    <2>1. CASE x = Update(t, [status |-> "failed"])
      BY <1>3, <1>4, <2>1, SettingFits
    <2>2. CASE x = StartHandler(t)
      <3>1. x.do = "start" /\ x.about = t
        BY <2>2 DEF StartHandler
      <3> QED BY <1>4, <3>1 DEF Fits, Tells
    <2> QED BY <1>3, <2>1, <2>2
  <1>7. \A a \in {U, x, Nobody} : Fits(a)'
    BY <1>5, <1>6, NobodyFits
  <1> HIDE DEF U
  <1> QED BY <1>2, <1>3, <1>7, SameTurn

LEMMA LoadedFits ==
  ASSUME Typed, Stacked, AllFit, NoteLoaded
  PROVE  AllFit'
  <1>1. PICK e, q : LoadedTurns(e, q)
    BY LoadedTurn
  <1>2. Same
    BY DEF NoteLoaded, Same
  <1>3. PICK x : x = Emit("loaded", q, Absent)
    OBVIOUS
  <1>4. e.do = "loaded" /\ q \in Plugs /\ q[1] = "plugin" /\ Turn(e, {x})
    BY <1>1, <1>3 DEF LoadedTurns
  <1>5. q \notin Records
    BY <1>4, Names
  <1>6. x.do = "emit" /\ x.about = q /\ x.event[1] = q[1]
    BY <1>3 DEF Emit
  <1>7. Fits(x)'
    BY <1>5, <1>6 DEF Fits, Tells
  <1>8. \A a \in {x} : Fits(a)'
    BY <1>7
  <1> QED BY <1>2, <1>4, <1>8, SameTurn

LEMMA UnwindFits ==
  ASSUME Typed, Stacked, Bottom, AllFit, todo # <<>>, Unwind, Same
  PROVE  AllFit'
  <1>1. CASE todo' = <<>>
    <2>1. DOMAIN todo' = {}
      BY <1>1, EmptySeq, LenProperties
    <2> QED BY <2>1 DEF AllFit
  <1>2. CASE \E c, M, B : ThrowTurns(c, M, B)
    <2>1. PICK c, M, B : ThrowTurns(c, M, B)
      BY <1>2
    <2>2. /\ c \in Items /\ c.do = "catch" /\ Fits(c) /\ Left' = M \cup B
          /\ \A a \in B : a \in Items /\ Fits(a) /\ Above(c, a)
          /\ \/ c.where = "request" /\ M = {}
             \/ c.where = "execute" /\ c.about \in Tasks /\ M = {Update(c.about, [status |-> "failed"])}
             \/ c.where = "loader" /\ c.about \in Plugs /\ M = {Emit("failed", c.about, Absent)}
      BY <2>1 DEF ThrowTurns
    <2>3. \A a \in B : Fits(a)'
      BY <2>2, SameDispatch
    <2>4. CASE c.where = "execute"
      <3>1. PICK x, t : x = Update(t, [status |-> "failed"]) /\ t = c.about
        OBVIOUS
      <3>2. M = {x} /\ t \in Tasks /\ t \in Records /\ t[1] = "task" /\ Version(t) > 0
        BY <2>2, <2>4, <3>1, Names, Fitting
      <3>3. Version(t)' > 0
        BY <3>2 DEF Version, Same
      <3>4. Fits(x)'
        BY <3>1, <3>2, <3>3, SettingFits
      <3> QED BY <2>2, <2>3, <3>2, <3>4 DEF AllFit, Left
    <2>5. CASE c.where = "loader"
      <3>1. PICK x, q : x = Emit("failed", q, Absent) /\ q = c.about
        OBVIOUS
      <3>2. M = {x} /\ q \in Plugs /\ q \notin Records
        BY <2>2, <2>5, <3>1, Names
      <3>3. x.do = "emit" /\ x.about = q /\ x.event[1] = q[1]
        BY <3>1 DEF Emit
      <3>4. Fits(x)'
        BY <3>2, <3>3 DEF Fits, Tells
      <3> QED BY <2>2, <2>3, <3>2, <3>4 DEF AllFit, Left
    <2>6. CASE M = {}
      BY <2>2, <2>3, <2>6 DEF AllFit, Left
    <2> QED BY <2>2, <2>4, <2>5, <2>6
  <1> QED BY <1>1, <1>2, ThrowTurn

LEMMA UpdateFits ==
  ASSUME Typed, Stacked, AllFit, UpdateRecord
  PROVE  AllFit'
  <1>1. PICK e, r, u : UpdateTurns(e, r, u) /\ e = Head(todo)
    BY UpdateTurn
  <1>2. Grows /\ record'[r] = u /\ \A x \in Records : x # r => record'[x] = record[x]
    BY <1>1, UpdateWrites, WritesGrow
  <1>3. /\ e.do = "update" /\ e.about = r /\ r \in Records /\ r[1] \in {"job", "task"}
        /\ e = Update(r, e.patch) /\ u = Merged(record[r], e.patch)
        /\ u.version = record[r].version + 1 /\ record[r].version \in Nat
    BY <1>1, UpdateWrites DEF UpdateTurns, Updates
  <1>4. Version(r)' > 0
    BY <1>2, <1>3 DEF Version
  <1>5. PICK A, B : A = Emit("updated", r, u) /\ B = Emit(u.status, r, u)
    OBVIOUS
  <1>6. /\ A.do = "emit" /\ A.about = r /\ A.event[1] = r[1] /\ A.snapshot = u
        /\ B.do = "emit" /\ B.about = r /\ B.event[1] = r[1] /\ B.snapshot = u
    BY <1>5 DEF Emit
  <1>7. Fits(A)' /\ Fits(B)'
    BY <1>2, <1>3, <1>4, <1>6 DEF Fits, Tells
  <1>8. PICK M : M \subseteq {A, B} /\ Turn(e, M)
    BY <1>1, <1>5 DEF UpdateTurns
  <1>9. UNCHANGED <<listeners, awaiting>>
    BY DEF UpdateRecord
  <1>10. ASSUME NEW a \in Rest
         PROVE  Steady(a)
    <2>1. a \in Items /\ Fits(a) /\ Above(e, a)
      BY <1>8 DEF Turn
    <2>2. ~Tells(e)
      BY <1>3 DEF Tells
    <2>3. Tells(a) => a.about # r
      BY <1>3, <2>1, <2>2 DEF Above, TellsOf
    <2>4. a.do # "attempt"
      BY <2>1, <2>2 DEF Above, TellsOf
    <2>5. a.do = "update" => ~Numbered(a)
      <3>1. a.do = "update" => a.about[1] = "task"
        BY <2>1 DEF Above
      <3> QED BY <2>1, <3>1, Fitting
    <2>6. a.do = "await" => (\A w \in awaiting' : w.task # a.about) /\ ~Hears(a.about[2], a.about[3])'
      BY <1>9, <2>1, Fitting DEF Hears, Listens
    <2>7. a.do = "look" => /\ \A w \in awaiting' : w.task # TaskRec(a.job, a.attempt)
                           /\ ~Hears(a.job, a.attempt)'
      BY <1>9, <2>1 DEF Fits, Tells, Hears, Listens
    <2>8. a.do = "dispatch" => Fits(a)'
      <3> SUFFICES ASSUME a.do = "dispatch" PROVE Fits(a)'
        OBVIOUS
      <3>1. /\ a.about \in Tasks /\ a.about \in Records /\ a.about[1] = "task"
            /\ record[a.about] = Absent
        BY <2>1, Fitting, ItemKinds, Names DEF TaskItems
      <3>2. /\ a.about[2] \in Jobs
            /\ e = Update(JobRec(a.about[2]), [status |-> "running", attempts |-> a.about[3]])
        BY <2>1, <2>2 DEF Above, TellsOf
      <3>3. r = JobRec(a.about[2]) /\ r[1] = "job" /\ e.patch = [status |-> "running", attempts |-> a.about[3]]
        BY <1>3, <3>2, Names DEF Update
      <3>4. u.attempts = a.about[3]
        BY <1>3, <3>3 DEF Merged
      <3>5. record'[a.about] = Absent
        BY <1>2, <3>1, <3>3
      <3>6. JobOf(a.about[2])'.attempts = a.about[3]
        BY <1>2, <3>3, <3>4 DEF JobOf
      <3> QED BY <3>5, <3>6 DEF Fits, Tells
    <2> QED BY <1>2, <2>3, <2>4, <2>5, <2>6, <2>7, <2>8 DEF Steady
  <1>11. \A a \in M : Fits(a)'
    BY <1>7, <1>8
  <1> QED BY <1>2, <1>8, <1>10, <1>11, SteadyFits

\* Where only listeners come and go, or dispatches are awaited.
LEMMA PopSteady ==
  ASSUME Typed, Stacked, AllFit, todo # <<>>, Then(<<>>), UNCHANGED record,
         Head(todo).do \in {"off", "await", "look", "register"},
         \A a \in Rest : /\ a.do = "await" => (\A w \in awaiting' : w.task # a.about) /\
                               ~Hears(a.about[2], a.about[3])'
                         /\ a.do = "look" => /\ \A w \in awaiting' : w.task # TaskRec(a.job, a.attempt)
                                             /\ ~Hears(a.job, a.attempt)'
  PROVE  AllFit'
  <1>1. PICK e : e = Head(todo) /\ Turn(e, {})
    BY PopTurn
  <1>2. Grows
    BY DEF Typed, Grows, Version, States
  <1>3. ASSUME NEW a \in Rest
        PROVE  Steady(a)
    <2>1. Above(e, a)
      BY <1>1, <1>3 DEF Turn
    <2>2. a.do # "dispatch"
      BY <1>1, <2>1 DEF Above, TellsOf, Tells, Update
    <2> QED BY <2>2 DEF Steady
  <1> HIDE DEF Then
  <1> QED BY <1>1, <1>2, <1>3, SteadyFits

LEMMA PopsFit ==
  ASSUME EventsAssumption, Typed, Stacked, AllFit, Paired,
         RemoveListener \/ Subscribe \/ AwaitDispatch \/ (LookAtTask /\ ~UNCHANGED listeners)
  PROVE  AllFit'
  <1>0. todo # <<>> /\ UNCHANGED record
    BY DEF RemoveListener, Subscribe, AwaitDispatch, LookAtTask, AtTop
  <1>1. PICK e : e = Head(todo) /\ Turn(e, {}) /\ Then(<<>>)
    <2>1. CASE RemoveListener \/ Subscribe \/ AwaitDispatch
      BY <1>0, <2>1, PopTurn DEF RemoveListener, Subscribe, AwaitDispatch
    <2>2. CASE LookAtTask /\ ~UNCHANGED listeners
      <3>1. Then(<<>>)
        BY <2>2 DEF LookAtTask
      <3> QED BY <1>0, <3>1, PopTurn
    <2> QED BY <2>1, <2>2
  <1>2. e.do \in {"off", "await", "look", "register"}
    BY <1>1 DEF RemoveListener, Subscribe, AwaitDispatch, LookAtTask, AtTop
  <1>3. ASSUME NEW a \in Rest
        PROVE  a \in Items /\ Fits(a) /\ Above(e, a)
    BY <1>1, <1>3 DEF Turn
  <1>4. <<"task", "updated">> \in Events
    BY DEF Events, SocketEvents
  <1>5. CASE RemoveListener \/ Subscribe
    <2>1. \A x : x[1] # "plugin" /\ Listens(x, <<"task", "updated">>)' => Listens(x, <<"task", "updated">>)
      <3>1. CASE RemoveListener
        BY <1>4, <3>1, RemoveLeaves DEF Leaves
      <3>2. CASE Subscribe
        BY <1>4, <3>2, SubscribeJoins DEF Joins
      <3> QED BY <1>5, <3>1, <3>2
    <2>2. \A j, n : Attempt(j, n)[1] # "plugin"
      BY DEF Attempt
    <2>3. \A j, n : Hears(j, n)' => Hears(j, n)
      BY <2>1, <2>2 DEF Hears
    <2>4. UNCHANGED awaiting
      BY <1>5 DEF RemoveListener, Subscribe
    <2>5. \A a \in Rest :
            /\ a.do = "await" => (\A w \in awaiting : w.task # a.about) /\ ~Hears(a.about[2], a.about[3])
            /\ a.do = "look" => /\ \A w \in awaiting : w.task # TaskRec(a.job, a.attempt)
                                /\ ~Hears(a.job, a.attempt)
      BY <1>3, Fitting DEF Fits, Tells
    <2>6. \A a \in Rest :
            /\ a.do = "await" => (\A w \in awaiting' : w.task # a.about) /\ ~Hears(a.about[2], a.about[3])'
            /\ a.do = "look" => /\ \A w \in awaiting' : w.task # TaskRec(a.job, a.attempt)
                                /\ ~Hears(a.job, a.attempt)'
      BY <2>3, <2>4, <2>5
    <2> HIDE DEF Then
    <2> QED BY <1>0, <1>1, <1>2, <2>6, PopSteady
  <1>6. CASE e.do \in {"await", "look"}
    <2>1. \A a \in Rest : a.do # "await" /\ a.do # "look"
      BY <1>3, <1>6 DEF Above, TellsOf, Tells, Update, Nobody, Catch
    <2> HIDE DEF Then
    <2> QED BY <1>0, <1>1, <1>2, <2>1, PopSteady
  <1>7. AwaitDispatch \/ LookAtTask => e.do \in {"await", "look"}
    BY <1>1 DEF AwaitDispatch, LookAtTask, AtTop
  <1> QED BY <1>5, <1>6, <1>7

LEMMA LookFits ==
  ASSUME EventsAssumption, Typed, Stacked, AllFit, Counted, Paired, LookAtTask
  PROVE  AllFit'
  <1>1. CASE ~UNCHANGED listeners
    BY <1>1, PopsFit
  <1>2. CASE UNCHANGED listeners
    <2>1. PICK e, j, n, t : LookTurns(e, j, n, t)
      BY LookTurn
    <2>2. /\ e.do = "look" /\ j \in Jobs /\ t = TaskRec(j, n) /\ t \in Tasks /\ Version(t) > 0
          /\ Turn(e, {}) \/ \E x : Ending(j, x, record[t]) /\ Turn(e, {x})
      BY <2>1 DEF LookTurns
    <2>3. Same
      BY <1>2 DEF LookAtTask, Same
    <2>4. CASE Turn(e, {})
      BY <2>2, <2>3, <2>4, SameTurn
    <2>5. CASE \E x : Ending(j, x, record[t]) /\ Turn(e, {x})
      <3>1. PICK x : Ending(j, x, record[t]) /\ Turn(e, {x})
        BY <2>5
      <3>2. PICK task : task = record[t]
        OBVIOUS
      <3>3. Fits(x)'
        BY <2>2, <2>3, <3>1, <3>2, EndingFits DEF Same
      <3>4. \A a \in {x} : Fits(a)'
        BY <3>3
      <3> QED BY <2>2, <2>3, <3>1, <3>4, SameTurn
    <2> QED BY <2>2, <2>4, <2>5
  <1> QED BY <1>1, <1>2

LEMMA SubmitFits ==
  ASSUME Typed, NEW j \in Jobs, Submit(j), EventsAssumption
  PROVE  AllFit'
  <1>1. PICK r : r = JobRec(j)
    OBVIOUS
  <1>2. r \in Records /\ record'[r] = New /\ Writes(r, New)
    <2>1. Writes(r, New)
      BY <1>1, SubmitWrites
    <2>2. PICK u : u = New
      OBVIOUS
    <2>3. r \in Records /\ record'[r] = u
      BY <2>1, <2>2, WritesGrow DEF Writes
    <2> QED BY <2>1, <2>2, <2>3
  <1>3. PICK A, B, C, D : /\ A = Emit("created", r, New) /\ B = Emit("updated", r, New)
                          /\ C = RunAttempt(j) /\ D = Catch("request", r)
    OBVIOUS
  <1>4. Left' = {A, B, C, D}
    BY <1>1, <1>3, LeftIs DEF Submit
  <1>5. /\ A.do = "emit" /\ A.about = r /\ A.event[1] = r[1] /\ A.snapshot = New
        /\ B.do = "emit" /\ B.about = r /\ B.event[1] = r[1] /\ B.snapshot = New
        /\ C.do = "attempt" /\ C.job = j /\ D.do = "catch" /\ D.where = "request" /\ D.about = r
    BY <1>3 DEF Emit, RunAttempt, Catch
  <1>6. Budget[j] \in Nat /\ Budget[j] > 0
    BY DEF EventsAssumption
  <1>7. Fits(A)' /\ Fits(B)'
    BY <1>2, <1>5 DEF Fits, Tells, Version, New
  <1>8. Fits(C)'
    BY <1>1, <1>2, <1>5, <1>6 DEF Fits, Tells, Version, New, JobOf
  <1>9. Fits(D)'
    <2>1. r # <<>>
      BY <1>1 DEF JobRec
    <2> QED BY <1>5, <2>1 DEF Fits, Tells
  <1> QED BY <1>4, <1>7, <1>8, <1>9 DEF AllFit, Left

LEMMA PostFits ==
  ASSUME NEW c \in Requests, PostTask(c), EventsAssumption
  PROVE  AllFit'
  <1>1. PICK t : t = TaskRec(c, 1)
    OBVIOUS
  <1>2. PICK A, B : A = Dispatch(c, 1) /\ B = Catch("request", t)
    OBVIOUS
  <1>3. Left' = {A, B} /\ record[t] = Absent /\ UNCHANGED record
    BY <1>1, <1>2, LeftIs DEF PostTask
  <1>4. A.do = "dispatch" /\ A.about = t /\ t[2] = c /\ B.do = "catch" /\ B.where = "request" /\ B.about = t
    BY <1>1, <1>2 DEF Dispatch, Catch, TaskRec
  <1>5. c \notin Jobs
    BY DEF EventsAssumption
  <1>6. t # <<>>
    BY <1>1 DEF TaskRec
  <1>7. Fits(A)' /\ Fits(B)'
    BY <1>3, <1>4, <1>5, <1>6 DEF Fits, Tells
  <1> QED BY <1>3, <1>7 DEF AllFit, Left

LEMMA StatusFits ==
  ASSUME EventsAssumption, Typed, Counted, NEW c \in Requests, WriteStatus(c)
  PROVE  AllFit'
  <1>1. PICK r, a : StatusTurns(c, r, a)
    BY StatusTurn
  <1>2. CASE todo' = <<>>
    <2>1. Left' = {}
      BY <1>2, LeftIs
    <2> QED BY <2>1 DEF AllFit, Left
  <1>3. CASE todo' # <<>>
    <2>1. PICK u : /\ Writes(r, u)
                   /\ u.version = record[r].version + (IF record[r].status = "analyzing" THEN 0 ELSE 1)
                   /\ a.after # "analyzing"
                   /\ todo' = <<Emit("status_changed", r, u), Catch("request", r)>>
      BY <1>1, <1>3 DEF StatusTurns
    <2>2. PICK A, B : A = Emit("status_changed", r, u) /\ B = Catch("request", r)
      OBVIOUS
    <2>3. Left' = {A, B}
      BY <2>1, <2>2, LeftIs
    <2>4. r \in Records /\ r = WorkspaceRec(Home[c]) /\ record'[r] = u
      BY <1>1, <2>1, WritesGrow DEF StatusTurns
    <2>5. /\ A.do = "emit" /\ A.about = r /\ A.event[1] = r[1] /\ A.snapshot = u
          /\ B.do = "catch" /\ B.where = "request" /\ B.about = r
      BY <2>2 DEF Emit, Catch
    <2>6. r # <<>>
      BY <2>4 DEF WorkspaceRec
    <2>7. Version(r)' > 0
      <3>1. record[r] \in States /\ record[r].version \in Nat
        BY <2>4 DEF Typed, States
      <3>2. record[r].status = "analyzing" => record[r].version > 0
        <4>1. Home[c] \in Workspaces
          BY DEF EventsAssumption
        <4> QED BY <2>4, <4>1 DEF Counted
      <3>3. u.version > 0
        BY <2>1, <3>1, <3>2
      <3> QED BY <2>4, <3>3 DEF Version
    <2>8. Fits(A)' /\ Fits(B)'
      BY <2>4, <2>5, <2>6, <2>7 DEF Fits, Tells
    <2> QED BY <2>3, <2>8 DEF AllFit, Left
  <1> QED BY <1>2, <1>3

LEMMA GoesOnFits ==
  ASSUME EventsAssumption, Typed, Counted, NEW j \in Jobs, NEW n \in 1..Budget[j], JobGoesOn(j, n)
  PROVE  AllFit'
  <1>1. PICK A, B, t : A = Update(JobRec(j), <<>>) /\ B = LookAt(j, n) /\ t = TaskRec(j, n)
    OBVIOUS
  <1>2. PICK a : /\ a = [after |-> "dispatch", task |-> t] /\ a \in awaiting
                 /\ awaiting' = awaiting \ {a} /\ UNCHANGED <<record, listeners>>
    BY <1>1 DEF JobGoesOn
  <1>3. Left' = {A, B, Nobody}
    BY <1>1, LeftIs DEF JobGoesOn
  <1>4. t \in Tasks /\ t \in Records /\ t[2] = j /\ t[3] = n
    BY <1>1, Names DEF TaskRec
  <1>5. Version(t) > 0 /\ ~Hears(j, n)
    <2>1. a.task = t /\ a.after = "dispatch"
      BY <1>2
    <2> QED BY <1>2, <1>4, <2>1 DEF Counted
  <1>6. Version(JobRec(j)) > 0 /\ JobRec(j) \in Records /\ JobRec(j)[1] = "job"
    BY <1>1, <1>4, <1>5, Begun, Names
  <1>7. Fits(A)'
    <2>1. Version(JobRec(j))' > 0
      BY <1>2, <1>6 DEF Version
    <2> QED BY <1>1, <1>6, <2>1, SettingFits
  <1>8. \A w \in awaiting' : w.task # t
    <2> SUFFICES ASSUME NEW w \in awaiting', w.task = t PROVE FALSE
      OBVIOUS
    <2>1. w \in awaiting /\ w # a /\ w \in [after : {"dispatch", "created", "analyzing"}, task : Tasks]
      BY <1>2 DEF Typed
    <2>2. w.after # "dispatch"
      BY <1>2, <2>1
    <2>3. w.task[2] \in Requests
      BY <2>1, <2>2 DEF Counted
    <2> QED BY <1>4, <2>3 DEF EventsAssumption
  <1>9. Fits(B)'
    <2>1. B.do = "look" /\ B.job = j /\ B.attempt = n
      BY <1>1 DEF LookAt
    <2> QED BY <1>1, <1>2, <1>4, <1>5, <1>8, <2>1 DEF Fits, Tells, Version, Hears, Listens
  <1> QED BY <1>3, <1>7, <1>9, NobodyFits DEF AllFit, Left

LEMMA ReturnsFits ==
  ASSUME Typed, Counted, NEW t \in Records, HandlerReturns(t)
  PROVE  AllFit'
  <1>1. t \in Tasks /\ Version(t) > 0 /\ t[1] = "task" /\ t \in Records /\ UNCHANGED record
    BY Names DEF HandlerReturns, Typed, Counted
  <1>2. Version(t)' > 0
    BY <1>1 DEF Version
  <1>3. PICK A, B, F : /\ A = Update(t, [status |-> "completed"]) /\ B = Catch("execute", t)
                       /\ F = Update(t, [status |-> "failed"])
    OBVIOUS
  <1>4. Left' = {A, B, Nobody} \/ Left' = {F, Nobody}
    BY <1>3, LeftIs DEF HandlerReturns, Returned
  <1>5. Fits(A)' /\ Fits(F)'
    BY <1>1, <1>2, <1>3, SettingFits
  <1>6. Fits(B)'
    <2>1. B.do = "catch" /\ B.where = "execute" /\ B.about = t /\ t # <<>>
      <3>1. t = TaskRec(t[2], t[3])
        BY <1>1, Names
      <3>2. t # <<>>
        BY <3>1 DEF TaskRec
      <3> QED BY <1>3, <3>2 DEF Catch
    <2> QED BY <1>1, <1>2, <2>1 DEF Fits, Tells
  <1> QED BY <1>4, <1>5, <1>6, NobodyFits DEF AllFit, Left

LEMMA LoadFits ==
  ASSUME Typed, LoadNext, EventsAssumption
  PROVE  AllFit'
  <1>1. CASE todo' = <<>>
    <2>1. Left' = {}
      BY <1>1, LeftIs
    <2> QED BY <2>1 DEF AllFit, Left
  <1>2. CASE todo' # <<>>
    <2>1. PICK p \in ToSet(Installed), P \in Seq(Items) :
            /\ todo' = P /\ Len(P) > 2 /\ PluginRec(p) \in Plugs
            /\ P[Len(P)] = Nobody /\ P[Len(P) - 1] = Catch("loader", PluginRec(p))
            /\ P[Len(P) - 2] = PushLoaded(p)
            /\ \A i \in 1..(Len(P) - 3) : \E x \in ToSet(Script[p]) : P[i] = Register(p, x)
      BY <1>2, LoadGives
    <2>2. PICK C, L : C = Catch("loader", PluginRec(p)) /\ L = PushLoaded(p)
      OBVIOUS
    <2>3. Fits(C)' /\ Fits(L)'
      <3>1. PluginRec(p) # <<>>
        BY DEF PluginRec
      <3>2. C.do = "catch" /\ C.where = "loader" /\ C.about = PluginRec(p) /\ L.do = "loaded"
        BY <2>2 DEF Catch, PushLoaded
      <3> QED BY <2>1, <3>1, <3>2 DEF Fits, Tells
    <2>4. ASSUME NEW i \in DOMAIN todo'
          PROVE  Fits(todo[i])'
      <3>1. Len(P) \in Nat /\ i \in 1..Len(P) /\ DOMAIN P = 1..Len(P)
        BY <2>1, LenProperties
      <3>2. PICK x : x = P[i]
        OBVIOUS
      <3>3. x = C \/ x = L \/ x = Nobody \/ \E y : x = Register(p, y)
        <4>1. i = Len(P) \/ i = Len(P) - 1 \/ i = Len(P) - 2 \/ i \in 1..(Len(P) - 3)
          BY <3>1
        <4> QED BY <2>1, <2>2, <3>2, <4>1
      <3>4. (\E y : x = Register(p, y)) => Fits(x)'
        <4> SUFFICES ASSUME NEW y, x = Register(p, y) PROVE Fits(x)'
          OBVIOUS
        <4>1. x.do = "register"
          BY DEF Register
        <4> QED BY <4>1 DEF Fits, Tells
      <3>5. Fits(x)'
        BY <2>3, <3>3, <3>4, NobodyFits
      <3>6. todo'[i] = x
        BY <2>1, <3>2
      <3> QED BY <3>5, <3>6
    <2> QED BY <2>4 DEF AllFit
  <1> QED BY <1>1, <1>2

LEMMA FitsKeeps ==
  ASSUME EventsAssumption, Typed, Shape, AllFit, Counted, Paired, [Next]_vars
  PROVE  AllFit'
  <1> USE DEF Shape
  <1>0. CASE UNCHANGED todo /\ todo = <<>>
    <2>1. Left' = {}
      BY <1>0, LeftIs
    <2> QED BY <2>1 DEF AllFit, Left
  <1>1. CASE UNCHANGED vars
    <2>1. Same /\ UNCHANGED todo /\ Head(todo') = Head(todo)
      BY <1>1 DEF vars, Same
    <2>2. ASSUME NEW a \in Left PROVE Fits(a)'
      <3>1. a \in Items /\ Fits(a)
        BY LenProperties, ElementOfSeq DEF Left, Typed, AllFit
      <3>2. a.do = "dispatch" => Fits(a)'
        <4> SUFFICES ASSUME a.do = "dispatch" PROVE Fits(a)'
          OBVIOUS
        <4>1. \A x : Version(x)' = Version(x) /\ JobOf(x)' = JobOf(x)
          BY <2>1 DEF Same, Version, JobOf
        <4> QED BY <2>1, <3>1, <4>1 DEF Fits, Tells, Same
      <3> QED BY <2>1, <3>1, <3>2, SameFits
    <2>3. Left' = Left
      BY <2>1 DEF Left
    <2> QED BY <2>2, <2>3 DEF AllFit, Left
  <1>2. CASE EmitEvent
    BY <1>2, EmitFits
  <1>3. CASE TellAttempt
    BY <1>3, AttemptFits
  <1>4. CASE PluginThrows \/ RegisterThrows
    BY <1>4, UnwindFits DEF PluginThrows, RegisterThrows, Calling, AtTop, Same
  <1>5. CASE UpdateRecord
    BY <1>5, UpdateFits
  <1>6. CASE BeginAttempt
    BY <1>6, BeginFits
  <1>7. CASE DispatchTask
    BY <1>7, DispatchFits
  <1>8. CASE ExecuteTask
    BY <1>8, ExecuteFits
  <1>9. CASE LookAtTask
    BY <1>9, LookFits
  <1>10. CASE NoteLoaded
    BY <1>10, LoadedFits
  <1>11. CASE LoadNext
    BY <1>11, LoadFits
  <1>12. CASE \E j \in Jobs : Submit(j) \/ \E n \in 1..Budget[j] : JobGoesOn(j, n)
    BY <1>12, SubmitFits, GoesOnFits
  <1>13. CASE \E c \in Requests : PostTask(c) \/ WriteStatus(c)
    BY <1>13, PostFits, StatusFits
  <1>14. CASE \E t \in Records : HandlerReturns(t)
    BY <1>14, ReturnsFits
  <1>15. CASE TellSocket \/ TellPlugin \/ Caught \/ HandlerStarts \/ RegisterAgent
    <2>1. todo # <<>> /\ Then(<<>>) /\ Same /\ Head(todo).do # "update"
      BY <1>15 DEF TellSocket, TellPlugin, Caught, HandlerStarts, RegisterAgent, Calling, AtTop, Same
    <2> HIDE DEF Then
    <2> QED BY <2>1, PopFits
  <1>16. CASE RemoveListener \/ Subscribe \/ AwaitDispatch
    BY <1>16, PopsFit
  <1>17. CASE Serve \/ (\E c \in Requests : ReadStatus(c)) \/ (\E s \in Sockets : Connect(s) \/ Close(s))
    BY <1>0, <1>17 DEF Serve, ReadStatus, Connect, Close, Ready
  <1> QED BY <1>1, <1>2, <1>3, <1>4, <1>5, <1>6, <1>7, <1>8, <1>9, <1>10, <1>11, <1>12, <1>13, <1>14, <1>15,
             <1>16, <1>17 DEF Next, Proceed

-----------------------------------------------------------------------------
(* What the records say of one another.                                    *)

Tallied ==
  /\ \A j \in Jobs : JobOf(j).attempts <= Budget[j]
  /\ \A j \in Jobs : Version(JobRec(j)) = 0 => JobOf(j) = Absent
  /\ \A t \in Tasks : /\ record[t].attempts = 0
                      /\ Version(t) = 0 <=> record[t] = Absent
                      /\ Version(t) > 0 /\ t[2] \in Jobs => t[3] <= JobOf(t[2]).attempts
  /\ \A w \in Workspaces : LET r == record[WorkspaceRec(w)] IN
        r.status \in {"created", "analyzing"} /\ r.attempts = 0 /\ (r.status = "analyzing" => r.version > 0)

Waiting ==
  \A a \in awaiting :
       /\ Version(a.task) > 0
       /\ a.after = "dispatch" => ~Hears(a.task[2], a.task[3])
       /\ a.after # "dispatch" => a.task[2] \in Requests
       /\ a.after = "analyzing" => record[WorkspaceRec(Home[a.task[2]])].status = "analyzing"

LEMMA CountedIs ==
  Counted <=> Tallied /\ Waiting /\ (\A t \in working : Version(t) > 0) /\ (phase = "down" => todo = <<>>)
  BY DEF Counted, Tallied, Waiting

\* What may be written of a record.
Tallies(r, u) ==
  /\ u.version > 0
  /\ r[1] = "job" => u.attempts <= Budget[r[2]] /\ record[r].attempts <= u.attempts
  /\ r[1] = "task" => u.attempts = 0 /\ (r[2] \in Jobs => r[3] <= JobOf(r[2]).attempts)
  /\ r[1] = "workspace" => u.status = "analyzing" /\ u.attempts = 0

LEMMA TalliedAfter ==
  ASSUME EventsAssumption, Typed, Tallied, NEW r, NEW u, Writes(r, u), Tallies(r, u)
  PROVE  Tallied'
  <1>1. /\ r \in Records /\ record'[r] = u /\ \A x \in Records : x # r => record'[x] = record[x]
        /\ u \in States
    BY WritesGrow DEF Writes
  <1>2. u.version # 0 /\ u # Absent
    BY DEF Tallies, Absent
  <1>3. \A j \in Jobs : /\ JobRec(j) \in Records /\ JobRec(j)[1] = "job" /\ JobRec(j)[2] = j
                        /\ JobOf(j).attempts \in Nat /\ JobOf(j)'.attempts \in Nat /\ Budget[j] \in Nat
                        /\ JobOf(j).attempts <= JobOf(j)'.attempts /\ JobOf(j)'.attempts <= Budget[j]
    <2> SUFFICES ASSUME NEW j \in Jobs
                 PROVE  /\ JobRec(j) \in Records /\ JobRec(j)[1] = "job" /\ JobRec(j)[2] = j
                        /\ JobOf(j).attempts \in Nat /\ JobOf(j)'.attempts \in Nat /\ Budget[j] \in Nat
                        /\ JobOf(j).attempts <= JobOf(j)'.attempts /\ JobOf(j)'.attempts <= Budget[j]
      OBVIOUS
    <2>1. JobRec(j) \in Records /\ JobRec(j)[1] = "job" /\ JobRec(j)[2] = j
      BY Names
    <2>2. JobOf(j).attempts \in Nat /\ Budget[j] \in Nat /\ u.attempts \in Nat
      BY <1>1, <2>1 DEF Typed, JobOf, States, EventsAssumption
    <2>3. JobOf(j).attempts <= Budget[j]
      BY DEF Tallied
    <2>4. CASE JobRec(j) = r
      <3>1. JobOf(j)' = u /\ JobOf(j) = record[r] /\ r[1] = "job" /\ r[2] = j
        BY <1>1, <2>1, <2>4 DEF JobOf
      <3> QED BY <2>1, <2>2, <3>1 DEF Tallies
    <2>5. CASE JobRec(j) # r
      <3>1. JobOf(j)' = JobOf(j)
        BY <1>1, <2>1, <2>5 DEF JobOf
      <3> QED BY <2>1, <2>2, <2>3, <3>1
    <2> QED BY <2>4, <2>5
  <1>4. ASSUME NEW j \in Jobs, Version(JobRec(j))' = 0
        PROVE  JobOf(j)' = Absent
    <2>1. JobRec(j) # r
      BY <1>1, <1>2, <1>4 DEF Version
    <2> QED BY <1>1, <1>3, <1>4, <2>1 DEF Tallied, Version, JobOf
  <1>5. ASSUME NEW t \in Tasks
        PROVE  /\ record'[t].attempts = 0
               /\ Version(t)' = 0 <=> record'[t] = Absent
               /\ Version(t)' > 0 /\ t[2] \in Jobs => t[3] <= JobOf(t[2])'.attempts
    <2>1. t \in Records /\ t[1] = "task" /\ (t[2] \in Jobs => t[3] \in Nat)
      BY Names DEF EventsAssumption
    <2>2. CASE t = r
      <3>1. record'[t] = u /\ u.attempts = 0 /\ (t[2] \in Jobs => t[3] <= JobOf(t[2]).attempts)
        BY <1>1, <2>1, <2>2 DEF Tallies
      <3>2. t[2] \in Jobs => t[3] <= JobOf(t[2])'.attempts
        BY <1>3, <2>1, <3>1
      <3> QED BY <1>2, <3>1, <3>2 DEF Version
    <2>3. CASE t # r
      <3>1. record'[t] = record[t]
        BY <1>1, <2>1, <2>3
      <3>2. /\ record[t].attempts = 0 /\ (Version(t) = 0 <=> record[t] = Absent)
            /\ Version(t) > 0 /\ t[2] \in Jobs => t[3] <= JobOf(t[2]).attempts
        BY DEF Tallied
      <3>3. Version(t) > 0 /\ t[2] \in Jobs => t[3] <= JobOf(t[2])'.attempts
        <4> SUFFICES ASSUME Version(t) > 0, t[2] \in Jobs PROVE t[3] <= JobOf(t[2])'.attempts
          OBVIOUS
        <4>1. PICK x, y, z : x = t[3] /\ y = JobOf(t[2]).attempts /\ z = JobOf(t[2])'.attempts
          OBVIOUS
        <4>2. x \in Nat /\ y \in Nat /\ z \in Nat /\ x <= y /\ y <= z
          BY <1>3, <2>1, <3>2, <4>1
        <4>3. x <= z
          BY <4>2
        <4> QED BY <4>1, <4>3
      <3> QED BY <3>1, <3>2, <3>3 DEF Version
    <2> QED BY <2>2, <2>3
  <1>6. ASSUME NEW w \in Workspaces
        PROVE  LET x == record'[WorkspaceRec(w)] IN
                 x.status \in {"created", "analyzing"} /\ x.attempts = 0 /\
                        (x.status = "analyzing" => x.version > 0)
    <2>1. WorkspaceRec(w) \in Records /\ WorkspaceRec(w)[1] = "workspace"
      BY RecordsAre DEF WorkspaceRec
    <2>2. CASE WorkspaceRec(w) = r
      BY <1>1, <2>1, <2>2 DEF Tallies
    <2>3. CASE WorkspaceRec(w) # r
      BY <1>1, <2>1, <2>3 DEF Tallied
    <2> QED BY <2>2, <2>3
  <1>7. \A j \in Jobs : JobOf(j)'.attempts <= Budget[j]
    BY <1>3
  <1> QED BY <1>4, <1>5, <1>6, <1>7 DEF Tallied

LEMMA UpdateTallies ==
  ASSUME Typed, Tallied, NEW e, NEW r, NEW u, UpdateTurns(e, r, u)
  PROVE  Tallies(r, u)
  <1>1. /\ e \in Items /\ Fits(e) /\ e.do = "update" /\ e.about = r /\ r \in Records /\ r[1] \in {"job", "task"}
        /\ u = Merged(record[r], e.patch) /\ e.patch \in Patches
    BY DEF UpdateTurns, Turn, Updates
  <1>2. /\ Version(r) > 0
        /\ Numbered(e) => /\ r[1] = "job" /\ record[r].attempts <= e.patch.attempts
                          /\ e.patch.attempts <= Budget[r[2]]
    BY <1>1, Fitting
  <1>3. u.version = record[r].version + 1 /\ record[r].version \in Nat /\ u.version > 0
    BY UpdateWrites
  <1>4. record[r] \in States /\ record[r].attempts \in Nat
    BY <1>1 DEF Typed, States
  <1>5. \/ u.attempts = record[r].attempts
        \/ Numbered(e) /\ u.attempts = e.patch.attempts
    BY <1>1, <1>4, Merging DEF Patches, Numbered
  <1>6. CASE r[1] = "job"
    <2>1. r[2] \in Jobs /\ r = JobRec(r[2])
      BY <1>1, <1>6, Names
    <2>2. record[r].attempts <= Budget[r[2]]
      BY <2>1 DEF Tallied, JobOf
    <2>3. record[r].attempts <= record[r].attempts
      BY <1>4
    <2> QED BY <1>2, <1>3, <1>5, <1>6, <2>2, <2>3 DEF Tallies
  <1>7. CASE r[1] = "task"
    <2>1. r \in Tasks
      BY <1>1, <1>7, Names
    <2>2. record[r].attempts = 0 /\ (r[2] \in Jobs => r[3] <= JobOf(r[2]).attempts)
      BY <1>2, <2>1 DEF Tallied
    <2> QED BY <1>2, <1>3, <1>5, <1>7, <2>2 DEF Tallies
  <1> QED BY <1>1, <1>6, <1>7

LEMMA TalliedKeeps ==
  ASSUME EventsAssumption, Typed, Stacked, AllFit, Counted, [Next]_vars
  PROVE  Tallied'
  <1>0. Tallied
    BY CountedIs
  <1>1. CASE UNCHANGED record
    BY <1>0, <1>1 DEF Tallied, Version, JobOf
  <1>2. CASE UpdateRecord
    <2>1. PICK e, r, u : UpdateTurns(e, r, u)
      BY <1>2, UpdateTurn
    <2> QED BY <1>0, <2>1, UpdateTallies, UpdateWrites, TalliedAfter
  <1>3. CASE DispatchTask
    <2>1. PICK e, t : DispatchTurns(e, t) /\ e = Head(todo)
      BY <1>3, DispatchTurn
    <2>2. PICK u : u = New
      OBVIOUS
    <2>3. Writes(t, u)
      BY <1>3, <2>1, <2>2, DispatchWrites
    <2>4. /\ e.do = "dispatch" /\ e.about = t /\ Fits(e) /\ t \in Tasks /\ t[1] = "task"
      BY <2>1, Names DEF DispatchTurns, Turn
    <2>5. t[2] \in Jobs => t[3] <= JobOf(t[2]).attempts
      <3> SUFFICES ASSUME t[2] \in Jobs PROVE t[3] <= JobOf(t[2]).attempts
        OBVIOUS
      <3>1. JobOf(t[2]).attempts = t[3]
        <4>1. ~(Head(todo) = Update(JobRec(t[2]), [status |-> "running", attempts |-> t[3]]))
          BY <2>1, <2>4 DEF Update
        <4> QED BY <2>4, <4>1 DEF Fits, Tells
      <3>2. JobOf(t[2]).attempts \in Nat
        BY Names DEF Typed, JobOf, States
      <3> QED BY <3>1, <3>2
    <2>6. Tallies(t, u)
      BY <2>2, <2>4, <2>5 DEF Tallies, New
    <2> QED BY <1>0, <2>3, <2>6, TalliedAfter
  <1>4. CASE \E j \in Jobs : Submit(j)
    <2>1. PICK j \in Jobs : Submit(j)
      BY <1>4
    <2>2. PICK r, u : r = JobRec(j) /\ u = New
      OBVIOUS
    <2>3. Writes(r, u) /\ record[r] = Absent
      BY <2>1, <2>2, SubmitWrites DEF Submit
    <2>4. Tallies(r, u)
      <3>1. r[1] = "job" /\ r[2] = j /\ Budget[j] \in Nat
        BY <2>2, Names DEF EventsAssumption
      <3> QED BY <2>2, <2>3, <3>1 DEF Tallies, New, Absent
    <2> QED BY <1>0, <2>3, <2>4, TalliedAfter
  <1>5. CASE \E c \in Requests : WriteStatus(c)
    <2>1. PICK c, r, a : c \in Requests /\ StatusTurns(c, r, a)
      BY <1>5, StatusTurn
    <2>2. CASE \E u : /\ Writes(r, u) /\ u.status = "analyzing" /\ u.attempts = 0
               /\ u.version = record[r].version + (IF record[r].status = "analyzing" THEN 0 ELSE 1)
      <3>1. PICK u : /\ Writes(r, u) /\ u.status = "analyzing" /\ u.attempts = 0
               /\ u.version = record[r].version + (IF record[r].status = "analyzing" THEN 0 ELSE 1)
        BY <2>2
      <3>2. r[1] = "workspace" /\ r \in Records /\ r = WorkspaceRec(Home[c])
        BY <2>1 DEF StatusTurns
      <3>3. record[r].version \in Nat /\ (record[r].status = "analyzing" => record[r].version > 0)
        <4>1. Home[c] \in Workspaces
          BY <2>1 DEF EventsAssumption
        <4> QED BY <1>0, <3>2, <4>1 DEF Tallied, Typed, States
      <3>4. u.version > 0
        BY <3>1, <3>3
      <3>5. Tallies(r, u)
        BY <3>1, <3>2, <3>4 DEF Tallies
      <3> QED BY <1>0, <3>1, <3>5, TalliedAfter
    <2> QED BY <1>1, <2>1, <2>2 DEF StatusTurns
  <1> QED BY <1>1, <1>2, <1>3, <1>4, <1>5
          DEF Next, Proceed, EmitEvent, TellSocket, TellAttempt, TellPlugin, PluginThrows, RemoveListener,
              Caught, BeginAttempt, AwaitDispatch, ExecuteTask, HandlerStarts, LookAtTask, RegisterAgent,
              Subscribe, RegisterThrows, NoteLoaded, LoadNext, Serve, JobGoesOn, PostTask, ReadStatus,
              HandlerReturns, Connect, Close, vars

\* A workspace that is being analysed stays so.
LEMMA StaysAnalyzing ==
  ASSUME EventsAssumption, Typed, Stacked, AllFit, [Next]_vars, NEW w \in Workspaces,
         record[WorkspaceRec(w)].status = "analyzing"
  PROVE  record'[WorkspaceRec(w)].status = "analyzing"
  <1> DEFINE x == WorkspaceRec(w)
  <1>0. x \in Records /\ x[1] = "workspace"
    BY RecordsAre DEF WorkspaceRec
  <1>1. CASE record'[x] = record[x]
    BY <1>1
  <1>2. CASE UpdateRecord
    <2>1. PICK e, r, u : UpdateTurns(e, r, u)
      BY <1>2, UpdateTurn
    <2>2. x # r
      BY <1>0, <2>1 DEF UpdateTurns
    <2>3. record'[x] = record[x]
      BY <1>0, <2>1, <2>2, UpdateWrites, WritesGrow
    <2> QED BY <1>1, <2>3
  <1>3. CASE DispatchTask
    <2>1. PICK e, t : DispatchTurns(e, t) /\ e = Head(todo)
      BY <1>3, DispatchTurn
    <2>2. x # t
      BY <1>0, <2>1, Names DEF DispatchTurns
    <2>3. PICK u : u = New
      OBVIOUS
    <2>4. Writes(t, u)
      BY <1>3, <2>1, <2>3, DispatchWrites
    <2>5. record'[x] = record[x]
      BY <1>0, <2>2, <2>4, WritesGrow
    <2> QED BY <1>1, <2>5
  <1>4. CASE \E j \in Jobs : Submit(j)
    <2>1. PICK j \in Jobs : Submit(j)
      BY <1>4
    <2>2. PICK r, u : r = JobRec(j) /\ u = New
      OBVIOUS
    <2>3. Writes(r, u) /\ x # r
      BY <1>0, <2>1, <2>2, SubmitWrites DEF JobRec
    <2>4. record'[x] = record[x]
      BY <1>0, <2>3, WritesGrow
    <2> QED BY <1>1, <2>4
  <1>5. CASE \E c \in Requests : WriteStatus(c)
    <2>1. PICK c, r, a : c \in Requests /\ StatusTurns(c, r, a)
      BY <1>5, StatusTurn
    <2>2. CASE \E u : Writes(r, u) /\ u.status = "analyzing"
      <3>1. PICK u : Writes(r, u) /\ u.status = "analyzing"
        BY <2>2
      <3>2. record'[r] = u /\ (x # r => record'[x] = record[x])
        BY <1>0, <3>1, WritesGrow
      <3> QED BY <1>1, <3>1, <3>2
    <2> QED BY <1>1, <2>1, <2>2 DEF StatusTurns
  <1> QED BY <1>1, <1>2, <1>3, <1>4, <1>5
          DEF Next, Proceed, EmitEvent, TellSocket, TellAttempt, TellPlugin, PluginThrows, RemoveListener,
              Caught, BeginAttempt, AwaitDispatch, ExecuteTask, HandlerStarts, LookAtTask, RegisterAgent,
              Subscribe, RegisterThrows, NoteLoaded, LoadNext, Serve, JobGoesOn, PostTask, ReadStatus,
              HandlerReturns, Connect, Close, vars

\* An attempt that does not hear its task goes on not to, unless it comes now.
LEMMA HearsKeeps ==
  ASSUME EventsAssumption, Typed, Stacked, AllFit, Paired, [Next]_vars, NEW j, NEW n, Hears(j, n)'
  PROVE  \/ Hears(j, n)
         \/ \E e, t : LookTurns(e, j, n, t) /\ LookAtTask /\ e = Head(todo)
  <1> DEFINE news == <<"task", "updated">>
  <1>0. news \in Events
    BY DEF Events, SocketEvents
  <1>1. CASE UNCHANGED listeners
    BY <1>1 DEF Hears, Listens
  <1>2. CASE RemoveListener
    BY <1>0, <1>2, RemoveLeaves DEF Leaves, Hears
  <1>3. CASE Subscribe
    <2>1. PICK p, E : Plugin(p)[1] = "plugin" /\ Joins(Plugin(p), E)
      BY <1>3, SubscribeJoins
    <2>2. Attempt(j, n) # Plugin(p)
      BY DEF Attempt, Plugin
    <2> QED BY <1>0, <2>1, <2>2 DEF Joins, Hears
  <1>4. CASE LookAtTask /\ ~UNCHANGED listeners
    <2>1. PICK e, i, m, t : LookTurns(e, i, m, t) /\ e = Head(todo)
      BY <1>4, LookTurn
    <2>2. Joins(Attempt(i, m), {news})
      BY <1>4, <2>1, LookJoins
    <2>3. Hears(j, n) \/ Attempt(j, n) = Attempt(i, m)
      BY <1>0, <2>2 DEF Joins, Hears
    <2>4. Attempt(j, n) = Attempt(i, m) => j = i /\ n = m
      BY DEF Attempt
    <2> QED BY <1>4, <2>1, <2>3, <2>4
  <1>5. CASE \E s \in Sockets : Connect(s) \/ Close(s)
    <2>1. PICK s \in Sockets : Connect(s) \/ Close(s)
      BY <1>5
    <2>2. PICK l : l = Socket(s)
      OBVIOUS
    <2>3. l \in Listeners /\ l[1] # "plugin" /\ Attempt(j, n) # l
      BY <2>2, WhoListens DEF Attempt
    <2>4. CASE Connect(s)
      <3>1. link[s] = "new" /\ listeners' = On(l, SocketEvents)
        BY <2>2, <2>4 DEF Connect
      <3>2. \A e \in Events : ~Listens(l, e)
        BY <2>2, <3>1 DEF Paired
      <3>3. Joins(l, SocketEvents)
        BY <2>3, <3>1, <3>2, OnKeeps DEF Joins
      <3> QED BY <1>0, <2>3, <3>3 DEF Joins, Hears
    <2>5. CASE Close(s)
      <3>1. listeners' = Off(l, SocketEvents)
        BY <2>2, <2>5 DEF Close
      <3>2. Leaves(l, SocketEvents)
        BY <2>3, <3>1, OffKeeps DEF Leaves
      <3> QED BY <1>0, <3>2 DEF Leaves, Hears
    <2> QED BY <2>1, <2>4, <2>5
  <1> QED BY <1>1, <1>2, <1>3, <1>4, <1>5
          DEF Next, Proceed, EmitEvent, TellSocket, TellAttempt, TellPlugin, PluginThrows, UpdateRecord,
              Caught, BeginAttempt, DispatchTask, AwaitDispatch, ExecuteTask, HandlerStarts, RegisterAgent,
              RegisterThrows, NoteLoaded, LoadNext, Serve, Submit, JobGoesOn, PostTask, ReadStatus,
              WriteStatus, HandlerReturns, vars

\* What is awaited after a step.
LEMMA AwaitingIs ==
  ASSUME EventsAssumption, Typed, Stacked, AllFit, Counted, [Next]_vars, NEW a \in awaiting', a \notin awaiting
  PROVE  \/ \E t \in Tasks : /\ a = [after |-> "dispatch", task |-> t] /\ Version(t) > 0
                             /\ ~Hears(t[2], t[3]) /\ UNCHANGED <<record, listeners>>
         \/ \E c \in Requests : /\ [after |-> "dispatch", task |-> TaskRec(c, 1)] \in awaiting
                                /\ a = [after |-> record[WorkspaceRec(Home[c])].status, task |-> TaskRec(c, 1)]
                                /\ UNCHANGED <<record, listeners>>
  <1>1. CASE awaiting' \subseteq awaiting
    BY <1>1
  <1>2. CASE AwaitDispatch
    <2>1. PICK e : e = Head(todo) /\ e \in Items /\ Fits(e) /\ e.do = "await"
      BY <1>2, OnTop DEF AwaitDispatch, AtTop
    <2>2. e.about \in Tasks /\ Version(e.about) > 0 /\ ~Hears(e.about[2], e.about[3])
      BY <2>1, Fitting, ItemKinds DEF TaskItems
    <2>3. a = [after |-> "dispatch", task |-> e.about] /\ UNCHANGED <<record, listeners>>
      BY <1>2, <2>1 DEF AwaitDispatch
    <2> QED BY <2>2, <2>3
  <1>3. CASE \E c \in Requests : ReadStatus(c)
    BY <1>3 DEF ReadStatus
  <1>4. CASE \E c \in Requests : WriteStatus(c)
    BY <1>1, <1>4 DEF WriteStatus
  <1>5. CASE \E j \in Jobs : \E n \in 1..Budget[j] : JobGoesOn(j, n)
    BY <1>1, <1>5 DEF JobGoesOn
  <1>6. CASE UNCHANGED awaiting
    BY <1>6
  <1> QED BY <1>2, <1>3, <1>4, <1>5, <1>6
          DEF Next, Proceed, EmitEvent, TellSocket, TellAttempt, TellPlugin, PluginThrows, RemoveListener,
              Caught, UpdateRecord, BeginAttempt, DispatchTask, ExecuteTask, HandlerStarts, LookAtTask,
              RegisterAgent, Subscribe, RegisterThrows, NoteLoaded, LoadNext, Serve, Submit, PostTask,
              HandlerReturns, Connect, Close, vars

LEMMA WaitingKeeps ==
  ASSUME EventsAssumption, Typed, Stacked, AllFit, Counted, Paired, [Next]_vars
  PROVE  Waiting' /\ awaiting' \subseteq [after : {"dispatch", "created", "analyzing"}, task : Tasks]
  <1>0. Waiting /\ Grows
    BY CountedIs, RecordsGrow
  <1>1. ASSUME NEW a \in awaiting', a \in awaiting
        PROVE  /\ Version(a.task)' > 0
               /\ a.after = "dispatch" => ~Hears(a.task[2], a.task[3])'
               /\ a.after # "dispatch" => a.task[2] \in Requests
               /\ a.after = "analyzing" => record'[WorkspaceRec(Home[a.task[2]])].status = "analyzing"
    <2>1. /\ a.task \in Tasks /\ Version(a.task) > 0 /\ a.task \in Records
          /\ a.after = "dispatch" => ~Hears(a.task[2], a.task[3])
          /\ a.after # "dispatch" => a.task[2] \in Requests
          /\ a.after = "analyzing" => record[WorkspaceRec(Home[a.task[2]])].status = "analyzing"
      BY <1>0, <1>1, Names DEF Waiting, Typed
    <2>2. Version(a.task)' > 0
      <3>1. PICK t : t = a.task
        OBVIOUS
      <3>2. Version(t)' > 0
        BY <1>0, <2>1, <3>1 DEF Grows
      <3> QED BY <3>1, <3>2
    <2>3. a.after = "dispatch" => ~Hears(a.task[2], a.task[3])'
      <3> SUFFICES ASSUME a.after = "dispatch", Hears(a.task[2], a.task[3])' PROVE FALSE
        OBVIOUS
      <3>1. PICK j, n : j = a.task[2] /\ n = a.task[3]
        OBVIOUS
      <3>2. Hears(j, n)'
        BY <3>1
      <3>3. PICK e, t : LookTurns(e, j, n, t) /\ LookAtTask /\ e = Head(todo)
        BY <2>1, <3>1, <3>2, HearsKeeps
      <3>4. e \in Looks /\ j = e.job /\ n = e.attempt /\ e.do = "look" /\ Fits(e)
        BY <3>3 DEF LookTurns, Turn
      <3>5. \A w \in awaiting : w.task # TaskRec(j, n)
        BY <3>4 DEF Fits, Tells
      <3>6. a.task = TaskRec(j, n)
        BY <2>1, <3>1, Names
      <3> QED BY <1>1, <3>5, <3>6
    <2>4. a.after = "analyzing" => record'[WorkspaceRec(Home[a.task[2]])].status = "analyzing"
      <3> SUFFICES ASSUME a.after = "analyzing"
                   PROVE  record'[WorkspaceRec(Home[a.task[2]])].status = "analyzing"
        OBVIOUS
      <3>1. PICK w \in Workspaces : w = Home[a.task[2]]
        BY <2>1 DEF EventsAssumption
      <3>2. record[WorkspaceRec(w)].status = "analyzing"
        BY <2>1, <3>1
      <3>3. record'[WorkspaceRec(w)].status = "analyzing"
        BY <3>2, StaysAnalyzing
      <3> QED BY <3>1, <3>3
    <2> QED BY <2>1, <2>2, <2>3, <2>4
  <1>2. ASSUME NEW a \in awaiting', a \notin awaiting
        PROVE  /\ Version(a.task)' > 0
               /\ a.after = "dispatch" => ~Hears(a.task[2], a.task[3])'
               /\ a.after # "dispatch" => a.task[2] \in Requests
               /\ a.after = "analyzing" => record'[WorkspaceRec(Home[a.task[2]])].status = "analyzing"
               /\ a \in [after : {"dispatch", "created", "analyzing"}, task : Tasks]
    <2>1. CASE \E t \in Tasks : /\ a = [after |-> "dispatch", task |-> t] /\ Version(t) > 0
                                /\ ~Hears(t[2], t[3]) /\ UNCHANGED <<record, listeners>>
      <3>1. PICK t \in Tasks : /\ a = [after |-> "dispatch", task |-> t] /\ Version(t) > 0
                               /\ ~Hears(t[2], t[3]) /\ UNCHANGED <<record, listeners>>
        BY <2>1
      <3>2. a.after = "dispatch" /\ a.task = t
        BY <3>1
      <3> QED BY <3>1, <3>2 DEF Version, Hears, Listens
    <2>2. CASE \E c \in Requests :
                 /\ [after |-> "dispatch", task |-> TaskRec(c, 1)] \in awaiting
                 /\ a = [after |-> record[WorkspaceRec(Home[c])].status, task |-> TaskRec(c, 1)]
                 /\ UNCHANGED <<record, listeners>>
      <3>1. PICK c \in Requests :
                 /\ [after |-> "dispatch", task |-> TaskRec(c, 1)] \in awaiting
                 /\ a = [after |-> record[WorkspaceRec(Home[c])].status, task |-> TaskRec(c, 1)]
                 /\ UNCHANGED <<record, listeners>>
        BY <2>2
      <3>2. PICK b : b = [after |-> "dispatch", task |-> TaskRec(c, 1)]
        OBVIOUS
      <3>3. b \in awaiting /\ b.task = TaskRec(c, 1)
        BY <3>1, <3>2
      <3>4. Version(TaskRec(c, 1)) > 0 /\ TaskRec(c, 1) \in Tasks /\ TaskRec(c, 1)[2] = c
        BY <1>0, <3>3, Names DEF Waiting, TaskRec
      <3>5. record[WorkspaceRec(Home[c])].status \in {"created", "analyzing"}
        BY CountedIs DEF Tallied, EventsAssumption
      <3>6. a.after = record[WorkspaceRec(Home[c])].status /\ a.task = TaskRec(c, 1)
        BY <3>1
      <3> QED BY <3>1, <3>4, <3>5, <3>6 DEF Version
    <2> QED BY <1>2, <2>1, <2>2, AwaitingIs
  <1>3. Waiting'
    BY <1>1, <1>2 DEF Waiting
  <1>4. awaiting' \subseteq [after : {"dispatch", "created", "analyzing"}, task : Tasks]
    BY <1>2 DEF Typed
  <1> QED BY <1>3, <1>4

LEMMA CountedKeeps ==
  ASSUME EventsAssumption, Typed, Stacked, Bottom, AllFit, Counted, Paired, [Next]_vars
  PROVE  Counted'
  <1>1. Tallied' /\ Waiting' /\ Grows
    BY TalliedKeeps, WaitingKeeps, RecordsGrow
  <1>2. \A t \in working' : Version(t)' > 0
    <2>1. ASSUME NEW t \in working' PROVE t \in Records /\ Version(t) > 0
      <3>1. CASE t \in working
        BY <3>1, Names DEF Counted, Typed
      <3>2. CASE HandlerStarts
        <4>1. PICK e : e = Head(todo) /\ e \in Items /\ Fits(e) /\ e.do = "start"
          BY <3>2, OnTop DEF HandlerStarts, AtTop
        <4>2. e.about \in Records /\ Version(e.about) > 0
          BY <4>1, ItemKinds, Fitting, Names DEF TaskItems
        <4> QED BY <3>1, <3>2, <4>1, <4>2 DEF HandlerStarts
      <3>3. CASE \E x \in Records : HandlerReturns(x)
        BY <3>1, <3>3 DEF HandlerReturns
      <3>4. CASE UNCHANGED working
        BY <3>1, <3>4
      <3> QED BY <3>2, <3>3, <3>4
              DEF Next, Proceed, EmitEvent, TellSocket, TellAttempt, TellPlugin, PluginThrows, RemoveListener,
                  Caught, UpdateRecord, BeginAttempt, DispatchTask, AwaitDispatch, ExecuteTask, LookAtTask,
                  RegisterAgent, Subscribe, RegisterThrows, NoteLoaded, LoadNext, Serve, Submit, JobGoesOn,
                  PostTask, ReadStatus, WriteStatus, Connect, Close, vars
    <2> QED BY <1>1, <2>1 DEF Grows
  <1>3. phase' = "down" => todo' = <<>>
    <2>1. CASE UNCHANGED <<phase, todo>>
      BY <2>1 DEF Counted
    <2>2. CASE PluginThrows \/ RegisterThrows
      <3>1. todo # <<>> /\ Unwind
        BY <2>2 DEF PluginThrows, RegisterThrows, Calling, AtTop
      <3>2. (todo' = <<>> /\ phase' = "down") \/ phase' = phase
        BY <3>1, ThrowTurn DEF ThrowTurns
      <3> QED BY <3>1, <3>2 DEF Counted
    <2>3. CASE todo # <<>> /\ UNCHANGED phase
      BY <2>3 DEF Counted
    <2>4. CASE phase' \in {"serving", "loading"}
      BY <2>4
    <2>5. CASE Proceed
      BY <2>2, <2>3, <2>5
         DEF Proceed, EmitEvent, TellSocket, TellAttempt, TellPlugin, RemoveListener,
             Caught, UpdateRecord, BeginAttempt, DispatchTask, AwaitDispatch, ExecuteTask, HandlerStarts,
             LookAtTask, RegisterAgent, Subscribe, NoteLoaded, AtTop, Calling
    <2>6. CASE UNCHANGED vars
      BY <2>1, <2>6 DEF vars
    <2> QED BY <2>4, <2>5, <2>6
            DEF Next, LoadNext, Serve, Submit, JobGoesOn, PostTask, ReadStatus, WriteStatus, HandlerReturns,
                Connect, Close, Ready
  <1> QED BY <1>1, <1>2, <1>3, CountedIs DEF Counted, Tallied, Waiting

-----------------------------------------------------------------------------
(* What the variables range over.                                          *)

\* The socket s is told of r: its version v.
TellsNow(s, r, v) == told' = [told EXCEPT ![s][r] = v]

\* What a socket is told: the version that the record has.
LEMMA Telling ==
  ASSUME Typed, Stacked, AllFit, TellSocket
  PROVE  \E e, s, r : /\ e = Head(todo) /\ Turn(e, {}) /\ e.do = "call" /\ e.listener = Socket(s) /\
                            s \in Sockets
                      /\ r = e.about /\ r \in Records /\ e.event[1] = r[1] /\ e.event \in SocketEvents
                      /\ e \in CallItems
                      /\ \/ InScope(s, r) /\ TellsNow(s, r, Version(r))
                         \/ ~InScope(s, r) /\ told' = told
  <1>1. PICK e : e = Head(todo) /\ e \in Items /\ Fits(e) /\ e.do = "call" /\ e.listener[1] = "socket"
    BY OnTop DEF TellSocket, Calling, AtTop
  <1>2. Turn(e, {})
    <2>1. todo # <<>> /\ Then(<<>>)
      BY DEF TellSocket, Calling, AtTop
    <2> HIDE DEF Then
    <2> QED BY <1>1, <2>1, PopTurn
  <1>3. e \in CallItems /\ e.listener \in Listeners /\ e.about \in Told
    BY <1>1, ItemKinds DEF CallItems
  <1>4. PICK s : s = e.listener[2] /\ s \in Sockets /\ e.listener = Socket(s)
    BY <1>1, <1>3, Callers
  <1>5. e.event[1] = e.about[1] /\ e.event \in SocketEvents
    BY <1>1, Fitting DEF Tells
  <1>6. e.about \in Records
    <2>1. e.about[1] # "plugin"
      BY <1>5 DEF SocketEvents
    <2> QED BY <1>3, <2>1, Names DEF Told
  <1>7. e.snapshot.version = Version(e.about)
    BY <1>1, <1>6, Fitting DEF Tells, Version
  <1>8. \/ InScope(s, e.about) /\ TellsNow(s, e.about, Version(e.about))
        \/ ~InScope(s, e.about) /\ told' = told
    <2>1. told' = IF InScope(s, e.about)
                  THEN [told EXCEPT ![s][e.about] = e.snapshot.version] ELSE told
      BY <1>1, <1>4 DEF TellSocket
    <2> QED BY <1>7, <2>1 DEF TellsNow
  <1> QED BY <1>1, <1>2, <1>3, <1>4, <1>5, <1>6, <1>8

LEMMA ToldIs ==
  ASSUME Typed, NEW s \in Sockets, NEW r \in Records, NEW v \in Nat, TellsNow(s, r, v)
  PROVE  /\ told' \in [Sockets -> [Records -> Nat]] /\ told'[s][r] = v
         /\ \A s2 \in Sockets : \A r2 \in Records : (s2 # s \/ r2 # r) => told'[s2][r2] = told[s2][r2]
  <1>1. told \in [Sockets -> [Records -> Nat]] /\ told[s] \in [Records -> Nat]
    BY DEF Typed
  <1>2. PICK f : f = [told[s] EXCEPT ![r] = v]
    OBVIOUS
  <1>3. f \in [Records -> Nat] /\ f[r] = v /\ \A r2 \in Records : r2 # r => f[r2] = told[s][r2]
    BY <1>1, <1>2
  <1>4. told' = [told EXCEPT ![s] = f]
    BY <1>2 DEF TellsNow
  <1>5. told' \in [Sockets -> [Records -> Nat]] /\ told'[s] = f /\ \A s2 \in Sockets : s2 # s =>
         told'[s2] = told[s2]
    BY <1>1, <1>3, <1>4
  <1> QED BY <1>3, <1>5

LEMMA HistoryTyped ==
  ASSUME EventsAssumption, Typed, Stacked, AllFit, [Next]_vars
  PROVE  /\ told' \in [Sockets -> [Records -> Nat]] /\ base' \in [Sockets -> [Records -> Nat]]
         /\ link' \in [Sockets -> {"new", "open", "closed"}]
         /\ throws' \in Nat /\ cut' \subseteq {"job", "task", "workspace", "plugin"}
  <1>1. told' \in [Sockets -> [Records -> Nat]]
    <2>1. CASE UNCHANGED told
      BY <2>1 DEF Typed
    <2>2. CASE TellSocket
      <3>1. PICK s, r : /\ s \in Sockets /\ r \in Records
                        /\ TellsNow(s, r, Version(r)) \/ told' = told
        BY <2>2, Telling
      <3>2. PICK v \in Nat : v = Version(r)
        BY <3>1 DEF Typed, Version, States
      <3> QED BY <2>1, <3>1, <3>2, ToldIs
    <2> QED BY <2>1, <2>2
            DEF Next, Proceed, EmitEvent, TellAttempt, TellPlugin, PluginThrows, RemoveListener,
                Caught, UpdateRecord, BeginAttempt, DispatchTask, AwaitDispatch, ExecuteTask, HandlerStarts,
                LookAtTask, RegisterAgent, Subscribe, RegisterThrows, NoteLoaded, LoadNext, Serve, Submit,
                JobGoesOn, PostTask, ReadStatus, WriteStatus, HandlerReturns, Connect, Close, vars, sockets
  <1>2. base' \in [Sockets -> [Records -> Nat]] /\ link' \in [Sockets -> {"new", "open", "closed"}]
    <2>1. CASE UNCHANGED <<base, link>>
      BY <2>1 DEF Typed
    <2>2. CASE \E s \in Sockets : Connect(s) \/ Close(s)
      <3>1. PICK s \in Sockets : Connect(s) \/ Close(s)
        BY <2>2
      <3>2. PICK f : f = [r \in Records |-> record[r].version]
        OBVIOUS
      <3>3. f \in [Records -> Nat]
        BY <3>2 DEF Typed, States
      <3>4. base' = [base EXCEPT ![s] = f] \/ UNCHANGED base
        BY <3>1, <3>2 DEF Connect, Close
      <3>5. link' = [link EXCEPT ![s] = "open"] \/ link' = [link EXCEPT ![s] = "closed"]
        BY <3>1 DEF Connect, Close
      <3>6. base \in [Sockets -> [Records -> Nat]] /\ link \in [Sockets -> {"new", "open", "closed"}]
        BY DEF Typed
      <3>7. base' \in [Sockets -> [Records -> Nat]]
        BY <3>3, <3>4, <3>6
      <3>8. link' \in [Sockets -> {"new", "open", "closed"}]
        BY <3>5, <3>6
      <3> QED BY <3>7, <3>8
    <2>3. CASE Proceed
      <3> USE DEF Proceed, EmitEvent, TellSocket, TellAttempt, TellPlugin, PluginThrows, RemoveListener,
                  Caught, UpdateRecord, BeginAttempt, DispatchTask, AwaitDispatch, ExecuteTask, HandlerStarts,
                  LookAtTask, RegisterAgent, Subscribe, RegisterThrows, NoteLoaded, sockets
      <3>1. UNCHANGED <<base, link>>
        BY <2>3
      <3> QED BY <2>1, <3>1
    <2>4. CASE ~Proceed
      <3>1. UNCHANGED <<base, link>> \/ \E s \in Sockets : Connect(s) \/ Close(s)
        BY <2>4 DEF Next, LoadNext, Serve, Submit, JobGoesOn, PostTask, ReadStatus, WriteStatus, HandlerReturns,
                    vars, sockets
      <3> QED BY <2>1, <2>2, <3>1
    <2> QED BY <2>3, <2>4
  <1>3. throws' \in Nat /\ cut' \subseteq {"job", "task", "workspace", "plugin"}
    <2>1. CASE UNCHANGED <<throws, cut>>
      BY <2>1 DEF Typed
    <2>2. CASE PluginThrows
      <3>1. PICK e : e = Head(todo) /\ e \in CallItems
        BY <2>2, OnTop, ItemKinds DEF PluginThrows, Calling, AtTop
      <3>2. e.event \in Events
        BY <3>1 DEF CallItems
      <3>3. e.event[1] \in {"job", "task", "workspace", "plugin"}
        BY <3>2 DEF Events, SocketEvents
      <3>4. throws' = throws + 1 /\ (cut' = cut \/ cut' = cut \cup {e.event[1]})
        BY <2>2, <3>1 DEF PluginThrows
      <3>5. throws \in Nat /\ cut \subseteq {"job", "task", "workspace", "plugin"}
        BY DEF Typed
      <3>6. throws' \in Nat
        BY <3>4, <3>5
      <3>7. cut' \subseteq {"job", "task", "workspace", "plugin"}
        BY ONLY <3>3, <3>4, <3>5
      <3> QED BY <3>6, <3>7
    <2>3. CASE Proceed
      <3> USE DEF Proceed, EmitEvent, TellSocket, TellAttempt, TellPlugin, RemoveListener,
                  Caught, UpdateRecord, BeginAttempt, DispatchTask, AwaitDispatch, ExecuteTask, HandlerStarts,
                  LookAtTask, RegisterAgent, Subscribe, RegisterThrows, NoteLoaded
      <3>1. PluginThrows \/ (throws' = throws /\ cut' = cut)
        BY <2>3
      <3> QED BY <2>1, <2>2, <3>1
    <2>4. CASE ~Proceed
      <3>1. throws' = throws /\ cut' = cut
        BY <2>4 DEF Next, LoadNext, Serve, Submit, JobGoesOn, PostTask, ReadStatus, WriteStatus, HandlerReturns,
                    Connect, Close, vars
      <3> QED BY <2>1, <3>1
    <2> QED BY <2>3, <2>4
  <1> QED BY <1>1, <1>2, <1>3

LEMMA TypedKeeps ==
  ASSUME EventsAssumption, Typed, Shape, AllFit, Counted, Paired, [Next]_vars
  PROVE  Typed'
  <1>1. /\ todo' \in Seq(Items) /\ listeners' \in [Events -> Seq(Listeners)] /\ Grows
        /\ awaiting' \subseteq [after : {"dispatch", "created", "analyzing"}, task : Tasks]
    BY ShapeKeeps, PairedKeeps, WaitingKeeps, RecordsGrow DEF Shape
  <1>2. /\ told' \in [Sockets -> [Records -> Nat]] /\ base' \in [Sockets -> [Records -> Nat]]
        /\ link' \in [Sockets -> {"new", "open", "closed"}]
        /\ throws' \in Nat /\ cut' \subseteq {"job", "task", "workspace", "plugin"}
    BY HistoryTyped DEF Shape
  <1>3. phase' \in {"loading", "serving", "down"}
    <2>1. CASE UNCHANGED phase
      BY <2>1 DEF Typed
    <2>2. CASE PluginThrows \/ RegisterThrows
      <3>1. todo # <<>> /\ Unwind
        BY <2>2 DEF PluginThrows, RegisterThrows, Calling, AtTop
      <3>2. phase' = "down" \/ phase' = phase
        BY <3>1, ThrowTurn DEF ThrowTurns, Shape
      <3> QED BY <3>2 DEF Typed
    <2> QED BY <2>1, <2>2
            DEF Next, Proceed, EmitEvent, TellSocket, TellAttempt, TellPlugin, RemoveListener,
                Caught, UpdateRecord, BeginAttempt, DispatchTask, AwaitDispatch, ExecuteTask, HandlerStarts,
                LookAtTask, RegisterAgent, Subscribe, NoteLoaded, LoadNext, Serve, Submit,
                JobGoesOn, PostTask, ReadStatus, WriteStatus, HandlerReturns, Connect, Close, vars
  <1>4. toLoad' \in Seq(ToSet(Installed))
    <2>1. CASE UNCHANGED toLoad
      BY <2>1 DEF Typed
    <2>2. CASE LoadNext
      <3>1. toLoad # <<>> /\ toLoad' = Tail(toLoad) /\ toLoad \in Seq(ToSet(Installed))
        BY <2>2 DEF LoadNext, Typed
      <3> QED BY <3>1, HeadTailProperties
    <2> QED BY <2>1, <2>2
            DEF Next, Proceed, EmitEvent, TellSocket, TellAttempt, TellPlugin, RemoveListener, PluginThrows,
                Caught, UpdateRecord, BeginAttempt, DispatchTask, AwaitDispatch, ExecuteTask, HandlerStarts,
                LookAtTask, RegisterAgent, Subscribe, RegisterThrows, NoteLoaded, Serve, Submit,
                JobGoesOn, PostTask, ReadStatus, WriteStatus, HandlerReturns, Connect, Close, vars, registry
  <1>5. working' \subseteq Tasks
    <2>1. CASE working' \subseteq working
      BY <2>1 DEF Typed
    <2>2. CASE HandlerStarts
      <3>1. Head(todo).about \in Tasks
        BY <2>2, OnTop, ItemKinds DEF HandlerStarts, AtTop, TaskItems, Shape
      <3> QED BY <2>2, <3>1 DEF HandlerStarts, Typed
    <2> QED BY <2>1, <2>2
            DEF Next, Proceed, EmitEvent, TellSocket, TellAttempt, TellPlugin, RemoveListener, PluginThrows,
                Caught, UpdateRecord, BeginAttempt, DispatchTask, AwaitDispatch, ExecuteTask,
                LookAtTask, RegisterAgent, Subscribe, RegisterThrows, NoteLoaded, LoadNext, Serve, Submit,
                JobGoesOn, PostTask, ReadStatus, WriteStatus, HandlerReturns, Connect, Close, vars
  <1> QED BY <1>1, <1>2, <1>3, <1>4, <1>5 DEF Typed, Grows

-----------------------------------------------------------------------------
(* What the sockets hear.                                                  *)

LEMMA OwedIs ==
  ASSUME NEW s, NEW r
  PROVE  /\ Owed(s, r) <=> \E a \in Left : Owes(a, s, r)
         /\ Owed(s, r)' <=> \E a \in Left' : Owes(a, s, r)
  BY DEF Owed, Left, Owes, Tells, Carries

LEMMA RingsIs ==
  ASSUME NEW s
  PROVE  /\ (\A i \in DOMAIN todo : ~Rings(todo[i], s)) <=> \A a \in Left : ~Rings(a, s)
         /\ (\A i \in DOMAIN todo : ~Rings(todo[i], s))' <=> \A a \in Left' : ~Rings(a, s)
  BY DEF Left, Rings

\* Who is owed something goes on being owed it, or is owed it by what comes.
LEMMA OwedAfter ==
  ASSUME NEW s, NEW r, NEW e, NEW M, Turn(e, M), Owes(e, s, r) => \E a \in M : Owes(a, s, r), Owed(s, r)
  PROVE  Owed(s, r)'
  <1>1. Left = {e} \cup Rest /\ Left' = M \cup Rest
    BY DEF Turn
  <1>2. PICK a \in Left : Owes(a, s, r)
    BY OwedIs
  <1> QED BY <1>1, <1>2, OwedIs

\* Nothing has changed that it is about, and what is owed goes on being owed.
LEMMA AbreastAfter ==
  ASSUME NEW s, NEW r, Abreast(s, r), UNCHANGED <<told, base, link>>, record'[r] = record[r],
         cut \subseteq cut', phase' # "down" => phase # "down",
         Owed(s, r) /\ r[1] \notin cut' /\ phase' # "down" /\ link[s] = "open" => Owed(s, r)'
  PROVE  Abreast(s, r)'
  <1>1. Watches(s, r)' <=> Watches(s, r)
    BY DEF Watches
  <1>2. Current(s, r) => Current(s, r)'
    BY DEF Current, Version
  <1> QED BY <1>1, <1>2 DEF Abreast

LEMMA EmitAbreast ==
  ASSUME Typed, Stacked, AllFit, Paired, EmitEvent, NEW s \in Sockets, NEW r \in Records, Abreast(s, r)
  PROVE  Abreast(s, r)'
  <1>1. UNCHANGED <<told, base, link, record, cut, phase>>
    BY DEF EmitEvent, sockets
  <1>2. PICK e : e = Head(todo)
    OBVIOUS
  <1>3. Turn(e, Called(e)) /\ e \in Emits
    BY <1>2, EmitTurn
  <1>4. ASSUME Owes(e, s, r), link[s] = "open" PROVE \E a \in Called(e) : Owes(a, s, r)
    <2>1. e.do = "emit" /\ e.about = r /\ e.event \in SocketEvents
      BY <1>3, <1>4 DEF Owes, Tells, Carries, Emits
    <2>2. Listens(Socket(s), e.event)
      BY <1>4, <2>1 DEF Paired, Events
    <2>3. PICK k \in DOMAIN listeners[e.event] : listeners[e.event][k] = Socket(s)
      BY <2>2 DEF Listens, Among
    <2>4. Call(Socket(s), e) \in Called(e)
      BY <2>3 DEF Called
    <2>5. Owes(Call(Socket(s), e), s, r)
      BY <2>1 DEF Owes, Tells, Carries, Call
    <2> QED BY <2>4, <2>5
  <1>5. Owed(s, r) /\ link[s] = "open" => Owed(s, r)'
    BY <1>3, <1>4, OwedAfter
  <1> QED BY <1>1, <1>5, AbreastAfter

\* Calls that are no socket's are none that it is told by.
LEMMA SilentAbreast ==
  ASSUME NEW e, NEW M, Turn(e, M), UNCHANGED <<told, base, link, record, cut, phase>>,
         e.do \notin {"emit", "call", "update"} \/ (e.do = "call" /\ e.listener[1] # "socket"),
         NEW s \in Sockets, NEW r \in Records, Abreast(s, r)
  PROVE  Abreast(s, r)'
  <1>1. ~Owes(e, s, r)
    BY WhoListens DEF Owes
  <1>2. Owed(s, r) => Owed(s, r)'
    BY <1>1, OwedAfter
  <1> QED BY <1>2, AbreastAfter

LEMMA PopAbreast ==
  ASSUME Typed, Stacked, AllFit, todo # <<>>, Then(<<>>), UNCHANGED <<told, base, link, record, cut, phase>>,
         \/ Head(todo).do \notin {"emit", "call", "update"}
         \/ Head(todo).do = "call" /\ Head(todo).listener[1] # "socket",
         NEW s \in Sockets, NEW r \in Records, Abreast(s, r)
  PROVE  Abreast(s, r)'
  <1>1. Turn(Head(todo), {})
    BY PopTurn
  <1> QED BY <1>1, SilentAbreast

LEMMA TellAbreast ==
  ASSUME Typed, Stacked, AllFit, TellSocket, NEW s \in Sockets, NEW r \in Records, Abreast(s, r)
  PROVE  Abreast(s, r)'
  <1>1. UNCHANGED <<base, link, record, cut, phase>>
    BY DEF TellSocket
  <1>2. PICK e, z, q : /\ Turn(e, {}) /\ e.do = "call" /\ e.listener = Socket(z) /\ z \in Sockets
                       /\ q = e.about /\ q \in Records
                       /\ \/ InScope(z, q) /\ TellsNow(z, q, Version(q))
                          \/ ~InScope(z, q) /\ told' = told
    BY Telling
  <1>3. InScope(s, r) <=> Watches(s, r)
    BY DEF InScope, Watches, WorkspaceOf
  <1>4. ASSUME s # z \/ r # q PROVE Owed(s, r) => Owed(s, r)'
    <2>1. ~Owes(e, s, r)
      BY <1>2, <1>4 DEF Owes, Socket
    <2> QED BY <1>2, <2>1, OwedAfter
  <1>5. PICK v \in Nat : v = Version(q)
    BY <1>2 DEF Typed, Version, States
  <1>6. CASE told' = told /\ (s # z \/ r # q)
    BY <1>1, <1>4, <1>6, AbreastAfter
  <1>7. CASE told' = told /\ s = z /\ r = q /\ ~InScope(z, q)
    BY <1>3, <1>7 DEF Abreast, Watches
  <1>8. CASE TellsNow(z, q, v)
    <2>1. /\ told'[z][q] = v
          /\ s # z \/ r # q => told'[s][r] = told[s][r]
      <3>1. /\ told'[z][q] = v
            /\ \A s2 \in Sockets : \A r2 \in Records : (s2 # z \/ r2 # q) => told'[s2][r2] = told[s2][r2]
        BY <1>2, <1>5, <1>8, ToldIs
      <3> QED BY <3>1
    <2>2. s = z /\ r = q => Current(s, r)'
      BY <1>1, <1>5, <2>1 DEF Current, Version
    <2>3. s # z \/ r # q => (Current(s, r) => Current(s, r)')
      BY <1>1, <2>1 DEF Current, Version
    <2>4. Watches(s, r)' <=> Watches(s, r)
      BY DEF Watches
    <2> QED BY <1>1, <1>4, <2>2, <2>3, <2>4 DEF Abreast
  <1> QED BY <1>2, <1>5, <1>6, <1>7, <1>8

\* A record that is written is told of by an event that comes.
LEMMA WriteAbreast ==
  ASSUME Typed, NEW q, NEW u, Writes(q, u), UNCHANGED <<told, base, link, cut, phase>>,
         \A z \in Sockets : (\E a \in Left' : Owes(a, z, q)) \/ (u.version = record[q].version /\ Left = {}),
         \A z \in Sockets : \A x \in Records : x # q /\ Owed(z, x) => Owed(z, x)',
         NEW s \in Sockets, NEW r \in Records, Abreast(s, r)
  PROVE  Abreast(s, r)'
  <1>1. record'[q] = u /\ \A x \in Records : x # q => record'[x] = record[x]
    BY WritesGrow
  <1>2. CASE r # q
    BY <1>1, <1>2, AbreastAfter
  <1>3. CASE r = q /\ \E a \in Left' : Owes(a, s, q)
    BY <1>3, OwedIs DEF Abreast
  <1>4. CASE r = q /\ u.version = record[q].version /\ Left = {}
    <2>1. ~Owed(s, r)
      BY <1>4, OwedIs
    <2>2. Current(s, r) => Current(s, r)'
      BY <1>1, <1>4 DEF Current, Version
    <2>3. Watches(s, r)' <=> Watches(s, r)
      BY DEF Watches
    <2> QED BY <2>1, <2>2, <2>3 DEF Abreast
  <1> QED BY <1>2, <1>3, <1>4

\* An event that the sockets listen to tells all of them of its record.
LEMMA Announces ==
  ASSUME NEW r, NEW what, NEW u, <<r[1], what>> \in SocketEvents
  PROVE  \A s : Owes(Emit(what, r, u), s, r)
  BY DEF Owes, Tells, Carries, Emit

LEMMA UpdateAbreast ==
  ASSUME Typed, Stacked, AllFit, UpdateRecord, NEW s \in Sockets, NEW r \in Records, Abreast(s, r)
  PROVE  Abreast(s, r)'
  <1>1. UNCHANGED <<told, base, link, cut, phase>>
    BY DEF UpdateRecord, sockets
  <1>2. PICK q, u : UpdateTurns(Head(todo), q, u)
    BY UpdateTurn
  <1>3. PICK e : e = Head(todo)
    OBVIOUS
  <1>4. UpdateTurns(e, q, u)
    BY <1>2, <1>3
  <1>5. Writes(q, u)
    BY <1>4, UpdateWrites
  <1>6. PICK M : Turn(e, M) /\ Emit("updated", q, u) \in M
    BY <1>4 DEF UpdateTurns
  <1>7. \A z \in Sockets : \E a \in Left' : Owes(a, z, q)
    <2>1. <<q[1], "updated">> \in SocketEvents
      BY <1>4 DEF UpdateTurns, SocketEvents
    <2> QED BY <1>6, <2>1, Announces DEF Turn
  <1>8. ASSUME NEW z \in Sockets, NEW x \in Records, x # q, Owed(z, x) PROVE Owed(z, x)'
    <2>1. ~Owes(e, z, x)
      BY <1>4, <1>8 DEF UpdateTurns, Owes
    <2> QED BY <1>6, <1>8, <2>1, OwedAfter
  <1> QED BY <1>1, <1>5, <1>7, <1>8, WriteAbreast

LEMMA DispatchAbreast ==
  ASSUME Typed, Stacked, AllFit, DispatchTask, NEW s \in Sockets, NEW r \in Records, Abreast(s, r)
  PROVE  Abreast(s, r)'
  <1>1. UNCHANGED <<told, base, link, cut, phase>>
    BY DEF DispatchTask, sockets
  <1>2. PICK e : e = Head(todo)
    OBVIOUS
  <1>3. PICK t : DispatchTurns(e, t)
    BY <1>2, DispatchTurn
  <1>4. Writes(t, New)
    BY <1>2, <1>3, DispatchWrites
  <1>5. PICK M : Turn(e, M) /\ Emit("updated", t, New) \in M
    BY <1>3 DEF DispatchTurns
  <1>6. \A z \in Sockets : \E a \in Left' : Owes(a, z, t)
    <2>1. <<t[1], "updated">> \in SocketEvents
      BY <1>3 DEF DispatchTurns, SocketEvents, Tasks
    <2> QED BY <1>5, <2>1, Announces DEF Turn
  <1>7. ASSUME NEW z \in Sockets, NEW x \in Records, x # t, Owed(z, x) PROVE Owed(z, x)'
    <2>1. ~Owes(e, z, x)
      BY <1>3 DEF DispatchTurns, Owes
    <2> QED BY <1>5, <1>7, <2>1, OwedAfter
  <1> QED BY <1>1, <1>4, <1>6, <1>7, WriteAbreast

LEMMA SubmitAbreast ==
  ASSUME Typed, NEW j \in Jobs, Submit(j), NEW s \in Sockets, NEW r \in Records, Abreast(s, r)
  PROVE  Abreast(s, r)'
  <1>1. UNCHANGED <<told, base, link, cut, phase>> /\ todo = <<>>
    BY DEF Submit, sockets, Ready
  <1>2. PICK q : q = JobRec(j)
    OBVIOUS
  <1>3. Writes(q, New)
    BY <1>2, SubmitWrites
  <1>4. Left = {} /\ Emit("updated", q, New) \in Left'
    BY <1>1, <1>2, LeftIs DEF Submit
  <1>5. \A z \in Sockets : \E a \in Left' : Owes(a, z, q)
    <2>1. <<q[1], "updated">> \in SocketEvents
      BY <1>2 DEF JobRec, SocketEvents
    <2> QED BY <1>4, <2>1, Announces
  <1>6. \A z \in Sockets : \A x \in Records : ~Owed(z, x)
    BY <1>4, OwedIs
  <1> QED BY <1>1, <1>3, <1>5, <1>6, WriteAbreast

LEMMA StatusAbreast ==
  ASSUME EventsAssumption, Typed, Counted, NEW c \in Requests, WriteStatus(c),
         NEW s \in Sockets, NEW r \in Records, Abreast(s, r)
  PROVE  Abreast(s, r)'
  <1>1. UNCHANGED <<told, base, link, cut, phase>>
    BY DEF WriteStatus, sockets
  <1>2. PICK q, b : StatusTurns(c, q, b)
    BY StatusTurn
  <1>3. todo = <<>> /\ Left = {}
    BY <1>2, LeftIs DEF StatusTurns
  <1>4. \A z \in Sockets : \A x \in Records : ~Owed(z, x)
    BY <1>3, OwedIs
  <1>5. CASE UNCHANGED <<record, todo>>
    BY <1>1, <1>4, <1>5, AbreastAfter
  <1>6. CASE ~UNCHANGED <<record, todo>>
    <2>1. PICK u : /\ Writes(q, u)
                   /\ u.version = record[q].version + (IF record[q].status = "analyzing" THEN 0 ELSE 1)
                   /\ \/ b.after = "analyzing" /\ todo' = <<>>
                      \/ /\ b.after # "analyzing"
                         /\ todo' = <<Emit("status_changed", q, u), Catch("request", q)>>
      BY <1>2, <1>6 DEF StatusTurns
    <2>2. CASE b.after = "analyzing"
      <3>1. record[q].status = "analyzing"
        BY <1>2, <2>2 DEF StatusTurns, Counted, TaskRec
      <3>2. record[q].version \in Nat
        BY <2>1 DEF Writes, States
      <3>3. u.version = record[q].version
        BY <2>1, <3>1, <3>2
      <3> QED BY <1>1, <1>3, <1>4, <2>1, <3>3, WriteAbreast
    <2>3. CASE b.after # "analyzing"
      <3>1. Emit("status_changed", q, u) \in Left'
        BY <2>1, <2>3, LeftIs
      <3>2. <<q[1], "status_changed">> \in SocketEvents
        BY <1>2 DEF StatusTurns, SocketEvents
      <3>3. \A z \in Sockets : \E a \in Left' : Owes(a, z, q)
        BY <3>1, <3>2, Announces
      <3> QED BY <1>1, <1>4, <2>1, <3>3, WriteAbreast
    <2> QED BY <2>2, <2>3
  <1> QED BY <1>5, <1>6

\* Nothing was left to do, and no record or socket has changed.
LEMMA IdleAbreast ==
  ASSUME todo = <<>>, UNCHANGED <<told, base, link, record, cut>>, phase # "down",
         NEW s \in Sockets, NEW r \in Records, Abreast(s, r)
  PROVE  Abreast(s, r)'
  <1>1. ~Owed(s, r)
    BY LeftIs, OwedIs
  <1> QED BY <1>1, AbreastAfter

LEMMA ConnectAbreast ==
  ASSUME Typed, NEW z \in Sockets, Connect(z) \/ Close(z), NEW s \in Sockets, NEW r \in Records, Abreast(s, r),
         link[s] = "new" => told[s][r] = 0
  PROVE  Abreast(s, r)'
  <1>1. UNCHANGED <<told, record, cut, phase, todo>>
    BY DEF Connect, Close
  <1>2. Watches(s, r)' <=> Watches(s, r)
    BY DEF Watches
  <1>3. Owed(s, r)' <=> Owed(s, r)
    BY <1>1 DEF Owed, Owes, Tells, Carries
  <1>4. CASE s # z
    <2>1. link'[s] = link[s] /\ base'[s] = base[s]
      BY <1>4 DEF Connect, Close, Typed
    <2> QED BY <1>1, <1>2, <1>3, <2>1 DEF Abreast, Current, Version
  <1>5. CASE s = z /\ Connect(z)
    <2>1. base'[s][r] = record[r].version /\ told[s][r] = 0
      BY <1>5 DEF Connect, Typed
    <2>2. Current(s, r)'
      BY <1>1, <2>1 DEF Current, Version
    <2> QED BY <2>2 DEF Abreast
  <1>6. CASE s = z /\ Close(z)
    <2>1. link'[s] = "closed"
      BY <1>6 DEF Close, Typed
    <2> QED BY <2>1 DEF Abreast
  <1> QED BY <1>4, <1>5, <1>6

\* The call on the top and those below it.
LEMMA LeftIsTop ==
  ASSUME Typed, Stacked, AllFit, todo # <<>>
  PROVE  /\ Head(todo) \in Items /\ Fits(Head(todo)) /\ Left = {Head(todo)} \cup Rest
         /\ \A a \in Rest : a \in Items /\ Fits(a) /\ Above(Head(todo), a)
  <1>1. Len(todo) \in Nat /\ Len(todo) > 0 /\ DOMAIN todo = 1..Len(todo) /\ Head(todo) = todo[1]
    BY OnTop DEF Typed
  <1>2. Left = {todo[1]} \cup Rest /\ todo[1] \in Left /\ Rest \subseteq Left
    <2>1. \A i \in DOMAIN todo : i = 1 \/ i \in (1 + 1)..Len(todo)
      BY <1>1
    <2>2. \A i \in (1 + 1)..Len(todo) : i \in DOMAIN todo
      BY <1>1
    <2>3. 1 \in DOMAIN todo
      BY <1>1
    <2> QED BY <2>1, <2>2, <2>3 DEF Left, Rest, Lower
  <1>3. \A a \in Left : a \in Items /\ Fits(a)
    BY ElementOfSeq DEF Left, AllFit, Typed
  <1>4. \A i \in (1 + 1)..Len(todo) : Above(todo[1], todo[i])
    <2> TAKE i \in (1 + 1)..Len(todo)
    <2>1. i \in DOMAIN todo /\ 1 \in 1..(i - 1)
      BY <1>1
    <2> QED BY <2>1 DEF Stacked
  <1> QED BY <1>1, <1>2, <1>3, <1>4 DEF Rest, Lower

\* An event that is not the end of something, and the kind it is about.
LEMMA Throwing ==
  ASSUME NEW e \in Items, Fits(e), e \in CallItems, e.event[2] \notin Settled, NEW r \in Records,
         e.about[1] = r[1]
  PROVE  e.event[2] \in {"created", "updated", "status_changed"} /\ e.event[1] = r[1]
  <1>1. e.event[1] = e.about[1] /\ e.event \in Events /\ e.do = "call"
    BY Fitting DEF CallItems, Tells
  <1>2. r[1] \in {"job", "task", "workspace"}
    BY Names
  <1> QED BY <1>1, <1>2 DEF Events, SocketEvents, Settled

\* What a throw leaves undone stands above the catch, and above a request's
\* there are only events that do not end anything and what leads to them.
Loses(c, B) ==
  /\ \A a \in Left : a \in B \/ a = c \/ (Above(a, c) /\ (c.where = "request" => Plain(a, c.about)))
  /\ Head(todo).do # "catch" => Above(Head(todo), c) /\ (c.where = "request" => Plain(Head(todo), c.about))

LEMMA ThrowLoses ==
  ASSUME Typed, Stacked, Bottom, Framed, AllFit, todo # <<>>, Unwind
  PROVE  (todo' = <<>> /\ phase' = "down") \/ \E c, M, B : ThrowTurns(c, M, B) /\ Loses(c, B)
  <1>1. CASE \E d, P : Unwound(d, P)
    <2>1. PICK d, P : Unwound(d, P)
      BY <1>1
    <2>2. /\ d \in DOMAIN todo /\ todo[d] \in Items /\ todo[d].do = "catch" /\ Fits(todo[d])
          /\ \A j \in 1..(d - 1) : todo[j].do # "catch"
          /\ P \in Seq(Items) /\ Gives(d, P) /\ phase' = phase
      BY <2>1 DEF Unwound
    <2>3. /\ Left' = Made(P) \cup Lower(d) /\ Lower(d) \subseteq Left
          /\ \A a \in Lower(d) : a \in Items /\ Fits(a) /\ Above(todo[d], a)
      BY <2>2, LeftAfter
    <2>4. todo[d] \in Left /\ Made(P) \subseteq Items
      BY <2>2, LenProperties, ElementOfSeq DEF Left, Made
    <2>5. \/ todo[d].where = "request" /\ Made(P) = {}
          \/ /\ todo[d].where = "execute" /\ todo[d].about \in Tasks
             /\ Made(P) = {Update(todo[d].about, [status |-> "failed"])}
          \/ /\ todo[d].where = "loader" /\ todo[d].about \in Plugs
             /\ Made(P) = {Emit("failed", todo[d].about, Absent)}
      BY <2>1, MadeOf DEF Unwound
    <2>6. ThrowTurns(todo[d], Made(P), Lower(d))
      BY <2>2, <2>3, <2>4, <2>5 DEF ThrowTurns
    <2>7. Len(todo) \in Nat /\ DOMAIN todo = 1..Len(todo) /\ d \in 1..Len(todo) /\ Head(todo) = todo[1] /\
           1 \in DOMAIN todo
      BY <2>2, OnTop DEF Typed
    <2>8. ASSUME NEW k \in DOMAIN todo, k < d
          PROVE  Above(todo[k], todo[d]) /\ (todo[d].where = "request" => Plain(todo[k], todo[d].about))
      <3>1. k \in 1..(d - 1) /\ Above(todo[k], todo[d])
        BY <2>2, <2>7, <2>8 DEF Stacked
      <3>2. ASSUME NEW m \in k..(d - 1), todo[m] = Nobody PROVE FALSE
        <4>1. m \in 1..(d - 1)
          BY <2>7, <3>1
        <4> QED BY <2>2, <3>2, <4>1 DEF Nobody, Catch
      <3> QED BY <2>2, <3>1, <3>2 DEF Framed
    <2>9. ASSUME NEW k \in DOMAIN todo, ~(k < d), k # d PROVE todo[k] \in Lower(d)
      <3>1. k \in (d + 1)..Len(todo)
        BY <2>7, <2>9
      <3> QED BY <3>1 DEF Lower
    <2>10. \A a \in Left : \/ a \in Lower(d) \/ a = todo[d]
                           \/ Above(a, todo[d]) /\ (todo[d].where = "request" => Plain(a, todo[d].about))
      BY <2>8, <2>9 DEF Left
    <2>11. Head(todo).do # "catch" => 1 < d
      BY <2>2, <2>7
    <2>12. Loses(todo[d], Lower(d))
      BY <2>7, <2>8, <2>10, <2>11 DEF Loses
    <2> QED BY <2>6, <2>12
  <1> QED BY <1>1, UnwindGives

\* What stands above a catch.
LEMMA UnderCatch ==
  ASSUME NEW a, NEW c, Above(a, c), c.do = "catch"
  PROVE  /\ c.where = "execute" => \/ TellsOf(a, c.about) \/ a = Update(c.about, [status |-> "completed"])
                                   \/ TellsOf(a, JobRec(c.about[2]))
                                   \/ a = Update(JobRec(c.about[2]), [status |-> "completed"])
                                   \/ a.do = "off"
         /\ c.where = "loader" => TellsOf(a, c.about) \/ a.do \in {"register", "loaded"}
  BY DEF Above

\* What a socket was owed of a record and a throw has lost: its kind is noted.
LEMMA ThrowAbreast ==
  ASSUME Typed, Shape, AllFit, PluginThrows \/ RegisterThrows,
         NEW s \in Sockets, NEW r \in Records, Abreast(s, r)
  PROVE  Abreast(s, r)'
  <1>1. UNCHANGED <<told, base, link, record>> /\ todo # <<>> /\ Unwind
    BY DEF PluginThrows, RegisterThrows, sockets, AtTop, Calling
  <1>2. PICK e : e = Head(todo)
    OBVIOUS
  <1>3. e \in Items /\ Fits(e) /\ Left = {e} \cup Rest /\ \A a \in Rest : a \in Items /\ Fits(a) /\ Above(e, a)
    BY <1>1, <1>2, LeftIsTop DEF Shape
  <1>4. \/ PluginThrows /\ e.do = "call" /\ e.listener[1] = "plugin" /\ e \in CallItems
        \/ RegisterThrows /\ e.do = "register"
    BY <1>2, <1>3, ItemKinds DEF PluginThrows, RegisterThrows, AtTop, Calling
  <1>5. /\ cut \subseteq cut'
        /\ PluginThrows /\ e.event[2] \in {"created", "updated", "status_changed"} => e.event[1] \in cut'
    BY <1>2 DEF PluginThrows, RegisterThrows
  <1>6. CASE phase' = "down"
    BY <1>6 DEF Abreast
  <1>7. CASE \E c, M, B : ThrowTurns(c, M, B) /\ Loses(c, B)
    <2>1. PICK c, M, B : ThrowTurns(c, M, B) /\ Loses(c, B)
      BY <1>7
    <2>2. c \in Items /\ c.do = "catch" /\ Left' = M \cup B
      BY <2>1 DEF ThrowTurns
    <2>3. ~Owes(e, s, r)
      BY <1>4, WhoListens DEF Owes
    <2>4. Above(e, c) /\ (c.where = "request" => Plain(e, c.about))
      BY <1>2, <1>4, <2>1 DEF Loses
    <2>5. ASSUME NEW a \in Left, Owes(a, s, r), a \notin B, ~\E m \in M : Owes(m, s, r)
          PROVE  r[1] \in cut'
      <3>1. a # c /\ a # e /\ a \in Rest /\ a.about = r
        BY <1>3, <2>2, <2>3, <2>5 DEF Owes
      <3>2. Above(a, c) /\ (c.where = "request" => Plain(a, c.about)) /\ Above(e, a)
        BY <1>3, <2>1, <2>5, <3>1 DEF Loses
      <3>3. CASE c.where = "request"
        <4>1. Tells(a) /\ a.about[1] = c.about[1]
          BY <2>5, <3>2, <3>3 DEF Plain, Owes
        <4>2. PluginThrows /\ Tells(e) /\ e.about[1] = c.about[1] /\ e.event[2] \notin Settled
          BY <1>4, <2>4, <3>3 DEF Plain, Tells
        <4>3. e \in CallItems /\ e.about[1] = r[1]
          BY <1>4, <3>1, <4>1, <4>2 DEF RegisterThrows, PluginThrows, Tells
        <4>4. e.event[2] \in {"created", "updated", "status_changed"} /\ e.event[1] = r[1]
          BY <1>3, <4>2, <4>3, Throwing
        <4> QED BY <1>5, <4>2, <4>4
      <3>4. CASE c.where = "execute"
        <4>1. c.about # r
          <5>1. ASSUME c.about = r PROVE Owes(Update(c.about, [status |-> "failed"]), s, r)
            BY <5>1 DEF Owes, Tells, Update
          <5> QED BY <2>1, <2>5, <3>4, <5>1 DEF ThrowTurns
        <4>2. TellsOf(a, JobRec(c.about[2])) \/ a = Update(JobRec(c.about[2]), [status |-> "completed"])
          <5>1. \/ TellsOf(a, c.about) \/ a = Update(c.about, [status |-> "completed"])
                \/ TellsOf(a, JobRec(c.about[2])) \/ a = Update(JobRec(c.about[2]), [status |-> "completed"])
                \/ a.do = "off"
            BY <2>2, <3>2, <3>4, UnderCatch
          <5>2. ~TellsOf(a, c.about) /\ a.about # c.about /\ a.do # "off"
            BY <2>5, <3>1, <4>1 DEF Owes, TellsOf
          <5> QED BY <5>1, <5>2 DEF Update
        <4>3. r = JobRec(c.about[2]) /\ r[1] = "job"
          BY <3>1, <4>2 DEF TellsOf, Update, JobRec
        <4>4. Tells(a)
          <5>1. a.do # "update"
            BY <3>1, <3>2, <4>3 DEF Above
          <5> QED BY <2>5, <5>1 DEF Owes, Tells
        <4>5. TellsOf(e, r) /\ Follows(e, a)
          BY <3>1, <3>2, <4>3, <4>4 DEF Above
        <4>6. a.event[2] \notin Settled
          BY <2>5, <4>4 DEF Owes, Carries, SocketEvents, Settled
        <4>7. PluginThrows /\ e.about = r /\ e.event[2] \notin Settled
          BY <1>4, <4>5, <4>6 DEF Follows, TellsOf, Tells
        <4>8. e \in CallItems /\ e.about[1] = r[1]
          BY <1>4, <4>5, <4>7 DEF TellsOf, Tells
        <4>9. e.event[2] \in {"created", "updated", "status_changed"} /\ e.event[1] = r[1]
          BY <1>3, <4>7, <4>8, Throwing
        <4> QED BY <1>5, <4>7, <4>9
      <3>5. CASE c.where = "loader"
        <4>1. c.about \in Plugs
          BY <2>1, <3>5 DEF ThrowTurns
        <4>2. TellsOf(a, c.about)
          BY <2>2, <2>5, <3>2, <3>5, UnderCatch DEF Owes
        <4>3. a.about \in Plugs
          BY <4>1, <4>2 DEF TellsOf
        <4> QED BY <3>1, <4>3, Names
      <3> QED BY <2>1, <3>3, <3>4, <3>5 DEF ThrowTurns
    <2>6. ASSUME Owed(s, r), r[1] \notin cut' PROVE Owed(s, r)'
      <3>1. PICK a \in Left : Owes(a, s, r)
        BY <2>6, OwedIs
      <3> QED BY <2>2, <2>5, <2>6, <3>1, OwedIs
    <2>7. phase' = phase
      BY <2>1 DEF ThrowTurns
    <2> QED BY <1>1, <1>5, <2>6, <2>7, AbreastAfter
  <1> QED BY <1>1, <1>6, <1>7, ThrowLoses DEF Shape

\* Only an emission makes calls.
LEMMA RingsCome ==
  ASSUME EventsAssumption, Typed, Shape, AllFit, Counted, [Next]_vars, NEW a \in Left', a.do = "call"
  PROVE  a \in Left \/ (EmitEvent /\ a \in Called(Head(todo)))
  <1>1. ASSUME NEW e, NEW M, Turn(e, M), \A b \in M : b.do # "call" PROVE a \in Left
    BY <1>1 DEF Turn
  <1>2. CASE todo # <<>> /\ Then(<<>>)
    <2>1. Turn(Head(todo), {})
      BY <1>2, PopTurn DEF Shape
    <2> QED BY <1>1, <2>1
  <1>3. CASE EmitEvent
    <2>1. Turn(Head(todo), Called(Head(todo)))
      BY <1>3, EmitTurn DEF Shape
    <2> QED BY <1>3, <2>1 DEF Turn
  <1>4. CASE TellAttempt
    <2>1. PICK j, l : AttemptTurns(Head(todo), j, l)
      BY <1>4, AttemptTurn DEF Shape
    <2>2. CASE Turn(Head(todo), {})
      BY <1>1, <2>2
    <2>3. CASE \E x : Ending(j, x, Head(todo).snapshot) /\ Turn(Head(todo), {x, Unsubscribe(l)})
      <3>1. PICK x : Ending(j, x, Head(todo).snapshot) /\ Turn(Head(todo), {x, Unsubscribe(l)})
        BY <2>3
      <3>2. x.do # "call" /\ Unsubscribe(l).do # "call"
        BY <3>1 DEF Ending, Update, RunAttempt, Unsubscribe
      <3> QED BY <1>1, <3>1, <3>2
    <2> QED BY <2>1, <2>2, <2>3 DEF AttemptTurns
  <1>5. CASE PluginThrows \/ RegisterThrows
    <2>1. todo # <<>> /\ Unwind
      BY <1>5 DEF PluginThrows, RegisterThrows, Calling, AtTop
    <2>2. todo' # <<>>
      BY LeftIs
    <2>3. PICK c, M, B : ThrowTurns(c, M, B)
      BY <2>1, <2>2, ThrowTurn DEF Shape
    <2>4. \A b \in M : b.do # "call"
      BY <2>3 DEF ThrowTurns, Update, Emit
    <2> QED BY <2>3, <2>4 DEF ThrowTurns
  <1>6. CASE UpdateRecord
    <2>1. PICK r, u : UpdateTurns(Head(todo), r, u)
      BY <1>6, UpdateTurn DEF Shape
    <2>2. PICK M : Turn(Head(todo), M) /\ \A b \in M : b.do # "call"
      BY <2>1 DEF UpdateTurns, Emit
    <2> QED BY <1>1, <2>2
  <1>7. CASE BeginAttempt
    <2>1. PICK j, n : BeginTurns(Head(todo), j, n)
      BY <1>7, BeginTurn DEF Shape
    <2>2. PICK M : Turn(Head(todo), M) /\ \A b \in M : b.do # "call"
      BY <2>1 DEF BeginTurns, Update, Dispatch, Nobody, Catch
    <2> QED BY <1>1, <2>2
  <1>8. CASE DispatchTask
    <2>1. PICK t : DispatchTurns(Head(todo), t)
      BY <1>8, DispatchTurn DEF Shape
    <2>2. PICK M : Turn(Head(todo), M) /\ \A b \in M : b.do # "call"
      BY <2>1 DEF DispatchTurns, Emit, Execute, Await
    <2> QED BY <1>1, <2>2
  <1>9. CASE ExecuteTask
    <2>1. PICK t, x : ExecuteTurns(Head(todo), t, x)
      BY <1>9, ExecuteTurn DEF Shape
    <2>2. PICK M : Turn(Head(todo), M) /\ \A b \in M : b.do # "call"
      BY <2>1 DEF ExecuteTurns, Update, StartHandler, Nobody, Catch
    <2> QED BY <1>1, <2>2
  <1>10. CASE LookAtTask
    <2>1. PICK j, n, t : LookTurns(Head(todo), j, n, t)
      BY <1>10, LookTurn DEF Shape
    <2>2. CASE Turn(Head(todo), {})
      BY <1>1, <2>2
    <2>3. CASE \E x : Ending(j, x, record[t]) /\ Turn(Head(todo), {x})
      <3>1. PICK x : Ending(j, x, record[t]) /\ Turn(Head(todo), {x})
        BY <2>3
      <3>2. x.do # "call"
        BY <3>1 DEF Ending, Update, RunAttempt
      <3> QED BY <1>1, <3>1, <3>2
    <2> QED BY <2>1, <2>2, <2>3 DEF LookTurns
  <1>11. CASE NoteLoaded
    <2>1. PICK q : LoadedTurns(Head(todo), q)
      BY <1>11, LoadedTurn DEF Shape
    <2>2. Emit("loaded", q, Absent).do # "call"
      BY DEF Emit
    <2> QED BY <1>1, <2>1, <2>2 DEF LoadedTurns
  <1>12. CASE UNCHANGED todo
    BY <1>12 DEF Left
  <1>13. CASE \E j \in Jobs : Submit(j) \/ \E n \in 1..Budget[j] : JobGoesOn(j, n)
    <2>1. PICK j \in Jobs : Submit(j) \/ \E n \in 1..Budget[j] : JobGoesOn(j, n)
      BY <1>13
    <2>2. CASE Submit(j)
      <3>1. Left' = {Emit("created", JobRec(j), New), Emit("updated", JobRec(j), New),
                     RunAttempt(j), Catch("request", JobRec(j))}
        BY <2>2, LeftIs DEF Submit
      <3> QED BY <3>1 DEF Emit, RunAttempt, Catch
    <2>3. CASE \E n \in 1..Budget[j] : JobGoesOn(j, n)
      <3>1. PICK n : Left' = {Update(JobRec(j), <<>>), LookAt(j, n), Nobody}
        BY <2>3, LeftIs DEF JobGoesOn
      <3> QED BY <3>1 DEF Update, LookAt, Nobody, Catch
    <2> QED BY <2>1, <2>2, <2>3
  <1>14. CASE \E c \in Requests : PostTask(c) \/ ReadStatus(c) \/ WriteStatus(c)
    <2>1. PICK c \in Requests : PostTask(c) \/ ReadStatus(c) \/ WriteStatus(c)
      BY <1>14
    <2>2. CASE PostTask(c)
      <3>1. Left' = {Dispatch(c, 1), Catch("request", TaskRec(c, 1))}
        BY <2>2, LeftIs DEF PostTask
      <3> QED BY <3>1 DEF Dispatch, Catch
    <2>3. CASE ReadStatus(c)
      BY <1>12, <2>3 DEF ReadStatus
    <2>4. CASE WriteStatus(c)
      <3>1. PICK r, w : StatusTurns(c, r, w)
        BY <2>4, StatusTurn
      <3>2. PICK u : todo' = <<>> \/ todo' = todo \/
             todo' = <<Emit("status_changed", r, u), Catch("request", r)>>
        BY <3>1 DEF StatusTurns
      <3>3. Left' = {} \/ todo' = todo \/ Left' = {Emit("status_changed", r, u), Catch("request", r)}
        BY <3>2, LeftIs
      <3> QED BY <1>12, <3>3 DEF Emit, Catch
    <2> QED BY <2>1, <2>2, <2>3, <2>4
  <1>15. CASE \E t \in Records : HandlerReturns(t)
    <2>1. PICK t \in Records : HandlerReturns(t)
      BY <1>15
    <2>2. \/ todo' = <<Update(t, [status |-> "completed"]), Catch("execute", t), Nobody>>
          \/ todo' = <<Update(t, [status |-> "failed"]), Nobody>>
      BY <2>1 DEF HandlerReturns, Returned
    <2>3. \/ Left' = {Update(t, [status |-> "completed"]), Catch("execute", t), Nobody}
          \/ Left' = {Update(t, [status |-> "failed"]), Nobody}
      BY <2>2, LeftIs
    <2> QED BY <2>3 DEF Update, Catch, Nobody
  <1>16. CASE LoadNext
    <2>1. todo' # <<>>
      BY LeftIs
    <2>2. PICK p \in ToSet(Installed), P \in Seq(Items) :
           /\ todo' = P /\ Len(P) > 2
           /\ P[Len(P)] = Nobody /\ P[Len(P) - 1] = Catch("loader", PluginRec(p))
           /\ P[Len(P) - 2] = PushLoaded(p)
           /\ \A i \in 1..(Len(P) - 3) : \E x \in ToSet(Script[p]) : P[i] = Register(p, x)
      BY <1>16, <2>1, LoadGives
    <2>3. PICK i \in DOMAIN P : a = P[i]
      BY <2>2 DEF Left
    <2>4. Len(P) \in Nat /\ i \in 1..Len(P)
      BY <2>3, LenProperties
    <2>5. i = Len(P) \/ i = Len(P) - 1 \/ i = Len(P) - 2 \/ i \in 1..(Len(P) - 3)
      BY <2>4
    <2>6. a = Nobody \/ a = Catch("loader", PluginRec(p)) \/ a = PushLoaded(p) \/ \E x : a = Register(p, x)
      BY <2>2, <2>3, <2>5
    <2>7. a.do # "call"
      BY <2>6 DEF Nobody, Catch, PushLoaded, Register
    <2> QED BY <2>7
  <1>17. CASE Proceed
    BY <1>2, <1>3, <1>4, <1>5, <1>6, <1>7, <1>8, <1>9, <1>10, <1>11, <1>17
       DEF Proceed, TellSocket, TellPlugin, RemoveListener, Caught, AwaitDispatch, HandlerStarts,
           RegisterAgent, Subscribe, AtTop, Calling
  <1> QED BY <1>12, <1>13, <1>14, <1>15, <1>16, <1>17 DEF Next, Serve, Connect, Close, vars

LEMMA UncalledKeeps ==
  ASSUME EventsAssumption, Typed, Shape, AllFit, Counted, Paired, [Next]_vars, NEW s \in Sockets,
         link[s] = "new" => \A a \in Left : ~Rings(a, s), link'[s] = "new"
  PROVE  \A a \in Left' : ~Rings(a, s)
  <1>1. link[s] = "new"
    <2>1. CASE UNCHANGED link
      BY <2>1
    <2>2. CASE \E z \in Sockets : Connect(z) \/ Close(z)
      <3>1. PICK z \in Sockets : Connect(z) \/ Close(z)
        BY <2>2
      <3>2. link' = [link EXCEPT ![z] = "open"] \/ link' = [link EXCEPT ![z] = "closed"]
        BY <3>1 DEF Connect, Close
      <3> QED BY <3>2 DEF Typed
    <2>3. CASE Proceed
      BY <2>1, <2>3
         DEF Proceed, EmitEvent, TellSocket, TellAttempt, TellPlugin, PluginThrows, RemoveListener,
             Caught, UpdateRecord, BeginAttempt, DispatchTask, AwaitDispatch, ExecuteTask, HandlerStarts,
             LookAtTask, RegisterAgent, Subscribe, RegisterThrows, NoteLoaded, sockets
    <2> QED BY <2>1, <2>2, <2>3
            DEF Next, LoadNext, Serve, Submit, JobGoesOn, PostTask, ReadStatus, WriteStatus, HandlerReturns,
                vars, sockets
  <1>2. ASSUME NEW a \in Left', Rings(a, s) PROVE FALSE
    <2>1. a.do = "call" /\ a.listener = Socket(s) /\ a \notin Left
      BY <1>1, <1>2 DEF Rings
    <2>2. EmitEvent /\ a \in Called(Head(todo))
      BY <2>1, RingsCome
    <2>3. Head(todo) \in Emits
      BY <2>2, EmitTurn DEF Shape
    <2>4. PICK k \in DOMAIN listeners[Head(todo).event] : a = Call(listeners[Head(todo).event][k], Head(todo))
      BY <2>2 DEF Called
    <2>5. Listens(Socket(s), Head(todo).event) /\ Head(todo).event \in Events
      BY <2>1, <2>3, <2>4 DEF Listens, Among, Call, Emits
    <2> QED BY <1>1, <2>5 DEF Paired
  <1> QED BY <1>2

\* What is told is never older than what was told before, is of a record in
\* the socket's scope, and is told to one that has connected.
LEMMA ToldKeeps ==
  ASSUME EventsAssumption, Typed, Shape, AllFit, Heard, [Next]_vars, NEW s \in Sockets, NEW r \in Records
  PROVE  /\ told[s][r] <= told'[s][r] /\ told'[s][r] <= Version(r)'
         /\ ~Watches(s, r) \/ link'[s] = "new" => told'[s][r] = 0
  <1>1. /\ told[s][r] \in Nat /\ Version(r) \in Nat /\ Version(r)' \in Nat /\ Version(r) <= Version(r)'
        /\ told[s][r] <= Version(r) /\ (~Watches(s, r) \/ link[s] = "new" => told[s][r] = 0)
    BY RecordsGrow DEF Typed, Grows, Heard, Shape
  <1>2. CASE told' = told /\ (link'[s] = "new" => link[s] = "new")
    BY <1>1, <1>2
  <1>3. CASE TellSocket
    <2>1. PICK e, z, q : /\ Turn(e, {}) /\ e.do = "call" /\ e.listener = Socket(z) /\ z \in Sockets
                         /\ q = e.about /\ q \in Records /\ e = Head(todo)
                         /\ \/ InScope(z, q) /\ TellsNow(z, q, Version(q))
                            \/ ~InScope(z, q) /\ told' = told
      BY <1>3, Telling DEF Shape
    <2>2. link' = link
      BY <1>3 DEF TellSocket
    <2>3. CASE told' = told
      BY <1>2, <2>2, <2>3
    <2>4. CASE InScope(z, q) /\ TellsNow(z, q, Version(q))
      <3>1. PICK v \in Nat : v = Version(q)
        BY <2>1 DEF Typed, Version, States
      <3>2. /\ told'[z][q] = v
            /\ \A s2 \in Sockets : \A r2 \in Records : (s2 # z \/ r2 # q) => told'[s2][r2] = told[s2][r2]
        BY <2>1, <2>4, <3>1, ToldIs
      <3>3. CASE s # z \/ r # q
        <4>1. told'[s][r] = told[s][r]
          BY <3>2, <3>3
        <4> QED BY <1>1, <2>2, <4>1
      <3>4. CASE s = z /\ r = q
        <4>1. told'[s][r] = Version(r)
          BY <3>1, <3>2, <3>4
        <4>2. Watches(s, r)
          BY <2>4, <3>4 DEF InScope, Watches, WorkspaceOf
        <4>3. link[s] # "new"
          <5>1. e \in Left /\ Rings(e, s)
            BY <2>1, <3>4 DEF Turn, Rings
          <5> QED BY <5>1, RingsIs DEF Heard
        <4> QED BY <1>1, <2>2, <4>1, <4>2, <4>3
      <3> QED BY <3>3, <3>4
    <2> QED BY <2>1, <2>3, <2>4
  <1>4. CASE UNCHANGED <<link, told>>
    BY <1>2, <1>4
  <1>5. CASE \E z \in Sockets : Connect(z) \/ Close(z)
    <2>1. PICK z \in Sockets : Connect(z) \/ Close(z)
      BY <1>5
    <2>2. told' = told /\ (link' = [link EXCEPT ![z] = "open"] \/ link' = [link EXCEPT ![z] = "closed"])
      BY <2>1 DEF Connect, Close
    <2>3. link'[s] = "new" => link[s] = "new"
      BY <2>2 DEF Typed
    <2> QED BY <1>2, <2>2, <2>3
  <1>6. CASE Proceed
    BY <1>3, <1>4, <1>6
       DEF Proceed, EmitEvent, TellAttempt, TellPlugin, PluginThrows, RemoveListener,
           Caught, UpdateRecord, BeginAttempt, DispatchTask, AwaitDispatch, ExecuteTask, HandlerStarts,
           LookAtTask, RegisterAgent, Subscribe, RegisterThrows, NoteLoaded, sockets
  <1> QED BY <1>4, <1>5, <1>6
          DEF Next, LoadNext, Serve, Submit, JobGoesOn, PostTask, ReadStatus, WriteStatus, HandlerReturns,
              vars, sockets

LEMMA AbreastKeeps ==
  ASSUME EventsAssumption, Typed, Shape, AllFit, Counted, Paired, Heard, [Next]_vars,
         NEW s \in Sockets, NEW r \in Records
  PROVE  Abreast(s, r)'
  <1>1. Abreast(s, r) /\ (link[s] = "new" => told[s][r] = 0)
    BY DEF Heard
  <1>2. CASE Proceed
    <2>1. CASE EmitEvent
      BY <1>1, <2>1, EmitAbreast DEF Shape
    <2>2. CASE TellSocket
      BY <1>1, <2>2, TellAbreast DEF Shape
    <2>3. CASE PluginThrows \/ RegisterThrows
      BY <1>1, <2>3, ThrowAbreast
    <2>4. CASE UpdateRecord
      BY <1>1, <2>4, UpdateAbreast DEF Shape
    <2>5. CASE DispatchTask
      BY <1>1, <2>5, DispatchAbreast DEF Shape
    <2>6. CASE TellPlugin \/ RemoveListener \/ Caught \/ AwaitDispatch \/ HandlerStarts \/ RegisterAgent \/
           Subscribe
      <3>1. /\ todo # <<>> /\ Then(<<>>) /\ UNCHANGED <<told, base, link, record, cut, phase>>
            /\ \/ Head(todo).do \notin {"emit", "call", "update"}
               \/ Head(todo).do = "call" /\ Head(todo).listener[1] # "socket"
        BY <2>6 DEF TellPlugin, RemoveListener, Caught, AwaitDispatch, HandlerStarts, RegisterAgent, Subscribe,
                    AtTop, Calling, sockets
      <3> QED BY <1>1, <3>1, PopAbreast DEF Shape
    <2>7. CASE TellAttempt \/ BeginAttempt \/ ExecuteTask \/ LookAtTask \/ NoteLoaded
      <3>1. PICK e : e = Head(todo)
        OBVIOUS
      <3>2. /\ UNCHANGED <<told, base, link, record, cut, phase>>
            /\ e.do \notin {"emit", "call", "update"} \/ (e.do = "call" /\ e.listener[1] # "socket")
        BY <2>7, <3>1 DEF TellAttempt, BeginAttempt, ExecuteTask, LookAtTask, NoteLoaded, AtTop, Calling,
               sockets
      <3>3. \E M : Turn(e, M)
        <4>1. CASE TellAttempt
          BY <3>1, <4>1, AttemptTurn DEF AttemptTurns, Shape
        <4>2. CASE BeginAttempt
          BY <3>1, <4>2, BeginTurn DEF BeginTurns, Shape
        <4>3. CASE ExecuteTask
          BY <3>1, <4>3, ExecuteTurn DEF ExecuteTurns, Shape
        <4>4. CASE LookAtTask
          BY <3>1, <4>4, LookTurn DEF LookTurns, Shape
        <4>5. CASE NoteLoaded
          BY <3>1, <4>5, LoadedTurn DEF LoadedTurns, Shape
        <4> QED BY <2>7, <4>1, <4>2, <4>3, <4>4, <4>5
      <3>4. PICK M : Turn(e, M)
        BY <3>3
      <3> QED BY <1>1, <3>2, <3>4, SilentAbreast
    <2> QED BY <1>2, <2>1, <2>2, <2>3, <2>4, <2>5, <2>6, <2>7 DEF Proceed
  <1>3. CASE UNCHANGED vars
    <2>1. UNCHANGED <<told, base, link, record, cut, phase, todo>>
      BY <1>3 DEF vars, sockets
    <2>2. Owed(s, r)' <=> Owed(s, r)
      BY <2>1 DEF Owed, Owes, Tells, Carries
    <2> QED BY <1>1, <2>1, <2>2, AbreastAfter
  <1>4. CASE \E j \in Jobs : Submit(j)
    BY <1>1, <1>4, SubmitAbreast
  <1>5. CASE \E c \in Requests : WriteStatus(c)
    BY <1>1, <1>5, StatusAbreast
  <1>6. CASE \E z \in Sockets : Connect(z) \/ Close(z)
    BY <1>1, <1>6, ConnectAbreast
  <1>7. CASE \/ LoadNext \/ Serve \/ \E j \in Jobs : \E n \in 1..Budget[j] : JobGoesOn(j, n)
             \/ \E c \in Requests : PostTask(c) \/ ReadStatus(c)
             \/ \E t \in Records : HandlerReturns(t)
    <2>1. todo = <<>> /\ UNCHANGED <<told, base, link, record, cut>> /\ phase # "down"
      BY <1>7 DEF LoadNext, Serve, JobGoesOn, PostTask, ReadStatus, HandlerReturns, Ready, sockets
    <2> QED BY <1>1, <2>1, IdleAbreast
  <1> QED BY <1>2, <1>3, <1>4, <1>5, <1>6, <1>7 DEF Next

LEMMA HeardKeeps ==
  ASSUME EventsAssumption, Typed, Shape, AllFit, Counted, Paired, Heard, [Next]_vars
  PROVE  Heard'
  <1>1. ASSUME NEW s \in Sockets, link'[s] = "new" PROVE (\A i \in DOMAIN todo : ~Rings(todo[i], s))'
    BY <1>1, UncalledKeeps, RingsIs DEF Heard
  <1>2. ASSUME NEW s \in Sockets, NEW r \in Records
        PROVE  (/\ told[s][r] <= Version(r)
                /\ ~Watches(s, r) \/ link[s] = "new" => told[s][r] = 0
                /\ Abreast(s, r))'
    <2>1. Watches(s, r)' <=> Watches(s, r)
      BY DEF Watches
    <2> QED BY <2>1, ToldKeeps, AbreastKeeps
  <1> QED BY <1>1, <1>2 DEF Heard

-----------------------------------------------------------------------------
(* As long as nothing has thrown.                                          *)

LEMMA HasIs ==
  ASSUME NEW a
  PROVE  (Has(a) <=> a \in Left) /\ (Has(a)' <=> a \in Left')
  BY DEF Has, Left

LEMMA PendingIs ==
  ASSUME NEW j, NEW n
  PROVE  /\ Pending(j, n) <=> \E a \in Left : Pends(a, j, n)
         /\ Pending(j, n)' <=> \E a \in Left' : Pends(a, j, n)
  BY DEF Pending, Left, Pends, TellsOf, Tells

LEMMA SparesIs ==
  ASSUME NEW j
  PROVE  /\ (\A i \in DOMAIN todo : Spares(todo[i], j)) <=> \A a \in Left : Spares(a, j)
         /\ (\A i \in DOMAIN todo : Spares(todo[i], j))' <=> \A a \in Left' : Spares(a, j)
  BY DEF Left, Spares

LEMMA SoundIs ==
  /\ (\A i \in DOMAIN todo : Sound(todo[i])) <=> \A a \in Left : Sound(a)
  /\ (\A a \in Left' : Sound(a)') => (\A i \in DOMAIN todo : Sound(todo[i]))'
  BY DEF Left

\* Jobs and tasks are as they were.
Kept == \A r \in Records : r[1] # "workspace" => record'[r] = record[r]

LEMMA KeptIs ==
  ASSUME Kept
  PROVE  /\ \A t \in Tasks : record'[t] = record[t] /\ (Ends(t)' <=> Ends(t)) /\ Version(t)' = Version(t)
         /\ \A j \in Jobs : JobOf(j)' = JobOf(j) /\ (Ends(JobRec(j))' <=> Ends(JobRec(j)))
  BY Names DEF Kept, Ends, Version, JobOf, Tasks, JobRec

\* The calls E are done and M have come.
Calmly(E, M) ==
  /\ Kept /\ Left \subseteq E \cup Left' /\ Left' \subseteq M \cup Left
  /\ \A t \in Tasks : Execute(t) \in E \/ Update(t, [status |-> "running"]) \in E =>
       Update(t, [status |-> "running"]) \in Left'
  /\ \A a \in M : Sound(a)'
  /\ \A t \in working' : t \notin working =>
       /\ t \in Tasks /\ ~Ends(t)
       /\ \A a \in Left' : a.do \in {"update", "execute", "start"} => a.about # t
  /\ \A j \in Jobs : \A n \in 1..Budget[j] :
       /\ (\E a \in M : Pends(a, j, n)) => Pending(j, n)
       /\ Hears(j, n) /\ ~Hears(j, n)' => ~Pending(j, n)'
       /\ Hears(j, n)' /\ ~Hears(j, n) => record[TaskRec(j, n)].status = "running" /\ Live(j, n)
       /\ Hears(j, n)' /\ (\E a \in E : Pends(a, j, n) \/ a = Unsubscribe(Attempt(j, n))) =>
            ~Ends(TaskRec(j, n)) \/ Pending(j, n)' \/ Unsubscribe(Attempt(j, n)) \in Left'
       /\ Await(TaskRec(j, n)) \in M \/ LookAt(j, n) \in M \/ (Waits(j, n)' /\ ~Waits(j, n)) => Live(j, n)
       /\ Live(j, n) /\ Live(j, n)' => \A a \in M : Spares(a, j)

LEMMA CalmlyWorked ==
  ASSUME Typed, Calm, NEW E, NEW M, Calmly(E, M), NEW t \in Tasks
  PROVE  Worked(t)'
  <1>1. record'[t] = record[t] /\ (Ends(t)' <=> Ends(t)) /\ Version(t)' = Version(t) /\ Worked(t)
    BY KeptIs DEF Calmly, Calm
  <1>2. PICK x, y : x = Execute(t) /\ y = Update(t, [status |-> "running"])
    OBVIOUS
  <1>3. x \in Left \/ y \in Left => x \in Left' \/ y \in Left'
    BY <1>2 DEF Calmly
  <1>4. record[t].status = "queued" => Has(x)' \/ Has(y)'
    BY <1>1, <1>2, <1>3, HasIs DEF Worked
  <1>5. record'[t].status = "queued" => Has(Execute(t))' \/ Has(Update(t, [status |-> "running"]))'
    BY <1>1, <1>2, <1>4 DEF Has
  <1>6. t \in working' => ~Ends(t)
    BY <1>1 DEF Calmly, Worked
  <1> QED BY <1>1, <1>5, <1>6 DEF Worked

LEMMA CalmlySound ==
  ASSUME Typed, AllFit, Calm, NEW E, NEW M, Calmly(E, M), NEW a \in Left'
  PROVE  Sound(a)'
  <1>1. CASE a \in M
    BY <1>1 DEF Calmly
  <1>2. CASE a \in Left
    <2>1. Sound(a) /\ a \in Items /\ Fits(a)
      BY <1>2, SoundIs, FitIsLeft, ElementOfSeq DEF Calm, Typed, Left
    <2>2. /\ \A t \in Tasks : Ends(t)' <=> Ends(t)
          /\ \A j \in Jobs : Ends(JobRec(j))' <=> Ends(JobRec(j))
      BY KeptIs DEF Calmly
    <2>3. a.do \in {"update", "execute", "start"} /\ a.about \notin working => a.about \notin working'
      BY DEF Calmly
    <2>4. a.do = "update" => /\ a.about \in Records /\ a.about[1] \in {"job", "task"}
                             /\ (Ends(a.about)' <=> Ends(a.about))
      BY <2>1, <2>2, ItemKinds, Fitting, Names DEF Updates
    <2>5. a.do = "update" => /\ a.about \notin working'
                             /\ a.about[1] = "task" => a.patch \in Settings
                             /\ Ends(a.about)' => a.patch = <<>>
      BY <2>1, <2>3, <2>4 DEF Sound
    <2>6. a.do \in {"execute", "start"} => ~Ends(a.about)' /\ a.about \notin working'
      BY <2>1, <2>2, <2>3, ItemKinds DEF Sound, TaskItems
    <2>7. a.do = "attempt" => ~Ends(JobRec(a.job))'
      BY <2>1, <2>2, ItemKinds DEF Sound, Attempts
    <2>8. a.do = "dispatch" /\ a.about[2] \in Jobs => ~Ends(JobRec(a.about[2]))'
      BY <2>1, <2>2 DEF Sound
    <2>9. ASSUME NEW j \in Jobs, NEW n \in 1..Budget[j]
          PROVE  /\ a.do = "call" /\ Pends(a, j, n) => Hears(j, n)'
                 /\ a = Unsubscribe(Attempt(j, n)) => Ends(TaskRec(j, n))' /\ ~Pending(j, n)'
      <3>1. /\ a.do = "call" /\ Pends(a, j, n) => Hears(j, n)
            /\ a = Unsubscribe(Attempt(j, n)) => Ends(TaskRec(j, n)) /\ ~Pending(j, n)
        BY <2>1 DEF Sound
      <3>2. /\ (\E b \in M : Pends(b, j, n)) => Pending(j, n)
            /\ Hears(j, n) /\ ~Hears(j, n)' => ~Pending(j, n)'
            /\ Left' \subseteq M \cup Left
        BY DEF Calmly
      <3>3. Pending(j, n)' => Pending(j, n)
        BY <3>2, PendingIs
      <3>4. Pends(a, j, n) => Pending(j, n)'
        BY PendingIs
      <3>5. TaskRec(j, n) \in Tasks
        BY Names
      <3> QED BY <2>2, <3>1, <3>2, <3>3, <3>4, <3>5
    <2> QED BY <2>5, <2>6, <2>7, <2>8, <2>9 DEF Sound, Pends, TellsOf, Tells
  <1> QED BY <1>1, <1>2 DEF Calmly

LEMMA CalmlyHeeded ==
  ASSUME Typed, Calm, NEW E, NEW M, Calmly(E, M), NEW j \in Jobs, NEW n \in 1..Budget[j]
  PROVE  Heeded(j, n)'
  <1> SUFFICES ASSUME Hears(j, n)'
               PROVE  \/ record'[TaskRec(j, n)].status = "running"
                      \/ Ends(TaskRec(j, n))' /\ (Pending(j, n)' \/ Has(Unsubscribe(Attempt(j, n)))')
    BY DEF Heeded
  <1>1. PICK t : t = TaskRec(j, n) /\ t \in Tasks
    BY Names
  <1>2. record'[t] = record[t] /\ (Ends(t)' <=> Ends(t))
    BY <1>1, KeptIs DEF Calmly
  <1>3. PICK x : x = Unsubscribe(Attempt(j, n))
    OBVIOUS
  <1>4. \/ record[t].status = "running"
        \/ Hears(j, n) /\ Ends(t) /\ (Pending(j, n) \/ x \in Left)
    BY <1>1, <1>3, HasIs DEF Calm, Heeded, Calmly
  <1>5. ASSUME Hears(j, n), Ends(t), Pending(j, n) \/ x \in Left PROVE Pending(j, n)' \/ x \in Left'
    <2>1. (\E a \in E : Pends(a, j, n) \/ a = x) => Pending(j, n)' \/ x \in Left'
      BY <1>1, <1>3, <1>5 DEF Calmly
    <2>2. PICK a \in Left : Pends(a, j, n) \/ a = x
      BY <1>5, PendingIs
    <2> QED BY <2>1, <2>2, PendingIs DEF Calmly
  <1>6. Ends(TaskRec(j, n))' <=> Ends(t)'
    BY <1>1 DEF Ends
  <1>7. Has(Unsubscribe(Attempt(j, n)))' <=> x \in Left'
    BY <1>3, HasIs
  <1> QED BY <1>1, <1>2, <1>4, <1>5, <1>6, <1>7

LEMMA LiveIs ==
  ASSUME NEW j, NEW n
  PROVE  /\ Live(j, n) <=> \/ Await(TaskRec(j, n)) \in Left \/ Waits(j, n) \/ LookAt(j, n) \in Left
                           \/ Hears(j, n) /\ (~Ends(TaskRec(j, n)) \/ Pending(j, n))
         /\ Live(j, n)' <=> \/ Await(TaskRec(j, n)) \in Left' \/ Waits(j, n)' \/ LookAt(j, n) \in Left'
                            \/ Hears(j, n)' /\ (~Ends(TaskRec(j, n))' \/ Pending(j, n)')
  BY HasIs DEF Live

LEMMA CalmlyAlone ==
  ASSUME Typed, Calm, NEW E, NEW M, Calmly(E, M), NEW j \in Jobs, NEW n \in 1..Budget[j]
  PROVE  Alone(j, n)'
  <1> SUFFICES ASSUME Live(j, n)'
               PROVE  n = JobOf(j)'.attempts /\ ~Ends(JobRec(j))' /\
                        (\A i \in DOMAIN todo : Spares(todo[i], j))'
    BY DEF Alone
  <1>1. /\ (\E a \in M : Pends(a, j, n)) => Pending(j, n)
        /\ Hears(j, n)' /\ ~Hears(j, n) => Live(j, n)
        /\ Await(TaskRec(j, n)) \in M \/ LookAt(j, n) \in M \/ (Waits(j, n)' /\ ~Waits(j, n)) => Live(j, n)
        /\ Live(j, n) /\ Live(j, n)' => \A a \in M : Spares(a, j)
        /\ Left' \subseteq M \cup Left
    BY DEF Calmly
  <1>2. Ends(TaskRec(j, n))' <=> Ends(TaskRec(j, n))
    BY Names, KeptIs DEF Calmly
  <1>3. Pending(j, n)' => Pending(j, n)
    BY <1>1, PendingIs
  <1>4. Live(j, n)
    BY <1>1, <1>2, <1>3, LiveIs
  <1>5. n = JobOf(j).attempts /\ ~Ends(JobRec(j)) /\ \A a \in Left : Spares(a, j)
    BY <1>4, SparesIs DEF Calm, Alone
  <1>6. \A a \in Left' : Spares(a, j)
    BY <1>1, <1>4, <1>5
  <1>7. JobOf(j)' = JobOf(j) /\ (Ends(JobRec(j))' <=> Ends(JobRec(j)))
    BY KeptIs DEF Calmly
  <1> QED BY <1>5, <1>6, <1>7, SparesIs

LEMMA CalmAfter ==
  ASSUME Typed, AllFit, Calm, NEW E, NEW M, Calmly(E, M)
  PROVE  Calm'
  <1>1. \A t \in Tasks : Worked(t)'
    BY CalmlyWorked
  <1>2. (\A i \in DOMAIN todo : Sound(todo[i]))'
    BY CalmlySound, SoundIs
  <1>3. \A j \in Jobs : \A n \in 1..Budget[j] : Heeded(j, n)' /\ Alone(j, n)'
    BY CalmlyHeeded, CalmlyAlone
  <1> QED BY <1>1, <1>2, <1>3 DEF Calm, Tasks, Records, TasksOf

\* Calls that nothing hangs on, when they are done and when they come.
Heedless(a) == \A j \in Jobs : \A n \in 1..Budget[j] : ~Pends(a, j, n)
Gone(a) == a.do \notin {"execute", "update", "off"} /\ Heedless(a)
Idle(a) == a.do \in {"catch", "register", "loaded", "emit", "call"} /\ Heedless(a)

Hearing == \A j \in Jobs : \A n \in 1..Budget[j] :
  /\ Hears(j, n)' => Hears(j, n)
  /\ Hears(j, n) /\ Pending(j, n)' => Hears(j, n)'
  /\ Waits(j, n)' => Waits(j, n)

LEMMA SameHearing == UNCHANGED <<listeners, awaiting>> => Hearing
  BY DEF Hearing, Hears, Listens, Among, Waits

LEMMA IdleCalm ==
  ASSUME Typed, AllFit, Calm, Kept, working' \subseteq working, Hearing, NEW E, NEW M,
         Left \subseteq E \cup Left', Left' \subseteq M \cup Left, \A a \in E : Gone(a), \A a \in M : Idle(a)
  PROVE  Calm'
  <1>1. \A t \in Tasks : Execute(t) \notin E /\ Update(t, [status |-> "running"]) \notin E
    BY DEF Gone, Execute, Update
  <1>2. ASSUME NEW a \in M PROVE Sound(a)'
    <2>1. /\ a.do \notin {"update", "execute", "start", "attempt", "dispatch", "off"}
          /\ \A j \in Jobs : \A n \in 1..Budget[j] : ~Pends(a, j, n)
      BY <1>2 DEF Idle, Heedless
    <2>2. \A j \in Jobs : \A n \in 1..Budget[j] : a # Unsubscribe(Attempt(j, n))
      BY <2>1 DEF Unsubscribe
    <2> QED BY <2>1, <2>2 DEF Sound, Pends, TellsOf, Tells
  <1>3. ASSUME NEW j \in Jobs, NEW n \in 1..Budget[j]
        PROVE  /\ \A a \in M : ~Pends(a, j, n) /\ Spares(a, j)
               /\ \A a \in E : ~Pends(a, j, n) /\ a # Unsubscribe(Attempt(j, n))
               /\ Await(TaskRec(j, n)) \notin M /\ LookAt(j, n) \notin M
    <2>1. \A a \in M : a.do \in {"catch", "register", "loaded", "emit", "call"} /\ ~Pends(a, j, n)
      BY DEF Idle, Heedless
    <2>2. \A a \in E : a.do # "off" /\ ~Pends(a, j, n)
      BY DEF Gone, Heedless
    <2> QED BY <2>1, <2>2 DEF Spares, Unsubscribe, Await, LookAt
  <1>4. Calmly(E, M)
    BY <1>1, <1>2, <1>3 DEF Calmly, Hearing
  <1> QED BY <1>4, CalmAfter

LEMMA PopCalm ==
  ASSUME Typed, AllFit, Calm, Kept, working' \subseteq working, Hearing, NEW e, Turn(e, {}), Gone(e)
  PROVE  Calm'
  <1>1. PICK E, M : E = {e} /\ M = {}
    OBVIOUS
  <1>2. Left \subseteq E \cup Left' /\ Left' \subseteq M \cup Left
    BY <1>1 DEF Turn
  <1> QED BY <1>1, <1>2, IdleCalm

LEMMA SameKept == UNCHANGED record => Kept
  BY DEF Kept

\* Only calls of sockets, of plugins, and of attempts not about their own task are heedless.
LEMMA HeedlessIs ==
  ASSUME NEW a
  PROVE  /\ a.do \notin {"emit", "call"} => Heedless(a)
         /\ a.do = "call" /\ a.listener[1] # "attempt" => Heedless(a)
         /\ a.do \in {"emit", "call"} /\ (a.about[1] # "task" \/ a.event # <<"task", "updated">>) => Heedless(a)
  BY WhoListens DEF Heedless, Pends, TellsOf, Tells, TaskRec

LEMMA EmitCalm ==
  ASSUME Typed, Stacked, AllFit, Calm, EmitEvent
  PROVE  Calm'
  <1>1. UNCHANGED <<record, working, listeners, awaiting>>
    BY DEF EmitEvent
  <1>2. PICK e, M : e = Head(todo) /\ M = Called(e)
    OBVIOUS
  <1>3. Turn(e, M) /\ e \in Emits /\ e.do = "emit"
    BY <1>2, EmitTurn DEF Emits
  <1>4. Kept /\ Hearing
    BY <1>1, SameKept, SameHearing
  <1>5. Left = {e} \cup Rest /\ Left' = M \cup Rest
    BY <1>3 DEF Turn
  <1>6. ASSUME NEW a \in M
        PROVE  /\ a.do = "call" /\ a.event = e.event /\ a.about = e.about
               /\ \E k \in DOMAIN listeners[e.event] : listeners[e.event][k] = a.listener
    BY <1>2 DEF Called, Call
  <1>7. ASSUME NEW j \in Jobs, NEW n \in 1..Budget[j]
        PROVE  /\ \A a \in M : Pends(a, j, n) => Hears(j, n) /\ Pends(e, j, n)
               /\ Pends(e, j, n) /\ Hears(j, n) => \E a \in M : Pends(a, j, n)
    <2>1. ASSUME NEW a \in M, Pends(a, j, n) PROVE Hears(j, n) /\ Pends(e, j, n)
      BY <1>3, <1>6, <2>1 DEF Pends, TellsOf, Tells, Hears, Listens, Among
    <2>2. ASSUME Pends(e, j, n), Hears(j, n) PROVE \E a \in M : Pends(a, j, n)
      <3>1. e.event = <<"task", "updated">> /\ e.about = TaskRec(j, n)
        BY <2>2 DEF Pends, TellsOf
      <3>2. PICK k \in DOMAIN listeners[e.event] : listeners[e.event][k] = Attempt(j, n)
        BY <2>2, <3>1 DEF Hears, Listens, Among
      <3>3. Call(Attempt(j, n), e) \in M
        BY <1>2, <3>2 DEF Called
      <3>4. Pends(Call(Attempt(j, n), e), j, n)
        BY <3>1 DEF Pends, TellsOf, Tells, Call
      <3> QED BY <3>3, <3>4
    <2> QED BY <2>1, <2>2
  <1>8. ASSUME NEW a \in M PROVE Sound(a)'
    <2>1. a.do = "call"
      BY <1>6
    <2>2. \A j \in Jobs : \A n \in 1..Budget[j] : /\ Pends(a, j, n) => Hears(j, n)'
                                                 /\ a # Unsubscribe(Attempt(j, n))
      BY <1>1, <1>7, <2>1 DEF Hears, Listens, Among, Unsubscribe
    <2> QED BY <2>1, <2>2 DEF Sound, Pends, TellsOf, Tells
  <1>9. ASSUME NEW j \in Jobs, NEW n \in 1..Budget[j]
        PROVE  /\ (\E a \in M : Pends(a, j, n)) => Pending(j, n)
               /\ Hears(j, n)' /\ (\E a \in {e} : Pends(a, j, n) \/ a = Unsubscribe(Attempt(j, n))) =>
                     Pending(j, n)'
               /\ Await(TaskRec(j, n)) \notin M /\ LookAt(j, n) \notin M /\ \A a \in M : Spares(a, j)
    <2>1. (\E a \in M : Pends(a, j, n)) => Pending(j, n)
      BY <1>5, <1>7, PendingIs
    <2>2. e # Unsubscribe(Attempt(j, n))
      BY <1>3 DEF Unsubscribe
    <2>3. Hears(j, n)' /\ Pends(e, j, n) => Pending(j, n)'
      BY <1>4, <1>5, <1>7, PendingIs DEF Hearing
    <2> QED BY <1>6, <2>1, <2>2, <2>3 DEF Await, LookAt, Spares
  <1>10. Left \subseteq {e} \cup Left' /\ Left' \subseteq M \cup Left
    BY <1>5
  <1>11. \A t \in Tasks : Execute(t) \notin {e} /\ Update(t, [status |-> "running"]) \notin {e}
    BY <1>3 DEF Execute, Update
  <1>12. Calmly({e}, M)
    BY <1>1, <1>4, <1>8, <1>9, <1>10, <1>11 DEF Calmly, Hearing
  <1> QED BY <1>12, CalmAfter

\* The end of an attempt: nothing else moves its job.
LEMMA EndingSound ==
  ASSUME Typed, Kept, working' \subseteq Tasks, NEW j \in Jobs, ~Ends(JobRec(j)), NEW x, NEW task,
         Ending(j, x, task)
  PROVE  /\ Sound(x)' /\ x.do \in {"update", "attempt"}
         /\ \A i \in Jobs : Spares(x, i) <=> i # j
         /\ \A i \in Jobs : \A n \in 1..Budget[i] : ~Pends(x, i, n) /\ x # Await(TaskRec(i, n)) /\
               x # LookAt(i, n)
  <1>1. \/ \E s \in {"completed", "failed"} : x = Update(JobRec(j), [status |-> s])
        \/ x = RunAttempt(j)
    BY DEF Ending
  <1>2. ~Ends(JobRec(j))'
    BY KeptIs
  <1>3. JobRec(j) \notin working' /\ JobRec(j)[1] = "job"
    BY DEF JobRec, Tasks
  <1>4. CASE x = RunAttempt(j)
    <2>1. x.do = "attempt" /\ x.job = j
      BY <1>4 DEF RunAttempt
    <2>2. \A i \in Jobs : \A n \in 1..Budget[i] : ~Pends(x, i, n) /\ x # Unsubscribe(Attempt(i, n))
      BY <2>1 DEF Pends, TellsOf, Tells, Unsubscribe
    <2>3. Sound(x)'
      BY <1>2, <2>1, <2>2 DEF Sound
    <2> QED BY <2>1, <2>2, <2>3 DEF Spares, Await, LookAt
  <1>5. CASE \E s \in {"completed", "failed"} : x = Update(JobRec(j), [status |-> s])
    <2>1. PICK s \in {"completed", "failed"} : x = Update(JobRec(j), [status |-> s])
      BY <1>5
    <2>2. x.do = "update" /\ x.about = JobRec(j) /\ x.patch = [status |-> s]
      BY <2>1 DEF Update
    <2>3. \A i \in Jobs : \A n \in 1..Budget[i] : ~Pends(x, i, n) /\ x # Unsubscribe(Attempt(i, n))
      BY <2>2 DEF Pends, TellsOf, Tells, Unsubscribe
    <2>4. Sound(x)'
      BY <1>2, <1>3, <2>2, <2>3 DEF Sound
    <2>5. [status |-> s] # <<>>
      <3>1. DOMAIN [status |-> s] = {"status"} /\ DOMAIN <<>> = {}
        OBVIOUS
      <3> QED BY <3>1
    <2>6. \A i \in Jobs : Spares(x, i) <=> i # j
      BY <2>2, <2>5 DEF Spares, JobRec
    <2> QED BY <2>2, <2>3, <2>4, <2>6 DEF Await, LookAt
  <1> QED BY <1>1, <1>4, <1>5

LEMMA TellAttemptCalm ==
  ASSUME Typed, Stacked, AllFit, Counted, Calm, TellAttempt
  PROVE  Calm'
  <1>1. UNCHANGED <<record, working, listeners, awaiting>>
    BY DEF TellAttempt
  <1>2. Kept /\ Hearing /\ Kept
    BY <1>1, SameKept, SameHearing
  <1>3. PICK j, l : AttemptTurns(Head(todo), j, l)
    BY AttemptTurn
  <1>4. PICK e : e = Head(todo)
    OBVIOUS
  <1>5. PICK n : n = l[3]
    OBVIOUS
  <1>6. PICK t : t = TaskRec(j, n)
    OBVIOUS
  <1>7. /\ e \in CallItems /\ e.do = "call" /\ j \in Jobs /\ n \in 1..Budget[j] /\ e.listener = Attempt(j, n)
        /\ l = Attempt(j, n) /\ t \in Tasks
    BY <1>3, <1>4, <1>5, <1>6, Names DEF AttemptTurns, CallItems
  <1>8. \A i \in Jobs : \A m \in 1..Budget[i] : Pends(e, i, m) => i = j /\ m = n /\ e.about = t
    BY <1>6, <1>7 DEF Pends, TellsOf, Attempt
  <1>9. CASE Turn(e, {}) /\ e.about # t
    <2>1. Gone(e)
      BY <1>7, <1>8, <1>9 DEF Gone, Heedless
    <2> QED BY <1>1, <1>2, <1>9, <2>1, PopCalm
  <1>10. e.about = t => e.snapshot = record[t] /\ Pends(e, j, n)
    <2>1. Fits(e)
      BY <1>4, OnTop DEF TellAttempt, Calling, AtTop
    <2>2. e.about = t => e.snapshot = record[t] /\ e.event = <<"task", "updated">>
      <3>1. e.listener[1] = "attempt"
        BY <1>7 DEF Attempt
      <3> QED BY <1>7, <2>1, <3>1, Fitting DEF Tells, Tasks
    <2> QED BY <1>6, <1>7, <2>2 DEF Pends, TellsOf, Tells
  <1>11. CASE Turn(e, {}) /\ e.about = t /\ e.snapshot.status \notin Settled
    <2>1. ~Ends(t)
      BY <1>10, <1>11 DEF Ends
    <2>2. Left \subseteq {e} \cup Left' /\ Left' \subseteq {} \cup Left
      BY <1>11 DEF Turn
    <2>3. \A x \in Tasks : Execute(x) \notin {e} /\ Update(x, [status |-> "running"]) \notin {e}
      BY <1>7 DEF Execute, Update
    <2>4. ASSUME NEW i \in Jobs, NEW m \in 1..Budget[i], NEW a \in {e},
                 Pends(a, i, m) \/ a = Unsubscribe(Attempt(i, m))
          PROVE  ~Ends(TaskRec(i, m))
      BY <1>6, <1>7, <1>8, <2>1, <2>4 DEF Unsubscribe
    <2>5. Calmly({e}, {})
      BY <1>1, <1>2, <2>2, <2>3, <2>4 DEF Calmly, Hearing
    <2> QED BY <2>5, CalmAfter
  <1>12. CASE e.about = t /\ e.snapshot.status \in Settled /\ \E x : Ending(j, x, e.snapshot) /\
         Turn(e, {x, Unsubscribe(l)})
    <2>1. PICK x : Ending(j, x, e.snapshot) /\ Turn(e, {x, Unsubscribe(l)})
      BY <1>12
    <2>2. PICK off, M : off = Unsubscribe(l) /\ M = {x, off}
      OBVIOUS
    <2>3. Left = {e} \cup Rest /\ Left' = M \cup Rest /\ \A a \in Rest : a \in Items /\ Fits(a) /\ Above(e, a)
      BY <2>1, <2>2 DEF Turn
    <2>4. Ends(t) /\ Pends(e, j, n) /\ Pending(j, n)
      BY <1>10, <1>12, <2>3, PendingIs DEF Ends
    <2>5. Hears(j, n)
      BY <1>7, <2>3, <2>4, SoundIs DEF Calm, Sound
    <2>6. n = JobOf(j).attempts /\ ~Ends(JobRec(j))
      BY <1>7, <2>4, <2>5 DEF Calm, Alone, Live
    <2>7. ~\E a \in Rest : Pends(a, j, n)
      <3> SUFFICES ASSUME NEW a \in Rest, Pends(a, j, n) PROVE FALSE
        OBVIOUS
      <3>1. Tells(a) /\ a.about = t /\ a.event = e.event /\ (a.do = "call" => a.listener = e.listener)
        BY <1>6, <1>7, <2>4 DEF Pends, TellsOf
      <3>2. Follows(e, a)
        BY <1>7, <2>3, <2>4, <3>1 DEF Above, TellsOf, Tasks, Tells, Pends
      <3>3. e.listener[1] # "plugin"
        BY <1>7 DEF Attempt
      <3> QED BY <3>1, <3>2, <3>3 DEF Follows
    <2>8. /\ Sound(x)' /\ x.do \in {"update", "attempt"}
          /\ \A i \in Jobs : Spares(x, i) <=> i # j
          /\ \A i \in Jobs : \A m \in 1..Budget[i] : ~Pends(x, i, m) /\ x # Await(TaskRec(i, m)) /\
                x # LookAt(i, m)
      BY <1>1, <1>2, <1>7, <2>1, <2>6, EndingSound DEF Typed
    <2>9. /\ off.do = "off" /\ off.listener = Attempt(j, n)
          /\ \A i \in Jobs : Spares(off, i)
          /\ \A i \in Jobs : \A m \in 1..Budget[i] : ~Pends(off, i, m) /\ off # Await(TaskRec(i, m)) /\
                off # LookAt(i, m)
      BY <1>7, <2>2 DEF Unsubscribe, Spares, Pends, TellsOf, Tells, Await, LookAt
    <2>10. ~Pending(j, n)'
      BY <1>7, <2>2, <2>3, <2>7, <2>8, <2>9, PendingIs
    <2>11. ASSUME NEW i \in Jobs, NEW m \in 1..Budget[i], off = Unsubscribe(Attempt(i, m))
           PROVE  i = j /\ m = n
      BY <2>9, <2>11 DEF Unsubscribe, Attempt
    <2>12. Sound(off)'
      <3>1. Ends(t)'
        BY <1>1, <2>4 DEF Ends
      <3>2. \A i \in Jobs : \A m \in 1..Budget[i] :
              off = Unsubscribe(Attempt(i, m)) => Ends(TaskRec(i, m))' /\ ~Pending(i, m)'
        BY <1>6, <2>10, <2>11, <3>1
      <3> QED BY <2>9, <3>2 DEF Sound, Pends, TellsOf, Tells
    <2>13. ASSUME NEW m \in 1..Budget[j], Live(j, m), Live(j, m)' PROVE FALSE
      <3>1. m = n
        BY <1>7, <2>6, <2>13 DEF Calm, Alone
      <3>2. Await(t) \notin Left'
        <4>1. ASSUME Await(t) \in Rest PROVE FALSE
          <5>1. PICK b : b = Await(t)
            OBVIOUS
          <5>2. b.do = "await" /\ b.about = t /\ t[2] = j /\ t[3] = n
            BY <1>6, <5>1 DEF Await, TaskRec
          <5>3. Above(e, b)
            BY <2>3, <4>1, <5>1
          <5>4. e # Nobody
            BY <1>7 DEF Nobody, Catch
          <5> QED BY <1>7, <5>2, <5>3, <5>4 DEF Above
        <4> QED BY <1>6, <1>7, <2>2, <2>3, <2>8, <2>9, <4>1
      <3>3. LookAt(j, n) \notin Left'
        <4>1. ASSUME LookAt(j, n) \in Rest PROVE FALSE
          <5>1. PICK b : b = LookAt(j, n)
            OBVIOUS
          <5>2. b.do = "look" /\ b.job = j /\ b.attempt = n /\ Fits(b)
            BY <2>3, <4>1, <5>1 DEF LookAt
          <5>3. ~Hears(j, n)
            BY <5>2 DEF Fits, Tells
          <5> QED BY <2>5, <5>3
        <4> QED BY <1>7, <2>2, <2>3, <2>8, <2>9, <4>1
      <3>4. ~Waits(j, n)'
        <4>1. ASSUME Waits(j, n) PROVE FALSE
          <5>1. PICK w : w = [after |-> "dispatch", task |-> TaskRec(j, n)]
            OBVIOUS
          <5>2. w \in awaiting /\ w.after = "dispatch" /\ w.task[2] = j /\ w.task[3] = n
            BY <4>1, <5>1 DEF Waits, TaskRec
          <5> QED BY <2>5, <5>2 DEF Counted
        <4> QED BY <1>1, <4>1 DEF Waits
      <3>5. Ends(TaskRec(j, n))'
        BY <1>1, <1>6, <2>4 DEF Ends
      <3>6. Live(j, n)'
        BY <2>13, <3>1
      <3> QED BY <1>6, <2>10, <3>2, <3>3, <3>4, <3>5, <3>6, LiveIs
    <2>14. ASSUME NEW i \in Jobs, NEW m \in 1..Budget[i]
           PROVE  /\ ~\E a \in M : Pends(a, i, m)
                  /\ (\E a \in {e} : Pends(a, i, m) \/ a = Unsubscribe(Attempt(i, m))) =>
                        Unsubscribe(Attempt(i, m)) \in Left'
                  /\ Await(TaskRec(i, m)) \notin M /\ LookAt(i, m) \notin M
                  /\ Live(i, m) /\ Live(i, m)' => \A a \in M : Spares(a, i)
      <3>1. /\ ~\E a \in M : Pends(a, i, m)
            /\ Await(TaskRec(i, m)) \notin M /\ LookAt(i, m) \notin M
        BY <2>2, <2>8, <2>9
      <3>2. e # Unsubscribe(Attempt(i, m))
        BY <1>7 DEF Unsubscribe
      <3>3. Pends(e, i, m) => Unsubscribe(Attempt(i, m)) \in Left'
        BY <1>7, <1>8, <2>2, <2>3
      <3>4. Live(i, m) /\ Live(i, m)' => i # j
        BY <2>13
      <3>5. i # j => \A a \in M : Spares(a, i)
        BY <2>2, <2>8, <2>9
      <3> QED BY <3>1, <3>2, <3>3, <3>4, <3>5
    <2>15. \A a \in M : Sound(a)'
      BY <2>2, <2>8, <2>12
    <2>16. Left \subseteq {e} \cup Left' /\ Left' \subseteq M \cup Left
      BY <2>3
    <2>17. \A z \in Tasks : Execute(z) \notin {e} /\ Update(z, [status |-> "running"]) \notin {e}
      BY <1>7 DEF Execute, Update
    <2>18. Calmly({e}, M)
      BY <1>1, <1>2, <2>14, <2>15, <2>16, <2>17 DEF Calmly, Hearing
    <2> QED BY <2>18, CalmAfter
  <1> QED BY <1>3, <1>4, <1>5, <1>6, <1>9, <1>11, <1>12 DEF AttemptTurns

LEMMA RemoveCalm ==
  ASSUME Typed, Stacked, AllFit, Paired, Calm, RemoveListener
  PROVE  Calm'
  <1>1. UNCHANGED <<record, working, awaiting>> /\ todo # <<>> /\ Then(<<>>)
    BY DEF RemoveListener, AtTop
  <1>2. PICK j \in Jobs : \E n \in 1..Budget[j] :
          Head(todo) = Unsubscribe(Attempt(j, n)) /\ Leaves(Attempt(j, n), {<<"task", "updated">>})
    BY RemoveLeaves
  <1>3. PICK n \in 1..Budget[j] :
          Head(todo) = Unsubscribe(Attempt(j, n)) /\ Leaves(Attempt(j, n), {<<"task", "updated">>})
    BY <1>2
  <1>4. PICK e : e = Head(todo)
    OBVIOUS
  <1>5. Turn(e, {})
    BY <1>1, <1>4, PopTurn
  <1>6. Left = {e} \cup Left' /\ e \in Left
    BY <1>5 DEF Turn
  <1>7. ~Pending(j, n)
    BY <1>3, <1>4, <1>6, SoundIs DEF Calm, Sound
  <1>8. ASSUME NEW i \in Jobs, NEW m \in 1..Budget[i]
        PROVE  /\ Pending(i, m)' => Pending(i, m)
               /\ Hears(i, m)' => Hears(i, m) /\ ~(i = j /\ m = n)
               /\ Hears(i, m) /\ ~(i = j /\ m = n) => Hears(i, m)'
    <2>1. Pending(i, m)' => Pending(i, m)
      BY <1>6, PendingIs
    <2>2. Attempt(i, m) = Attempt(j, n) <=> i = j /\ m = n
      BY DEF Attempt
    <2>3. <<"task", "updated">> \in Events
      BY DEF Events, SocketEvents
    <2>4. Listens(Attempt(i, m), <<"task", "updated">>)' <=>
            Listens(Attempt(i, m), <<"task", "updated">>) /\ Attempt(i, m) # Attempt(j, n)
      BY <1>3, <2>3 DEF Leaves
    <2> QED BY <2>1, <2>2, <2>4 DEF Hears
  <1>9. ASSUME NEW i \in Jobs, NEW m \in 1..Budget[i], NEW a \in {e},
               Pends(a, i, m) \/ a = Unsubscribe(Attempt(i, m))
        PROVE  i = j /\ m = n
    BY <1>3, <1>4, <1>9 DEF Unsubscribe, Attempt, Pends, TellsOf, Tells
  <1>10. \A z \in Tasks : Execute(z) \notin {e} /\ Update(z, [status |-> "running"]) \notin {e}
    BY <1>3, <1>4 DEF Execute, Update, Unsubscribe
  <1>11. Kept
    BY <1>1, SameKept
  <1>12. Left \subseteq {e} \cup Left' /\ Left' \subseteq {} \cup Left
    BY <1>6
  <1>13. \A i \in Jobs : \A m \in 1..Budget[i] : Waits(i, m)' <=> Waits(i, m)
    BY <1>1 DEF Waits
  <1>14. ASSUME NEW i \in Jobs, NEW m \in 1..Budget[i]
         PROVE  /\ Hears(i, m) /\ ~Hears(i, m)' => ~Pending(i, m)'
                /\ Hears(i, m)' => Hears(i, m)
                /\ Hears(i, m)' => ~\E a \in {e} : Pends(a, i, m) \/ a = Unsubscribe(Attempt(i, m))
    <2>1. /\ Pending(i, m)' => Pending(i, m)
          /\ Hears(i, m)' => Hears(i, m) /\ ~(i = j /\ m = n)
          /\ Hears(i, m) /\ ~(i = j /\ m = n) => Hears(i, m)'
      BY <1>8
    <2>2. i = j /\ m = n => ~Pending(i, m)
      BY <1>7
    <2>3. \A a \in {e} : Pends(a, i, m) \/ a = Unsubscribe(Attempt(i, m)) => i = j /\ m = n
      BY <1>9
    <2> QED BY <2>1, <2>2, <2>3
  <1>15. Calmly({e}, {})
    BY <1>1, <1>10, <1>11, <1>12, <1>13, <1>14 DEF Calmly
  <1> QED BY <1>15, CalmAfter

LEMMA StartsCalm ==
  ASSUME Typed, Stacked, AllFit, Calm, HandlerStarts
  PROVE  Calm'
  <1>1. UNCHANGED <<record, listeners, awaiting>> /\ todo # <<>> /\ Then(<<>>)
    BY DEF HandlerStarts, AtTop
  <1>2. PICK e : e = Head(todo)
    OBVIOUS
  <1>3. Turn(e, {}) /\ e.do = "start" /\ e \in TaskItems /\ working' = working \cup {e.about} /\ e \in Left
    BY <1>1, <1>2, PopTurn, OnTop, ItemKinds DEF HandlerStarts, AtTop, Turn
  <1>4. e.about \in Tasks /\ ~Ends(e.about)
    BY <1>3, SoundIs DEF TaskItems, Calm, Sound
  <1>5. ASSUME NEW a \in Left', a.do \in {"update", "execute", "start"} PROVE a.about # e.about
    <2>1. a \in Rest /\ Above(e, a)
      BY <1>3 DEF Turn
    <2> QED BY <1>3, <1>5, <2>1 DEF Above, TellsOf, Tells, Update
  <1>6. \A z \in Tasks : Execute(z) \notin {e} /\ Update(z, [status |-> "running"]) \notin {e}
    BY <1>3 DEF Execute, Update
  <1>7. \A i \in Jobs : \A m \in 1..Budget[i] : ~Pends(e, i, m) /\ e # Unsubscribe(Attempt(i, m))
    BY <1>3 DEF Pends, TellsOf, Tells, Unsubscribe
  <1>8. Left \subseteq {e} \cup Left' /\ Left' \subseteq {} \cup Left
    BY <1>3 DEF Turn
  <1>9. Kept /\ Hearing
    BY <1>1, SameKept, SameHearing
  <1>10. Calmly({e}, {})
    BY <1>3, <1>4, <1>5, <1>6, <1>7, <1>8, <1>9 DEF Calmly, Hearing
  <1> QED BY <1>10, CalmAfter

LEMMA AwaitCalm ==
  ASSUME Typed, Stacked, AllFit, Calm, AwaitDispatch
  PROVE  Calm'
  <1>1. UNCHANGED <<record, listeners, working>> /\ todo # <<>> /\ Then(<<>>)
    BY DEF AwaitDispatch, AtTop
  <1>2. PICK e : e = Head(todo)
    OBVIOUS
  <1>3. /\ Turn(e, {}) /\ e.do = "await" /\ e \in TaskItems /\ e \in Left
        /\ awaiting' = awaiting \cup {[after |-> "dispatch", task |-> e.about]}
    BY <1>1, <1>2, PopTurn, OnTop, ItemKinds DEF AwaitDispatch, AtTop, Turn
  <1>4. e = Await(e.about)
    BY <1>3 DEF TaskItems, Await
  <1>5. \A z \in Tasks : Execute(z) \notin {e} /\ Update(z, [status |-> "running"]) \notin {e}
    BY <1>3 DEF Execute, Update
  <1>6. \A i \in Jobs : \A m \in 1..Budget[i] : ~Pends(e, i, m) /\ e # Unsubscribe(Attempt(i, m))
    BY <1>3 DEF Pends, TellsOf, Tells, Unsubscribe
  <1>7. Left \subseteq {e} \cup Left' /\ Left' \subseteq {} \cup Left
    BY <1>3 DEF Turn
  <1>8. ASSUME NEW i \in Jobs, NEW m \in 1..Budget[i], Waits(i, m)', ~Waits(i, m) PROVE Live(i, m)
    <2>1. [after |-> "dispatch", task |-> TaskRec(i, m)] = [after |-> "dispatch", task |-> e.about]
      BY <1>3, <1>8 DEF Waits
    <2>2. TaskRec(i, m) = e.about
      BY <2>1
    <2> QED BY <1>3, <1>4, <2>2, LiveIs
  <1>9. Kept /\ \A i \in Jobs : \A m \in 1..Budget[i] : Hears(i, m)' <=> Hears(i, m)
    BY <1>1, SameKept DEF Hears, Listens, Among
  <1>10. Calmly({e}, {})
    BY <1>1, <1>5, <1>6, <1>7, <1>8, <1>9 DEF Calmly
  <1> QED BY <1>10, CalmAfter

LEMMA TaskOfJob ==
  ASSUME NEW j \in Jobs, NEW n, EventsAssumption, TaskRec(j, n) \in Tasks
  PROVE  n \in 1..Budget[j]
  <1>1. PICK t : t = TaskRec(j, n) /\ t[2] = j /\ t[3] = n
    BY DEF TaskRec
  <1>2. j \notin Requests
    BY DEF EventsAssumption
  <1> QED BY <1>1, <1>2, Names

LEMMA LookCalm ==
  ASSUME EventsAssumption, Typed, Stacked, AllFit, Counted, Paired, Calm, LookAtTask
  PROVE  Calm'
  <1>1. UNCHANGED <<record, working, awaiting>>
    BY DEF LookAtTask
  <1>2. PICK e : e = Head(todo)
    OBVIOUS
  <1>3. PICK j, n, t : LookTurns(e, j, n, t)
    BY <1>2, LookTurn
  <1>4. /\ e.do = "look" /\ e = LookAt(j, n) /\ j \in Jobs /\ t = TaskRec(j, n) /\ t \in Tasks
        /\ Version(t) > 0 /\ ~Hears(j, n) /\ n \in 1..Budget[j]
    <2>1. e \in Looks /\ e.do = "look" /\ j = e.job /\ n = e.attempt
      BY <1>3 DEF LookTurns
    <2>2. e = LookAt(j, n)
      BY <2>1 DEF Looks, LookAt
    <2>3. /\ j \in Jobs /\ n \in Nat
          /\ t = TaskRec(j, n) /\ t \in Tasks /\ Version(t) > 0 /\ ~Hears(j, n)
      BY <1>3 DEF LookTurns
    <2>4. t[2] = j /\ t[3] = n
      BY <2>3 DEF TaskRec
    <2>5. n \in 1..Budget[j]
      BY <2>3, TaskOfJob
    <2> QED BY <2>1, <2>2, <2>3, <2>5
  <1>5. Kept
    BY <1>1, SameKept
  <1>6. ASSUME NEW M, Turn(e, M)
        PROVE  /\ Left = {e} \cup Rest /\ Left' = M \cup Rest /\ Fits(e) /\ e \in Left
               /\ \A a \in Rest : a \in Items /\ Fits(a) /\ Above(e, a)
    BY <1>6 DEF Turn
  <1>7. \A z \in Tasks : Execute(z) \notin {e} /\ Update(z, [status |-> "running"]) \notin {e}
    BY <1>4 DEF Execute, Update
  <1>8. \A i \in Jobs : \A m \in 1..Budget[i] : ~Pends(e, i, m) /\ e # Unsubscribe(Attempt(i, m))
    BY <1>4 DEF Pends, TellsOf, Tells, Unsubscribe
  <1>9. \A i \in Jobs : \A m \in 1..Budget[i] : Waits(i, m)' <=> Waits(i, m)
    BY <1>1 DEF Waits
  <1>10. e \in Left => Live(j, n)
    BY <1>4, LiveIs
  <1>11. CASE ~UNCHANGED listeners
    <2>1. /\ Joins(Attempt(j, n), {<<"task", "updated">>}) /\ Turn(e, {})
          /\ record[t].status \notin Settled
      BY <1>3, <1>4, <1>11, LookJoins
    <2>2. Left = {e} \cup Left' /\ Left' = Rest /\ e \in Left
      BY <1>6, <2>1
    <2>3. \A i \in Jobs : \A m \in 1..Budget[i] : Hears(i, m)' <=> Hears(i, m) \/ (i = j /\ m = n)
      <3> TAKE i \in Jobs
      <3> TAKE m \in 1..Budget[i]
      <3>1. Attempt(i, m) = Attempt(j, n) <=> i = j /\ m = n
        BY DEF Attempt
      <3>2. <<"task", "updated">> \in Events
        BY DEF Events, SocketEvents
      <3>3. Listens(Attempt(i, m), <<"task", "updated">>)' <=>
            Listens(Attempt(i, m), <<"task", "updated">>) \/ Attempt(i, m) = Attempt(j, n)
        BY <2>1, <3>2 DEF Joins
      <3> QED BY <3>1, <3>3 DEF Hears
    <2>4. record[t].status = "running"
      <3>1. record[t].status \in {"queued", "running"}
        BY <1>4, <2>1 DEF Calm, Worked
      <3>2. ASSUME record[t].status = "queued" PROVE FALSE
        <4>1. PICK b \in Left : b = Execute(t) \/ b = Update(t, [status |-> "running"])
          BY <1>4, <3>2, HasIs DEF Calm, Worked
        <4>2. b.do \in {"execute", "update"} /\ b # e
          BY <1>4, <4>1 DEF Execute, Update
        <4>3. Above(e, b)
          BY <1>6, <2>1, <4>2
        <4> QED BY <1>4, <4>2, <4>3 DEF Above, TellsOf, Tells, Update
      <3> QED BY <3>1, <3>2
    <2>5. Left \subseteq {e} \cup Left' /\ Left' \subseteq {} \cup Left
      BY <2>2
    <2>6. ASSUME NEW i \in Jobs, NEW m \in 1..Budget[i]
          PROVE  /\ Hears(i, m) => Hears(i, m)'
                 /\ Hears(i, m)' /\ ~Hears(i, m) => record[TaskRec(i, m)].status = "running" /\ Live(i, m)
      BY <1>4, <1>10, <2>2, <2>3, <2>4
    <2>7. Calmly({e}, {})
      BY <1>1, <1>5, <1>7, <1>8, <1>9, <2>5, <2>6 DEF Calmly
    <2> QED BY <2>7, CalmAfter
  <1>12. CASE UNCHANGED listeners /\ Turn(e, {})
    <2>1. Gone(e)
      BY <1>4, HeedlessIs DEF Gone
    <2>2. Hearing
      BY <1>1, <1>12, SameHearing
    <2> QED BY <1>1, <1>5, <1>12, <2>1, <2>2, PopCalm
  <1>13. CASE UNCHANGED listeners /\ record[t].status \in Settled /\ \E x : Ending(j, x, record[t]) /\
         Turn(e, {x})
    <2>1. PICK x : Ending(j, x, record[t]) /\ Turn(e, {x})
      BY <1>13
    <2>2. PICK M : M = {x}
      OBVIOUS
    <2>3. /\ Left = {e} \cup Rest /\ Left' = M \cup Rest /\ Fits(e) /\ e \in Left
          /\ \A a \in Rest : a \in Items /\ Fits(a) /\ Above(e, a)
      BY <1>6, <2>1, <2>2
    <2>4. n = JobOf(j).attempts /\ ~Ends(JobRec(j))
      BY <1>4, <1>10, <2>3 DEF Calm, Alone
    <2>5. /\ Sound(x)' /\ x.do \in {"update", "attempt"}
          /\ \A i \in Jobs : Spares(x, i) <=> i # j
          /\ \A i \in Jobs : \A m \in 1..Budget[i] : ~Pends(x, i, m) /\ x # Await(TaskRec(i, m)) /\
                x # LookAt(i, m)
      BY <1>1, <1>4, <1>5, <2>1, <2>4, EndingSound DEF Typed
    <2>6. ASSUME NEW m \in 1..Budget[j], Live(j, m), Live(j, m)' PROVE FALSE
      <3>1. m = n
        BY <1>4, <2>4, <2>6 DEF Calm, Alone
      <3>2. Await(t) \notin Left'
        <4>1. ASSUME Await(t) \in Rest PROVE FALSE
          <5>1. PICK b : b = Await(t)
            OBVIOUS
          <5>2. b.do = "await"
            BY <5>1 DEF Await
          <5>3. Above(e, b)
            BY <2>3, <4>1, <5>1
          <5>4. e # Nobody
            BY <1>4 DEF Nobody, Catch
          <5> QED BY <1>4, <5>2, <5>3, <5>4 DEF Above
        <4> QED BY <1>4, <2>2, <2>3, <2>5, <4>1
      <3>3. LookAt(j, n) \notin Left'
        <4>1. ASSUME LookAt(j, n) \in Rest PROVE FALSE
          <5>1. PICK b : b = LookAt(j, n)
            OBVIOUS
          <5>2. b.do = "look" /\ Above(e, b)
            BY <2>3, <4>1, <5>1 DEF LookAt
          <5> QED BY <1>4, <5>2 DEF Above, TellsOf, Tells, Update
        <4> QED BY <1>4, <2>2, <2>3, <2>5, <4>1
      <3>4. ~Waits(j, n)'
        <4>1. \A w \in awaiting : w.task # TaskRec(j, n)
          BY <1>4, <2>3 DEF Fits, Tells, LookAt
        <4> QED BY <1>1, <4>1 DEF Waits
      <3>5. ~Hears(j, n)'
        BY <1>4, <1>13 DEF Hears, Listens, Among
      <3>6. Live(j, n)'
        BY <2>6, <3>1
      <3> QED BY <1>4, <3>2, <3>3, <3>4, <3>5, <3>6, LiveIs
    <2>7. ASSUME NEW i \in Jobs, NEW m \in 1..Budget[i]
          PROVE  /\ ~\E a \in M : Pends(a, i, m)
                 /\ Await(TaskRec(i, m)) \notin M /\ LookAt(i, m) \notin M
                 /\ Live(i, m) /\ Live(i, m)' => \A a \in M : Spares(a, i)
      BY <2>2, <2>5, <2>6
    <2>8. Left \subseteq {e} \cup Left' /\ Left' \subseteq M \cup Left
      BY <2>3
    <2>9. Hearing
      BY <1>1, <1>13, SameHearing
    <2>10. \A a \in M : Sound(a)'
      BY <2>2, <2>5
    <2>11. Calmly({e}, M)
      BY <1>1, <1>5, <1>7, <1>8, <2>7, <2>8, <2>9, <2>10 DEF Calmly, Hearing
    <2> QED BY <2>11, CalmAfter
  <1> QED BY <1>3, <1>4, <1>11, <1>12, <1>13 DEF LookTurns

LEMMA BeginCalm ==
  ASSUME EventsAssumption, Typed, Stacked, AllFit, Calm, BeginAttempt
  PROVE  Calm'
  <1>1. UNCHANGED <<record, working, listeners, awaiting>>
    BY DEF BeginAttempt
  <1>2. PICK e : e = Head(todo)
    OBVIOUS
  <1>3. PICK j, n : BeginTurns(e, j, n)
    BY <1>2, BeginTurn
  <1>4. PICK u, d, M : /\ u = Update(JobRec(j), [status |-> "running", attempts |-> n]) /\ d = Dispatch(j, n)
                       /\ M = {u, d, Nobody}
    OBVIOUS
  <1>5. /\ Turn(e, M) /\ e.do = "attempt" /\ j = e.job /\ j \in Jobs /\ n \in 1..Budget[j]
        /\ Left = {e} \cup Rest /\ Left' = M \cup Rest
    BY <1>3, <1>4 DEF BeginTurns, Turn, Attempts
  <1>6. Kept /\ Hearing
    BY <1>1, SameKept, SameHearing
  <1>7. ~Ends(JobRec(j)) /\ ~Ends(JobRec(j))'
    BY <1>1, <1>5, SoundIs DEF Calm, Sound, Ends
  <1>8. /\ u.do = "update" /\ u.about = JobRec(j) /\ d.do = "dispatch" /\ d.about[2] = j /\ Nobody.do = "catch"
    BY <1>4 DEF Update, Dispatch, TaskRec, Nobody, Catch
  <1>9. JobRec(j) \notin working' /\ JobRec(j)[1] = "job"
    BY <1>1 DEF Typed, Tasks, JobRec
  <1>10. \A a \in M : \A i \in Jobs : \A m \in 1..Budget[i] :
           /\ ~Pends(a, i, m) /\ a # Unsubscribe(Attempt(i, m)) /\ a # Await(TaskRec(i, m)) /\ a # LookAt(i, m)
    BY <1>4, <1>8 DEF Pends, TellsOf, Tells, Unsubscribe, Await, LookAt
  <1>11. ASSUME NEW a \in M PROVE Sound(a)'
    <2>1. CASE a = u
      BY <1>7, <1>8, <1>9, <1>10, <2>1 DEF Sound, Pends, TellsOf, Tells
    <2>2. CASE a = d
      BY <1>7, <1>8, <1>9, <1>10, <2>2 DEF Sound, Pends, TellsOf, Tells
    <2>3. CASE a = Nobody
      BY <1>8, <1>10, <2>3 DEF Sound, Pends, TellsOf, Tells
    <2> QED BY <1>4, <2>1, <2>2, <2>3
  <1>12. ASSUME NEW i \in Jobs, i # j PROVE \A a \in M : Spares(a, i)
    <2>1. JobRec(i) # JobRec(j)
      BY <1>12 DEF JobRec
    <2> QED BY <1>4, <1>8, <1>12, <2>1 DEF Spares
  <1>13. ASSUME NEW m \in 1..Budget[j] PROVE ~Live(j, m)
    <2>1. ~Spares(e, j) /\ e \in Left
      BY <1>5 DEF Spares
    <2> QED BY <1>5, <2>1, SparesIs DEF Calm, Alone
  <1>14. ASSUME NEW i \in Jobs, NEW m \in 1..Budget[i] PROVE Live(i, m) => \A a \in M : Spares(a, i)
    BY <1>12, <1>13
  <1>15. \A i \in Jobs : \A m \in 1..Budget[i] : ~Pends(e, i, m) /\ e # Unsubscribe(Attempt(i, m))
    BY <1>5 DEF Pends, TellsOf, Tells, Unsubscribe
  <1>16. \A z \in Tasks : Execute(z) \notin {e} /\ Update(z, [status |-> "running"]) \notin {e}
    BY <1>5 DEF Execute, Update
  <1>17. Left \subseteq {e} \cup Left' /\ Left' \subseteq M \cup Left
    BY <1>5
  <1>18. Calmly({e}, M)
    BY <1>1, <1>6, <1>10, <1>11, <1>14, <1>15, <1>16, <1>17 DEF Calmly, Hearing
  <1> QED BY <1>18, CalmAfter

LEMMA ExecuteCalm ==
  ASSUME Typed, Stacked, AllFit, Calm, ExecuteTask
  PROVE  Calm'
  <1>1. UNCHANGED <<record, working, listeners, awaiting>>
    BY DEF ExecuteTask
  <1>2. PICK e : e = Head(todo)
    OBVIOUS
  <1>3. PICK t, x : ExecuteTurns(e, t, x)
    BY <1>2, ExecuteTurn
  <1>4. PICK u, M : u = Update(t, [status |-> "running"]) /\ M = {u, x, Nobody}
    OBVIOUS
  <1>5. /\ Turn(e, M) /\ e.do = "execute" /\ t = e.about /\ t \in Tasks
        /\ Left = {e} \cup Rest /\ Left' = M \cup Rest
        /\ x \in {StartHandler(t), Update(t, [status |-> "failed"])}
    BY <1>3, <1>4 DEF ExecuteTurns, Turn
  <1>6. Kept /\ Hearing
    BY <1>1, SameKept, SameHearing
  <1>7. ~Ends(t) /\ ~Ends(t)' /\ t \notin working' /\ t[1] = "task"
    <2>1. Sound(e)
      BY <1>5, SoundIs DEF Calm
    <2> QED BY <1>1, <1>5, <2>1 DEF Sound, Ends, Tasks
  <1>8. /\ u.do = "update" /\ u.about = t /\ u.patch \in Settings /\ Nobody.do = "catch"
        /\ \/ x.do = "start" /\ x.about = t
           \/ x.do = "update" /\ x.about = t /\ x.patch \in Settings
    BY <1>4, <1>5 DEF Update, StartHandler, Nobody, Catch, Settings, Settled
  <1>9. \A a \in M : \A i \in Jobs : \A m \in 1..Budget[i] :
           /\ ~Pends(a, i, m) /\ a # Unsubscribe(Attempt(i, m)) /\ a # Await(TaskRec(i, m)) /\ a # LookAt(i, m)
    BY <1>4, <1>8 DEF Pends, TellsOf, Tells, Unsubscribe, Await, LookAt
  <1>10. ASSUME NEW a \in M PROVE Sound(a)'
    <2>1. \/ a.do = "update" /\ a.about = t /\ a.patch \in Settings
          \/ a.do = "start" /\ a.about = t
          \/ a.do = "catch"
      BY <1>4, <1>8
    <2> QED BY <1>7, <1>9, <2>1 DEF Sound, Pends, TellsOf, Tells
  <1>11. ASSUME NEW i \in Jobs PROVE \A a \in M : Spares(a, i)
    <2>1. JobRec(i) # t
      BY <1>7 DEF JobRec
    <2> QED BY <1>4, <1>8, <2>1 DEF Spares
  <1>12. \A i \in Jobs : \A m \in 1..Budget[i] : ~Pends(e, i, m) /\ e # Unsubscribe(Attempt(i, m))
    BY <1>5 DEF Pends, TellsOf, Tells, Unsubscribe
  <1>13. ASSUME NEW z \in Tasks, Execute(z) \in {e} \/ Update(z, [status |-> "running"]) \in {e}
         PROVE  Update(z, [status |-> "running"]) \in Left'
    <2>1. z = t
      BY <1>5, <1>13 DEF Execute, Update
    <2> QED BY <1>4, <1>5, <2>1
  <1>14. Left \subseteq {e} \cup Left' /\ Left' \subseteq M \cup Left
    BY <1>5
  <1>15. Calmly({e}, M)
    BY <1>1, <1>6, <1>9, <1>10, <1>11, <1>12, <1>13, <1>14 DEF Calmly, Hearing
  <1> QED BY <1>15, CalmAfter

\* The calls of a new turn.
LEMMA FreshCalm ==
  ASSUME Typed, AllFit, Calm, todo = <<>>, UNCHANGED <<record, listeners>>, working' \subseteq working,
         \A a \in Left' : Sound(a)',
         \A j \in Jobs : \A n \in 1..Budget[j] :
           /\ \A a \in Left' : ~Pends(a, j, n)
           /\ LookAt(j, n) \in Left' \/ Waits(j, n)' => Waits(j, n)
           /\ Await(TaskRec(j, n)) \notin Left'
           /\ Live(j, n) => \A a \in Left' : Spares(a, j)
  PROVE  Calm'
  <1>1. Left = {}
    BY LeftIs
  <1>2. PICK M : M = Left'
    OBVIOUS
  <1>3. Kept /\ \A j \in Jobs : \A n \in 1..Budget[j] : Hears(j, n)' <=> Hears(j, n)
    BY SameKept DEF Hears, Listens, Among
  <1>4. ASSUME NEW j \in Jobs, NEW n \in 1..Budget[j]
        PROVE  /\ ~\E a \in M : Pends(a, j, n)
               /\ Await(TaskRec(j, n)) \in M \/ LookAt(j, n) \in M \/ (Waits(j, n)' /\ ~Waits(j, n)) =>
                     Live(j, n)
               /\ Live(j, n) => \A a \in M : Spares(a, j)
    BY <1>2, LiveIs
  <1>5. Calmly({}, M)
    BY <1>1, <1>2, <1>3, <1>4 DEF Calmly
  <1> QED BY <1>5, CalmAfter

LEMMA PostCalm ==
  ASSUME EventsAssumption, Typed, AllFit, Calm, NEW c \in Requests, PostTask(c)
  PROVE  Calm'
  <1>1. todo = <<>> /\ UNCHANGED <<record, listeners, working, awaiting>>
    BY DEF PostTask, Ready
  <1>2. PICK x, y : x = Dispatch(c, 1) /\ y = Catch("request", TaskRec(c, 1)) /\ Left' = {x, y}
    BY LeftIs DEF PostTask
  <1>3. x.do = "dispatch" /\ x.about[2] = c /\ c \notin Jobs /\ y.do = "catch"
    BY <1>2 DEF Dispatch, TaskRec, Catch, EventsAssumption
  <1>4. ASSUME NEW a \in Left'
        PROVE  \A j \in Jobs : \A n \in 1..Budget[j] :
           /\ ~Pends(a, j, n) /\ a # Unsubscribe(Attempt(j, n)) /\ a # Await(TaskRec(j, n)) /\ a # LookAt(j, n)
           /\ Spares(a, j)
    <2>1. a = x \/ a = y
      BY <1>2
    <2> QED BY <1>3, <2>1 DEF Pends, TellsOf, Tells, Unsubscribe, Await, LookAt, Spares
  <1>5. ASSUME NEW a \in Left' PROVE Sound(a)'
    <2>1. (a.do = "dispatch" /\ a.about[2] \notin Jobs) \/ a.do = "catch"
      BY <1>2, <1>3
    <2> QED BY <1>4, <2>1 DEF Sound, Pends, TellsOf, Tells
  <1>6. \A j \in Jobs : \A n \in 1..Budget[j] : Waits(j, n)' <=> Waits(j, n)
    BY <1>1 DEF Waits
  <1> QED BY <1>1, <1>4, <1>5, <1>6, FreshCalm

LEMMA GoesOnCalm ==
  ASSUME EventsAssumption, Typed, AllFit, Calm, NEW j \in Jobs, NEW n \in 1..Budget[j], JobGoesOn(j, n)
  PROVE  Calm'
  <1>1. todo = <<>> /\ UNCHANGED <<record, listeners, working>> /\ awaiting' \subseteq awaiting /\ Waits(j, n)
    BY DEF JobGoesOn, Ready, Waits
  <1>2. PICK x, y : x = Update(JobRec(j), <<>>) /\ y = LookAt(j, n) /\ Left' = {x, y, Nobody}
    BY LeftIs DEF JobGoesOn
  <1>3. /\ x.do = "update" /\ x.about = JobRec(j) /\ x.about[1] = "job" /\ x.patch = <<>>
        /\ y.do = "look" /\ y.job = j /\ y.attempt = n /\ Nobody.do = "catch"
    BY <1>2 DEF Update, JobRec, LookAt, Nobody, Catch
  <1>4. ASSUME NEW a \in Left'
        PROVE  \A i \in Jobs : \A m \in 1..Budget[i] :
           /\ ~Pends(a, i, m) /\ a # Unsubscribe(Attempt(i, m)) /\ a # Await(TaskRec(i, m))
           /\ a = LookAt(i, m) => i = j /\ m = n
           /\ Spares(a, i)
    <2>1. a = x \/ a = y \/ a = Nobody
      BY <1>2
    <2> QED BY <1>3, <2>1 DEF Pends, TellsOf, Tells, Unsubscribe, Await, LookAt, Spares
  <1>5. x.about \notin working'
    BY <1>1, <1>3 DEF Typed, Tasks
  <1>6. ASSUME NEW a \in Left' PROVE Sound(a)'
    <2>1. a = x \/ a.do = "look" \/ a.do = "catch"
      BY <1>2, <1>3
    <2> QED BY <1>3, <1>4, <1>5, <2>1 DEF Sound, Pends, TellsOf, Tells
  <1>7. \A i \in Jobs : \A m \in 1..Budget[i] : Waits(i, m)' => Waits(i, m)
    BY <1>1 DEF Waits
  <1> QED BY <1>1, <1>4, <1>6, <1>7, FreshCalm

LEMMA ReturnsCalm ==
  ASSUME EventsAssumption, Typed, AllFit, Calm, NEW t \in Records, HandlerReturns(t)
  PROVE  Calm'
  <1>1. /\ todo = <<>> /\ UNCHANGED <<record, listeners, awaiting>> /\ working' \subseteq working
        /\ t \in working /\ t \notin working'
    BY DEF HandlerReturns, Ready
  <1>2. t \in Tasks /\ t[1] = "task"
    BY <1>1 DEF Typed, Tasks
  <1>3. ~Ends(t)'
    BY <1>1, <1>2 DEF Calm, Worked, Ends
  <1>4. PICK x \in Settled : Left' \subseteq {Update(t, [status |-> x]), Catch("execute", t), Nobody}
    <2>1. \/ todo' = <<Update(t, [status |-> "completed"]), Catch("execute", t), Nobody>>
          \/ todo' = <<Update(t, [status |-> "failed"]), Nobody>>
      BY DEF HandlerReturns, Returned
    <2>2. \/ Left' = {Update(t, [status |-> "completed"]), Catch("execute", t), Nobody}
          \/ Left' = {Update(t, [status |-> "failed"]), Nobody}
      BY <2>1, LeftIs
    <2> QED BY <2>2 DEF Settled
  <1>5. ASSUME NEW a \in Left'
        PROVE  (a.do = "update" /\ a.about = t /\ a.patch \in Settings) \/ a.do = "catch"
    <2>1. PICK s : s = [status |-> x]
      OBVIOUS
    <2>2. s \in Settings
      BY <2>1 DEF Settings, Settled
    <2>3. a = Update(t, s) \/ a = Catch("execute", t) \/ a = Nobody
      BY <1>4, <2>1
    <2> QED BY <2>2, <2>3 DEF Update, Catch, Nobody
  <1>6. ASSUME NEW a \in Left'
        PROVE  \A i \in Jobs : \A m \in 1..Budget[i] :
           /\ ~Pends(a, i, m) /\ a # Unsubscribe(Attempt(i, m)) /\ a # Await(TaskRec(i, m)) /\ a # LookAt(i, m)
           /\ Spares(a, i)
    <2>1. (a.do = "update" /\ a.about = t) \/ a.do = "catch"
      BY <1>5
    <2> QED BY <1>2, <2>1 DEF Pends, TellsOf, Tells, Unsubscribe, Await, LookAt, Spares, JobRec
  <1>7. ASSUME NEW a \in Left' PROVE Sound(a)'
    BY <1>1, <1>3, <1>5, <1>6 DEF Sound, Pends, TellsOf, Tells
  <1>8. \A j \in Jobs : \A n \in 1..Budget[j] : Waits(j, n)' <=> Waits(j, n)
    BY <1>1 DEF Waits
  <1> QED BY <1>1, <1>6, <1>7, <1>8, FreshCalm

LEMMA RegisterThrowsCalm ==
  ASSUME Typed, Shape, AllFit, Calm, RegisterThrows, phase' # "down"
  PROVE  Calm'
  <1>1. UNCHANGED <<record, listeners, working, awaiting>> /\ todo # <<>> /\ Unwind
    BY DEF RegisterThrows, AtTop
  <1>2. PICK e : e = Head(todo) /\ e.do = "register"
    BY DEF RegisterThrows, AtTop
  <1>3. Left = {e} \cup Rest /\ \A a \in Rest : a \in Items /\ Fits(a) /\ Above(e, a)
    BY <1>1, <1>2, LeftIsTop DEF Shape
  <1>4. PICK c, M, B : ThrowTurns(c, M, B)
    BY <1>1, ThrowTurn DEF Shape
  <1>5. ~Serves(e) /\ ~Tells(e) /\ e.do \notin {"update", "off", "loaded"}
    BY <1>2 DEF Serves, Tells
  <1>6. ASSUME NEW a \in Left PROVE Gone(a)
    <2>1. CASE a = e
      BY <1>2, <2>1, HeedlessIs DEF Gone
    <2>2. CASE a \in Rest
      <3>1. Above(e, a)
        BY <1>3, <2>2
      <3>2. ~Tells(a) /\ a.do \notin {"execute", "update", "off"}
        BY <1>2, <1>5, <3>1 DEF Above, TellsOf, Update
      <3> QED BY <3>2, HeedlessIs DEF Gone, Tells
    <2> QED BY <1>3, <2>1, <2>2
  <1>7. c \in Rest /\ c.do = "catch" /\ c.where # "execute"
    <2>1. c \in Rest /\ c.do = "catch"
      BY <1>2, <1>3, <1>4 DEF ThrowTurns
    <2>2. Above(e, c)
      BY <1>3, <2>1
    <2> QED BY <1>2, <1>5, <2>1, <2>2, UnderCatch DEF TellsOf, Update
  <1>8. \A a \in M : Idle(a)
    <2>1. M = {} \/ (c.about \in Plugs /\ M = {Emit("failed", c.about, Absent)})
      BY <1>4, <1>7 DEF ThrowTurns
    <2>2. ASSUME c.about \in Plugs PROVE Idle(Emit("failed", c.about, Absent))
      <3>1. c.about[1] # "task"
        BY <2>2, Names
      <3> QED BY <3>1, HeedlessIs DEF Idle, Emit
    <2> QED BY <2>1, <2>2
  <1>9. Left \subseteq Left \cup Left' /\ Left' \subseteq M \cup Left
    BY <1>4 DEF ThrowTurns
  <1> QED BY <1>1, <1>6, <1>8, <1>9, SameKept, SameHearing, IdleCalm

LEMMA PopsCalm ==
  ASSUME Typed, Shape, AllFit, Paired, Calm,
         TellSocket \/ TellPlugin \/ Caught \/ RegisterAgent \/ Subscribe
  PROVE  Calm'
  <1>1. UNCHANGED <<record, working, awaiting>> /\ todo # <<>> /\ Then(<<>>)
    BY DEF TellSocket, TellPlugin, Caught, RegisterAgent, Subscribe, AtTop, Calling
  <1>2. PICK e : e = Head(todo)
    OBVIOUS
  <1>3. Turn(e, {})
    BY <1>1, <1>2, PopTurn DEF Shape
  <1>4. e.do \in {"catch", "register"} \/ (e.do = "call" /\ e.listener[1] # "attempt")
    BY <1>2 DEF TellSocket, TellPlugin, Caught, RegisterAgent, Subscribe, AtTop, Calling
  <1>5. Gone(e)
    BY <1>4, HeedlessIs DEF Gone
  <1>6. CASE UNCHANGED listeners
    BY <1>1, <1>3, <1>5, <1>6, SameKept, SameHearing, PopCalm
  <1>7. CASE Subscribe
    <2>1. PICK p, E : Plugin(p) \in Listeners /\ Plugin(p)[1] = "plugin" /\ Joins(Plugin(p), E)
      BY <1>7, SubscribeJoins DEF Shape
    <2>2. ASSUME NEW j \in Jobs, NEW n \in 1..Budget[j]
          PROVE  (Hears(j, n)' <=> Hears(j, n)) /\ (Waits(j, n)' <=> Waits(j, n))
      <3>1. Attempt(j, n) # Plugin(p)
        BY DEF Attempt, Plugin
      <3>2. <<"task", "updated">> \in Events
        BY DEF Events, SocketEvents
      <3>3. Listens(Attempt(j, n), <<"task", "updated">>)' <=>
            Listens(Attempt(j, n), <<"task", "updated">>)
        BY <2>1, <3>1, <3>2 DEF Joins
      <3> QED BY <1>1, <3>3 DEF Hears, Waits
    <2>3. Hearing
      BY <2>2 DEF Hearing
    <2> QED BY <1>1, <1>3, <1>5, <2>3, SameKept, PopCalm
  <1> QED BY <1>6, <1>7 DEF TellSocket, TellPlugin, Caught, RegisterAgent, registry

LEMMA LoadedCalm ==
  ASSUME Typed, Shape, AllFit, Calm, NoteLoaded
  PROVE  Calm'
  <1>1. UNCHANGED <<record, working, listeners, awaiting>>
    BY DEF NoteLoaded
  <1>2. PICK e : e = Head(todo)
    OBVIOUS
  <1>3. PICK q : LoadedTurns(e, q)
    BY <1>2, LoadedTurn DEF Shape
  <1>4. PICK x : x = Emit("loaded", q, Absent)
    OBVIOUS
  <1>5. Turn(e, {x}) /\ e.do = "loaded" /\ x.do = "emit" /\ x.about = q /\ q[1] = "plugin"
    <2>1. x.do = "emit" /\ x.about = q
      BY <1>4 DEF Emit
    <2>2. Turn(e, {x}) /\ e.do = "loaded" /\ q[1] = "plugin"
      BY <1>3, <1>4 DEF LoadedTurns
    <2> QED BY <2>1, <2>2
  <1>6. Gone(e) /\ Idle(x)
    BY <1>5, HeedlessIs DEF Gone, Idle
  <1>7. PICK E, M : E = {e} /\ M = {x}
    OBVIOUS
  <1>8. Left \subseteq E \cup Left' /\ Left' \subseteq M \cup Left
    BY <1>5, <1>7 DEF Turn
  <1> QED BY <1>1, <1>6, <1>7, <1>8, SameKept, SameHearing, IdleCalm

\* What nothing hangs on may be left to do, and no job or task has changed.
LEMMA NewCalm ==
  ASSUME Typed, AllFit, Calm, Kept, working' \subseteq working, Hearing, todo = <<>>, \A a \in Left' : Idle(a)
  PROVE  Calm'
  <1>1. PICK E, M : E = {} /\ M = Left'
    OBVIOUS
  <1>2. Left = {}
    BY LeftIs
  <1> QED BY <1>1, <1>2, IdleCalm

LEMMA LoadCalm ==
  ASSUME EventsAssumption, Typed, AllFit, Calm, LoadNext
  PROVE  Calm'
  <1>1. UNCHANGED <<record, working, listeners, awaiting>> /\ todo = <<>>
    BY DEF LoadNext
  <1>2. ASSUME NEW a \in Left' PROVE Idle(a)
    <2>1. todo' # <<>>
      BY LeftIs
    <2>2. PICK p \in ToSet(Installed), P \in Seq(Items) :
           /\ todo' = P /\ Len(P) > 2
           /\ P[Len(P)] = Nobody /\ P[Len(P) - 1] = Catch("loader", PluginRec(p))
           /\ P[Len(P) - 2] = PushLoaded(p)
           /\ \A i \in 1..(Len(P) - 3) : \E x \in ToSet(Script[p]) : P[i] = Register(p, x)
      BY <2>1, LoadGives
    <2>3. PICK i \in DOMAIN P : a = P[i]
      BY <2>2 DEF Left
    <2>4. Len(P) \in Nat /\ i \in 1..Len(P)
      BY <2>3, LenProperties
    <2>5. i = Len(P) \/ i = Len(P) - 1 \/ i = Len(P) - 2 \/ i \in 1..(Len(P) - 3)
      BY <2>4
    <2>6. a = Nobody \/ a = Catch("loader", PluginRec(p)) \/ a = PushLoaded(p) \/ \E x : a = Register(p, x)
      BY <2>2, <2>3, <2>5
    <2>7. a.do \in {"catch", "loaded", "register"}
      BY <2>6 DEF Nobody, Catch, PushLoaded, Register
    <2> QED BY <2>7, HeedlessIs DEF Idle
  <1> QED BY <1>1, <1>2, SameKept, SameHearing, NewCalm

LEMMA StatusCalm ==
  ASSUME EventsAssumption, Typed, AllFit, Calm, NEW c \in Requests, ReadStatus(c) \/ WriteStatus(c)
  PROVE  Calm'
  <1>1. UNCHANGED <<listeners, working>> /\ todo = <<>>
    BY DEF ReadStatus, WriteStatus, Ready
  <1>2. ASSUME NEW j \in Jobs, NEW n \in 1..Budget[j]
        PROVE  (Hears(j, n)' <=> Hears(j, n)) /\ (Waits(j, n)' => Waits(j, n))
    <2>1. Hears(j, n)' <=> Hears(j, n)
      BY <1>1 DEF Hears, Listens, Among
    <2>2. ASSUME Waits(j, n)', ~Waits(j, n) PROVE FALSE
      <3>1. ReadStatus(c)
        BY <2>2 DEF Waits, WriteStatus
      <3>2. [after |-> "dispatch", task |-> TaskRec(j, n)] =
              [after |-> record[WorkspaceRec(Home[c])].status, task |-> TaskRec(c, 1)]
        BY <2>2, <3>1 DEF Waits, ReadStatus
      <3>3. TaskRec(j, n) = TaskRec(c, 1)
        BY <3>2
      <3>4. j = c
        BY <3>3 DEF TaskRec
      <3> QED BY <3>4 DEF EventsAssumption
    <2> QED BY <2>1, <2>2
  <1>3. Hearing
    BY <1>2 DEF Hearing
  <1>4. CASE UNCHANGED <<record, todo>>
    <2>1. Left' = {}
      BY <1>1, <1>4, LeftIs
    <2> QED BY <1>1, <1>3, <1>4, <2>1, SameKept, NewCalm
  <1>5. CASE WriteStatus(c) /\ ~UNCHANGED <<record, todo>>
    <2>1. PICK r, w : StatusTurns(c, r, w)
      BY <1>5, StatusTurn
    <2>2. PICK u : /\ Writes(r, u) /\ r[1] = "workspace"
                   /\ todo' = <<>> \/ todo' = <<Emit("status_changed", r, u), Catch("request", r)>>
      BY <1>5, <2>1 DEF StatusTurns
    <2>3. Kept
      BY <2>2, WritesGrow DEF Kept
    <2>4. PICK x, y : x = Emit("status_changed", r, u) /\ y = Catch("request", r)
      OBVIOUS
    <2>5. x.do = "emit" /\ x.about = r /\ y.do = "catch"
      BY <2>4 DEF Emit, Catch
    <2>6. Idle(x) /\ Idle(y)
      BY <2>2, <2>5, HeedlessIs DEF Idle
    <2>7. Left' \subseteq {x, y}
      <3>1. todo' = <<>> \/ todo' = <<x, y>>
        BY <2>2, <2>4
      <3> QED BY <3>1, LeftIs
    <2>8. \A a \in Left' : Idle(a)
      BY <2>6, <2>7
    <2> QED BY <1>1, <1>3, <2>3, <2>8, NewCalm
  <1> QED BY <1>4, <1>5 DEF ReadStatus

LEMMA LinkCalm ==
  ASSUME EventsAssumption, Typed, Shape, AllFit, Paired, Calm, NEW s \in Sockets, Connect(s) \/ Close(s),
         [Next]_vars
  PROVE  Calm'
  <1>1. UNCHANGED <<record, working, awaiting, todo>> /\ todo = <<>>
    BY DEF Connect, Close, Ready
  <1>2. Left' = {}
    BY <1>1, LeftIs
  <1>3. ASSUME NEW j \in Jobs, NEW n \in 1..Budget[j]
        PROVE  (Hears(j, n)' => Hears(j, n)) /\ ~Pending(j, n)' /\ (Waits(j, n)' => Waits(j, n))
    <2>1. ~LookAtTask
      BY <1>1 DEF LookAtTask, AtTop
    <2>2. Hears(j, n)' => Hears(j, n)
      BY <2>1, HearsKeeps DEF Shape
    <2>3. ~Pending(j, n)'
      BY <1>2, PendingIs
    <2> QED BY <1>1, <2>2, <2>3 DEF Waits
  <1>4. Hearing
    BY <1>3 DEF Hearing
  <1> QED BY <1>1, <1>2, <1>4, SameKept, NewCalm

LEMMA StillCalm ==
  ASSUME Typed, AllFit, Calm, UNCHANGED <<record, working, listeners, awaiting, todo>>
  PROVE  Calm'
  <1>1. PICK E, M : E = {} /\ M = {}
    OBVIOUS
  <1>2. Left' = Left
    BY DEF Left
  <1> QED BY <1>1, <1>2, SameKept, SameHearing, IdleCalm

-----------------------------------------------------------------------------
(* A job or a task is written: what there is about the others is as it was. *)

\* What may not be left to do about what has ended.
Spared(a, q) ==
  /\ a.do = "update" /\ a.about = q => a.patch = <<>>
  /\ a.do \in {"execute", "start"} => a.about # q
  /\ a.do = "attempt" => JobRec(a.job) # q
  /\ a.do = "dispatch" /\ a.about[2] \in Jobs => JobRec(a.about[2]) # q

\* The calls E are done, M have come, and q has been written.
Writing(q, E, M) ==
  /\ q \in Records /\ \A r \in Records : r # q => record'[r] = record[r]
  /\ UNCHANGED <<listeners, working, awaiting>>
  /\ Left \subseteq E \cup Left' /\ Left' \subseteq M \cup Left
  /\ \A t \in Tasks : t # q => Execute(t) \notin E /\ Update(t, [status |-> "running"]) \notin E
  /\ \A a \in M : Sound(a)'
  /\ \A a \in Left : a \in Left' /\ Ends(q)' => Spared(a, q)
  /\ \A j \in Jobs : \A n \in 1..Budget[j] :
       /\ \A a \in E \cup M : (Pends(a, j, n) => TaskRec(j, n) = q) /\ a # Unsubscribe(Attempt(j, n))
       /\ \A a \in Left : a = Unsubscribe(Attempt(j, n)) => TaskRec(j, n) # q
       /\ JobRec(j) # q /\ TaskRec(j, n) # q =>
            Await(TaskRec(j, n)) \notin M /\ LookAt(j, n) \notin M /\ \A a \in M : Spares(a, j)

LEMMA WrittenIs ==
  ASSUME NEW q, NEW E, NEW M, Writing(q, E, M)
  PROVE  /\ \A t \in Tasks : t # q => record'[t] = record[t] /\ (Ends(t)' <=> Ends(t)) /\
               Version(t)' = Version(t)
         /\ \A j \in Jobs : JobRec(j) # q =>
              JobOf(j)' = JobOf(j) /\ (Ends(JobRec(j))' <=> Ends(JobRec(j)))
  BY Names DEF Writing, Ends, Version, JobOf

LEMMA WritingWorked ==
  ASSUME Typed, Calm, NEW q, NEW E, NEW M, Writing(q, E, M), NEW t \in Tasks, t # q
  PROVE  Worked(t)'
  <1>1. record'[t] = record[t] /\ (Ends(t)' <=> Ends(t)) /\ Version(t)' = Version(t) /\ Worked(t)
    BY WrittenIs DEF Calm
  <1>2. PICK x, y : x = Execute(t) /\ y = Update(t, [status |-> "running"])
    OBVIOUS
  <1>3. (x \in Left => x \in Left') /\ (y \in Left => y \in Left') /\ working' = working
    BY <1>2 DEF Writing
  <1>4. record[t].status = "queued" => Has(x)' \/ Has(y)'
    BY <1>1, <1>2, <1>3, HasIs DEF Worked
  <1>5. record'[t].status = "queued" => Has(Execute(t))' \/ Has(Update(t, [status |-> "running"]))'
    BY <1>1, <1>2, <1>4 DEF Has
  <1> QED BY <1>1, <1>3, <1>5 DEF Worked

LEMMA WritingSound ==
  ASSUME Typed, AllFit, Calm, NEW q, NEW E, NEW M, Writing(q, E, M), NEW a \in Left'
  PROVE  Sound(a)'
  <1>1. CASE a \in M
    BY <1>1 DEF Writing
  <1>2. CASE a \in Left
    <2>1. Sound(a) /\ a \in Items /\ Fits(a)
      BY <1>2, SoundIs, FitIsLeft, ElementOfSeq DEF Calm, Typed, Left
    <2>2. \A r \in Records : r # q => (Ends(r)' <=> Ends(r))
      BY DEF Writing, Ends
    <2>3. Ends(q)' => Spared(a, q)
      BY <1>2 DEF Writing
    <2>4. working' = working
      BY DEF Writing
    <2>5. a.do = "update" => /\ a.about \notin working'
                             /\ a.about[1] = "task" => a.patch \in Settings
                             /\ Ends(a.about)' => a.patch = <<>>
      <3>1. a.do = "update" => a.about \in Records
        BY <2>1, ItemKinds DEF Updates
      <3>2. ASSUME a.do = "update", Ends(a.about)' PROVE a.patch = <<>>
        <4>1. CASE a.about = q
          BY <2>3, <3>2, <4>1 DEF Spared, Ends
        <4>2. CASE a.about # q
          BY <2>1, <2>2, <3>1, <3>2, <4>2 DEF Sound
        <4> QED BY <4>1, <4>2
      <3> QED BY <2>1, <2>4, <3>2 DEF Sound
    <2>6. a.do \in {"execute", "start"} => ~Ends(a.about)' /\ a.about \notin working'
      <3>1. a.do \in {"execute", "start"} => a.about \in Records
        BY <2>1, ItemKinds, Names DEF TaskItems
      <3>2. ASSUME a.do \in {"execute", "start"} PROVE ~Ends(a.about)'
        <4>1. CASE a.about = q
          BY <2>3, <3>2, <4>1 DEF Spared, Ends
        <4>2. CASE a.about # q
          BY <2>1, <2>2, <3>1, <3>2, <4>2 DEF Sound
        <4> QED BY <4>1, <4>2
      <3> QED BY <2>1, <2>4, <3>2 DEF Sound
    <2>7. ASSUME NEW j \in Jobs, (a.do = "attempt" /\ a.job = j) \/ (a.do = "dispatch" /\ a.about[2] = j)
          PROVE  ~Ends(JobRec(j))'
      <3>1. JobRec(j) \in Records
        BY Names
      <3>2. ~Ends(JobRec(j))
        BY <2>1, <2>7 DEF Sound
      <3>3. CASE JobRec(j) = q
        BY <2>3, <2>7, <3>3 DEF Spared, Ends
      <3>4. CASE JobRec(j) # q
        BY <2>2, <3>1, <3>2, <3>4
      <3> QED BY <3>3, <3>4
    <2>8. /\ a.do = "attempt" => ~Ends(JobRec(a.job))'
          /\ a.do = "dispatch" /\ a.about[2] \in Jobs => ~Ends(JobRec(a.about[2]))'
      <3>1. ASSUME a.do = "attempt" PROVE ~Ends(JobRec(a.job))'
        <4>1. PICK j \in Jobs : a.job = j
          BY <2>1, <3>1, ItemKinds DEF Attempts
        <4>2. ~Ends(JobRec(j))'
          BY <2>7, <3>1, <4>1
        <4> QED BY <4>1, <4>2 DEF Ends
      <3>2. ASSUME a.do = "dispatch", a.about[2] \in Jobs PROVE ~Ends(JobRec(a.about[2]))'
        <4>1. PICK j \in Jobs : a.about[2] = j
          BY <3>2
        <4>2. ~Ends(JobRec(j))'
          BY <2>7, <3>2, <4>1
        <4> QED BY <4>1, <4>2 DEF Ends
      <3> QED BY <3>1, <3>2
    <2>9. ASSUME NEW j \in Jobs, NEW n \in 1..Budget[j]
          PROVE  /\ a.do = "call" /\ Pends(a, j, n) => Hears(j, n)'
                 /\ a = Unsubscribe(Attempt(j, n)) => Ends(TaskRec(j, n))' /\ ~Pending(j, n)'
      <3>1. /\ a.do = "call" /\ Pends(a, j, n) => Hears(j, n)
            /\ a = Unsubscribe(Attempt(j, n)) => Ends(TaskRec(j, n)) /\ ~Pending(j, n)
        BY <2>1 DEF Sound
      <3>2. Hears(j, n)' <=> Hears(j, n)
        BY DEF Writing, Hears, Listens, Among
      <3>3. ASSUME a = Unsubscribe(Attempt(j, n)) PROVE Ends(TaskRec(j, n))' /\ ~Pending(j, n)'
        <4>1. TaskRec(j, n) # q /\ TaskRec(j, n) \in Records
          BY <1>2, <3>3, Names DEF Writing
        <4>2. \A b \in M : ~Pends(b, j, n)
          BY <4>1 DEF Writing
        <4>3. Left' \subseteq M \cup Left
          BY DEF Writing
        <4>4. ~Pending(j, n)'
          BY <3>1, <3>3, <4>2, <4>3, PendingIs
        <4> QED BY <2>2, <3>1, <3>3, <4>1, <4>4
      <3> QED BY <3>1, <3>2, <3>3
    <2> QED BY <2>5, <2>6, <2>8, <2>9 DEF Sound, Pends, TellsOf, Tells
  <1> QED BY <1>1, <1>2 DEF Writing

LEMMA WritingHeeded ==
  ASSUME Typed, Calm, NEW q, NEW E, NEW M, Writing(q, E, M), NEW j \in Jobs, NEW n \in 1..Budget[j],
         TaskRec(j, n) # q
  PROVE  Heeded(j, n)'
  <1> SUFFICES ASSUME Hears(j, n)'
               PROVE  \/ record'[TaskRec(j, n)].status = "running"
                      \/ Ends(TaskRec(j, n))' /\ (Pending(j, n)' \/ Has(Unsubscribe(Attempt(j, n)))')
    BY DEF Heeded
  <1>1. PICK t : t = TaskRec(j, n) /\ t \in Tasks
    BY Names
  <1>2. record'[t] = record[t] /\ (Ends(t)' <=> Ends(t))
    BY <1>1, WrittenIs
  <1>3. PICK x : x = Unsubscribe(Attempt(j, n))
    OBVIOUS
  <1>4. Hears(j, n)
    BY DEF Writing, Hears, Listens, Among
  <1>5. \/ record[t].status = "running"
        \/ Ends(t) /\ (Pending(j, n) \/ x \in Left)
    BY <1>1, <1>3, <1>4, HasIs DEF Calm, Heeded
  <1>6. ASSUME Pending(j, n) \/ x \in Left PROVE Pending(j, n)' \/ x \in Left'
    <2>1. PICK a \in Left : Pends(a, j, n) \/ a = x
      BY <1>6, PendingIs
    <2>2. a \notin E
      BY <1>3, <2>1 DEF Writing
    <2> QED BY <2>1, <2>2, PendingIs DEF Writing
  <1>7. Ends(TaskRec(j, n))' <=> Ends(t)'
    BY <1>1 DEF Ends
  <1>8. Has(Unsubscribe(Attempt(j, n)))' <=> x \in Left'
    BY <1>3, HasIs
  <1> QED BY <1>1, <1>2, <1>5, <1>6, <1>7, <1>8

LEMMA WritingAlone ==
  ASSUME Typed, Calm, NEW q, NEW E, NEW M, Writing(q, E, M), NEW j \in Jobs, NEW n \in 1..Budget[j],
         JobRec(j) # q, TaskRec(j, n) # q
  PROVE  Alone(j, n)'
  <1> SUFFICES ASSUME Live(j, n)'
               PROVE  n = JobOf(j)'.attempts /\ ~Ends(JobRec(j))' /\
                        (\A i \in DOMAIN todo : Spares(todo[i], j))'
    BY DEF Alone
  <1>1. /\ Await(TaskRec(j, n)) \notin M /\ LookAt(j, n) \notin M /\ \A a \in M : Spares(a, j) /\
              ~Pends(a, j, n)
        /\ Left' \subseteq M \cup Left
    BY DEF Writing
  <1>2. Ends(TaskRec(j, n))' <=> Ends(TaskRec(j, n))
    BY Names, WrittenIs
  <1>3. Pending(j, n)' => Pending(j, n)
    BY <1>1, PendingIs
  <1>4. (Hears(j, n)' <=> Hears(j, n)) /\ (Waits(j, n)' <=> Waits(j, n))
    BY DEF Writing, Hears, Listens, Among, Waits
  <1>5. Live(j, n)
    BY <1>1, <1>2, <1>3, <1>4, LiveIs
  <1>6. n = JobOf(j).attempts /\ ~Ends(JobRec(j)) /\ \A a \in Left : Spares(a, j)
    BY <1>5, SparesIs DEF Calm, Alone
  <1>7. \A a \in Left' : Spares(a, j)
    BY <1>1, <1>6
  <1>8. JobOf(j)' = JobOf(j) /\ (Ends(JobRec(j))' <=> Ends(JobRec(j)))
    BY WrittenIs
  <1> QED BY <1>6, <1>7, <1>8, SparesIs

LEMMA WriteCalm ==
  ASSUME Typed, AllFit, Calm, NEW q, NEW E, NEW M, Writing(q, E, M), q \in Tasks => Worked(q)',
         \A j \in Jobs : \A n \in 1..Budget[j] :
           /\ TaskRec(j, n) = q => Heeded(j, n)'
           /\ JobRec(j) = q \/ TaskRec(j, n) = q => Alone(j, n)'
  PROVE  Calm'
  <1>1. \A t \in Tasks : Worked(t)'
    BY WritingWorked
  <1>2. (\A i \in DOMAIN todo : Sound(todo[i]))'
    BY WritingSound, SoundIs
  <1>3. \A j \in Jobs : \A n \in 1..Budget[j] : Heeded(j, n)' /\ Alone(j, n)'
    BY WritingHeeded, WritingAlone
  <1> QED BY <1>1, <1>2, <1>3 DEF Calm, Tasks, Records, TasksOf

\* An event of a record that is another one's, or none at all, moves nothing.
LEMMA EmitIs ==
  ASSUME NEW a, a.do = "emit"
  PROVE  /\ Sound(a)' /\ \A j : Spares(a, j)
         /\ \A j, n : a # Unsubscribe(Attempt(j, n)) /\ a # Await(TaskRec(j, n)) /\ a # LookAt(j, n)
         /\ \A j, n : Pends(a, j, n) => a.about = TaskRec(j, n)
  <1>1. \A j, n : a # Unsubscribe(Attempt(j, n)) /\ a # Await(TaskRec(j, n)) /\ a # LookAt(j, n)
    BY DEF Unsubscribe, Await, LookAt
  <1> QED BY <1>1 DEF Sound, Spares, Pends, TellsOf, Tells

LEMMA SubmitCalm ==
  ASSUME EventsAssumption, Typed, AllFit, Counted, Paired, Calm, NEW j \in Jobs, Submit(j)
  PROVE  Calm'
  <1>1. UNCHANGED <<listeners, working, awaiting>> /\ todo = <<>>
    BY DEF Submit, Ready
  <1>2. PICK q : q = JobRec(j) /\ q[1] = "job" /\ q \in Records
    BY Names
  <1>3. /\ record'[q] = New /\ \A r \in Records : r # q => record'[r] = record[r]
    BY <1>2, SubmitWrites, WritesGrow
  <1>4. PICK x, y, z, w : /\ x = Emit("created", q, New) /\ y = Emit("updated", q, New)
                          /\ z = RunAttempt(j) /\ w = Catch("request", q)
    OBVIOUS
  <1>5. /\ x.do = "emit" /\ x.about = q /\ y.do = "emit" /\ y.about = q
        /\ z.do = "attempt" /\ z.job = j /\ w.do = "catch"
    BY <1>4 DEF Emit, RunAttempt, Catch
  <1>6. todo' = <<x, y, z, w>>
    BY <1>2, <1>4 DEF Submit
  <1>7. PICK E, M : E = {} /\ M = {x, y, z, w}
    OBVIOUS
  <1>8. Left = {} /\ Left' = M
    BY <1>1, <1>6, <1>7, LeftIs
  <1>9. ~Ends(q)'
    BY <1>3 DEF Ends, New, Settled
  <1>10. \A t \in Tasks : t # q
    BY <1>2 DEF Tasks
  <1>11. Sound(z)' /\ Sound(w)'
    <2>1. ~Ends(JobRec(z.job))'
      BY <1>2, <1>5, <1>9 DEF Ends
    <2>2. \A i, n : z # Unsubscribe(Attempt(i, n)) /\ w # Unsubscribe(Attempt(i, n))
      BY <1>5 DEF Unsubscribe
    <2> QED BY <1>5, <2>1, <2>2 DEF Sound
  <1>12. ASSUME NEW i \in Jobs, NEW n \in 1..Budget[i]
         PROVE  /\ TaskRec(i, n) # q
                /\ \A a \in M : /\ ~Pends(a, i, n) /\ a # Unsubscribe(Attempt(i, n)) /\ a # Await(TaskRec(i, n))
                                /\ a # LookAt(i, n)
                                /\ i # j => Spares(a, i)
    <2>1. TaskRec(i, n) # q
      BY <1>10, Names
    <2>2. ASSUME NEW a, a = x \/ a = y
          PROVE  ~Pends(a, i, n) /\ a # Unsubscribe(Attempt(i, n)) /\ a # Await(TaskRec(i, n)) /\
                   a # LookAt(i, n) /\ Spares(a, i)
      BY <1>5, <2>1, <2>2, EmitIs
    <2>3. ASSUME NEW a, a = z \/ a = w
          PROVE  /\ ~Pends(a, i, n) /\ a # Unsubscribe(Attempt(i, n)) /\ a # Await(TaskRec(i, n)) /\
                       a # LookAt(i, n)
                 /\ i # j => Spares(a, i)
      BY <1>5, <2>3 DEF Pends, TellsOf, Tells, Unsubscribe, Await, LookAt, Spares
    <2> QED BY <1>7, <2>1, <2>2, <2>3
  <1>13. \A a \in M : Sound(a)'
    BY <1>5, <1>7, <1>11, EmitIs
  <1>14. \A i \in Jobs : JobRec(i) # q => i # j
    BY <1>2
  <1>15. Writing(q, E, M)
    BY <1>1, <1>2, <1>3, <1>7, <1>8, <1>12, <1>13, <1>14 DEF Writing
  <1>16. ASSUME NEW n \in 1..Budget[j] PROVE ~Live(j, n)'
    <2>1. TaskRec(j, n) \in Tasks /\ TaskRec(j, n)[2] = j /\ TaskRec(j, n)[3] = n /\ Budget[j] \in Nat
      BY Names DEF TaskRec, EventsAssumption
    <2>2. JobOf(j).attempts = 0
      BY DEF Submit, JobOf, Absent
    <2>3. ~(Version(TaskRec(j, n)) > 0)
      <3>1. Version(TaskRec(j, n)) > 0 => n <= 0
        BY <2>1, <2>2 DEF Counted
      <3> QED BY <2>1, <3>1
    <2>4. ~Hears(j, n)'
      <3>1. <<"task", "updated">> \in Events
        BY DEF Events, SocketEvents
      <3> QED BY <1>1, <2>3, <3>1 DEF Paired, Hears, Listens, Among
    <2>5. ~Waits(j, n)'
      <3>1. ASSUME Waits(j, n) PROVE FALSE
        <4>1. PICK a \in awaiting : a.task = TaskRec(j, n)
          BY <3>1 DEF Waits
        <4> QED BY <2>3, <4>1 DEF Counted
      <3> QED BY <1>1, <3>1 DEF Waits
    <2> QED BY <1>8, <1>12, <2>4, <2>5, LiveIs
  <1>17. ASSUME NEW i \in Jobs, NEW n \in 1..Budget[i], JobRec(i) = q PROVE Alone(i, n)'
    <2>1. i = j
      BY <1>2, <1>17 DEF JobRec
    <2> QED BY <1>16, <2>1 DEF Alone
  <1> QED BY <1>10, <1>12, <1>15, <1>17, WriteCalm

LEMMA DispatchCalm ==
  ASSUME EventsAssumption, Typed, Stacked, AllFit, Counted, Paired, Calm, DispatchTask
  PROVE  Calm'
  <1>1. UNCHANGED <<listeners, working, awaiting>>
    BY DEF DispatchTask
  <1>2. PICK e : e = Head(todo)
    OBVIOUS
  <1>3. PICK q : DispatchTurns(e, q)
    BY <1>2, DispatchTurn
  <1>4. /\ e.do = "dispatch" /\ e.about = q /\ q \in Tasks /\ q \in Records /\ q[1] = "task"
        /\ record[q] = Absent /\ Sound(e) /\ Fits(e) /\ e \in Left
    <2>1. e \in Left /\ Fits(e)
      BY <1>3 DEF DispatchTurns, Turn
    <2> QED BY <1>3, <2>1, SoundIs, Names DEF DispatchTurns, Calm
  <1>5. /\ record'[q] = New /\ \A r \in Records : r # q => record'[r] = record[r]
    BY <1>2, <1>3, DispatchWrites, WritesGrow
  <1>6. PICK x, y, z, w : /\ x = Emit("created", q, New) /\ y = Emit("updated", q, New)
                          /\ z = Execute(q) /\ w = Await(q)
    OBVIOUS
  <1>7. /\ x.do = "emit" /\ x.about = q /\ y.do = "emit" /\ y.about = q
        /\ z.do = "execute" /\ z.about = q /\ w.do = "await" /\ w.about = q
    BY <1>6 DEF Emit, Execute, Await
  <1>8. PICK E, M : E = {e} /\ M = {x, y, z, w}
    OBVIOUS
  <1>9. Left = E \cup Rest /\ Left' = M \cup Rest /\ \A a \in Rest : a \in Items /\ Above(e, a)
    BY <1>3, <1>6, <1>8 DEF DispatchTurns, Turn
  <1>10. ~Ends(q)' /\ ~Ends(q)
    BY <1>4, <1>5 DEF Ends, New, Absent, Settled
  <1>11. q \notin working /\ Version(q) = 0
    BY <1>4 DEF Counted, Version, Absent
  <1>12. Sound(z)' /\ Sound(w)'
    <2>1. ~Ends(z.about)' /\ z.about \notin working'
      BY <1>1, <1>7, <1>10, <1>11 DEF Ends
    <2>2. \A i, n : z # Unsubscribe(Attempt(i, n)) /\ w # Unsubscribe(Attempt(i, n))
      BY <1>7 DEF Unsubscribe
    <2> QED BY <1>7, <2>1, <2>2 DEF Sound
  <1>13. \A j \in Jobs : JobRec(j) # q
    BY <1>4, Names
  <1>14. ASSUME NEW j \in Jobs, NEW n \in 1..Budget[j]
         PROVE  /\ \A a \in M : /\ (Pends(a, j, n) => TaskRec(j, n) = q) /\ a # Unsubscribe(Attempt(j, n))
                                /\ a # LookAt(j, n) /\ Spares(a, j)
                                /\ TaskRec(j, n) # q => a # Await(TaskRec(j, n))
                /\ ~Pends(e, j, n) /\ e # Unsubscribe(Attempt(j, n))
    <2>1. ASSUME NEW a, a = x \/ a = y
          PROVE  /\ (Pends(a, j, n) => TaskRec(j, n) = q) /\ a # Unsubscribe(Attempt(j, n))
                 /\ a # Await(TaskRec(j, n)) /\ a # LookAt(j, n) /\ Spares(a, j)
      BY <1>7, <2>1, EmitIs
    <2>2. ASSUME NEW a, a = z \/ a = w
          PROVE  /\ ~Pends(a, j, n) /\ a # Unsubscribe(Attempt(j, n)) /\ a # LookAt(j, n) /\ Spares(a, j)
                 /\ TaskRec(j, n) # q => a # Await(TaskRec(j, n))
      BY <1>7, <2>2 DEF Pends, TellsOf, Tells, Unsubscribe, Await, LookAt, Spares
    <2>3. ~Pends(e, j, n) /\ e # Unsubscribe(Attempt(j, n))
      BY <1>4 DEF Pends, TellsOf, Tells, Unsubscribe
    <2> QED BY <1>8, <2>1, <2>2, <2>3
  <1>15. \A a \in M : Sound(a)'
    BY <1>7, <1>8, <1>12, EmitIs
  <1>16. \A t \in Tasks : Execute(t) \notin E /\ Update(t, [status |-> "running"]) \notin E
    BY <1>4, <1>8 DEF Execute, Update
  <1>17. ASSUME NEW j \in Jobs, NEW n \in 1..Budget[j], NEW a \in Left, a = Unsubscribe(Attempt(j, n))
         PROVE  TaskRec(j, n) # q
    <2>1. Ends(TaskRec(j, n))
      BY <1>17, SoundIs DEF Calm, Sound
    <2> QED BY <1>10, <2>1 DEF Ends
  <1>18. Writing(q, E, M)
    BY <1>1, <1>4, <1>5, <1>8, <1>9, <1>10, <1>13, <1>14, <1>15, <1>16, <1>17 DEF Writing
  <1>19. Worked(q)'
    <2>1. record'[q].status = "queued"
      BY <1>5 DEF New
    <2>2. Has(Execute(q))'
      BY <1>6, <1>8, <1>9, HasIs
    <2> QED BY <1>1, <1>11, <2>1, <2>2 DEF Worked
  <1>20. ASSUME NEW j \in Jobs, NEW n \in 1..Budget[j], TaskRec(j, n) = q PROVE Heeded(j, n)' /\ Alone(j, n)'
    <2>1. ~Hears(j, n)'
      <3>1. <<"task", "updated">> \in Events
        BY DEF Events, SocketEvents
      <3>2. Hears(j, n) => Version(q) > 0
        BY <1>20, <3>1 DEF Paired, Hears
      <3> QED BY <1>1, <1>11, <3>2 DEF Hears, Listens, Among
    <2>2. q[2] = j /\ q[3] = n
      BY <1>20 DEF TaskRec
    <2>3. n = JobOf(j).attempts
      <3>1. Head(todo) # Update(JobRec(j), [status |-> "running", attempts |-> n])
        BY <1>2, <1>4 DEF Update
      <3> QED BY <1>4, <2>2, <3>1 DEF Fits, Tells
    <2>4. ~Ends(JobRec(j))
      BY <1>4, <2>2 DEF Sound
    <2>5. JobOf(j)' = JobOf(j) /\ (Ends(JobRec(j))' <=> Ends(JobRec(j)))
      BY <1>13, <1>18, WrittenIs
    <2>6. ASSUME NEW a \in Rest PROVE Spares(a, j)
      <3>1. Above(e, a)
        BY <1>9
      <3>2. ~Tells(e) /\ \A r, p : e # Update(r, p)
        BY <1>4 DEF Tells, Update
      <3> QED BY <3>1, <3>2, Names DEF Above, TellsOf, Spares
    <2>7. \A a \in Left' : Spares(a, j)
      BY <1>9, <1>14, <2>6
    <2>8. n = JobOf(j)'.attempts /\ ~Ends(JobRec(j))' /\ (\A i \in DOMAIN todo : Spares(todo[i], j))'
      BY <2>3, <2>4, <2>5, <2>7, SparesIs
    <2> QED BY <2>1, <2>8 DEF Heeded, Alone
  <1> QED BY <1>13, <1>18, <1>19, <1>20, WriteCalm

\* What an update finds and leaves.
Updated(e, q, u, M) ==
  /\ UpdateTurns(e, q, u) /\ Turn(e, M) /\ e.do = "update" /\ e.about = q /\ e \in Left
  /\ q \in Records /\ record'[q] = u /\ \A r \in Records : r # q => record'[r] = record[r]
  /\ Emit("updated", q, u) \in M /\ \A a \in M : a.do = "emit" /\ a.about = q

LEMMA UpdatedIs ==
  ASSUME Typed, Stacked, AllFit, UpdateRecord
  PROVE  \E e, q, u, M : Updated(e, q, u, M)
  <1>1. PICK e, q, u : UpdateTurns(e, q, u)
    BY UpdateTurn
  <1>2. PICK A, B : A = Emit("updated", q, u) /\ B = Emit(u.status, q, u)
    OBVIOUS
  <1>3. A.do = "emit" /\ A.about = q /\ B.do = "emit" /\ B.about = q
    BY <1>2 DEF Emit
  <1>4. PICK M : M \subseteq {A, B} /\ A \in M /\ Turn(e, M)
    BY <1>1, <1>2 DEF UpdateTurns
  <1>5. record'[q] = u /\ \A r \in Records : r # q => record'[r] = record[r]
    BY <1>1, UpdateWrites, WritesGrow
  <1>6. e.do = "update" /\ e.about = q /\ q \in Records /\ e \in Left
    BY <1>1, <1>4 DEF UpdateTurns, Updates, Turn
  <1>7. Emit("updated", q, u) \in M /\ \A a \in M : a.do = "emit" /\ a.about = q
    BY <1>2, <1>3, <1>4
  <1> QED BY <1>1, <1>4, <1>5, <1>6, <1>7 DEF Updated

\* If that is its end, nothing is left to do about the record but to look, or to note that it goes on.
LEMMA UpdateSpares ==
  ASSUME NEW e, NEW q, NEW u, NEW M, Updated(e, q, u, M), Ends(q)', NEW a \in Rest
  PROVE  Spared(a, q)
  <1>1. /\ e.do = "update" /\ e.about = q /\ u = Merged(record[q], e.patch) /\ record'[q] = u /\
              e = Update(q, e.patch)
    BY DEF Updated, UpdateTurns
  <1>2. ~Tells(e) /\ Above(e, a) /\ a \in Items
    BY <1>1 DEF Updated, Turn, Tells
  <1>3. ~("status" \in DOMAIN e.patch /\ e.patch.status = "running")
    <2>1. u.status # "running"
      BY <1>1 DEF Ends, Settled
    <2> QED BY <1>1, <2>1 DEF Merged
  <1>4. \A r : e # Update(r, [status |-> "running"])
    <2>1. ASSUME NEW r, e = Update(r, [status |-> "running"]) PROVE FALSE
      <3>1. e.patch = [status |-> "running"]
        BY <2>1 DEF Update
      <3> QED BY <1>3, <3>1
    <2> QED BY <2>1
  <1>5. \A r, n : e # Update(r, [status |-> "running", attempts |-> n])
    <2>1. ASSUME NEW r, NEW n, e = Update(r, [status |-> "running", attempts |-> n]) PROVE FALSE
      <3>1. e.patch = [status |-> "running", attempts |-> n]
        BY <2>1 DEF Update
      <3> QED BY <1>3, <3>1
    <2> QED BY <2>1
  <1> QED BY <1>2, <1>4, <1>5 DEF Spared, Above, TellsOf

LEMMA UpdateWriting ==
  ASSUME Typed, AllFit, Calm, UpdateRecord, NEW e, NEW q, NEW u, NEW M, Updated(e, q, u, M),
         \A j \in Jobs : \A n \in 1..Budget[j] : TaskRec(j, n) = q => ~Ends(q)
  PROVE  Writing(q, {e}, M)
  <1>1. UNCHANGED <<listeners, working, awaiting>>
    BY DEF UpdateRecord
  <1>2. PICK E : E = {e}
    OBVIOUS
  <1>3. Left = E \cup Rest /\ Left' = M \cup Rest /\ e.do = "update" /\ e.about = q
    BY <1>2 DEF Updated, Turn
  <1>4. \A a \in M : Sound(a)'
    BY EmitIs DEF Updated
  <1>5. \A t \in Tasks : t # q => Execute(t) \notin E /\ Update(t, [status |-> "running"]) \notin E
    BY <1>2, <1>3 DEF Execute, Update
  <1>6. ASSUME NEW a \in Left, a \in Left', Ends(q)' PROVE Spared(a, q)
    <2>1. a \in Rest
      <3>1. a \notin M \/ a \notin E
        BY <1>2, <1>3 DEF Updated
      <3> QED BY <1>3, <1>6, <3>1
    <2> QED BY <1>6, <2>1, UpdateSpares
  <1>7. ASSUME NEW j \in Jobs, NEW n \in 1..Budget[j]
        PROVE  /\ \A a \in E \cup M : (Pends(a, j, n) => TaskRec(j, n) = q) /\ a # Unsubscribe(Attempt(j, n))
               /\ \A a \in Left : a = Unsubscribe(Attempt(j, n)) => TaskRec(j, n) # q
               /\ Await(TaskRec(j, n)) \notin M /\ LookAt(j, n) \notin M /\ \A a \in M : Spares(a, j)
    <2>1. ASSUME NEW a \in M
          PROVE  /\ (Pends(a, j, n) => TaskRec(j, n) = q) /\ a # Unsubscribe(Attempt(j, n))
                 /\ a # Await(TaskRec(j, n)) /\ a # LookAt(j, n) /\ Spares(a, j)
      BY EmitIs DEF Updated
    <2>2. ~Pends(e, j, n) /\ e # Unsubscribe(Attempt(j, n))
      BY <1>3 DEF Pends, TellsOf, Tells, Unsubscribe
    <2>3. ASSUME NEW a \in Left, a = Unsubscribe(Attempt(j, n)) PROVE TaskRec(j, n) # q
      <3>1. Ends(TaskRec(j, n))
        BY <2>3, SoundIs DEF Calm, Sound
      <3> QED BY <3>1
    <2> QED BY <1>2, <2>1, <2>2, <2>3
  <1>8. Writing(q, E, M)
    BY <1>1, <1>3, <1>4, <1>5, <1>6, <1>7 DEF Writing, Updated
  <1> QED BY <1>2, <1>8

LEMMA JobCalm ==
  ASSUME EventsAssumption, Typed, Stacked, AllFit, Calm, UpdateRecord, NEW e, NEW q, NEW u, NEW M,
         Updated(e, q, u, M), q[1] = "job"
  PROVE  Calm'
  <1>1. UNCHANGED <<listeners, working, awaiting>>
    BY DEF UpdateRecord
  <1>2. \A t \in Tasks : t # q
    BY DEF Tasks
  <1>3. \A j \in Jobs : \A n \in 1..Budget[j] : TaskRec(j, n) # q
    BY <1>2, Names
  <1>4. PICK E : E = {e}
    OBVIOUS
  <1>5. Writing(q, E, M)
    BY <1>3, <1>4, UpdateWriting
  <1>6. ASSUME NEW j \in Jobs, NEW n \in 1..Budget[j], JobRec(j) = q, Live(j, n)'
        PROVE  n = JobOf(j)'.attempts /\ ~Ends(JobRec(j))' /\ (\A i \in DOMAIN todo : Spares(todo[i], j))'
    <2>1. ASSUME NEW a \in M PROVE ~Pends(a, j, n) /\ a # Await(TaskRec(j, n)) /\ a # LookAt(j, n) /\
                                      Spares(a, j)
      BY <1>3, EmitIs DEF Updated
    <2>2. Left' \subseteq M \cup Left
      BY <1>5 DEF Writing
    <2>3. Ends(TaskRec(j, n))' <=> Ends(TaskRec(j, n))
      BY <1>3, <1>5, Names, WrittenIs
    <2>4. Pending(j, n)' => Pending(j, n)
      BY <2>1, <2>2, PendingIs
    <2>5. (Hears(j, n)' <=> Hears(j, n)) /\ (Waits(j, n)' <=> Waits(j, n))
      BY <1>1 DEF Hears, Listens, Among, Waits
    <2>6. Live(j, n)
      BY <1>6, <2>1, <2>2, <2>3, <2>4, <2>5, LiveIs
    <2>7. n = JobOf(j).attempts /\ ~Ends(JobRec(j)) /\ \A a \in Left : Spares(a, j)
      BY <2>6, SparesIs DEF Calm, Alone
    <2>8. e.patch = <<>>
      BY <1>6, <2>7 DEF Updated, Spares
    <2>9. u.status = record[q].status /\ u.attempts = record[q].attempts
      <3>1. <<>> \in Patches /\ record[q] \in States /\ u = Merged(record[q], <<>>)
        BY <2>8 DEF Patches, Typed, Updated, UpdateTurns
      <3> QED BY <3>1, Merging
    <2>10. JobOf(j)'.attempts = JobOf(j).attempts /\ (Ends(JobRec(j))' <=> Ends(JobRec(j)))
      BY <1>6, <2>9 DEF Updated, JobOf, Ends
    <2>11. \A a \in Left' : Spares(a, j)
      BY <2>1, <2>2, <2>7
    <2> QED BY <2>7, <2>10, <2>11, SparesIs
  <1>7. \A j \in Jobs : \A n \in 1..Budget[j] : JobRec(j) = q => Alone(j, n)'
    BY <1>6 DEF Alone
  <1> QED BY <1>2, <1>3, <1>5, <1>7, WriteCalm

LEMMA TaskCalm ==
  ASSUME EventsAssumption, Typed, Stacked, AllFit, Calm, UpdateRecord, NEW e, NEW q, NEW u, NEW M,
         Updated(e, q, u, M), q[1] = "task"
  PROVE  Calm'
  <1>1. UNCHANGED <<listeners, working, awaiting>>
    BY DEF UpdateRecord
  <1>2. q \in Tasks /\ q \in Records
    BY Names DEF Updated
  <1>3. e.do = "update" /\ e.about = q /\ Sound(e)
    BY SoundIs DEF Updated, Calm
  <1>4. e.patch \in Settings /\ q \notin working
    BY <1>3 DEF Sound
  <1>5. PICK x \in {"running"} \cup Settled : e.patch = [status |-> x]
    BY <1>4 DEF Settings
  <1>6. "status" \in DOMAIN e.patch /\ e.patch.status = x
    BY <1>5
  <1>7. ~Ends(q)
    <2>1. e.patch # <<>>
      BY <1>6, EmptySeq
    <2> QED BY <1>3, <2>1 DEF Sound
  <1>8. record'[q].status = x
    BY <1>6 DEF Updated, UpdateTurns, Merged
  <1>9. \A j \in Jobs : JobRec(j) # q
    BY DEF JobRec
  <1>10. PICK E : E = {e}
    OBVIOUS
  <1>11. Writing(q, E, M)
    BY <1>7, <1>10, UpdateWriting
  <1>12. Worked(q)'
    <2>1. x \in {"queued", "running"} \cup Settled /\ x # "queued"
      BY DEF Settled
    <2> QED BY <1>1, <1>4, <1>8, <2>1 DEF Worked
  <1>13. ASSUME NEW j \in Jobs, NEW n \in 1..Budget[j], TaskRec(j, n) = q PROVE Heeded(j, n)'
    <2>1. CASE x = "running"
      BY <1>8, <1>13, <2>1 DEF Heeded
    <2>2. CASE x \in Settled
      <3>1. Ends(TaskRec(j, n))'
        BY <1>8, <1>13, <2>2 DEF Ends
      <3>2. PICK a : a = Emit("updated", q, u)
        OBVIOUS
      <3>3. a \in Left'
        BY <3>2 DEF Updated, Turn
      <3>4. Pends(a, j, n)
        BY <1>13, <3>2 DEF Pends, TellsOf, Tells, Emit
      <3>5. Pending(j, n)'
        BY <3>3, <3>4, PendingIs
      <3> QED BY <3>1, <3>5 DEF Heeded
    <2> QED BY <2>1, <2>2
  <1>14. ASSUME NEW j \in Jobs, NEW n \in 1..Budget[j], TaskRec(j, n) = q, Live(j, n)'
         PROVE  n = JobOf(j)'.attempts /\ ~Ends(JobRec(j))' /\ (\A i \in DOMAIN todo : Spares(todo[i], j))'
    <2>1. ASSUME NEW a \in M PROVE a # Await(TaskRec(j, n)) /\ a # LookAt(j, n) /\ Spares(a, j)
      BY EmitIs DEF Updated
    <2>2. Left' \subseteq M \cup Left
      BY <1>11 DEF Writing
    <2>3. (Hears(j, n)' <=> Hears(j, n)) /\ (Waits(j, n)' <=> Waits(j, n))
      BY <1>1 DEF Hears, Listens, Among, Waits
    <2>4. Live(j, n)
      BY <1>7, <1>14, <2>1, <2>2, <2>3, LiveIs
    <2>5. n = JobOf(j).attempts /\ ~Ends(JobRec(j)) /\ \A a \in Left : Spares(a, j)
      BY <2>4, SparesIs DEF Calm, Alone
    <2>6. JobOf(j)' = JobOf(j) /\ (Ends(JobRec(j))' <=> Ends(JobRec(j)))
      BY <1>9, <1>11, WrittenIs
    <2>7. \A a \in Left' : Spares(a, j)
      BY <2>1, <2>2, <2>5
    <2> QED BY <2>5, <2>6, <2>7, SparesIs
  <1>15. \A j \in Jobs : \A n \in 1..Budget[j] : TaskRec(j, n) = q => Alone(j, n)'
    BY <1>14 DEF Alone
  <1> QED BY <1>9, <1>11, <1>12, <1>13, <1>15, WriteCalm

LEMMA UpdateCalm ==
  ASSUME EventsAssumption, Typed, Stacked, AllFit, Calm, UpdateRecord
  PROVE  Calm'
  <1>1. PICK e, q, u, M : Updated(e, q, u, M)
    BY UpdatedIs
  <1>2. q[1] \in {"job", "task"}
    BY <1>1 DEF Updated, UpdateTurns
  <1> QED BY <1>1, <1>2, JobCalm, TaskCalm

LEMMA CalmKeeps ==
  ASSUME EventsAssumption, Typed, Shape, AllFit, Counted, Paired, Calm, [Next]_vars,
         ~PluginThrows, phase' # "down"
  PROVE  Calm'
  <1>1. CASE Proceed
    <2>1. CASE EmitEvent
      BY <2>1, EmitCalm DEF Shape
    <2>2. CASE TellAttempt
      BY <2>2, TellAttemptCalm DEF Shape
    <2>3. CASE RemoveListener
      BY <2>3, RemoveCalm DEF Shape
    <2>4. CASE UpdateRecord
      BY <2>4, UpdateCalm DEF Shape
    <2>5. CASE BeginAttempt
      BY <2>5, BeginCalm DEF Shape
    <2>6. CASE DispatchTask
      BY <2>6, DispatchCalm DEF Shape
    <2>7. CASE AwaitDispatch
      BY <2>7, AwaitCalm DEF Shape
    <2>8. CASE ExecuteTask
      BY <2>8, ExecuteCalm DEF Shape
    <2>9. CASE HandlerStarts
      BY <2>9, StartsCalm DEF Shape
    <2>10. CASE LookAtTask
      BY <2>10, LookCalm DEF Shape
    <2>11. CASE RegisterThrows
      BY <2>11, RegisterThrowsCalm
    <2>12. CASE NoteLoaded
      BY <2>12, LoadedCalm
    <2>13. CASE TellSocket \/ TellPlugin \/ Caught \/ RegisterAgent \/ Subscribe
      BY <2>13, PopsCalm
    <2> QED BY <1>1, <2>1, <2>2, <2>3, <2>4, <2>5, <2>6, <2>7, <2>8, <2>9, <2>10, <2>11, <2>12,
           <2>13 DEF Proceed
  <1>2. CASE Serve \/ UNCHANGED vars
    <2>1. UNCHANGED <<record, working, listeners, awaiting, todo>>
      BY <1>2 DEF Serve, vars
    <2> QED BY <2>1, StillCalm
  <1>3. CASE LoadNext
    BY <1>3, LoadCalm
  <1>4. CASE \E j \in Jobs : Submit(j) \/ \E n \in 1..Budget[j] : JobGoesOn(j, n)
    BY <1>4, SubmitCalm, GoesOnCalm
  <1>5. CASE \E c \in Requests : PostTask(c) \/ ReadStatus(c) \/ WriteStatus(c)
    BY <1>5, PostCalm, StatusCalm
  <1>6. CASE \E t \in Records : HandlerReturns(t)
    BY <1>6, ReturnsCalm
  <1>7. CASE \E s \in Sockets : Connect(s) \/ Close(s)
    BY <1>7, LinkCalm
  <1> QED BY <1>1, <1>2, <1>3, <1>4, <1>5, <1>6, <1>7 DEF Next

\* Nothing goes on when the Gateway is down, and what has thrown has thrown.
LEMMA StillQuiet ==
  ASSUME Typed, Counted, Quiet, [Next]_vars, throws' = 0
  PROVE  throws = 0 /\ ~PluginThrows /\ (phase = "down" => UNCHANGED <<phase, record>>) /\
           (phase # "down" => Calm)
  <1>1. ~PluginThrows
    BY DEF PluginThrows, Typed
  <1>2. throws' = throws
    BY <1>1 DEF Next, Proceed, EmitEvent, TellSocket, TellAttempt, TellPlugin, RemoveListener,
                Caught, UpdateRecord, BeginAttempt, DispatchTask, AwaitDispatch, ExecuteTask, HandlerStarts,
                LookAtTask, RegisterAgent, Subscribe, RegisterThrows, NoteLoaded, LoadNext, Serve, Submit,
                JobGoesOn, PostTask, ReadStatus, WriteStatus, HandlerReturns, Connect, Close, vars
  <1>3. ASSUME phase = "down" PROVE UNCHANGED <<phase, record>>
    <2>1. todo = <<>> /\ phase \notin {"loading", "serving"}
      BY <1>3 DEF Counted
    <2> QED BY <2>1
            DEF Next, Proceed, EmitEvent, TellSocket, TellAttempt, TellPlugin, PluginThrows, RemoveListener,
                Caught, UpdateRecord, BeginAttempt, DispatchTask, AwaitDispatch, ExecuteTask, HandlerStarts,
                LookAtTask, RegisterAgent, Subscribe, RegisterThrows, NoteLoaded, LoadNext, Serve, Submit,
                JobGoesOn, PostTask, ReadStatus, WriteStatus, HandlerReturns, Connect, Close, vars,
                AtTop, Calling, Ready
  <1> QED BY <1>1, <1>2, <1>3 DEF Quiet

-----------------------------------------------------------------------------
(* The theorems.                                                           *)

\* The invariant holds of the initial states ...
LEMMA InitKeeps ==
  ASSUME EventsAssumption, Init
  PROVE  IInv /\ Quiet
  <1>1. todo = <<>> /\ working = {} /\ awaiting = {} /\ throws = 0 /\ cut = {} /\ phase = "loading"
    BY DEF Init
  <1>2. ASSUME NEW r \in Records
        PROVE  /\ record[r] = IF r[1] = "workspace" THEN Unused ELSE Absent
               /\ record[r] \in States
    BY DEF Init, Unused, Absent, States, Statuses
  <1>3. record \in [Records -> States]
    BY <1>2 DEF Init
  <1>4. \A e \in Events : listeners[e] = <<>>
    BY DEF Init
  <1>5. \A l : \A e \in Events : ~Listens(l, e)
    BY <1>4 DEF Listens, Among
  <1>6. Typed
    <2>1. listeners \in [Events -> Seq(Listeners)]
      BY EmptySeq DEF Init
    <2>2. told \in [Sockets -> [Records -> Nat]] /\ base \in [Sockets -> [Records -> Nat]]
          /\ link \in [Sockets -> {"new", "open", "closed"}]
      BY DEF Init, NoVersions
    <2>3. toLoad \in Seq(ToSet(Installed)) /\ todo \in Seq(Items)
      BY <1>1, EmptySeq DEF Init, EventsAssumption
    <2> QED BY <1>1, <1>3, <2>1, <2>2, <2>3 DEF Typed
  <1>7. Stacked /\ Bottom /\ Framed /\ AllFit
    BY <1>1 DEF Stacked, Bottom, Framed, AllFit
  <1>8. /\ \A j \in Jobs : JobOf(j) = Absent
        /\ \A t \in Tasks : record[t] = Absent
        /\ \A w \in Workspaces : record[WorkspaceRec(w)] = Unused
    <2>1. \A w \in Workspaces : WorkspaceRec(w) \in Records /\ WorkspaceRec(w)[1] = "workspace"
      BY RecordsAre DEF WorkspaceRec
    <2> QED BY <1>2, <2>1, Names DEF JobOf
  <1>9. Counted
    <2>1. /\ \A j \in Jobs : JobOf(j).attempts <= Budget[j]
          /\ \A j \in Jobs : Version(JobRec(j)) = 0 => JobOf(j) = Absent
      BY <1>8 DEF Absent, EventsAssumption
    <2>2. \A t \in Tasks : /\ record[t].attempts = 0
                           /\ Version(t) = 0 <=> record[t] = Absent
                           /\ Version(t) > 0 /\ t[2] \in Jobs => t[3] <= JobOf(t[2]).attempts
      BY <1>8 DEF Absent, Version
    <2>3. \A w \in Workspaces : LET r == record[WorkspaceRec(w)] IN
            r.status \in {"created", "analyzing"} /\ r.attempts = 0 /\ (r.status = "analyzing" => r.version > 0)
      BY <1>8 DEF Unused
    <2> QED BY <1>1, <2>1, <2>2, <2>3 DEF Counted
  <1>10. Paired
    <2>1. \A s \in Sockets : link[s] = "new"
      BY DEF Init
    <2> QED BY <1>4, <1>5, <2>1 DEF Paired, Apart
  <1>11. Heard
    <2>1. \A s \in Sockets : link[s] = "new" /\ \A r \in Records : told[s][r] = 0
      BY DEF Init, NoVersions
    <2>2. \A r \in Records : 0 <= Version(r)
      BY <1>3 DEF Version, States
    <2> QED BY <1>1, <2>1, <2>2 DEF Heard, Abreast
  <1>12. Calm
    <2>1. \A t \in Tasks : Worked(t)
      BY <1>1, <1>8 DEF Worked, Version, Absent
    <2>2. ASSUME NEW j \in Jobs, NEW n \in 1..Budget[j] PROVE Heeded(j, n) /\ Alone(j, n)
      <3>1. ~Hears(j, n)
        <4>1. <<"task", "updated">> \in Events
          BY DEF Events, SocketEvents
        <4> QED BY <1>5, <4>1 DEF Hears
      <3>2. ~Live(j, n)
        BY <1>1, <3>1 DEF Live, Has, Waits
      <3> QED BY <3>1, <3>2 DEF Heeded, Alone
    <2> QED BY <1>1, <2>1, <2>2 DEF Calm
  <1> QED BY <1>6, <1>7, <1>9, <1>10, <1>11, <1>12 DEF IInv, Quiet

\* ... each step keeps it ...
LEMMA NextKeeps ==
  ASSUME EventsAssumption, IInv, Quiet, [Next]_vars
  PROVE  IInv' /\ Quiet'
  <1>1. Typed /\ Shape /\ AllFit /\ Counted /\ Paired /\ Heard /\ Stacked /\ Bottom
    BY DEF IInv, Shape
  <1>2. Typed'
    BY <1>1, TypedKeeps
  <1>3. Stacked' /\ Bottom' /\ Framed'
    BY <1>1, ShapeKeeps DEF Shape
  <1>4. AllFit'
    BY <1>1, FitsKeeps
  <1>5. Counted'
    BY <1>1, CountedKeeps
  <1>6. Paired'
    BY <1>1, PairedKeeps
  <1>7. Heard'
    BY <1>1, HeardKeeps
  <1>8. ASSUME throws' = 0, phase' # "down" PROVE Calm'
    <2>1. ~PluginThrows /\ Calm
      BY <1>1, <1>8, StillQuiet
    <2> QED BY <1>1, <1>8, <2>1, CalmKeeps
  <1> QED BY <1>2, <1>3, <1>4, <1>5, <1>6, <1>7, <1>8 DEF IInv, Quiet

\* ... and so it always holds.
LEMMA AlwaysKept ==
  ASSUME EventsAssumption
  PROVE  Spec => [](IInv /\ Quiet)
  <1>1. Init => IInv /\ Quiet
    BY InitKeeps
  <1>2. IInv /\ Quiet /\ [Next]_vars => (IInv /\ Quiet)'
    BY NextKeeps
  <1> QED BY <1>1, <1>2, PTL DEF Spec

\* With nothing left to do, it says that nobody is owed anything.
LEMMA NobodyIsOwed ==
  ASSUME EventsAssumption, IInv, Quiet
  PROVE  NobodyOwed
  <1>1. Typed /\ Counted /\ Paired /\ Heard
    BY DEF IInv
  <1>2. TypeOK
    <2>1. phase \in {"loading", "serving", "down"} /\ (phase = "down" => todo = <<>>)
      BY <1>1 DEF Typed, Counted
    <2>2. \A r \in Records : r[1] = "job" => record[r].attempts <= Budget[r[2]]
      BY <1>1, Names DEF Counted, JobOf
    <2>3. \A t \in working \cup {a.task : a \in awaiting} : record[t].version > 0
      BY <1>1 DEF Counted, Version
    <2> QED BY <2>1, <2>2, <2>3 DEF TypeOK
  <1>3. ASSUME phase = "serving", todo = <<>> PROVE ListenersPaired
    <2>1. SUFFICES ASSUME NEW e \in Events, NEW i \in DOMAIN listeners[e], NEW l, l = listeners[e][i],
                          l[1] # "plugin"
                   PROVE  /\ \A k \in DOMAIN listeners[e] : listeners[e][k] = l => k = i
                          /\ l[1] = "socket" => link[l[2]] = "open"
                          /\ l[1] = "attempt" /\ throws = 0 => record[TaskRec(l[2], l[3])].status = "running"
      BY DEF ListenersPaired
    <2>2. l \in Listeners /\ Listens(l, e)
      BY <1>1, <2>1, ElementOfSeq DEF Typed, Listens, Among
    <2>3. \A k \in DOMAIN listeners[e] : listeners[e][k] = l => k = i
      BY <1>1, <2>1 DEF Paired, Apart
    <2>4. l[1] = "socket" => link[l[2]] = "open"
      BY <1>1, <2>2, Callers DEF Paired
    <2>5. ASSUME l[1] = "attempt", throws = 0 PROVE record[TaskRec(l[2], l[3])].status = "running"
      <3>1. l[2] \in Jobs /\ l[3] \in 1..Budget[l[2]] /\ l = Attempt(l[2], l[3])
        BY <2>2, <2>5, Callers
      <3>2. e = <<"task", "updated">>
        BY <1>1, <2>2, <3>1 DEF Paired
      <3>3. Hears(l[2], l[3])
        BY <2>2, <3>1, <3>2 DEF Hears
      <3>4. Heeded(l[2], l[3])
        BY <1>3, <2>5, <3>1 DEF Quiet, Calm
      <3>5. ~Pending(l[2], l[3]) /\ ~Has(Unsubscribe(Attempt(l[2], l[3])))
        BY <1>3 DEF Pending, Has
      <3> QED BY <3>3, <3>4, <3>5 DEF Heeded
    <2> QED BY <2>3, <2>4, <2>5
  <1>4. ASSUME phase = "serving", todo = <<>> PROVE SocketsUpToDate
    <2>1. ASSUME NEW s \in Sockets, NEW r \in Records, link[s] = "open"
          PROVE  IF Watches(s, r) /\ r[1] \notin cut
                 THEN \/ told[s][r] = record[r].version
                      \/ told[s][r] = 0 /\ base[s][r] = record[r].version
                 ELSE Watches(s, r) \/ told[s][r] = 0
      <3>1. Abreast(s, r) /\ (~Watches(s, r) => told[s][r] = 0)
        BY <1>1 DEF Heard
      <3>2. ~Owed(s, r)
        BY <1>4 DEF Owed
      <3> QED BY <1>4, <2>1, <3>1, <3>2 DEF Abreast, Current, Version
    <2> QED BY <2>1 DEF SocketsUpToDate
  <1> QED BY <1>2, <1>3, <1>4 DEF NobodyOwed, InTurn

\* A record that has settled is not updated to anything else.
LEMMA Settles ==
  ASSUME EventsAssumption, IInv, Quiet, [Next]_vars, throws' = 0, NEW r \in Records,
         record[r].status \in Settled
  PROVE  record'[r].status = record[r].status
  <1>1. Typed /\ Stacked /\ AllFit /\ Counted
    BY DEF IInv
  <1>2. (phase = "down" => UNCHANGED <<phase, record>>) /\ (phase # "down" => Calm)
    BY <1>1, StillQuiet
  <1>3. CASE UNCHANGED record
    BY <1>3
  <1>4. CASE UpdateRecord /\ phase # "down"
    <2>1. PICK e, q, u, M : Updated(e, q, u, M)
      BY <1>1, <1>4, UpdatedIs
    <2>2. CASE r # q
      BY <2>1, <2>2 DEF Updated
    <2>3. CASE r = q
      <3>1. Sound(e)
        BY <1>2, <1>4, <2>1, SoundIs DEF Updated, Calm
      <3>2. e.patch = <<>>
        BY <2>1, <2>3, <3>1 DEF Updated, Sound, Ends
      <3>3. <<>> \in Patches /\ record[q] \in States /\ u = Merged(record[q], <<>>)
        BY <1>1, <2>1, <3>2 DEF Patches, Typed, Updated, UpdateTurns
      <3>4. u.status = record[q].status
        BY <3>3, Merging
      <3> QED BY <2>1, <2>3, <3>4 DEF Updated
    <2> QED BY <2>2, <2>3
  <1>5. CASE DispatchTask
    <2>1. PICK e : e = Head(todo)
      OBVIOUS
    <2>2. PICK t : DispatchTurns(e, t)
      BY <1>1, <1>5, <2>1, DispatchTurn
    <2>3. record[t] = Absent /\ \A x \in Records : x # t => record'[x] = record[x]
      BY <1>1, <1>5, <2>1, <2>2, DispatchWrites, WritesGrow DEF DispatchTurns
    <2> QED BY <2>3 DEF Absent, Settled
  <1>6. CASE \E j \in Jobs : Submit(j)
    <2>1. PICK j \in Jobs : Submit(j)
      BY <1>6
    <2>2. record[JobRec(j)] = Absent /\ \A x \in Records : x # JobRec(j) => record'[x] = record[x]
      BY <1>1, <2>1, SubmitWrites, WritesGrow DEF Submit
    <2> QED BY <2>2 DEF Absent, Settled
  <1>7. CASE \E c \in Requests : WriteStatus(c)
    <2>1. PICK c, q, a : c \in Requests /\ StatusTurns(c, q, a)
      BY <1>7, <1>1, StatusTurn
    <2>2. q = WorkspaceRec(Home[c]) /\ Home[c] \in Workspaces
      BY <2>1 DEF StatusTurns, EventsAssumption
    <2>3. record[q].status \in {"created", "analyzing"}
      BY <1>1, <2>2 DEF Counted
    <2>4. UNCHANGED record \/ \E u : Writes(q, u)
      BY <2>1 DEF StatusTurns
    <2>5. \A x \in Records : x # q => record'[x] = record[x]
      BY <1>1, <2>4, WritesGrow
    <2> QED BY <2>3, <2>5 DEF Settled
  <1>8. CASE phase = "down"
    BY <1>2, <1>8
  <1> QED BY <1>3, <1>4, <1>5, <1>6, <1>7, <1>8
          DEF Next, Proceed, EmitEvent, TellSocket, TellAttempt, TellPlugin, PluginThrows, RemoveListener,
              Caught, BeginAttempt, AwaitDispatch, ExecuteTask, HandlerStarts, LookAtTask, RegisterAgent,
              Subscribe, RegisterThrows, NoteLoaded, LoadNext, Serve, JobGoesOn, PostTask, ReadStatus,
              HandlerReturns, Connect, Close, vars

\* Between two turns every open socket knows the current version of each record in its scope
\* that has changed since it connected, nothing of any other, and the listeners are those of
\* open sockets and of attempts whose task runs, once each (websocket.ts attachConnection,
\* job-engine.ts runAttempt, event-bus.ts), for any records, sockets, plugins and throws.
THEOREM NobodyIsEverOwed ==
  ASSUME EventsAssumption
  PROVE  Spec => []NobodyOwed
  <1>1. IInv /\ Quiet => NobodyOwed
    BY NobodyIsOwed
  <1> QED BY <1>1, AlwaysKept, PTL

\* No socket is told an older version of a record after a newer one, though listeners update
\* records, and so emit, in the middle of an emission (event-bus.ts emit, websocket.ts
\* forwardIfInScope, orchestrator.ts updateTask).
THEOREM NewsInOrder ==
  ASSUME EventsAssumption
  PROVE  Spec => ToldInOrder
  <1>1. IInv /\ Quiet /\ [Next]_vars => [\A s \in Sockets : \A r \in Records : told'[s][r] >= told[s][r]]_vars
    <2> SUFFICES ASSUME IInv, [Next]_vars, NEW s \in Sockets, NEW r \in Records
                 PROVE  told'[s][r] >= told[s][r]
      OBVIOUS
    <2>1. Typed /\ Shape /\ AllFit /\ Counted /\ Paired /\ Heard
      BY DEF IInv, Shape
    <2>2. told[s][r] <= told'[s][r]
      BY <2>1, ToldKeeps
    <2>3. told[s][r] \in Nat /\ told'[s][r] \in Nat
      BY <2>1, TypedKeeps DEF Typed
    <2> QED BY <2>2, <2>3
  <1> QED BY <1>1, AlwaysKept, PTL DEF Spec, ToldInOrder

\* As long as no listener has thrown, a task or a job that has completed or failed is never
\* updated to anything else: a task's handler ends it once, and only the attempt that is its job's
\* last ends the job, or begins the next (orchestrator.ts execute, job-engine.ts handleTerminal).
THEOREM EndsAreFinal ==
  ASSUME EventsAssumption
  PROVE  Spec => SettledUnlessThrown
  <1>1. IInv /\ Quiet /\ [Next]_vars =>
          [throws' = 0 => \A r \in Records : record[r].status \in Settled =>
             record'[r].status = record[r].status]_vars
    BY Settles
  <1> QED BY <1>1, AlwaysKept, PTL DEF Spec, SettledUnlessThrown

-----------------------------------------------------------------------------
(* The MCP frontend.  What the Gateway does beside it enters only through  *)
(* JobSpec, and only as: the ids it knows are of the right type.           *)

\* A handler in the polling loop waits for the job it created, which it has not
\* seen settled.
Polls ==
  \A c \in Calls : pc[c] \in {"polling", "reading"} =>
    /\ job[c] \in Ids /\ owner[job[c]] = c
    /\ seen[c] \notin Gateway!Outcome

\* A handler that has created a job is in the polling loop or over: it will not
\* come to the POST again.
PastPost ==
  \A j \in Ids : owner[j] # None => pc[owner[j]] \in {"polling", "reading", "done"}

McpInv == MCPTypeOK /\ Polls /\ PastPost /\ OneJobPerCall

\* The Gateway's own steps keep its types.
LEMMA GatewayTypes ==
  ASSUME Gateway!TypeOK
  PROVE  /\ \A j \in Ids : Gateway!Submit(j) => Gateway!TypeOK'
         /\ GatewayStep => Gateway!TypeOK'
  <1>1. \A j \in Ids : Gateway!Submit(j) => Gateway!TypeOK'
    BY DEF Gateway!TypeOK, Gateway!Submit, Gateway!Status, Gateway!Outcome
  <1>2. ASSUME NEW j \in Ids, Gateway!Settle(j)  PROVE Gateway!TypeOK'
    BY <1>2 DEF Gateway!TypeOK, Gateway!Settle, Gateway!Status, Gateway!Outcome
  <1>3. ASSUME NEW j \in Ids, Gateway!Record(j)  PROVE Gateway!TypeOK'
    <2>1. PICK s \in {"live", status[j]} : recorded' = [recorded EXCEPT ![j] = s]
      BY <1>3 DEF Gateway!Record
    <2>2. s \in Gateway!Status
      BY <2>1 DEF Gateway!TypeOK, Gateway!Status, Gateway!Outcome
    <2> QED BY <1>3, <2>1, <2>2 DEF Gateway!TypeOK, Gateway!Record
  <1>4. ASSUME Gateway!Stop  PROVE Gateway!TypeOK'
    BY <1>4 DEF Gateway!TypeOK, Gateway!Stop, Gateway!Status, Gateway!Outcome
  <1>5. ASSUME Gateway!Restart  PROVE Gateway!TypeOK'
    BY <1>5 DEF Gateway!TypeOK, Gateway!Restart, Gateway!Status, Gateway!Outcome
  <1> QED BY <1>1, <1>2, <1>3, <1>4, <1>5 DEF GatewayStep

\* Before any message has come.
LEMMA InitMcpInv ==
  ASSUME MCPInit
  PROVE  McpInv
  BY NoneAssumption, PatienceAssumption DEF MCPInit, McpInv, MCPTypeOK, Polls, PastPost, OneJobPerCall, Kinds,
         Answerable, RequestKinds,
         WorkspaceKinds, JobKinds, Answers, Gateway!Init, Gateway!TypeOK,
                Gateway!Status,
         Gateway!Outcome

\* A message arrives: nothing is known of its handler but that it has no job.
LEMMA ReceiveKeeps ==
  ASSUME McpInv, NEW c \in Calls, Receive(c)  PROVE McpInv'
  <1>1. PICK k \in Kinds : /\ kind' = [kind EXCEPT ![c] = k]
                          /\ pc' = [pc EXCEPT ![c] = FirstStep(k)]
                          /\ answer' = [answer EXCEPT ![c] = AtOnce(k)]
    BY DEF Receive
  <1>2. /\ FirstStep(k) \in {"resolving", "asking", "done"}
        /\ AtOnce(k) \in {"reply", "accepted", "rejected", "none"}
    BY DEF FirstStep, AtOnce
  <1>3. MCPTypeOK'
    <2>1. Kinds' = Kinds
      BY DEF Receive, Kinds
    <2>2. Gateway!TypeOK'
      BY DEF McpInv, MCPTypeOK, Receive, gateway, Gateway!TypeOK
    <2> QED BY <1>1, <1>2, <2>1, <2>2 DEF McpInv, MCPTypeOK, Receive, Answers
  <1>4. Polls'
    BY <1>1, <1>2 DEF McpInv, MCPTypeOK, Polls, Receive
  <1>5. PastPost'
    BY <1>1, <1>2 DEF McpInv, MCPTypeOK, PastPost, Receive
  <1>6. OneJobPerCall'
    BY DEF McpInv, OneJobPerCall, Receive
  <1> QED BY <1>3, <1>4, <1>5, <1>6 DEF McpInv

\* Steps of a handler before and beside the POST: they leave jobs and their owners
\* alone, and lead neither into the loop nor back to the start.
LEMMA AnswerKeeps ==
  ASSUME McpInv, NEW c \in Calls, Resolve(c) \/ Ask(c) \/ Fail(c) \/ GiveUp(c)
  PROVE  McpInv'
  <1>1. PICK p \in {"submitting", "asking", "done"} :
          /\ pc' = [pc EXCEPT ![c] = p]
          /\ p # "done" => pc[c] = "resolving"
    BY DEF Resolve, Ask, Fail, GiveUp, Answer
  <1>2. \A d \in Calls : answer'[d] \in Answers
    BY DEF McpInv, MCPTypeOK, Resolve, Ask, Fail, GiveUp, Answer, Answers
  <1>3. answer' \in [Calls -> Answers]
    BY <1>2 DEF McpInv, MCPTypeOK, Resolve, Ask, Fail, GiveUp, Answer
  <1>4. UNCHANGED <<transport, up, kind, job, seen, left, owner, online, status, recorded>>
    BY DEF Resolve, Ask, Fail, GiveUp, gateway
  <1>5. MCPTypeOK'
    BY <1>1, <1>3, <1>4 DEF McpInv, MCPTypeOK, Kinds, Gateway!TypeOK
  <1>6. Polls'
    BY <1>1, <1>4 DEF McpInv, MCPTypeOK, Polls
  <1>7. PastPost'
    BY <1>1, <1>4 DEF McpInv, MCPTypeOK, PastPost
  <1> QED BY <1>4, <1>5, <1>6, <1>7 DEF McpInv, OneJobPerCall

\* The POST: a handler that comes to it has no job yet, so that this is its only one,
\* and whether the answer arrives or not it never comes to it again.
LEMMA SubmitKeeps ==
  ASSUME McpInv, NEW c \in Calls, Post(c) \/ PostUnheard(c)
  PROVE  McpInv'
  <1>1. PICK j \in Ids :
          /\ owner[j] = None /\ Gateway!Submit(j)
          /\ owner' = [owner EXCEPT ![j] = c]
          /\ Post(c) => job' = [job EXCEPT ![c] = j]
    BY DEF Post, PostUnheard
  <1>2. pc[c] = "submitting" /\ c # None
    BY NoneAssumption, PatienceAssumption DEF Post, PostUnheard
  <1>3. \A i \in Ids : owner[i] # c
    BY <1>2 DEF McpInv, PastPost
  <1>4. PICK p \in {"polling", "done"} :
          /\ pc' = [pc EXCEPT ![c] = p]
          /\ p = "polling" <=> Post(c)
    BY <1>2 DEF Post, PostUnheard, Answer, McpInv, MCPTypeOK
  <1>5. OneJobPerCall'
    BY <1>1, <1>3 DEF McpInv, MCPTypeOK, OneJobPerCall
  <1>6. PastPost'
    BY <1>1, <1>4 DEF McpInv, MCPTypeOK, PastPost
  <1>7. Polls'
    <2> SUFFICES ASSUME NEW d \in Calls, pc'[d] \in {"polling", "reading"}
                 PROVE  job'[d] \in Ids /\ owner'[job'[d]] = d /\ seen'[d] \notin Gateway!Outcome
      BY DEF Polls
    <2>1. CASE d = c
      <3>1. Post(c)
        BY <1>4, <2>1 DEF McpInv, MCPTypeOK
      <3> QED BY <1>1, <2>1, <3>1 DEF Post, McpInv, MCPTypeOK, Gateway!Outcome
    <2>2. CASE d # c
      <3>1. job'[d] = job[d] /\ seen'[d] = seen[d] /\ pc'[d] = pc[d]
        BY <1>4, <2>2 DEF Post, PostUnheard, McpInv, MCPTypeOK
      <3>2. job[d] \in Ids /\ owner[job[d]] = d /\ seen[d] \notin Gateway!Outcome
        BY <3>1 DEF McpInv, Polls
      <3>3. job[d] # j
        BY <1>1, <3>2, NoneAssumption, PatienceAssumption
      <3> QED BY <1>1, <3>1, <3>2, <3>3 DEF McpInv, MCPTypeOK
    <2> QED BY <2>1, <2>2
  <1>8. MCPTypeOK'
    <2>1. Gateway!TypeOK'
      BY <1>1, GatewayTypes DEF McpInv, MCPTypeOK
    <2>2. job' \in [Calls -> Ids \cup {None}] /\ owner' \in [Ids -> Calls \cup {None}]
      BY <1>1 DEF Post, PostUnheard, McpInv, MCPTypeOK
    <2>3. seen' \in [Calls -> Gateway!Status] /\ left' \in [Calls -> 0..Patience]
      BY NoneAssumption, PatienceAssumption DEF Post, PostUnheard, McpInv, MCPTypeOK, Gateway!Status
    <2>4. answer' \in [Calls -> Answers]
      BY DEF Post, PostUnheard, Answer, McpInv, MCPTypeOK, Answers
    <2>5. kind' \in [Calls -> Kinds' \cup {"unsent"}] /\ transport' \in {"stdio", "http"} /\ up' \in BOOLEAN
      BY DEF Post, PostUnheard, McpInv, MCPTypeOK, Kinds
    <2>6. pc' \in [Calls -> {"idle", "resolving", "submitting", "asking", "polling", "reading", "done"}]
      BY <1>4 DEF McpInv, MCPTypeOK
    <2> QED BY <2>1, <2>2, <2>3, <2>4, <2>5, <2>6 DEF MCPTypeOK
  <1> QED BY <1>5, <1>6, <1>7, <1>8 DEF McpInv

\* The polling loop: a handler stays with its job, and leaves when it sees it settled.
LEMMA PollKeeps ==
  ASSUME McpInv, NEW c \in Calls, Sleep(c) \/ Read(c)
  PROVE  McpInv'
  <1>1. UNCHANGED <<transport, up, kind, job, owner, online, status, recorded>>
    BY DEF Sleep, Read, gateway
  <1>2. PICK p \in {"polling", "reading", "done"} : pc' = [pc EXCEPT ![c] = p]
    BY DEF Sleep, Read, Answer
  <1>3. pc[c] \in {"polling", "reading"}
    BY DEF Sleep, Read
  <1>4. job[c] \in Ids /\ owner[job[c]] = c
    BY <1>3 DEF McpInv, Polls
  <1>5. seen' \in [Calls -> Gateway!Status]
    BY <1>4 DEF Sleep, Read, McpInv, MCPTypeOK, Gateway!TypeOK
  <1>6. left' \in [Calls -> 0..Patience]
    <2>1. CASE Sleep(c)
      <3>1. PICK n \in 0..(left[c] - 1) : left' = [left EXCEPT ![c] = n]
        BY <2>1 DEF Sleep
      <3>2. n \in 0..Patience
        BY NoneAssumption, PatienceAssumption DEF McpInv, MCPTypeOK
      <3> QED BY <3>1, <3>2 DEF McpInv, MCPTypeOK
    <2>2. CASE Read(c)
      BY <2>2 DEF Read, McpInv, MCPTypeOK
    <2> QED BY <2>1, <2>2
  <1>7. answer' \in [Calls -> Answers]
    BY DEF Sleep, Read, Answer, ToolResult, McpInv, MCPTypeOK, Answers
  <1>8. MCPTypeOK'
    BY <1>1, <1>2, <1>5, <1>6, <1>7 DEF McpInv, MCPTypeOK, Kinds, Gateway!TypeOK
  <1>9. \A d \in Calls : pc'[d] \in {"polling", "reading"} =>
          pc[d] \in {"polling", "reading"} /\ seen'[d] \notin Gateway!Outcome
    BY <1>2, <1>3 DEF Sleep, Read, Answer, McpInv, MCPTypeOK, Polls
  <1>10. Polls'
    BY <1>1, <1>9 DEF McpInv, Polls
  <1>11. PastPost'
    BY <1>1, <1>2 DEF McpInv, MCPTypeOK, PastPost
  <1> QED BY <1>1, <1>8, <1>10, <1>11 DEF McpInv, OneJobPerCall

\* The end of the process, and the Gateway's own steps, touch no handler.
LEMMA OthersKeep ==
  ASSUME McpInv, EndOfInput \/ GatewayStep \/ UNCHANGED mcpVars
  PROVE  McpInv'
  <1>1. UNCHANGED <<transport, kind, pc, job, seen, left, answer, owner>> /\ up' \in BOOLEAN
    BY DEF EndOfInput, GatewayStep, mcpVars, McpInv, MCPTypeOK
  <1>2. Gateway!TypeOK'
    <2>1. CASE GatewayStep
      BY <2>1, GatewayTypes DEF McpInv, MCPTypeOK
    <2>2. CASE EndOfInput \/ UNCHANGED mcpVars
      BY <2>2 DEF EndOfInput, mcpVars, gateway, McpInv, MCPTypeOK, Gateway!TypeOK
    <2> QED BY <2>1, <2>2
  <1> QED BY <1>1, <1>2 DEF McpInv, MCPTypeOK, Polls, PastPost, OneJobPerCall, Kinds

\* Every step keeps the invariant.
LEMMA NextKeepsMcpInv ==
  ASSUME McpInv, [MCPNext]_mcpVars
  PROVE  McpInv'
  BY ReceiveKeeps, AnswerKeeps, SubmitKeeps, PollKeeps, OthersKeep DEF MCPNext, Handle

\* What is so of every call in the frontend: who polls, polls the job it created and has not
\* seen settled, and who has created one does not come to the POST again
\* (gateway-client.ts runJob).
THEOREM McpInvariant == MCPSpec => []McpInv
  <1>1. MCPInit => McpInv
    BY InitMcpInv
  <1>2. McpInv /\ [MCPNext]_mcpVars => McpInv'
    BY NextKeepsMcpInv
  <1> QED BY <1>1, <1>2, PTL DEF MCPSpec

-----------------------------------------------------------------------------
\* Every variable of the frontend keeps its type, the deadline's count included
\* (gateway-client.ts runJob, protocol.ts callTool).
THEOREM TypeCorrect == MCPSpec => []MCPTypeOK
  <1>1. McpInv => MCPTypeOK
    BY DEF McpInv
  <1> QED BY <1>1, McpInvariant, PTL

\* One call creates one job at most, also if the answer to its POST is lost
\* (gateway-client.ts runJob).
THEOREM NothingRunsTwice == MCPSpec => []OneJobPerCall
  <1>1. McpInv => OneJobPerCall
    BY DEF McpInv
  <1> QED BY <1>1, McpInvariant, PTL

\* What a client is told of a job is true of the job its call created, whatever the
\* Gateway does between the steps of the call (gateway-client.ts runJob, protocol.ts).
THEOREM ClientsAreToldTheTruth == MCPSpec => OutcomesAreTrue
  <1> DEFINE Truly(c) ==
        answer[c] = "none" =>
          /\ answer'[c] = "result" => owner[job[c]] = c /\ status[job[c]] = "completed"
          /\ answer'[c] = "failed" => owner[job[c]] = c /\ status[job[c]] = "failed"
          /\ answer'[c] = "timeout" => owner[job[c]] = c /\ seen[c] \notin Gateway!Outcome
  <1>1. McpInv /\ [MCPNext]_mcpVars => \A c \in Calls : Truly(c)
    <2> SUFFICES ASSUME McpInv, [MCPNext]_mcpVars, NEW c \in Calls, answer[c] = "none",
                        answer'[c] \in {"result", "failed", "timeout"}
                 PROVE  Truly(c)
      OBVIOUS
    <2>1. ASSUME NEW d \in Calls, Receive(d)  PROVE FALSE
      <3>1. \A k \in Kinds : AtOnce(k) \in {"reply", "accepted", "rejected", "none"}
        BY DEF AtOnce
      <3> QED BY <2>1, <3>1 DEF Receive, McpInv, MCPTypeOK
    <2>2. ASSUME NEW d \in Calls, Resolve(d) \/ Ask(d) \/ Fail(d) \/ Post(d) \/
                 PostUnheard(d) \/ Sleep(d)
          PROVE FALSE
      BY <2>2 DEF Resolve, Ask, Fail, Post, PostUnheard, Sleep, Answer,
             McpInv, MCPTypeOK
    <2>3. ASSUME NEW d \in Calls, GiveUp(d)  PROVE Truly(c)
      <3>1. d = c /\ answer'[c] = "timeout" /\ pc[c] = "polling"
        BY <2>3 DEF GiveUp, Answer, McpInv, MCPTypeOK
      <3> QED BY <3>1 DEF McpInv, Polls
    <2>4. ASSUME NEW d \in Calls, Read(d)  PROVE Truly(c)
      <3>1. d = c /\ pc[c] = "reading" /\ status[job[c]] \in Gateway!Outcome
        BY <2>4 DEF Read, Answer, McpInv, MCPTypeOK
      <3>2. answer'[c] = ToolResult(status[job[c]])
        BY <2>4, <3>1 DEF Read, Answer, McpInv, MCPTypeOK
      <3>3. owner[job[c]] = c
        BY <3>1 DEF McpInv, Polls
      <3> QED BY <3>1, <3>2, <3>3 DEF ToolResult, Gateway!Outcome
    <2>5. CASE EndOfInput \/ GatewayStep \/ UNCHANGED mcpVars
      BY <2>5 DEF EndOfInput, GatewayStep, mcpVars
    <2> QED BY <2>1, <2>2, <2>3, <2>4, <2>5 DEF MCPNext, Handle
  <1> QED BY <1>1, McpInvariant, PTL DEF OutcomesAreTrue, MCPSpec
=============================================================================
