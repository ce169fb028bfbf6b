-------------------------------- MODULE Inbox --------------------------------
(***************************************************************************)
(* The inbox watcher (modules/inbox/inbox-watcher.ts) with the workspaces  *)
(* it claims files into (modules/workspace/workspace.service.ts) and the   *)
(* clients that ask for a workspace by name at the same time.              *)
(*                                                                         *)
(* setInterval starts a tick whether or not the one before has ended, so   *)
(* ticks overlap; they share `seen` and `claiming`.  A tick is a chain of  *)
(* awaits, one action per turn; what the file system does for it between   *)
(* two turns (readdir, stat, copy) is an action of its own.                *)
(***************************************************************************)
EXTENDS Naturals, FiniteSets

CONSTANTS
  Ticks,        \* places for ticks that run at the same time
  Clients,      \* callers of PUT /workspaces/by-name/:name
  Drops,        \* files that somebody puts into the folder, numbered
  Names,        \* their names
  NameOf,       \* [Drops -> Names]
  Workspaces,   \* workspace names
  WorkspaceOf,  \* [Names -> Workspaces], deriveWorkspaceNameFromFilename
  Full,         \* [Drops -> size of the file once it is completely written]
  MaxFaults     \* bound on failed calls and restarts

ASSUME DropAssumption ==
  /\ Drops \subseteq Nat
  /\ NameOf \in [Drops -> Names]
  /\ WorkspaceOf \in [Names -> Workspaces]
  /\ Full \in [Drops -> Nat \ {0}]
  /\ MaxFaults \in Nat
ASSUME ActorsAssumption == Ticks \cap Clients = {}

VARIABLES
  file,       \* [Drops -> where each dropped file is, and how much of it]
  sameVolume, \* may rename() move from the folder to the workspaces?
  workspaces, \* the collection: names, in the order of creation
  seen,       \* InboxWatcher.seen
  claiming,   \* InboxWatcher.claiming
  at,         \* where each tick and client is
  work,       \* the local variables of each
  notes,      \* [Drops -> number of knowledge entries about it]
  faults

vars == <<file, sameVolume, workspaces, seen, claiming, at, work, notes, faults>>

None == [name |-> "none"]
Actors == Ticks \cup Clients
Claims == {"finding", "creating", "moving", "copied", "noting"}

Idle == [todo |-> {}, name |-> None, info |-> None, workspace |-> 0]

-----------------------------------------------------------------------------
(* The folder, the workspaces and what lies in them.                       *)

InFolder(n) == {d \in Drops : file[d].at = "inbox" /\ NameOf[d] = n}

\* stat(): size and mtime, which tells one drop from the next.
Stat(n) == IF InFolder(n) = {} THEN None
           ELSE LET d == CHOOSE x \in InFolder(n) : TRUE
                IN  [drop |-> d, size |-> file[d].size]

With(f, x, v) == [y \in DOMAIN f \cup {x} |-> IF y = x THEN v ELSE f[y]]

\* getWorkspaceByName(): the first record with the name, 0 if there is none.
Found(w) == IF \E i \in DOMAIN workspaces : workspaces[i] = w
            THEN CHOOSE i \in DOMAIN workspaces :
                   workspaces[i] = w /\ \A j \in 1..(i - 1) : workspaces[j] # w
            ELSE 0

\* listInboxApks(): whatever lies in the workspace's own inbox directory.
InboxOf(i) == {d \in Drops : file[d].at = "landed" /\ file[d].workspace = i}

\* Put d where a file of its name lies in workspace i, replacing it.
Placed(d, i) ==
  [e \in Drops |-> IF e = d THEN [file[e] EXCEPT !.at = "landed", !.workspace = i]
                   ELSE IF e \in InboxOf(i) /\ NameOf[e] = NameOf[d]
                        THEN [file[e] EXCEPT !.at = "replaced"]
                        ELSE file[e]]

-----------------------------------------------------------------------------
(* People and programs that drop files.                                    *)

\* Files come in the order of their numbers, none under a name still there.
Drop(d) ==
  /\ file[d].at = "none"
  /\ \A e \in Drops : e < d => file[e].at # "none"
  /\ InFolder(NameOf[d]) = {}
  /\ file' = [file EXCEPT ![d].at = "inbox", ![d].size = 1]
  /\ UNCHANGED <<sameVolume, workspaces, seen, claiming, at, work, notes, faults>>

\* A copy in progress goes on, also after its file was renamed.
Write(d) ==
  /\ file[d].at = "inbox" \/ (file[d].at = "landed" /\ sameVolume)
  /\ file[d].size < Full[d]
  /\ file' = [file EXCEPT ![d].size = @ + 1]
  /\ UNCHANGED <<sameVolume, workspaces, seen, claiming, at, work, notes, faults>>

-----------------------------------------------------------------------------
(* A tick: runOnce().                                                      *)

Goto(a, place) == at' = [at EXCEPT ![a] = place]

\* The interval has passed: the timer fires and a tick reads the folder; it
\* hears of what was there when its await returns.
Fire(t) ==
  /\ at[t] = "idle"
  /\ Goto(t, "listing")
  /\ work' = [work EXCEPT ![t].todo = {n \in Names : InFolder(n) # {}}]
  /\ UNCHANGED <<file, sameVolume, workspaces, seen, claiming, notes, faults>>

\* The loop goes on with the names in `rest`, in the order of the directory,
\* past those somebody is claiming, when `busy` is claimed.
Continue(t, rest, busy) ==
  \/ /\ rest \subseteq busy
     /\ work' = [work EXCEPT ![t] = Idle]
     /\ Goto(t, "idle")
  \/ \E n \in rest \ busy, past \in SUBSET (rest \cap busy) :
       /\ work' = [work EXCEPT ![t] = [Idle EXCEPT !.name = n, !.todo = rest \ (past \cup {n})]]
       /\ Goto(t, "statting")

\* Forget what is gone, and look at the first file.
Listed(t) ==
  /\ at[t] = "listing"
  /\ seen' = [n \in DOMAIN seen \cap work[t].todo |-> seen[n]]
  /\ Continue(t, work[t].todo, claiming)
  /\ UNCHANGED <<file, sameVolume, workspaces, claiming, notes, faults>>

StatFile(t) ==
  /\ at[t] = "statting"
  /\ work' = [work EXCEPT ![t].info = Stat(work[t].name)]
  /\ Goto(t, "sighting")
  /\ UNCHANGED <<file, sameVolume, workspaces, seen, claiming, notes, faults>>

\* Mutant of Unchanged: it was seen before.
UnchangedBySight(t) == work[t].name \in DOMAIN seen

\* It looks as it did when it was last seen.
Unchanged(t) ==
  LET n == work[t].name
  IN  n \in DOMAIN seen /\ seen[n] = work[t].info

\* Mutant of Without: it is not forgotten.
WithoutForgetting(f, n) == f

Without(f, n) == [x \in DOMAIN f \ {n} |-> f[x]]

Sighted(t) ==
  LET n == work[t].name
      i == work[t].info
  IN  /\ at[t] = "sighting"
      /\ \/ /\ i = None
            /\ Continue(t, work[t].todo, claiming)
            /\ UNCHANGED <<seen, claiming>>
         \/ /\ i # None /\ ~Unchanged(t)
            /\ seen' = With(seen, n, i)
            /\ Continue(t, work[t].todo, claiming)
            /\ UNCHANGED claiming
         \/ /\ i # None /\ Unchanged(t)
            /\ seen' = Without(seen, n)
            /\ claiming' = claiming \cup {n}
            /\ Goto(t, "finding")
            /\ UNCHANGED work
      /\ UNCHANGED <<file, sameVolume, workspaces, notes, faults>>

-----------------------------------------------------------------------------
(* getOrCreateWorkspace(), for a claim or for a client: two awaits.        *)

NameSought(a) == IF a \in Ticks THEN WorkspaceOf[work[a].name] ELSE work[a].name

\* The caller is told workspace i: a claim goes on with it.
Told(a, i) ==
  /\ work' = [work EXCEPT ![a] = IF a \in Ticks THEN [@ EXCEPT !.workspace = i] ELSE Idle]
  /\ Goto(a, IF a \in Ticks THEN "moving" ELSE "idle")

\* A client whose name is found changes nothing; the one whose name is not
\* goes on to create the workspace.
Ask(c, w) ==
  /\ at[c] = "idle" /\ Found(w) = 0
  /\ work' = [work EXCEPT ![c].name = w]
  /\ Goto(c, "creating")
  /\ UNCHANGED <<file, sameVolume, workspaces, seen, claiming, notes, faults>>

FindWorkspace(t) ==
  /\ at[t] = "finding"
  /\ \/ Found(NameSought(t)) # 0 /\ Told(t, Found(NameSought(t)))
     \/ Found(NameSought(t)) = 0 /\ Goto(t, "creating") /\ UNCHANGED work
  /\ UNCHANGED <<file, sameVolume, workspaces, seen, claiming, notes, faults>>

\* createWorkspace(), which does not look again.
CreateWorkspace(a) ==
  LET i == Cardinality(DOMAIN workspaces) + 1
  IN  /\ at[a] = "creating"
      /\ workspaces' = With(workspaces, i, NameSought(a))
      /\ Told(a, i)
      /\ UNCHANGED <<file, sameVolume, seen, claiming, notes, faults>>

-----------------------------------------------------------------------------
(* The rest of claim().                                                    *)

Rename(t) ==
  /\ at[t] = "moving" /\ sameVolume
  /\ \E d \in InFolder(work[t].name) : file' = Placed(d, work[t].workspace)
  /\ Goto(t, "noting")
  /\ UNCHANGED <<sameVolume, workspaces, seen, claiming, work, notes, faults>>

\* EXDEV: copyFile() ...
Copy(t) ==
  /\ at[t] = "moving" /\ ~sameVolume
  /\ \E d \in InFolder(work[t].name) : file' = [file EXCEPT ![d].copied = TRUE]
  /\ Goto(t, "copied")
  /\ UNCHANGED <<sameVolume, workspaces, seen, claiming, work, notes, faults>>

\* ... and unlink(), of whatever has that name by then.
Unlink(t) ==
  /\ at[t] = "copied"
  /\ \E d \in InFolder(work[t].name) :
       file' = IF file[d].copied THEN Placed(d, work[t].workspace)
                                 ELSE [file EXCEPT ![d].at = "lost"]
  /\ Goto(t, "noting")
  /\ UNCHANGED <<sameVolume, workspaces, seen, claiming, work, notes, faults>>

\* createEntry(), and the loop goes on.
Note(t) ==
  /\ at[t] = "noting"
  /\ notes' = [notes EXCEPT ![work[t].info.drop] = @ + 1]
  /\ claiming' = claiming \ {work[t].name}
  /\ Continue(t, work[t].todo, claiming')
  /\ UNCHANGED <<file, sameVolume, workspaces, seen, faults>>

\* Mutant of ClaimFails: the name stays claimed.
ClaimFailsForGood(t) ==
  /\ at[t] \in Claims
  /\ faults < MaxFaults
  /\ faults' = faults + 1
  /\ Continue(t, work[t].todo, claiming)
  /\ UNCHANGED <<file, sameVolume, workspaces, seen, claiming, notes>>

\* Some call of claim() rejects, at the latest because the file is gone: it is
\* logged, and the loop goes on.
ClaimFails(t) ==
  /\ at[t] \in Claims
  /\ \/ faults < MaxFaults /\ faults' = faults + 1
     \/ at[t] \in {"moving", "copied"} /\ InFolder(work[t].name) = {} /\ UNCHANGED faults
  /\ claiming' = claiming \ {work[t].name}
  /\ Continue(t, work[t].todo, claiming')
  /\ UNCHANGED <<file, sameVolume, workspaces, seen, notes>>

\* The Gateway stops and starts again: the files and collections remain.
Restart ==
  /\ faults < MaxFaults
  /\ faults' = faults + 1
  /\ seen' = << >>
  /\ claiming' = {}
  /\ at' = [a \in Actors |-> "idle"]
  /\ work' = [a \in Actors |-> Idle]
  /\ UNCHANGED <<file, sameVolume, workspaces, notes>>

-----------------------------------------------------------------------------
Init ==
  /\ file = [d \in Drops |-> [at |-> "none", size |-> 0, copied |-> FALSE, workspace |-> 0]]
  /\ sameVolume \in BOOLEAN
  /\ workspaces = << >>
  /\ seen = << >>
  /\ claiming = {}
  /\ at = [a \in Actors |-> "idle"]
  /\ work = [a \in Actors |-> Idle]
  /\ notes = [d \in Drops |-> 0]
  /\ faults = 0

Tick(t) ==
  \/ Listed(t) \/ StatFile(t) \/ Sighted(t)
  \/ FindWorkspace(t) \/ CreateWorkspace(t)
  \/ Rename(t) \/ Copy(t) \/ Unlink(t) \/ Note(t)

Next ==
  \/ \E d \in Drops : Drop(d) \/ Write(d)
  \/ \E t \in Ticks : Fire(t) \/ Tick(t) \/ ClaimFails(t)
  \/ \E c \in Clients : \/ \E w \in Workspaces : Ask(c, w)
                        \/ CreateWorkspace(c)
  \/ Restart

\* The timer fires, and every await of a tick returns or rejects.  A tick has
\* always a turn to take, so this is weak fairness of its turns.
Fairness == \A t \in Ticks : []<><<Fire(t) \/ Tick(t) \/ ClaimFails(t)>>_vars

Spec == Init /\ [][Next]_vars /\ Fairness

-----------------------------------------------------------------------------
(* Properties.                                                             *)

\* The watcher tracks and claims names of the folder; workspaces are appended
\* and files lie in existing ones.
TypeOK ==
  /\ \A d \in Drops :
       /\ file[d].at \in {"none", "inbox", "landed", "replaced", "lost"}
       /\ file[d].size \in 0..Full[d]
       /\ file[d].at = "landed" => file[d].workspace \in DOMAIN workspaces
  /\ DOMAIN seen \subseteq Names /\ claiming \subseteq Names
  /\ claiming = {work[t].name : t \in {u \in Ticks : at[u] \in Claims}}
  /\ \A a \in Actors : at[a] \in Claims \cup {"idle", "listing", "statting", "sighting"}

\* `claiming` is read before stat() and `seen` after it.  This is what the two
\* need of the time between: stat() answers before a third tick asks it about
\* the same file.
Sights(t, n) == at[t] \in {"statting", "sighting"} /\ work[t].name = n

StatIsPrompt ==
  \A n \in Names : \A t, u, v \in Ticks :
    Sights(t, n) /\ Sights(u, n) /\ Sights(v, n) => t = u \/ u = v \/ t = v

\* No dropped file is deleted without a copy of it in a workspace, whoever
\* drops files of the same name while a claim is at work: a copy across volumes
\* removes what it copied, and a note is written of a file that was moved, once.
NothingLost ==
  /\ TypeOK
  /\ \A d \in Drops : /\ file[d].at # "lost"
                      /\ notes[d] <= 1
                      /\ notes[d] > 0 => file[d].at \in {"landed", "replaced"}

\* Every file that lies complete in the folder is claimed in the end, through
\* failed claims, restarts and ticks that overlap.  (A drop leaves the folder
\* once, so that the folder keeps being empty of them is that each leaves it.)
Waiting(d) == file[d].at = "inbox" /\ file[d].size = Full[d]
DropsLand == []<>(\A d \in Drops : ~Waiting(d))
=============================================================================
