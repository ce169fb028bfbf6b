----------------------------- MODULE InboxProofs -----------------------------
(***************************************************************************)
(* No file dropped into the inbox is lost or noted twice, for any number   *)
(* of ticks, clients, files and faults, as long as no three ticks wait for *)
(* a stat() of the same file at once.                                      *)
(***************************************************************************)
EXTENDS Inbox, FiniteSetTheorems, WellFoundedInduction, NaturalsInduction, TLAPS

Info == {None} \cup [drop : Drops, size : Nat]

Work == [todo : SUBSET Names, name : Names \cup Workspaces \cup {None},
         info : Info, workspace : Nat]

File == [at : {"none", "inbox", "landed", "replaced", "lost"}, size : Nat,
         copied : BOOLEAN, workspace : Nat]

\* What the variables hold.
Typed ==
  /\ file \in [Drops -> File]
  /\ \A d \in Drops : file[d].size <= Full[d]
  /\ sameVolume \in BOOLEAN
  /\ \E k \in Nat : DOMAIN workspaces = 1..k
  /\ DOMAIN seen \subseteq Names
  /\ \A n \in DOMAIN seen : /\ seen[n] \in [drop : Drops, size : Nat]
                            /\ NameOf[seen[n].drop] = n
  /\ at \in [Actors -> Claims \cup {"idle", "listing", "statting", "sighting"}]
  /\ work \in [Actors -> Work]
  /\ notes \in [Drops -> Nat]

Claiming(t, n) == at[t] \in Claims /\ work[t].name = n

\* A tick that looks at or claims a file knows its name, and one that claims it
\* or has heard of it which drop it is.
Informed ==
  \A t \in Ticks :
    /\ at[t] \in Claims \cup {"statting", "sighting"} => work[t].name \in Names
    /\ at[t] \in Claims => work[t].info # None
    /\ at[t] \in Claims \cup {"sighting"} /\ work[t].info # None =>
         NameOf[work[t].info.drop] = work[t].name
    /\ at[t] \in {"moving", "copied", "noting"} => work[t].workspace \in DOMAIN workspaces

\* `claiming` has the names that are being claimed, each by one tick; at most one
\* tick still looks at such a file, and will not find it in `seen`.
Exclusive ==
  /\ claiming = {work[t].name : t \in {u \in Ticks : at[u] \in Claims}}
  /\ \A t, u \in Ticks : at[t] \in Claims /\ Claiming(u, work[t].name) => t = u
  /\ \A t, u \in Ticks : at[t] \in Claims /\ Sights(u, work[t].name) =>
       work[t].name \notin DOMAIN seen
  /\ \A t, u, v \in Ticks :
       at[t] \in Claims /\ Sights(u, work[t].name) /\ Sights(v, work[t].name) => u = v

Heard(t) == at[t] = "sighting" /\ work[t].info # None

\* What a tick has heard of a file that has left the folder since, it is the only
\* one to have heard, and `seen` does not say the same.
Outdated ==
  \A t \in Ticks : Heard(t) /\ file[work[t].info.drop].at # "inbox" =>
    /\ \A u \in Ticks : Heard(u) /\ work[u].info.drop = work[t].info.drop => u = t
    /\ \A n \in DOMAIN seen : seen[n].drop # work[t].info.drop

\* A name is one file's at a time; a file that is claimed is in the folder until
\* its claim moves it; notes are of files that were moved.
Kept ==
  /\ \A d, e \in Drops :
       file[d].at = "inbox" /\ file[e].at = "inbox" /\ NameOf[d] = NameOf[e] => d = e
  /\ \A d \in Drops :
       /\ file[d].at # "lost" /\ notes[d] <= 1
       /\ notes[d] > 0 => file[d].at \in {"landed", "replaced"}
       /\ file[d].at = "landed" => file[d].workspace \in DOMAIN workspaces
  /\ \A t \in Ticks :
       /\ at[t] \in {"finding", "creating", "moving", "copied"} =>
            file[work[t].info.drop].at = "inbox"
       /\ at[t] = "copied" => file[work[t].info.drop].copied
       /\ at[t] = "noting" => /\ notes[work[t].info.drop] = 0
                              /\ file[work[t].info.drop].at \in {"landed", "replaced"}

IInv == Typed /\ Informed /\ Exclusive /\ Outdated /\ Kept


-----------------------------------------------------------------------------
(* The collection of workspaces.                                           *)

\* getWorkspaceByName() finds a record of the collection, or 0.
LEMMA FoundIsStored ==
  ASSUME NEW w, NEW k \in Nat, DOMAIN workspaces = 1..k
  PROVE  Found(w) = 0 \/ Found(w) \in 1..k
<1> DEFINE all == {i \in 1..k : workspaces[i] = w}
<1>1. CASE all = {}
  BY <1>1 DEF Found
<1>2. CASE all # {}
  <2>1. all \subseteq Nat
    OBVIOUS
  <2>2. PICK i \in all : \A j \in all : ~ (<<j, i>> \in OpToRel(<, Nat))
    <3> HIDE DEF all
    <3> QED BY <1>2, <2>1, NatLessThanWellFounded, WFMin
  <2>3. \A j \in 1..(i - 1) : workspaces[j] # w
    <3> SUFFICES ASSUME NEW j \in 1..(i - 1), workspaces[j] = w PROVE FALSE
      OBVIOUS
    <3>1. j \in Nat /\ j < i /\ j \in all
      OBVIOUS
    <3>2. <<j, i>> \notin OpToRel(<, Nat)
      BY <2>2, <3>1
    <3> QED BY <3>1, <3>2, <2>1 DEF OpToRel
  <2> QED BY <2>2, <2>3 DEF Found
<1> QED BY <1>1, <1>2

\* createWorkspace() appends.
LEMMA CreatedIsStored ==
  ASSUME NEW w, NEW k \in Nat, DOMAIN workspaces = 1..k,
         NEW i, i = Cardinality(DOMAIN workspaces) + 1
  PROVE  i = k + 1 /\ DOMAIN With(workspaces, i, w) = 1..(k + 1)
<1>1. Cardinality(DOMAIN workspaces) = k
  <2>1. 1 \in Int /\ k \in Int
    OBVIOUS
  <2>2. Cardinality(1..k) = IF 1 > k THEN 0 ELSE k - 1 + 1
    BY <2>1, FS_Interval
  <2> QED BY <2>2
<1>2. DOMAIN With(workspaces, i, w) = {i} \cup DOMAIN workspaces
  BY DEF With
<1>3. i = k + 1
  BY <1>1
<1>4. {k + 1} \cup 1..k = 1..(k + 1)
  OBVIOUS
<1> QED BY <1>2, <1>3, <1>4

-----------------------------------------------------------------------------
(* Steps of one actor.                                                     *)

Places == Claims \cup {"idle", "listing", "statting", "sighting"}

\* Only t's place and local variables may have changed.
OnlyOf(t) == \A u \in Actors : u # t => at'[u] = at[u] /\ work'[u] = work[u]

\* The loop goes on: t is idle, or about to look at a file nobody claims.
LEMMA Continued ==
  ASSUME Typed, NEW t \in Ticks, NEW rest, NEW busy, rest \subseteq Names,
         Continue(t, rest, busy)
  PROVE  /\ OnlyOf(t)
         /\ at' \in [Actors -> Places] /\ work' \in [Actors -> Work]
         /\ at'[t] \in {"idle", "statting"}
         /\ at'[t] = "statting" => work'[t].name \in Names \ busy
<1> USE DEF Actors
<1>1. at \in [Actors -> Places] /\ work \in [Actors -> Work]
  BY DEF Typed, Places
<1>2. CASE work' = [work EXCEPT ![t] = Idle] /\ Goto(t, "idle")
  <2>1. Idle \in Work
    BY DEF Idle, Work, Info
  <2> QED BY <1>1, <1>2, <2>1 DEF Goto, OnlyOf, Places
<1>3. ASSUME NEW n \in rest \ busy, NEW past \in SUBSET (rest \cap busy),
             work' = [work EXCEPT ![t] = [Idle EXCEPT !.name = n, !.todo = rest \ (past \cup {n})]],
             Goto(t, "statting")
      PROVE  /\ OnlyOf(t)
             /\ at' \in [Actors -> Places] /\ work' \in [Actors -> Work]
             /\ at'[t] \in {"idle", "statting"}
             /\ at'[t] = "statting" => work'[t].name \in Names \ busy
  <2> DEFINE mine == [Idle EXCEPT !.name = n, !.todo = rest \ (past \cup {n})]
  <2>1. mine \in Work /\ mine.name = n
    BY DEF Idle, Work, Info
  <2> HIDE DEF mine
  <2>2. work' = [work EXCEPT ![t] = mine]
    BY <1>3 DEF mine
  <2>3. work' \in [Actors -> Work] /\ work'[t] = mine
        /\ \A u \in Actors : u # t => work'[u] = work[u]
    BY <1>1, <2>1, <2>2
  <2>4. at' \in [Actors -> Places] /\ at'[t] = "statting"
        /\ \A u \in Actors : u # t => at'[u] = at[u]
    BY <1>1, <1>3 DEF Goto, Places
  <2> QED BY <1>3, <2>1, <2>3, <2>4 DEF OnlyOf
<1> QED BY <1>2, <1>3 DEF Continue


-----------------------------------------------------------------------------
(* The folder.                                                             *)

LEMMA DropKeeps ==
  ASSUME IInv, NEW d \in Drops, Drop(d)
  PROVE  IInv'
<1> USE DEF IInv, Drop
<1>1. /\ file' \in [Drops -> File]
      /\ file'[d].at = "inbox" /\ file'[d].size = 1
      /\ \A e \in Drops : e # d => file'[e] = file[e]
  <2> DEFINE new == [file[d] EXCEPT !.at = "inbox", !.size = 1]
  <2>1. file \in [Drops -> File]
    BY DEF Typed
  <2>2. new \in File /\ new.at = "inbox" /\ new.size = 1
    BY <2>1 DEF File
  <2>3. file' = [file EXCEPT ![d] = new]
    BY <2>1
  <2> HIDE DEF new
  <2> QED BY <2>1, <2>2, <2>3
<1>2. Typed'
  <2>1. Full[d] \in Nat \ {0}
    BY DropAssumption
  <2> QED BY <1>1, <2>1 DEF Typed
<1>3. Informed' /\ Exclusive'
  BY DEF Informed, Exclusive, Sights, Claiming
<1>4. Outdated'
  <2>1. \A t \in Ticks : work[t].info # None => work[t].info.drop \in Drops
    BY DEF Typed, Work, Info, Actors
  <2> QED BY <1>1, <2>1 DEF Outdated, Heard
<1>5. Kept'
  <2>1. \A e, f \in Drops :
          file'[e].at = "inbox" /\ file'[f].at = "inbox" /\ NameOf[e] = NameOf[f] => e = f
    BY <1>1 DEF Kept, InFolder
  <2>2. \A e \in Drops :
          /\ file'[e].at # "lost" /\ notes[e] <= 1
          /\ notes[e] > 0 => file'[e].at \in {"landed", "replaced"}
          /\ file'[e].at = "landed" => file'[e].workspace \in DOMAIN workspaces
    BY <1>1 DEF Kept
  <2>3. \A t \in Ticks : at[t] \in Claims => work[t].info.drop \in Drops
    BY DEF Typed, Informed, Work, Info, Actors
  <2>4. \A t \in Ticks :
          at[t] \in {"finding", "creating", "moving", "copied", "noting"} =>
            work[t].info.drop # d
    BY DEF Kept
  <2> QED BY <1>1, <2>1, <2>2, <2>3, <2>4 DEF Kept, Claims
<1> QED BY <1>2, <1>3, <1>4, <1>5

LEMMA WriteKeeps ==
  ASSUME IInv, NEW d \in Drops, Write(d)
  PROVE  IInv'
<1> USE DEF IInv, Write
<1>1. /\ file' \in [Drops -> File]
      /\ file'[d].size = file[d].size + 1
      /\ \A e \in Drops : /\ e # d => file'[e] = file[e]
                          /\ file'[e].at = file[e].at
                          /\ file'[e].copied = file[e].copied
                          /\ file'[e].workspace = file[e].workspace
  <2>1. file \in [Drops -> File]
    BY DEF Typed
  <2>2. file[d] \in File /\ file[d].size + 1 \in Nat
    BY <2>1 DEF File
  <2>3. [file[d] EXCEPT !.size = @ + 1] \in File
    BY <2>2 DEF File
  <2>4. file' = [file EXCEPT ![d] = [file[d] EXCEPT !.size = @ + 1]]
    BY <2>1
  <2>5. \A e \in Drops : file'[e] = IF e = d THEN [file[d] EXCEPT !.size = @ + 1] ELSE file[e]
    BY <2>1, <2>4
  <2>6. file' \in [Drops -> File]
    BY <2>1, <2>3, <2>4
  <2> QED BY <2>2, <2>5, <2>6 DEF File
<1>2. Typed'
  <2>1. Full[d] \in Nat /\ file[d].size \in Nat
    BY DropAssumption DEF Typed, File
  <2> QED BY <1>1, <2>1 DEF Typed
<1>3. \A t \in Ticks : at[t] \in Claims \cup {"sighting"} /\ work[t].info # None =>
                         work[t].info.drop \in Drops
  BY DEF Typed, Work, Info, Actors
<1>4. Informed' /\ Exclusive'
  BY DEF Informed, Exclusive, Sights, Claiming
<1>5. Outdated'
  BY <1>1, <1>3 DEF Outdated, Heard
<1>6. Kept'
  <2>1. \A t \in Ticks : at[t] \in Claims => work[t].info.drop \in Drops
    BY <1>3 DEF Informed
  <2> QED BY <1>1, <2>1 DEF Kept, Claims
<1> QED BY <1>2, <1>4, <1>5, <1>6

-----------------------------------------------------------------------------
(* A tick that looks at files.                                             *)

LEMMA FireKeeps ==
  ASSUME IInv, NEW t \in Ticks, Fire(t)
  PROVE  IInv'
<1> USE DEF IInv, Fire
<1>1. t \in Actors /\ at \in [Actors -> Places] /\ work \in [Actors -> Work]
  BY DEF Actors, Typed, Places
<1>2. at' \in [Actors -> Places] /\ at'[t] = "listing" /\ OnlyOf(t)
  BY <1>1 DEF Goto, OnlyOf, Places
<1>3. work' \in [Actors -> Work]
  BY <1>1 DEF Work
<1>4. Typed'
  BY <1>2, <1>3 DEF Typed, Places
<1>5. \A u \in Ticks : u # t => at'[u] = at[u] /\ work'[u] = work[u]
  BY <1>2 DEF OnlyOf, Actors
<1>6. at[t] \notin Claims /\ at'[t] \notin Claims
  BY <1>2 DEF Claims
<1>7. Informed'
  BY <1>2, <1>5, <1>6 DEF Informed
<1>8. Exclusive'
  BY <1>2, <1>5, <1>6 DEF Exclusive, Sights, Claiming
<1>9. Outdated'
  BY <1>2, <1>5 DEF Outdated, Heard
<1>10. Kept'
  BY <1>2, <1>5 DEF Kept
<1> QED BY <1>4, <1>7, <1>8, <1>9, <1>10


\* Going on to a file that nobody claims keeps claims apart, as long as `seen`
\* gains no file that is claimed while another tick looks at it.
LEMMA NextFileKeepsExclusive ==
  ASSUME Typed, Exclusive, NEW t \in Ticks, at[t] \notin Claims, OnlyOf(t),
         at'[t] \in {"idle", "statting"},
         at'[t] = "statting" => work'[t].name \in Names \ claiming,
         claiming' = claiming,
         \A u, v \in Ticks : v # t /\ at[u] \in Claims /\ Sights(v, work[u].name)
                               => work[u].name \notin DOMAIN seen'
  PROVE  Exclusive'
<1>1. \A u \in Ticks : u # t => at'[u] = at[u] /\ work'[u] = work[u]
  BY DEF OnlyOf, Actors
<1>2. \A u \in Ticks : at[u] \in Claims => work[u].name \in claiming
  BY DEF Exclusive
<1>3. at'[t] \notin Claims
  BY DEF Claims
<1>4. claiming' = {work'[u].name : u \in {v \in Ticks : at'[v] \in Claims}}
  BY <1>1, <1>3 DEF Exclusive
<1>5. \A u \in Ticks : at'[u] \in Claims => ~ Sights(t, work[u].name)'
  BY <1>1, <1>2, <1>3 DEF Sights
<1>6. \A u, v \in Ticks : at'[u] \in Claims /\ Claiming(v, work[u].name)' => u = v
  BY <1>1, <1>3 DEF Exclusive, Claiming
<1>7. \A u, v \in Ticks : at'[u] \in Claims /\ Sights(v, work[u].name)' =>
        u # t /\ v # t /\ at[u] \in Claims /\ work'[u] = work[u] /\ Sights(v, work[u].name)
  BY <1>1, <1>3, <1>5 DEF Sights
<1>8. \A u, v \in Ticks : at'[u] \in Claims /\ Sights(v, work[u].name)' =>
        work'[u].name \notin DOMAIN seen'
  BY <1>7
<1>9. \A u, v, w \in Ticks :
        at'[u] \in Claims /\ Sights(v, work[u].name)' /\ Sights(w, work[u].name)' => v = w
  BY <1>7 DEF Exclusive
<1> QED BY <1>4, <1>6, <1>8, <1>9 DEF Exclusive, Sights, Claiming

LEMMA ListedKeeps ==
  ASSUME IInv, NEW t \in Ticks, Listed(t)
  PROVE  IInv'
<1> USE DEF IInv, Listed
<1>1. work[t].todo \subseteq Names
  BY DEF Typed, Actors, Work
<1>2. /\ OnlyOf(t)
      /\ at' \in [Actors -> Places] /\ work' \in [Actors -> Work]
      /\ at'[t] \in {"idle", "statting"}
      /\ at'[t] = "statting" => work'[t].name \in Names \ claiming
  BY <1>1, Continued
<1>3. \A u \in Ticks : u # t => at'[u] = at[u] /\ work'[u] = work[u]
  BY <1>2 DEF OnlyOf, Actors
<1>4. DOMAIN seen' \subseteq DOMAIN seen /\ \A n \in DOMAIN seen' : seen'[n] = seen[n]
  OBVIOUS
<1>5. at[t] \notin Claims /\ at'[t] \notin Claims
  BY <1>2 DEF Claims
<1>6. Typed'
  BY <1>2, <1>4 DEF Typed, Places
<1>7. Informed'
  BY <1>2, <1>3, <1>5 DEF Informed
<1>8. Exclusive'
  <2>1. \A u, v \in Ticks : v # t /\ at[u] \in Claims /\ Sights(v, work[u].name)
                              => work[u].name \notin DOMAIN seen'
    BY <1>4 DEF Exclusive
  <2> QED BY <1>2, <1>5, <2>1, NextFileKeepsExclusive
<1>9. Outdated'
  BY <1>2, <1>3, <1>4 DEF Outdated, Heard
<1>10. Kept'
  BY <1>2, <1>3 DEF Kept
<1> QED BY <1>6, <1>7, <1>8, <1>9, <1>10

\* stat() tells of the file that has the name, if any.
LEMMA StatTells ==
  ASSUME Typed, NEW n \in Names
  PROVE  /\ Stat(n) \in Info
         /\ Stat(n) # None => /\ Stat(n).drop \in Drops
                              /\ file[Stat(n).drop].at = "inbox"
                              /\ NameOf[Stat(n).drop] = n
<1>1. CASE InFolder(n) = {}
  BY <1>1 DEF Stat, Info
<1>2. CASE InFolder(n) # {}
  <2> DEFINE d == CHOOSE x \in InFolder(n) : TRUE
  <2>1. d \in InFolder(n)
    BY <1>2
  <2>2. d \in Drops /\ file[d].at = "inbox" /\ NameOf[d] = n /\ file[d].size \in Nat
    BY <2>1 DEF InFolder, Typed, File
  <2>3. Stat(n) = [drop |-> d, size |-> file[d].size]
    BY <1>2 DEF Stat
  <2> HIDE DEF d
  <2> QED BY <2>2, <2>3 DEF Info
<1> QED BY <1>1, <1>2

LEMMA StatFileKeeps ==
  ASSUME IInv, NEW t \in Ticks, StatFile(t)
  PROVE  IInv'
<1> USE DEF IInv, StatFile
<1> DEFINE i == Stat(work[t].name)
<1>1. t \in Actors /\ at \in [Actors -> Places] /\ work \in [Actors -> Work]
  BY DEF Actors, Typed, Places
<1>2. work[t].name \in Names
  BY DEF Informed
<1>3. /\ i \in Info
      /\ i # None => i.drop \in Drops /\ file[i.drop].at = "inbox" /\ NameOf[i.drop] = work[t].name
  BY <1>2, StatTells
<1> HIDE DEF i
<1>4. work' = [work EXCEPT ![t].info = i]
  BY DEF i
<1>5. work' \in [Actors -> Work]
  BY <1>1, <1>3, <1>4 DEF Work
<1>6. work'[t].info = i /\ work'[t].name = work[t].name
  BY <1>1, <1>4 DEF Work
<1>7. at' \in [Actors -> Places] /\ at'[t] = "sighting"
  BY <1>1 DEF Goto, Places
<1>8. \A u \in Ticks : u # t => at'[u] = at[u] /\ work'[u] = work[u]
  BY <1>1, <1>4 DEF Goto, Actors
<1>9. at[t] \notin Claims /\ at'[t] \notin Claims
  BY <1>7 DEF Claims
<1>10. Typed'
  BY <1>5, <1>7 DEF Typed, Places
<1>11. Informed'
  BY <1>2, <1>3, <1>6, <1>7, <1>8, <1>9 DEF Informed
<1>12. Exclusive'
  BY <1>6, <1>7, <1>8, <1>9 DEF Exclusive, Sights, Claiming
<1>13. Outdated'
  BY <1>3, <1>6, <1>7, <1>8 DEF Outdated, Heard
<1>14. Kept'
  BY <1>7, <1>8 DEF Kept
<1> QED BY <1>10, <1>11, <1>12, <1>13, <1>14


\* The file is gone, or looks different from last time.
LEMMA NotYetKeeps ==
  ASSUME IInv, NEW t \in Ticks, at[t] = "sighting",
         Continue(t, work[t].todo, claiming),
         \/ UNCHANGED seen
         \/ work[t].info # None /\ seen' = With(seen, work[t].name, work[t].info),
         UNCHANGED <<claiming, file, sameVolume, workspaces, notes>>
  PROVE  IInv'
<1> USE DEF IInv
<1> DEFINE n == work[t].name
           i == work[t].info
<1>1. work[t].todo \subseteq Names /\ i \in Info
  BY DEF Typed, Actors, Work
<1>2. n \in Names /\ (i # None => NameOf[i.drop] = n)
  BY DEF Informed
<1>3. /\ OnlyOf(t)
      /\ at' \in [Actors -> Places] /\ work' \in [Actors -> Work]
      /\ at'[t] \in {"idle", "statting"}
      /\ at'[t] = "statting" => work'[t].name \in Names \ claiming
  BY <1>1, Continued
<1>4. \A u \in Ticks : u # t => at'[u] = at[u] /\ work'[u] = work[u]
  BY <1>3 DEF OnlyOf, Actors
<1>5. at[t] \notin Claims /\ at'[t] \notin Claims
  BY <1>3 DEF Claims
<1>6. \/ seen' = seen
      \/ /\ i # None
         /\ DOMAIN seen' = DOMAIN seen \cup {n} /\ seen'[n] = i
         /\ \A m \in DOMAIN seen : m # n => seen'[m] = seen[m]
  BY DEF With
<1>7. Typed'
  <2>1. DOMAIN seen' \subseteq Names
    BY <1>2, <1>6 DEF Typed
  <2>2. \A m \in DOMAIN seen' : /\ seen'[m] \in [drop : Drops, size : Nat]
                                /\ NameOf[seen'[m].drop] = m
    BY <1>1, <1>2, <1>6 DEF Typed, Info
  <2> QED BY <1>3, <2>1, <2>2 DEF Typed, Places
<1>8. Informed'
  BY <1>3, <1>4, <1>5 DEF Informed
<1>9. Exclusive'
  <2>1. \A u, v \in Ticks : v # t /\ at[u] \in Claims /\ Sights(v, work[u].name)
                              => work[u].name \notin DOMAIN seen'
    <3> SUFFICES ASSUME NEW u \in Ticks, NEW v \in Ticks, v # t, at[u] \in Claims,
                        Sights(v, work[u].name)
                 PROVE  work[u].name \notin DOMAIN seen'
      OBVIOUS
    <3>1. work[u].name \notin DOMAIN seen
      BY DEF Exclusive
    <3>2. ~ Sights(t, work[u].name)
      BY DEF Exclusive
    <3>3. work[u].name # n
      BY <3>2 DEF Sights
    <3> QED BY <1>6, <3>1, <3>3
  <2> QED BY <1>3, <1>5, <2>1, NextFileKeepsExclusive
<1>10. Outdated'
  <2> SUFFICES ASSUME NEW u \in Ticks, Heard(u)', file[work'[u].info.drop].at # "inbox"
               PROVE  /\ \A v \in Ticks : Heard(v)' /\ work'[v].info.drop = work'[u].info.drop
                                            => v = u
                      /\ \A m \in DOMAIN seen' : seen'[m].drop # work'[u].info.drop
    BY DEF Outdated, Heard
  <2>1. u # t
    BY <1>3 DEF Heard
  <2>2. Heard(u) /\ work'[u] = work[u] /\ file[work[u].info.drop].at # "inbox"
    BY <1>4, <2>1 DEF Heard
  <2>3. \A v \in Ticks : Heard(v)' => Heard(v) /\ work'[v] = work[v]
    BY <1>3, <1>4 DEF Heard
  <2>4. \A v \in Ticks : Heard(v)' /\ work'[v].info.drop = work'[u].info.drop => v = u
    BY <2>2, <2>3 DEF Outdated
  <2>5. i # None => i.drop # work[u].info.drop
    BY <2>1, <2>2 DEF Outdated, Heard
  <2>6. \A m \in DOMAIN seen' : seen'[m].drop # work'[u].info.drop
    BY <1>6, <2>2, <2>5 DEF Outdated
  <2> QED BY <2>4, <2>6
<1>11. Kept'
  BY <1>3, <1>4 DEF Kept
<1> QED BY <1>7, <1>8, <1>9, <1>10, <1>11

\* The file looks as it did: it is still in the folder, and nobody claims it.
LEMMA ClaimBegins ==
  ASSUME IInv, StatIsPrompt, NEW t \in Ticks, at[t] = "sighting",
         work[t].info # None, Unchanged(t),
         seen' = Without(seen, work[t].name),
         claiming' = claiming \cup {work[t].name},
         Goto(t, "finding"),
         UNCHANGED <<work, file, sameVolume, workspaces, notes>>
  PROVE  IInv'
<1> USE DEF IInv
<1> DEFINE n == work[t].name
           d == work[t].info.drop
<1>1. t \in Actors /\ at \in [Actors -> Places]
  BY DEF Actors, Typed, Places
<1>2. /\ at' \in [Actors -> Places] /\ at'[t] = "finding"
      /\ \A u \in Ticks : u # t => at'[u] = at[u]
  BY <1>1 DEF Goto, Places, Claims, Actors
<1>3. n \in Names /\ n \in DOMAIN seen /\ seen[n] = work[t].info /\ NameOf[d] = n
  BY DEF Informed, Unchanged
<1>4. DOMAIN seen' = DOMAIN seen \ {n} /\ \A m \in DOMAIN seen' : seen'[m] = seen[m]
  BY DEF Without
<1>5. file[d].at = "inbox"
  BY <1>3 DEF Outdated, Heard
<1>6. \A u \in Ticks : ~ Claiming(u, n)
  BY <1>3 DEF Exclusive, Claiming, Sights
<1>7. at[t] \notin Claims /\ at'[t] \in Claims
  BY <1>2 DEF Claims
<1>8. Typed'
  BY <1>2, <1>4 DEF Typed, Places
<1>9. Informed'
  BY <1>2, <1>3 DEF Informed
<1>10. Exclusive'
  <2>1. claiming' = {work[u].name : u \in {v \in Ticks : at'[v] \in Claims}}
    BY <1>2, <1>7 DEF Exclusive
  <2>2. \A u, v \in Ticks : at'[u] \in Claims /\ Claiming(v, work[u].name)' => u = v
    BY <1>2, <1>6 DEF Exclusive, Claiming
  <2>3. \A v \in Ticks, m \in Names : Sights(v, m)' => v # t /\ Sights(v, m)
    BY <1>2 DEF Sights
  <2>4. \A u \in Ticks : at'[u] \in Claims => work[u].name \in Names
    BY <1>9 DEF Informed
  <2>5. \A u, v \in Ticks : at'[u] \in Claims /\ Sights(v, work[u].name)' =>
          work[u].name \notin DOMAIN seen'
    BY <1>2, <1>4, <2>3, <2>4 DEF Exclusive
  <2>6. \A u, v, w \in Ticks :
          at'[u] \in Claims /\ Sights(v, work[u].name)' /\ Sights(w, work[u].name)' => v = w
    <3> SUFFICES ASSUME NEW u \in Ticks, NEW v \in Ticks, NEW w \in Ticks, at'[u] \in Claims,
                        Sights(v, work[u].name)', Sights(w, work[u].name)'
                 PROVE  v = w
      OBVIOUS
    <3>1. /\ v # t /\ Sights(v, work[u].name)
          /\ w # t /\ Sights(w, work[u].name)
      BY <2>3, <2>4
    <3>2. CASE u = t
      <4>1. Sights(t, n)
        BY DEF Sights
      <4> QED BY <1>3, <3>1, <3>2, <4>1 DEF StatIsPrompt
    <3>3. CASE u # t
      BY <1>2, <3>1, <3>3 DEF Exclusive
    <3> QED BY <3>2, <3>3
  <2> QED BY <2>1, <2>2, <2>5, <2>6 DEF Exclusive, Sights, Claiming
<1>11. Outdated'
  BY <1>2, <1>4 DEF Outdated, Heard
<1>12. Kept'
  BY <1>2, <1>5 DEF Kept
<1> QED BY <1>8, <1>9, <1>10, <1>11, <1>12

LEMMA SightedKeeps ==
  ASSUME IInv, StatIsPrompt, NEW t \in Ticks, Sighted(t)
  PROVE  IInv'
<1>1. CASE /\ Continue(t, work[t].todo, claiming)
           /\ UNCHANGED <<seen, claiming>>
  BY <1>1, NotYetKeeps DEF Sighted
<1>2. CASE /\ work[t].info # None
           /\ seen' = With(seen, work[t].name, work[t].info)
           /\ Continue(t, work[t].todo, claiming)
           /\ UNCHANGED claiming
  BY <1>2, NotYetKeeps DEF Sighted
<1>3. CASE /\ work[t].info # None /\ Unchanged(t)
           /\ seen' = Without(seen, work[t].name)
           /\ claiming' = claiming \cup {work[t].name}
           /\ Goto(t, "finding")
           /\ UNCHANGED work
  BY <1>3, ClaimBegins DEF Sighted
<1> QED BY <1>1, <1>2, <1>3 DEF Sighted


-----------------------------------------------------------------------------
(* getOrCreateWorkspace().                                                 *)

\* Claims stay apart while one of them goes from step to step.
LEMMA ClaimGoesOn ==
  ASSUME Exclusive, NEW t \in Ticks, at[t] \in Claims, at'[t] \in Claims,
         \A u \in Ticks : u # t => at'[u] = at[u],
         \A u \in Ticks : work'[u].name = work[u].name,
         UNCHANGED <<seen, claiming>>
  PROVE  Exclusive'
<1>1. \A u \in Ticks : (at'[u] \in Claims) <=> (at[u] \in Claims)
  OBVIOUS
<1>2. claiming' = {work'[u].name : u \in {v \in Ticks : at'[v] \in Claims}}
  BY <1>1 DEF Exclusive
<1>3. \A u, v \in Ticks : at'[u] \in Claims /\ Claiming(v, work[u].name)' => u = v
  BY <1>1 DEF Exclusive, Claiming
<1>4. at[t] \notin {"statting", "sighting"} /\ at'[t] \notin {"statting", "sighting"}
  BY DEF Claims
<1>5. \A u, v \in Ticks : Sights(v, work[u].name)' => Sights(v, work[u].name)
  BY <1>4 DEF Sights
<1>6. \A u, v \in Ticks : at'[u] \in Claims /\ Sights(v, work[u].name)' =>
        work[u].name \notin DOMAIN seen
  BY <1>1, <1>5 DEF Exclusive
<1>7. \A u, v, w \in Ticks :
        at'[u] \in Claims /\ Sights(v, work[u].name)' /\ Sights(w, work[u].name)' => v = w
  BY <1>1, <1>5 DEF Exclusive
<1> QED BY <1>2, <1>3, <1>6, <1>7 DEF Exclusive, Sights, Claiming

LEMMA AskKeeps ==
  ASSUME IInv, NEW c \in Clients, NEW w \in Workspaces, Ask(c, w)
  PROVE  IInv'
<1> USE DEF IInv, Ask
<1>1. c \in Actors /\ at \in [Actors -> Places] /\ work \in [Actors -> Work]
  BY DEF Actors, Typed, Places
<1>2. at' \in [Actors -> Places] /\ work' \in [Actors -> Work]
  BY <1>1 DEF Goto, Places, Claims, Work
<1>3. \A t \in Ticks : at'[t] = at[t] /\ work'[t] = work[t]
  BY <1>1, ActorsAssumption DEF Goto, Actors
<1>4. Typed'
  BY <1>2 DEF Typed, Places
<1>5. Informed'
  BY <1>3 DEF Informed
<1>6. Exclusive'
  <2>1. {work[t].name : t \in {u \in Ticks : at[u] \in Claims}}
          = {work'[t].name : t \in {u \in Ticks : at'[u] \in Claims}}
    BY <1>3
  <2> QED BY <1>3, <2>1 DEF Exclusive, Sights, Claiming
<1>7. Outdated'
  BY <1>3 DEF Outdated, Heard
<1>8. Kept'
  BY <1>3 DEF Kept
<1> QED BY <1>4, <1>5, <1>6, <1>7, <1>8

\* A claim is told its workspace, or goes on without: either way it keeps the
\* name and the file it is about.
LEMMA ToldKeeps ==
  ASSUME IInv, NEW t \in Ticks, at[t] \in {"finding", "creating"},
         NEW i, \/ Told(t, i) /\ i \in DOMAIN workspaces'
                \/ Goto(t, "creating") /\ UNCHANGED work,
         \E k \in Nat : DOMAIN workspaces' = 1..k,
         DOMAIN workspaces \subseteq DOMAIN workspaces',
         UNCHANGED <<file, sameVolume, seen, claiming, notes>>
  PROVE  IInv'
<1> USE DEF IInv
<1>1. t \in Actors /\ at \in [Actors -> Places] /\ work \in [Actors -> Work]
  BY DEF Actors, Typed, Places
<1>2. at' \in [Actors -> Places] /\ work' \in [Actors -> Work]
  <2>1. CASE Told(t, i) /\ i \in DOMAIN workspaces'
    <3>1. i \in Nat
      BY <2>1
    <3>2. work' = [work EXCEPT ![t] = [work[t] EXCEPT !.workspace = i]]
      BY <1>1, <2>1 DEF Told
    <3>3. [work[t] EXCEPT !.workspace = i] \in Work
      BY <1>1, <3>1 DEF Work
    <3> QED BY <1>1, <2>1, <3>2, <3>3 DEF Told, Goto, Places, Claims
  <2>2. CASE Goto(t, "creating") /\ UNCHANGED work
    BY <1>1, <2>2 DEF Goto, Places, Claims
  <2> QED BY <2>1, <2>2
<1>3. \A u \in Actors : u # t => at'[u] = at[u] /\ work'[u] = work[u]
  BY <1>1 DEF Told, Goto
<1>4. /\ work'[t].name = work[t].name /\ work'[t].info = work[t].info
      /\ at'[t] \in {"creating", "moving"}
      /\ at'[t] = "moving" => work'[t].workspace \in DOMAIN workspaces'
  <2>1. CASE Told(t, i) /\ i \in DOMAIN workspaces'
    <3>1. work'[t] = [work[t] EXCEPT !.workspace = i]
      BY <1>1, <2>1 DEF Told
    <3>2. work[t] \in Work /\ at'[t] = "moving"
      BY <1>1, <2>1 DEF Told, Goto
    <3> QED BY <2>1, <3>1, <3>2 DEF Work
  <2>2. CASE Goto(t, "creating") /\ UNCHANGED work
    BY <1>1, <2>2 DEF Goto
  <2> QED BY <2>1, <2>2
<1>5. at[t] \in Claims /\ at'[t] \in Claims
  BY <1>4 DEF Claims
<1>6. \A u \in Ticks : u # t => at'[u] = at[u] /\ work'[u] = work[u]
  BY <1>3 DEF Actors
<1>7. Typed'
  BY <1>2 DEF Typed, Places
<1>8. Informed'
  BY <1>4, <1>5, <1>6 DEF Informed
<1>9. Exclusive'
  BY <1>4, <1>5, <1>6, ClaimGoesOn
<1>10. Outdated'
  BY <1>4, <1>6 DEF Outdated, Heard
<1>11. Kept'
  BY <1>4, <1>6 DEF Kept
<1> QED BY <1>7, <1>8, <1>9, <1>10, <1>11

LEMMA FindWorkspaceKeeps ==
  ASSUME IInv, NEW t \in Ticks, FindWorkspace(t)
  PROVE  IInv'
<1> DEFINE i == Found(NameSought(t))
<1>1. PICK k \in Nat : DOMAIN workspaces = 1..k
  BY DEF IInv, Typed
<1>2. i = 0 \/ i \in DOMAIN workspaces
  BY <1>1, FoundIsStored
<1> HIDE DEF i
<1>3. \/ Told(t, i) /\ i \in DOMAIN workspaces
      \/ Goto(t, "creating") /\ UNCHANGED work
  BY <1>2 DEF FindWorkspace, i
<1> QED BY <1>1, <1>3, ToldKeeps DEF FindWorkspace

\* For a claim or for a client.
LEMMA CreateWorkspaceKeeps ==
  ASSUME IInv, NEW a \in Actors, CreateWorkspace(a)
  PROVE  IInv'
<1> DEFINE i == Cardinality(DOMAIN workspaces) + 1
<1>1. PICK k \in Nat : DOMAIN workspaces = 1..k
  BY DEF IInv, Typed
<1>2. workspaces' = With(workspaces, i, NameSought(a)) /\ Told(a, i) /\ at[a] = "creating"
  BY DEF CreateWorkspace
<1>3. i = k + 1 /\ DOMAIN workspaces' = 1..(k + 1)
  <2> HIDE DEF i
  <2>1. i = Cardinality(DOMAIN workspaces) + 1
    BY DEF i
  <2> QED BY <1>1, <1>2, <2>1, CreatedIsStored
<1> HIDE DEF i
<1>4. /\ i \in DOMAIN workspaces' /\ \E l \in Nat : DOMAIN workspaces' = 1..l
      /\ DOMAIN workspaces \subseteq DOMAIN workspaces'
  BY <1>1, <1>3
<1>5. CASE a \in Ticks
  BY <1>2, <1>4, <1>5, ToldKeeps DEF CreateWorkspace
<1>6. CASE a \notin Ticks
  <2> USE DEF IInv
  <2>1. at \in [Actors -> Places] /\ work \in [Actors -> Work]
    BY DEF Typed, Places
  <2>2. Idle \in Work
    BY DEF Idle, Work, Info
  <2>3. at' \in [Actors -> Places] /\ work' \in [Actors -> Work]
    BY <1>2, <1>6, <2>1, <2>2 DEF Told, Goto, Places
  <2>4. \A t \in Ticks : at'[t] = at[t] /\ work'[t] = work[t]
    BY <1>2, <1>6, <2>1 DEF Told, Goto, Actors
  <2>5. Typed'
    BY <1>4, <2>3 DEF Typed, Places, CreateWorkspace
  <2>6. Informed'
    BY <1>4, <2>4 DEF Informed
  <2>7. Exclusive' /\ Outdated'
    BY <2>4 DEF Exclusive, Sights, Claiming, Outdated, Heard, CreateWorkspace
  <2>8. Kept'
    BY <1>4, <2>4 DEF Kept, CreateWorkspace
  <2> QED BY <2>5, <2>6, <2>7, <2>8
<1> QED BY <1>5, <1>6


-----------------------------------------------------------------------------
(* The move.                                                               *)

\* A file of the name being claimed is the one that was looked at.
LEMMA ClaimedIsInFolder ==
  ASSUME IInv, NEW t \in Ticks, at[t] \in {"finding", "creating", "moving", "copied"},
         NEW d \in InFolder(work[t].name)
  PROVE  d \in Drops /\ d = work[t].info.drop /\ file[d].at = "inbox"
<1>1. at[t] \in Claims
  BY DEF Claims
<1>2. work[t].info # None /\ NameOf[work[t].info.drop] = work[t].name
  BY <1>1 DEF IInv, Informed
<1>3. work[t].info.drop \in Drops
  BY <1>2 DEF IInv, Typed, Actors, Work, Info
<1> QED BY <1>2, <1>3 DEF IInv, Kept, InFolder

\* The file lies in its workspace, in place of what lay there under its name.
LEMMA PlacedLands ==
  ASSUME Typed, NEW d \in Drops, file[d].at = "inbox",
         NEW i \in DOMAIN workspaces, file' = Placed(d, i)
  PROVE  /\ file' \in [Drops -> File]
         /\ file'[d].at = "landed" /\ file'[d].workspace = i
         /\ \A e \in Drops :
              /\ file'[e].size = file[e].size /\ file'[e].copied = file[e].copied
              /\ e # d => /\ file'[e].workspace = file[e].workspace
                          /\ \/ file'[e].at = file[e].at
                             \/ file[e].at = "landed" /\ file'[e].at = "replaced"
<1>1. file \in [Drops -> File] /\ i \in Nat
  BY DEF Typed
<1> DEFINE New(e) == IF e = d THEN [file[e] EXCEPT !.at = "landed", !.workspace = i]
                     ELSE IF e \in InboxOf(i) /\ NameOf[e] = NameOf[d]
                          THEN [file[e] EXCEPT !.at = "replaced"]
                          ELSE file[e]
<1>2. ASSUME NEW e \in Drops
      PROVE  /\ New(e) \in File
             /\ New(e).size = file[e].size /\ New(e).copied = file[e].copied
             /\ e = d => New(e).at = "landed" /\ New(e).workspace = i
             /\ e # d => /\ New(e).workspace = file[e].workspace
                         /\ \/ New(e).at = file[e].at
                            \/ file[e].at = "landed" /\ New(e).at = "replaced"
  <2>1. file[e] \in File
    BY <1>1
  <2> QED BY <1>1, <2>1 DEF File, InboxOf
<1>3. file' = [e \in Drops |-> New(e)]
  BY DEF Placed
<1> HIDE DEF New
<1> QED BY <1>2, <1>3

\* What the moved file leaves behind: nobody else has heard of it and finds
\* the same in `seen`.
LEMMA MovedKeeps ==
  ASSUME IInv, NEW t \in Ticks, at[t] \in {"moving", "copied"},
         NEW d \in InFolder(work[t].name), file' = Placed(d, work[t].workspace),
         Goto(t, "noting"),
         UNCHANGED <<sameVolume, workspaces, seen, claiming, work, notes>>
  PROVE  IInv'
<1> USE DEF IInv
<1>1. d \in Drops /\ d = work[t].info.drop /\ file[d].at = "inbox"
  BY ClaimedIsInFolder
<1>2. work[t].workspace \in DOMAIN workspaces
  BY DEF Informed
<1>3. /\ file' \in [Drops -> File]
      /\ file'[d].at = "landed" /\ file'[d].workspace = work[t].workspace
      /\ \A e \in Drops :
           /\ file'[e].size = file[e].size /\ file'[e].copied = file[e].copied
           /\ e # d => /\ file'[e].workspace = file[e].workspace
                       /\ \/ file'[e].at = file[e].at
                          \/ file[e].at = "landed" /\ file'[e].at = "replaced"
  BY <1>1, <1>2, PlacedLands
<1>4. t \in Actors /\ at \in [Actors -> Places]
  BY DEF Actors, Typed, Places
<1>5. /\ at' \in [Actors -> Places] /\ at'[t] = "noting"
      /\ \A u \in Ticks : u # t => at'[u] = at[u]
  BY <1>4 DEF Goto, Places, Claims, Actors
<1>6. at[t] \in Claims /\ at'[t] \in Claims
  BY <1>5 DEF Claims
<1>7. \A u \in Ticks : work[u].info # None => work[u].info.drop \in Drops
  BY DEF Typed, Work, Info, Actors
<1>8. Typed'
  BY <1>3, <1>5 DEF Typed, Places
<1>9. Informed'
  BY <1>2, <1>5, <1>6 DEF Informed
<1>10. Exclusive'
  BY <1>5, <1>6, ClaimGoesOn
<1>11. Outdated'
  <2> SUFFICES ASSUME NEW u \in Ticks, Heard(u)', file'[work[u].info.drop].at # "inbox"
               PROVE  /\ \A v \in Ticks : Heard(v)' /\ work[v].info.drop = work[u].info.drop
                                            => v = u
                      /\ \A m \in DOMAIN seen : seen[m].drop # work[u].info.drop
    BY DEF Outdated, Heard
  <2>1. \A v \in Ticks : Heard(v)' => v # t /\ Heard(v) /\ work[v].info.drop \in Drops
    BY <1>5, <1>7 DEF Heard
  <2>2. CASE work[u].info.drop # d
    BY <1>3, <2>1, <2>2 DEF Outdated
  <2>3. CASE work[u].info.drop = d
    <3>1. \A v \in Ticks : Heard(v) /\ work[v].info.drop = d => Sights(v, work[t].name)
      <4>1. NameOf[d] = work[t].name
        BY <1>1, <1>6 DEF Informed
      <4> QED BY <4>1 DEF Informed, Heard, Sights
    <3>2. \A v \in Ticks : Heard(v) /\ work[v].info.drop = d => v = u
      BY <1>6, <2>1, <2>3, <3>1 DEF Exclusive
    <3>3. work[t].name \notin DOMAIN seen
      BY <1>6, <2>1, <2>3, <3>1 DEF Exclusive
    <3>4. \A m \in DOMAIN seen : seen[m].drop # d
      <4>1. NameOf[d] = work[t].name
        BY <1>1, <1>6 DEF Informed
      <4> QED BY <3>3, <4>1 DEF Typed
    <3> QED BY <2>1, <2>3, <3>2, <3>4
  <2> QED BY <2>2, <2>3
<1>12. Kept'
  <2>1. \A e, f \in Drops :
          file'[e].at = "inbox" /\ file'[f].at = "inbox" /\ NameOf[e] = NameOf[f] => e = f
    BY <1>3 DEF Kept
  <2>2. \A e \in Drops :
          /\ file'[e].at # "lost" /\ notes[e] <= 1
          /\ notes[e] > 0 => file'[e].at \in {"landed", "replaced"}
          /\ file'[e].at = "landed" => file'[e].workspace \in DOMAIN workspaces
    BY <1>2, <1>3 DEF Kept
  <2>3. notes[d] = 0
    <3>1. notes[d] \in Nat
      BY <1>1 DEF Typed
    <3> QED BY <1>1, <3>1 DEF Kept
  <2>4. ASSUME NEW u \in Ticks, u # t, at[u] \in Claims
        PROVE  work[u].info.drop \in Drops /\ work[u].info.drop # d
    <3>1. work[u].name # work[t].name
      BY <1>6, <2>4 DEF Exclusive, Claiming
    <3>2. NameOf[work[u].info.drop] = work[u].name /\ NameOf[d] = work[t].name
      BY <1>1, <1>6, <2>4 DEF Informed
    <3> QED BY <1>7, <2>4, <3>1, <3>2 DEF Informed
  <2>5. ASSUME NEW u \in Ticks
        PROVE  /\ at'[u] \in {"finding", "creating", "moving", "copied"} =>
                    file'[work[u].info.drop].at = "inbox"
               /\ at'[u] = "copied" => file'[work[u].info.drop].copied
               /\ at'[u] = "noting" => /\ notes[work[u].info.drop] = 0
                                       /\ file'[work[u].info.drop].at \in {"landed", "replaced"}
    <3>1. CASE u = t
      BY <1>1, <1>3, <1>5, <2>3, <3>1
    <3>2. CASE u # t /\ at[u] \in Claims
      BY <1>3, <1>5, <2>4, <3>2 DEF Kept
    <3>3. CASE u # t /\ at[u] \notin Claims
      BY <1>5, <3>3 DEF Claims
    <3> QED BY <3>1, <3>2, <3>3
  <2> QED BY <2>1, <2>2, <2>5 DEF Kept
<1> QED BY <1>8, <1>9, <1>10, <1>11, <1>12


LEMMA RenameKeeps ==
  ASSUME IInv, NEW t \in Ticks, Rename(t)
  PROVE  IInv'
<1>1. PICK d \in InFolder(work[t].name) : file' = Placed(d, work[t].workspace)
  BY DEF Rename
<1> QED BY <1>1, MovedKeeps DEF Rename

LEMMA CopyKeeps ==
  ASSUME IInv, NEW t \in Ticks, Copy(t)
  PROVE  IInv'
<1> USE DEF IInv
<1>1. PICK d \in InFolder(work[t].name) : file' = [file EXCEPT ![d].copied = TRUE]
  BY DEF Copy
<1>2. at[t] = "moving" /\ UNCHANGED <<sameVolume, workspaces, seen, claiming, work, notes>>
  BY DEF Copy
<1>3. d \in Drops /\ d = work[t].info.drop /\ file[d].at = "inbox"
  BY <1>2, ClaimedIsInFolder
<1>4. /\ file' \in [Drops -> File] /\ file'[d].copied
      /\ \A e \in Drops :
           /\ file'[e].at = file[e].at /\ file'[e].size = file[e].size
           /\ file'[e].workspace = file[e].workspace
           /\ file[e].copied => file'[e].copied
  <2> DEFINE new == [file[d] EXCEPT !.copied = TRUE]
  <2>1. file \in [Drops -> File]
    BY DEF Typed
  <2>2. /\ new \in File /\ new.copied /\ new.at = file[d].at /\ new.size = file[d].size
        /\ new.workspace = file[d].workspace
    BY <1>3, <2>1 DEF File
  <2>3. file' = [file EXCEPT ![d] = new]
    BY <1>1, <2>1
  <2> HIDE DEF new
  <2> QED BY <1>3, <2>1, <2>2, <2>3
<1>5. t \in Actors /\ at \in [Actors -> Places]
  BY DEF Actors, Typed, Places
<1>6. /\ at' \in [Actors -> Places] /\ at'[t] = "copied"
      /\ \A u \in Ticks : u # t => at'[u] = at[u]
  BY <1>5 DEF Goto, Places, Claims, Actors, Copy
<1>7. at[t] \in Claims /\ at'[t] \in Claims
  BY <1>2, <1>6 DEF Claims
<1>8. \A u \in Ticks : work[u].info # None => work[u].info.drop \in Drops
  BY DEF Typed, Work, Info, Actors
<1>9. Typed'
  BY <1>2, <1>4, <1>6 DEF Typed, Places
<1>10. Informed'
  BY <1>2, <1>6, <1>7 DEF Informed
<1>11. Exclusive'
  BY <1>2, <1>6, <1>7, ClaimGoesOn
<1>12. Outdated'
  BY <1>2, <1>4, <1>6, <1>8 DEF Outdated, Heard
<1>13. Kept'
  <2>1. \A u \in Ticks : at[u] \in Claims => work[u].info.drop \in Drops
    BY <1>8 DEF Informed
  <2>2. \A e, f \in Drops :
          file'[e].at = "inbox" /\ file'[f].at = "inbox" /\ NameOf[e] = NameOf[f] => e = f
    BY <1>4 DEF Kept
  <2>3. \A e \in Drops :
          /\ file'[e].at # "lost" /\ notes[e] <= 1
          /\ notes[e] > 0 => file'[e].at \in {"landed", "replaced"}
          /\ file'[e].at = "landed" => file'[e].workspace \in DOMAIN workspaces
    BY <1>4 DEF Kept
  <2>4. ASSUME NEW u \in Ticks
        PROVE  /\ at'[u] \in {"finding", "creating", "moving", "copied"} =>
                    file'[work[u].info.drop].at = "inbox"
               /\ at'[u] = "copied" => file'[work[u].info.drop].copied
               /\ at'[u] = "noting" => /\ notes[work[u].info.drop] = 0
                                       /\ file'[work[u].info.drop].at \in {"landed", "replaced"}
    <3>1. CASE u = t
      BY <1>3, <1>4, <1>6, <3>1
    <3>2. CASE u # t
      BY <1>4, <1>6, <2>1, <3>2 DEF Kept, Claims
    <3> QED BY <3>1, <3>2
  <2> QED BY <1>2, <2>2, <2>3, <2>4 DEF Kept
<1> QED BY <1>9, <1>10, <1>11, <1>12, <1>13

\* What has the name by then is what was copied.
LEMMA UnlinkKeeps ==
  ASSUME IInv, NEW t \in Ticks, Unlink(t)
  PROVE  IInv'
<1>1. PICK d \in InFolder(work[t].name) :
        file' = IF file[d].copied THEN Placed(d, work[t].workspace)
                                  ELSE [file EXCEPT ![d].at = "lost"]
  BY DEF Unlink
<1>2. at[t] = "copied"
  BY DEF Unlink
<1>3. d = work[t].info.drop
  BY <1>2, ClaimedIsInFolder
<1>4. file[d].copied
  BY <1>2, <1>3 DEF IInv, Kept
<1> QED BY <1>1, <1>2, <1>4, MovedKeeps DEF Unlink

-----------------------------------------------------------------------------
(* The end of a claim.                                                     *)

\* It gives the name back, with a note of the file if it was moved.
LEMMA ClaimEnds ==
  ASSUME IInv, NEW t \in Ticks, at[t] \in Claims,
         claiming' = claiming \ {work[t].name},
         Continue(t, work[t].todo, claiming'),
         UNCHANGED <<file, sameVolume, workspaces, seen>>,
         \/ UNCHANGED notes
         \/ /\ at[t] = "noting"
            /\ notes' = [notes EXCEPT ![work[t].info.drop] = @ + 1]
  PROVE  IInv'
<1> USE DEF IInv
<1> DEFINE d == work[t].info.drop
<1>1. work[t].todo \subseteq Names
  BY DEF Typed, Actors, Work
<1>2. /\ OnlyOf(t)
      /\ at' \in [Actors -> Places] /\ work' \in [Actors -> Work]
      /\ at'[t] \in {"idle", "statting"}
      /\ at'[t] = "statting" => work'[t].name \in Names \ claiming'
  BY <1>1, Continued
<1>3. \A u \in Ticks : u # t => at'[u] = at[u] /\ work'[u] = work[u]
  BY <1>2 DEF OnlyOf, Actors
<1>4. at'[t] \notin Claims
  BY <1>2 DEF Claims
<1>5. \A u \in Ticks : work[u].info # None => work[u].info.drop \in Drops
  BY DEF Typed, Work, Info, Actors
<1>6. d \in Drops /\ NameOf[d] = work[t].name
  BY <1>5 DEF Informed
<1>7. notes' \in [Drops -> Nat]
  <2>1. notes \in [Drops -> Nat]
    BY DEF Typed
  <2>2. notes[d] + 1 \in Nat
    BY <1>6, <2>1
  <2> QED BY <2>1, <2>2
<1>8. Typed'
  BY <1>2, <1>7 DEF Typed, Places
<1>9. Informed'
  BY <1>2, <1>3, <1>4 DEF Informed
<1>10. Exclusive'
  <2>1. \A u \in Ticks : u # t /\ at[u] \in Claims => work[u].name # work[t].name
    BY DEF Exclusive, Claiming
  <2>2. claiming' = {work'[u].name : u \in {v \in Ticks : at'[v] \in Claims}}
    <3>1. ASSUME NEW n \in claiming'
          PROVE  n \in {work'[u].name : u \in {v \in Ticks : at'[v] \in Claims}}
      <4>1. PICK u \in Ticks : at[u] \in Claims /\ work[u].name = n
        BY DEF Exclusive
      <4>2. u # t
        BY <4>1
      <4> QED BY <1>3, <4>1, <4>2
    <3>2. ASSUME NEW u \in Ticks, at'[u] \in Claims
          PROVE  work'[u].name \in claiming'
      <4>1. u # t
        BY <1>4, <3>2
      <4>2. work[u].name \in claiming
        BY <1>3, <3>2, <4>1 DEF Exclusive
      <4> QED BY <1>3, <2>1, <3>2, <4>1, <4>2
    <3> QED BY <3>1, <3>2
  <2>3. \A u \in Ticks : at'[u] \in Claims => ~ Sights(t, work[u].name)'
    BY <1>2, <1>3, <1>4, <2>2 DEF Sights
  <2>4. \A u, v \in Ticks : at'[u] \in Claims /\ Claiming(v, work[u].name)' => u = v
    BY <1>3, <1>4 DEF Exclusive, Claiming
  <2>5. \A u, v \in Ticks : at'[u] \in Claims /\ Sights(v, work[u].name)' =>
          u # t /\ v # t /\ at[u] \in Claims /\ work'[u] = work[u] /\ Sights(v, work[u].name)
    BY <1>3, <1>4, <2>3 DEF Sights
  <2>6. \A u, v \in Ticks : at'[u] \in Claims /\ Sights(v, work[u].name)' =>
          work'[u].name \notin DOMAIN seen'
    BY <2>5 DEF Exclusive
  <2>7. \A u, v, w \in Ticks :
          at'[u] \in Claims /\ Sights(v, work[u].name)' /\ Sights(w, work[u].name)' => v = w
    BY <2>5 DEF Exclusive
  <2> QED BY <2>2, <2>4, <2>6, <2>7 DEF Exclusive, Sights, Claiming
<1>11. Outdated'
  BY <1>2, <1>3 DEF Outdated, Heard
<1>12. Kept'
  <2>1. \A e \in Drops : e # d => notes'[e] = notes[e]
    BY DEF Typed
  <2>2. \/ notes'[d] = notes[d]
        \/ notes'[d] = 1 /\ file[d].at \in {"landed", "replaced"}
    <3>1. CASE UNCHANGED notes
      BY <3>1
    <3>2. CASE /\ at[t] = "noting"
               /\ notes' = [notes EXCEPT ![work[t].info.drop] = @ + 1]
      <4>1. notes[d] = 0 /\ file[d].at \in {"landed", "replaced"}
        BY <3>2 DEF Kept
      <4> QED BY <1>6, <3>2, <4>1 DEF Typed
    <3> QED BY <3>1, <3>2
  <2>3. \A e \in Drops :
          /\ file[e].at # "lost" /\ notes'[e] <= 1
          /\ notes'[e] > 0 => file[e].at \in {"landed", "replaced"}
          /\ file[e].at = "landed" => file[e].workspace \in DOMAIN workspaces
    BY <2>1, <2>2 DEF Kept
  <2>4. \A u \in Ticks : u # t /\ at[u] \in Claims =>
          work[u].info.drop \in Drops /\ work[u].info.drop # d
    <3> SUFFICES ASSUME NEW u \in Ticks, u # t, at[u] \in Claims
                 PROVE  work[u].info.drop \in Drops /\ work[u].info.drop # d
      OBVIOUS
    <3>1. work[u].name # work[t].name
      BY DEF Exclusive, Claiming
    <3>2. NameOf[work[u].info.drop] = work[u].name
      BY DEF Informed
    <3> QED BY <1>5, <1>6, <3>1, <3>2 DEF Informed
  <2>5. ASSUME NEW u \in Ticks
        PROVE  /\ at'[u] \in {"finding", "creating", "moving", "copied"} =>
                    file[work'[u].info.drop].at = "inbox"
               /\ at'[u] = "copied" => file[work'[u].info.drop].copied
               /\ at'[u] = "noting" => /\ notes'[work'[u].info.drop] = 0
                                       /\ file[work'[u].info.drop].at \in {"landed", "replaced"}
    <3>1. CASE u = t \/ at[u] \notin Claims
      BY <1>2, <1>3, <3>1 DEF Claims
    <3>2. CASE u # t /\ at[u] \in Claims
      BY <1>3, <2>1, <2>4, <3>2 DEF Kept
    <3> QED BY <3>1, <3>2
  <2>6. \A e, f \in Drops :
          file[e].at = "inbox" /\ file[f].at = "inbox" /\ NameOf[e] = NameOf[f] => e = f
    BY DEF Kept
  <2> QED BY <2>3, <2>5, <2>6 DEF Kept
<1> QED BY <1>8, <1>9, <1>10, <1>11, <1>12


LEMMA NoteKeeps ==
  ASSUME IInv, NEW t \in Ticks, Note(t)
  PROVE  IInv'
<1>1. at[t] = "noting" /\ at[t] \in Claims
  BY DEF Note, Claims
<1> QED BY <1>1, ClaimEnds DEF Note

LEMMA ClaimFailsKeeps ==
  ASSUME IInv, NEW t \in Ticks, ClaimFails(t)
  PROVE  IInv'
BY ClaimEnds DEF ClaimFails

\* Nothing of the watcher survives a restart but what lies in the folders.
LEMMA RestartKeeps ==
  ASSUME IInv, Restart
  PROVE  IInv'
<1> USE DEF IInv, Restart
<1>1. Idle \in Work
  BY DEF Idle, Work, Info
<1>2. at' \in [Actors -> Places] /\ work' \in [Actors -> Work]
  BY <1>1 DEF Places
<1>3. \A t \in Ticks : at'[t] = "idle"
  BY DEF Actors
<1>4. DOMAIN seen' = {}
  OBVIOUS
<1>5. Typed'
  BY <1>2, <1>4 DEF Typed, Places
<1>6. Informed'
  BY <1>3 DEF Informed, Claims
<1>7. Exclusive'
  BY <1>3 DEF Exclusive, Claims
<1>8. Outdated'
  BY <1>3 DEF Outdated, Heard
<1>9. Kept'
  BY <1>3 DEF Kept
<1> QED BY <1>5, <1>6, <1>7, <1>8, <1>9

-----------------------------------------------------------------------------
LEMMA InitIInv == Init => IInv
<1> SUFFICES ASSUME Init PROVE IInv
  OBVIOUS
<1> USE DEF Init
<1>1. Idle \in Work
  BY DEF Idle, Work, Info
<1>2. file \in [Drops -> File] /\ \A d \in Drops : file[d].at = "none" /\ file[d].size = 0
  BY DEF File
<1>3. \A t \in Ticks : at[t] = "idle"
  BY DEF Actors
<1>4. DOMAIN seen = {} /\ DOMAIN workspaces = 1..0
  OBVIOUS
<1>5. Typed
  <2>1. \A d \in Drops : file[d].size <= Full[d]
    BY <1>2, DropAssumption
  <2>2. \E k \in Nat : DOMAIN workspaces = 1..k
    BY <1>4
  <2> QED BY <1>1, <1>2, <1>4, <2>1, <2>2 DEF Typed
<1>6. Informed
  BY <1>3 DEF Informed, Claims
<1>7. Exclusive
  BY <1>3 DEF Exclusive, Claims
<1>8. Outdated
  BY <1>3 DEF Outdated, Heard
<1>9. Kept
  BY <1>2, <1>3 DEF Kept
<1> QED BY <1>5, <1>6, <1>7, <1>8, <1>9 DEF IInv

LEMMA NextKeepsIInv == IInv /\ StatIsPrompt /\ [Next]_vars => IInv'
<1> SUFFICES ASSUME IInv, StatIsPrompt, [Next]_vars PROVE IInv'
  OBVIOUS
<1>1. ASSUME NEW d \in Drops, Drop(d) \/ Write(d) PROVE IInv'
  BY <1>1, DropKeeps, WriteKeeps
<1>2. ASSUME NEW t \in Ticks, Fire(t) PROVE IInv'
  BY <1>2, FireKeeps
<1>3. ASSUME NEW t \in Ticks, Tick(t) PROVE IInv'
  <2>1. CASE Listed(t) \/ StatFile(t) \/ Sighted(t)
    BY <2>1, ListedKeeps, StatFileKeeps, SightedKeeps
  <2>2. CASE FindWorkspace(t)
    BY <2>2, FindWorkspaceKeeps
  <2>3. CASE CreateWorkspace(t)
    BY <2>3, CreateWorkspaceKeeps DEF Actors
  <2>4. CASE Rename(t) \/ Copy(t) \/ Unlink(t) \/ Note(t)
    BY <2>4, RenameKeeps, CopyKeeps, UnlinkKeeps, NoteKeeps
  <2> QED BY <1>3, <2>1, <2>2, <2>3, <2>4 DEF Tick
<1>4. ASSUME NEW t \in Ticks, ClaimFails(t) PROVE IInv'
  BY <1>4, ClaimFailsKeeps
<1>5. ASSUME NEW c \in Clients, NEW w \in Workspaces, Ask(c, w) PROVE IInv'
  BY <1>5, AskKeeps
<1>6. ASSUME NEW c \in Clients, CreateWorkspace(c) PROVE IInv'
  BY <1>6, CreateWorkspaceKeeps DEF Actors
<1>7. CASE Restart
  BY <1>7, RestartKeeps
<1>8. CASE UNCHANGED vars
  <2>1. Typed' /\ Informed'
    BY <1>8 DEF vars, IInv, Typed, Informed
  <2>2. Exclusive'
    BY <1>8 DEF vars, IInv, Exclusive, Sights, Claiming
  <2>3. Outdated'
    BY <1>8 DEF vars, IInv, Outdated, Heard
  <2>4. Kept'
    BY <1>8 DEF vars, IInv, Kept
  <2> QED BY <2>1, <2>2, <2>3, <2>4 DEF IInv
<1> QED BY <1>1, <1>2, <1>3, <1>4, <1>5, <1>6, <1>7, <1>8 DEF Next

\* The invariant that what follows rests on, while no three ticks wait for a
\* stat() of the same file at once: at most one claim of a name is at work
\* (inbox-watcher.ts:72-78), at most one more tick still looks at the file, and
\* what has been heard of a file that left the folder is never claimed upon.
THEOREM InductiveInvariant == Spec /\ []StatIsPrompt => []IInv
<1>1. Init => IInv
  BY InitIInv
<1>2. IInv /\ StatIsPrompt /\ [Next]_vars => IInv'
  BY NextKeepsIInv
<1> QED BY <1>1, <1>2, PTL DEF Spec

\* No dropped file is deleted without a copy of it in a workspace, and a note is
\* written of a file that was moved, once, whatever fails, restarts or is dropped
\* under the same name meanwhile (inbox-watcher.ts:167-201), under that condition.
THEOREM NothingIsLost == Spec /\ []StatIsPrompt => []NothingLost
<1>1. IInv => NothingLost
  <2> SUFFICES ASSUME IInv PROVE NothingLost
    OBVIOUS
  <2> USE DEF IInv
  <2>1. \A d \in Drops :
          /\ file[d].at \in {"none", "inbox", "landed", "replaced", "lost"}
          /\ file[d].size \in 0..Full[d]
          /\ file[d].at = "landed" => file[d].workspace \in DOMAIN workspaces
    <3>1. \A d \in Drops : file[d] \in File /\ file[d].size <= Full[d] /\ Full[d] \in Nat
      BY DropAssumption DEF Typed
    <3> QED BY <3>1 DEF File, Kept
  <2>2. claiming = {work[t].name : t \in {u \in Ticks : at[u] \in Claims}}
    BY DEF Exclusive
  <2>3. claiming \subseteq Names
    BY <2>2 DEF Informed
  <2>4. TypeOK
    BY <2>1, <2>2, <2>3 DEF TypeOK, Typed
  <2>5. \A d \in Drops : /\ file[d].at # "lost"
                         /\ notes[d] <= 1
                         /\ notes[d] > 0 => file[d].at \in {"landed", "replaced"}
    BY DEF Kept
  <2> QED BY <2>4, <2>5 DEF NothingLost
<1> QED BY <1>1, InductiveInvariant, PTL

=============================================================================
