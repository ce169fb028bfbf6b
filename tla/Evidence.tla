------------------------------- MODULE Evidence -------------------------------
(***************************************************************************)
(* What the Gateway knows about its targets: the artifacts that tasks      *)
(* produced (src/src/artifacts), the graph of what was observed in them    *)
(* (src/src/graph), and the findings that cite both (src/src/findings).    *)
(*                                                                         *)
(* A finished task records its artifact, whose event starts an indexer     *)
(* that adds a batch of entities and edges; callers of the API upsert      *)
(* entities, add edges, and create and update findings.  Each of these     *)
(* reads records, awaits, and writes what it made of them.  A collection   *)
(* behaves as StoreSpec says: one map in memory, changed at once, a file   *)
(* that follows it, one write at a time, and first reads that take no lock *)
(* and may put back, late, what the file had when they opened it.  None of *)
(* the four is hydrated at boot (src/src/index.ts), so each may have them. *)
(*                                                                         *)
(* An artifact's id is told by the task that first recorded it; entities   *)
(* and edges have ids made of what they are.  Attributes, confidence and   *)
(* the words of a claim are left out.                                      *)
(***************************************************************************)
EXTENDS Verifier, FiniteSets

CONSTANTS
  Tasks,       \* completed tasks with one artifact to record
  Calls,       \* API calls
  Entities,    \* graph entities: (workspace, type, name)
  Findings,    \* finding ids
  Workspaces,
  Home,        \* the workspace of each task, entity and finding
  Output,      \* what a task produced: the kind and the path of its artifact
  Observes,    \* the entities an indexer finds in a task's artifact ...
  Contains,    \* ... and the edges between them
  Requests,    \* what each API call may ask for
  OnDisk,      \* what lies at the path of each output
  Locations,   \* places evidence may point at
  MaxFallen    \* bound: late reads make no more of the collections fall back

Status == {"unverified", "confirmed"}   \* "contradicted" is treated as the first
Citation == [artifact: Tasks, entity: Entities \cup {None}, location: Locations \cup {None}]

Request ==
  [op: {"entity"}, workspace: Workspaces, entity: Entities, cites: SUBSET Tasks]
  \cup [op: {"edge"}, workspace: Workspaces, from: Entities, to: Entities]
  \cup [op: {"create"}, finding: Findings, status: Status, evidence: SUBSET Citation]
  \cup [op: {"update"}, finding: Findings, status: Status \cup {None},
        evidence: (SUBSET Citation) \cup {None}]

ASSUME HomeAssumption == Home \in [Tasks \cup Entities \cup Findings -> Workspaces]
ASSUME BatchAssumption == \A t \in Tasks :
  /\ Observes[t] \in (SUBSET Entities) \ {{}}
  /\ \A e \in Observes[t] : Home[e] = Home[t]
  /\ Contains[t] \subseteq Observes[t] \X Observes[t] /\ \A edge \in Contains[t] : edge[1] # edge[2]
ASSUME RequestAssumption == \A c \in Calls : \A r \in Requests[c] :
  /\ r \in Request
  /\ r.op = "entity" => Home[r.entity] = r.workspace   \* the id is made from it
  /\ r.op = "create" => r.evidence # None
ASSUME NoneAssumption ==
  None \notin Entities \cup Tasks \cup Status \cup Verdicts /\ \A seen \in SUBSET Tasks : seen # None
ASSUME ProcsAssumption == Tasks \cap Calls = {}
ASSUME LocationsAssumption == Locations \subseteq Location
ASSUME OnDiskAssumption == \A t \in Tasks : \A location \in Locations :
  {OnDisk[Output[t]].root[location.file], OnDisk[Output[t]].sources[location.file]} \subseteq Entry

Procs == Tasks \cup Calls
Collections == {"artifacts", "entities", "edges", "findings"}

VARIABLES
  at,     \* how far each task's listeners, and each call, have got
  work,   \* the local variables of each
  mem,    \* the collections as the process has them in memory
  disk,   \* the collections' files
  due,    \* what each file will be when the write under way, if any, ends
  past,   \* history: what each file has been since the process booted
  lost    \* history: the collections of which memory has fallen back to a file

vars == <<at, work, mem, disk, due, past, lost>>
stored == <<mem, disk, due, past, lost>>

-----------------------------------------------------------------------------
\* An entity that exists is the set of artifacts it was observed in.
Seen(entity) == IF entity = None THEN {} ELSE entity

Empty == [artifacts |-> {}, entities |-> [e \in Entities |-> None], edges |-> {},
          findings |-> [f \in Findings |-> None]]

\* cites, wants: the artifacts to look up, and the entities to read; seen: what
\* was read of them; links: the edges of a batch that were not found; base: the
\* finding an update has read.
Idle == [request |-> None, artifact |-> None, cites |-> {}, wants |-> {}, todo |-> {},
         seen |-> [e \in Entities |-> None], links |-> {}, base |-> None, finding |-> None]

Op(p) == IF p \in Tasks THEN "index" ELSE work[p].request.op

Site(p) ==
  IF p \in Tasks THEN Home[p]
  ELSE IF Op(p) \in {"create", "update"} THEN Home[work[p].request.finding]
  ELSE work[p].request.workspace

Goto(p, where) == at' = [at EXCEPT ![p] = where]

\* Local variables that nothing reads any more are forgotten.
Forget(p) == work' = [work EXCEPT ![p] = Idle]

\* The operation returns or throws.
End(p) == Goto(p, "ended") /\ Forget(p)

\* upsertRecord(s): memory changes when the collection's lock is free, and the
\* operation then waits, holding it, for the file.  (In a cold collection it has
\* read the file first, which no write has changed since boot.)
Put(p, c, content) ==
  /\ \A q \in Procs : at[q] # c
  /\ mem' = [mem EXCEPT ![c] = content]
  /\ due' = [due EXCEPT ![c] = content]
  /\ Goto(p, c)
  /\ UNCHANGED <<disk, past, lost>>

Read(p, cites, wants) ==
  /\ work' = [work EXCEPT ![p].cites = cites, ![p].wants = wants, ![p].todo = wants]
  /\ Goto(p, "citing")

-----------------------------------------------------------------------------
\* onTaskCompleted() of the recorder, up to recordArtifact()'s findRecord(): an
\* artifact of the same workspace, kind and path is taken over.
SameOutput(t) ==
  {a \in mem.artifacts : Home[a] = Home[t] /\ Output[a] = Output[t]}

FindArtifact(t) ==
  /\ at[t] = "idle"
  /\ \E a \in (IF SameOutput(t) = {} THEN {t} ELSE SameOutput(t)) :
       work' = [work EXCEPT ![t].artifact = a]
  /\ Goto(t, "recording")
  /\ UNCHANGED stored

RecordArtifact(t) ==
  /\ at[t] = "recording"
  /\ Put(t, "artifacts", mem.artifacts \cup {work[t].artifact})
  /\ UNCHANGED work

\* artifact.created or artifact.updated: an indexer has listed the files and
\* calls indexBatch().
StartIndexing(t) ==
  /\ at[t] = "listing"
  /\ Read(t, {work[t].artifact}, Observes[t])
  /\ UNCHANGED stored

\* upsertEntity() and addEdge() are called.
CallGraph(c) ==
  /\ at[c] = "idle"
  /\ \E r \in Requests[c] :
       \/ /\ r.op = "entity"
          /\ work' = [work EXCEPT ![c] = [Idle EXCEPT !.request = r, !.cites = r.cites,
                                                      !.wants = {r.entity}, !.todo = {r.entity}]]
       \/ /\ r.op = "edge" /\ r.from # r.to
          /\ work' = [work EXCEPT ![c] = [Idle EXCEPT !.request = r, !.wants = {r.from, r.to},
                                                      !.todo = {r.from, r.to}]]
  /\ Goto(c, "citing")
  /\ UNCHANGED stored

\* checkConfirmed().
MayBeSaved(finding) == finding.status = "confirmed" => finding.evidence # {}

\* Start to save a finding, having read `base`, if checkConfirmed() lets it;
\* `evidence` is what checkEvidence() has to look up.
Consider(c, r, base, finding, evidence) ==
  LET cited == {x.entity : x \in {y \in evidence : y.entity # None}} IN
  /\ MayBeSaved(finding)
  /\ work' = [work EXCEPT ![c] = [Idle EXCEPT !.request = r, !.base = base, !.finding = finding,
                                              !.cites = {x.artifact : x \in evidence},
                                              !.wants = cited, !.todo = cited]]
  /\ Goto(c, "citing")

\* createFinding() is called.
CallCreate(c) ==
  /\ at[c] = "idle"
  /\ \E r \in Requests[c] :
       /\ r.op = "create"
       /\ Consider(c, r, None, [status |-> r.status, evidence |-> r.evidence], r.evidence)
  /\ UNCHANGED stored

Or(x, otherwise) == IF x = None THEN otherwise ELSE x

\* updateFinding() is called, and has read the finding.
CallUpdate(c) ==
  /\ at[c] = "idle"
  /\ \E r \in Requests[c] :
       /\ r.op = "update"
       /\ LET base == mem.findings[r.finding] IN
          /\ base # None
          /\ Consider(c, r, base,
                      [status |-> Or(r.status, base.status), evidence |-> Or(r.evidence, base.evidence)],
                      Or(r.evidence, {}))
  /\ UNCHANGED stored

-----------------------------------------------------------------------------
\* missingArtifactIds(): all that is cited exists, in this workspace.
CheckArtifacts(p) ==
  /\ at[p] = "citing"
  /\ \A a \in work[p].cites : a \in mem.artifacts /\ Home[a] = Site(p)
  /\ Goto(p, "reading")
  /\ UNCHANGED <<work, stored>>

\* One getRecord() or getEntity() of those to read.
ReadEntity(p) ==
  /\ at[p] = "reading"
  /\ \E e \in work[p].todo :
       work' = [work EXCEPT ![p].todo = @ \ {e}, ![p].seen[e] = mem.entities[e]]
  /\ UNCHANGED <<at, stored>>

HasRead(p) == at[p] = "reading" /\ work[p].todo = {}

\* Mutant of Merge: what was observed before is replaced.
MergeOverwrites(known, seen) == seen

\* The artifacts an entity was observed in, with those of this call or batch.
Merge(known, seen) == Seen(known) \cup seen

\* The write of upsertEntity(), or the first of indexBatch(), which has looked
\* its edges up before.
WriteEntities(p) ==
  /\ HasRead(p) /\ Op(p) \in {"index", "entity"}
  /\ Put(p, "entities", [e \in Entities |-> IF e \in work[p].wants
                                            THEN Merge(work[p].seen[e], work[p].cites)
                                            ELSE mem.entities[e]])
  /\ work' = [work EXCEPT ![p] = [Idle EXCEPT !.links = (IF p \in Tasks THEN Contains[p] ELSE {}) \ mem.edges]]

\* Mutant of EndsExist: an end that is missing is not noticed.
EndsExistUnchecked(p) == \A e \in work[p].wants : Home[e] = Site(p)

\* addEdge() requires both of its ends, in this workspace.
EndsExist(p) == \A e \in work[p].wants : work[p].seen[e] # None /\ Home[e] = Site(p)

Ends(p) == <<work[p].request.from, work[p].request.to>>

\* The write of addEdge(), or the second of indexBatch(): what was not there.
Links(p) == IF p \in Tasks THEN work[p].links ELSE {Ends(p)} \ mem.edges

WriteEdges(p) ==
  /\ \/ at[p] = "linking"
     \/ HasRead(p) /\ Op(p) = "edge" /\ EndsExist(p)
  /\ \/ Links(p) = {} /\ Goto(p, "ended") /\ UNCHANGED stored
     \/ Links(p) # {} /\ Put(p, "edges", mem.edges \cup Links(p))
  /\ Forget(p)

\* checkEvidence(): each entity is of this workspace and was observed in the
\* artifact it is cited with.  An update without evidence has none to check.
EvidenceHolds(p) ==
  \A x \in Or(work[p].request.evidence, {}) : x.entity # None =>
    /\ work[p].seen[x.entity] # None /\ Home[x.entity] = Site(p)
    /\ x.artifact \in work[p].seen[x.entity]

\* The write of createFinding() or updateFinding(): the whole record.
WriteFinding(p) ==
  /\ HasRead(p) /\ Op(p) \in {"create", "update"} /\ EvidenceHolds(p)
  /\ Put(p, "findings", [mem.findings EXCEPT ![work[p].request.finding] = work[p].finding])
  /\ Forget(p)

\* A GraphError or an EvidenceError, or a read that throws: nothing is written.
Refuse(p) ==
  /\ at[p] \in {"citing", "reading", "linking"}
  /\ End(p)
  /\ UNCHANGED stored

-----------------------------------------------------------------------------
\* What an operation does when its write of a collection has returned.
After(p, c) ==
  IF c = "artifacts" THEN "listing" ELSE IF c = "entities" /\ p \in Tasks THEN "linking" ELSE "ended"

\* The file is what was to be written, and memory too ...
Saved(p) ==
  /\ at[p] \in Collections
  /\ disk' = [disk EXCEPT ![at[p]] = due[at[p]]]
  /\ mem' = [mem EXCEPT ![at[p]] = due[at[p]]]
  /\ past' = [past EXCEPT ![at[p]] = @ \cup {due[at[p]]}]
  /\ Goto(p, After(p, at[p]))
  /\ UNCHANGED <<work, due, lost>>

\* ... or the write throws, with memory already changed.
NotSaved(p) ==
  /\ at[p] \in Collections
  /\ due' = [due EXCEPT ![at[p]] = disk[at[p]]]
  /\ End(p)
  /\ UNCHANGED <<mem, disk, past, lost>>

\* A first read, by any reader at all, that found the collection cold and opened
\* its file at some time since, comes back: what it found goes into the cache.
LateRead(c) ==
  /\ \E x \in past[c] \ {mem[c]} : mem' = [mem EXCEPT ![c] = x]
  /\ lost' = lost \cup {c}
  /\ Cardinality(lost') <= MaxFallen
  /\ UNCHANGED <<at, work, disk, due, past>>

\* The process dies and boots: what it has is what the files have.  (A collection
\* stays cold until its first read or write, but its file is the same till then.)
Restart ==
  /\ mem' = disk
  /\ due' = disk
  /\ past' = [c \in Collections |-> {disk[c]}]
  /\ lost' = lost \cup {c \in Collections : mem[c] # disk[c]}
  /\ at' = [p \in Procs |-> IF at[p] = "idle" THEN "idle" ELSE "ended"]
  /\ work' = [p \in Procs |-> Idle]
  /\ UNCHANGED disk

-----------------------------------------------------------------------------
Init ==
  /\ at = [p \in Procs |-> "idle"]
  /\ work = [p \in Procs |-> Idle]
  /\ mem = Empty
  /\ disk = Empty
  /\ due = Empty
  /\ past = [c \in Collections |-> {Empty[c]}]
  /\ lost = {}

Step(p) ==
  \/ CheckArtifacts(p) \/ ReadEntity(p) \/ WriteEntities(p) \/ WriteEdges(p)
  \/ WriteFinding(p) \/ Refuse(p) \/ Saved(p) \/ NotSaved(p)

Next ==
  \/ \E t \in Tasks : FindArtifact(t) \/ RecordArtifact(t) \/ StartIndexing(t)
  \/ \E c \in Calls : CallGraph(c) \/ CallCreate(c) \/ CallUpdate(c)
  \/ \E p \in Procs : Step(p)
  \/ \E c \in Collections : LateRead(c)
  \/ Restart

Spec == Init /\ [][Next]_vars
-----------------------------------------------------------------------------
(* GET /findings/:findingId/verification changes nothing: a report is a function *)
(* of what is stored.  (One that overlaps a write may mix before and after.)     *)

CheckItem(f, x) ==
  IF x.artifact \notin mem.artifacts \/ Home[x.artifact] # Home[f] THEN "failed"
  ELSE CombineChecks(
         IF x.location = None THEN "unverified" ELSE CheckLocation(OnDisk[Output[x.artifact]], x.location),
         IF x.entity = None THEN None
         ELSE IF Home[x.entity] # Home[f] THEN "failed"
         ELSE CheckEntity(mem.entities[x.entity], x.artifact))

VerifyFinding(f) == Summarize({CheckItem(f, x) : x \in mem.findings[f].evidence})

-----------------------------------------------------------------------------
Finding == [status: Status, evidence: SUBSET Citation]

Content == [artifacts: SUBSET Tasks, entities: [Entities -> (SUBSET Tasks) \cup {None}],
            edges: SUBSET (Entities \X Entities), findings: [Findings -> Finding \cup {None}]]

TypeOK ==
  /\ at \in [Procs -> {"idle", "recording", "listing", "citing", "reading", "linking", "ended"}
                      \cup Collections]
  /\ mem \in Content /\ disk \in Content /\ due \in Content /\ lost \subseteq Collections
  /\ \A c \in Collections : disk[c] \in past[c] /\ \A x \in past[c] : [mem EXCEPT ![c] = x] \in Content
  /\ \A p \in Procs : /\ work[p].artifact \in Tasks \cup {None}
                      /\ work[p].cites \subseteq Tasks
                      /\ work[p].todo \subseteq work[p].wants /\ work[p].wants \subseteq Entities
                      /\ work[p].seen \in [Entities -> (SUBSET Tasks) \cup {None}]
                      /\ {work[p].base, work[p].finding} \subseteq Finding \cup {None}

\* All that a collection may yet be: in memory, after the write under way, and
\* after a late read or a restart.
Held(c) == {mem[c], disk[c], due[c]} \cup past[c]

\* However updates overlap and whatever a restart or a late read brings back, a
\* confirmed finding has evidence: each writes a whole record that passed the rule,
\* so no two can add up to one that would not (checkConfirmed, updateFinding).
ConfirmedHasEvidence ==
  \A findings \in Held("findings") : \A f \in Findings :
    findings[f] # None /\ findings[f].status = "confirmed" => findings[f].evidence # {}

\* What refers to something else refers to a thing that is there, in the same
\* workspace - until the collection of that thing has fallen back to a file.
ObservationsReal ==
  \A e \in Entities : \A a \in Seen(mem.entities[e]) : a \in mem.artifacts /\ Home[a] = Home[e]

ArtifactsReal ==
  \A f \in Findings : mem.findings[f] # None => \A x \in mem.findings[f].evidence :
    x.artifact \in mem.artifacts /\ Home[x.artifact] = Home[f]

EdgesConnect ==
  \A x \in mem.edges : /\ x[1] # x[2] /\ Home[x[1]] = Home[x[2]]
                       /\ mem.entities[x[1]] # None /\ mem.entities[x[2]] # None

EntitiesReal ==
  \A f \in Findings : mem.findings[f] # None => \A x \in mem.findings[f].evidence :
    x.entity # None => mem.entities[x.entity] # None /\ Home[x.entity] = Home[f]

\* Entities cite real artifacts, edges connect real entities and findings cite
\* both, across four collections that are written one by one ("Both ends must be
\* entities of this workspace", graph.service.ts; "a finding can only cite
\* artifacts that really exist", findings/types.ts), and a confirmed finding has
\* evidence.  What memory has lost to a restart or a late first read may be
\* missed; that other collections have fallen back breaks nothing.
ReferencesHold ==
  /\ TypeOK
  /\ ConfirmedHasEvidence
  /\ "artifacts" \notin lost => ObservationsReal /\ ArtifactsReal
  /\ "entities" \notin lost => EdgesConnect /\ EntitiesReal

\* In this step no write of the collection begins, and memory becomes what its
\* file is or has been since boot.
FallsBack(c) == mem'[c] \in past'[c] /\ \A p \in Procs : at'[p] = c => at[p] = c

\* An observation, or a field of a finding that an update did not ask to change,
\* is only ever lost when memory falls back to what the file was, or to a writer
\* that had read the record when it was another: calls that do not overlap lose
\* nothing to each other (upsertEntity, indexBatch, updateFinding).
LostToStaleReads ==
  [][/\ \A e \in Entities : ~(Seen(mem.entities[e]) \subseteq Seen(mem'.entities[e])) =>
          \/ FallsBack("entities")
          \/ \E p \in Procs : /\ at[p] = "reading" /\ at'[p] = "entities" /\ e \in work[p].wants
                              /\ work[p].seen[e] # mem.entities[e]
     /\ \A f \in Findings : mem.findings[f] \notin {None, mem'.findings[f]} =>
          \/ FallsBack("findings")
          \/ \E p \in Procs : /\ at[p] = "reading" /\ at'[p] = "findings" /\ work[p].request.finding = f
                              /\ \/ work[p].base # mem.findings[f]
                                 \/ /\ work[p].request.status = None =>
                                         mem'.findings[f].status = mem.findings[f].status
                                    /\ work[p].request.evidence = None =>
                                         mem'.findings[f].evidence = mem.findings[f].evidence]_vars

\* Evidence that holds, and evidence that does not, looked at from the place cited
\* and not from the order of the checks.
Recorded(f, x) == x.artifact \in mem.artifacts /\ Home[x.artifact] = Home[f]

Observed(x) == x.entity # None => x.artifact \in Seen(mem.entities[x.entity])

HasLines(entry, lines) ==
  /\ entry.kind = "file"
  /\ \A k \in DOMAIN lines : 1 <= lines[1] /\ lines[1] <= lines[k]
  /\ \A k \in DOMAIN lines : entry.large \/ lines[k] <= entry.lines

\* Nothing in sources/ stands in for a file of the directory, or a link out of it.
Shows(place, location) ==
  /\ ~location.absolute
  /\ \/ HasLines(place.root[location.file], location.lines)
     \/ /\ place.root[location.file].kind \notin {"file", "outside"}
        /\ HasLines(place.sources[location.file], location.lines)

\* A report says "verified" only of evidence each piece of which names a place that is
\* there, in an artifact that is recorded and shows the entity; it says "failed" when,
\* and only when, a piece cites what is gone or never was - whatever overlapping
\* writes, late reads and restarts have made of the records since the finding was saved ("a good
\* entity doesn't make up for a place nobody looked at", verifier.ts).
ReportsTell ==
  \A f \in Findings : mem.findings[f] # None =>
    LET evidence == mem.findings[f].evidence
        report == VerifyFinding(f)
        There(x) == OnDisk[Output[x.artifact]]
    IN /\ report = "verified" => evidence # {} /\ \A x \in evidence :
            Recorded(f, x) /\ Observed(x) /\ x.location # None /\ Shows(There(x), x.location)
       /\ report = "failed" <=> \E x \in evidence :
            \/ ~Recorded(f, x) \/ ~Observed(x)
            \/ /\ x.location # None /\ ~Shows(There(x), x.location)
               /\ There(x).pathType = "directory" /\ There(x).present
=============================================================================
