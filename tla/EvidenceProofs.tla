----------------------------- MODULE EvidenceProofs -----------------------------
(***************************************************************************)
(* Proofs about the records of artifacts, entities, edges and findings,    *)
(* for any tasks, calls and workspaces, and any overlap of their reads and *)
(* writes.  What a process has read and checked may be stale when it       *)
(* writes, but what it relies on is not undone until its collection falls  *)
(* back to a file: artifacts and entities are never taken away (Grows), so *)
(* what was there when it looked is there when it writes (Informed).  The  *)
(* same holds of whatever a collection may fall back to: all that a file   *)
(* has been or will be refers only to what is there (Sound).               *)
(***************************************************************************)
EXTENDS Evidence, SequenceTheorems, TLAPS

Assumptions ==
  /\ HomeAssumption /\ BatchAssumption /\ RequestAssumption /\ NoneAssumption /\ ProcsAssumption

-----------------------------------------------------------------------------
(* The invariant. *)

Stages == {"idle", "recording", "listing", "citing", "reading", "linking", "ended"} \cup Collections

Work == [request: Request \cup {None}, artifact: Tasks \cup {None}, cites: SUBSET Tasks,
         wants: SUBSET Entities, todo: SUBSET Entities, seen: [Entities -> (SUBSET Tasks) \cup {None}],
         links: SUBSET (Entities \X Entities), base: Finding \cup {None}, finding: Finding \cup {None}]

Typed ==
  /\ at \in [Procs -> Stages] /\ work \in [Procs -> Work]
  /\ mem \in Content /\ disk \in Content /\ due \in Content
  /\ past = [c \in Collections |-> past[c]] /\ lost \in SUBSET Collections
  /\ \A p \in Procs : work[p].todo \subseteq work[p].wants

\* What an update makes of the finding it has read, and a create of none.
Considered(request, base, finding) ==
  /\ MayBeSaved(finding) /\ finding \in Finding
  /\ request.op = "create" =>
       base = None /\ finding = [status |-> request.status, evidence |-> request.evidence]
  /\ request.op = "update" =>
       /\ base \in Finding
       /\ finding = [status |-> Or(request.status, base.status), evidence |-> Or(request.evidence, base.evidence)]

\* What each process is at, and with what.
Placed(p) ==
  /\ at[p] \in {"recording", "artifacts", "listing", "linking"} => p \in Tasks
  /\ at[p] \in {"recording", "artifacts", "listing"} => work[p].artifact \in Tasks
  /\ p \in Tasks /\ at[p] \in {"citing", "reading"} => work[p].wants = Observes[p]
  /\ p \in Tasks /\ at[p] \in {"entities", "linking"} => work[p].links \subseteq Contains[p]
  /\ p \in Calls /\ at[p] \in {"citing", "reading"} =>
       LET r == work[p].request IN
       /\ r \in Requests[p]
       /\ r.op = "entity" => work[p].wants = {r.entity}
       /\ r.op = "edge" => work[p].wants = {r.from, r.to} /\ r.from # r.to
       /\ r.op \in {"create", "update"} =>
            LET evidence == Or(r.evidence, {}) IN
            /\ Considered(r, work[p].base, work[p].finding)
            /\ work[p].cites = {x.artifact : x \in evidence}

\* One write of a collection at a time, which has not lost what it is writing
\* unless its collection has fallen back.
Coherent ==
  /\ \A c \in Collections : disk[c] \in past[c]
  /\ \A p, q \in Procs : at[p] \in Collections /\ at[q] = at[p] => p = q
  /\ \A p \in Procs : at[p] \in Collections \ lost => mem[at[p]] = due[at[p]]

\* What is cited is among the artifacts A, or the entities E.
ArtifactIn(A, a, where) == a \in A /\ Home[a] = where

CitesArtifacts(evidence, A, where) == \A x \in evidence : ArtifactIn(A, x.artifact, where)

CitesEntities(evidence, E, where) ==
  \A x \in evidence : x.entity # None => E[x.entity] # None /\ Home[x.entity] = where

OnArtifacts(c, content, A) ==
  /\ c = "entities" => \A e \in Entities : \A a \in Seen(content[e]) : ArtifactIn(A, a, Home[e])
  /\ c = "findings" => \A f \in Findings :
       content[f] # None => CitesArtifacts(content[f].evidence, A, Home[f])

OnEntities(c, content, E) ==
  /\ c = "edges" => \A x \in content : /\ x[1] # x[2] /\ Home[x[1]] = Home[x[2]]
                                       /\ E[x[1]] # None /\ E[x[2]] # None
  /\ c = "findings" => \A f \in Findings :
       content[f] # None => CitesEntities(content[f].evidence, E, Home[f])

\* What is right of a collection whatever the others are.
Alone(c, content) ==
  /\ c = "artifacts" => content \in SUBSET Tasks
  /\ c = "entities" => /\ content \in [Entities -> (SUBSET Tasks) \cup {None}]
                       /\ \A e \in Entities : \A a \in Seen(content[e]) : Home[a] = Home[e]
  /\ c = "edges" => content \in SUBSET (Entities \X Entities)
  /\ c = "findings" => /\ content \in [Findings -> Finding \cup {None}]
                       /\ \A f \in Findings : content[f] # None => MayBeSaved(content[f])

\* A content of c, beside the artifacts and entities of m, with those in l lost.
Sound(c, content, m, l) ==
  /\ Alone(c, content)
  /\ "artifacts" \notin l => OnArtifacts(c, content, m.artifacts)
  /\ "entities" \notin l => OnEntities(c, content, m.entities)

\* What a process has read and checked.
Updating(p) == p \in Calls /\ at[p] \in {"citing", "reading"} /\ work[p].request.op = "update"

Informed(p) ==
  /\ at[p] = "reading" => \A a \in work[p].cites : Home[a] = Site(p)
  /\ \A e \in Entities : \A a \in Seen(work[p].seen[e]) : Home[a] = Home[e]
  /\ "artifacts" \notin lost =>
       /\ at[p] = "reading" => work[p].cites \subseteq mem.artifacts
       /\ \A e \in Entities : Seen(work[p].seen[e]) \subseteq mem.artifacts
       /\ Updating(p) => CitesArtifacts(work[p].base.evidence, mem.artifacts, Home[work[p].request.finding])
  /\ "entities" \notin lost =>
       /\ \A e \in Entities : work[p].seen[e] # None => mem.entities[e] # None
       /\ p \in Tasks /\ at[p] \in {"entities", "linking"} => \A e \in Observes[p] : mem.entities[e] # None
       /\ Updating(p) => CitesEntities(work[p].base.evidence, mem.entities, Home[work[p].request.finding])

IInv ==
  /\ Typed /\ Coherent
  /\ \A c \in Collections : \A x \in Held(c) : Sound(c, x, mem, lost)
  /\ \A p \in Procs : Placed(p) /\ Informed(p)

\* The body of LostToStaleReads.
LossesStale ==
  /\ \A e \in Entities : ~(Seen(mem.entities[e]) \subseteq Seen(mem'.entities[e])) =>
       \/ FallsBack("entities")
       \/ \E p \in Procs : /\ at[p] = "reading" /\ at'[p] = "entities" /\ e \in work[p].wants
                           /\ work[p].seen[e] # mem.entities[e]
  /\ \A f \in Findings : mem.findings[f] \notin {None, mem'.findings[f]} =>
       \/ FallsBack("findings")
       \/ \E p \in Procs : /\ at[p] = "reading" /\ at'[p] = "findings" /\ work[p].request.finding = f
                           /\ \/ work[p].base # mem.findings[f]
                              \/ /\ work[p].request.status = None =>
                                      mem'.findings[f].status = mem.findings[f].status
                                 /\ work[p].request.evidence = None =>
                                      mem'.findings[f].evidence = mem.findings[f].evidence

-----------------------------------------------------------------------------
(* The four collections, and what they may become. *)

\* One collection of the four is replaced.
With(m, c, content) == [m EXCEPT ![c] = content]

LEMMA Replaced ==
  ASSUME NEW m \in Content, NEW c \in Collections, NEW content, Alone(c, content),
         NEW n, n = With(m, c, content)
  PROVE  n \in Content /\ n[c] = content /\ \A d \in Collections : d # c => n[d] = m[d]
  <1>1. CASE c = "artifacts"
    BY <1>1 DEF Content, Collections, Alone, With
  <1>2. CASE c = "entities"
    BY <1>2 DEF Content, Collections, Alone, With
  <1>3. CASE c = "edges"
    BY <1>3 DEF Content, Collections, Alone, With
  <1>4. CASE c = "findings"
    BY <1>4 DEF Content, Collections, Alone, With
  <1> QED BY <1>1, <1>2, <1>3, <1>4 DEF Collections

\* From m to n, what is not lost of artifacts and entities is kept.
Grows(m, n, l) ==
  /\ "artifacts" \notin l => m.artifacts \subseteq n.artifacts
  /\ "entities" \notin l => \A e \in Entities : m.entities[e] # None => n.entities[e] # None

\* What is cited stays there.
LEMMA CitesStay ==
  ASSUME NEW evidence \in SUBSET Citation, NEW where, NEW A, NEW B, NEW E, NEW F
  PROVE  /\ A \subseteq B /\ CitesArtifacts(evidence, A, where) => CitesArtifacts(evidence, B, where)
         /\ (\A e \in Entities : E[e] # None => F[e] # None) /\ CitesEntities(evidence, E, where)
              => CitesEntities(evidence, F, where)
  <1>1. \A x \in evidence : x.entity \in Entities \cup {None}
    BY DEF Citation
  <1> QED BY <1>1 DEF CitesArtifacts, CitesEntities, ArtifactIn

LEMMA SoundStays ==
  ASSUME NEW c \in Collections, NEW content, NEW m, NEW n, NEW k, NEW l, k \subseteq l,
         Grows(m, n, l), Sound(c, content, m, k)
  PROVE  Sound(c, content, n, l)
  <1>0. Alone(c, content)
    BY DEF Sound
  <1>1. ASSUME c = "findings", NEW f \in Findings, content[f] # None
        PROVE  content[f].evidence \in SUBSET Citation
    BY <1>0, <1>1 DEF Alone, Finding
  <1>2. ASSUME c = "edges", NEW x \in content PROVE x[1] \in Entities /\ x[2] \in Entities
    BY <1>0, <1>2 DEF Alone
  <1>3. ASSUME "artifacts" \notin l PROVE OnArtifacts(c, content, n.artifacts)
    <2>1. OnArtifacts(c, content, m.artifacts) /\ m.artifacts \subseteq n.artifacts
      BY <1>3 DEF Sound, Grows
    <2>2. c = "findings" => \A f \in Findings :
            content[f] # None => CitesArtifacts(content[f].evidence, n.artifacts, Home[f])
      BY <1>1, <2>1, CitesStay DEF OnArtifacts
    <2> QED BY <2>1, <2>2 DEF OnArtifacts, ArtifactIn
  <1>4. ASSUME "entities" \notin l PROVE OnEntities(c, content, n.entities)
    <2>1. /\ OnEntities(c, content, m.entities)
          /\ \A e \in Entities : m.entities[e] # None => n.entities[e] # None
      BY <1>4 DEF Sound, Grows
    <2>2. c = "findings" => \A f \in Findings :
            content[f] # None => CitesEntities(content[f].evidence, n.entities, Home[f])
      BY <1>1, <2>1, CitesStay DEF OnEntities
    <2> QED BY <1>2, <2>1, <2>2 DEF OnEntities
  <1> QED BY <1>0, <1>3, <1>4 DEF Sound

\* What a process that does nothing has read and checked stays so.
LEMMA InformedStays ==
  ASSUME NEW p \in Procs, IInv, at'[p] = at[p], work'[p] = work[p],
         lost \subseteq lost', Grows(mem, mem', lost')
  PROVE  Placed(p)' /\ Informed(p)'
  <1>0. Typed /\ Placed(p) /\ Informed(p)
    BY DEF IInv
  <1>1. Site(p)' = Site(p)
    BY DEF Site, Op
  <1>2. Placed(p)'
    BY <1>0 DEF Placed
  <1>3. Updating(p) => work[p].base.evidence \in SUBSET Citation
    BY <1>0 DEF Updating, Placed, Considered, Finding
  <1>4. ASSUME "artifacts" \notin lost'
        PROVE  /\ at[p] = "reading" => work[p].cites \subseteq mem'.artifacts
               /\ \A e \in Entities : Seen(work[p].seen[e]) \subseteq mem'.artifacts
               /\ Updating(p) => CitesArtifacts(work[p].base.evidence, mem'.artifacts, Home[work[p].request.finding])
    <2>1. mem.artifacts \subseteq mem'.artifacts /\ "artifacts" \notin lost
      BY <1>4 DEF Grows
    <2> QED BY <1>0, <1>3, <2>1, CitesStay DEF Informed
  <1>5. ASSUME "entities" \notin lost'
        PROVE  /\ \A e \in Entities : work[p].seen[e] # None => mem'.entities[e] # None
               /\ p \in Tasks /\ at[p] \in {"entities", "linking"} =>
                    \A e \in Observes[p] : mem'.entities[e] # None
               /\ Updating(p) => CitesEntities(work[p].base.evidence, mem'.entities, Home[work[p].request.finding])
    <2>1. (\A e \in Entities : mem.entities[e] # None => mem'.entities[e] # None) /\ "entities" \notin lost
      BY <1>5 DEF Grows
    <2>2. p \in Tasks => Observes[p] \subseteq Entities
      BY BatchAssumption
    <2> QED BY <1>0, <1>3, <2>1, <2>2, CitesStay DEF Informed
  <1>6. Updating(p)' = Updating(p)
    BY DEF Updating
  <1> QED BY <1>0, <1>1, <1>2, <1>4, <1>5, <1>6 DEF Informed

\* Any step.
LEMMA Frame ==
  ASSUME IInv, Typed', Coherent', lost \subseteq lost', Grows(mem, mem', lost'),
         \A c \in Collections : \A x \in Held(c)' : x \in Held(c) \/ Sound(c, x, mem', lost'),
         \A q \in Procs : (at'[q] = at[q] /\ work'[q] = work[q]) \/ (Placed(q)' /\ Informed(q)')
  PROVE  IInv'
  <1>1. ASSUME NEW c \in Collections, NEW x \in Held(c)' PROVE Sound(c, x, mem', lost')
    <2>1. CASE x \in Held(c)
      <3>1. Sound(c, x, mem, lost)
        BY <2>1 DEF IInv
      <3> QED BY <3>1, SoundStays
    <2> QED BY <1>1, <2>1
  <1>2. ASSUME NEW q \in Procs PROVE Placed(q)' /\ Informed(q)'
    BY InformedStays
  <1> QED BY <1>1, <1>2 DEF IInv

\* A step of p that changes no collection and does not start to write one.
LEMMA LocalStep ==
  ASSUME NEW p \in Procs, IInv, UNCHANGED stored, at' \in [Procs -> Stages], at'[p] \notin Collections,
         work' \in [Procs -> Work], \A q \in Procs : q # p => at'[q] = at[q] /\ work'[q] = work[q],
         work'[p].todo \subseteq work'[p].wants, Placed(p)', Informed(p)'
  PROVE  IInv' /\ LossesStale
  <1>0. UNCHANGED <<mem, disk, due, past, lost>>
    BY DEF stored
  <1>1. Typed'
    BY <1>0 DEF IInv, Typed
  <1>2. Coherent'
    BY <1>0 DEF IInv, Coherent
  <1>3. lost \subseteq lost' /\ Grows(mem, mem', lost')
    BY <1>0 DEF Grows
  <1>4. \A c \in Collections : Held(c)' = Held(c)
    BY <1>0 DEF Held
  <1>5. IInv'
    BY <1>1, <1>2, <1>3, <1>4, Frame
  <1>6. LossesStale
    BY <1>0 DEF LossesStale
  <1> QED BY <1>5, <1>6

\* Going somewhere, and what it remembers.
LEMMA GoesTo ==
  ASSUME Typed, NEW p \in Procs, NEW where \in Stages, Goto(p, where)
  PROVE  /\ at' \in [Procs -> Stages] /\ at'[p] = where
         /\ \A q \in Procs : q # p => at'[q] = at[q]
  BY DEF Typed, Goto

LEMMA Remembers ==
  ASSUME Typed, NEW p \in Procs, NEW new \in Work, work' = [work EXCEPT ![p] = new]
  PROVE  work' \in [Procs -> Work] /\ work'[p] = new /\ \A q \in Procs : q # p => work'[q] = work[q]
  BY DEF Typed

LEMMA IdleWork ==
  /\ Idle \in Work /\ Idle.links = {} /\ Idle.todo = Idle.wants
  /\ \A e \in Entities : Idle.seen[e] = None
  BY DEF Idle, Work

-----------------------------------------------------------------------------
(* The steps that change no collection. *)

LEMMA FindArtifactKeeps ==
  ASSUME Assumptions, IInv, NEW t \in Tasks, FindArtifact(t)
  PROVE  IInv' /\ LossesStale
  <1>0. /\ Typed /\ t \in Procs /\ t \notin Calls /\ UNCHANGED stored /\ Goto(t, "recording")
        /\ UNCHANGED <<mem, lost>> /\ Informed(t)
    BY DEF IInv, FindArtifact, Procs, Assumptions, ProcsAssumption, stored
  <1>1. PICK a \in Tasks : work' = [work EXCEPT ![t].artifact = a]
    <2>1. SameOutput(t) \subseteq Tasks
      BY <1>0 DEF Typed, Content, SameOutput
    <2> QED BY <2>1 DEF FindArtifact
  <1>2. at' \in [Procs -> Stages] /\ at'[t] = "recording" /\ \A q \in Procs : q # t => at'[q] = at[q]
    BY <1>0, GoesTo DEF Stages
  <1> DEFINE new == [work[t] EXCEPT !.artifact = a]
  <1>3. work[t] \in Work /\ work[t].todo \subseteq work[t].wants
    BY <1>0 DEF Typed
  <1>4. new \in Work /\ new.artifact = a /\ new.seen = work[t].seen /\ new.todo \subseteq new.wants
    BY <1>3 DEF Work
  <1>5. work' = [work EXCEPT ![t] = new]
    BY <1>0, <1>1 DEF Typed
  <1> HIDE DEF new
  <1>6. work' \in [Procs -> Work] /\ work'[t] = new /\ \A q \in Procs : q # t => work'[q] = work[q]
    BY <1>0, <1>4, <1>5, Remembers
  <1>7. Placed(t)'
    BY <1>0, <1>2, <1>4, <1>6 DEF Placed
  <1>8. Informed(t)'
    BY <1>0, <1>2, <1>4, <1>6 DEF Informed, Updating
  <1>9. at'[t] \notin Collections
    BY <1>2 DEF Collections
  <1> QED BY <1>0, <1>2, <1>4, <1>6, <1>7, <1>8, <1>9, LocalStep

LEMMA StartIndexingKeeps ==
  ASSUME Assumptions, IInv, NEW t \in Tasks, StartIndexing(t)
  PROVE  IInv' /\ LossesStale
  <1>0. /\ Typed /\ t \in Procs /\ t \notin Calls /\ UNCHANGED stored /\ Goto(t, "citing")
        /\ at[t] = "listing" /\ Placed(t) /\ UNCHANGED <<mem, lost>> /\ Informed(t)
    BY DEF IInv, StartIndexing, Read, Procs, Assumptions, ProcsAssumption, stored
  <1>1. at' \in [Procs -> Stages] /\ at'[t] = "citing" /\ \A q \in Procs : q # t => at'[q] = at[q]
    BY <1>0, GoesTo DEF Stages
  <1> DEFINE new == [work[t] EXCEPT !.cites = {work[t].artifact}, !.wants = Observes[t], !.todo = Observes[t]]
  <1>2. work[t] \in Work /\ work[t].artifact \in Tasks /\ Observes[t] \subseteq Entities
    BY <1>0 DEF Typed, Placed, Assumptions, BatchAssumption
  <1>3. new \in Work /\ new.wants = Observes[t] /\ new.todo = Observes[t] /\ new.seen = work[t].seen
    BY <1>2 DEF Work
  <1>4. work' = [work EXCEPT ![t] = new]
    BY <1>0 DEF StartIndexing, Read, Typed
  <1> HIDE DEF new
  <1>5. work' \in [Procs -> Work] /\ work'[t] = new /\ \A q \in Procs : q # t => work'[q] = work[q]
    BY <1>0, <1>3, <1>4, Remembers
  <1>6. Placed(t)'
    BY <1>0, <1>1, <1>3, <1>5 DEF Placed
  <1>7. Informed(t)'
    BY <1>0, <1>1, <1>3, <1>5 DEF Informed, Updating
  <1>8. at'[t] \notin Collections
    BY <1>1 DEF Collections
  <1> QED BY <1>0, <1>1, <1>3, <1>5, <1>6, <1>7, <1>8, LocalStep

\* A call begins, with nothing read.
LEMMA CallKeeps ==
  ASSUME NEW c \in Calls, NEW new \in Work,
         Assumptions, IInv, UNCHANGED stored, Goto(c, "citing"),
         work' = [work EXCEPT ![c] = new], new.todo = new.wants, \A e \in Entities : new.seen[e] = None,
         new.request \in Requests[c],
         new.request.op = "entity" => new.wants = {new.request.entity},
         new.request.op = "edge" => new.wants = {new.request.from, new.request.to} /\ new.request.from # new.request.to,
         new.request.op \in {"create", "update"} =>
           /\ Considered(new.request, new.base, new.finding)
           /\ new.cites = {x.artifact : x \in Or(new.request.evidence, {})},
         new.request.op = "update" =>
           /\ "artifacts" \notin lost => CitesArtifacts(new.base.evidence, mem.artifacts, Home[new.request.finding])
           /\ "entities" \notin lost => CitesEntities(new.base.evidence, mem.entities, Home[new.request.finding])
  PROVE  IInv' /\ LossesStale
  <1>0. Typed /\ c \in Procs /\ c \notin Tasks /\ UNCHANGED <<mem, lost>>
    BY DEF IInv, Procs, Assumptions, ProcsAssumption, stored
  <1>1. at' \in [Procs -> Stages] /\ at'[c] = "citing" /\ \A q \in Procs : q # c => at'[q] = at[q]
    BY <1>0, GoesTo DEF Stages
  <1>2. work' \in [Procs -> Work] /\ work'[c] = new /\ \A q \in Procs : q # c => work'[q] = work[q]
    BY <1>0, Remembers
  <1>3. Placed(c)'
    BY <1>0, <1>1, <1>2 DEF Placed
  <1>4. Informed(c)'
    BY <1>0, <1>1, <1>2 DEF Informed, Updating, Seen
  <1>5. at'[c] \notin Collections
    BY <1>1 DEF Collections
  <1> QED BY <1>0, <1>1, <1>2, <1>3, <1>4, <1>5, LocalStep

LEMMA CallGraphKeeps ==
  ASSUME Assumptions, IInv, NEW c \in Calls, CallGraph(c)
  PROVE  IInv' /\ LossesStale
  <1>0. UNCHANGED stored /\ Goto(c, "citing")
    BY DEF CallGraph
  <1>1. PICK r \in Requests[c] :
       \/ /\ r.op = "entity"
          /\ work' = [work EXCEPT ![c] = [Idle EXCEPT !.request = r, !.cites = r.cites,
                                                      !.wants = {r.entity}, !.todo = {r.entity}]]
       \/ /\ r.op = "edge" /\ r.from # r.to
          /\ work' = [work EXCEPT ![c] = [Idle EXCEPT !.request = r, !.wants = {r.from, r.to},
                                                      !.todo = {r.from, r.to}]]
    BY DEF CallGraph
  <1>2. r \in Request
    BY DEF Assumptions, RequestAssumption
  <1>3. CASE /\ r.op = "entity"
             /\ work' = [work EXCEPT ![c] = [Idle EXCEPT !.request = r, !.cites = r.cites,
                                                         !.wants = {r.entity}, !.todo = {r.entity}]]
    <2> DEFINE new == [Idle EXCEPT !.request = r, !.cites = r.cites, !.wants = {r.entity}, !.todo = {r.entity}]
    <2>1. r.entity \in Entities /\ r.cites \in SUBSET Tasks
      BY <1>2, <1>3 DEF Request
    <2>2. /\ new \in Work /\ new.request = r /\ new.wants = {r.entity} /\ new.todo = {r.entity}
          /\ new.seen = Idle.seen
      BY <1>2, <2>1, IdleWork DEF Work
    <2>3. work' = [work EXCEPT ![c] = new]
      BY <1>3
    <2> HIDE DEF new
    <2>4. \A e \in Entities : new.seen[e] = None
      BY <2>2, IdleWork
    <2> QED BY <1>0, <1>3, <2>2, <2>3, <2>4, CallKeeps
  <1>4. CASE /\ r.op = "edge" /\ r.from # r.to
             /\ work' = [work EXCEPT ![c] = [Idle EXCEPT !.request = r, !.wants = {r.from, r.to},
                                                         !.todo = {r.from, r.to}]]
    <2> DEFINE new == [Idle EXCEPT !.request = r, !.wants = {r.from, r.to}, !.todo = {r.from, r.to}]
    <2>1. r.from \in Entities /\ r.to \in Entities
      BY <1>2, <1>4 DEF Request
    <2>2. /\ new \in Work /\ new.request = r /\ new.wants = {r.from, r.to} /\ new.todo = {r.from, r.to}
          /\ new.seen = Idle.seen
      BY <1>2, <2>1, IdleWork DEF Work
    <2>3. work' = [work EXCEPT ![c] = new]
      BY <1>4
    <2> HIDE DEF new
    <2>4. \A e \in Entities : new.seen[e] = None
      BY <2>2, IdleWork
    <2> QED BY <1>0, <1>4, <2>2, <2>3, <2>4, CallKeeps
  <1> QED BY <1>1, <1>3, <1>4

LEMMA ConsiderKeeps ==
  ASSUME NEW c \in Calls, NEW r \in Requests[c], NEW base \in Finding \cup {None}, NEW finding \in Finding,
         NEW evidence \in SUBSET Citation,
         Assumptions, IInv, UNCHANGED stored, Consider(c, r, base, finding, evidence),
         r.op \in {"create", "update"}, evidence = Or(r.evidence, {}), Considered(r, base, finding),
         r.op = "update" =>
           /\ "artifacts" \notin lost => CitesArtifacts(base.evidence, mem.artifacts, Home[r.finding])
           /\ "entities" \notin lost => CitesEntities(base.evidence, mem.entities, Home[r.finding])
  PROVE  IInv' /\ LossesStale
  <1> DEFINE cited == {x.entity : x \in {y \in evidence : y.entity # None}}
             cites == {x.artifact : x \in evidence}
             new   == [Idle EXCEPT !.request = r, !.base = base, !.finding = finding, !.cites = cites,
                                   !.wants = cited, !.todo = cited]
  <1>1. r \in Request
    BY DEF Assumptions, RequestAssumption
  <1>2. cited \in SUBSET Entities /\ cites \in SUBSET Tasks
    BY DEF Citation
  <1>3. work' = [work EXCEPT ![c] = new] /\ Goto(c, "citing")
    BY DEF Consider
  <1>4. cites = {x.artifact : x \in Or(r.evidence, {})}
    OBVIOUS
  <1> HIDE DEF cited, cites
  <1>5. /\ new \in Work /\ new.request = r /\ new.base = base /\ new.finding = finding /\ new.cites = cites
        /\ new.wants = cited /\ new.todo = cited /\ new.seen = Idle.seen
    BY <1>1, <1>2, IdleWork DEF Work
  <1> HIDE DEF new
  <1>6. \A e \in Entities : new.seen[e] = None
    BY <1>5, IdleWork
  <1> QED BY <1>3, <1>4, <1>5, <1>6, CallKeeps

LEMMA CallCreateKeeps ==
  ASSUME Assumptions, IInv, NEW c \in Calls, CallCreate(c)
  PROVE  IInv' /\ LossesStale
  <1> DEFINE finding(r) == [status |-> r.status, evidence |-> r.evidence]
  <1>1. PICK r \in Requests[c] : r.op = "create" /\ Consider(c, r, None, finding(r), r.evidence)
    BY DEF CallCreate
  <1>2. r \in Request /\ r.evidence # None
    BY <1>1 DEF Assumptions, RequestAssumption
  <1>3. r.status \in Status /\ r.evidence \in SUBSET Citation
    BY <1>1, <1>2 DEF Request
  <1>4. finding(r) \in Finding
    BY <1>3 DEF Finding
  <1>5. MayBeSaved(finding(r))
    BY <1>1 DEF Consider
  <1>6. Considered(r, None, finding(r))
    BY <1>1, <1>4, <1>5 DEF Considered
  <1>7. r.evidence = Or(r.evidence, {}) /\ UNCHANGED stored
    BY <1>2 DEF Or, CallCreate
  <1> HIDE DEF finding
  <1> QED BY <1>1, <1>3, <1>4, <1>6, <1>7, ConsiderKeeps

LEMMA CallUpdateKeeps ==
  ASSUME Assumptions, IInv, NEW c \in Calls, CallUpdate(c)
  PROVE  IInv' /\ LossesStale
  <1>1. PICK r \in Requests[c] :
          /\ r.op = "update" /\ mem.findings[r.finding] # None
          /\ Consider(c, r, mem.findings[r.finding],
                      [status |-> Or(r.status, mem.findings[r.finding].status),
                       evidence |-> Or(r.evidence, mem.findings[r.finding].evidence)],
                      Or(r.evidence, {}))
    BY DEF CallUpdate
  <1> DEFINE base     == mem.findings[r.finding]
             finding  == [status |-> Or(r.status, base.status), evidence |-> Or(r.evidence, base.evidence)]
             evidence == Or(r.evidence, {})
  <1>2. r \in Request
    BY DEF Assumptions, RequestAssumption
  <1>3. r.finding \in Findings /\ r.status \in Status \cup {None} /\ r.evidence \in (SUBSET Citation) \cup {None}
    BY <1>1, <1>2 DEF Request
  <1>4. base \in Finding /\ base.status \in Status /\ base.evidence \in SUBSET Citation
    BY <1>1, <1>3 DEF IInv, Typed, Content, Finding
  <1>5. finding \in Finding /\ evidence \in SUBSET Citation
    BY <1>3, <1>4 DEF Or, Finding
  <1>6. Consider(c, r, base, finding, evidence) /\ MayBeSaved(finding)
    BY <1>1 DEF Consider
  <1>7. Considered(r, base, finding)
    BY <1>1, <1>4, <1>5, <1>6 DEF Considered
  <1>8. Sound("findings", mem.findings, mem, lost)
    BY DEF IInv, Held, Collections
  <1>10. /\ "artifacts" \notin lost => CitesArtifacts(base.evidence, mem.artifacts, Home[r.finding])
         /\ "entities" \notin lost => CitesEntities(base.evidence, mem.entities, Home[r.finding])
    BY <1>1, <1>3, <1>8 DEF Sound, OnArtifacts, OnEntities
  <1>9. UNCHANGED stored /\ base \in Finding \cup {None} /\ r.op \in {"create", "update"}
    BY <1>1, <1>4 DEF CallUpdate
  <1> HIDE DEF base, finding
  <1> QED BY <1>5, <1>6, <1>7, <1>9, <1>10, ConsiderKeeps

LEMMA CheckArtifactsKeeps ==
  ASSUME Assumptions, IInv, NEW p \in Procs, CheckArtifacts(p)
  PROVE  IInv' /\ LossesStale
  <1>0. /\ Typed /\ UNCHANGED work /\ UNCHANGED stored /\ Goto(p, "reading") /\ at[p] = "citing" /\ Placed(p)
        /\ \A a \in work[p].cites : a \in mem.artifacts /\ Home[a] = Site(p)
        /\ UNCHANGED <<mem, lost>> /\ Informed(p)
    BY DEF IInv, CheckArtifacts, stored
  <1>1. at' \in [Procs -> Stages] /\ at'[p] = "reading" /\ \A q \in Procs : q # p => at'[q] = at[q]
    BY <1>0, GoesTo DEF Stages
  <1>2. Placed(p)'
    BY <1>0, <1>1 DEF Placed
  <1>3. Informed(p)'
    <2>1. Site(p)' = Site(p) /\ Updating(p)' = Updating(p)
      BY <1>0, <1>1 DEF Site, Op, Updating
    <2> QED BY <1>0, <1>1, <2>1 DEF Informed
  <1>4. work' \in [Procs -> Work] /\ (\A q \in Procs : q # p => work'[q] = work[q])
        /\ work'[p].todo \subseteq work'[p].wants
    BY <1>0 DEF Typed
  <1>5. at'[p] \notin Collections
    BY <1>1 DEF Collections
  <1> QED BY <1>0, <1>1, <1>2, <1>3, <1>4, <1>5, LocalStep

LEMMA ReadEntityKeeps ==
  ASSUME Assumptions, IInv, NEW p \in Procs, ReadEntity(p)
  PROVE  IInv' /\ LossesStale
  <1>0. /\ Typed /\ UNCHANGED at /\ UNCHANGED stored /\ at[p] = "reading" /\ Placed(p)
        /\ UNCHANGED <<mem, lost>> /\ Informed(p) /\ Sound("entities", mem.entities, mem, lost)
    BY DEF IInv, ReadEntity, stored, Held, Collections
  <1>1. PICK e \in work[p].todo : work' = [work EXCEPT ![p].todo = @ \ {e}, ![p].seen[e] = mem.entities[e]]
    BY DEF ReadEntity
  <1>2. work[p] \in Work /\ e \in Entities /\ mem.entities[e] \in (SUBSET Tasks) \cup {None}
        /\ work[p].todo \subseteq work[p].wants
    BY <1>0, <1>1 DEF Typed, Work, Content
  <1> DEFINE seen == [work[p].seen EXCEPT ![e] = mem.entities[e]]
             todo == work[p].todo \ {e}
             new  == [work[p] EXCEPT !.todo = todo, !.seen = seen]
  <1>3. /\ seen \in [Entities -> (SUBSET Tasks) \cup {None}] /\ seen[e] = mem.entities[e]
        /\ \A d \in Entities : d # e => seen[d] = work[p].seen[d]
    BY <1>2 DEF Work
  <1>4. todo \subseteq Entities /\ todo \subseteq work[p].wants
    BY <1>2 DEF Work
  <1>5. work' = [work EXCEPT ![p] = new]
    BY <1>0, <1>1, <1>2 DEF Work, Typed
  <1> HIDE DEF seen, todo
  <1>6. /\ new \in Work /\ new.todo = todo /\ new.seen = seen /\ new.wants = work[p].wants
        /\ new.request = work[p].request /\ new.cites = work[p].cites /\ new.artifact = work[p].artifact
        /\ new.base = work[p].base /\ new.finding = work[p].finding /\ new.links = work[p].links
    BY <1>2, <1>3, <1>4 DEF Work
  <1> HIDE DEF new
  <1>7. work' \in [Procs -> Work] /\ work'[p] = new /\ \A q \in Procs : q # p => work'[q] = work[q]
    BY <1>0, <1>5, <1>6, Remembers
  <1>8. Placed(p)'
    BY <1>0, <1>6, <1>7 DEF Placed
  <1>9. Informed(p)'
    <2>1. Site(p)' = Site(p) /\ Updating(p)' = Updating(p)
      BY <1>0, <1>6, <1>7 DEF Site, Op, Updating
    <2>2. /\ \A d \in Entities : \A a \in Seen(seen[d]) : Home[a] = Home[d]
          /\ "artifacts" \notin lost => \A d \in Entities : Seen(seen[d]) \subseteq mem.artifacts
          /\ "entities" \notin lost => \A d \in Entities : seen[d] # None => mem.entities[d] # None
      <3>1. /\ \A a \in Seen(mem.entities[e]) : Home[a] = Home[e]
            /\ "artifacts" \notin lost => Seen(mem.entities[e]) \subseteq mem.artifacts
        BY <1>0, <1>2 DEF Sound, Alone, OnArtifacts, ArtifactIn
      <3>2. ASSUME NEW d \in Entities
            PROVE  /\ \A a \in Seen(seen[d]) : Home[a] = Home[d]
                   /\ "artifacts" \notin lost => Seen(seen[d]) \subseteq mem.artifacts
                   /\ "entities" \notin lost => (seen[d] # None => mem.entities[d] # None)
        <4>1. CASE d = e
          BY <1>3, <3>1, <4>1
        <4>2. CASE d # e
          <5>1. seen[d] = work[p].seen[d]
            BY <1>3, <4>2
          <5> QED BY <1>0, <5>1 DEF Informed
        <4> QED BY <4>1, <4>2
      <3> QED BY <3>2
    <2> QED BY <1>0, <1>6, <1>7, <2>1, <2>2 DEF Informed
  <1>10. /\ at' \in [Procs -> Stages] /\ (\A q \in Procs : at'[q] = at[q])
         /\ work'[p].todo \subseteq work'[p].wants /\ at'[p] \notin Collections
    BY <1>0, <1>4, <1>6, <1>7 DEF Typed, Collections
  <1> QED BY <1>0, <1>7, <1>8, <1>9, <1>10, LocalStep

\* A process that ends remembers nothing.
LEMMA Ended ==
  ASSUME Typed, NEW p \in Procs, Goto(p, "ended"), Forget(p)
  PROVE  /\ at' \in [Procs -> Stages] /\ at'[p] = "ended" /\ at'[p] \notin Collections
         /\ work' \in [Procs -> Work] /\ work'[p].todo \subseteq work'[p].wants
         /\ \A q \in Procs : q # p => at'[q] = at[q] /\ work'[q] = work[q]
         /\ Placed(p)' /\ Informed(p)'
  <1>1. at' \in [Procs -> Stages] /\ at'[p] = "ended" /\ \A q \in Procs : q # p => at'[q] = at[q]
    BY GoesTo DEF Stages
  <1>2. work' \in [Procs -> Work] /\ work'[p] = Idle /\ \A q \in Procs : q # p => work'[q] = work[q]
    BY IdleWork, Remembers DEF Forget
  <1>3. Placed(p)'
    BY <1>1 DEF Placed
  <1>4. Informed(p)'
    BY <1>1, <1>2, IdleWork DEF Informed, Updating, Seen
  <1>5. at'[p] \notin Collections
    BY <1>1 DEF Collections
  <1> QED BY <1>1, <1>2, <1>3, <1>4, <1>5, IdleWork

LEMMA EndKeeps ==
  ASSUME NEW p \in Procs, IInv, UNCHANGED stored, Goto(p, "ended"), Forget(p)
  PROVE  IInv' /\ LossesStale
  <1>1. Typed
    BY DEF IInv
  <1> QED BY <1>1, Ended, LocalStep

\* What a write leaves, and what comes after it.
LEMMA SavedKeeps ==
  ASSUME Assumptions, IInv, NEW p \in Procs, Saved(p)
  PROVE  IInv' /\ LossesStale
  <1> PICK c \in Collections : c = at[p]
    BY DEF Saved
  <1> PICK content : content = due[c]
    OBVIOUS
  <1>0. /\ Typed /\ Coherent /\ UNCHANGED <<work, due, lost>> /\ Placed(p) /\ Informed(p)
        /\ Goto(p, After(p, c)) /\ disk' = With(disk, c, content)
        /\ mem' = With(mem, c, content) /\ past' = [past EXCEPT ![c] = @ \cup {content}]
    BY DEF IInv, Saved, With
  <1>1. Alone(c, content)
    BY <1>0 DEF IInv, Held, Sound
  <1>2. /\ mem \in Content /\ disk \in Content /\ past = [d \in Collections |-> past[d]]
        /\ lost \subseteq Collections
    BY <1>0 DEF Typed
  <1>3. mem' \in Content /\ mem'[c] = content /\ \A d \in Collections : d # c => mem'[d] = mem[d]
    BY <1>0, <1>1, <1>2, Replaced
  <1>4. disk' \in Content /\ disk'[c] = content /\ \A d \in Collections : d # c => disk'[d] = disk[d]
    BY <1>0, <1>1, <1>2, Replaced
  <1>5. /\ past' = [d \in Collections |-> past'[d]]
        /\ past'[c] = past[c] \cup {content} /\ \A d \in Collections : d # c => past'[d] = past[d]
    BY <1>0, <1>2
  <1>6. After(p, c) \in Stages /\ After(p, c) \notin Collections
    BY DEF After, Stages, Collections
  <1>7. at' \in [Procs -> Stages] /\ at'[p] = After(p, c) /\ \A q \in Procs : q # p => at'[q] = at[q]
    BY <1>0, <1>6, GoesTo
  <1>8. Typed'
    BY <1>0, <1>3, <1>4, <1>5, <1>7 DEF Typed
  <1>9. c \notin lost => \A d \in Collections : mem'[d] = mem[d]
    BY <1>0, <1>3 DEF Coherent
  <1>10. Coherent'
    <2>1. \A d \in Collections : disk'[d] \in past'[d]
      BY <1>0, <1>4, <1>5 DEF Coherent
    <2>2. \A q \in Procs : at'[q] \in Collections => q # p /\ at'[q] = at[q] /\ at[q] # c
      BY <1>0, <1>6, <1>7 DEF Coherent
    <2>3. \A q, r \in Procs : at'[q] \in Collections /\ at'[r] = at'[q] => q = r
      BY <1>0, <2>2 DEF Coherent
    <2>4. ASSUME NEW q \in Procs, at'[q] \in Collections \ lost PROVE mem'[at'[q]] = due[at'[q]]
      <3>1. at[q] \in Collections \ lost /\ at[q] # c /\ at'[q] = at[q]
        BY <2>2, <2>4
      <3>2. mem[at[q]] = due[at[q]]
        BY <1>0, <3>1 DEF Coherent
      <3> QED BY <1>3, <3>1, <3>2
    <2> QED BY <1>0, <2>1, <2>3, <2>4 DEF Coherent
  <1>11. Grows(mem, mem', lost')
    <2>1. "artifacts" \notin lost => mem'["artifacts"] = mem["artifacts"]
      BY <1>3, <1>9 DEF Collections
    <2>2. "entities" \notin lost => mem'["entities"] = mem["entities"]
      BY <1>3, <1>9 DEF Collections
    <2> QED BY <1>0, <2>1, <2>2 DEF Grows
  <1>12. \A d \in Collections : Held(d)' \subseteq Held(d)
    <2>1. Held(c)' \subseteq Held(c)
      BY <1>0, <1>3, <1>4, <1>5 DEF Held
    <2>2. \A d \in Collections : d # c => Held(d)' = Held(d)
      BY <1>0, <1>3, <1>4, <1>5 DEF Held
    <2> QED BY <2>1, <2>2
  <1>13. Placed(p)'
    BY <1>0, <1>7 DEF Placed, After, Collections
  <1>14. Informed(p)'
    <2>1. at'[p] \notin {"reading", "citing", "entities"}
      BY <1>7 DEF After
    <2>2. at'[p] = "linking" => p \in Tasks /\ at[p] = "entities"
      BY <1>7 DEF After
    <2>3. "artifacts" \notin lost => mem.artifacts \subseteq mem'.artifacts
      BY <1>0, <1>11 DEF Grows
    <2>4. "entities" \notin lost => \A e \in Entities : mem.entities[e] # None => mem'.entities[e] # None
      BY <1>0, <1>11 DEF Grows
    <2>5. p \in Tasks => Observes[p] \subseteq Entities
      BY DEF Assumptions, BatchAssumption
    <2> QED BY <1>0, <2>1, <2>2, <2>3, <2>4, <2>5 DEF Informed, Updating
  <1>15. IInv'
    BY <1>0, <1>7, <1>8, <1>10, <1>11, <1>12, <1>13, <1>14, Frame
  <1>16. \A d \in Collections : mem'[d] = mem[d] \/ FallsBack(d)
    <2>1. FallsBack(c)
      BY <1>0, <1>3, <1>5, <1>6, <1>7 DEF FallsBack
    <2> QED BY <1>3, <2>1
  <1>17. LossesStale
    BY <1>16 DEF LossesStale, Collections
  <1> QED BY <1>15, <1>17

LEMMA NotSavedKeeps ==
  ASSUME Assumptions, IInv, NEW p \in Procs, NotSaved(p)
  PROVE  IInv' /\ LossesStale
  <1> PICK c \in Collections : c = at[p]
    BY DEF NotSaved
  <1> PICK content : content = disk[c]
    OBVIOUS
  <1>0. /\ Typed /\ Coherent /\ UNCHANGED <<mem, disk, past, lost>>
        /\ Goto(p, "ended") /\ Forget(p) /\ due' = With(due, c, content)
    BY DEF IInv, NotSaved, End, With
  <1>1. Alone(c, content) /\ due \in Content
    BY <1>0 DEF IInv, Held, Sound, Typed
  <1>2. due' \in Content /\ due'[c] = content /\ \A d \in Collections : d # c => due'[d] = due[d]
    BY <1>0, <1>1, Replaced
  <1>3. /\ at' \in [Procs -> Stages] /\ at'[p] \notin Collections
        /\ work' \in [Procs -> Work] /\ work'[p].todo \subseteq work'[p].wants
        /\ \A q \in Procs : q # p => at'[q] = at[q] /\ work'[q] = work[q]
        /\ Placed(p)' /\ Informed(p)'
    BY <1>0, Ended
  <1>4. Typed'
    BY <1>0, <1>2, <1>3 DEF Typed
  <1>5. Coherent'
    <2>1. \A q \in Procs : at'[q] \in Collections => q # p /\ at'[q] = at[q] /\ at[q] # c
      BY <1>0, <1>3 DEF Coherent
    <2>2. \A q, r \in Procs : at'[q] \in Collections /\ at'[r] = at'[q] => q = r
      BY <1>0, <2>1 DEF Coherent
    <2>3. ASSUME NEW q \in Procs, at'[q] \in Collections \ lost PROVE mem[at'[q]] = due'[at'[q]]
      BY <1>0, <1>2, <2>1, <2>3 DEF Coherent
    <2> QED BY <1>0, <2>2, <2>3 DEF Coherent
  <1>6. Grows(mem, mem', lost')
    BY <1>0 DEF Grows
  <1>7. \A d \in Collections : Held(d)' \subseteq Held(d)
    BY <1>0, <1>2 DEF Held
  <1>8. IInv'
    BY <1>0, <1>3, <1>4, <1>5, <1>6, <1>7, Frame
  <1>9. LossesStale
    BY <1>0 DEF LossesStale
  <1> QED BY <1>8, <1>9

-----------------------------------------------------------------------------
(* The steps that write. *)

\* What a write changes in memory.
LEMMA PutChanges ==
  ASSUME Typed, NEW p \in Procs, NEW c \in Collections, NEW content, Put(p, c, content), Alone(c, content)
  PROVE  /\ mem' \in Content /\ mem'[c] = content /\ \A d \in Collections : d # c => mem'[d] = mem[d]
         /\ due' \in Content /\ due'[c] = content /\ \A d \in Collections : d # c => due'[d] = due[d]
         /\ at' \in [Procs -> Stages] /\ at'[p] = c /\ \A q \in Procs : q # p => at'[q] = at[q]
         /\ UNCHANGED <<disk, past, lost>> /\ \A q \in Procs : at[q] # c
  <1>1. /\ mem \in Content /\ due \in Content /\ c \in Stages
        /\ mem' = With(mem, c, content) /\ due' = With(due, c, content)
    BY DEF Typed, Stages, Put, With
  <1>2. mem' \in Content /\ mem'[c] = content /\ \A d \in Collections : d # c => mem'[d] = mem[d]
    BY <1>1, Replaced
  <1>3. due' \in Content /\ due'[c] = content /\ \A d \in Collections : d # c => due'[d] = due[d]
    BY <1>1, Replaced
  <1>4. at' \in [Procs -> Stages] /\ at'[p] = c /\ \A q \in Procs : q # p => at'[q] = at[q]
    BY <1>1, GoesTo DEF Put
  <1> QED BY <1>2, <1>3, <1>4 DEF Put

LEMMA PutKeeps ==
  ASSUME NEW p \in Procs, NEW c \in Collections, NEW content,
         IInv, Put(p, c, content), Alone(c, content), at[p] \notin Collections,
         work' \in [Procs -> Work], \A q \in Procs : q # p => work'[q] = work[q],
         work'[p].todo \subseteq work'[p].wants,
         Grows(mem, mem', lost), Sound(c, content, mem', lost), Placed(p)', Informed(p)'
  PROVE  IInv'
  <1>0. Typed /\ Coherent
    BY DEF IInv
  <1>1. /\ mem' \in Content /\ mem'[c] = content /\ \A d \in Collections : d # c => mem'[d] = mem[d]
        /\ due' \in Content /\ due'[c] = content /\ \A d \in Collections : d # c => due'[d] = due[d]
        /\ at' \in [Procs -> Stages] /\ at'[p] = c /\ \A q \in Procs : q # p => at'[q] = at[q]
        /\ UNCHANGED <<disk, past, lost>> /\ \A q \in Procs : at[q] # c
    BY <1>0, PutChanges
  <1>2. Typed'
    BY <1>0, <1>1 DEF Typed
  <1>3. Coherent'
    <2>1. \A q, r \in Procs : at'[q] \in Collections /\ at'[r] = at'[q] => q = r
      BY <1>0, <1>1 DEF Coherent
    <2>2. ASSUME NEW q \in Procs, at'[q] \in Collections \ lost PROVE mem'[at'[q]] = due'[at'[q]]
      <3>1. CASE q = p
        BY <1>1, <3>1
      <3>2. CASE q # p
        <4>1. at'[q] = at[q] /\ at[q] # c /\ at[q] \in Collections \ lost
          BY <1>1, <2>2, <3>2
        <4> QED BY <1>0, <1>1, <4>1 DEF Coherent
      <3> QED BY <3>1, <3>2
    <2> QED BY <1>0, <1>1, <2>1, <2>2 DEF Coherent
  <1>4. \A d \in Collections : \A x \in Held(d)' : x \in Held(d) \/ Sound(d, x, mem', lost')
    <2>1. Held(c)' \subseteq Held(c) \cup {content}
      BY <1>1 DEF Held
    <2>2. \A d \in Collections : d # c => Held(d)' = Held(d)
      BY <1>1 DEF Held
    <2> QED BY <1>1, <2>1, <2>2
  <1> QED BY <1>1, <1>2, <1>3, <1>4, Frame

LEMMA RecordArtifactKeeps ==
  ASSUME Assumptions, IInv, NEW t \in Tasks, RecordArtifact(t)
  PROVE  IInv' /\ LossesStale
  <1> DEFINE content == mem.artifacts \cup {work[t].artifact}
  <1>0. /\ Typed /\ t \in Procs /\ UNCHANGED work /\ at[t] = "recording" /\ Placed(t) /\ Informed(t)
        /\ Put(t, "artifacts", content) /\ t \notin Calls
    BY DEF IInv, RecordArtifact, Procs, Assumptions, ProcsAssumption
  <1>1. Alone("artifacts", content) /\ "artifacts" \in Collections
    BY <1>0 DEF Typed, Placed, Content, Alone, Collections
  <1>2. /\ mem'["artifacts"] = content /\ mem'["entities"] = mem["entities"] /\ mem'["findings"] = mem["findings"]
        /\ at'[t] = "artifacts" /\ UNCHANGED lost
    BY <1>0, <1>1, PutChanges DEF Collections
  <1>3. Grows(mem, mem', lost)
    BY <1>2 DEF Grows
  <1>4. Sound("artifacts", content, mem', lost)
    BY <1>1 DEF Sound, OnArtifacts, OnEntities
  <1>5. Placed(t)'
    BY <1>0, <1>2 DEF Placed
  <1>6. Informed(t)'
    BY <1>0, <1>2 DEF Informed, Updating
  <1>7. /\ work' \in [Procs -> Work] /\ \A q \in Procs : q # t => work'[q] = work[q]
        /\ work'[t].todo \subseteq work'[t].wants /\ at[t] \notin Collections
    BY <1>0 DEF Typed, Collections
  <1>8. IInv'
    BY <1>0, <1>1, <1>3, <1>4, <1>5, <1>6, <1>7, PutKeeps
  <1>9. LossesStale
    BY <1>2 DEF LossesStale
  <1> QED BY <1>8, <1>9

\* What indexBatch() and upsertEntity() write is of their own workspace.
LEMMA WrittenAtHome ==
  ASSUME NEW p \in Procs, Assumptions, Placed(p), at[p] = "reading", Op(p) \in {"index", "entity"}
  PROVE  \A e \in work[p].wants : Home[e] = Site(p)
  <1>1. CASE p \in Tasks
    BY <1>1 DEF Placed, Site, Assumptions, BatchAssumption
  <1>2. CASE p \notin Tasks
    <2>1. p \in Calls /\ Op(p) = work[p].request.op
      BY <1>2 DEF Op, Procs
    <2>2. work[p].request \in Requests[p]
      BY <2>1 DEF Placed
    <2>3. work[p].request \in Request
      BY <2>1, <2>2 DEF Assumptions, RequestAssumption
    <2>4. work[p].request.op = "entity"
      BY <2>1, <2>3 DEF Request
    <2>5. work[p].wants = {work[p].request.entity}
      BY <2>1, <2>4 DEF Placed
    <2> QED BY <1>2, <2>1, <2>2, <2>4, <2>5 DEF Site, Op, Assumptions, RequestAssumption
  <1> QED BY <1>1, <1>2

LEMMA WriteEntitiesKeeps ==
  ASSUME Assumptions, IInv, NEW p \in Procs, WriteEntities(p)
  PROVE  IInv' /\ LossesStale
  <1> DEFINE content == [e \in Entities |-> IF e \in work[p].wants
                                            THEN Merge(work[p].seen[e], work[p].cites)
                                            ELSE mem.entities[e]]
             links == (IF p \in Tasks THEN Contains[p] ELSE {}) \ mem.edges
             new == [Idle EXCEPT !.links = links]
  <1>0. /\ Typed /\ work' = [work EXCEPT ![p] = new] /\ at[p] = "reading" /\ Placed(p) /\ Informed(p)
        /\ Op(p) \in {"index", "entity"} /\ Put(p, "entities", content)
        /\ Sound("entities", mem.entities, mem, lost)
    BY DEF IInv, WriteEntities, HasRead, Held, Collections
  <1>1. work[p] \in Work /\ work[p].cites \in SUBSET Tasks /\ mem \in Content
    BY <1>0 DEF Typed, Work
  <1>2. \A e \in Entities : Merge(work[p].seen[e], work[p].cites) \in SUBSET Tasks
    BY <1>1 DEF Work, Merge, Seen
  <1>3. \A e \in Entities : Merge(work[p].seen[e], work[p].cites) # None
    BY <1>2 DEF Assumptions, NoneAssumption
  <1>4. content \in [Entities -> (SUBSET Tasks) \cup {None}]
    BY <1>1, <1>2 DEF Content
  <1>5. links \in SUBSET (Entities \X Entities) /\ (p \in Tasks => links \subseteq Contains[p])
    BY DEF Assumptions, BatchAssumption
  <1> HIDE DEF content, links
  <1>6. new \in Work /\ new.links = links /\ new.todo = new.wants /\ \A e \in Entities : new.seen[e] = None
    BY <1>5, IdleWork DEF Work
  <1> HIDE DEF new
  <1>7. work' \in [Procs -> Work] /\ work'[p] = new /\ \A q \in Procs : q # p => work'[q] = work[q]
    BY <1>0, <1>6, Remembers
  <1>8. \A e \in Entities : content[e] = IF e \in work[p].wants THEN Merge(work[p].seen[e], work[p].cites)
                                                                 ELSE mem.entities[e]
    BY DEF content
  <1>9. \A e \in work[p].wants : Home[e] = Site(p)
    BY <1>0, WrittenAtHome
  <1>10. ASSUME NEW e \in Entities, NEW a \in Seen(content[e])
         PROVE  Home[a] = Home[e] /\ ("artifacts" \notin lost => a \in mem.artifacts)
    <2>1. CASE e \in work[p].wants
      <3>1. a \in Seen(work[p].seen[e]) \cup work[p].cites
        BY <1>3, <1>8, <1>10, <2>1 DEF Seen, Merge
      <3>2. CASE a \in work[p].cites
        BY <1>0, <1>9, <2>1, <3>2 DEF Informed
      <3>3. CASE a \in Seen(work[p].seen[e])
        BY <1>0, <1>10, <3>3 DEF Informed
      <3> QED BY <3>1, <3>2, <3>3
    <2>2. CASE e \notin work[p].wants
      <3>1. content[e] = mem.entities[e]
        BY <1>8, <2>2
      <3> QED BY <1>0, <1>10, <3>1 DEF Sound, Alone, OnArtifacts, ArtifactIn
    <2> QED BY <2>1, <2>2
  <1>11. Alone("entities", content) /\ "entities" \in Collections
    BY <1>4, <1>10 DEF Alone, Collections
  <1>12. /\ mem'["artifacts"] = mem["artifacts"] /\ mem'["entities"] = content
         /\ mem'["findings"] = mem["findings"] /\ at'[p] = "entities" /\ UNCHANGED lost
    BY <1>0, <1>11, PutChanges DEF Collections
  <1>13. Sound("entities", content, mem', lost)
    BY <1>10, <1>11, <1>12 DEF Sound, OnArtifacts, OnEntities, ArtifactIn
  <1>14. Grows(mem, mem', lost)
    BY <1>3, <1>8, <1>12 DEF Grows
  <1>15. Placed(p)'
    BY <1>5, <1>6, <1>7, <1>12 DEF Placed
  <1>16. Informed(p)'
    <2>1. p \in Tasks => Observes[p] = work[p].wants /\ Observes[p] \subseteq Entities
      BY <1>0 DEF Placed, Assumptions, BatchAssumption
    <2>2. p \in Tasks => \A e \in Observes[p] : mem'.entities[e] # None
      BY <1>3, <1>8, <1>12, <2>1
    <2> QED BY <1>6, <1>7, <1>12, <2>2 DEF Informed, Updating, Seen
  <1>17. at[p] \notin Collections /\ work'[p].todo \subseteq work'[p].wants
    BY <1>0, <1>6, <1>7 DEF Collections
  <1>18. IInv'
    BY <1>0, <1>7, <1>11, <1>13, <1>14, <1>15, <1>16, <1>17, PutKeeps
  <1>19. LossesStale
    <2>1. ASSUME NEW e \in Entities, ~(Seen(mem.entities[e]) \subseteq Seen(content[e]))
          PROVE  e \in work[p].wants /\ work[p].seen[e] # mem.entities[e]
      BY <1>3, <1>8, <2>1 DEF Seen, Merge
    <2> QED BY <1>0, <1>12, <2>1 DEF LossesStale
  <1> QED BY <1>18, <1>19

LEMMA ForgetsAll ==
  ASSUME Typed, NEW p \in Procs, Forget(p)
  PROVE  /\ work' \in [Procs -> Work] /\ work'[p] = Idle /\ work'[p].todo \subseteq work'[p].wants
         /\ \A q \in Procs : q # p => work'[q] = work[q]
  BY IdleWork, Remembers DEF Forget

\* Edges between entities that are there.
LEMMA Linking ==
  ASSUME NEW p \in Procs, NEW links,
         Assumptions, IInv, Put(p, "edges", mem.edges \cup links), Forget(p), at[p] \notin Collections,
         \A x \in links : /\ x[1] # x[2] /\ x \in Entities \X Entities /\ Home[x[1]] = Home[x[2]]
                          /\ "entities" \notin lost => mem.entities[x[1]] # None /\ mem.entities[x[2]] # None
  PROVE  IInv' /\ LossesStale
  <1> DEFINE content == mem.edges \cup links
  <1>0. Typed /\ Sound("edges", mem.edges, mem, lost)
    BY DEF IInv, Held, Collections
  <1>1. Alone("edges", content) /\ "edges" \in Collections
    BY <1>0 DEF Alone, Sound, Collections
  <1>2. "entities" \notin lost => OnEntities("edges", content, mem.entities)
    <2> SUFFICES ASSUME "entities" \notin lost, NEW x \in content
                 PROVE  /\ x[1] # x[2] /\ Home[x[1]] = Home[x[2]]
                        /\ mem.entities[x[1]] # None /\ mem.entities[x[2]] # None
      BY DEF OnEntities
    <2>1. CASE x \in mem.edges
      BY <1>0, <2>1 DEF Sound, OnEntities
    <2>2. CASE x \in links
      BY <2>2
    <2> QED BY <2>1, <2>2
  <1> HIDE DEF content
  <1>3. Put(p, "edges", content)
    BY DEF content
  <1>4. /\ mem'["artifacts"] = mem["artifacts"] /\ mem'["entities"] = mem["entities"]
        /\ mem'["findings"] = mem["findings"] /\ at'[p] = "edges" /\ UNCHANGED lost
    BY <1>0, <1>1, <1>3, PutChanges DEF Collections
  <1>5. Grows(mem, mem', lost)
    BY <1>4 DEF Grows
  <1>6. Sound("edges", content, mem', lost)
    BY <1>1, <1>2, <1>4 DEF Sound, OnArtifacts
  <1>7. /\ work' \in [Procs -> Work] /\ work'[p] = Idle /\ work'[p].todo \subseteq work'[p].wants
        /\ \A q \in Procs : q # p => work'[q] = work[q]
    BY <1>0, ForgetsAll
  <1>8. Placed(p)' /\ Informed(p)'
    BY <1>4, <1>7, IdleWork DEF Placed, Informed, Updating, Seen
  <1>9. IInv'
    BY <1>1, <1>3, <1>5, <1>6, <1>7, <1>8, PutKeeps
  <1>10. LossesStale
    BY <1>4 DEF LossesStale
  <1> QED BY <1>9, <1>10

LEMMA WriteEdgesKeeps ==
  ASSUME Assumptions, IInv, NEW p \in Procs, WriteEdges(p)
  PROVE  IInv' /\ LossesStale
  <1>0. Typed /\ Forget(p) /\ Placed(p) /\ Informed(p)
    BY DEF IInv, WriteEdges
  <1>1. CASE Goto(p, "ended") /\ UNCHANGED stored
    BY <1>0, <1>1, EndKeeps
  <1>2. CASE Put(p, "edges", mem.edges \cup Links(p))
    <2>1. CASE at[p] = "linking"
      <3>1. p \in Tasks /\ Links(p) \subseteq Contains[p] /\ at[p] \notin Collections
        BY <1>0, <2>1 DEF Placed, Links, Collections
      <3>2. \A x \in Links(p) :
              /\ x[1] # x[2] /\ x \in Entities \X Entities /\ Home[x[1]] = Home[x[2]]
              /\ x[1] \in Observes[p] /\ x[2] \in Observes[p]
        BY <3>1 DEF Assumptions, BatchAssumption
      <3>3. "entities" \notin lost => \A e \in Observes[p] : mem.entities[e] # None
        BY <1>0, <2>1, <3>1 DEF Informed
      <3> QED BY <1>0, <1>2, <3>1, <3>2, <3>3, Linking
    <2>2. CASE HasRead(p) /\ Op(p) = "edge" /\ EndsExist(p)
      <3>1. at[p] = "reading" /\ work[p].wants \subseteq Entities /\ at[p] \notin Collections
        BY <1>0, <2>2 DEF HasRead, Typed, Work, Collections
      <3>2. p \in Calls /\ p \notin Tasks /\ work[p].request.op = "edge"
        BY <2>2 DEF Op, Procs
      <3>3. /\ work[p].request.from # work[p].request.to
            /\ work[p].wants = {work[p].request.from, work[p].request.to}
        BY <1>0, <3>1, <3>2 DEF Placed
      <3>4. Links(p) \subseteq {<<work[p].request.from, work[p].request.to>>}
        BY <3>2 DEF Links, Ends
      <3>5. \A e \in work[p].wants : Home[e] = Site(p) /\ ("entities" \notin lost => mem.entities[e] # None)
        BY <1>0, <2>2, <3>1 DEF EndsExist, Informed
      <3>6. \A x \in Links(p) : /\ x[1] # x[2] /\ x \in Entities \X Entities /\ Home[x[1]] = Home[x[2]]
                                /\ "entities" \notin lost => mem.entities[x[1]] # None /\ mem.entities[x[2]] # None
        BY <3>1, <3>3, <3>4, <3>5
      <3> QED BY <1>0, <1>2, <3>1, <3>6, Linking
    <2> QED BY <2>1, <2>2 DEF WriteEdges
  <1> QED BY <1>1, <1>2 DEF WriteEdges

LEMMA WriteFindingKeeps ==
  ASSUME Assumptions, IInv, NEW p \in Procs, WriteFinding(p)
  PROVE  IInv' /\ LossesStale
  <1> DEFINE r       == work[p].request
             base    == work[p].base
             finding == work[p].finding
             content == [mem.findings EXCEPT ![r.finding] = finding]
  <1>0. /\ Typed /\ Forget(p) /\ at[p] = "reading" /\ Placed(p) /\ Informed(p)
        /\ Op(p) \in {"create", "update"} /\ Put(p, "findings", content) /\ EvidenceHolds(p)
        /\ Sound("findings", mem.findings, mem, lost)
    BY DEF IInv, WriteFinding, HasRead, Held, Collections
  <1>1. p \in Calls /\ p \notin Tasks /\ r.op \in {"create", "update"} /\ Op(p) = r.op
    BY <1>0 DEF Op, Procs
  <1>2. /\ r \in Requests[p] /\ Considered(r, base, finding)
        /\ work[p].cites = {x.artifact : x \in Or(r.evidence, {})}
    BY <1>0, <1>1 DEF Placed
  <1>3. r \in Request
    BY <1>1, <1>2 DEF Assumptions, RequestAssumption
  <1>4. r.finding \in Findings /\ finding \in Finding /\ MayBeSaved(finding)
    BY <1>1, <1>2, <1>3 DEF Request, Considered
  <1>5. mem \in Content /\ content \in [Findings -> Finding \cup {None}]
        /\ \A f \in Findings : content[f] = IF f = r.finding THEN finding ELSE mem.findings[f]
    BY <1>0, <1>4 DEF Typed, Content
  <1>6. Site(p) = Home[r.finding]
    BY <1>1 DEF Site
  <1>7. /\ r.op = "update" /\ "artifacts" \notin lost => CitesArtifacts(base.evidence, mem.artifacts, Home[r.finding])
        /\ r.op = "update" /\ "entities" \notin lost => CitesEntities(base.evidence, mem.entities, Home[r.finding])
        /\ \A a \in work[p].cites : Home[a] = Site(p) /\ ("artifacts" \notin lost => a \in mem.artifacts)
        /\ "entities" \notin lost => \A e \in Entities : work[p].seen[e] # None => mem.entities[e] # None
    BY <1>0, <1>1 DEF Informed, Updating
  <1>8. \A x \in Or(r.evidence, {}) : x.entity # None => work[p].seen[x.entity] # None /\ Home[x.entity] = Site(p)
    BY <1>0 DEF EvidenceHolds
  <1>9. Put(p, "findings", content)
    BY <1>0
  <1> HIDE DEF content, r, base, finding
  <1>10. Alone("findings", content) /\ "findings" \in Collections
    BY <1>0, <1>4, <1>5 DEF Sound, Alone, Collections
  <1>11. /\ mem'["artifacts"] = mem["artifacts"] /\ mem'["entities"] = mem["entities"]
         /\ mem'["findings"] = content /\ at'[p] = "findings" /\ UNCHANGED lost
    BY <1>0, <1>9, <1>10, PutChanges DEF Collections
  <1>12. Grows(mem, mem', lost)
    BY <1>11 DEF Grows
  <1>13. /\ "artifacts" \notin lost => CitesArtifacts(finding.evidence, mem.artifacts, Home[r.finding])
         /\ "entities" \notin lost => CitesEntities(finding.evidence, mem.entities, Home[r.finding])
    <2>1. CASE r.evidence = None
      <3>1. r.op = "update"
        BY <1>1, <1>2, <2>1 DEF Assumptions, RequestAssumption
      <3>2. base.evidence = finding.evidence
        BY <1>2, <2>1, <3>1 DEF Considered, Or
      <3> QED BY <1>7, <3>1, <3>2
    <2>2. CASE r.evidence # None
      <3>1. finding.evidence = r.evidence /\ Or(r.evidence, {}) = r.evidence
        BY <1>1, <1>2, <2>2 DEF Considered, Or
      <3>2. \A x \in r.evidence : x.artifact \in work[p].cites /\ x.entity \in Entities \cup {None}
        BY <1>2, <1>4, <3>1 DEF Finding, Citation
      <3> QED BY <1>6, <1>7, <1>8, <3>1, <3>2 DEF CitesArtifacts, CitesEntities, ArtifactIn
    <2> QED BY <2>1, <2>2
  <1>14. Sound("findings", content, mem', lost)
    <2>1. ASSUME "artifacts" \notin lost, NEW f \in Findings, content[f] # None
          PROVE  CitesArtifacts(content[f].evidence, mem.artifacts, Home[f])
      BY <1>0, <1>5, <1>13, <2>1 DEF Sound, OnArtifacts
    <2>2. ASSUME "entities" \notin lost, NEW f \in Findings, content[f] # None
          PROVE  CitesEntities(content[f].evidence, mem.entities, Home[f])
      BY <1>0, <1>5, <1>13, <2>2 DEF Sound, OnEntities
    <2> QED BY <1>10, <1>11, <2>1, <2>2 DEF Sound, OnArtifacts, OnEntities
  <1>15. /\ work' \in [Procs -> Work] /\ work'[p] = Idle /\ work'[p].todo \subseteq work'[p].wants
         /\ \A q \in Procs : q # p => work'[q] = work[q]
    BY <1>0, ForgetsAll
  <1>16. Placed(p)' /\ Informed(p)'
    BY <1>11, <1>15, IdleWork DEF Placed, Informed, Updating, Seen
  <1>17. at[p] \notin Collections
    BY <1>0 DEF Collections
  <1>18. IInv'
    BY <1>9, <1>10, <1>12, <1>14, <1>15, <1>16, <1>17, PutKeeps
  <1>19. LossesStale
    <2>1. ASSUME NEW f \in Findings, mem.findings[f] \notin {None, content[f]}
          PROVE  /\ r.finding = f
                 /\ \/ base # mem.findings[f]
                    \/ /\ r.status = None => content[f].status = mem.findings[f].status
                       /\ r.evidence = None => content[f].evidence = mem.findings[f].evidence
      <3>1. f = r.finding /\ content[f] = finding
        BY <1>5, <2>1
      <3>2. CASE base = mem.findings[f]
        <4>1. r.op = "update"
          BY <1>1, <1>2, <2>1, <3>2 DEF Considered
        <4> QED BY <1>2, <3>1, <3>2, <4>1 DEF Considered, Or
      <3> QED BY <3>1, <3>2
    <2> QED BY <1>0, <1>11, <2>1 DEF LossesStale, r, base
  <1> QED BY <1>18, <1>19

-----------------------------------------------------------------------------
(* Late reads, restarts, and every step. *)

LEMMA LateReadKeeps ==
  ASSUME Assumptions, IInv, NEW c \in Collections, LateRead(c)
  PROVE  IInv' /\ LossesStale
  <1>1. PICK x \in past[c] : mem' = With(mem, c, x)
    BY DEF LateRead, With
  <1>0. Typed /\ Coherent /\ UNCHANGED <<at, work, disk, due, past>> /\ lost' = lost \cup {c}
    BY DEF IInv, LateRead
  <1>2. Alone(c, x) /\ x \in Held(c)
    BY DEF IInv, Held, Sound
  <1>3. mem' \in Content /\ mem'[c] = x /\ \A d \in Collections : d # c => mem'[d] = mem[d]
    <2>1. mem \in Content
      BY <1>0 DEF Typed
    <2> QED BY <1>1, <1>2, <2>1, Replaced
  <1>4. Typed'
    BY <1>0, <1>3 DEF Typed
  <1>5. Coherent'
    BY <1>0, <1>3 DEF Coherent
  <1>6. Grows(mem, mem', lost')
    <2>1. /\ "artifacts" \notin lost' => mem'["artifacts"] = mem["artifacts"]
          /\ "entities" \notin lost' => mem'["entities"] = mem["entities"]
      BY <1>0, <1>3 DEF Collections
    <2> QED BY <2>1 DEF Grows
  <1>7. \A d \in Collections : Held(d)' \subseteq Held(d)
    <2>1. Held(c)' \subseteq Held(c)
      BY <1>0, <1>2, <1>3 DEF Held
    <2>2. \A d \in Collections : d # c => Held(d)' = Held(d)
      BY <1>0, <1>3 DEF Held
    <2> QED BY <2>1, <2>2
  <1>8. IInv'
    BY <1>0, <1>4, <1>5, <1>6, <1>7, Frame
  <1>9. \A d \in Collections : mem'[d] = mem[d] \/ FallsBack(d)
    BY <1>0, <1>3 DEF FallsBack
  <1>10. LossesStale
    BY <1>9 DEF LossesStale, Collections
  <1> QED BY <1>8, <1>10

LEMMA RestartKeeps ==
  ASSUME Assumptions, IInv, Restart
  PROVE  IInv' /\ LossesStale
  <1>0. /\ Typed /\ Coherent /\ UNCHANGED disk /\ mem' = disk /\ due' = disk
        /\ past' = [c \in Collections |-> {disk[c]}]
        /\ lost' = lost \cup {c \in Collections : mem[c] # disk[c]}
        /\ at' = [p \in Procs |-> IF at[p] = "idle" THEN "idle" ELSE "ended"]
        /\ work' = [p \in Procs |-> Idle]
    BY DEF IInv, Restart
  <1>1. Typed'
    BY <1>0, IdleWork DEF Typed, Stages
  <1>2. \A p \in Procs : at'[p] \in {"idle", "ended"} /\ work'[p] = Idle
    BY <1>0
  <1>3. Coherent'
    BY <1>0, <1>2 DEF Coherent, Collections
  <1>4. \A p \in Procs : Placed(p)' /\ Informed(p)'
    BY <1>2, IdleWork DEF Placed, Informed, Updating, Seen
  <1>5. Grows(mem, mem', lost')
    <2>1. /\ "artifacts" \notin lost' => mem'["artifacts"] = mem["artifacts"]
          /\ "entities" \notin lost' => mem'["entities"] = mem["entities"]
      BY <1>0 DEF Collections
    <2> QED BY <2>1 DEF Grows
  <1>6. \A c \in Collections : Held(c)' \subseteq Held(c)
    BY <1>0 DEF Held
  <1>7. IInv'
    BY <1>0, <1>1, <1>3, <1>4, <1>5, <1>6, Frame
  <1>8. \A c \in Collections : FallsBack(c)
    BY <1>0, <1>2 DEF FallsBack, Collections
  <1>9. LossesStale
    BY <1>8 DEF LossesStale, Collections
  <1> QED BY <1>7, <1>9

LEMMA StepKeeps ==
  ASSUME Assumptions, IInv, NEW p \in Procs, Step(p)
  PROVE  IInv' /\ LossesStale
  <1>1. CASE Refuse(p)
    BY <1>1, EndKeeps DEF Refuse, End
  <1> QED BY <1>1, CheckArtifactsKeeps, ReadEntityKeeps, WriteEntitiesKeeps, WriteEdgesKeeps,
             WriteFindingKeeps, SavedKeeps, NotSavedKeeps DEF Step

LEMMA NextKeeps ==
  ASSUME Assumptions, IInv, [Next]_vars
  PROVE  IInv' /\ LossesStale
  <1>1. CASE UNCHANGED vars
    <2>1. Typed' /\ Coherent' /\ Grows(mem, mem', lost') /\ lost \subseteq lost'
      BY <1>1 DEF vars, IInv, Typed, Coherent, Grows
    <2>2. \A c \in Collections : Held(c)' = Held(c)
      BY <1>1 DEF vars, Held
    <2>3. \A q \in Procs : at'[q] = at[q] /\ work'[q] = work[q]
      BY <1>1 DEF vars
    <2>4. IInv'
      BY <2>1, <2>2, <2>3, Frame
    <2>5. LossesStale
      BY <1>1 DEF vars, LossesStale
    <2> QED BY <2>4, <2>5
  <1>2. CASE Next
    BY <1>2, FindArtifactKeeps, RecordArtifactKeeps, StartIndexingKeeps, CallGraphKeeps, CallCreateKeeps,
       CallUpdateKeeps, StepKeeps, LateReadKeeps, RestartKeeps DEF Next
  <1> QED BY <1>1, <1>2

LEMMA InitSound ==
  ASSUME Assumptions, Init
  PROVE  IInv
  <1>1. Empty \in Content
    BY DEF Empty, Content
  <1>2. Typed
    BY <1>1, IdleWork DEF Init, Typed, Stages
  <1>3. Coherent
    BY DEF Init, Coherent, Collections
  <1>4. \A p \in Procs : Placed(p) /\ Informed(p)
    BY IdleWork DEF Init, Placed, Informed, Updating, Seen
  <1>5. ASSUME NEW c \in Collections, NEW x \in Held(c) PROVE Sound(c, x, mem, lost)
    <2>1. x = Empty[c]
      BY <1>5 DEF Init, Held
    <2>2. Alone(c, Empty[c])
      BY DEF Alone, Empty, Seen
    <2>3. OnArtifacts(c, Empty[c], mem.artifacts) /\ OnEntities(c, Empty[c], mem.entities)
      BY DEF OnArtifacts, OnEntities, Empty, Seen
    <2> QED BY <2>1, <2>2, <2>3 DEF Sound
  <1> QED BY <1>2, <1>3, <1>4, <1>5 DEF IInv

-----------------------------------------------------------------------------
(* What one check and one report say. *)

\* A place that is checked is verified only if it is there, and failed only if not.
LEMMA CheckLocationTells ==
  ASSUME NEW place, NEW location \in Location,
         {place.root[location.file], place.sources[location.file]} \subseteq Entry
  PROVE  LET verdict == CheckLocation(place, location) IN
         /\ verdict \in Verdicts
         /\ verdict = "verified" => Shows(place, location)
         /\ verdict = "failed" <=> ~Shows(place, location) /\ place.pathType = "directory" /\ place.present
  <1> DEFINE entry == Resolved(place, location.file)
             lines == location.lines
  <1>1. entry \in Entry /\ entry.lines \in Nat /\ entry.large \in BOOLEAN
    BY DEF Resolved, Entry
  <1>2. lines \in Seq(Nat) /\ Len(lines) \in 0 .. 2 /\ DOMAIN lines = 1 .. Len(lines)
    <2>1. lines \in Seq(Nat) /\ Len(lines) <= 2
      BY DEF Location
    <2> HIDE DEF lines
    <2>2. Len(lines) \in Nat /\ DOMAIN lines = 1 .. Len(lines)
      BY <2>1, LenProperties
    <2> QED BY <2>1, <2>2
  <1>3. Shows(place, location) <=> ~location.absolute /\ HasLines(entry, lines)
    BY DEF Shows, HasLines, Resolved, Entry
  <1>4. /\ CheckLines(entry, lines) \in Verdicts
        /\ CheckLines(entry, lines) = "verified" /\ entry.kind = "file" => HasLines(entry, lines)
        /\ entry.kind = "file" => (CheckLines(entry, lines) = "failed" <=> ~HasLines(entry, lines))
    <2>1. CASE lines = <<>>
      <3>1. DOMAIN lines = {}
        BY <1>2, <2>1
      <3> QED BY <2>1, <3>1 DEF CheckLines, HasLines, Verdicts
    <2>2. CASE lines # <<>>
      <3>1. /\ Len(lines) \in {1, 2} /\ lines[1] \in Nat /\ lines[Len(lines)] \in Nat
            /\ \A k \in DOMAIN lines : k = 1 \/ k = Len(lines)
            /\ 1 \in DOMAIN lines /\ Len(lines) \in DOMAIN lines
        <4> HIDE DEF lines, entry
        <4>1. Len(lines) \in {1, 2}
          BY <1>2, <2>2, EmptySeq
        <4>2. lines[1] \in Nat /\ lines[Len(lines)] \in Nat
          BY <1>2, <4>1, ElementOfSeq
        <4> QED BY <1>2, <4>1, <4>2
      <3> HIDE DEF lines, entry
      <3>2. HasLines(entry, lines) <=>
              /\ entry.kind = "file" /\ 1 <= lines[1] /\ lines[1] <= lines[Len(lines)]
              /\ entry.large \/ lines[Len(lines)] <= entry.lines
        BY <1>1, <3>1 DEF HasLines
      <3>3. CASE lines[1] < 1 \/ lines[Len(lines)] < lines[1]
        <4>1. CheckLines(entry, lines) = "failed"
          BY <2>2, <3>1, <3>3 DEF CheckLines
        <4> QED BY <3>1, <3>2, <3>3, <4>1 DEF Verdicts
      <3>4. CASE lines[1] >= 1 /\ lines[Len(lines)] >= lines[1]
        <4>1. CheckLines(entry, lines) =
                IF entry.large THEN "unverified"
                ELSE IF lines[Len(lines)] <= entry.lines THEN "verified" ELSE "failed"
          BY <2>2, <3>1, <3>4 DEF CheckLines
        <4> QED BY <1>1, <3>1, <3>2, <3>4, <4>1 DEF Verdicts
      <3> QED BY <3>1, <3>3, <3>4
    <2> QED BY <2>1, <2>2
  <1>5. entry.kind # "file" => ~HasLines(entry, lines)
    BY DEF HasLines
  <1> HIDE DEF entry, lines
  <1>6. CheckLocation(place, location) =
          IF place.pathType # "directory" \/ ~place.present THEN "unverified"
          ELSE IF location.absolute \/ entry.kind # "file" THEN "failed" ELSE CheckLines(entry, lines)
    BY DEF CheckLocation, entry, lines
  <1> QED BY <1>3, <1>4, <1>5, <1>6 DEF Verdicts

LEMMA SummarizeTells ==
  ASSUME NEW items, items \subseteq Verdicts
  PROVE  /\ Summarize(items) = "verified" <=> items = {"verified"}
         /\ Summarize(items) = "failed" <=> "failed" \in items
  BY DEF Summarize, Verdicts

LEMMA ReportTells ==
  ASSUME Typed, Alone("entities", mem.entities), HomeAssumption, LocationsAssumption, OnDiskAssumption, NoneAssumption
  PROVE  ReportsTell
  <1> SUFFICES ASSUME NEW f \in Findings, mem.findings[f] # None
               PROVE  LET evidence == mem.findings[f].evidence
                          report == VerifyFinding(f)
                          There(x) == OnDisk[Output[x.artifact]]
                      IN /\ report = "verified" => evidence # {} /\ \A x \in evidence :
                              Recorded(f, x) /\ Observed(x) /\ x.location # None /\ Shows(There(x), x.location)
                         /\ report = "failed" <=> \E x \in evidence :
                              \/ ~Recorded(f, x) \/ ~Observed(x)
                              \/ /\ x.location # None /\ ~Shows(There(x), x.location)
                                 /\ There(x).pathType = "directory" /\ There(x).present
    BY DEF ReportsTell
  <1> DEFINE evidence == mem.findings[f].evidence
             There(x) == OnDisk[Output[x.artifact]]
             Wrong(x) == \/ ~Recorded(f, x) \/ ~Observed(x)
                         \/ /\ x.location # None /\ ~Shows(There(x), x.location)
                            /\ There(x).pathType = "directory" /\ There(x).present
             Right(x) == Recorded(f, x) /\ Observed(x) /\ x.location # None /\ Shows(There(x), x.location)
  <1>1. evidence \subseteq Citation
    BY DEF Typed, Content, Finding
  <1>2. ASSUME NEW x \in evidence
        PROVE  /\ CheckItem(f, x) \in Verdicts
               /\ CheckItem(f, x) = "verified" => Right(x)
               /\ CheckItem(f, x) = "failed" <=> Wrong(x)
    <2>1. /\ x.artifact \in Tasks /\ x.entity \in Entities \cup {None}
          /\ x.location \in Locations \cup {None}
      BY <1>1 DEF Citation
    <2> DEFINE location == IF x.location = None THEN "unverified" ELSE CheckLocation(There(x), x.location)
               entity == IF x.entity = None THEN None
                         ELSE IF Home[x.entity] # Home[f] THEN "failed"
                         ELSE CheckEntity(mem.entities[x.entity], x.artifact)
    <2>2. /\ location \in Verdicts
          /\ location = "verified" => x.location # None /\ Shows(There(x), x.location)
          /\ location = "failed" <=> /\ x.location # None /\ ~Shows(There(x), x.location)
                                     /\ There(x).pathType = "directory" /\ There(x).present
      <3>1. CASE x.location = None
        BY <3>1 DEF Verdicts
      <3>2. CASE x.location # None
        <4>1. /\ x.location \in Location
              /\ {There(x).root[x.location.file], There(x).sources[x.location.file]} \subseteq Entry
          BY <2>1, <3>2 DEF LocationsAssumption, OnDiskAssumption
        <4> HIDE DEF There
        <4> QED BY <3>2, <4>1, CheckLocationTells
      <3> QED BY <3>1, <3>2
    <2>3. Recorded(f, x) => (entity = "failed" <=> ~Observed(x))
      <3>1. CASE x.entity = None
        BY <3>1 DEF Observed, NoneAssumption, Verdicts
      <3>2. CASE x.entity # None
        <4>1. x.entity \in Entities /\ (Observed(x) <=> x.artifact \in Seen(mem.entities[x.entity]))
          BY <2>1, <3>2 DEF Observed
        <4>2. Observed(x) => Home[x.artifact] = Home[x.entity]
          BY <4>1 DEF Alone
        <4>3. CheckEntity(mem.entities[x.entity], x.artifact) = "failed" <=> ~Observed(x)
          BY <4>1 DEF CheckEntity, Seen
        <4> QED BY <3>2, <4>2, <4>3 DEF Recorded
      <3> QED BY <3>1, <3>2
    <2>4. CheckItem(f, x) = IF Recorded(f, x) THEN CombineChecks(location, entity) ELSE "failed"
      BY DEF CheckItem, Recorded
    <2> HIDE DEF location, entity, There
    <2> QED BY <2>2, <2>3, <2>4 DEF CombineChecks, Verdicts
  <1> DEFINE items == {CheckItem(f, x) : x \in evidence}
  <1>3. items \subseteq Verdicts
    BY <1>2
  <1>4. VerifyFinding(f) = Summarize(items)
    BY DEF VerifyFinding
  <1>5. VerifyFinding(f) = "verified" => evidence # {} /\ \A x \in evidence : Right(x)
    <2>1. VerifyFinding(f) = "verified" => items = {"verified"}
      BY <1>3, <1>4, SummarizeTells
    <2> HIDE DEF Right
    <2> QED BY <1>2, <2>1
  <1>6. VerifyFinding(f) = "failed" <=> \E x \in evidence : Wrong(x)
    <2>1. VerifyFinding(f) = "failed" <=> "failed" \in items
      BY <1>3, <1>4, SummarizeTells
    <2> HIDE DEF Wrong
    <2> QED BY <1>2, <2>1
  <1> QED BY <1>5, <1>6

-----------------------------------------------------------------------------
(* The theorems. *)

\* The invariant holds in every state, and every loss is a fall back or a stale
\* writer's.
THEOREM InductiveInvariant == Spec => []IInv /\ [][LossesStale]_vars
  <1>0. Assumptions
    BY HomeAssumption, BatchAssumption, RequestAssumption, NoneAssumption, ProcsAssumption DEF Assumptions
  <1>1. Init => IInv
    BY <1>0, InitSound
  <1>2. IInv /\ [Next]_vars => IInv' /\ LossesStale
    BY <1>0, NextKeeps
  <1> QED BY <1>1, <1>2, PTL DEF Spec

\* What is in memory is sound.
LEMMA InMemory ==
  ASSUME IInv, NEW c \in Collections PROVE Sound(c, mem[c], mem, lost)
  BY DEF IInv, Held

LEMMA WellTyped ==
  ASSUME IInv PROVE TypeOK
  <1>1. ASSUME NEW c \in Collections PROVE disk[c] \in past[c] /\ \A x \in past[c] : [mem EXCEPT ![c] = x] \in Content
    <2>1. \A x \in past[c] : Alone(c, x)
      BY DEF IInv, Held, Sound
    <2>2. mem \in Content /\ disk[c] \in past[c]
      BY DEF IInv, Typed, Coherent
    <2>3. \A x \in past[c] : With(mem, c, x) \in Content
      BY <2>1, <2>2, Replaced
    <2> QED BY <2>2, <2>3 DEF With
  <1> QED BY <1>1 DEF IInv, Typed, TypeOK, Stages, Work

\* Whatever tasks, calls, failed writes, late first reads and restarts overlap: a
\* confirmed finding has evidence, in memory and in all that a file may bring back;
\* while the artifacts have not fallen back to a file, entities and findings cite
\* recorded ones; and while the entities have not, edges connect two that are
\* there and findings cite such - each in its own workspace (recorder.ts,
\* graph.service.ts, finding.service.ts).
THEOREM ReferencesAreReal == Spec => []ReferencesHold
  <1>1. IInv => ReferencesHold
    <2> SUFFICES ASSUME IInv PROVE ReferencesHold
      OBVIOUS
    <2>1. TypeOK
      BY WellTyped
    <2>2. ConfirmedHasEvidence
      BY DEF IInv, Sound, Alone, MayBeSaved, ConfirmedHasEvidence, Collections
    <2>3. /\ Sound("entities", mem["entities"], mem, lost) /\ Sound("edges", mem["edges"], mem, lost)
          /\ Sound("findings", mem["findings"], mem, lost)
      BY InMemory DEF Collections
    <2>4. "artifacts" \notin lost => ObservationsReal /\ ArtifactsReal
      BY <2>3 DEF Sound, OnArtifacts, CitesArtifacts, ArtifactIn, ObservationsReal, ArtifactsReal
    <2>5. "entities" \notin lost => EdgesConnect /\ EntitiesReal
      BY <2>3 DEF Sound, OnEntities, CitesEntities, EdgesConnect, EntitiesReal
    <2> QED BY <2>1, <2>2, <2>4, <2>5 DEF ReferencesHold
  <1> QED BY <1>1, InductiveInvariant, PTL

\* An observation, or a field of a finding that was not asked to change, is lost
\* only when its collection falls back to a file, or to a writer that had read the
\* record when it was another: indexBatch(), upsertEntity() and updateFinding()
\* lose nothing of calls they do not overlap.
THEOREM LossesAreStaleReads == Spec => LostToStaleReads
  <1> QED BY InductiveInvariant, PTL DEF LostToStaleReads, LossesStale

\* A report says "verified" only of evidence that is recorded, observed and there
\* to be seen, and "failed" when and only when a piece is not: for any directories
\* on disk and any locations, and also when a restart or a late first read has
\* brought back older records than a finding cites (verifyFinding, checkLocation,
\* verifyEvidence).
THEOREM ReportsAreTrue == Spec => []ReportsTell
  <1>1. IInv => ReportsTell
    <2> SUFFICES ASSUME IInv PROVE ReportsTell
      OBVIOUS
    <2>1. Typed /\ Alone("entities", mem["entities"])
      BY InMemory DEF IInv, Sound, Collections
    <2> QED BY <2>1, ReportTells, HomeAssumption, LocationsAssumption, OnDiskAssumption, NoneAssumption
  <1> QED BY <1>1, InductiveInvariant, PTL
=============================================================================
