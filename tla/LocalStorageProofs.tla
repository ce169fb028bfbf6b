-------------------------- MODULE LocalStorageProofs --------------------------
(***************************************************************************)
(* Proofs about a collection of the local file store, for any operations   *)
(* on any records and any use of the collection: hydrated or cold, read    *)
(* and written at any time.  The inductive invariant says that the head of *)
(* the queue is the only writer at work (Locked), that nobody has the      *)
(* object of an operation that is still reading the file (Unshared), what  *)
(* a cold collection is like (Warming), and how far memory, the file and   *)
(* what readers were promised may differ (Kept, Seen, Promised).           *)
(***************************************************************************)
EXTENDS LocalStorage, TLAPS

Readers == {p \in Ops : Kind[p] = "read"}
AtWork  == {"opening", "reading", "writing", "renamed"}
Busy    == {"writing", "renamed"}
Early   == {"idle", "queued", "opening", "reading"}

\* The head of the queue is the only writer at work, and readers never queue.
Locked ==
  /\ \A p \in Writers :
       /\ phase[p] \in AtWork => queue # <<>> /\ Head(queue) = p
       /\ phase[p] = "queued" => \E k \in DOMAIN queue : queue[k] = p
  /\ \A p \in Readers : phase[p] \notin {"queued", "writing", "renamed"}

\* Nobody else has the object of an operation that is still reading the file.
Unshared == \A p \in Ops : phase[p] \in Early => cache # p /\ \A q \in Ops : data[q] # p

\* A cold collection has a file that no write has changed since boot, and a
\* writer that finds it cold is the first to change it.
Warming ==
  /\ disk \in past /\ (cache = Cold => past = {disk})
  /\ \A p \in Ops : phase[p] = "reading" => heap[p] \in past
  /\ \A p \in Writers :
       /\ phase[p] \in {"opening", "reading"} => past = {disk} /\ Memory = disk
       /\ phase[p] \in Busy => cache # Cold
       /\ phase[p] = "renamed" => heap[data[p]] = disk

\* What the file may hold of record i, and what a read may see.
Sound(i) == {truth[i]} \cup Effects(Uncertain, i) \cup Recalled(i)
Fresh(r, i) == {view[r].floor[i]} \cup Effects(view[r].late, i) \cup Recalled(i)

InFlight == {q \in Writers : phase[q] = "writing"}

Missing(r, i) == \E q \in missed[r] : i \in Targets[q]

Kept ==
  \A i \in Ids :
    /\ disk[i] \in Sound(i)
    /\ Memory[i] \in Sound(i) \cup Effects(InFlight, i)
    /\ \A p \in Writers :
         /\ phase[p] = "writing" => heap[data[p]][i] \in IF i \in Targets[p] THEN {Effect(p, i)} ELSE Sound(i)
         /\ phase[p] = "renamed" /\ i \in Targets[p] => disk[i] = Effect(p, i)
    /\ \A r \in Readers : phase[r] = "reading" => heap[r][i] \in Sound(i) \/ Missing(r, i)

\* A read that is under way misses the write that has been renamed, or sees it.
Seen ==
  \A r \in Readers, p \in Writers :
    phase[r] = "reading" /\ phase[p] = "renamed" => p \in missed[r] \/ heap[r] = disk

Promised ==
  \A r \in Readers :
    /\ phase[r] \in {"opening", "reading"} =>
         /\ \A q \in Writers : phase[q] # "done" => q \in view[r].late
         /\ \A i \in Ids : truth[i] \in Fresh(r, i)
    /\ phase[r] = "reading" => \A i \in Ids : heap[r][i] \in Fresh(r, i)
    /\ phase[r] = "done" => \A i \in Ids : view[r].saw[i] \in Fresh(r, i)

IInv == TypeOK /\ Locked /\ Unshared /\ Warming /\ Kept /\ Seen /\ Promised

-----------------------------------------------------------------------------
LEMMA Kinds ==
  /\ Readers \cup Writers = Ops /\ Readers \cap Writers = {}
  /\ Readers \subseteq Ops /\ Writers \subseteq Ops
  BY DEF Readers, Writers

\* Whoever is at the head of the queue has the lock to itself.
LEMMA Alone ==
  ASSUME IInv, NEW p \in Writers, phase[p] \in AtWork \/ (phase[p] = "queued" /\ Head(queue) = p),
         NEW q \in Writers, q # p
  PROVE  phase[q] \notin AtWork
  BY DEF IInv, Locked, AtWork

\* The head of the queue gone, those behind it still wait.
LEMMA LeaveLocked ==
  ASSUME IInv, NEW p \in Ops, NEW ph \in Ended, Leave(p, ph),
         phase[p] \in AtWork \/ (phase[p] = "queued" /\ p \in Writers /\ Head(queue) = p)
  PROVE  /\ phase' = [phase EXCEPT ![p] = ph] /\ phase' \in [Ops -> Phase]
         /\ Locked' /\ queue' \in Seq(Writers)
         /\ p \in Readers => queue' = queue
         /\ p \in Writers => /\ \A q \in Writers : phase'[q] \notin AtWork
                             /\ queue' # <<>> => Head(queue') \in Writers
  <1>0. queue \in Seq(Writers) /\ phase \in [Ops -> Phase] /\ Locked
    BY DEF IInv, TypeOK
  <1>1. phase' = [phase EXCEPT ![p] = ph] /\ phase' \in [Ops -> Phase]
    BY <1>0 DEF Leave, Goto, Ended, Phase
  <1>2. CASE p \in Writers
    <2>1. queue # <<>> /\ Head(queue) = p /\ queue' = Tail(queue)
      <3>1. phase[p] = "queued" => queue # <<>>
        BY <1>0, <1>2 DEF Locked
      <3> QED BY <1>0, <1>2, <3>1 DEF Locked, Leave
    <2>2. /\ Len(queue) \in Nat \ {0} /\ queue[1] = p /\ queue' \in Seq(Writers)
          /\ Len(queue') = Len(queue) - 1
          /\ \A k \in 1 .. Len(queue) - 1 : queue'[k] = queue[k + 1]
      BY <1>0, <2>1
    <2>3. ASSUME NEW q \in Writers, phase'[q] = "queued" PROVE \E k \in DOMAIN queue' : queue'[k] = q
      <3>1. q # p /\ phase[q] = "queued"
        BY <1>0, <1>1, <2>3, Kinds DEF Ended
      <3>2. PICK k \in DOMAIN queue : queue[k] = q
        BY <1>0, <3>1 DEF Locked
      <3>3. k \in 2 .. Len(queue)
        BY <1>0, <2>2, <3>1, <3>2
      <3>4. k - 1 \in DOMAIN queue' /\ queue'[k - 1] = q
        BY <2>2, <3>2, <3>3
      <3> QED BY <3>4
    <2>4. \A q \in Writers : phase'[q] \notin AtWork
      <3> SUFFICES ASSUME NEW q \in Writers PROVE phase'[q] \notin AtWork
        OBVIOUS
      <3>1. q # p => phase[q] \notin AtWork
        BY <1>2, Alone
      <3> QED BY <1>0, <1>1, <3>1, Kinds DEF Ended, AtWork
    <2>5. \A r \in Readers : phase'[r] \notin {"queued", "writing", "renamed"}
      BY <1>0, <1>1, <1>2, Kinds DEF Locked
    <2>6. queue' # <<>> => Head(queue') \in Writers
      BY <2>2
    <2> QED BY <1>1, <1>2, <2>2, <2>3, <2>4, <2>5, <2>6, Kinds DEF Locked
  <1>3. CASE p \in Readers
    <2>1. queue' = queue /\ \A q \in Writers : phase'[q] = phase[q]
      BY <1>0, <1>1, <1>3, Kinds DEF Leave
    <2>2. \A r \in Readers : phase'[r] \notin {"queued", "writing", "renamed"}
      BY <1>0, <1>1, <1>3, Kinds DEF Locked, Ended
    <2> QED BY <1>0, <1>1, <1>3, <2>1, <2>2, Kinds DEF Locked
  <1> QED BY <1>2, <1>3, Kinds

\* As long as no write returns, what the file may hold only ever grows.
LEMMA SoundGrows ==
  ASSUME UNCHANGED truth, \A q \in Uncertain : q \in Uncertain',
         \A r \in Readers : phase[r] = "done" => /\ phase'[r] = "done"
                                                 /\ view'[r] = view[r] /\ missed'[r] = missed[r],
         NEW i
  PROVE  Sound(i) \subseteq Sound(i)' /\ Recalled(i) \subseteq Recalled(i)'
  <1>1. Effects(Uncertain, i) \subseteq Effects(Uncertain', i)
    BY DEF Effects
  <1>2. LateReads(i) \subseteq LateReads(i)'
    BY DEF LateReads, Readers
  <1>3. \A r \in LateReads(i) : view'[r] = view[r]
    BY DEF LateReads, Readers
  <1>4. Recalled(i) \subseteq Recalled(i)'
    BY <1>2, <1>3 DEF Recalled
  <1> QED BY <1>1, <1>4 DEF Sound, Effects

\* What a write in front, or the file if there is none, is due to leave there.
LEMMA DueIdle ==
  ASSUME IInv, \A q \in Writers : phase[q] \notin Busy
  PROVE  Due = disk
  BY DEF IInv, TypeOK, Due, Writing, Busy

LEMMA DueBusy ==
  ASSUME IInv, NEW p \in Writers, phase[p] \in Busy
  PROVE  Due = heap[data[p]]
  BY DEF IInv, Locked, Due, Writing, Busy, AtWork

-----------------------------------------------------------------------------
\* Each step keeps the invariant, and is one of the promised map or a stutter.
LEMMA CallReadKeeps ==
  ASSUME OpsAssumption, IInv, NEW p \in Ops, CallRead(p)
  PROVE  IInv' /\ UNCHANGED <<Memory, disk, past, Due>>
  <1> DEFINE late == {q \in Writers : phase[q] # "done"}
             seen == [floor |-> truth, saw |-> Memory, late |-> late]
  <1>0. /\ TypeOK /\ Locked /\ Unshared /\ Warming /\ Kept /\ Seen /\ Promised
        /\ p \in Readers /\ p \notin Writers /\ phase[p] = "idle" /\ phase \in [Ops -> Phase]
    BY DEF IInv, CallRead, Readers, Writers, TypeOK
  <1>1. /\ phase' = [phase EXCEPT ![p] = IF cache = Cold THEN "opening" ELSE "done"]
        /\ phase' \in [Ops -> Phase] /\ \A q \in Ops : q # p => phase'[q] = phase[q]
        /\ phase'[p] = IF cache = Cold THEN "opening" ELSE "done"
    BY <1>0 DEF CallRead, Goto, Phase
  <1>2. UNCHANGED <<use, queue, cache, heap, data, disk, truth, missed, past, Memory>>
    BY DEF CallRead, Memory
  <1>3. Memory \in Map
    BY <1>0 DEF TypeOK, Memory
  <1>4. /\ view' \in [Ops -> [floor: Map, saw: Map, late: SUBSET Writers]]
        /\ view'[p].floor = truth /\ view'[p].saw = Memory /\ view'[p].late = late
        /\ \A q \in Ops : q # p => view'[q] = view[q]
    BY <1>0, <1>3 DEF CallRead, TypeOK
  <1>5. TypeOK'
    BY <1>0, <1>1, <1>2, <1>4 DEF TypeOK
  <1>6. \A q \in Writers : phase'[q] = phase[q]
    BY <1>0, <1>1, Kinds
  <1>7. Locked' /\ Unshared'
    <2>1. Locked'
      BY <1>0, <1>1, <1>2, <1>6 DEF Locked
    <2>2. Unshared'
      BY <1>0, <1>1, <1>2 DEF Unshared, Early
    <2> QED BY <2>1, <2>2
  <1>8. Warming' /\ Seen'
    BY <1>0, <1>1, <1>2, <1>6 DEF Warming, Seen
  <1>9. /\ Uncertain' = Uncertain /\ InFlight' = InFlight
        /\ \A i : Sound(i) \subseteq Sound(i)' /\ Recalled(i) \subseteq Recalled(i)'
    <2>1. Uncertain' = Uncertain /\ InFlight' = InFlight
      BY <1>6 DEF Uncertain, InFlight
    <2>2. \A r \in Readers : phase[r] = "done" => /\ phase'[r] = "done"
                                                  /\ view'[r] = view[r] /\ missed'[r] = missed[r]
      BY <1>0, <1>1, <1>2, <1>4, Kinds
    <2> QED BY <1>2, <2>1, <2>2, SoundGrows
  <1>10. Kept'
    <2> SUFFICES ASSUME NEW i \in Ids
        PROVE /\ disk[i] \in Sound(i)' /\ Memory[i] \in Sound(i)' \cup Effects(InFlight, i)
              /\ \A q \in Writers :
                   /\ phase[q] = "writing" =>
                        heap[data[q]][i] \in IF i \in Targets[q] THEN {Effect(q, i)} ELSE Sound(i)'
                   /\ phase[q] = "renamed" /\ i \in Targets[q] => disk[i] = Effect(q, i)
              /\ \A r \in Readers : phase'[r] = "reading" => heap[r][i] \in Sound(i)' \/ Missing(r, i)
      BY <1>2, <1>6, <1>9 DEF Kept, Missing
    <2>1. \A r \in Readers : phase'[r] = "reading" => phase[r] = "reading"
      BY <1>0, <1>1, Kinds
    <2> QED BY <1>0, <1>9, <2>1 DEF Kept
  <1>11. Promised'
    <2> SUFFICES ASSUME NEW r \in Readers
        PROVE /\ phase'[r] \in {"opening", "reading"} =>
                   /\ \A q \in Writers : phase'[q] # "done" => q \in view'[r].late
                   /\ \A i \in Ids : truth'[i] \in Fresh(r, i)'
              /\ phase'[r] = "reading" => \A i \in Ids : heap'[r][i] \in Fresh(r, i)'
              /\ phase'[r] = "done" => \A i \in Ids : view'[r].saw[i] \in Fresh(r, i)'
      BY DEF Promised, Readers
    <2>1. CASE r = p
      <3>1. \A i \in Ids : truth'[i] \in Fresh(p, i)'
        BY <1>2, <1>4 DEF Fresh
      <3>2. \A q \in Uncertain \cup InFlight : q \in late
        BY DEF Uncertain, InFlight
      <3>3. ASSUME NEW i \in Ids PROVE Memory[i] \in Fresh(p, i)'
        <4>1. Effects(Uncertain, i) \cup Effects(InFlight, i) \subseteq Effects(late, i)
          BY <3>2 DEF Effects
        <4>2. Memory[i] \in Sound(i) \cup Effects(InFlight, i)
          BY <1>0 DEF Kept
        <4> QED BY <1>4, <1>9, <4>1, <4>2 DEF Fresh, Sound
      <3> QED BY <1>1, <1>4, <1>6, <2>1, <3>1, <3>3
    <2>2. CASE r # p
      <3>1. r \in Ops /\ phase'[r] = phase[r] /\ view'[r] = view[r]
        BY <1>1, <1>4, <2>2, Kinds
      <3>2. \A i : Fresh(r, i) \subseteq Fresh(r, i)'
        BY <1>9, <3>1 DEF Fresh
      <3> QED BY <1>0, <1>2, <1>6, <3>1, <3>2 DEF Promised
    <2> QED BY <2>1, <2>2
  <1>12. Due' = Due
    <2>1. queue # <<>> => Head(queue) \in Writers
      BY <1>0 DEF TypeOK
    <2> QED BY <1>2, <1>6, <2>1 DEF Due, Writing
  <1> QED BY <1>2, <1>5, <1>7, <1>8, <1>10, <1>11, <1>12 DEF IInv

LEMMA CallWriteKeeps ==
  ASSUME OpsAssumption, IInv, NEW p \in Ops, CallWrite(p)
  PROVE  IInv' /\ UNCHANGED <<Memory, disk, past, Due>>
  <1>0. /\ TypeOK /\ Locked /\ p \in Writers /\ p \notin Readers /\ phase[p] = "idle"
        /\ phase \in [Ops -> Phase] /\ queue \in Seq(Writers)
    BY DEF IInv, CallWrite, Readers, Writers, TypeOK
  <1>1. /\ phase' = [phase EXCEPT ![p] = "queued"] /\ phase' \in [Ops -> Phase]
        /\ phase'[p] = "queued" /\ \A q \in Ops : q # p => phase'[q] = phase[q]
    BY <1>0 DEF CallWrite, Goto, Phase
  <1>2. /\ queue' = Append(queue, p)
        /\ UNCHANGED <<use, cache, heap, data, disk, truth, view, missed, past, Memory>>
    BY DEF CallWrite, Memory
  <1>3. /\ queue' \in Seq(Writers) /\ Len(queue) \in Nat /\ queue' # <<>>
        /\ DOMAIN queue = 1 .. Len(queue) /\ DOMAIN queue' = 1 .. Len(queue) + 1
        /\ \A k \in DOMAIN queue : queue'[k] = queue[k]
        /\ queue'[Len(queue) + 1] = p
        /\ Head(queue') = IF queue = <<>> THEN p ELSE Head(queue)
    BY <1>0, <1>2
  <1>4. TypeOK'
    BY <1>0, <1>1, <1>2, <1>3 DEF TypeOK
  <1>5. Locked'
    <2>1. ASSUME NEW q \in Writers, phase'[q] \in AtWork PROVE queue' # <<>> /\ Head(queue') = q
      <3>1. phase[q] \in AtWork
        BY <1>1, <2>1, Kinds DEF AtWork
      <3> QED BY <1>0, <1>3, <3>1 DEF Locked
    <2>2. ASSUME NEW q \in Writers, phase'[q] = "queued" PROVE \E k \in DOMAIN queue' : queue'[k] = q
      <3>1. CASE q = p
        BY <1>3, <3>1
      <3>2. CASE q # p
        BY <1>0, <1>1, <1>3, <2>2, <3>2, Kinds DEF Locked
      <3> QED BY <3>1, <3>2
    <2>3. \A r \in Readers : phase'[r] \notin {"queued", "writing", "renamed"}
      BY <1>0, <1>1, Kinds DEF Locked
    <2> QED BY <2>1, <2>2, <2>3 DEF Locked
  <1>6. \A q \in Ops : phase'[q] = phase[q] \/ (phase[q] = "idle" /\ phase'[q] = "queued" /\ q \in Writers)
    BY <1>0, <1>1
  <1>7. Unshared'
    BY <1>2, <1>6 DEF IInv, Unshared, Early
  <1>8. Warming' /\ Seen'
    BY <1>2, <1>6, Kinds DEF IInv, Warming, Seen, Busy
  <1>9. /\ Uncertain' = Uncertain /\ InFlight' = InFlight
        /\ \A i : Sound(i)' = Sound(i) /\ Recalled(i)' = Recalled(i)
    <2>1. Uncertain' = Uncertain /\ InFlight' = InFlight
      BY <1>6, Kinds DEF Uncertain, InFlight
    <2>2. ASSUME NEW i PROVE LateReads(i)' = LateReads(i)
      BY <1>2, <1>6 DEF LateReads
    <2> QED BY <1>2, <2>1, <2>2 DEF Sound, Recalled
  <1>10. Kept'
    BY <1>2, <1>6, <1>9, Kinds DEF IInv, Kept, Missing
  <1>11. Promised'
    BY <1>2, <1>6, <1>9, Kinds DEF IInv, Promised, Fresh
  <1>12. Due' = Due
    <2>1. CASE queue = <<>>
      BY <1>1, <1>2, <1>3, <2>1 DEF Due, Writing
    <2>2. CASE queue # <<>>
      <3>1. Head(queue') = Head(queue) /\ Head(queue) \in Writers
        BY <1>0, <1>3, <2>2
      <3>2. phase'[Head(queue)] \in Busy <=> phase[Head(queue)] \in Busy
        BY <1>6, <3>1, Kinds DEF Busy
      <3> QED BY <1>2, <1>3, <2>2, <3>1, <3>2 DEF Due, Writing, Busy
    <2> QED BY <2>1, <2>2
  <1> QED BY <1>2, <1>4, <1>5, <1>7, <1>8, <1>10, <1>11, <1>12 DEF IInv

\* A step of p alone that no other operation can tell.
LEMMA OpeningKeeps ==
  ASSUME OpsAssumption, IInv, NEW p \in Ops,
         UNCHANGED <<use, queue, cache, data, disk, truth, view, missed, past>>,
         \/ /\ phase[p] = "queued" /\ p \in Writers /\ Head(queue) = p /\ cache = Cold
            /\ Goto(p, "opening") /\ heap' = heap
         \/ OpenFile(p)
  PROVE  IInv' /\ UNCHANGED <<Memory, Due>>
  <1>0. /\ TypeOK /\ Locked /\ Unshared /\ Warming /\ Kept /\ Seen /\ Promised
        /\ phase \in [Ops -> Phase] /\ queue \in Seq(Writers) /\ heap \in [Objects -> Map] /\ disk \in Map
    BY DEF IInv, TypeOK
  <1>1. /\ phase[p] \in {"queued", "opening"}
        /\ phase'[p] = IF phase[p] = "queued" THEN "opening" ELSE "reading"
        /\ phase' \in [Ops -> Phase] /\ \A q \in Ops : q # p => phase'[q] = phase[q]
        /\ phase[p] = "queued" => p \in Writers /\ queue # <<>> /\ Head(queue) = p /\ cache = Cold
    <2>1. phase[p] = "queued" /\ p \in Writers => queue # <<>>
      BY <1>0 DEF Locked
    <2> QED BY <1>0, <2>1 DEF OpenFile, Goto, Phase
  <1>2. /\ heap' \in [Objects -> Map] /\ \A o \in Objects : o # p => heap'[o] = heap[o]
        /\ phase'[p] = "reading" => heap'[p] = disk
    BY <1>0, <1>1 DEF OpenFile, Objects
  <1>3. TypeOK'
    BY <1>0, <1>1, <1>2 DEF TypeOK
  <1>4. cache # p /\ \A q \in Ops : data[q] # p /\ data[q] \in Objects /\ heap'[data[q]] = heap[data[q]]
    BY <1>0, <1>1, <1>2 DEF Unshared, Early, TypeOK
  <1>5. Memory' = Memory
    BY <1>0, <1>2, <1>4 DEF Memory, TypeOK
  <1>6. /\ \A q \in Writers : /\ phase'[q] \in Busy <=> phase[q] \in Busy
                              /\ phase'[q] = "done" <=> phase[q] = "done"
                              /\ phase'[q] \in Busy => phase'[q] = phase[q]
                              /\ phase'[q] = "queued" => phase[q] = "queued"
                              /\ q # p => phase'[q] = phase[q]
        /\ \A r \in Readers : phase'[r] = "done" <=> phase[r] = "done"
        /\ \A r \in Readers : phase'[r] \in {"opening", "reading"} <=> phase[r] \in {"opening", "reading"}
    BY <1>0, <1>1, Kinds DEF Busy, Locked
  <1>7. Locked'
    BY <1>0, <1>1, <1>6, Kinds DEF Locked, AtWork
  <1>8. Unshared'
    BY <1>0, <1>1 DEF Unshared, Early
  <1>9. /\ Uncertain' = Uncertain /\ InFlight' = InFlight
        /\ \A i : Sound(i)' = Sound(i) /\ Recalled(i)' = Recalled(i)
    <2>1. Uncertain' = Uncertain /\ InFlight' = InFlight
      BY <1>1, <1>6, Kinds DEF Uncertain, InFlight
    <2>2. ASSUME NEW i PROVE LateReads(i)' = LateReads(i)
      BY <1>6, Kinds DEF LateReads, Readers
    <2> QED BY <2>1, <2>2 DEF Sound, Recalled
  <1>10. Warming'
    <2>1. disk' \in past' /\ (cache' = Cold => past' = {disk'})
      BY <1>0 DEF Warming
    <2>2. ASSUME NEW q \in Ops, phase'[q] = "reading" PROVE heap'[q] \in past'
      BY <1>0, <1>1, <1>2, <2>1, <2>2 DEF Warming, Objects
    <2>3. ASSUME NEW q \in Writers, phase'[q] \in {"opening", "reading"}
          PROVE  past' = {disk'} /\ Memory' = disk'
      BY <1>0, <1>1, <1>5, <2>3, Kinds DEF Warming, Memory
    <2>4. ASSUME NEW q \in Writers, phase'[q] \in Busy
          PROVE  cache' # Cold /\ (phase'[q] = "renamed" => heap'[data'[q]] = disk')
      <3>1. phase[q] \in Busy /\ phase'[q] = phase[q] /\ q \in Ops
        BY <1>6, <2>4, Kinds
      <3> QED BY <1>0, <1>4, <3>1 DEF Warming
    <2> QED BY <2>1, <2>2, <2>3, <2>4 DEF Warming, Busy
  <1>11. Seen'
    <2> SUFFICES ASSUME NEW r \in Readers, NEW q \in Writers, phase'[r] = "reading", phase'[q] = "renamed"
                 PROVE  q \in missed[r] \/ heap'[r] = disk
      BY DEF Seen, Readers, Writers
    <2>1. phase[q] = "renamed"
      BY <1>6 DEF Busy
    <2>2. CASE r = p
      BY <1>2, <2>2
    <2>3. CASE r # p
      BY <1>0, <1>1, <1>2, <2>1, <2>3, Kinds DEF Seen, Objects
    <2> QED BY <2>2, <2>3
  <1>12. Kept'
    <2> SUFFICES ASSUME NEW i \in Ids
        PROVE /\ disk[i] \in Sound(i) /\ Memory[i] \in Sound(i) \cup Effects(InFlight, i)
              /\ \A q \in Writers :
                   /\ phase'[q] = "writing" =>
                        heap'[data[q]][i] \in IF i \in Targets[q] THEN {Effect(q, i)} ELSE Sound(i)
                   /\ phase'[q] = "renamed" /\ i \in Targets[q] => disk[i] = Effect(q, i)
              /\ \A r \in Readers : phase'[r] = "reading" => heap'[r][i] \in Sound(i) \/ Missing(r, i)
      BY <1>5, <1>9 DEF Kept, Missing
    <2>1. disk[i] \in Sound(i) /\ Memory[i] \in Sound(i) \cup Effects(InFlight, i)
      BY <1>0 DEF Kept
    <2>2. ASSUME NEW q \in Writers
          PROVE  /\ phase'[q] = "writing" =>
                      heap'[data[q]][i] \in IF i \in Targets[q] THEN {Effect(q, i)} ELSE Sound(i)
                 /\ phase'[q] = "renamed" /\ i \in Targets[q] => disk[i] = Effect(q, i)
      <3>1. phase'[q] \in Busy => phase[q] = phase'[q]
        BY <1>6
      <3> QED BY <1>0, <1>4, <3>1, Kinds DEF Kept, Busy
    <2>3. ASSUME NEW r \in Readers, phase'[r] = "reading" PROVE heap'[r][i] \in Sound(i) \/ Missing(r, i)
      <3>1. CASE r = p
        BY <1>2, <2>1, <2>3, <3>1
      <3>2. CASE r # p
        BY <1>0, <1>1, <1>2, <2>3, <3>2, Kinds DEF Kept, Objects
      <3> QED BY <3>1, <3>2
    <2> QED BY <2>1, <2>2, <2>3
  <1>13. Promised'
    <2> SUFFICES ASSUME NEW r \in Readers
        PROVE /\ phase'[r] \in {"opening", "reading"} =>
                   /\ \A q \in Writers : phase'[q] # "done" => q \in view[r].late
                   /\ \A i \in Ids : truth[i] \in Fresh(r, i)
              /\ phase'[r] = "reading" => \A i \in Ids : heap'[r][i] \in Fresh(r, i)
              /\ phase'[r] = "done" => \A i \in Ids : view[r].saw[i] \in Fresh(r, i)
      BY <1>9 DEF Promised, Readers, Fresh
    <2>1. ASSUME phase'[r] \in {"opening", "reading"}
          PROVE  /\ \A q \in Writers : phase'[q] # "done" => q \in view[r].late
                 /\ \A i \in Ids : truth[i] \in Fresh(r, i)
      BY <1>0, <1>6, <2>1 DEF Promised
    <2>2. ASSUME phase'[r] = "reading", NEW i \in Ids PROVE heap'[r][i] \in Fresh(r, i)
      <3>1. CASE r = p
        <4>1. Effects(Uncertain, i) \subseteq Effects(view[r].late, i)
          BY <2>1, <2>2, <1>6 DEF Effects, Uncertain
        <4>2. disk[i] \in Sound(i) /\ truth[i] \in Fresh(r, i)
          BY <1>0, <2>1, <2>2 DEF Kept
        <4> QED BY <1>2, <2>2, <3>1, <4>1, <4>2 DEF Sound, Fresh
      <3>2. CASE r # p
        BY <1>0, <1>1, <1>2, <2>2, <3>2, Kinds DEF Promised, Objects
      <3> QED BY <3>1, <3>2
    <2> QED BY <1>0, <1>6, <2>1, <2>2 DEF Promised
  <1>14. Due' = Due
    <2>1. queue # <<>> => Head(queue) \in Writers
      BY <1>0
    <2>2. queue # <<>> => (phase'[Head(queue)] \in Busy <=> phase[Head(queue)] \in Busy)
      BY <1>6, <2>1
    <2> QED BY <1>4, <2>1, <2>2, Kinds DEF Due, Writing, Busy
  <1> QED BY <1>3, <1>5, <1>7, <1>8, <1>10, <1>11, <1>12, <1>13, <1>14 DEF IInv

\* A write that has the collection in hand changes it, or has nothing to delete.
LEMMA EditKeeps ==
  ASSUME OpsAssumption, IInv, NEW p \in Writers, NEW o \in Objects, Edit(p, o), cache' = o,
         UNCHANGED <<use, disk, truth, view, missed, past>>,
         \/ phase[p] = "queued" /\ Head(queue) = p /\ cache = o
         \/ phase[p] = "reading" /\ o = p
  PROVE  IInv' /\ (Store!Write(Targets[p]) \/ UNCHANGED <<Memory, disk, past, Due>>)
  <1>0. /\ TypeOK /\ Locked /\ Unshared /\ Warming /\ Kept /\ Seen /\ Promised /\ p \in Ops
        /\ phase \in [Ops -> Phase] /\ queue \in Seq(Writers) /\ heap \in [Objects -> Map]
        /\ data \in [Ops -> Objects] /\ o # Cold /\ Targets[p] \subseteq Ids
        /\ phase[p] \in {"queued", "reading"} /\ p \notin Readers
    BY OpsAssumption, Kinds DEF IInv, TypeOK, Objects
  <1>1. queue # <<>> /\ Head(queue) = p
    BY <1>0 DEF Locked, AtWork
  <1>2. \A q \in Writers : q # p => phase[q] \notin AtWork
    BY <1>0, <1>1, Alone DEF AtWork
  <1>3. heap[o] = Memory /\ \A q \in Ops : q # p /\ phase[q] \in Early => q # o
    <2>1. CASE phase[p] = "queued"
      BY <1>0, <2>1 DEF Memory, Unshared
    <2>2. CASE phase[p] = "reading"
      BY <1>0, <2>2 DEF Warming
    <2> QED BY <1>0, <2>1, <2>2
  <1>4. \A i \in Ids : Memory[i] \in Sound(i) /\ Effects(InFlight, i) = {}
    BY <1>0, <1>2 DEF Kept, Effects, InFlight, AtWork
  <1>5. Due = disk
    BY <1>0, <1>2, DueIdle DEF Busy, AtWork
  <1>6. CASE Change(p, o)
    <2>1. /\ phase' = [phase EXCEPT ![p] = "writing"] /\ phase' \in [Ops -> Phase] /\ phase'[p] = "writing"
          /\ \A q \in Ops : q # p => phase'[q] = phase[q]
          /\ queue' = queue
      BY <1>0, <1>6 DEF Change, Goto, Phase
    <2>2. /\ heap' = [heap EXCEPT ![o] = Changed(p, heap[o])] /\ data' = [data EXCEPT ![p] = o]
          /\ data' \in [Ops -> Objects] /\ data'[p] = o /\ \A q \in Ops : q # p => data'[q] = data[q]
      BY <1>0, <1>6 DEF Change
    <2>3. Changed(p, heap[o]) \in Map
      <3>1. \A i \in Ids : heap[o][i] \in Records /\ Effect(p, i) \in Records
        BY <1>0 DEF Map, Effect, Records
      <3> QED BY <3>1 DEF Changed, Map
    <2>4. /\ heap' \in [Objects -> Map] /\ heap'[o] = Changed(p, Memory)
          /\ \A x \in Objects : x # o => heap'[x] = heap[x]
          /\ \A q \in Ops : q # p /\ phase[q] \in Early => heap'[q] = heap[q]
      BY <1>0, <1>3, <2>2, <2>3 DEF Objects
    <2>5. /\ \A i \in Ids : heap'[o][i] = IF i \in Targets[p] THEN Effect(p, i) ELSE Memory[i]
          /\ Memory' = heap'[o]
      BY <1>0, <2>4 DEF Changed, Memory
    <2>6. TypeOK'
      BY <1>0, <2>1, <2>2, <2>4 DEF TypeOK
    <2>7. Locked'
      BY <1>0, <1>1, <1>2, <2>1, Kinds DEF Locked, AtWork
    <2>8. Unshared'
      <3> SUFFICES ASSUME NEW q \in Ops, phase'[q] \in Early
                   PROVE  o # q /\ \A x \in Ops : data'[x] # q
        BY DEF Unshared
      <3>1. q # p /\ phase[q] \in Early
        BY <2>1 DEF Early
      <3> QED BY <1>0, <1>3, <2>2, <3>1 DEF Unshared
    <2>9. Warming'
      BY <1>0, <1>2, <2>1, <2>4, Kinds DEF Warming, Early, AtWork, Busy
    <2>10. Seen'
      BY <1>0, <2>1, <2>4, Kinds DEF Seen, Early
    <2>11. Uncertain' = Uncertain /\ InFlight' = {p}
      BY <1>0, <1>2, <2>1, Kinds DEF Uncertain, InFlight, AtWork
    <2>12. \A i : Sound(i)' = Sound(i) /\ Recalled(i)' = Recalled(i)
      <3>1. \A i : LateReads(i)' = LateReads(i)
        BY <1>0, <2>1, Kinds DEF LateReads, Readers
      <3> QED BY <2>11, <3>1 DEF Sound, Recalled
    <2>13. Kept'
      <3> SUFFICES ASSUME NEW i \in Ids
          PROVE /\ disk[i] \in Sound(i) /\ Memory'[i] \in Sound(i) \cup Effects({p}, i)
                /\ \A q \in Writers :
                     /\ phase'[q] = "writing" =>
                          heap'[data'[q]][i] \in IF i \in Targets[q] THEN {Effect(q, i)} ELSE Sound(i)
                     /\ phase'[q] = "renamed" /\ i \in Targets[q] => disk[i] = Effect(q, i)
                /\ \A r \in Readers : phase'[r] = "reading" => heap'[r][i] \in Sound(i) \/ Missing(r, i)
        BY <2>11, <2>12 DEF Kept, Missing
      <3>1. disk[i] \in Sound(i) /\ Memory'[i] \in Sound(i) \cup Effects({p}, i)
        BY <1>0, <1>4, <2>5 DEF Kept, Effects
      <3>2. ASSUME NEW q \in Writers
            PROVE  /\ phase'[q] = "writing" =>
                        heap'[data'[q]][i] \in IF i \in Targets[q] THEN {Effect(q, i)} ELSE Sound(i)
                   /\ phase'[q] # "renamed"
        BY <1>2, <1>4, <2>1, <2>2, <2>5, <3>2, Kinds DEF AtWork
      <3>3. ASSUME NEW r \in Readers, phase'[r] = "reading" PROVE heap'[r][i] \in Sound(i) \/ Missing(r, i)
        BY <1>0, <2>1, <2>4, <3>3, Kinds DEF Kept, Early
      <3> QED BY <3>1, <3>2, <3>3
    <2>14. Promised'
      <3>1. \A r \in Readers : /\ r \in Ops /\ phase'[r] = phase[r]
                               /\ phase'[r] = "reading" => heap'[r] = heap[r]
        BY <1>0, <2>1, <2>4, Kinds DEF Early
      <3>2. \A q \in Writers : phase'[q] = "done" <=> phase[q] = "done"
        BY <1>0, <2>1, Kinds
      <3>3. \A r, i : Fresh(r, i)' = Fresh(r, i)
        BY <2>12 DEF Fresh
      <3> QED BY <1>0, <3>1, <3>2, <3>3 DEF Promised
    <2>15. Due' = Memory'
      BY <1>1, <2>1, <2>2, <2>5 DEF Due, Writing
    <2>16. Store!Write(Targets[p])
      <3>1. Memory' = [i \in Ids |-> IF i \in Targets[p] THEN Effect(p, i) ELSE Memory[i]]
        BY <2>4, <2>5 DEF Changed
      <3>2. PICK v \in Records : \A i \in Ids : Effect(p, i) = v
        BY <1>0 DEF Effect, Records
      <3> QED BY <1>5, <2>15, <3>1, <3>2 DEF Store!Write
    <2> QED BY <2>6, <2>7, <2>8, <2>9, <2>10, <2>13, <2>14, <2>16 DEF IInv
  <1>7. CASE NothingToDelete(p, o)
    <2>1. Leave(p, "done") /\ UNCHANGED <<heap, data>>
      BY <1>7 DEF NothingToDelete
    <2>2. /\ phase' = [phase EXCEPT ![p] = "done"] /\ phase' \in [Ops -> Phase]
          /\ Locked' /\ queue' \in Seq(Writers) /\ \A q \in Writers : phase'[q] \notin AtWork
          /\ queue' # <<>> => Head(queue') \in Writers
      BY <1>0, <1>1, <2>1, LeaveLocked DEF Ended, AtWork
    <2>3. phase'[p] = "done" /\ \A q \in Ops : q # p => phase'[q] = phase[q]
      BY <1>0, <2>2
    <2>4. Memory' = Memory
      BY <1>0, <1>3, <2>1 DEF Memory
    <2>5. TypeOK'
      BY <1>0, <2>1, <2>2 DEF TypeOK
    <2>6. Unshared'
      BY <1>0, <1>3, <2>1, <2>3 DEF Unshared, Early
    <2>7. Warming' /\ Seen'
      BY <1>0, <2>1, <2>2, <2>3, <2>4, Kinds DEF Warming, Seen, AtWork, Busy
    <2>8. Uncertain' = Uncertain /\ InFlight' = {} /\ InFlight = {}
      BY <1>0, <1>2, <2>2, <2>3, Kinds DEF Uncertain, InFlight, AtWork
    <2>9. \A i : Sound(i)' = Sound(i) /\ Recalled(i)' = Recalled(i)
      <3>1. \A i : LateReads(i)' = LateReads(i)
        BY <1>0, <2>3, Kinds DEF LateReads, Readers
      <3> QED BY <2>8, <3>1 DEF Sound, Recalled
    <2>10. \A r \in Readers : r \in Ops /\ phase'[r] = phase[r]
      BY <1>0, <2>3, Kinds
    <2>11. Kept'
      <3>1. \A q \in Writers : phase'[q] \notin {"writing", "renamed"}
        BY <2>2 DEF AtWork
      <3> QED BY <1>0, <2>1, <2>4, <2>8, <2>9, <2>10, <3>1 DEF Kept, Missing
    <2>12. Promised'
      <3>1. \A q \in Writers : phase'[q] # "done" => phase[q] # "done"
        BY <1>0, <2>3, Kinds
      <3>2. \A r, i : Fresh(r, i)' = Fresh(r, i)
        BY <2>9 DEF Fresh
      <3> QED BY <1>0, <2>1, <2>10, <3>1, <3>2 DEF Promised
    <2>13. Due' = disk
      BY <2>2 DEF Due, Writing, AtWork
    <2> QED BY <1>5, <2>2, <2>4, <2>5, <2>6, <2>7, <2>11, <2>12, <2>13 DEF IInv
  <1> QED BY <1>6, <1>7 DEF Edit

\* A first read puts what it found in the cache, over what is there.
LEMMA FileReadKeeps ==
  ASSUME OpsAssumption, IInv, NEW p \in Readers, FileRead(p)
  PROVE  IInv' /\ Store!Recall
  <1>0. /\ TypeOK /\ Locked /\ Unshared /\ Warming /\ Kept /\ Seen /\ Promised /\ p \in Ops /\ p \notin Writers
        /\ phase \in [Ops -> Phase] /\ queue \in Seq(Writers) /\ heap \in [Objects -> Map] /\ p \in Objects
        /\ phase[p] = "reading" /\ p # Cold
    BY OpsAssumption, Kinds DEF IInv, TypeOK, Objects, FileRead
  <1>1. /\ phase' = [phase EXCEPT ![p] = "done"] /\ phase' \in [Ops -> Phase] /\ phase'[p] = "done"
        /\ \A q \in Ops : q # p => phase'[q] = phase[q]
        /\ \A q \in Writers : phase'[q] = phase[q]
        /\ cache' = p /\ UNCHANGED <<use, queue, heap, data, disk, truth, missed, past>>
    BY <1>0, Kinds DEF FileRead, Goto, Phase, Readers
  <1>2. Memory' = heap[p] /\ heap[p] \in past /\ heap[p] \in Map
    BY <1>0, <1>1 DEF Memory, Warming
  <1>3. /\ view' \in [Ops -> [floor: Map, saw: Map, late: SUBSET Writers]]
        /\ view'[p].floor = view[p].floor /\ view'[p].saw = heap[p] /\ view'[p].late = view[p].late
        /\ \A q \in Ops : q # p => view'[q] = view[q]
    <2> DEFINE seen == [view[p] EXCEPT !.saw = heap[p]]
    <2>1. view[p] \in [floor: Map, saw: Map, late: SUBSET Writers]
      BY <1>0 DEF TypeOK
    <2>2. /\ seen \in [floor: Map, saw: Map, late: SUBSET Writers]
          /\ seen.floor = view[p].floor /\ seen.late = view[p].late /\ seen.saw = heap[p]
      BY <1>2, <2>1
    <2>3. view' = [view EXCEPT ![p] = seen] /\ view \in [Ops -> [floor: Map, saw: Map, late: SUBSET Writers]]
      BY <1>0 DEF FileRead, TypeOK
    <2> HIDE DEF seen
    <2> QED BY <1>0, <2>2, <2>3
  <1>4. TypeOK'
    BY <1>0, <1>1, <1>3 DEF TypeOK
  <1>5. Locked'
    BY <1>0, <1>1, Kinds DEF Locked
  <1>6. Unshared'
    BY <1>0, <1>1 DEF Unshared, Early
  <1>7. Warming'
    BY <1>0, <1>1, <1>2 DEF Warming
  <1>8. Seen'
    BY <1>0, <1>1, Kinds DEF Seen
  <1>9. /\ Uncertain' = Uncertain /\ InFlight' = InFlight
        /\ \A i : Sound(i) \subseteq Sound(i)' /\ Recalled(i) \subseteq Recalled(i)'
    <2>1. Uncertain' = Uncertain /\ InFlight' = InFlight
      BY <1>1 DEF Uncertain, InFlight
    <2>2. \A r \in Readers : phase[r] = "done" => /\ phase'[r] = "done"
                                                  /\ view'[r] = view[r] /\ missed'[r] = missed[r]
      BY <1>0, <1>1, <1>3, Kinds
    <2> QED BY <1>1, <2>1, <2>2, SoundGrows
  <1>10. ASSUME NEW i \in Ids PROVE heap[p][i] \in Sound(i)'
    <2>1. CASE heap[p][i] \in Sound(i)
      BY <1>9, <2>1
    <2>2. CASE Missing(p, i)
      <3>1. p \in LateReads(i)'
        BY <1>1, <2>2 DEF LateReads, Missing, Readers
      <3> QED BY <1>3, <3>1 DEF Recalled, Sound
    <2> QED BY <1>0, <2>1, <2>2 DEF Kept
  <1>11. \A r \in Readers : phase'[r] \in {"opening", "reading"} => r # p /\ phase'[r] = phase[r] /\ r \in Ops
    BY <1>0, <1>1, Kinds
  <1>12. Kept'
    <2> SUFFICES ASSUME NEW i \in Ids
        PROVE /\ disk[i] \in Sound(i)' /\ heap[p][i] \in Sound(i)'
              /\ \A q \in Writers :
                   /\ phase[q] = "writing" =>
                        heap[data[q]][i] \in IF i \in Targets[q] THEN {Effect(q, i)} ELSE Sound(i)'
                   /\ phase[q] = "renamed" /\ i \in Targets[q] => disk[i] = Effect(q, i)
              /\ \A r \in Readers : phase'[r] = "reading" => heap[r][i] \in Sound(i)' \/ Missing(r, i)
      BY <1>1, <1>2 DEF Kept, Missing
    <2> QED BY <1>0, <1>9, <1>10, <1>11 DEF Kept
  <1>13. Promised'
    <2> SUFFICES ASSUME NEW r \in Readers
        PROVE /\ phase'[r] \in {"opening", "reading"} =>
                   /\ \A q \in Writers : phase'[q] # "done" => q \in view'[r].late
                   /\ \A i \in Ids : truth'[i] \in Fresh(r, i)'
              /\ phase'[r] = "reading" => \A i \in Ids : heap'[r][i] \in Fresh(r, i)'
              /\ phase'[r] = "done" => \A i \in Ids : view'[r].saw[i] \in Fresh(r, i)'
      BY DEF Promised, Readers
    <2>1. \A i : Fresh(r, i) \subseteq Fresh(r, i)'
      BY <1>3, <1>9, Kinds DEF Fresh
    <2>2. CASE r = p
      BY <1>0, <1>1, <1>3, <2>1, <2>2 DEF Promised
    <2>3. CASE r # p
      BY <1>0, <1>1, <1>3, <2>1, <2>3, Kinds DEF Promised
    <2> QED BY <2>2, <2>3
  <1>14. Due' = Due
    <2>1. queue # <<>> => Head(queue) \in Writers
      BY <1>0
    <2> QED BY <1>1, <2>1 DEF Due, Writing
  <1> QED BY <1>1, <1>2, <1>4, <1>5, <1>6, <1>7, <1>8, <1>12, <1>13, <1>14 DEF IInv, Store!Recall

\* A read or a write that fails; the map in memory stays as it is.
LEMMA FailKeeps ==
  ASSUME OpsAssumption, IInv, NEW p \in Ops, ReadFails(p) \/ WriteFails(p)
  PROVE  IInv' /\ UNCHANGED <<Memory, disk, past>> /\ (Due' = Due \/ Due' = disk)
  <1>0. /\ TypeOK /\ Locked /\ Unshared /\ Warming /\ Kept /\ Seen /\ Promised
        /\ phase \in [Ops -> Phase] /\ queue \in Seq(Writers)
        /\ phase[p] \in {"opening", "reading", "writing"}
        /\ Leave(p, "failed") /\ UNCHANGED <<use, cache, heap, data, disk, truth, view, missed, past, Memory>>
    BY DEF IInv, TypeOK, ReadFails, WriteFails, Memory
  <1>1. /\ phase' = [phase EXCEPT ![p] = "failed"] /\ phase' \in [Ops -> Phase]
        /\ Locked' /\ queue' \in Seq(Writers)
        /\ p \in Readers => queue' = queue
        /\ p \in Writers => /\ \A q \in Writers : phase'[q] \notin AtWork
                            /\ queue' # <<>> => Head(queue') \in Writers
    BY <1>0, LeaveLocked DEF Ended, AtWork
  <1>2. phase'[p] = "failed" /\ \A q \in Ops : q # p => phase'[q] = phase[q]
    BY <1>0, <1>1
  <1>3. TypeOK'
    BY <1>0, <1>1 DEF TypeOK
  <1>4. Unshared' /\ Warming' /\ Seen'
    <2>1. Unshared'
      BY <1>0, <1>2 DEF Unshared, Early
    <2>2. Warming' /\ Seen'
      BY <1>0, <1>2, Kinds DEF Warming, Seen, Busy
    <2> QED BY <2>1, <2>2
  <1>5. /\ \A q \in Uncertain : q \in Uncertain'
        /\ \A q \in InFlight : q \in InFlight' \cup Uncertain'
    BY <1>0, <1>2, Kinds DEF Uncertain, InFlight
  <1>6. \A i : Sound(i) \subseteq Sound(i)' /\ Recalled(i) \subseteq Recalled(i)'
    <2>1. \A r \in Readers : phase[r] = "done" => /\ phase'[r] = "done"
                                                  /\ view'[r] = view[r] /\ missed'[r] = missed[r]
      BY <1>0, <1>2, Kinds
    <2> QED BY <1>0, <1>5, <2>1, SoundGrows
  <1>7. Kept'
    <2> SUFFICES ASSUME NEW i \in Ids
        PROVE /\ disk[i] \in Sound(i)' /\ Memory[i] \in Sound(i)' \cup Effects(InFlight', i)
              /\ \A q \in Writers :
                   /\ phase'[q] = "writing" =>
                        heap[data[q]][i] \in IF i \in Targets[q] THEN {Effect(q, i)} ELSE Sound(i)'
                   /\ phase'[q] = "renamed" /\ i \in Targets[q] => disk[i] = Effect(q, i)
              /\ \A r \in Readers : phase'[r] = "reading" => heap[r][i] \in Sound(i)' \/ Missing(r, i)
      BY <1>0 DEF Kept, Missing
    <2>1. Effects(InFlight, i) \subseteq Effects(InFlight', i) \cup Sound(i)'
      BY <1>5 DEF Effects, Sound
    <2>2. \A q \in Ops : phase'[q] \in {"writing", "renamed", "reading"} => phase'[q] = phase[q]
      BY <1>2
    <2>3. disk[i] \in Sound(i)' /\ Memory[i] \in Sound(i)' \cup Effects(InFlight', i)
      BY <1>0, <1>6, <2>1 DEF Kept
    <2>4. ASSUME NEW q \in Writers
          PROVE  /\ phase'[q] = "writing" =>
                      heap[data[q]][i] \in IF i \in Targets[q] THEN {Effect(q, i)} ELSE Sound(i)'
                 /\ phase'[q] = "renamed" /\ i \in Targets[q] => disk[i] = Effect(q, i)
      BY <1>0, <1>6, <2>2, Kinds DEF Kept
    <2>5. ASSUME NEW r \in Readers, phase'[r] = "reading" PROVE heap[r][i] \in Sound(i)' \/ Missing(r, i)
      BY <1>0, <1>6, <2>2, <2>5, Kinds DEF Kept
    <2> QED BY <2>3, <2>4, <2>5
  <1>8. Promised'
    <2>1. \A q \in Ops : phase'[q] \in {"opening", "reading", "done"} => phase'[q] = phase[q]
      BY <1>2
    <2>2. \A q \in Writers : phase'[q] # "done" => phase[q] # "done"
      BY <1>0, <1>2, Kinds
    <2>3. \A r, i : Fresh(r, i) \subseteq Fresh(r, i)'
      BY <1>0, <1>6 DEF Fresh
    <2> QED BY <1>0, <2>1, <2>2, <2>3, Kinds DEF Promised
  <1>9. Due' = Due \/ Due' = disk
    <2>1. CASE p \in Writers
      BY <1>0, <1>1, <2>1 DEF Due, Writing, AtWork
    <2>2. CASE p \in Readers
      <3>1. queue # <<>> => Head(queue) \in Writers /\ Head(queue) # p
        BY <1>0, <2>2, Kinds
      <3> QED BY <1>0, <1>1, <1>2, <2>2, <3>1, Kinds DEF Due, Writing
    <2> QED BY <2>1, <2>2, Kinds
  <1> QED BY <1>0, <1>1, <1>3, <1>4, <1>7, <1>8, <1>9 DEF IInv

\* The rename is the step with which the file changes.
LEMMA RenameKeeps ==
  ASSUME OpsAssumption, IInv, NEW p \in Ops, Rename(p)
  PROVE  IInv' /\ Store!Flush
  <1>0. /\ TypeOK /\ Locked /\ Unshared /\ Warming /\ Kept /\ Seen /\ Promised
        /\ phase \in [Ops -> Phase] /\ queue \in Seq(Writers) /\ heap \in [Objects -> Map]
        /\ data \in [Ops -> Objects] /\ missed \in [Ops -> SUBSET Writers]
        /\ phase[p] = "writing" /\ p \in Writers /\ p \notin Readers
    BY Kinds DEF IInv, TypeOK, Rename, Locked
  <1>1. /\ phase' = [phase EXCEPT ![p] = "renamed"] /\ phase' \in [Ops -> Phase] /\ phase'[p] = "renamed"
        /\ \A q \in Ops : q # p => phase'[q] = phase[q]
        /\ UNCHANGED <<use, queue, cache, heap, data, truth, view>>
    BY <1>0 DEF Rename, Goto, Phase
  <1>2. /\ queue # <<>> /\ Head(queue) = p /\ cache # Cold
        /\ \A q \in Writers : q # p => phase[q] \notin AtWork
    BY <1>0, Alone DEF Locked, Warming, AtWork, Busy
  <1>3. /\ disk' = heap[data[p]] /\ disk' \in Map /\ past' = past \cup {disk'} /\ Memory' = Memory
    BY <1>0, <1>1, <1>2 DEF Rename, Memory
  <1>4. /\ missed' \in [Ops -> SUBSET Writers]
        /\ \A r \in Ops : missed'[r] = IF phase[r] = "reading" THEN missed[r] \cup {p} ELSE missed[r]
    BY <1>0 DEF Rename
  <1>5. TypeOK'
    BY <1>0, <1>1, <1>3, <1>4 DEF TypeOK
  <1>6. Locked'
    BY <1>0, <1>1, <1>2, Kinds DEF Locked, AtWork
  <1>7. Unshared'
    BY <1>0, <1>1 DEF Unshared, Early
  <1>8. Warming'
    BY <1>0, <1>1, <1>2, <1>3, Kinds DEF Warming, AtWork, Busy
  <1>9. Seen'
    <2> SUFFICES ASSUME NEW r \in Readers, NEW q \in Writers, phase'[r] = "reading", phase'[q] = "renamed"
                 PROVE  q \in missed'[r]
      BY DEF Seen, Readers, Writers
    <2>1. q = p
      BY <1>1, <1>2, Kinds DEF AtWork
    <2> QED BY <1>0, <1>1, <1>4, <2>1, Kinds
  <1>10. /\ Uncertain' = Uncertain \cup {p} /\ InFlight = {p} /\ InFlight' = {}
         /\ \A i : Sound(i) \subseteq Sound(i)' /\ Recalled(i) \subseteq Recalled(i)'
    <2>1. Uncertain' = Uncertain \cup {p} /\ InFlight = {p} /\ InFlight' = {}
      BY <1>0, <1>1, <1>2, Kinds DEF Uncertain, InFlight, AtWork
    <2>2. \A r \in Readers : phase[r] = "done" => /\ phase'[r] = "done"
                                                  /\ view'[r] = view[r] /\ missed'[r] = missed[r]
      BY <1>0, <1>1, <1>4, Kinds
    <2> QED BY <1>1, <2>1, <2>2, SoundGrows
  <1>11. Kept'
    <2> SUFFICES ASSUME NEW i \in Ids
        PROVE /\ disk'[i] \in Sound(i)' /\ Memory[i] \in Sound(i)'
              /\ \A q \in Writers :
                   /\ phase'[q] # "writing"
                   /\ phase'[q] = "renamed" /\ i \in Targets[q] => disk'[i] = Effect(q, i)
              /\ \A r \in Readers : phase'[r] = "reading" => heap[r][i] \in Sound(i)' \/ Missing(r, i)'
      BY <1>1, <1>3 DEF Kept, Readers, Writers, Effect
    <2>1. disk'[i] \in IF i \in Targets[p] THEN {Effect(p, i)} ELSE Sound(i)
      BY <1>0, <1>3 DEF Kept
    <2>2. i \in Targets[p] => Effect(p, i) \in Effects(Uncertain', i) /\ Effect(p, i) \in Effects({p}, i)
      BY <1>10 DEF Effects
    <2>3. disk'[i] \in Sound(i)'
      BY <1>10, <2>1, <2>2 DEF Sound
    <2>4. Memory[i] \in Sound(i)'
      <3>1. Effects({p}, i) \subseteq Effects(Uncertain', i)
        BY <1>10 DEF Effects
      <3>2. Memory[i] \in Sound(i) \cup Effects({p}, i)
        BY <1>0, <1>10 DEF Kept
      <3> QED BY <1>10, <3>1, <3>2 DEF Sound
    <2>5. \A q \in Writers : phase'[q] # "writing" /\ (phase'[q] = "renamed" => q = p)
      BY <1>1, <1>2, Kinds DEF AtWork
    <2>6. ASSUME NEW r \in Readers, phase'[r] = "reading" PROVE heap[r][i] \in Sound(i)' \/ Missing(r, i)'
      <3>1. phase[r] = "reading" /\ missed[r] \subseteq missed'[r]
        BY <1>0, <1>1, <1>4, <2>6, Kinds
      <3> QED BY <1>0, <1>10, <3>1 DEF Kept, Missing
    <2> QED BY <2>1, <2>3, <2>4, <2>5, <2>6
  <1>12. Promised'
    <2>1. \A r \in Readers : r \in Ops /\ phase'[r] = phase[r]
      BY <1>0, <1>1, Kinds
    <2>2. \A q \in Writers : phase'[q] = "done" <=> phase[q] = "done"
      BY <1>0, <1>1, Kinds
    <2>3. \A r, i : Fresh(r, i) \subseteq Fresh(r, i)'
      BY <1>1, <1>10 DEF Fresh
    <2> QED BY <1>0, <1>1, <2>1, <2>2, <2>3 DEF Promised
  <1>13. Due = disk' /\ Due' = Due
    <2>1. Due = heap[data[p]]
      BY <1>0, DueBusy DEF Busy
    <2> QED BY <1>1, <1>2, <1>3, <2>1 DEF Due, Writing
  <1> QED BY <1>3, <1>5, <1>6, <1>7, <1>8, <1>9, <1>11, <1>12, <1>13 DEF IInv, Store!Flush

\* Memory is what the write made of it again when the write returns, whatever
\* read has put its own into the cache since.
LEMMA WriteReturnsKeeps ==
  ASSUME OpsAssumption, IInv, NEW p \in Ops, WriteReturns(p)
  PROVE  IInv' /\ Store!Recall
  <1>0. /\ TypeOK /\ Locked /\ Unshared /\ Warming /\ Kept /\ Seen /\ Promised
        /\ phase \in [Ops -> Phase] /\ queue \in Seq(Writers) /\ data \in [Ops -> Objects]
        /\ phase[p] = "renamed" /\ p \in Writers /\ p \notin Readers
        /\ Leave(p, "done") /\ UNCHANGED <<use, heap, data, disk, view, missed, past>>
    BY Kinds DEF IInv, TypeOK, WriteReturns, Locked
  <1>1. /\ phase' = [phase EXCEPT ![p] = "done"] /\ phase' \in [Ops -> Phase]
        /\ Locked' /\ queue' \in Seq(Writers) /\ \A q \in Writers : phase'[q] \notin AtWork
        /\ queue' # <<>> => Head(queue') \in Writers
    BY <1>0, LeaveLocked DEF Ended, AtWork
  <1>2. phase'[p] = "done" /\ \A q \in Ops : q # p => phase'[q] = phase[q]
    BY <1>0, <1>1
  <1>3. /\ cache' = data[p] /\ cache' \in Objects /\ cache' # Cold /\ heap[data[p]] = disk
        /\ Memory' = disk /\ disk \in past
    <2>1. \A o \in Objects : o # Cold
      BY OpsAssumption DEF Objects
    <2> QED BY <1>0, <2>1 DEF WriteReturns, Warming, Busy, Memory
  <1>4. /\ truth' \in Map
        /\ \A i \in Ids : truth'[i] = IF i \in Targets[p] THEN Effect(p, i) ELSE truth[i]
    <2>1. \A i \in Ids : truth[i] \in Records /\ Effect(p, i) \in Records
      BY <1>0 DEF TypeOK, Map, Effect, Records
    <2> QED BY <2>1 DEF WriteReturns, Changed, Map
  <1>5. TypeOK'
    BY <1>0, <1>1, <1>3, <1>4 DEF TypeOK
  <1>6. Unshared'
    BY <1>0, <1>2, <1>3 DEF Unshared, Early
  <1>7. Warming' /\ Seen'
    BY <1>0, <1>1, <1>2, <1>3, Kinds DEF Warming, Seen, AtWork, Busy
  <1>8. /\ Uncertain = Uncertain' \cup {p} /\ InFlight' = {}
        /\ \A i : Recalled(i)' = Recalled(i)
    <2>1. Uncertain = Uncertain' \cup {p} /\ InFlight' = {}
      BY <1>0, <1>1, <1>2, Kinds DEF Uncertain, InFlight, AtWork
    <2>2. \A i : LateReads(i)' = LateReads(i)
      BY <1>0, <1>2, Kinds DEF LateReads, Readers
    <2> QED BY <1>0, <2>1, <2>2 DEF Recalled
  <1>9. ASSUME NEW i \in Ids
        PROVE  /\ i \in Targets[p] => Effect(p, i) \in Sound(i)' /\ disk[i] = Effect(p, i)
               /\ i \notin Targets[p] => Sound(i) \subseteq Sound(i)'
    <2>1. i \in Targets[p] => Effect(p, i) \in Sound(i)' /\ disk[i] = Effect(p, i)
      BY <1>0, <1>4 DEF Kept, Sound
    <2>2. i \notin Targets[p] => Effects(Uncertain, i) = Effects(Uncertain', i)
      BY <1>8 DEF Effects
    <2> QED BY <1>4, <1>8, <2>1, <2>2 DEF Sound
  <1>10. \A r \in Readers : r \in Ops /\ phase'[r] = phase[r]
    BY <1>0, <1>2, Kinds
  <1>11. Kept'
    <2> SUFFICES ASSUME NEW i \in Ids
        PROVE /\ disk[i] \in Sound(i)'
              /\ \A q \in Writers : phase'[q] \notin {"writing", "renamed"}
              /\ \A r \in Readers : phase[r] = "reading" => heap[r][i] \in Sound(i)' \/ Missing(r, i)
      BY <1>0, <1>3, <1>10 DEF Kept, Missing
    <2>1. disk[i] \in Sound(i)'
      BY <1>0, <1>9 DEF Kept
    <2>2. ASSUME NEW r \in Readers, phase[r] = "reading" PROVE heap[r][i] \in Sound(i)' \/ Missing(r, i)
      <3>1. CASE i \notin Targets[p]
        BY <1>0, <1>9, <2>2, <3>1 DEF Kept
      <3>2. CASE i \in Targets[p]
        BY <1>0, <1>9, <2>2, <3>2 DEF Seen, Missing
      <3> QED BY <3>1, <3>2
    <2> QED BY <1>1, <2>1, <2>2 DEF AtWork
  <1>12. Promised'
    <2> SUFFICES ASSUME NEW r \in Readers
        PROVE /\ phase[r] \in {"opening", "reading"} =>
                   /\ \A q \in Writers : phase'[q] # "done" => q \in view[r].late
                   /\ \A i \in Ids : truth'[i] \in Fresh(r, i)
              /\ phase[r] = "reading" => \A i \in Ids : heap[r][i] \in Fresh(r, i)
              /\ phase[r] = "done" => \A i \in Ids : view[r].saw[i] \in Fresh(r, i)
      BY <1>0, <1>8, <1>10 DEF Promised, Fresh, Readers
    <2>1. ASSUME phase[r] \in {"opening", "reading"}
          PROVE  /\ \A q \in Writers : phase'[q] # "done" => q \in view[r].late
                 /\ \A i \in Ids : truth'[i] \in Fresh(r, i)
      <3>1. p \in view[r].late /\ \A q \in Writers : phase'[q] # "done" => q \in view[r].late
        BY <1>0, <1>2, <2>1, Kinds DEF Promised
      <3>2. ASSUME NEW i \in Ids, i \in Targets[p] PROVE Effect(p, i) \in Effects(view[r].late, i)
        BY <3>1, <3>2 DEF Effects
      <3>3. \A i \in Ids : truth[i] \in Fresh(r, i)
        BY <1>0, <2>1 DEF Promised
      <3> QED BY <1>4, <3>1, <3>2, <3>3 DEF Fresh
    <2> QED BY <1>0, <2>1 DEF Promised
  <1>13. Due = disk /\ Due' = disk
    <2>1. Due = heap[data[p]]
      BY <1>0, DueBusy DEF Busy
    <2> QED BY <1>0, <1>1, <1>3, <2>1 DEF Due, Writing, AtWork
  <1> QED BY <1>0, <1>1, <1>3, <1>5, <1>6, <1>7, <1>11, <1>12, <1>13 DEF IInv, Store!Recall

\* After a restart memory is what the file was, read at boot or when asked for.
LEMMA RestartKeeps ==
  ASSUME OpsAssumption, IInv, Restart
  PROVE  IInv' /\ Store!Restart
  <1>0. /\ TypeOK /\ Kept /\ Promised /\ Unshared /\ phase \in [Ops -> Phase]
        /\ UNCHANGED <<use, data, disk, truth, view, missed>> /\ past' = {disk} /\ queue' = <<>>
    BY DEF IInv, Restart, TypeOK
  <1>1. phase' = [p \in Ops |-> IF phase[p] \in Ended \cup {"idle"} THEN phase[p] ELSE "dead"]
    BY DEF Restart
  <1>2. /\ phase' \in [Ops -> Phase] /\ \A p \in Ops : phase'[p] \in {"idle", "done", "failed", "dead"}
        /\ \A p \in Ops : phase'[p] = "done" <=> phase[p] = "done"
        /\ \A p \in Ops : phase'[p] = "idle" => phase[p] = "idle"
    BY <1>0, <1>1 DEF Phase, Ended
  <1>3. /\ cache' = IF use.hydrated THEN Hydrator ELSE Cold
        /\ heap' \in [Objects -> Map] /\ heap'[Hydrator] = disk
        /\ Hydrator \in Objects /\ Hydrator # Cold /\ Hydrator \notin Ops /\ Cold \notin Ops
    BY <1>0, OpsAssumption DEF Restart, Boot, TypeOK, Objects
  <1>4. queue' \in Seq(Writers)
    BY <1>0
  <1>5. TypeOK'
    BY <1>0, <1>2, <1>3, <1>4 DEF TypeOK
  <1>6. Locked' /\ Unshared' /\ Seen'
    <2>1. Locked' /\ Seen'
      BY <1>2, Kinds DEF Locked, AtWork, Seen
    <2>2. Unshared'
      BY <1>0, <1>2, <1>3 DEF Unshared, Early
    <2> QED BY <2>1, <2>2
  <1>7. Memory' = disk
    BY <1>0, <1>3 DEF Memory
  <1>8. Warming'
    BY <1>0, <1>2, Kinds DEF Warming, Busy
  <1>9. \A i : Sound(i) \subseteq Sound(i)' /\ Recalled(i) \subseteq Recalled(i)'
    <2>1. \A q \in Uncertain : q \in Uncertain'
      BY <1>0, <1>1, Kinds DEF Uncertain, Ended
    <2>2. \A r \in Readers : phase[r] = "done" => /\ phase'[r] = "done"
                                                  /\ view'[r] = view[r] /\ missed'[r] = missed[r]
      BY <1>0, <1>2, Kinds
    <2> QED BY <1>0, <2>1, <2>2, SoundGrows
  <1>10. Kept'
    <2> SUFFICES ASSUME NEW i \in Ids PROVE disk[i] \in Sound(i)'
      BY <1>0, <1>2, <1>7, Kinds DEF Kept
    <2> QED BY <1>0, <1>9 DEF Kept
  <1>11. Promised'
    <2>1. \A r, i : Fresh(r, i) \subseteq Fresh(r, i)'
      BY <1>0, <1>9 DEF Fresh
    <2> QED BY <1>0, <1>2, <2>1, Kinds DEF Promised
  <1>12. Due' = disk
    BY <1>0 DEF Due, Writing
  <1> QED BY <1>0, <1>5, <1>6, <1>7, <1>8, <1>10, <1>11, <1>12 DEF IInv, Store!Restart

LEMMA InitHolds ==
  ASSUME OpsAssumption, Init
  PROVE  IInv
  <1>1. /\ Hydrator \in Objects /\ Hydrator # Cold /\ NoRecord \in Records /\ Empty \in Map
        /\ Hydrator \notin Ops /\ Cold \notin Ops
    BY OpsAssumption DEF Objects, Records, Empty, Map
  <1>2. /\ \A p \in Ops : phase[p] = "idle"
        /\ Memory = Empty /\ disk = Empty /\ truth = Empty /\ past = {Empty}
    BY <1>1 DEF Init, Memory, Boot
  <1>3. TypeOK
    <2>1. [floor |-> Empty, saw |-> Empty, late |-> {}] \in [floor: Map, saw: Map, late: SUBSET Writers]
      BY <1>1
    <2> DEFINE none == <<>>
    <2>2. none \in Seq(Writers)
      OBVIOUS
    <2> HIDE DEF none
    <2>3. queue = none
      BY DEF Init, none
    <2> QED BY <1>1, <1>2, <2>1, <2>2, <2>3 DEF Init, TypeOK, Phase, Boot
  <1>4. Locked /\ Seen /\ Promised
    BY <1>2, Kinds DEF Locked, AtWork, Seen, Promised
  <1>5. Unshared /\ Warming
    BY <1>1, <1>2, Kinds DEF Unshared, Warming, Busy, Init, Boot
  <1>6. Kept
    BY <1>2, Kinds DEF Kept, Sound
  <1> QED BY <1>3, <1>4, <1>5, <1>6 DEF IInv

\* The lock reaches a write: it goes on with what is cached, or reads the file.
LEMMA LockGrantedKeeps ==
  ASSUME OpsAssumption, IInv, NEW p \in Ops, LockGranted(p)
  PROVE  IInv' /\ (Store!Write(Targets[p]) \/ UNCHANGED <<Memory, disk, past, Due>>)
  <1>1. /\ p \in Writers /\ phase[p] = "queued" /\ Head(queue) = p
        /\ UNCHANGED <<use, cache, disk, truth, view, missed, past>>
    BY Kinds DEF LockGranted, IInv, Locked
  <1>2. CASE cache # Cold
    <2>1. Edit(p, cache) /\ cache \in Objects
      BY <1>2 DEF LockGranted, IInv, TypeOK
    <2> QED BY <1>1, <2>1, EditKeeps
  <1>3. CASE cache = Cold
    <2>1. Goto(p, "opening") /\ UNCHANGED <<queue, heap, data>>
      BY <1>3 DEF LockGranted
    <2> QED BY <1>1, <1>3, <2>1, OpeningKeeps
  <1> QED BY <1>2, <1>3

\* What a step of anybody does to the invariant, to memory and to the file.
LEMMA NextKeeps ==
  ASSUME OpsAssumption, IInv, [Next]_vars
  PROVE  IInv' /\ [Store!Next]_<<Memory, disk, past, Due>>
  <1>1. ASSUME NEW p \in Ops, CallRead(p) \/ CallWrite(p)
        PROVE  IInv' /\ UNCHANGED <<Memory, disk, past, Due>>
    BY <1>1, CallReadKeeps, CallWriteKeeps
  <1>2. ASSUME NEW p \in Ops, LockGranted(p)
        PROVE  IInv' /\ (Store!Write(Targets[p]) \/ UNCHANGED <<Memory, disk, past, Due>>)
    BY <1>2, LockGrantedKeeps
  <1>3. ASSUME NEW p \in Ops, OpenFile(p)
        PROVE  IInv' /\ UNCHANGED <<Memory, disk, past, Due>>
    <2>1. UNCHANGED <<use, queue, cache, data, disk, truth, view, missed, past>>
      BY <1>3 DEF OpenFile
    <2> QED BY <1>3, <2>1, OpeningKeeps
  <1>4. ASSUME NEW p \in Ops, FileRead(p)
        PROVE  IInv' /\ (Store!Write(Targets[p]) \/ Store!Recall \/ UNCHANGED <<Memory, disk, past, Due>>)
    <2>1. CASE p \in Readers
      BY <1>4, <2>1, FileReadKeeps
    <2>2. CASE p \in Writers
      <3>1. /\ Edit(p, p) /\ cache' = p /\ phase[p] = "reading" /\ p \in Objects
            /\ UNCHANGED <<use, disk, truth, view, missed, past>>
        BY <1>4, <2>2 DEF FileRead, Writers, Objects
      <3> QED BY <2>2, <3>1, EditKeeps
    <2> QED BY <2>1, <2>2, Kinds
  <1>5. ASSUME NEW p \in Ops, ReadFails(p) \/ WriteFails(p)
        PROVE  IInv' /\ (Store!Fail \/ UNCHANGED <<Memory, disk, past, Due>>)
    BY <1>5, FailKeeps DEF Store!Fail
  <1>6. ASSUME NEW p \in Ops, Rename(p) PROVE IInv' /\ Store!Flush
    BY <1>6, RenameKeeps
  <1>7. ASSUME NEW p \in Ops, WriteReturns(p) PROVE IInv' /\ Store!Recall
    BY <1>7, WriteReturnsKeeps
  <1>8. ASSUME Restart PROVE IInv' /\ Store!Restart
    BY <1>8, RestartKeeps
  <1>9. ASSUME UNCHANGED vars PROVE IInv' /\ UNCHANGED <<Memory, disk, past, Due>>
    <2>1. UNCHANGED <<use, phase, queue, cache, heap, data, disk, truth, view, missed, past>>
      BY <1>9 DEF vars
    <2>2. Memory' = Memory /\ Due' = Due
      BY <2>1 DEF Memory, Due, Writing
    <2>3. /\ Uncertain' = Uncertain /\ InFlight' = InFlight
          /\ \A i : Sound(i)' = Sound(i) /\ Recalled(i)' = Recalled(i) /\ \A r : Fresh(r, i)' = Fresh(r, i)
      BY <2>1 DEF Uncertain, InFlight, Sound, Recalled, LateReads, Fresh
    <2>4. (TypeOK /\ Locked /\ Unshared /\ Warming /\ Seen)'
      BY <2>1, <2>2 DEF IInv, TypeOK, Locked, Unshared, Warming, Seen
    <2>5. Kept' /\ Promised'
      BY <2>1, <2>2, <2>3 DEF IInv, Kept, Promised, Missing
    <2> QED BY <2>1, <2>2, <2>4, <2>5 DEF IInv
  <1>10. \A p \in Ops : Targets[p] \in SUBSET Ids
    BY OpsAssumption
  <1> QED BY <1>1, <1>2, <1>3, <1>4, <1>5, <1>6, <1>7, <1>8, <1>9, <1>10 DEF Next, Turn, Store!Next

-----------------------------------------------------------------------------
\* The inductive invariant holds, and every step is one of the promised map.
LEMMA InductiveInvariant == Spec => []IInv /\ [][Store!Next]_<<Memory, disk, past, Due>>
  <1>1. Init => IInv
    BY OpsAssumption, InitHolds
  <1>2. IInv /\ [Next]_vars => IInv' /\ [Store!Next]_<<Memory, disk, past, Due>>
    BY OpsAssumption, NextKeeps
  <1> QED BY <1>1, <1>2, PTL DEF Spec

\* Every operation is where an operation can be, on an object that somebody
\* parsed (local-storage.provider.ts).
THEOREM TypeCorrect == Spec => []TypeOK
  <1>1. IInv => TypeOK
    BY DEF IInv
  <1> QED BY <1>1, InductiveInvariant, PTL

\* However a collection is used, a change is only ever dropped for what a first
\* read had found before it and put into the cache after it (readCollection):
\* for any number of calls, of failing reads and writes, and of restarts.
THEOREM OnlyLateReadsDropWrites == Spec => []OnlyLateReadsUndo
  <1>1. IInv => OnlyLateReadsUndo
    BY DEF IInv, Kept, Sound, OnlyLateReadsUndo
  <1> QED BY <1>1, InductiveInvariant, PTL

\* A read sees the writes that had returned before it was called, but for what a
\* late first read has brought back (collectionCache), in any collection.
THEOREM NoStaleRead == Spec => []ReadsAreFresh
  <1>1. IInv => ReadsAreFresh
    BY DEF IInv, Promised, Fresh, Readers, ReadsAreFresh
  <1> QED BY <1>1, InductiveInvariant, PTL

\* The cache, the lock and the file are one map, changed in single steps and
\* flushed as a whole, which a restart takes back to the file and a late first
\* read to something the file contained.
THEOREM CollectionIsAMap == Spec => ImplementsStoreSpec
  BY InductiveInvariant, PTL DEF ImplementsStoreSpec

-----------------------------------------------------------------------------
\* Hydrated at boot, as jobs and workflows are, or never read: then no read of
\* the file can come back after a write of it.
SafelyUsed == \A u \in Uses : u.hydrated \/ \A p \in u.calls : Kind[p] # "read"

NothingMissed ==
  /\ use \in Uses /\ (use.hydrated => cache # Cold)
  /\ \A r \in Readers : /\ missed[r] = {} /\ phase[r] \notin {"opening", "reading"}
                        /\ ~use.hydrated => phase[r] = "idle"

LEMMA NothingMissedKept ==
  ASSUME OpsAssumption, SafelyUsed, IInv, NothingMissed, [Next]_vars
  PROVE  NothingMissed'
  <1> DEFINE Calm(r) == /\ missed[r] = {} /\ phase[r] \notin {"opening", "reading"}
                        /\ ~use.hydrated => phase[r] = "idle"
  <1>0. /\ phase \in [Ops -> Phase] /\ missed \in [Ops -> SUBSET Writers] /\ data \in [Ops -> Objects]
        /\ \A o \in Objects : o # Cold
    BY OpsAssumption DEF IInv, TypeOK, Objects
  <1>1. use' = use /\ (use.hydrated => cache' # Cold)
    <2>1. CASE Restart
      BY <1>0, <2>1 DEF Restart, Boot, Objects
    <2>2. CASE \E p \in Ops : CallRead(p) \/ CallWrite(p) \/ Turn(p)
      BY <1>0, <2>2 DEF NothingMissed, CallRead, CallWrite, Turn, LockGranted, OpenFile, FileRead, ReadFails,
                        Rename, WriteFails, WriteReturns, Objects
    <2> QED BY <2>1, <2>2 DEF NothingMissed, Next, vars
  <1>2. ASSUME NEW r \in Readers PROVE Calm(r)'
    <2>0. Calm(r) /\ r \in Ops /\ r \notin Writers /\ phase[r] \notin {"queued", "writing", "renamed"}
      BY Kinds DEF NothingMissed, IInv, Locked
    <2>1. CASE Restart
      BY <1>0, <1>1, <2>0, <2>1 DEF Restart, Ended
    <2>2. ASSUME NEW p \in Ops, CallRead(p) PROVE Calm(r)'
      <3>1. use.hydrated /\ cache # Cold
        BY <2>2 DEF NothingMissed, CallRead, SafelyUsed
      <3> QED BY <1>0, <1>1, <2>0, <2>2, <3>1 DEF CallRead, Goto
    <2>3. ASSUME NEW p \in Ops, CallWrite(p) \/ Turn(p) PROVE Calm(r)'
      <3>1. p # r
        BY <2>0, <2>3, Kinds DEF CallWrite, Turn, LockGranted, OpenFile, FileRead, ReadFails,
                                 Rename, WriteFails, WriteReturns
      <3>2. phase'[r] = phase[r]
        BY <1>0, <2>0, <2>3, <3>1 DEF CallWrite, Turn, LockGranted, OpenFile, FileRead, ReadFails,
             Rename, WriteFails, WriteReturns, Goto, Leave, Edit, Change, NothingToDelete
      <3>3. missed'[r] = {}
        BY <1>0, <2>0, <2>3 DEF CallWrite, Turn, LockGranted, OpenFile, FileRead, ReadFails,
             Rename, WriteFails, WriteReturns
      <3> QED BY <1>1, <2>0, <3>2, <3>3
    <2>4. CASE UNCHANGED vars
      BY <2>0, <2>4 DEF vars
    <2> QED BY <2>1, <2>2, <2>3, <2>4 DEF Next
  <1> QED BY <1>1, <1>2 DEF NothingMissed

\* No write silently drops another's change, for any number of writers, of
\* failing writes and of restarts, in a collection that is hydrated at boot or
\* never read (collectionLocks).
THEOREM NoWriteDropped ==
  ASSUME SafelyUsed
  PROVE  Spec => []WritesKept
  <1>1. Init => NothingMissed
    <2>1. \A r \in Readers : r \in Ops
      BY Kinds
    <2> QED BY <2>1, OpsAssumption DEF Init, NothingMissed, Boot
  <1>2. IInv /\ NothingMissed /\ [Next]_vars => NothingMissed'
    BY OpsAssumption, NothingMissedKept
  <1>3. IInv /\ NothingMissed => WritesKept
    <2> SUFFICES ASSUME IInv, NothingMissed, NEW i \in Ids
                 PROVE  disk[i] \in {truth[i]} \cup Effects(Uncertain, i)
      BY DEF WritesKept
    <2>1. Recalled(i) = {}
      BY DEF NothingMissed, Recalled, LateReads, Readers
    <2> QED BY <2>1 DEF IInv, Kept, Sound
  <1> QED BY <1>1, <1>2, <1>3, InductiveInvariant, PTL DEF Spec
=============================================================================
