----------------------------- MODULE LocalStorage -----------------------------
(***************************************************************************)
(* One collection of the local file store                                  *)
(* (src/src/providers/local-storage.provider.ts): the cache of its parsed  *)
(* file, the lock that writers queue on, the readers that take no lock,    *)
(* failing reads and writes, and a restart at any point.                   *)
(*                                                                         *)
(* Every operation is one call of getRecord, findRecord or listRecords     *)
(* ("read"), upsertRecord or upsertRecords ("put"), or deleteRecord        *)
(* ("delete").  The record an operation puts is told by the operation.     *)
(* The parsed collection is a JavaScript object that callers share, so it  *)
(* is told by who parsed it, and the heap says what is in it now.          *)
(***************************************************************************)
EXTENDS Naturals, Sequences

CONSTANTS
  Ops,        \* the operations, each called at most once
  Kind,       \* "read", "put" or "delete"
  Targets,    \* the ids an operation writes
  Ids,        \* record ids
  NoRecord,   \* nothing under that id
  Cold,       \* the collection is not in the cache
  Hydrator,   \* the read that hydrate() makes before anything else can
  Uses        \* the uses of a collection to explore: the operations called, and
              \* whether it is hydrated at boot, as jobs and workflows are

ASSUME OpsAssumption ==
  /\ Kind \in [Ops -> {"read", "put", "delete"}]
  /\ Targets \in [Ops -> SUBSET Ids]
  /\ NoRecord \notin Ops /\ Cold \notin Ops \cup {Hydrator} /\ Hydrator \notin Ops
  /\ Uses \subseteq [calls: SUBSET Ops, hydrated: BOOLEAN]

Writers == {p \in Ops : Kind[p] # "read"}
Objects == Ops \cup {Hydrator}
Records == Ops \cup {NoRecord}

VARIABLES
  use,     \* the use it is put to, the same throughout
  phase,   \* how far each operation has got
  queue,   \* withCollectionLock(): the writers, the head holding the lock
  cache,   \* collectionCache: the object it holds, or Cold
  heap,    \* what each parsed object contains
  data,    \* the object a write has changed and is writing
  disk,    \* the collection's file
  truth,   \* history: the file as the writes that returned made it
  view,    \* history: what each read saw, and the truth when it was called
  missed,  \* history: the writes whose rename an operation reading the file misses
  past     \* history: what the file has contained since the process booted

vars == <<use, phase, queue, cache, heap, data, disk, truth, view, missed, past>>

Phase == {"idle", "queued", "opening", "reading", "writing", "renamed", "done", "failed", "dead"}
Ended == {"done", "failed", "dead"}

Goto(p, ph) == phase' = [phase EXCEPT ![p] = ph]

\* Mutant of Leave: an operation that throws keeps the lock.
LeaveWedged(p, ph) ==
  /\ Goto(p, ph)
  /\ queue' = IF p \in Writers /\ ph = "done" THEN Tail(queue) ELSE queue

\* The operation returns or throws; a writer's lock passes to the next.
Leave(p, ph) ==
  /\ Goto(p, ph)
  /\ queue' = IF p \in Writers THEN Tail(queue) ELSE queue

\* What the collection contains for whoever looks.
Memory == IF cache = Cold THEN disk ELSE heap[cache]

\* What is at id i once q has taken effect.
Effect(q, i) == IF Kind[q] = "put" THEN q ELSE NoRecord
Changed(p, m) == [i \in Ids |-> IF i \in Targets[p] THEN Effect(p, i) ELSE m[i]]

-----------------------------------------------------------------------------
\* A read is called; it takes no lock.  What is cached it returns at once, and a
\* cold collection it reads from the file.
CallRead(p) ==
  /\ Kind[p] = "read" /\ p \in use.calls /\ phase[p] = "idle"
  /\ Goto(p, IF cache = Cold THEN "opening" ELSE "done")
  /\ view' = [view EXCEPT ![p] = [floor |-> truth, saw |-> Memory,
                                  late |-> {q \in Writers : phase[q] # "done"}]]
  /\ UNCHANGED <<use, queue, cache, heap, data, disk, truth, missed, past>>

\* A write is called, and queues for the collection's lock.
CallWrite(p) ==
  /\ p \in Writers \cap use.calls /\ phase[p] = "idle"
  /\ Goto(p, "queued")
  /\ queue' = Append(queue, p)
  /\ UNCHANGED <<use, cache, heap, data, disk, truth, view, missed, past>>

\* A put changes the object o in place, and so does the delete of a record that
\* is there, before writeCollection() starts.
Change(p, o) ==
  /\ Kind[p] = "put" \/ \E i \in Targets[p] : heap[o][i] # NoRecord
  /\ heap' = [heap EXCEPT ![o] = Changed(p, heap[o])]
  /\ data' = [data EXCEPT ![p] = o]
  /\ Goto(p, "writing")
  /\ UNCHANGED queue

\* deleteRecord() of a record that is not there returns false.
NothingToDelete(p, o) ==
  /\ Kind[p] = "delete" /\ \A i \in Targets[p] : heap[o][i] = NoRecord
  /\ Leave(p, "done")
  /\ UNCHANGED <<heap, data>>

\* Mutant of Edit: a collection with nothing in it but the records put.
EditFromEmpty(p, o) ==
  /\ heap' = [heap EXCEPT ![o] = Changed(p, [i \in Ids |-> NoRecord])]
  /\ data' = [data EXCEPT ![p] = o]
  /\ Goto(p, "writing")
  /\ UNCHANGED queue

\* What a write does with the object it has read, in the same turn.
Edit(p, o) == Change(p, o) \/ NothingToDelete(p, o)

\* Mutant of LockGranted: no waiting for the writes in front.
LockGrantedAtOnce(p) ==
  /\ phase[p] = "queued"
  /\ \/ cache # Cold /\ Edit(p, cache)
     \/ cache = Cold /\ Goto(p, "opening") /\ UNCHANGED <<queue, heap, data>>
  /\ UNCHANGED <<use, cache, disk, truth, view, missed, past>>

\* The lock's chain reaches it, however the write before it ended.
LockGranted(p) ==
  /\ phase[p] = "queued" /\ Head(queue) = p
  /\ \/ cache # Cold /\ Edit(p, cache)
     \/ cache = Cold /\ Goto(p, "opening") /\ UNCHANGED <<queue, heap, data>>
  /\ UNCHANGED <<use, cache, disk, truth, view, missed, past>>

\* readFile() opens the file; a rename after this does not change what it reads.
OpenFile(p) ==
  /\ phase[p] = "opening"
  /\ Goto(p, "reading")
  /\ heap' = [heap EXCEPT ![p] = disk]
  /\ UNCHANGED <<use, queue, cache, data, disk, truth, view, missed, past>>

\* readFile() returns: the parsed object goes into the cache, whatever is there.
\* A read returns with it, and a write goes on.
FileRead(p) ==
  /\ phase[p] = "reading"
  /\ cache' = p
  /\ \/ /\ Kind[p] = "read"
        /\ Goto(p, "done")
        /\ view' = [view EXCEPT ![p].saw = heap[p]]
        /\ UNCHANGED <<queue, heap, data>>
     \/ p \in Writers /\ Edit(p, p) /\ UNCHANGED view
  /\ UNCHANGED <<use, disk, truth, missed, past>>

\* mkdir, readFile or JSON.parse throws (a missing file is an empty one).
ReadFails(p) ==
  /\ phase[p] \in {"opening", "reading"}
  /\ Leave(p, "failed")
  /\ UNCHANGED <<use, cache, heap, data, disk, truth, view, missed, past>>

\* The temporary file is complete and renamed over the collection's.
Rename(p) ==
  /\ phase[p] = "writing"
  /\ Goto(p, "renamed")
  /\ disk' = heap[data[p]]
  /\ past' = past \cup {disk'}
  /\ missed' = [r \in Ops |-> IF phase[r] = "reading" THEN missed[r] \cup {p} ELSE missed[r]]
  /\ UNCHANGED <<use, queue, cache, heap, data, truth, view>>

\* mkdir, writeFile or rename throws: the caller gets the error.
WriteFails(p) ==
  /\ phase[p] = "writing"
  /\ Leave(p, "failed")
  /\ UNCHANGED <<use, cache, heap, data, disk, truth, view, missed, past>>

\* The rename's await returns, and with it the write.
WriteReturns(p) ==
  /\ phase[p] = "renamed"
  /\ Leave(p, "done")
  /\ cache' = data[p]
  /\ truth' = Changed(p, truth)
  /\ UNCHANGED <<use, heap, data, disk, view, missed, past>>

\* What the cache holds when the first operation can be called.
Boot == IF use.hydrated THEN Hydrator ELSE Cold

\* The process dies and boots: memory is gone, and a hydrated collection is
\* read again before any other operation.
Restart ==
  /\ phase' = [p \in Ops |-> IF phase[p] \in Ended \cup {"idle"} THEN phase[p] ELSE "dead"]
  /\ queue' = <<>>
  /\ cache' = Boot
  /\ heap' = [heap EXCEPT ![Hydrator] = disk]
  /\ past' = {disk}
  /\ UNCHANGED <<use, data, disk, truth, view, missed>>

-----------------------------------------------------------------------------
Empty == [i \in Ids |-> NoRecord]

Init ==
  /\ phase = [p \in Ops |-> "idle"]
  /\ queue = <<>>
  /\ use \in Uses
  /\ cache = Boot
  /\ heap = [o \in Objects |-> Empty]
  /\ data = [p \in Ops |-> Hydrator]
  /\ disk = Empty
  /\ truth = Empty
  /\ view = [p \in Ops |-> [floor |-> Empty, saw |-> Empty, late |-> {}]]
  /\ missed = [p \in Ops |-> {}]
  /\ past = {Empty}

Turn(p) ==
  \/ LockGranted(p) \/ OpenFile(p) \/ FileRead(p) \/ ReadFails(p)
  \/ Rename(p) \/ WriteFails(p) \/ WriteReturns(p)

Next ==
  \/ \E p \in Ops : CallRead(p) \/ CallWrite(p) \/ Turn(p)
  \/ Restart

Spec == Init /\ [][Next]_vars

\* A turn that is ready runs and a file system call is answered.
FairSpec == Spec /\ \A p \in Ops : WF_vars(Turn(p))
-----------------------------------------------------------------------------
Map == [Ids -> Records]

TypeOK ==
  /\ use \in Uses
  /\ phase \in [Ops -> Phase]
  /\ queue \in Seq(Writers)
  /\ cache \in Objects \cup {Cold}
  /\ heap  \in [Objects -> Map]
  /\ data  \in [Ops -> Objects]
  /\ disk  \in Map
  /\ truth \in Map
  /\ view  \in [Ops -> [floor: Map, saw: Map, late: SUBSET Writers]]
  /\ missed \in [Ops -> SUBSET Writers]
  /\ past \subseteq Map

\* The writes whose callers have been told nothing yet, or that they failed.
Uncertain == {q \in Writers : phase[q] \in {"renamed", "failed", "dead"}}

\* What the writes in ops make of record i.
Effects(ops, i) == {Effect(q, i) : q \in {o \in ops : i \in Targets[o]}}

\* What reads found of record i in the file before the rename of a write of i,
\* and put into the cache after it.
LateReads(i) == {r \in Ops : /\ Kind[r] = "read" /\ phase[r] = "done"
                             /\ \E q \in missed[r] : i \in Targets[q]}
Recalled(i) == {view[r].saw[i] : r \in LateReads(i)}

\* No write silently drops another's change: the file is what the writes that
\* returned made of it, but for those whose callers know no better
\* (local-storage.provider.ts, the comment on collectionLocks).
WritesKept == \A i \in Ids : disk[i] \in {truth[i]} \cup Effects(Uncertain, i)

\* However a collection is used, a change is only ever dropped for what a first
\* read, which takes no lock, had found in the file before that change and put
\* into the cache after it (readCollection); no other overlap of reads, writes,
\* failures and restarts drops anything.
OnlyLateReadsUndo ==
  \A i \in Ids : disk[i] \in {truth[i]} \cup Effects(Uncertain, i) \cup Recalled(i)

\* A read sees every write that had returned before it was called, unless it
\* sees another that had not, or what a late first read has brought back
\* (collectionCache: "writeCollection keeps it in sync").
ReadsAreFresh ==
  /\ TypeOK
  /\ \A p \in Ops : Kind[p] = "read" /\ phase[p] = "done" => \A i \in Ids :
       view[p].saw[i] \in {view[p].floor[i]} \cup Effects(view[p].late, i) \cup Recalled(i)

\* Every call is answered, and one failed write does not "permanently wedge the
\* queue for every write after it" (withCollectionLock).
CallsEnd == \A p \in Ops : phase[p] # "idle" ~> phase[p] \in Ended

-----------------------------------------------------------------------------
\* The cache, the lock and the file implement one map that is flushed as a whole.
Writing == queue # <<>> /\ phase[Head(queue)] \in {"writing", "renamed"}
Due == IF Writing THEN heap[data[Head(queue)]] ELSE disk

Store == INSTANCE StoreSpec WITH memory <- Memory, file <- disk, due <- Due

ImplementsStoreSpec == [][Store!Next]_<<Memory, disk, past, Due>>
=============================================================================
