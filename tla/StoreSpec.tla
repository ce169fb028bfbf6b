------------------------------ MODULE StoreSpec ------------------------------
(***************************************************************************)
(* The promise of a collection in local storage, however it is used: one   *)
(* map in memory that every write changes in a single step, at exactly the *)
(* records it is about; a file that only ever becomes, as a whole, what a  *)
(* write made of the map; and a restart that returns to the file.  Memory  *)
(* may also fall back to something the file contained since the process    *)
(* booted: a first read takes no lock and may come back late.              *)
(***************************************************************************)
CONSTANTS Ids,      \* record ids
          Records   \* the values a record can have, with "no record"

VARIABLES memory,   \* the map that callers read and write
          file,     \* the file
          past,     \* what the file has contained since the process booted
          due       \* what the write under way will leave in the file

vars == <<memory, file, past, due>>

TypeOK ==
  /\ memory \in [Ids -> Records] /\ file \in [Ids -> Records] /\ due \in [Ids -> Records]
  /\ past \subseteq [Ids -> Records]

\* A write puts records at, or deletes, some ids and leaves every other alone;
\* the one before it has ended.
Write(ids) ==
  /\ due = file
  /\ \E v \in Records : memory' = [i \in Ids |-> IF i \in ids THEN v ELSE memory[i]]
  /\ due' = memory'
  /\ UNCHANGED <<file, past>>

\* The write reaches the file, or fails.
Flush == file' = due /\ past' = past \cup {due} /\ UNCHANGED <<memory, due>>
Fail  == due' = file /\ UNCHANGED <<memory, file, past>>

\* Memory becomes what the file was at some time since boot.
Recall  == memory' \in past /\ UNCHANGED <<file, past, due>>

Restart == memory' = file /\ due' = file /\ past' = {file} /\ UNCHANGED file

Next == (\E ids \in SUBSET Ids : Write(ids)) \/ Flush \/ Fail \/ Recall \/ Restart
=============================================================================
