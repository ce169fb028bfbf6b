------------------------------- MODULE Verifier -------------------------------
(***************************************************************************)
(* How a piece of evidence is checked against what it cites                *)
(* (findings/verifier.ts): the place in the artifact's directory, the      *)
(* entity in the graph, and one verdict out of both.  It reads and reports *)
(* only, so it is written as operators; Evidence applies them to its state.*)
(*                                                                         *)
(* A location is a name with no line, one line, or a first and a last.     *)
(***************************************************************************)
EXTENDS Naturals, Sequences

CONSTANT None   \* nothing

Verdicts == {"verified", "unverified", "failed"}

Location ==
  {l \in [file: STRING, absolute: BOOLEAN, lines: Seq(Nat)] : Len(l.lines) <= 2}

\* What a name stands for in a directory, once links are followed: "outside" is
\* a place that is not in the artifact, "large" a file that is not read.
Entry == [kind: {"missing", "folder", "outside", "file"}, large: BOOLEAN, lines: Nat]

\* The output of a task on disk: root and sources tell what a name stands for in
\* the directory itself and in its sources/ folder.
Place(pathType, present, root, sources) ==
  [pathType |-> pathType, present |-> present, root |-> root, sources |-> sources]

-----------------------------------------------------------------------------
CheckLines(entry, lines) ==
  CASE lines = <<>> -> "verified"
    [] lines # <<>> /\ (lines[1] < 1 \/ lines[Len(lines)] < lines[1]) -> "failed"
    [] lines # <<>> /\ lines[1] >= 1 /\ lines[Len(lines)] >= lines[1] ->
         IF entry.large THEN "unverified"
         ELSE IF lines[Len(lines)] <= entry.lines THEN "verified" ELSE "failed"

\* The directory itself is looked at before sources/; a folder of the name is passed over.
Resolved(place, file) ==
  IF place.root[file].kind \in {"missing", "folder"} THEN place.sources[file] ELSE place.root[file]

CheckLocation(place, location) ==
  IF place.pathType # "directory" \/ ~place.present THEN "unverified"
  ELSE IF location.absolute \/ Resolved(place, location.file).kind # "file" THEN "failed"
  ELSE CheckLines(Resolved(place, location.file), location.lines)

\* seen: the artifacts the entity was observed in, or None if it is not there.
CheckEntity(seen, artifact) ==
  IF seen # None /\ artifact \in seen THEN "verified" ELSE "failed"

\* Mutant of CombineChecks: one good check makes up for a place nobody looked at.
CombineChecksEither(location, entity) ==
  IF "failed" \in {location, entity} THEN "failed"
  ELSE IF "verified" \in {location, entity} THEN "verified" ELSE "unverified"

\* entity is None when none is cited.
CombineChecks(location, entity) == IF entity = "failed" THEN "failed" ELSE location

\* items: the verdicts on all the evidence.
Summarize(items) ==
  CASE "failed" \in items -> "failed"
    [] items \cap {"failed", "verified"} = {} -> "unverified"
    [] items = {"verified"} -> "verified"
    [] OTHER -> "partial"
=============================================================================
