------------------------------ MODULE MCEvidence ------------------------------
(* Model-checking instances of Evidence: two targets, a few calls. *)
EXTENDS Evidence, TLC

CONSTANTS t1, t2, c1, c2, c3, pkg, cls, far, f1, here, there   \* model values

MCHome == [x \in Tasks \cup Entities \cup Findings |-> IF x = far THEN there ELSE here]

\* Both tasks decompile the same package, whose class only the first one shows.
MCObserves == t1 :> {pkg, cls} @@ t2 :> {pkg}
MCContains == t1 :> {<<pkg, cls>>} @@ t2 :> {}

\* Both of them produce the same output: the second takes over the first one's
\* artifact, unless they overlap.
OneOutput == [t \in Tasks |-> t1]

\* In the output's directory a file has no line beyond its third.
AFile(n) == [kind |-> "file", large |-> FALSE, lines |-> n]
Other(kind) == [kind |-> kind, large |-> FALSE, lines |-> 0]
At(lines) == [file |-> "Api", absolute |-> FALSE, lines |-> lines]
MCOnDisk == t1 :> Place("directory", TRUE, "Api" :> Other("folder"), "Api" :> AFile(3))
MCLocations == {At(<<2>>)}

\* For every way two entries and up to two lines may be: what is verified is there,
\* where it is looked for first, and nothing but a file that is not read is left open.
ASSUME LocationsAreChecked ==
  LET Entries == {Other(k) : k \in {"missing", "folder", "outside"}} \cup {AFile(n) : n \in 0 .. 2}
                   \cup {[AFile(2) EXCEPT !.large = TRUE]}
      Numbers == {<<>>} \cup {<<n>> : n \in 0 .. 3} \cup ((0 .. 3) \X (0 .. 3))
  IN \A root, sources \in Entries : \A lines \in Numbers :
       LET verdict == CheckLocation(Place("directory", TRUE, "Api" :> root, "Api" :> sources), At(lines))
           first == IF root.kind \in {"file", "outside"} THEN root ELSE sources
       IN /\ verdict = "verified" => HasLines(first, lines)
          /\ verdict = "unverified" <=> first.large /\ lines # <<>> /\ HasLines(first, lines)

\* What is cited with a line, or with no place at all.
Cites(a, e, l) == [artifact |-> a, entity |-> e, location |-> l]
Update(s, ev) == [op |-> "update", finding |-> f1, status |-> s, evidence |-> ev]
Create(s, ev) == [op |-> "create", finding |-> f1, status |-> s, evidence |-> ev]
Edge(w, x, y) == [op |-> "edge", workspace |-> w, from |-> x, to |-> y]
Entity(w, e, as) == [op |-> "entity", workspace |-> w, entity |-> e, cites |-> as]

\* A call on the graph, or a finding created and two kinds of update of it that
\* only together would break the rule for confirmed ones; or an upsert that is
\* refused, of an entity that cites another workspace's artifact.
MCRequests ==
  c1 :> {Entity(there, far, {t1}), Update(None, {})}
  @@ c2 :> {Edge(here, pkg, cls), Entity(here, cls, {}), Create("confirmed", {}),
            Create("unverified", {Cites(t1, cls, At(<<2>>)), Cites(t1, cls, None)})}
  @@ c3 :> {Update("confirmed", None)}
===============================================================================
