---------------------------- MODULE MCLocalStorage ----------------------------
(* Model-checking instances of LocalStorage: small sets of operations. *)
EXTENDS LocalStorage, TLC

CONSTANTS put1, put2, put3, del, get1, get2, a, b   \* operations and ids

MCOps  == {put1, put2, put3, del, get1, get2}
MCKind == [p \in MCOps |-> CASE p = del -> "delete" [] p \in {get1, get2} -> "read" [] OTHER -> "put"]

\* put1 and put2 write different records, put3 both at once (upsertRecords), and
\* del deletes what put1 wrote.
MCTargets == [p \in MCOps |-> CASE p = put2 -> {b} [] p = put3 -> {a, b}
                                [] p \in {get1, get2} -> {} [] OTHER -> {a}]

Use(ops, hydrated) == [calls |-> ops, hydrated |-> hydrated]

\* A collection that is hydrated and then only written, as jobs and workflows
\* are, and cold ones whose first reads overlap writes, as all the others are.
AllUses == {Use({put1, put2, put3, del}, TRUE), Use({put1, put2, get1, get2}, FALSE),
            Use({put1, put3, del, get1}, FALSE)}

\* A first read of a cold collection overlapping its first writes.
FirstRead == {Use({put1, put2, get1}, FALSE)}
=============================================================================
