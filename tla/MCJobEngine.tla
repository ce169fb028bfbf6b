----------------------------- MODULE MCJobEngine -----------------------------
(* Model-checking instances of JobEngine: model values for job ids.  The    *)
(* proof module is extended so that its inductive invariant can be checked. *)
EXTENDS JobEngineProofs

CONSTANTS j1, j2   \* job ids
=============================================================================
