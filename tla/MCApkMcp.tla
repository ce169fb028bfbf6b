------------------------------ MODULE MCApkMcp ------------------------------
EXTENDS ApkMcp, TLC

CONSTANTS t1, t2

\* A close, with an activation of another kind beside it.
AskedOfTwo == t1 :> {"close"} @@ t2 :> Ops \ {"close"}
=============================================================================
