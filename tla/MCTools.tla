------------------------------ MODULE MCTools -------------------------------
(* Two workflows on one workspace, of which the first often is the loop of *)
(* docs/APK_MODIFICATION.md and the second meddles.                        *)
EXTENDS Tools

Nothing == [x \in {} |-> x]

MCSource == [a |-> <<"x", "y", "x">>, b |-> <<"y">>]

DoDecode(n) == [maxAttempts |-> 1, op |-> "decode", payload |-> [apkPath |-> Given(n)]]
DoPatch(x, p, all) == [maxAttempts |-> 1, op |-> "patch", find |-> x, replace |-> p, all |-> all,
                       payload |-> [projectDir |-> ProjectDir]]
DoBuild  == [maxAttempts |-> 1, op |-> "build", name |-> "r", payload |-> [inputDir |-> ProjectDir]]
DoSign   == [maxAttempts |-> 1, op |-> "sign", payload |-> [outputName |-> "r"]]
Resign   == [maxAttempts |-> 1, op |-> "sign", payload |-> [apkPath |-> BuildPath("r")]]
DoSignOf(n) == [maxAttempts |-> 1, op |-> "sign", payload |-> [apkPath |-> Given(n), outputName |-> "r"]]
DoInstall == [maxAttempts |-> 1, op |-> "install", payload |-> [apkPath |-> SignedPath("r")]]
Simple(op) == [maxAttempts |-> 1, op |-> op, payload |-> [apkPath |-> Given("a"), localPath |-> Given("a")]]
DoTrace(s) == [maxAttempts |-> 1, op |-> "trace", script |-> s, payload |-> Nothing]
DoWrite  == [maxAttempts |-> 1, op |-> "write", text |-> <<"w">>, payload |-> Nothing]
DoDelete(p) == [maxAttempts |-> 1, op |-> "delete", path |-> p, payload |-> Nothing]
DoLook(op) == [maxAttempts |-> 1, op |-> op, path |-> ProjectDir, payload |-> Nothing]
DoSearch(op) == [maxAttempts |-> 1, op |-> op, find |-> "x", payload |-> Nothing]

Twice(s) == [s EXCEPT !.maxAttempts = 2]

Loop == <<DoDecode("a"), DoPatch("y", "p", FALSE), DoBuild, DoSign, DoInstall>>

Sdk     == [signer |-> "sdk", zipalign |-> TRUE]
Termux  == [signer |-> "lite", zipalign |-> FALSE]
Unaligned == [signer |-> "sdk", zipalign |-> FALSE]

World(p, q, h) == [plan |-> 1 :> p @@ 2 :> q, host |-> h]

\* Meddling with the project.
Editors == {
  <<DoPatch("x", "q", TRUE)>>,
  <<DoPatch("x", "q", FALSE)>>,
  <<DoDecode("b"), DoPatch("y", "q", FALSE)>>,
  <<DoDelete(ProjectDir), DoWrite>>,
  <<DoLook("list"), DoSearch("scan-secrets"), DoSearch("search")>> }

\* Meddling with the APKs.
Builders == {
  <<DoBuild, DoSign>>,
  <<DoSignOf("b"), DoInstall>>,
  <<Resign, Simple("uninstall")>>,
  <<DoDelete(SignedPath("r"))>> }

MCWorlds ==
  {World(Loop, << >>, h) : h \in {Sdk, Termux, Unaligned}}
  \cup {World(Loop, m, Termux) : m \in Editors}
  \cup {World(Loop, m, Sdk) : m \in Builders}
  \cup {World(<<DoSignOf("a"), DoInstall>>, <<Twice(DoSignOf("b")), DoInstall>>, Sdk),
        World(<<DoDecode("a"), Twice(DoPatch("y", "p", FALSE)), DoBuild>>,
              <<Twice(DoPatch("x", "q", TRUE))>>, Sdk),
        World(<<DoTrace("s"), Simple("identify")>>, <<DoTrace("t"), Simple("decompile")>>, Sdk)}
=============================================================================
