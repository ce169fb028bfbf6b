------------------------------ MODULE MCEvents ------------------------------
(* A job of a plugin's agent that may be tried twice, a request for a task of *)
(* an agent that is missing, and sockets with and without a scope.            *)
EXTENDS Events

CONSTANTS j1, c1, s1, s2, here, there

MCHome   == j1 :> here @@ c1 :> there
MCAgents == j1 :> "strings" @@ c1 :> "other"
MCBudget == j1 :> 2
MCScope  == s1 :> All @@ s2 :> here

Offer(name, c) == [name |-> name, capability |-> c]
Described(p, ops) == [priority |-> p, operations |-> ops]

MCBuiltin == <<Described(0, <<Offer("decompile", "java")>>) @@ [kind |-> "jadx"],
               Described(0, <<Offer("scan", "strings")>>) @@ [kind |-> "filesystem"]>>

Agent(kind, d) == [do |-> "agent", kind |-> kind, descriptor |-> d]
Listen(event)  == [do |-> "on", event |-> event]
Throw          == [do |-> "throw"]

\* One that is told of ends, one that breaks off half way, two with descriptors that
\* are refused, example-strings, and one that is not enabled.
MCInstalled == <<"notifier", "broken", "refused", "typo", "strings", "off">>
MCScript ==
  "notifier" :> <<Listen(<<"job", "completed">>), Listen(<<"job", "failed">>),
                  Listen(<<"plugin", "failed">>)>>
  @@ "broken" :> <<Listen(<<"job", "created">>), Agent("jadx", Described(1, <<Offer("a", "java")>>)), Throw,
                   Agent("other", NoDescriptor)>>
  @@ "refused" :> <<Agent("unpack", Described(1, <<Offer("a", "java"), Offer("b", "java")>>)),
                    Agent("jadx", Described(2, <<Offer("a", "java"), Offer("a", "strings")>>))>>
  @@ "typo" :> <<Agent("unpack", Described(3, <<Offer("a", "java"), Offer("b", "Bad Id")>>))>>
  @@ "strings" :> <<Agent("strings", NoDescriptor), Listen(<<"job", "completed">>)>>
  @@ "off" :> <<Agent("jadx", Described(9, <<Offer("a", "java")>>))>>
=============================================================================
