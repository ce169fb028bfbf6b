----------------------------- MODULE ChatProofs -----------------------------
(***************************************************************************)
(* Proofs about Chat, for any number of requests, any number of them at    *)
(* once, any lengths and any budget.  An id is used by one request only,   *)
(* and what an entry is (all but its size) is fixed once it is stored, so  *)
(* that an update writes back what was there (Known).  As long as nothing  *)
(* disturbs it, the stored conversation alternates by the times of its     *)
(* messages (Alternating), whatever their places.                          *)
(***************************************************************************)
EXTENDS Chat, FiniteSetTheorems, SequenceTheorems, WellFoundedInduction, TLAPS

-----------------------------------------------------------------------------
\* Entries that are stored, and those a request has read and may write back.
Known == ToSet(entries) \cup ({about[c] : c \in Calls} \ {NoEntry})

Places == {"idle", "listing", "asking", "completing", "creating", "looking",
           "writing", "deleting", "done"}

\* Where a request of a kind may stand.
Stands(o, p) ==
  \/ o = "none" /\ p = "idle"
  \/ o = "chat" /\ p \in {"listing", "asking", "completing", "done"}
  \/ o = "create" /\ p \in {"creating", "done"}
  \/ o = "summarize" /\ p \in {"looking", "completing", "done"}
  \/ o = "update" /\ p \in {"looking", "writing", "done"}
  \/ o = "delete" /\ p \in {"looking", "deleting", "done"}

Sent == [id : Ids, role : {"user", "assistant"}, size : 0..(Cap + Mark)]

Typed ==
  /\ entries \in Seq(Entry) /\ clock \in Nat
  /\ \A e \in ToSet(entries) : e.at <= clock
  /\ op \in [Calls -> Ops \cup {"none"}] /\ pc \in [Calls -> Places]
  /\ \A c \in Calls : Stands(op[c], pc[c])
  /\ about \in [Calls -> Entry \cup {NoEntry}]
  /\ history \in [Calls -> Seq(Sent)]
  /\ answer \in [Calls -> {"none", "ok", "404", "502"}]
  /\ deleted \subseteq Ids /\ disturbed \in BOOLEAN

\* One record per id.
Distinct == \A i, j \in DOMAIN entries : entries[i].id = entries[j].id => i = j

Reads(c) == pc[c] \in {"looking", "writing", "deleting"} \/ (pc[c] = "completing" /\ op[c] = "summarize")

\* Has the request an id belongs to come to storing it?
Made(id) ==
  IF id[2] = "question" THEN op[id[1]] = "chat" /\ pc[id[1]] \in {"completing", "done"}
                        ELSE pc[id[1]] = "done"

\* What is known of an id is one thing, and it is stored unless it was deleted.
Agreed ==
  /\ \A e, f \in Known : e.id = f.id => e.at = f.at /\ e.type = f.type /\ e.source = f.source
  /\ \A c \in Calls : Reads(c) <=> about[c] # NoEntry
  /\ \A e \in Known : e.at <= clock /\ Made(e.id) /\ e.id \in Stored \cup deleted
  /\ \A id \in deleted : Made(id)

\* A question that was stored before time t, unless it was deleted.
Questioned(q, t) == q \in deleted \/ \E i \in DOMAIN entries : entries[i].id = q /\ entries[i].at < t

Answering ==
  /\ \A e \in Known : e.id[2] = "reply" => Questioned(<<e.id[1], "question">>, e.at)
  /\ \A c \in Calls : pc[c] = "completing" /\ op[c] = "chat" => <<c, "question">> \in Stored \cup deleted
  /\ \A i, j \in DOMAIN entries :
       entries[j].id[2] = "reply" /\ entries[i].id = <<entries[j].id[1], "question">>
         => i < j \/ entries[j].id \in deleted \/ entries[i].id \in deleted

IInv == Typed /\ Distinct /\ Agreed /\ Answering /\ PromptNotInHistory

-----------------------------------------------------------------------------
\* The messages by their times.
Talk  == {e \in ToSet(entries) : e.type = "chat"}
Times == {e.at : e \in Talk}
Later(t) == {u \in Times : u > t}

Chatting == {c \in Calls : op[c] = "chat" /\ pc[c] # "done"}
Unanswered == IF \E c \in Chatting : pc[c] = "completing" THEN 1 ELSE 0

Apart == \A e, f \in Talk : e.at = f.at => e = f

\* The user's messages are those with a reply, or that wait for one.
InTurn == \A e \in Talk :
  e.source = (IF (Cardinality(Later(e.at)) + Unanswered) % 2 = 1 THEN "user" ELSE "system")

Alternating ==
  /\ Apart /\ InTurn
  /\ \A e \in Known : e.type = "chat" => e.id \notin deleted
  /\ \A c, d \in Chatting : c = d
  /\ \A c \in Calls : \A k \in DOMAIN history[c] :
       history[c][k].role = (IF k % 2 = 1 THEN "user" ELSE "assistant")

Undisturbed == disturbed \/ Alternating


-----------------------------------------------------------------------------
(* What the collection's operators do.                                     *)

LEMMA NoEntryIsNone == NoEntry \notin Entry /\ NoEntry.id \notin Ids
  <1>1. NoEntry.id = <<0, "entry">>
    BY DEF NoEntry
  <1>2. NoEntry.id \notin Ids
    BY <1>1 DEF Ids, Calls
  <1> QED BY <1>2 DEF Entry

LEMMA Appended ==
  ASSUME NEW es \in Seq(Entry), NEW e \in Entry
  PROVE  LET grown == Append(es, e) IN
         /\ grown \in Seq(Entry) /\ DOMAIN grown = DOMAIN es \cup {Len(es) + 1}
         /\ \A i \in DOMAIN es : i < Len(es) + 1 /\ grown[i] = es[i]
         /\ grown[Len(es) + 1] = e
         /\ ToSet(grown) = ToSet(es) \cup {e}
  <1> DEFINE grown == Append(es, e)
  <1>1. /\ grown \in Seq(Entry) /\ Len(grown) = Len(es) + 1
        /\ \A i \in 1..Len(es) : grown[i] = es[i]
        /\ grown[Len(es) + 1] = e
    BY AppendProperties
  <1>2. Len(es) \in Nat /\ DOMAIN es = 1..Len(es) /\ DOMAIN grown = 1..(Len(es) + 1)
    BY <1>1, LenProperties
  <1>3. DOMAIN grown = DOMAIN es \cup {Len(es) + 1}
    BY <1>2
  <1>4. ToSet(grown) = ToSet(es) \cup {e}
    <2>1. \A i \in DOMAIN es : grown[i] = es[i]
      BY <1>1, <1>2
    <2> HIDE DEF grown
    <2> QED BY <2>1, <1>1, <1>3 DEF ToSet
  <1>5. \A i \in DOMAIN es : i < Len(es) + 1
    BY <1>2
  <1> QED BY <1>1, <1>2, <1>3, <1>4, <1>5

LEMMA Removed ==
  ASSUME NEW es \in Seq(Entry), NEW p \in DOMAIN es
  PROVE  LET shrunk == RemoveAt(es, p)
             Old(k) == IF k < p THEN k ELSE k + 1 IN
         /\ shrunk \in Seq(Entry)
         /\ \A k \in DOMAIN shrunk : k \in Nat /\ Old(k) \in DOMAIN es \ {p} /\ shrunk[k] = es[Old(k)]
         /\ \A i \in DOMAIN es \ {p} : \E k \in DOMAIN shrunk : Old(k) = i
  <1> DEFINE shrunk == RemoveAt(es, p)
             Old(k) == IF k < p THEN k ELSE k + 1
             front == SubSeq(es, 1, p - 1)
             back  == SubSeq(es, p + 1, Len(es))
  <1>1. Len(es) \in Nat /\ DOMAIN es = 1..Len(es) /\ \A i \in 1..Len(es) : es[i] \in Entry
    BY LenProperties, ElementOfSeq
  <1>2. /\ front \in Seq(Entry) /\ Len(front) = p - 1
        /\ \A i \in 1..(p - 1) : front[i] = es[i]
    <2>1. p \in 1..Len(es) /\ \A i \in 1..(p - 1) : es[i] \in Entry
      BY <1>1
    <2>2. /\ front \in Seq(Entry)
          /\ Len(front) = IF 1 <= p - 1 THEN (p - 1) - 1 + 1 ELSE 0
          /\ \A i \in 1..((p - 1) - 1 + 1) : front[i] = es[1 + i - 1]
      BY <2>1, <1>1, SubSeqProperties
    <2> HIDE DEF front
    <2> QED BY <2>1, <2>2, <1>1
  <1>3. /\ back \in Seq(Entry) /\ Len(back) = Len(es) - p
        /\ \A i \in 1..(Len(es) - p) : back[i] = es[p + i]
    <2>1. p \in 1..Len(es) /\ \A i \in (p + 1)..Len(es) : es[i] \in Entry
      BY <1>1
    <2>2. /\ back \in Seq(Entry)
          /\ Len(back) = IF p + 1 <= Len(es) THEN Len(es) - (p + 1) + 1 ELSE 0
          /\ \A i \in 1..(Len(es) - (p + 1) + 1) : back[i] = es[(p + 1) + i - 1]
      BY <2>1, <1>1, SubSeqProperties
    <2> HIDE DEF back
    <2>3. Len(back) = Len(es) - p
      BY <2>1, <2>2, <1>1
    <2>4. ASSUME NEW i \in 1..(Len(es) - p) PROVE back[i] = es[p + i]
      <3>1. i \in 1..(Len(es) - (p + 1) + 1) /\ (p + 1) + i - 1 = p + i
        BY <2>1, <1>1
      <3> QED BY <3>1, <2>2
    <2> QED BY <2>2, <2>3, <2>4
  <1> HIDE DEF front, back
  <1>4. shrunk = front \o back
    BY DEF shrunk, RemoveAt, front, back
  <1>5. /\ shrunk \in Seq(Entry) /\ Len(shrunk) = (p - 1) + (Len(es) - p)
        /\ \A i \in 1..((p - 1) + (Len(es) - p)) :
             shrunk[i] = IF i <= p - 1 THEN front[i] ELSE back[i - (p - 1)]
    <2>1. /\ front \o back \in Seq(Entry) /\ Len(front \o back) = Len(front) + Len(back)
          /\ \A i \in 1..(Len(front) + Len(back)) :
               (front \o back)[i] = IF i <= Len(front) THEN front[i] ELSE back[i - Len(front)]
      BY <1>2, <1>3, ConcatProperties
    <2> HIDE DEF shrunk
    <2> QED BY <2>1, <1>2, <1>3, <1>4
  <1> HIDE DEF shrunk
  <1>6. p \in 1..Len(es) /\ Len(shrunk) = Len(es) - 1 /\ DOMAIN shrunk = 1..(Len(es) - 1)
    BY <1>1, <1>5, LenProperties
  <1>7. ASSUME NEW k \in DOMAIN shrunk
        PROVE  k \in Nat /\ Old(k) \in DOMAIN es \ {p} /\ shrunk[k] = es[Old(k)]
    <2>1. k \in 1..(Len(es) - 1) /\ k \in 1..((p - 1) + (Len(es) - p))
      BY <1>1, <1>6
    <2>2. CASE k < p
      BY <2>1, <2>2, <1>1, <1>2, <1>5, <1>6
    <2>3. CASE ~(k < p)
      <3>1. k - (p - 1) \in 1..(Len(es) - p) /\ p + (k - (p - 1)) = k + 1 /\ ~(k <= p - 1)
        BY <2>1, <2>3, <1>1, <1>6
      <3>2. shrunk[k] = es[k + 1]
        BY <2>1, <3>1, <1>3, <1>5
      <3> QED BY <2>1, <2>3, <3>2, <1>1, <1>6
    <2> QED BY <2>2, <2>3
  <1>8. ASSUME NEW i \in DOMAIN es \ {p} PROVE \E k \in DOMAIN shrunk : Old(k) = i
    <2>1. CASE i < p
      BY <2>1, <1>1, <1>6
    <2>2. CASE ~(i < p)
      <3>1. i - 1 \in DOMAIN shrunk /\ Old(i - 1) = i
        BY <2>2, <1>1, <1>6
      <3> QED BY <3>1
    <2> QED BY <2>1, <2>2
  <1> QED BY <1>5, <1>7, <1>8 DEF shrunk

\* A record that is put in its place.
LEMMA Replaced ==
  ASSUME NEW es \in Seq(Entry), NEW e \in Entry
  PROVE  LET changed == [i \in DOMAIN es |-> IF es[i].id = e.id THEN e ELSE es[i]] IN
         /\ changed \in Seq(Entry) /\ DOMAIN changed = DOMAIN es
         /\ \A i \in DOMAIN es : changed[i].id = es[i].id
  <1> DEFINE changed == [i \in DOMAIN es |-> IF es[i].id = e.id THEN e ELSE es[i]]
  <1>1. Len(es) \in Nat /\ DOMAIN es = 1..Len(es) /\ \A i \in DOMAIN es : es[i] \in Entry
    BY LenProperties, ElementOfSeq
  <1>2. changed \in [1..Len(es) -> Entry]
    BY <1>1
  <1>3. changed \in Seq(Entry)
    BY <1>1, <1>2, SeqDef
  <1> QED BY <1>3

LEMMA StoredIsIds == ASSUME NEW id PROVE id \in Stored <=> \E e \in ToSet(entries) : e.id = id
  BY DEF Stored, ToSet

\* Finite sets of numbers, and what counting them tells.
LEMMA OneRecordEach ==
  ASSUME Typed, Distinct PROVE Cardinality(Stored) = Len(entries)
  <1> DEFINE f == [i \in 1..Len(entries) |-> entries[i].id]
  <1>1. Len(entries) \in Nat /\ DOMAIN entries = 1..Len(entries)
    BY LenProperties DEF Typed
  <1>2. f \in Surjection(1..Len(entries), Stored)
    BY <1>1 DEF Stored, Surjection
  <1>3. f \in Injection(1..Len(entries), Stored)
    BY <1>1, <1>2 DEF Distinct, Injection, Surjection, IsInjective
  <1>4. IsFiniteSet(1..Len(entries)) /\ Cardinality(1..Len(entries)) = Len(entries)
    <2>1. /\ IsFiniteSet(1..Len(entries))
          /\ Cardinality(1..Len(entries)) = IF 1 > Len(entries) THEN 0 ELSE Len(entries) - 1 + 1
      BY <1>1, FS_Interval
    <2> QED BY <2>1, <1>1
  <1> QED BY <1>2, <1>3, <1>4, FS_Surjection

-----------------------------------------------------------------------------
(* The history that is cut from the conversation.                          *)

\* However long the messages are, it has whole pairs, and no more than there are.
LEMMA PairsThereAre ==
  ASSUME NEW recent, Len(recent) \in Nat
  PROVE  Pairs(recent) \in Nat /\ 2 * Pairs(recent) <= Len(recent)
  <1> DEFINE n == Candidates(recent)
             Stops(i) == i = n \/ Spent(recent, i + 1) > Budget
             Stop == {i \in 0..n : Stops(i)}
  <1>1. n \in Nat /\ 2 * n <= Len(recent)
    BY BoundsAssumption DEF Candidates, Least
  <1>2. Stop \subseteq Nat /\ Stop # {}
    <2>1. n \in Stop
      BY <1>1
    <2> QED BY <1>1, <2>1
  <1>3. PICK i \in Stop : \A k \in Stop : ~(<<k, i>> \in OpToRel(<, Nat))
    BY <1>2, WFMin, NatLessThanWellFounded
  <1>4. \A k \in 0..(i - 1) : ~Stops(k)
    <2> SUFFICES ASSUME NEW k \in 0..(i - 1), Stops(k) PROVE FALSE
      OBVIOUS
    <2>1. i \in Nat /\ i <= n
      BY <1>1, <1>2
    <2>2. k \in Stop /\ k < i /\ k \in Nat /\ i \in Nat
      BY <2>1, <1>1
    <2>3. <<k, i>> \in OpToRel(<, Nat)
      BY <2>2 DEF OpToRel
    <2> QED BY <2>2, <2>3, <1>3
  <1>5. Pairs(recent) \in 0..n
    <2>1. Pairs(recent) = CHOOSE j \in 0..n : Stops(j) /\ \A k \in 0..(j - 1) : ~Stops(k)
      BY DEF Pairs
    <2> HIDE DEF Stops
    <2> QED BY <2>1, <1>3, <1>4
  <1> QED BY <1>1, <1>5

Chats == {i \in DOMAIN entries : entries[i].type = "chat"}
Before(i) == {j \in Chats : Newer(j, i)}

LEMMA ChatsAreFinite ==
  ASSUME Typed
  PROVE  /\ IsFiniteSet(Chats) /\ Cardinality(Chats) \in Nat
         /\ \A i \in Chats : i \in Nat /\ entries[i] \in Talk /\ entries[i].at \in Nat
  <1>1. /\ Len(entries) \in Nat /\ DOMAIN entries = 1..Len(entries)
        /\ \A i \in DOMAIN entries : entries[i] \in Entry
    BY LenProperties, ElementOfSeq DEF Typed
  <1>2. IsFiniteSet(1..Len(entries))
    BY <1>1, FS_Interval
  <1>3. Chats \in SUBSET (1..Len(entries))
    BY <1>1 DEF Chats
  <1>4. IsFiniteSet(Chats)
    BY <1>2, <1>3, FS_Subset
  <1>5. ASSUME NEW i \in Chats PROVE i \in Nat /\ entries[i] \in Talk /\ entries[i].at \in Nat
    BY <1>1 DEF Chats, Talk, ToSet, Entry
  <1> QED BY <1>4, <1>5, FS_CardinalityType

\* A newer message has fewer that are newer still.
LEMMA NewerComesFirst ==
  ASSUME Typed, NEW i \in Chats, NEW j \in Chats, Newer(i, j)
  PROVE  Cardinality(Before(i)) < Cardinality(Before(j))
  <1>1. \A k \in Chats : k \in Nat /\ entries[k].at \in Nat
    BY ChatsAreFinite
  <1>2. \A k \in Chats : Newer(k, i) => Newer(k, j)
    BY <1>1 DEF Newer
  <1>3. i \in Before(j) /\ i \notin Before(i) /\ Before(i) \subseteq Before(j)
    BY <1>1, <1>2 DEF Before, Newer
  <1>4. IsFiniteSet(Before(j))
    <2>1. Before(j) \in SUBSET Chats
      BY DEF Before
    <2> QED BY <2>1, ChatsAreFinite, FS_Subset
  <1>5. Before(i) \in SUBSET Before(j) /\ Before(i) # Before(j)
    BY <1>3
  <1>6. Cardinality(Before(i)) <= Cardinality(Before(j)) /\ Cardinality(Before(i)) # Cardinality(Before(j))
    BY <1>4, <1>5, FS_Subset
  <1>7. Cardinality(Before(i)) \in Nat /\ Cardinality(Before(j)) \in Nat
    BY <1>4, <1>5, FS_Subset, FS_CardinalityType
  <1> QED BY <1>6, <1>7

\* Each message has its place in the conversation, and each place its message.
LEMMA PlacesTaken ==
  ASSUME Typed, NEW k \in 1..Cardinality(Chats)
  PROVE  \E i \in Chats : Cardinality(Before(i)) = k - 1
  <1> DEFINE n == Cardinality(Chats)
             f == [i \in Chats |-> Cardinality(Before(i))]
  <1>1. n \in Nat /\ IsFiniteSet(Chats) /\ \A i \in Chats : i \in Nat /\ entries[i].at \in Nat
    BY ChatsAreFinite
  <1>2. ASSUME NEW i \in Chats PROVE Cardinality(Before(i)) \in 0..(n - 1)
    <2>1. Before(i) \in SUBSET Chats /\ Before(i) # Chats
      BY <1>1 DEF Before, Newer
    <2>2. Cardinality(Before(i)) <= n /\ Cardinality(Before(i)) # n /\ IsFiniteSet(Before(i))
      BY <2>1, <1>1, FS_Subset
    <2>3. Cardinality(Before(i)) \in Nat
      BY <2>2, FS_CardinalityType
    <2> QED BY <2>2, <2>3, <1>1
  <1>3. ASSUME NEW i \in Chats, NEW j \in Chats, f[i] = f[j] PROVE i = j
    <2>1. Cardinality(Before(i)) \in Nat /\ Cardinality(Before(i)) = Cardinality(Before(j))
      BY <1>1, <1>2, <1>3
    <2>2. ~Newer(i, j) /\ ~Newer(j, i)
      BY <2>1, NewerComesFirst
    <2> QED BY <2>2, <1>1 DEF Newer
  <1>4. f \in Injection(Chats, 0..(n - 1))
    BY <1>2, <1>3 DEF Injection, IsInjective
  <1>5. IsFiniteSet(0..(n - 1)) /\ Cardinality(0..(n - 1)) = n
    <2>1. n - 1 \in Int /\ 0 \in Int
      BY <1>1
    <2>2. /\ IsFiniteSet(0..(n - 1))
          /\ Cardinality(0..(n - 1)) = IF 0 > n - 1 THEN 0 ELSE (n - 1) - 0 + 1
      BY <2>1, FS_Interval
    <2> HIDE DEF n
    <2> QED BY <2>2, <1>1
  <1>6. f \in Surjection(Chats, 0..(n - 1))
    BY <1>4, <1>5, FS_Injection
  <1>7. k - 1 \in 0..(n - 1)
    BY <1>1
  <1> QED BY <1>6, <1>7 DEF Surjection

\* The messages listed newest first are messages that are stored; as long as no two
\* are of one time, each has as many later ones as stand in front of it.
LEMMA RecentChatLists ==
  ASSUME Typed, Distinct
  PROVE  /\ Len(RecentChat) = Cardinality(Chats) /\ Len(RecentChat) \in Nat
         /\ DOMAIN RecentChat = 1..Len(RecentChat)
         /\ \A k \in DOMAIN RecentChat :
              /\ RecentChat[k] \in Talk
              /\ Apart => Cardinality(Later(RecentChat[k].at)) = k - 1
  <1> DEFINE At(k) == CHOOSE i \in Chats : Cardinality({j \in Chats : Newer(j, i)}) = k - 1
  <1>1. RecentChat = [k \in 1..Cardinality(Chats) |-> entries[At(k)]]
    BY DEF RecentChat, Chats
  <1>2. Cardinality(Chats) \in Nat
    BY ChatsAreFinite
  <1>3. Len(RecentChat) = Cardinality(Chats) /\ DOMAIN RecentChat = 1..Cardinality(Chats)
    BY <1>1, <1>2
  <1>4. ASSUME NEW k \in 1..Cardinality(Chats)
        PROVE  At(k) \in Chats /\ Cardinality(Before(At(k))) = k - 1
    BY PlacesTaken DEF Before
  <1>5. ASSUME NEW k \in 1..Cardinality(Chats)
        PROVE  RecentChat[k] \in Talk
    BY <1>1, <1>4, ChatsAreFinite
  <1>6. ASSUME NEW k \in 1..Cardinality(Chats), Apart
        PROVE  Cardinality(Later(RecentChat[k].at)) = k - 1
    <2> DEFINE i == At(k)
               t == entries[i].at
               g == [j \in Before(i) |-> entries[j].at]
    <2>1. i \in Chats /\ RecentChat[k] = entries[i] /\ Cardinality(Before(i)) = k - 1
      BY <1>1, <1>4
    <2> HIDE DEF i
    <2>2. \A j \in Chats : j \in Nat /\ entries[j] \in Talk /\ entries[j].at \in Nat
      BY ChatsAreFinite
    <2>3. \A a, b \in Chats : entries[a].at = entries[b].at => a = b
      <3> SUFFICES ASSUME NEW a \in Chats, NEW b \in Chats, entries[a].at = entries[b].at PROVE a = b
        OBVIOUS
      <3>1. entries[a] = entries[b]
        BY <2>2, <1>6 DEF Apart
      <3> QED BY <3>1 DEF Distinct, Chats
    <2>4. \A j \in Before(i) : entries[j].at \in Later(t)
      <3> SUFFICES ASSUME NEW j \in Before(i) PROVE entries[j].at \in Later(t)
        OBVIOUS
      <3>1. j \in Chats /\ Newer(j, i)
        BY DEF Before
      <3>2. entries[j].at > t
        BY <3>1, <2>1, <2>2, <2>3 DEF Newer
      <3>3. entries[j].at \in Times
        BY <3>1, <2>2 DEF Times
      <3> QED BY <3>2, <3>3 DEF Later
    <2>5. \A u \in Later(t) : \E j \in Before(i) : entries[j].at = u
      <3> SUFFICES ASSUME NEW u \in Later(t) PROVE \E j \in Before(i) : entries[j].at = u
        OBVIOUS
      <3>1. PICK e \in Talk : e.at = u /\ u > t
        BY DEF Later, Times
      <3>2. PICK j \in DOMAIN entries : entries[j] = e /\ entries[j].type = "chat"
        BY DEF Talk, ToSet
      <3>3. j \in Chats /\ entries[j].at > entries[i].at
        BY <3>1, <3>2 DEF Chats
      <3>4. j \in Before(i)
        BY <3>3 DEF Before, Newer
      <3> QED BY <3>1, <3>2, <3>4
    <2>6. g \in Surjection(Before(i), Later(t))
      BY <2>4, <2>5 DEF Surjection
    <2>7. g \in Injection(Before(i), Later(t))
      <3>1. \A a, b \in Before(i) : g[a] = g[b] => a = b
        BY <2>3 DEF Before
      <3>2. g \in [Before(i) -> Later(t)]
        BY <2>4
      <3> QED BY <3>1, <3>2 DEF Injection, IsInjective
    <2>8. IsFiniteSet(Before(i))
      <3>1. Before(i) \in SUBSET Chats
        BY DEF Before
      <3> QED BY <3>1, ChatsAreFinite, FS_Subset
    <2>9. Cardinality(Later(t)) = Cardinality(Before(i))
      BY <2>6, <2>7, <2>8, FS_Surjection
    <2> QED BY <2>1, <2>9
  <1> QED BY <1>2, <1>3, <1>5, <1>6

\* What is sent are whole messages of the stored conversation, the newest ones in
\* the order of the conversation.
LEMMA HistoryTells ==
  ASSUME Typed, Distinct, NEW h, h = BuildChatHistory(RecentChat)
  PROVE  /\ h \in Seq(Sent)
         /\ \A k \in DOMAIN h : \E e \in Talk :
              /\ h[k].id = e.id /\ h[k].role = Role(e)
              /\ Apart => Cardinality(Later(e.at)) % 2 = k % 2
  <1> DEFINE recent == RecentChat
             p == Pairs(recent)
             picked == SubSeq(recent, 1, 2 * p)
             told == [k \in DOMAIN picked |-> Message(picked[k])]
  <1>1. /\ Len(recent) \in Nat /\ DOMAIN recent = 1..Len(recent)
        /\ \A k \in DOMAIN recent : recent[k] \in Talk
    BY RecentChatLists
  <1>2. p \in Nat /\ 2 * p <= Len(recent)
    BY <1>1, PairsThereAre
  <1>3. \A e \in Talk : e \in Entry
    BY RangeOfSeq DEF Talk, Typed, ToSet
  <1> HIDE DEF recent, p
  <1>4. /\ picked \in Seq(Entry) /\ Len(picked) = 2 * p
        /\ \A k \in 1..(2 * p) : picked[k] = recent[k]
    <2>1. 2 * p \in Int /\ 1 \in Int /\ \A k \in 1..(2 * p) : recent[k] \in Entry
      BY <1>1, <1>2, <1>3
    <2>2. /\ picked \in Seq(Entry)
          /\ Len(picked) = IF 1 <= 2 * p THEN 2 * p - 1 + 1 ELSE 0
          /\ \A k \in 1..(2 * p - 1 + 1) : picked[k] = recent[1 + k - 1]
      BY <2>1, SubSeqProperties
    <2> HIDE DEF picked
    <2> QED BY <2>2, <1>2
  <1> HIDE DEF picked
  <1>5. DOMAIN picked = 1..(2 * p)
    BY <1>2, <1>4, LenProperties
  <1>6. DOMAIN told = 1..(2 * p) /\ Len(told) = 2 * p
    BY <1>2, <1>5
  <1>7. h = [k \in 1..(2 * p) |-> told[2 * p - k + 1]]
    <2>1. h = Reverse(told)
      BY DEF BuildChatHistory, recent, p, picked
    <2> HIDE DEF told
    <2>2. Reverse(told) = [k \in 1..Len(told) |-> told[(Len(told) - k) + 1]]
      BY DEF Reverse
    <2> QED BY <2>1, <2>2, <1>6
  <1>8. ASSUME NEW k \in 1..(2 * p)
        PROVE  LET m == 2 * p - k + 1 IN
               m \in DOMAIN recent /\ h[k] = Message(recent[m]) /\ (m - 1) % 2 = k % 2
    <2> DEFINE m == 2 * p - k + 1
    <2>1. m \in 1..(2 * p) /\ m \in 1..Len(recent) /\ m - 1 = 2 * p - k
      BY <1>2, <1>1
    <2>2. h[k] = told[m] /\ told[m] = Message(picked[m])
      BY <2>1, <1>5, <1>7
    <2>3. (2 * p - k) % 2 = k % 2
      BY <1>2
    <2> HIDE DEF m
    <2> QED BY <2>1, <2>2, <2>3, <1>1, <1>4
  <1>9. ASSUME NEW e \in Talk PROVE Message(e) \in Sent
    <2>1. e \in Entry /\ e.size \in Nat
      BY <1>3 DEF Entry
    <2>2. Truncated(e.size) \in 0..(Cap + Mark)
      BY <2>1, BoundsAssumption DEF Truncated
    <2>3. e.id \in Ids /\ Role(e) \in {"user", "assistant"}
      BY <2>1 DEF Entry, Role
    <2> QED BY <2>2, <2>3 DEF Message, Sent
  <1>10. h \in Seq(Sent)
    <2>1. \A k \in 1..(2 * p) : h[k] \in Sent
      BY <1>8, <1>9, <1>1
    <2>2. h \in [1..(2 * p) -> Sent]
      BY <2>1, <1>7
    <2>3. 2 * p \in Nat
      BY <1>2
    <2> QED BY <2>2, <2>3, SeqDef
  <1>11. ASSUME NEW k \in DOMAIN h
         PROVE  \E e \in Talk :
                  /\ h[k].id = e.id /\ h[k].role = Role(e)
                  /\ Apart => Cardinality(Later(e.at)) % 2 = k % 2
    <2> DEFINE m == 2 * p - k + 1
    <2>1. k \in 1..(2 * p)
      BY <1>7
    <2>2. m \in DOMAIN recent /\ h[k] = Message(recent[m]) /\ (m - 1) % 2 = k % 2
      BY <2>1, <1>8
    <2> HIDE DEF m
    <2>3. recent[m] \in Talk /\ h[k].id = recent[m].id /\ h[k].role = Role(recent[m])
      BY <2>2, <1>1 DEF Message
    <2>4. Apart => Cardinality(Later(recent[m].at)) = m - 1
      BY <2>2, RecentChatLists DEF recent
    <2> QED BY <2>2, <2>3, <2>4
  <1> QED BY <1>10, <1>11

-----------------------------------------------------------------------------
(* What a step keeps.                                                      *)

LEMMA EntriesAre ==
  ASSUME Typed
  PROVE  /\ Len(entries) \in Nat /\ DOMAIN entries = 1..Len(entries)
         /\ \A i \in DOMAIN entries : entries[i] \in Entry /\ entries[i] \in ToSet(entries)
         /\ \A e \in ToSet(entries) : e \in Entry /\ \E i \in DOMAIN entries : entries[i] = e
         /\ \A e \in Known : e \in Entry /\ e.id \in Ids /\ e.at \in Nat
  <1>1. /\ Len(entries) \in Nat /\ DOMAIN entries = 1..Len(entries)
        /\ \A i \in DOMAIN entries : entries[i] \in Entry
    BY LenProperties, ElementOfSeq DEF Typed
  <1>2. \A e \in Known : e \in Entry
    BY <1>1 DEF Known, ToSet, Typed
  <1> QED BY <1>1, <1>2 DEF ToSet, Entry

\* What a request has come to store it does not come to again.
LEMMA MadeStays ==
  ASSUME Typed, NEW c \in Calls, NEW l, pc' = [pc EXCEPT ![c] = l], pc[c] # "done",
         pc[c] = "completing" => l = "done",
         op' = op \/ (pc[c] = "idle" /\ \E o : op' = [op EXCEPT ![c] = o])
  PROVE  \A id \in Ids : Made(id) => Made(id)'
  <1> SUFFICES ASSUME NEW id \in Ids, Made(id) PROVE Made(id)'
    OBVIOUS
  <1>1. id[1] \in Calls
    BY DEF Ids
  <1>2. CASE id[1] # c
    BY <1>1, <1>2 DEF Made, Typed
  <1>3. CASE id[1] = c
    BY <1>1, <1>3 DEF Made, Typed
  <1> QED BY <1>2, <1>3

\* A step that neither stores nor deletes, and reads at most what is stored.
LEMMA QuietKeeps ==
  ASSUME IInv, UNCHANGED <<entries, clock, deleted>>,
         \A id \in Ids : Made(id) => Made(id)', Known' \subseteq Known,
         \A c \in Calls : Reads(c)' <=> about'[c] # NoEntry,
         \A c \in Calls : pc'[c] = "completing" /\ op'[c] = "chat" => pc[c] = "completing" /\ op[c] = "chat"
  PROVE  Distinct' /\ Agreed' /\ Answering'
  <1> USE DEF IInv
  <1>1. Stored' = Stored /\ Distinct'
    BY DEF Stored, Distinct
  <1>2. \A e \in Known : e.id \in Ids
    BY EntriesAre
  <1>3. deleted \subseteq Ids
    BY DEF Typed
  <1>4. Agreed'
    BY <1>1, <1>2, <1>3 DEF Agreed
  <1>5. Answering'
    BY <1>1 DEF Answering, Questioned
  <1> QED BY <1>1, <1>4, <1>5

\* A new entry of request c.
LEMMA StoreKeeps ==
  ASSUME IInv, NEW c \in Calls, NEW e \in Entry, e.id[1] = c, ~Made(e.id), Made(e.id)',
         \A id \in Ids : Made(id) => Made(id)',
         entries' = Append(entries, e), UNCHANGED <<op, deleted>>,
         clock' \in Nat, clock <= clock', e.at <= clock',
         about' = [about EXCEPT ![c] = NoEntry], ~Reads(c)',
         \A d \in Calls \ {c} : pc'[d] = pc[d],
         e.id[2] = "reply" => Questioned(<<c, "question">>, e.at),
         pc'[c] = "completing" /\ op[c] = "chat" => e.id = <<c, "question">>
  PROVE  /\ entries' \in Seq(Entry) /\ ToSet(entries') = ToSet(entries) \cup {e}
         /\ \A f \in ToSet(entries') : f.at <= clock'
         /\ Known' \subseteq Known \cup {e}
         /\ Distinct' /\ Agreed' /\ Answering'
  <1> USE DEF IInv
  <1> DEFINE new == Len(entries) + 1
  <1>1. /\ entries' \in Seq(Entry) /\ DOMAIN entries' = DOMAIN entries \cup {new}
        /\ \A i \in DOMAIN entries : i < new /\ entries'[i] = entries[i]
        /\ entries'[new] = e /\ ToSet(entries') = ToSet(entries) \cup {e}
    BY Appended DEF Typed
  <1> HIDE DEF new
  <1>2. about \in [Calls -> Entry \cup {NoEntry}]
    BY DEF Typed
  <1>3. Known' \subseteq Known \cup {e} /\ ToSet(entries) \subseteq Known
    BY <1>1, <1>2 DEF Known
  <1>4. \A f \in Known : f.id # e.id /\ f.id \in Ids /\ f.at \in Nat /\ f.at <= clock
    BY EntriesAre DEF Agreed
  <1>5. e.id \in Ids /\ e.at \in Nat /\ clock \in Nat
    BY DEF Entry, Typed
  <1>6. Stored' = Stored \cup {e.id}
    BY <1>1, StoredIsIds DEF Stored, ToSet
  <1>7. \A i \in DOMAIN entries : entries[i] \in Known
    BY <1>3 DEF ToSet
  <1>8. Distinct'
    BY <1>1, <1>4, <1>7 DEF Distinct
  <1>9. \A f \in Known \cup {e} : f.at <= clock'
    BY <1>4, <1>5
  <1>10. Agreed'
    <2>1. \A f, g \in Known' : f.id = g.id => f.at = g.at /\ f.type = g.type /\ f.source = g.source
      BY <1>3, <1>4 DEF Agreed
    <2>2. \A d \in Calls : Reads(d)' <=> about'[d] # NoEntry
      BY <1>2 DEF Agreed, Reads
    <2>3. \A f \in Known' : f.at <= clock' /\ Made(f.id)' /\ f.id \in Stored' \cup deleted'
      BY <1>3, <1>4, <1>6, <1>9 DEF Agreed
    <2>4. \A id \in deleted' : Made(id)'
      BY DEF Agreed, Typed
    <2> QED BY <2>1, <2>2, <2>3, <2>4 DEF Agreed
  <1>11. \A q, t : Questioned(q, t) => Questioned(q, t)'
    BY <1>1 DEF Questioned
  <1>12. Answering'
    <2>1. \A f \in Known' : f.id[2] = "reply" => Questioned(<<f.id[1], "question">>, f.at)'
      BY <1>3, <1>11 DEF Answering
    <2>2. \A d \in Calls : pc'[d] = "completing" /\ op'[d] = "chat" => <<d, "question">> \in Stored' \cup deleted'
      BY <1>6 DEF Answering
    <2>3. ASSUME NEW i \in DOMAIN entries', NEW j \in DOMAIN entries',
                 entries'[j].id[2] = "reply", entries'[i].id = <<entries'[j].id[1], "question">>
          PROVE  i < j \/ entries'[j].id \in deleted' \/ entries'[i].id \in deleted'
      <3>1. CASE i \in DOMAIN entries /\ j \in DOMAIN entries
        BY <2>3, <3>1, <1>1 DEF Answering
      <3>2. CASE j = new
        <4>1. i # new
          BY <2>3, <3>2, <1>1
        <4> QED BY <4>1, <3>2, <1>1
      <3>3. CASE i = new /\ j \in DOMAIN entries
        <4>1. e.id = <<c, "question">> /\ entries[j].id[1] = c /\ entries[j].id[2] = "reply"
          BY <2>3, <3>3, <1>1
        <4>2. pc[c] = "done" /\ op[c] = "chat"
          BY <4>1, <3>3, <1>7 DEF Agreed, Made
        <4> QED BY <4>1, <4>2 DEF Made
      <3> QED BY <3>1, <3>2, <3>3, <1>1
    <2> QED BY <2>1, <2>2, <2>3 DEF Answering
  <1> QED BY <1>1, <1>3, <1>8, <1>9, <1>10, <1>12

-----------------------------------------------------------------------------
(* The conversation.                                                       *)

LEMMA TimesAreFinite ==
  ASSUME Typed, NEW t
  PROVE  IsFiniteSet(Later(t)) /\ Cardinality(Later(t)) \in Nat
  <1> DEFINE g == [i \in Chats |-> entries[i].at]
  <1>1. \A i \in Chats : entries[i].at \in Times
    BY ChatsAreFinite DEF Times
  <1>2. \A u \in Times : \E i \in Chats : entries[i].at = u
    BY DEF Times, Talk, ToSet, Chats
  <1>3. g \in Surjection(Chats, Times)
    BY <1>1, <1>2 DEF Surjection
  <1>4. IsFiniteSet(Times)
    BY <1>3, ChatsAreFinite, FS_Surjection
  <1>5. Later(t) \in SUBSET Times
    BY DEF Later
  <1> QED BY <1>4, <1>5, FS_Subset, FS_CardinalityType

LEMMA SameTalk ==
  ASSUME Apart, InTurn, Talk' = Talk, Unanswered' = Unanswered
  PROVE  Apart' /\ InTurn'
  <1>1. \A t : Later(t)' = Later(t)
    BY DEF Later, Times
  <1> QED BY <1>1 DEF Apart, InTurn

\* A question when none waits, or the reply to the one that does.
LEMMA NewMessage ==
  ASSUME Typed, Apart, InTurn, NEW e \in Entry, Talk' = Talk \cup {e},
         \A f \in Talk : f.at < e.at, Unanswered \in {0, 1}, Unanswered' = 1 - Unanswered,
         e.source = (IF Unanswered' = 1 THEN "user" ELSE "system")
  PROVE  Apart' /\ InTurn'
  <1>1. e.at \in Nat /\ \A f \in Talk : f.at \in Nat
    BY EntriesAre DEF Entry, Talk
  <1>2. Times' = Times \cup {e.at}
    BY DEF Times
  <1>3. Apart'
    BY <1>1 DEF Apart
  <1>4. ASSUME NEW f \in Talk
        PROVE  f.source = (IF (Cardinality(Later(f.at)') + Unanswered') % 2 = 1 THEN "user" ELSE "system")
    <2> DEFINE n == Cardinality(Later(f.at))
    <2>1. Later(f.at)' = Later(f.at) \cup {e.at}
      BY <1>1, <1>2 DEF Later
    <2>2. e.at \notin Later(f.at)
      BY <1>1 DEF Later, Times
    <2>3. n \in Nat /\ Cardinality(Later(f.at)') = n + 1
      BY <2>1, <2>2, TimesAreFinite, FS_AddElement
    <2>4. f.source = (IF (n + Unanswered) % 2 = 1 THEN "user" ELSE "system")
      BY DEF InTurn
    <2> HIDE DEF n
    <2>5. (n + 1 + Unanswered') % 2 = (n + Unanswered) % 2
      BY <2>3
    <2> QED BY <2>3, <2>4, <2>5
  <1>5. e.source = (IF (Cardinality(Later(e.at)') + Unanswered') % 2 = 1 THEN "user" ELSE "system")
    <2>1. Later(e.at)' = {}
      BY <1>1, <1>2 DEF Later, Times
    <2>2. Cardinality(Later(e.at)') = 0
      BY <2>1, FS_EmptySet
    <2> QED BY <2>2
  <1>6. InTurn'
    BY <1>4, <1>5 DEF InTurn
  <1> QED BY <1>3, <1>6

\* A step of a request that is no chat, and stores, changes and deletes no message.
LEMMA NoTalkKeeps ==
  ASSUME IInv, Alternating, Talk' = Talk, UNCHANGED <<deleted>>, Chatting' = Chatting,
         \A d \in Chatting : pc'[d] = pc[d],
         \A e \in Known' : e.type = "chat" => e \in Known,
         \A d \in Calls : history'[d] = history[d] \/ history'[d] = <<>>
  PROVE  Alternating'
  <1>1. Unanswered' = Unanswered
    BY DEF Unanswered
  <1>2. Apart' /\ InTurn'
    BY <1>1, SameTalk DEF Alternating
  <1>3. \A d \in Calls : \A k \in DOMAIN history'[d] :
          history'[d][k].role = (IF k % 2 = 1 THEN "user" ELSE "assistant")
    BY DEF Alternating
  <1> QED BY <1>2, <1>3 DEF Alternating

-----------------------------------------------------------------------------
(* The actions.                                                            *)

LEMMA StartSteps ==
  ASSUME NEW o
  PROVE  FirstStep(o) = (IF o = "chat" THEN "listing" ELSE IF o = "create" THEN "creating" ELSE "looking")
  BY DEF FirstStep

LEMMA ArriveKeeps ==
  ASSUME IInv, NEW c \in Calls, Arrive(c)
  PROVE  IInv' /\ (Undisturbed => Undisturbed')
  <1> USE DEF IInv
  <1>1. PICK o \in Ops :
          /\ op' = [op EXCEPT ![c] = o] /\ pc' = [pc EXCEPT ![c] = FirstStep(o)]
          /\ IF FirstStep(o) = "looking"
               THEN \E e \in ToSet(entries) : about' = [about EXCEPT ![c] = e]
               ELSE UNCHANGED about
          /\ disturbed' = (disturbed \/ \E d \in Open : {op[d], o} = {"chat"})
    BY DEF Arrive
  <1>2. pc[c] = "idle" /\ UNCHANGED <<entries, clock, history, answer, deleted>>
    BY DEF Arrive
  <1>3. o \in {"chat", "create", "summarize", "update", "delete"}
    BY OpsAssumption
  <1>4. op[c] = "none" /\ about[c] = NoEntry /\ \A d \in Calls : Stands(op[d], pc[d])
    BY <1>2, <1>3 DEF Typed, Stands, Agreed, Reads
  <1>5. FirstStep(o) \in Places /\ Stands(o, FirstStep(o))
    BY <1>3, StartSteps DEF Places, Stands
  <1>6. FirstStep(o) # "looking" => UNCHANGED about
    BY <1>1
  <1>7. FirstStep(o) = "looking" => \E e \in ToSet(entries) : e \in Entry /\ about' = [about EXCEPT ![c] = e]
    BY <1>1, EntriesAre
  <1>8. /\ about' \in [Calls -> Entry \cup {NoEntry}] /\ Known' \subseteq Known
        /\ (about'[c] # NoEntry <=> FirstStep(o) = "looking")
        /\ \A d \in Calls \ {c} : about'[d] = about[d]
    <2>1. about \in [Calls -> Entry \cup {NoEntry}]
      BY DEF Typed
    <2>2. CASE FirstStep(o) # "looking"
      BY <2>1, <2>2, <1>2, <1>4, <1>6 DEF Known
    <2>3. CASE FirstStep(o) = "looking"
      <3>1. PICK e \in ToSet(entries) : e \in Entry /\ about' = [about EXCEPT ![c] = e]
        BY <2>3, <1>7
      <3>2. e # NoEntry
        BY <3>1, NoEntryIsNone
      <3> QED BY <2>1, <2>3, <3>1, <3>2, <1>2 DEF Known
    <2> QED BY <2>2, <2>3
  <1>9. Typed'
    BY <1>1, <1>2, <1>4, <1>5, <1>8 DEF Typed
  <1>10. \A id \in Ids : Made(id) => Made(id)'
    BY <1>1, <1>2, MadeStays
  <1>11. \A d \in Calls : Reads(d)' <=> about'[d] # NoEntry
    <2>1. ASSUME NEW d \in Calls, d # c PROVE Reads(d)' <=> about'[d] # NoEntry
      BY <2>1, <1>1, <1>8 DEF Reads, Agreed, Typed
    <2>2. Reads(c)' <=> about'[c] # NoEntry
      BY <1>1, <1>3, <1>8, StartSteps DEF Reads, Typed
    <2> QED BY <2>1, <2>2
  <1>12. \A d \in Calls : pc'[d] = "completing" /\ op'[d] = "chat" => pc[d] = "completing" /\ op[d] = "chat"
    BY <1>1, <1>3, StartSteps DEF Typed
  <1>13. Distinct' /\ Agreed' /\ Answering'
    BY <1>2, <1>8, <1>10, <1>11, <1>12, QuietKeeps
  <1>14. PromptNotInHistory'
    BY <1>2 DEF PromptNotInHistory
  <1>15. ASSUME Undisturbed, ~disturbed' PROVE Alternating'
    <2>1. Alternating /\ ~\E d \in Open : {op[d], o} = {"chat"}
      BY <1>15, <1>1 DEF Undisturbed
    <2>2. \A d \in Chatting : d \in Open /\ op[d] = "chat"
      BY <1>4 DEF Chatting, Open, Stands
    <2>3. o = "chat" => Chatting = {}
      BY <2>1, <2>2
    <2>4. Chatting' = IF o = "chat" THEN Chatting \cup {c} ELSE Chatting
      <3>1. c \notin Chatting
        BY <1>4 DEF Chatting
      <3>2. \A d \in Calls \ {c} : op'[d] = op[d] /\ pc'[d] = pc[d]
        BY <1>1 DEF Typed
      <3>3. op'[c] = o /\ pc'[c] = FirstStep(o) /\ FirstStep(o) # "done"
        BY <1>1, <1>3, StartSteps DEF Typed
      <3> QED BY <3>1, <3>2, <3>3 DEF Chatting
    <2>5. Talk' = Talk
      BY <1>2 DEF Talk
    <2>6. Unanswered' = Unanswered
      <3>1. (\E d \in Chatting' : pc'[d] = "completing") <=> (\E d \in Chatting : pc[d] = "completing")
        <4>1. pc'[c] # "completing" /\ c \notin Chatting /\ \A d \in Calls \ {c} : pc'[d] = pc[d]
          BY <1>1, <1>3, <1>4, StartSteps DEF Typed, Chatting
        <4> QED BY <4>1, <2>4 DEF Chatting
      <3> QED BY <3>1 DEF Unanswered
    <2>7. Apart' /\ InTurn'
      BY <2>1, <2>5, <2>6, SameTalk DEF Alternating
    <2> QED BY <2>1, <2>3, <2>4, <2>7, <1>2, <1>8 DEF Alternating
  <1> QED BY <1>9, <1>13, <1>14, <1>15 DEF Undisturbed

LEMMA ListHistoryKeeps ==
  ASSUME IInv, NEW c \in Calls, ListHistory(c)
  PROVE  IInv' /\ (Undisturbed => Undisturbed')
  <1> USE DEF IInv
  <1> DEFINE h == BuildChatHistory(RecentChat)
  <1>1. /\ pc[c] = "listing" /\ pc' = [pc EXCEPT ![c] = "asking"]
        /\ history' = [history EXCEPT ![c] = h]
        /\ UNCHANGED <<entries, clock, op, about, answer, deleted, disturbed>>
    BY DEF ListHistory, GoTo
  <1>2. op[c] = "chat"
    BY <1>1 DEF Typed, Stands
  <1>3. /\ h \in Seq(Sent)
        /\ \A k \in DOMAIN h : \E e \in Talk :
             /\ h[k].id = e.id /\ h[k].role = Role(e)
             /\ Apart => Cardinality(Later(e.at)) % 2 = k % 2
    BY HistoryTells
  <1> HIDE DEF h
  <1>4. Typed'
    <2>1. \A d \in Calls : Stands(op'[d], pc'[d])
      BY <1>1, <1>2 DEF Typed, Stands
    <2>2. pc' \in [Calls -> Places] /\ history' \in [Calls -> Seq(Sent)]
      BY <1>1, <1>3 DEF Typed, Places
    <2> QED BY <2>1, <2>2, <1>1 DEF Typed
  <1>5. Distinct' /\ Agreed' /\ Answering'
    <2>1. \A id \in Ids : Made(id) => Made(id)'
      BY <1>1, MadeStays
    <2>2. \A d \in Calls : Reads(d)' <=> about'[d] # NoEntry
      BY <1>1, <1>2 DEF Reads, Agreed, Typed
    <2>3. Known' = Known
      BY <1>1 DEF Known
    <2>4. \A d \in Calls : pc'[d] = "completing" /\ op'[d] = "chat" => pc[d] = "completing" /\ op[d] = "chat"
      BY <1>1 DEF Typed
    <2> QED BY <2>1, <2>2, <2>3, <2>4, <1>1, QuietKeeps
  <1>6. PromptNotInHistory'
    <2>1. ~Made(<<c, "question">>)
      BY <1>1 DEF Made
    <2>2. \A k \in DOMAIN h : h[k].id # <<c, "question">>
      <3>1. \A e \in Talk : Made(e.id)
        BY DEF Talk, Known, Agreed
      <3> SUFFICES ASSUME NEW k \in DOMAIN h, h[k].id = <<c, "question">> PROVE FALSE
        OBVIOUS
      <3>2. PICK e \in Talk : h[k].id = e.id
        BY <1>3
      <3> QED BY <2>1, <3>1, <3>2
    <2> QED BY <2>2, <1>1 DEF PromptNotInHistory, Typed
  <1>7. ASSUME Undisturbed, ~disturbed PROVE Alternating'
    <2>1. Alternating
      BY <1>7 DEF Undisturbed
    <2>2. c \in Chatting
      BY <1>1, <1>2 DEF Chatting
    <2>3. Chatting' = Chatting
      BY <1>1, <1>2 DEF Chatting, Typed
    <2>4. Unanswered = 0 /\ Unanswered' = 0
      <3>1. Chatting = {c}
        BY <2>1, <2>2 DEF Alternating
      <3>2. pc'[c] = "asking"
        BY <1>1 DEF Typed
      <3> QED BY <3>1, <3>2, <2>3, <1>1 DEF Unanswered
    <2>5. Apart' /\ InTurn'
      <3>1. Talk' = Talk
        BY <1>1 DEF Talk
      <3> QED BY <3>1, <2>1, <2>4, SameTalk DEF Alternating
    <2>6. ASSUME NEW k \in DOMAIN h PROVE h[k].role = (IF k % 2 = 1 THEN "user" ELSE "assistant")
      <3>1. PICK e \in Talk : h[k].role = Role(e) /\ Cardinality(Later(e.at)) % 2 = k % 2
        BY <1>3, <2>1 DEF Alternating
      <3>2. e.source = (IF (Cardinality(Later(e.at)) + 0) % 2 = 1 THEN "user" ELSE "system")
        BY <2>1, <2>4 DEF Alternating, InTurn
      <3>3. Cardinality(Later(e.at)) \in Nat
        BY TimesAreFinite
      <3>4. e.source = (IF k % 2 = 1 THEN "user" ELSE "system")
        BY <3>1, <3>2, <3>3
      <3> QED BY <3>1, <3>4 DEF Role
    <2>7. \A d \in Calls : \A k \in DOMAIN history'[d] :
            history'[d][k].role = (IF k % 2 = 1 THEN "user" ELSE "assistant")
      BY <2>1, <2>6, <1>1 DEF Alternating, Typed
    <2>8. Known' = Known /\ deleted' = deleted
      BY <1>1 DEF Known
    <2> QED BY <2>1, <2>3, <2>5, <2>7, <2>8 DEF Alternating
  <1> QED BY <1>1, <1>4, <1>5, <1>6, <1>7 DEF Undisturbed

\* Histories that are left alone or let go stay as they should be.
LEMMA HistoriesLeft ==
  ASSUME \A d \in Calls : history'[d] = history[d] \/ history'[d] = <<>>
  PROVE  /\ PromptNotInHistory => PromptNotInHistory'
         /\ Alternating => \A d \in Calls : \A k \in DOMAIN history'[d] :
              history'[d][k].role = (IF k % 2 = 1 THEN "user" ELSE "assistant")
  <1>1. \A d \in Calls : \A k \in DOMAIN history'[d] : k \in DOMAIN history[d] /\ history'[d][k] = history[d][k]
    OBVIOUS
  <1>2. PromptNotInHistory => PromptNotInHistory'
    BY <1>1 DEF PromptNotInHistory
  <1>3. Alternating => \A d \in Calls : \A k \in DOMAIN history'[d] :
          history'[d][k].role = (IF k % 2 = 1 THEN "user" ELSE "assistant")
    BY <1>1 DEF Alternating
  <1> QED BY <1>2, <1>3

\* What answering a request comes to.
LEMMA AnswerTyped ==
  ASSUME IInv, NEW c \in Calls, NEW a \in {"ok", "404", "502"}, Answer(c, a), op' = op, op[c] # "none"
  PROVE  /\ pc' \in [Calls -> Places] /\ \A d \in Calls : Stands(op'[d], pc'[d])
         /\ about' \in [Calls -> Entry \cup {NoEntry}] /\ about' = [about EXCEPT ![c] = NoEntry]
         /\ history' \in [Calls -> Seq(Sent)] /\ answer' \in [Calls -> {"none", "ok", "404", "502"}]
         /\ \A d \in Calls : history'[d] = history[d] \/ history'[d] = <<>>
         /\ pc' = [pc EXCEPT ![c] = "done"] /\ pc'[c] = "done" /\ ~Reads(c)'
         /\ \A d \in Calls \ {c} : pc'[d] = pc[d] /\ about'[d] = about[d]
         /\ PromptNotInHistory'
  <1> USE DEF IInv
  <1>1. /\ pc' = [pc EXCEPT ![c] = "done"] /\ answer' = [answer EXCEPT ![c] = a]
        /\ history' = [history EXCEPT ![c] = <<>>] /\ about' = [about EXCEPT ![c] = NoEntry]
    BY DEF Answer
  <1>2. Stands(op[c], "done")
    BY DEF Typed, Stands
  <1>3. <<>> \in Seq(Sent)
    BY EmptySeq
  <1>4. history' \in [Calls -> Seq(Sent)] /\ \A d \in Calls : history'[d] = history[d] \/ history'[d] = <<>>
    BY <1>1, <1>3 DEF Typed
  <1>5. PromptNotInHistory'
    BY <1>4, HistoriesLeft
  <1>6. /\ pc' \in [Calls -> Places] /\ pc'[c] = "done"
        /\ \A d \in Calls \ {c} : pc'[d] = pc[d] /\ about'[d] = about[d]
    BY <1>1 DEF Typed, Places
  <1>7. \A d \in Calls : Stands(op'[d], pc'[d])
    BY <1>2, <1>6 DEF Typed
  <1>8. about' \in [Calls -> Entry \cup {NoEntry}] /\ answer' \in [Calls -> {"none", "ok", "404", "502"}]
    BY <1>1 DEF Typed
  <1>9. ~Reads(c)'
    BY <1>6 DEF Reads
  <1> QED BY <1>1, <1>4, <1>5, <1>6, <1>7, <1>8, <1>9

LEMMA MessagesAre ==
  ASSUME NEW c \in Calls, NEW who \in {"question", "reply"}, NEW author \in {"user", "system"},
         NEW n \in Nat, NEW t \in Nat
  PROVE  LET e == [Chat(c, who, author, n) EXCEPT !.at = t] IN
         /\ e \in Entry /\ e.id = <<c, who>> /\ e.id[1] = c /\ e.id[2] = who
         /\ e.type = "chat" /\ e.source = author /\ e.at = t
  <1> DEFINE e == [Chat(c, who, author, n) EXCEPT !.at = t]
  <1>1. e = [id |-> <<c, who>>, type |-> "chat", source |-> author, at |-> t, size |-> n, related |-> {}]
    BY DEF Chat
  <1>2. <<c, who>> \in Ids
    BY DEF Ids
  <1> HIDE DEF e
  <1>3. e \in Entry
    BY <1>1, <1>2 DEF Entry
  <1>4. /\ e.id = <<c, who>> /\ e.id[1] = c /\ e.id[2] = who
        /\ e.type = "chat" /\ e.source = author /\ e.at = t
    BY <1>1
  <1> QED BY <1>3, <1>4 DEF e

LEMMA StoreQuestionKeeps ==
  ASSUME IInv, NEW c \in Calls, StoreQuestion(c)
  PROVE  IInv' /\ (Undisturbed => Undisturbed')
  <1> USE DEF IInv
  <1>1. /\ pc[c] = "asking" /\ pc' = [pc EXCEPT ![c] = "completing"]
        /\ disturbed' = (disturbed \/ (entries # <<>> /\ clock' = clock))
        /\ UNCHANGED <<op, about, history, answer, deleted>>
    BY DEF StoreQuestion, GoTo
  <1>2. PICK n \in Asked, now \in (clock + Gap)..(clock + 1) :
          clock' = now /\ entries' = Append(entries, [Chat(c, "question", "user", n) EXCEPT !.at = now])
    BY DEF StoreQuestion, CreateEntry
  <1> DEFINE e == [Chat(c, "question", "user", n) EXCEPT !.at = now]
  <1>3. clock \in Nat /\ now \in Nat /\ n \in Nat /\ clock <= now
    BY BoundsAssumption DEF Typed
  <1>4. /\ e \in Entry /\ e.id = <<c, "question">> /\ e.id[1] = c /\ e.id[2] = "question"
        /\ e.type = "chat" /\ e.source = "user" /\ e.at = now
    BY <1>3, MessagesAre
  <1>5. entries' = Append(entries, e)
    BY <1>2
  <1> HIDE DEF e
  <1>6. op[c] = "chat" /\ ~Reads(c) /\ about[c] = NoEntry
    BY <1>1 DEF Typed, Stands, Reads, Agreed
  <1>7. about' = [about EXCEPT ![c] = NoEntry]
    BY <1>1, <1>6 DEF Typed
  <1>8. pc'[c] = "completing" /\ \A d \in Calls \ {c} : pc'[d] = pc[d]
    BY <1>1 DEF Typed
  <1>9. /\ ~Made(e.id) /\ Made(e.id)' /\ ~Reads(c)'
        /\ \A id \in Ids : Made(id) => Made(id)'
    <2>1. ASSUME NEW id \in Ids, Made(id) PROVE Made(id)'
      <3>1. id[1] \in Calls
        BY DEF Ids
      <3> QED BY <2>1, <3>1, <1>1, <1>8 DEF Made
    <2> QED BY <2>1, <1>1, <1>4, <1>6, <1>8 DEF Made, Reads
  <1>10. /\ entries' \in Seq(Entry) /\ ToSet(entries') = ToSet(entries) \cup {e}
         /\ \A f \in ToSet(entries') : f.at <= clock'
         /\ Known' \subseteq Known \cup {e}
         /\ Distinct' /\ Agreed' /\ Answering'
    <2>1. clock' \in Nat /\ clock <= clock' /\ e.at <= clock'
      BY <1>2, <1>3, <1>4
    <2>2. /\ e.id[2] = "reply" => Questioned(<<c, "question">>, e.at)
          /\ pc'[c] = "completing" /\ op[c] = "chat" => e.id = <<c, "question">>
      BY <1>4
    <2>3. UNCHANGED <<op, deleted>>
      BY <1>1
    <2> QED BY <2>1, <2>2, <2>3, <1>4, <1>5, <1>7, <1>8, <1>9, StoreKeeps
  <1>11. Typed'
    <2>1. \A d \in Calls : Stands(op'[d], pc'[d])
      BY <1>1, <1>6, <1>8 DEF Typed, Stands
    <2>2. pc' \in [Calls -> Places]
      BY <1>1 DEF Typed, Places
    <2> QED BY <2>1, <2>2, <1>1, <1>2, <1>3, <1>10 DEF Typed
  <1>12. PromptNotInHistory'
    BY <1>1 DEF PromptNotInHistory
  <1>13. ASSUME Undisturbed, ~disturbed' PROVE Alternating'
    <2>1. Alternating /\ (entries = <<>> \/ clock' # clock)
      BY <1>1, <1>13 DEF Undisturbed
    <2>2. Chatting = {c}
      BY <2>1, <1>1, <1>6 DEF Alternating, Chatting
    <2>3. Chatting' = {c}
      BY <2>2, <1>1, <1>6, <1>8 DEF Chatting
    <2>4. Unanswered = 0 /\ Unanswered' = 1
      BY <2>2, <2>3, <1>1, <1>8 DEF Unanswered
    <2>5. Talk' = Talk \cup {e}
      BY <1>4, <1>10 DEF Talk
    <2>6. \A f \in Talk : f.at < e.at
      <3>1. ASSUME NEW f \in Talk PROVE f.at < e.at
        <4>1. f \in ToSet(entries) /\ f.at <= clock /\ f.at \in Nat
          BY EntriesAre DEF Talk, Typed, Entry
        <4>2. entries # <<>>
          BY <4>1, EntriesAre DEF ToSet
        <4> QED BY <4>1, <4>2, <2>1, <1>2, <1>3, <1>4
      <3> QED BY <3>1
    <2>7. Apart' /\ InTurn'
      BY <2>1, <2>4, <2>5, <2>6, <1>4, NewMessage DEF Alternating
    <2>8. \A f \in Known' : f.type = "chat" => f.id \notin deleted'
      BY <2>1, <1>1, <1>9, <1>10 DEF Alternating, Agreed
    <2> QED BY <2>1, <2>3, <2>7, <2>8, <1>1 DEF Alternating
  <1> QED BY <1>10, <1>11, <1>12, <1>13 DEF Undisturbed

LEMMA StoreReplyKeeps ==
  ASSUME IInv, NEW c \in Calls, StoreReply(c)
  PROVE  IInv' /\ (Undisturbed => Undisturbed')
  <1> USE DEF IInv
  <1>1. /\ pc[c] = "completing" /\ op[c] = "chat" /\ clock' = clock + 1
        /\ Answer(c, "ok") /\ UNCHANGED <<op, deleted, disturbed>>
    BY DEF StoreReply
  <1>2. PICK n \in Sizes, t \in Nat :
          t = clock + 1 /\ entries' = Append(entries, [Chat(c, "reply", "system", n) EXCEPT !.at = t])
    <2>1. clock + 1 \in Nat
      BY DEF Typed
    <2> QED BY <2>1 DEF StoreReply
  <1> DEFINE e == [Chat(c, "reply", "system", n) EXCEPT !.at = t]
  <1>3. clock \in Nat /\ t = clock + 1 /\ n \in Nat
    BY <1>2, BoundsAssumption DEF Typed
  <1>4. /\ e \in Entry /\ e.id = <<c, "reply">> /\ e.id[1] = c /\ e.id[2] = "reply"
        /\ e.type = "chat" /\ e.source = "system" /\ e.at = t
    BY <1>3, MessagesAre
  <1>5. entries' = Append(entries, e)
    BY <1>2
  <1> HIDE DEF e
  <1>6. /\ pc' \in [Calls -> Places] /\ \A d \in Calls : Stands(op'[d], pc'[d])
        /\ about' \in [Calls -> Entry \cup {NoEntry}] /\ about' = [about EXCEPT ![c] = NoEntry]
        /\ history' \in [Calls -> Seq(Sent)] /\ answer' \in [Calls -> {"none", "ok", "404", "502"}]
        /\ \A d \in Calls : history'[d] = history[d] \/ history'[d] = <<>>
        /\ pc' = [pc EXCEPT ![c] = "done"] /\ pc'[c] = "done" /\ ~Reads(c)'
        /\ \A d \in Calls \ {c} : pc'[d] = pc[d] /\ about'[d] = about[d]
        /\ PromptNotInHistory'
    BY <1>1, AnswerTyped
  <1>7. ~Made(e.id) /\ Made(e.id)' /\ \A id \in Ids : Made(id) => Made(id)'
    <2>1. \A id \in Ids : Made(id) => Made(id)'
      BY <1>1, <1>6, MadeStays
    <2>2. pc[c] = "completing" /\ pc'[c] = "done"
      BY <1>1, <1>6
    <2>3. ~Made(e.id) /\ Made(e.id)'
      BY <2>2, <1>4 DEF Made
    <2> QED BY <2>1, <2>3
  <1>8. Questioned(<<c, "question">>, e.at)
    <2>1. <<c, "question">> \in Stored \cup deleted
      BY <1>1 DEF Answering
    <2>2. \A i \in DOMAIN entries : entries[i].at \in Nat /\ entries[i].at < e.at
      BY EntriesAre, <1>3, <1>4 DEF Typed, Entry
    <2> QED BY <2>1, <2>2 DEF Questioned, Stored
  <1>9. /\ entries' \in Seq(Entry) /\ ToSet(entries') = ToSet(entries) \cup {e}
        /\ \A f \in ToSet(entries') : f.at <= clock'
        /\ Known' \subseteq Known \cup {e}
        /\ Distinct' /\ Agreed' /\ Answering'
    <2>1. clock' \in Nat /\ clock <= clock' /\ e.at <= clock'
      BY <1>1, <1>3, <1>4
    <2>2. /\ e.id[2] = "reply" => Questioned(<<c, "question">>, e.at)
          /\ pc'[c] = "completing" /\ op[c] = "chat" => e.id = <<c, "question">>
      <3>1. pc'[c] = "done"
        BY <1>6
      <3> QED BY <3>1, <1>8
    <2>3. UNCHANGED <<op, deleted>>
      BY <1>1
    <2>4. /\ about' = [about EXCEPT ![c] = NoEntry] /\ ~Reads(c)'
          /\ \A d \in Calls \ {c} : pc'[d] = pc[d]
      BY <1>6
    <2> QED BY <2>1, <2>2, <2>3, <2>4, <1>4, <1>5, <1>7, StoreKeeps
  <1>10. Typed'
    BY <1>1, <1>3, <1>6, <1>9 DEF Typed
  <1>11. ASSUME Undisturbed, ~disturbed' PROVE Alternating'
    <2>1. Alternating
      BY <1>1, <1>11 DEF Undisturbed
    <2>2. Chatting = {c}
      BY <2>1, <1>1 DEF Alternating, Chatting
    <2>3. Chatting' = {}
      BY <2>2, <1>1, <1>6 DEF Chatting
    <2>4. Unanswered = 1 /\ Unanswered' = 0
      BY <2>2, <2>3, <1>1 DEF Unanswered
    <2>5. Talk' = Talk \cup {e}
      BY <1>4, <1>9 DEF Talk
    <2>6. \A f \in Talk : f.at < e.at
      BY EntriesAre, <1>3, <1>4 DEF Talk, Typed, Entry
    <2>7. Apart' /\ InTurn'
      BY <2>1, <2>4, <2>5, <2>6, <1>4, NewMessage DEF Alternating
    <2>8. \A f \in Known' : f.type = "chat" => f.id \notin deleted'
      BY <2>1, <1>1, <1>7, <1>9 DEF Alternating, Agreed
    <2>9. \A d \in Calls : \A k \in DOMAIN history'[d] :
            history'[d][k].role = (IF k % 2 = 1 THEN "user" ELSE "assistant")
      <3>1. \A d \in Calls : history'[d] = history[d] \/ history'[d] = <<>>
        BY <1>6
      <3> QED BY <3>1, <2>1, HistoriesLeft
    <2> QED BY <2>1, <2>3, <2>7, <2>8, <2>9 DEF Alternating
  <1> QED BY <1>6, <1>9, <1>10, <1>11 DEF Undisturbed

LEMMA ProviderFailsKeeps ==
  ASSUME IInv, NEW c \in Calls, ProviderFails(c)
  PROVE  IInv' /\ (Undisturbed => Undisturbed')
  <1> USE DEF IInv
  <1>1. /\ pc[c] = "completing" /\ Answer(c, "502") /\ disturbed' = (disturbed \/ op[c] = "chat")
        /\ UNCHANGED <<entries, clock, op, deleted>>
    BY DEF ProviderFails
  <1>2. op[c] # "none"
    BY <1>1 DEF Typed, Stands
  <1>3. /\ pc' \in [Calls -> Places] /\ \A d \in Calls : Stands(op'[d], pc'[d])
        /\ about' \in [Calls -> Entry \cup {NoEntry}] /\ about' = [about EXCEPT ![c] = NoEntry]
        /\ history' \in [Calls -> Seq(Sent)] /\ answer' \in [Calls -> {"none", "ok", "404", "502"}]
        /\ \A d \in Calls : history'[d] = history[d] \/ history'[d] = <<>>
        /\ pc' = [pc EXCEPT ![c] = "done"] /\ pc'[c] = "done" /\ ~Reads(c)'
        /\ \A d \in Calls \ {c} : pc'[d] = pc[d] /\ about'[d] = about[d]
        /\ PromptNotInHistory'
    BY <1>1, <1>2, AnswerTyped
  <1>4. Typed'
    BY <1>1, <1>3 DEF Typed
  <1>5. Known' \subseteq Known
    BY <1>1, <1>3 DEF Known, Typed
  <1>6. Distinct' /\ Agreed' /\ Answering'
    <2>1. \A id \in Ids : Made(id) => Made(id)'
      BY <1>1, <1>3, MadeStays
    <2>2. \A d \in Calls : Reads(d)' <=> about'[d] # NoEntry
      BY <1>1, <1>3 DEF Reads, Agreed, Typed
    <2>3. \A d \in Calls : pc'[d] = "completing" /\ op'[d] = "chat" => pc[d] = "completing" /\ op[d] = "chat"
      BY <1>1, <1>3
    <2> QED BY <2>1, <2>2, <2>3, <1>1, <1>5, QuietKeeps
  <1>7. ASSUME Undisturbed, ~disturbed' PROVE Alternating'
    <2>1. Alternating /\ op[c] # "chat" /\ Talk' = Talk
      BY <1>1, <1>7 DEF Undisturbed, Talk
    <2>2. Chatting' = Chatting /\ \A d \in Chatting : pc'[d] = pc[d]
      BY <2>1, <1>1, <1>3 DEF Chatting
    <2> QED BY <2>1, <2>2, <1>1, <1>3, <1>5, NoTalkKeeps
  <1> QED BY <1>3, <1>4, <1>6, <1>7 DEF Undisturbed

\* A client's entry or a summary.
LEMMA OtherEntryKeeps ==
  ASSUME IInv, NEW c \in Calls, NEW e \in Entry, e.id = <<c, "entry">>, entries' = Append(entries, e),
         clock' \in Nat, clock <= clock', e.at <= clock', Answer(c, "ok"), UNCHANGED <<op, deleted>>,
         pc[c] \in {"creating", "completing"}, op[c] # "chat",
         disturbed' \in BOOLEAN, disturbed => disturbed', e.type # "chat" \/ disturbed'
  PROVE  IInv' /\ (Undisturbed => Undisturbed')
  <1> USE DEF IInv
  <1>1. op[c] # "none"
    BY DEF Typed, Stands
  <1>2. /\ pc' \in [Calls -> Places] /\ \A d \in Calls : Stands(op'[d], pc'[d])
        /\ about' \in [Calls -> Entry \cup {NoEntry}] /\ about' = [about EXCEPT ![c] = NoEntry]
        /\ history' \in [Calls -> Seq(Sent)] /\ answer' \in [Calls -> {"none", "ok", "404", "502"}]
        /\ \A d \in Calls : history'[d] = history[d] \/ history'[d] = <<>>
        /\ pc' = [pc EXCEPT ![c] = "done"] /\ pc'[c] = "done" /\ ~Reads(c)'
        /\ \A d \in Calls \ {c} : pc'[d] = pc[d] /\ about'[d] = about[d]
        /\ PromptNotInHistory'
    BY <1>1, AnswerTyped
  <1>3. e.id[1] = c /\ e.id[2] = "entry"
    OBVIOUS
  <1>4. ~Made(e.id) /\ Made(e.id)' /\ \A id \in Ids : Made(id) => Made(id)'
    <2>1. \A id \in Ids : Made(id) => Made(id)'
      BY <1>2, MadeStays
    <2>2. pc'[c] = "done"
      BY <1>2
    <2>3. ~Made(e.id) /\ Made(e.id)'
      BY <2>2, <1>3 DEF Made
    <2> QED BY <2>1, <2>3
  <1>5. /\ entries' \in Seq(Entry) /\ ToSet(entries') = ToSet(entries) \cup {e}
        /\ \A f \in ToSet(entries') : f.at <= clock'
        /\ Known' \subseteq Known \cup {e}
        /\ Distinct' /\ Agreed' /\ Answering'
    <2>1. /\ e.id[2] = "reply" => Questioned(<<c, "question">>, e.at)
          /\ pc'[c] = "completing" /\ op[c] = "chat" => e.id = <<c, "question">>
      BY <1>3
    <2>2. /\ about' = [about EXCEPT ![c] = NoEntry] /\ ~Reads(c)'
          /\ \A d \in Calls \ {c} : pc'[d] = pc[d]
      BY <1>2
    <2> QED BY <2>1, <2>2, <1>3, <1>4, StoreKeeps
  <1>6. Typed'
    BY <1>2, <1>5 DEF Typed
  <1>7. ASSUME Undisturbed, ~disturbed' PROVE Alternating'
    <2>1. Alternating /\ e.type # "chat"
      BY <1>7 DEF Undisturbed
    <2>2. Talk' = Talk
      BY <2>1, <1>5 DEF Talk
    <2>3. Chatting' = Chatting /\ \A d \in Chatting : pc'[d] = pc[d]
      BY <1>2 DEF Chatting
    <2>4. \A f \in Known' : f.type = "chat" => f \in Known
      BY <2>1, <1>5
    <2>5. \A d \in Calls : history'[d] = history[d] \/ history'[d] = <<>>
      BY <1>2
    <2> QED BY <2>1, <2>2, <2>3, <2>4, <2>5, NoTalkKeeps
  <1> QED BY <1>2, <1>5, <1>6, <1>7 DEF Undisturbed

LEMMA CreateKeeps ==
  ASSUME IInv, NEW c \in Calls, Create(c)
  PROVE  IInv' /\ (Undisturbed => Undisturbed')
  <1>1. /\ pc[c] = "creating" /\ Answer(c, "ok") /\ UNCHANGED <<op, deleted>>
    BY DEF Create
  <1>2. PICK t \in {"chat", "note"}, now \in (clock + Gap)..(clock + 1) :
          /\ clock' = now /\ disturbed' = (disturbed \/ t = "chat")
          /\ entries' = Append(entries, [[id |-> <<c, "entry">>, type |-> t, source |-> "user", at |-> 0,
                                          size |-> 1, related |-> {}] EXCEPT !.at = now])
    BY DEF Create, CreateEntry
  <1>3. clock \in Nat /\ now \in Nat /\ clock <= now /\ disturbed \in BOOLEAN
    BY BoundsAssumption DEF IInv, Typed
  <1>4. op[c] # "chat"
    BY <1>1 DEF IInv, Typed, Stands
  <1> DEFINE e == [id |-> <<c, "entry">>, type |-> t, source |-> "user", at |-> now,
                   size |-> 1, related |-> {}]
  <1>5. entries' = Append(entries, e)
    <2>1. e = [[id |-> <<c, "entry">>, type |-> t, source |-> "user", at |-> 0,
                size |-> 1, related |-> {}] EXCEPT !.at = now]
      OBVIOUS
    <2> HIDE DEF e
    <2> QED BY <2>1, <1>2
  <1>6. e \in Entry /\ e.id = <<c, "entry">> /\ e.at = now /\ e.type = t
    <2>1. <<c, "entry">> \in Ids
      BY DEF Ids
    <2> QED BY <2>1, <1>3 DEF Entry
  <1> HIDE DEF e
  <1>7. /\ clock' \in Nat /\ clock <= clock' /\ e.at <= clock'
        /\ disturbed' \in BOOLEAN /\ (disturbed => disturbed') /\ (e.type # "chat" \/ disturbed')
    <2>1. clock' \in Nat /\ clock <= clock' /\ e.at <= clock'
      BY <1>2, <1>3, <1>6
    <2>2. disturbed' \in BOOLEAN /\ (disturbed => disturbed') /\ (t # "chat" \/ disturbed')
      BY <1>2, <1>3
    <2> QED BY <2>1, <2>2, <1>6
  <1> QED BY <1>1, <1>4, <1>5, <1>6, <1>7, OtherEntryKeeps

LEMMA StoreSummaryKeeps ==
  ASSUME IInv, NEW c \in Calls, StoreSummary(c)
  PROVE  IInv' /\ (Undisturbed => Undisturbed')
  <1>1. /\ pc[c] = "completing" /\ op[c] = "summarize" /\ Answer(c, "ok")
        /\ UNCHANGED <<op, deleted, disturbed>>
    BY DEF StoreSummary
  <1>2. about[c] \in Entry
    BY <1>1 DEF IInv, Typed, Agreed, Reads
  <1>3. PICK id \in Ids, now \in (clock + Gap)..(clock + 1) :
          /\ clock' = now
          /\ entries' = Append(entries, [[id |-> <<c, "entry">>, type |-> "summary", source |-> "system",
                                          at |-> 0, size |-> 1, related |-> {id}] EXCEPT !.at = now])
    <2>1. about[c].id \in Ids
      BY <1>2 DEF Entry
    <2> QED BY <2>1 DEF StoreSummary, CreateEntry
  <1>4. clock \in Nat /\ now \in Nat /\ clock <= now /\ disturbed \in BOOLEAN
    BY BoundsAssumption DEF IInv, Typed
  <1> DEFINE e == [id |-> <<c, "entry">>, type |-> "summary", source |-> "system", at |-> now,
                   size |-> 1, related |-> {id}]
  <1>5. entries' = Append(entries, e)
    <2>1. e = [[id |-> <<c, "entry">>, type |-> "summary", source |-> "system",
                at |-> 0, size |-> 1, related |-> {id}] EXCEPT !.at = now]
      OBVIOUS
    <2> HIDE DEF e
    <2> QED BY <2>1, <1>3
  <1>6. e \in Entry /\ e.id = <<c, "entry">> /\ e.at = now /\ e.type = "summary"
    <2>1. <<c, "entry">> \in Ids
      BY DEF Ids
    <2> QED BY <2>1, <1>4 DEF Entry
  <1> HIDE DEF e
  <1>7. /\ clock' \in Nat /\ clock <= clock' /\ e.at <= clock'
        /\ disturbed' \in BOOLEAN /\ (disturbed => disturbed') /\ (e.type # "chat" \/ disturbed')
    BY <1>1, <1>3, <1>4, <1>6
  <1> QED BY <1>1, <1>5, <1>6, <1>7, OtherEntryKeeps

\* The entry is found by its id, or is gone.
LEMMA LookKeeps ==
  ASSUME IInv, NEW c \in Calls, Look(c)
  PROVE  IInv' /\ (Undisturbed => Undisturbed')
  <1> USE DEF IInv
  <1>1. pc[c] = "looking" /\ UNCHANGED <<entries, clock, op, deleted, disturbed>>
    BY DEF Look
  <1>2. op[c] \in {"summarize", "update", "delete"} /\ about[c] # NoEntry
    BY <1>1 DEF Typed, Stands, Agreed, Reads
  <1>3. /\ about' \in [Calls -> Entry \cup {NoEntry}] /\ Known' \subseteq Known
        /\ pc' \in [Calls -> Places] /\ \A d \in Calls : Stands(op'[d], pc'[d])
        /\ history' \in [Calls -> Seq(Sent)] /\ answer' \in [Calls -> {"none", "ok", "404", "502"}]
        /\ \A d \in Calls : history'[d] = history[d] \/ history'[d] = <<>>
        /\ pc' = [pc EXCEPT ![c] = pc'[c]]
        /\ \A d \in Calls \ {c} : pc'[d] = pc[d] /\ about'[d] = about[d]
        /\ Reads(c)' <=> about'[c] # NoEntry
    <2>1. CASE about[c].id \in Stored
      <3> DEFINE f == Find(about[c].id)
                 l == CASE op[c] = "summarize" -> "completing"
                        [] op[c] = "update" -> "writing"
                        [] op[c] = "delete" -> "deleting"
      <3>1. about' = [about EXCEPT ![c] = f] /\ pc' = [pc EXCEPT ![c] = l] /\ UNCHANGED <<answer, history>>
        BY <2>1 DEF Look, GoTo
      <3>2. f \in ToSet(entries)
        BY <2>1, StoredIsIds DEF Find
      <3>3. f \in Entry /\ f # NoEntry
        BY <3>2, EntriesAre, NoEntryIsNone
      <3>4. l = (IF op[c] = "summarize" THEN "completing" ELSE IF op[c] = "update" THEN "writing" ELSE "deleting")
        BY <1>2
      <3> HIDE DEF f, l
      <3>5. about' \in [Calls -> Entry \cup {NoEntry}] /\ about'[c] = f /\ \A d \in Calls \ {c} : about'[d] = about[d]
        BY <3>1, <3>3 DEF Typed
      <3>6. Known' \subseteq Known
        BY <3>2, <3>5, <1>1 DEF Known
      <3>7. pc'[c] = l /\ \A d \in Calls \ {c} : pc'[d] = pc[d]
        BY <3>1 DEF Typed
      <3>8. l \in Places /\ Stands(op[c], l)
        BY <3>4, <1>2 DEF Stands, Places
      <3>9. pc' \in [Calls -> Places] /\ \A d \in Calls : Stands(op'[d], pc'[d])
        BY <3>1, <3>7, <3>8, <1>1 DEF Typed
      <3>10. Reads(c)'
        BY <3>4, <3>7, <1>1, <1>2 DEF Reads
      <3> QED BY <3>1, <3>3, <3>5, <3>6, <3>7, <3>9, <3>10 DEF Typed
    <2>2. CASE about[c].id \notin Stored
      <3>1. Answer(c, "404") /\ op[c] # "none"
        BY <2>2, <1>2 DEF Look
      <3>2. /\ pc' \in [Calls -> Places] /\ \A d \in Calls : Stands(op'[d], pc'[d])
            /\ about' \in [Calls -> Entry \cup {NoEntry}] /\ about' = [about EXCEPT ![c] = NoEntry]
            /\ history' \in [Calls -> Seq(Sent)] /\ answer' \in [Calls -> {"none", "ok", "404", "502"}]
            /\ \A d \in Calls : history'[d] = history[d] \/ history'[d] = <<>>
            /\ pc' = [pc EXCEPT ![c] = "done"] /\ pc'[c] = "done" /\ ~Reads(c)'
            /\ \A d \in Calls \ {c} : pc'[d] = pc[d] /\ about'[d] = about[d]
        BY <3>1, <1>1, AnswerTyped
      <3>3. Known' \subseteq Known /\ about'[c] = NoEntry
        BY <3>2, <1>1 DEF Known, Typed
      <3> QED BY <3>2, <3>3
    <2> QED BY <2>1, <2>2
  <1>4. Typed'
    BY <1>1, <1>3 DEF Typed
  <1>5. Distinct' /\ Agreed' /\ Answering'
    <2>1. \A id \in Ids : Made(id) => Made(id)'
      BY <1>1, <1>3, MadeStays
    <2>2. \A d \in Calls : Reads(d)' <=> about'[d] # NoEntry
      <3>1. Reads(c)' <=> about'[c] # NoEntry
        BY <1>3
      <3>2. ASSUME NEW d \in Calls, d # c PROVE Reads(d)' <=> about'[d] # NoEntry
        BY <3>2, <1>1, <1>3 DEF Reads, Agreed
      <3> QED BY <3>1, <3>2
    <2>3. \A d \in Calls : pc'[d] = "completing" /\ op'[d] = "chat" => pc[d] = "completing" /\ op[d] = "chat"
      BY <1>1, <1>2, <1>3
    <2> QED BY <2>1, <2>2, <2>3, <1>1, <1>3, QuietKeeps
  <1>6. \A d \in Calls : history'[d] = history[d] \/ history'[d] = <<>>
    BY <1>3
  <1>7. PromptNotInHistory'
    BY <1>6, HistoriesLeft
  <1>8. ASSUME Undisturbed, ~disturbed' PROVE Alternating'
    <2>1. Alternating /\ Talk' = Talk
      BY <1>1, <1>8 DEF Undisturbed, Talk
    <2>2. Chatting' = Chatting /\ \A d \in Chatting : pc'[d] = pc[d]
      BY <1>1, <1>2, <1>3 DEF Chatting
    <2>3. Known' \subseteq Known
      BY <1>3
    <2> QED BY <2>1, <2>2, <2>3, <1>1, <1>6, NoTalkKeeps
  <1> QED BY <1>4, <1>5, <1>7, <1>8 DEF Undisturbed

\* What is written back has the id, the time, the type and the author of what was
\* read; a record that is gone by then comes back at the end, and was deleted.
LEMMA WriteUpdateKeeps ==
  ASSUME IInv, NEW c \in Calls, WriteUpdate(c)
  PROVE  IInv' /\ (Undisturbed => Undisturbed')
  <1> USE DEF IInv
  <1>1. pc[c] = "writing" /\ Answer(c, "ok") /\ UNCHANGED <<clock, op, deleted, disturbed>>
    BY DEF WriteUpdate
  <1>2. op[c] = "update" /\ about[c] # NoEntry /\ about[c] \in Entry
    BY <1>1 DEF Typed, Stands, Agreed, Reads
  <1>3. about[c] \in Known
    BY <1>2 DEF Known
  <1>4. PICK e \in Entry :
          /\ Upsert(e) /\ e.id = about[c].id /\ e.at = about[c].at
          /\ e.type = about[c].type /\ e.source = about[c].source
    <2>1. PICK n \in Sizes : Upsert([about[c] EXCEPT !.size = n])
      BY DEF WriteUpdate
    <2>2. n \in Nat
      BY BoundsAssumption
    <2> DEFINE e == [about[c] EXCEPT !.size = n]
    <2>3. /\ e \in Entry /\ e.id = about[c].id /\ e.at = about[c].at
          /\ e.type = about[c].type /\ e.source = about[c].source
      BY <1>2, <2>2 DEF Entry
    <2> QED BY <2>1, <2>3
  <1>5. /\ e.at \in Nat /\ e.at <= clock /\ Made(e.id) /\ e.id \in Ids /\ e.id \in Stored \cup deleted
        /\ \A f \in Known : f.id = e.id => f.at = e.at /\ f.type = e.type /\ f.source = e.source
        /\ e.id[2] = "reply" => Questioned(<<e.id[1], "question">>, e.at)
    BY <1>3, <1>4, EntriesAre DEF Agreed, Answering
  <1>6. \A i \in DOMAIN entries : entries[i] \in Known
    BY DEF Known, ToSet
  <1>7. /\ entries' \in Seq(Entry)
        /\ \A i \in DOMAIN entries :
             /\ i \in DOMAIN entries' /\ entries'[i] \in {entries[i], e}
             /\ entries'[i].id = entries[i].id /\ entries'[i].at = entries[i].at
             /\ entries'[i].type = entries[i].type /\ entries'[i].source = entries[i].source
        /\ \A i \in DOMAIN entries' \ DOMAIN entries :
             /\ entries'[i] = e /\ e.id \notin Stored /\ \A j \in DOMAIN entries' : i = j \/ j \in DOMAIN entries
    <2>1. entries \in Seq(Entry)
      BY DEF Typed
    <2>2. CASE e.id \in Stored
      <3>1. entries' = [i \in DOMAIN entries |-> IF entries[i].id = e.id THEN e ELSE entries[i]]
        BY <2>2, <1>4 DEF Upsert
      <3>2. entries' \in Seq(Entry) /\ DOMAIN entries' = DOMAIN entries
        BY <2>1, <3>1, Replaced
      <3>3. \A i \in DOMAIN entries : entries'[i] = IF entries[i].id = e.id THEN e ELSE entries[i]
        BY <3>1
      <3> QED BY <3>2, <3>3, <1>5, <1>6
    <2>3. CASE e.id \notin Stored
      <3>1. entries' = Append(entries, e)
        BY <2>3, <1>4 DEF Upsert
      <3>2. /\ entries' \in Seq(Entry) /\ DOMAIN entries' = DOMAIN entries \cup {Len(entries) + 1}
            /\ \A i \in DOMAIN entries : entries'[i] = entries[i]
            /\ entries'[Len(entries) + 1] = e
        BY <2>1, <3>1, Appended
      <3> QED BY <3>2, <2>3
    <2> QED BY <2>2, <2>3
  <1>8. ToSet(entries') \subseteq ToSet(entries) \cup {e}
    BY <1>7 DEF ToSet
  <1>9. Stored \subseteq Stored' /\ Stored' \subseteq Stored \cup {e.id}
    BY <1>7 DEF Stored
  <1>10. /\ pc' \in [Calls -> Places] /\ \A d \in Calls : Stands(op'[d], pc'[d])
         /\ about' \in [Calls -> Entry \cup {NoEntry}] /\ about' = [about EXCEPT ![c] = NoEntry]
         /\ history' \in [Calls -> Seq(Sent)] /\ answer' \in [Calls -> {"none", "ok", "404", "502"}]
         /\ \A d \in Calls : history'[d] = history[d] \/ history'[d] = <<>>
         /\ pc' = [pc EXCEPT ![c] = "done"] /\ pc'[c] = "done" /\ ~Reads(c)'
         /\ \A d \in Calls \ {c} : pc'[d] = pc[d] /\ about'[d] = about[d]
         /\ PromptNotInHistory'
    <2>1. op[c] # "none"
      BY <1>2
    <2> QED BY <2>1, <1>1, AnswerTyped
  <1>11. Known' \subseteq Known \cup {e}
    <2>1. \A d \in Calls : about'[d] = NoEntry \/ about'[d] = about[d]
      BY <1>10 DEF Typed
    <2> QED BY <2>1, <1>8 DEF Known
  <1>12. Typed'
    <2>1. \A f \in ToSet(entries') : f.at <= clock'
      BY <1>1, <1>5, <1>8 DEF Typed
    <2> QED BY <2>1, <1>1, <1>7, <1>10 DEF Typed
  <1>13. \A id \in Ids : Made(id) => Made(id)'
    BY <1>1, <1>10, MadeStays
  <1>14. Distinct'
    <2> SUFFICES ASSUME NEW i \in DOMAIN entries', NEW j \in DOMAIN entries', entries'[i].id = entries'[j].id
                 PROVE  i = j
      BY DEF Distinct
    <2>1. CASE i \in DOMAIN entries /\ j \in DOMAIN entries
      BY <2>1, <1>7 DEF Distinct
    <2>2. CASE i \notin DOMAIN entries
      BY <2>2, <1>7 DEF Stored
    <2>3. CASE j \notin DOMAIN entries
      BY <2>3, <1>7 DEF Stored
    <2> QED BY <2>1, <2>2, <2>3
  <1>15. Agreed'
    <2>1. \A f, g \in Known' : f.id = g.id => f.at = g.at /\ f.type = g.type /\ f.source = g.source
      <3>1. \A f, g \in Known : f.id = g.id => f.at = g.at /\ f.type = g.type /\ f.source = g.source
        BY DEF Agreed
      <3> QED BY <3>1, <1>5, <1>11
    <2>2. \A d \in Calls : Reads(d)' <=> about'[d] # NoEntry
      <3>1. Reads(c)' <=> about'[c] # NoEntry
        BY <1>10 DEF Typed
      <3>2. ASSUME NEW d \in Calls, d # c PROVE Reads(d)' <=> about'[d] # NoEntry
        BY <3>2, <1>1, <1>10 DEF Reads, Agreed
      <3> QED BY <3>1, <3>2
    <2>3. \A f \in Known' : f.at <= clock' /\ Made(f.id)' /\ f.id \in Stored' \cup deleted'
      <3> SUFFICES ASSUME NEW f \in Known' PROVE f.at <= clock' /\ Made(f.id)' /\ f.id \in Stored' \cup deleted'
        OBVIOUS
      <3>1. f.at <= clock /\ Made(f.id) /\ f.id \in Ids /\ f.id \in Stored \cup deleted
        BY <1>5, <1>11, EntriesAre DEF Agreed
      <3> QED BY <3>1, <1>1, <1>9, <1>13
    <2>4. \A id \in deleted' : Made(id)'
      BY <1>1, <1>13 DEF Agreed, Typed
    <2> QED BY <2>1, <2>2, <2>3, <2>4 DEF Agreed
  <1>16. Answering'
    <2>1. \A q, t : Questioned(q, t) => Questioned(q, t)'
      BY <1>1, <1>7 DEF Questioned
    <2>2. \A f \in Known' : f.id[2] = "reply" => Questioned(<<f.id[1], "question">>, f.at)'
      BY <2>1, <1>5, <1>11 DEF Answering
    <2>3. \A d \in Calls : pc'[d] = "completing" /\ op'[d] = "chat" => <<d, "question">> \in Stored' \cup deleted'
      <3> SUFFICES ASSUME NEW d \in Calls, pc'[d] = "completing", op'[d] = "chat"
                   PROVE  <<d, "question">> \in Stored' \cup deleted'
        OBVIOUS
      <3>1. pc[d] = "completing" /\ op[d] = "chat"
        BY <1>1, <1>10
      <3> QED BY <3>1, <1>1, <1>9 DEF Answering
    <2>4. ASSUME NEW i \in DOMAIN entries', NEW j \in DOMAIN entries',
                 entries'[j].id[2] = "reply", entries'[i].id = <<entries'[j].id[1], "question">>
          PROVE  i < j \/ entries'[j].id \in deleted' \/ entries'[i].id \in deleted'
      <3>1. CASE i \in DOMAIN entries /\ j \in DOMAIN entries
        BY <2>4, <3>1, <1>1, <1>7 DEF Answering
      <3>2. CASE i \notin DOMAIN entries
        BY <3>2, <1>1, <1>5, <1>7
      <3>3. CASE j \notin DOMAIN entries
        BY <3>3, <1>1, <1>5, <1>7
      <3> QED BY <3>1, <3>2, <3>3
    <2> QED BY <2>2, <2>3, <2>4 DEF Answering
  <1>17. ASSUME Undisturbed, ~disturbed' PROVE Alternating'
    <2>1. Alternating
      BY <1>1, <1>17 DEF Undisturbed
    <2>2. e.type = "chat" => e.id \notin deleted
      BY <2>1, <1>3, <1>4 DEF Alternating
    <2>3. ASSUME NEW f \in Talk'
          PROVE  \E i \in DOMAIN entries : /\ entries'[i] = f /\ entries[i] \in Talk
                                           /\ f.at = entries[i].at /\ f.source = entries[i].source
      <3>1. PICK i \in DOMAIN entries' : entries'[i] = f /\ f.type = "chat"
        BY DEF Talk, ToSet
      <3>2. i \in DOMAIN entries
        BY <3>1, <2>2, <1>5, <1>7
      <3> QED BY <3>1, <3>2, <1>7 DEF Talk, ToSet
    <2>4. ASSUME NEW f \in Talk PROVE \E g \in Talk' : g.at = f.at
      <3>1. PICK i \in DOMAIN entries : entries[i] = f /\ f.type = "chat"
        BY DEF Talk, ToSet
      <3> QED BY <3>1, <1>7 DEF Talk, ToSet
    <2>5. Apart'
      <3> SUFFICES ASSUME NEW f \in Talk', NEW g \in Talk', f.at = g.at PROVE f = g
        BY DEF Apart
      <3>1. PICK i \in DOMAIN entries : entries'[i] = f /\ entries[i] \in Talk /\ f.at = entries[i].at
        BY <2>3
      <3>2. PICK j \in DOMAIN entries : entries'[j] = g /\ entries[j] \in Talk /\ g.at = entries[j].at
        BY <2>3
      <3>3. entries[i] = entries[j]
        BY <3>1, <3>2, <2>1 DEF Alternating, Apart
      <3>4. i = j
        BY <3>3 DEF Distinct
      <3> QED BY <3>1, <3>2, <3>4
    <2>6. Chatting' = Chatting /\ \A d \in Chatting : pc'[d] = pc[d]
      BY <1>1, <1>2, <1>10 DEF Chatting
    <2>7. InTurn'
      <3>1. Times' = Times
        BY <2>3, <2>4 DEF Times
      <3>2. Unanswered' = Unanswered /\ \A t : Later(t)' = Later(t)
        BY <3>1, <2>6 DEF Unanswered, Later
      <3> QED BY <3>2, <2>1, <2>3 DEF Alternating, InTurn
    <2>8. \A f \in Known' : f.type = "chat" => f.id \notin deleted'
      BY <2>1, <2>2, <1>1, <1>11 DEF Alternating
    <2>9. \A d \in Calls : \A k \in DOMAIN history'[d] :
            history'[d][k].role = (IF k % 2 = 1 THEN "user" ELSE "assistant")
      <3>1. \A d \in Calls : history'[d] = history[d] \/ history'[d] = <<>>
        BY <1>10
      <3> QED BY <3>1, <2>1, HistoriesLeft
    <2> QED BY <2>1, <2>5, <2>6, <2>7, <2>8, <2>9 DEF Alternating
  <1> QED BY <1>10, <1>12, <1>14, <1>15, <1>16, <1>17 DEF Undisturbed

LEMMA DeleteEntryKeeps ==
  ASSUME IInv, NEW c \in Calls, DeleteEntry(c)
  PROVE  IInv' /\ (Undisturbed => Undisturbed')
  <1> USE DEF IInv
  <1>1. pc[c] = "deleting" /\ Answer(c, "ok") /\ UNCHANGED <<clock, op>>
    BY DEF DeleteEntry
  <1>2. op[c] = "delete" /\ about[c] # NoEntry /\ about[c] \in Entry
    BY <1>1 DEF Typed, Stands, Agreed, Reads
  <1>3. PICK id \in Ids : /\ id = about[c].id /\ entries' = Without(id) /\ deleted' = deleted \cup {id}
                          /\ disturbed' = (disturbed \/ about[c].type = "chat")
    BY <1>2 DEF DeleteEntry, Entry
  <1>4. about[c] \in Known /\ Made(id) /\ \A f \in Known : f.id = id => f.type = about[c].type
    BY <1>2, <1>3 DEF Known, Agreed
  <1>5. \E place \in [DOMAIN entries' -> DOMAIN entries] :
          /\ \A k \in DOMAIN entries' : entries'[k] = entries[place[k]] /\ entries'[k].id # id
          /\ \A i \in DOMAIN entries : entries[i].id # id => \E k \in DOMAIN entries' : place[k] = i
          /\ \A k, l \in DOMAIN entries' : k \in Nat /\ l \in Nat /\ (place[k] < place[l] => k < l)
          /\ \A k, l \in DOMAIN entries' : place[k] = place[l] => k = l
          /\ entries' \in Seq(Entry)
    <2>1. entries \in Seq(Entry) /\ DOMAIN entries = 1..Len(entries) /\ Len(entries) \in Nat
      BY EntriesAre DEF Typed
    <2>2. CASE id \notin Stored
      <3>1. entries' = entries
        BY <2>2, <1>3 DEF Without
      <3> DEFINE place == [k \in DOMAIN entries' |-> k]
      <3>2. place \in [DOMAIN entries' -> DOMAIN entries]
        BY <3>1
      <3>3. /\ \A k \in DOMAIN entries' : entries'[k] = entries[place[k]] /\ entries'[k].id # id
            /\ \A i \in DOMAIN entries : entries[i].id # id => \E k \in DOMAIN entries' : place[k] = i
            /\ \A k, l \in DOMAIN entries' : k \in Nat /\ l \in Nat /\ (place[k] < place[l] => k < l)
            /\ \A k, l \in DOMAIN entries' : place[k] = place[l] => k = l
        BY <3>1, <2>1, <2>2 DEF Stored
      <3> HIDE DEF place
      <3> QED BY <3>1, <3>2, <3>3, <2>1
    <2>3. CASE id \in Stored
      <3> DEFINE p == CHOOSE i \in DOMAIN entries : entries[i].id = id
                 Old(k) == IF k < p THEN k ELSE k + 1
                 place == [k \in DOMAIN entries' |-> Old(k)]
      <3>1. p \in DOMAIN entries /\ entries[p].id = id
        BY <2>3 DEF Stored
      <3>2. entries' = RemoveAt(entries, p)
        BY <2>3, <1>3 DEF Without
      <3>3. p \in Nat
        BY <3>1, <2>1
      <3> HIDE DEF p
      <3>4. /\ entries' \in Seq(Entry)
            /\ \A k \in DOMAIN entries' : k \in Nat /\ Old(k) \in DOMAIN entries \ {p} /\ entries'[k] = entries[Old(k)]
            /\ \A i \in DOMAIN entries \ {p} : \E k \in DOMAIN entries' : Old(k) = i
        <4> DEFINE shrunk == RemoveAt(entries, p)
        <4>1. /\ shrunk \in Seq(Entry)
              /\ \A k \in DOMAIN shrunk : k \in Nat /\ Old(k) \in DOMAIN entries \ {p} /\ shrunk[k] = entries[Old(k)]
              /\ \A i \in DOMAIN entries \ {p} : \E k \in DOMAIN shrunk : Old(k) = i
          BY <2>1, <3>1, Removed
        <4>2. entries' = shrunk
          BY <3>2
        <4> HIDE DEF shrunk, Old
        <4> QED BY <4>1, <4>2
      <3>5. \A i \in DOMAIN entries \ {p} : entries[i].id # id
        BY <3>1 DEF Distinct
      <3>6. place \in [DOMAIN entries' -> DOMAIN entries]
        BY <3>4
      <3>7. /\ \A k \in DOMAIN entries' : entries'[k] = entries[place[k]] /\ entries'[k].id # id
            /\ \A i \in DOMAIN entries : entries[i].id # id => \E k \in DOMAIN entries' : place[k] = i
        <4>1. \A k \in DOMAIN entries' : entries'[k] = entries[place[k]] /\ entries'[k].id # id
          BY <3>4, <3>5
        <4>2. ASSUME NEW i \in DOMAIN entries, entries[i].id # id PROVE \E k \in DOMAIN entries' : place[k] = i
          <5>1. i # p
            BY <4>2, <3>1
          <5>2. PICK k \in DOMAIN entries' : Old(k) = i
            BY <5>1, <3>4
          <5> QED BY <5>2
        <4> QED BY <4>1, <4>2
      <3>8. \A k, l \in DOMAIN entries' :
              k \in Nat /\ l \in Nat /\ (place[k] < place[l] => k < l) /\ (place[k] = place[l] => k = l)
        BY <3>3, <3>4
      <3> HIDE DEF place
      <3> QED BY <3>4, <3>6, <3>7, <3>8
    <2> QED BY <2>2, <2>3
  <1>6. PICK place \in [DOMAIN entries' -> DOMAIN entries] :
          /\ \A k \in DOMAIN entries' : entries'[k] = entries[place[k]] /\ entries'[k].id # id
          /\ \A i \in DOMAIN entries : entries[i].id # id => \E k \in DOMAIN entries' : place[k] = i
          /\ \A k, l \in DOMAIN entries' : k \in Nat /\ l \in Nat /\ (place[k] < place[l] => k < l)
          /\ \A k, l \in DOMAIN entries' : place[k] = place[l] => k = l
          /\ entries' \in Seq(Entry)
    BY <1>5
  <1>7. \A i \in DOMAIN entries : entries[i].id # id => \E k \in DOMAIN entries' : entries'[k] = entries[i]
    BY <1>6
  <1>8. /\ ToSet(entries') \subseteq ToSet(entries)
        /\ \A f \in ToSet(entries) : f.id # id => f \in ToSet(entries')
    BY <1>6, <1>7 DEF ToSet
  <1>9. Stored \subseteq Stored' \cup {id}
    BY <1>7 DEF Stored
  <1>10. /\ pc' \in [Calls -> Places] /\ \A d \in Calls : Stands(op'[d], pc'[d])
         /\ about' \in [Calls -> Entry \cup {NoEntry}] /\ about' = [about EXCEPT ![c] = NoEntry]
         /\ history' \in [Calls -> Seq(Sent)] /\ answer' \in [Calls -> {"none", "ok", "404", "502"}]
         /\ \A d \in Calls : history'[d] = history[d] \/ history'[d] = <<>>
         /\ pc' = [pc EXCEPT ![c] = "done"] /\ pc'[c] = "done" /\ ~Reads(c)'
         /\ \A d \in Calls \ {c} : pc'[d] = pc[d] /\ about'[d] = about[d]
         /\ PromptNotInHistory'
    <2>1. op[c] # "none"
      BY <1>2
    <2> QED BY <2>1, <1>1, AnswerTyped
  <1>11. Known' \subseteq Known
    <2>1. \A d \in Calls : about'[d] = NoEntry \/ about'[d] = about[d]
      BY <1>10 DEF Typed
    <2> QED BY <2>1, <1>8 DEF Known
  <1>12. Typed'
    <2>1. \A f \in ToSet(entries') : f.at <= clock'
      BY <1>1, <1>8 DEF Typed
    <2>2. deleted' \subseteq Ids
      BY <1>3 DEF Typed
    <2>3. disturbed' \in BOOLEAN
      BY <1>3 DEF Typed
    <2> QED BY <2>1, <2>2, <2>3, <1>1, <1>6, <1>10 DEF Typed
  <1>13. \A i \in Ids : Made(i) => Made(i)'
    BY <1>1, <1>10, MadeStays
  <1>14. Distinct'
    BY <1>6 DEF Distinct
  <1>15. Agreed'
    <2>1. \A f, g \in Known' : f.id = g.id => f.at = g.at /\ f.type = g.type /\ f.source = g.source
      BY <1>11 DEF Agreed
    <2>2. \A d \in Calls : Reads(d)' <=> about'[d] # NoEntry
      <3>1. Reads(c)' <=> about'[c] # NoEntry
        BY <1>10 DEF Typed
      <3>2. ASSUME NEW d \in Calls, d # c PROVE Reads(d)' <=> about'[d] # NoEntry
        BY <3>2, <1>1, <1>10 DEF Reads, Agreed
      <3> QED BY <3>1, <3>2
    <2>3. \A f \in Known' : f.at <= clock' /\ Made(f.id)' /\ f.id \in Stored' \cup deleted'
      <3> SUFFICES ASSUME NEW f \in Known' PROVE f.at <= clock' /\ Made(f.id)' /\ f.id \in Stored' \cup deleted'
        OBVIOUS
      <3>1. f.at <= clock /\ Made(f.id) /\ f.id \in Ids /\ f.id \in Stored \cup deleted
        BY <1>11, EntriesAre DEF Agreed
      <3> QED BY <3>1, <1>1, <1>3, <1>9, <1>13
    <2>4. \A i \in deleted' : Made(i)'
      BY <1>3, <1>4, <1>13 DEF Agreed, Typed
    <2> QED BY <2>1, <2>2, <2>3, <2>4 DEF Agreed
  <1>16. Answering'
    <2>1. \A q, t : Questioned(q, t) => Questioned(q, t)'
      <3> SUFFICES ASSUME NEW q, NEW t, Questioned(q, t) PROVE Questioned(q, t)'
        OBVIOUS
      <3>1. CASE q \in deleted \/ q = id
        BY <3>1, <1>3 DEF Questioned
      <3>2. CASE q \notin deleted /\ q # id
        <4>1. PICK i \in DOMAIN entries : entries[i].id = q /\ entries[i].at < t
          BY <3>2 DEF Questioned
        <4> QED BY <4>1, <3>2, <1>7 DEF Questioned
      <3> QED BY <3>1, <3>2
    <2>2. \A f \in Known' : f.id[2] = "reply" => Questioned(<<f.id[1], "question">>, f.at)'
      BY <2>1, <1>11 DEF Answering
    <2>3. \A d \in Calls : pc'[d] = "completing" /\ op'[d] = "chat" => <<d, "question">> \in Stored' \cup deleted'
      <3> SUFFICES ASSUME NEW d \in Calls, pc'[d] = "completing", op'[d] = "chat"
                   PROVE  <<d, "question">> \in Stored' \cup deleted'
        OBVIOUS
      <3>1. pc[d] = "completing" /\ op[d] = "chat"
        BY <1>1, <1>10
      <3> QED BY <3>1, <1>3, <1>9 DEF Answering
    <2>4. ASSUME NEW k \in DOMAIN entries', NEW l \in DOMAIN entries',
                 entries'[l].id[2] = "reply", entries'[k].id = <<entries'[l].id[1], "question">>
          PROVE  k < l \/ entries'[l].id \in deleted' \/ entries'[k].id \in deleted'
      <3>1. place[k] \in DOMAIN entries /\ place[l] \in DOMAIN entries
        BY <1>6
      <3>2. place[k] < place[l] \/ entries'[l].id \in deleted \/ entries'[k].id \in deleted
        <4> DEFINE i == place[k]
                   j == place[l]
        <4>1. i \in DOMAIN entries /\ j \in DOMAIN entries /\ entries'[k] = entries[i] /\ entries'[l] = entries[j]
          BY <3>1, <1>6
        <4> HIDE DEF i, j
        <4>2. entries[j].id[2] = "reply" /\ entries[i].id = <<entries[j].id[1], "question">>
          BY <4>1, <2>4
        <4>3. i < j \/ entries[j].id \in deleted \/ entries[i].id \in deleted
          BY <4>1, <4>2 DEF Answering
        <4> QED BY <4>1, <4>3 DEF i, j
      <3> QED BY <3>2, <1>3, <1>6
    <2> QED BY <2>2, <2>3, <2>4 DEF Answering
  <1>17. ASSUME Undisturbed, ~disturbed' PROVE Alternating'
    <2>1. Alternating /\ about[c].type # "chat"
      BY <1>3, <1>17 DEF Undisturbed
    <2>2. Talk' = Talk
      <3>1. \A f \in Talk : f.id # id
        BY <2>1, <1>4 DEF Talk, Known
      <3> QED BY <3>1, <1>8 DEF Talk
    <2>3. Chatting' = Chatting /\ \A d \in Chatting : pc'[d] = pc[d]
      BY <1>1, <1>2, <1>10 DEF Chatting
    <2>4. Apart' /\ InTurn'
      <3>1. Unanswered' = Unanswered
        BY <2>3 DEF Unanswered
      <3> QED BY <3>1, <2>1, <2>2, SameTalk DEF Alternating
    <2>5. \A f \in Known' : f.type = "chat" => f.id \notin deleted'
      BY <2>1, <1>3, <1>4, <1>11 DEF Alternating
    <2>6. \A d \in Calls : \A k \in DOMAIN history'[d] :
            history'[d][k].role = (IF k % 2 = 1 THEN "user" ELSE "assistant")
      <3>1. \A d \in Calls : history'[d] = history[d] \/ history'[d] = <<>>
        BY <1>10
      <3> QED BY <3>1, <2>1, HistoriesLeft
    <2> QED BY <2>1, <2>3, <2>4, <2>5, <2>6 DEF Alternating
  <1> QED BY <1>10, <1>12, <1>14, <1>15, <1>16, <1>17 DEF Undisturbed

LEMMA InitKeeps == Init => IInv /\ Undisturbed
  <1> SUFFICES ASSUME Init PROVE IInv /\ Undisturbed
    OBVIOUS
  <1>1. /\ entries = <<>> /\ clock = 0 /\ op = [c \in Calls |-> "none"] /\ pc = [c \in Calls |-> "idle"]
        /\ about = [c \in Calls |-> NoEntry] /\ history = [c \in Calls |-> <<>>]
        /\ answer = [c \in Calls |-> "none"] /\ deleted = {} /\ disturbed = FALSE
    BY DEF Init
  <1>2. entries \in Seq(Entry) /\ <<>> \in Seq(Sent) /\ DOMAIN entries = {}
    BY <1>1, EmptySeq
  <1>3. ToSet(entries) = {} /\ Stored = {} /\ Known = {} /\ Talk = {}
    BY <1>1, <1>2 DEF ToSet, Stored, Known, Talk
  <1>4. \A c \in Calls : DOMAIN history[c] = {}
    BY <1>1
  <1>5. Typed
    BY <1>1, <1>2, <1>3 DEF Typed, Stands, Places
  <1>6. Distinct /\ Agreed /\ Answering
    BY <1>1, <1>2, <1>3 DEF Distinct, Agreed, Answering, Reads
  <1>7. PromptNotInHistory
    BY <1>4 DEF PromptNotInHistory
  <1>8. Alternating
    BY <1>1, <1>3, <1>4 DEF Alternating, Apart, InTurn, Chatting
  <1> QED BY <1>5, <1>6, <1>7, <1>8 DEF IInv, Undisturbed

LEMMA NextKeeps == IInv /\ Undisturbed /\ [Next]_vars => IInv' /\ Undisturbed'
  <1> SUFFICES ASSUME IInv, Undisturbed, [Next]_vars PROVE IInv' /\ Undisturbed'
    OBVIOUS
  <1>1. ASSUME NEW c \in Calls, Arrive(c) PROVE IInv' /\ Undisturbed'
    BY <1>1, ArriveKeeps
  <1>2. ASSUME NEW c \in Calls, Step(c) PROVE IInv' /\ Undisturbed'
    BY <1>2, ListHistoryKeeps, StoreQuestionKeeps, StoreReplyKeeps, ProviderFailsKeeps, CreateKeeps,
       LookKeeps, StoreSummaryKeeps, WriteUpdateKeeps, DeleteEntryKeeps DEF Step
  <1>3. CASE UNCHANGED vars
    <2>1. UNCHANGED <<entries, clock, op, pc, about, history, answer, deleted, disturbed>>
      BY <1>3 DEF vars
    <2>2. IInv'
      <3>1. Known' = Known /\ \A id : Made(id)' <=> Made(id)
        BY <2>1 DEF Known, Made
      <3>2. \A c : Reads(c)' <=> Reads(c)
        BY <2>1 DEF Reads
      <3>3. Distinct' /\ Agreed' /\ Answering'
        BY <2>1, <3>1, <3>2, QuietKeeps DEF IInv, Agreed
      <3> QED BY <2>1, <3>3 DEF IInv, Typed, PromptNotInHistory
    <2>3. Undisturbed'
      BY <2>1 DEF Undisturbed, Alternating, Apart, InTurn, Talk, Later, Times, Unanswered, Chatting, Known
    <2> QED BY <2>2, <2>3
  <1> QED BY <1>1, <1>2, <1>3 DEF Next

THEOREM InductiveInvariant == Spec => [](IInv /\ Undisturbed)
  BY InitKeeps, NextKeeps, PTL DEF Spec

-----------------------------------------------------------------------------
\* The types of the variables, one record per id, no entry from the future
\* (knowledge.service.ts:19-130).
THEOREM TypeCorrect == Spec => []TypeOK
  <1>1. IInv => TypeOK
    <2> SUFFICES ASSUME IInv PROVE TypeOK
      OBVIOUS
    <2>1. ToSet(entries) \subseteq Entry
      BY EntriesAre DEF IInv
    <2>2. Cardinality(Stored) = Len(entries)
      BY OneRecordEach DEF IInv
    <2>3. \A c \in Calls : \A k \in DOMAIN history[c] : history[c][k] \in Sent
      <3> SUFFICES ASSUME NEW c \in Calls, NEW k \in DOMAIN history[c] PROVE history[c][k] \in Sent
        OBVIOUS
      <3>1. history[c] \in Seq(Sent)
        BY DEF IInv, Typed
      <3> QED BY <3>1, ElementOfSeq, LenProperties
    <2> QED BY <2>1, <2>2, <2>3 DEF TypeOK, IInv, Typed, Places, Sent
  <1> QED BY <1>1, InductiveInvariant, PTL

\* Whatever requests do between the awaits of a chat, its message is never part of
\* its own history, and a reply never stands before its question nor without it
\* (ai.service.ts:149-182).
THEOREM ConversationsStayWhole == Spec => []ConversationsHold
  <1>1. IInv => PromptNotInHistory /\ RepliesFollowQuestions
    <2> SUFFICES ASSUME IInv PROVE RepliesFollowQuestions
      BY DEF IInv
    <2> SUFFICES ASSUME NEW j \in DOMAIN entries, entries[j].id[2] = "reply",
                        <<entries[j].id[1], "question">> \notin deleted
                 PROVE  \E i \in DOMAIN entries :
                          /\ entries[i].id = <<entries[j].id[1], "question">>
                          /\ entries[i].at < entries[j].at
                          /\ i < j \/ entries[j].id \in deleted
      BY DEF RepliesFollowQuestions
    <2>1. entries[j] \in Known
      BY DEF Known, ToSet
    <2>2. PICK i \in DOMAIN entries : entries[i].id = <<entries[j].id[1], "question">> /\ entries[i].at < entries[j].at
      BY <2>1 DEF IInv, Answering, Questioned
    <2>3. i < j \/ entries[j].id \in deleted
      BY <2>2 DEF IInv, Answering
    <2> QED BY <2>2, <2>3
  <1> QED BY <1>1, TypeCorrect, InductiveInvariant, PTL DEF ConversationsHold

\* As long as nothing disturbs the conversation, what is sent to the provider
\* alternates from the user's oldest message on (ai.service.ts:87-112).
THEOREM HistoriesAlternate == Spec => []AlternatesUndisturbed
  <1>1. Undisturbed => AlternatesUndisturbed
    BY DEF Undisturbed, Alternating, AlternatesUndisturbed, Alternates
  <1> QED BY <1>1, InductiveInvariant, PTL

=============================================================================
