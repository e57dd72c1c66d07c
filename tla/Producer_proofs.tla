--------------------------- MODULE Producer_proofs ---------------------------
(***************************************************************************)
(* Proofs about Producer, for any clients, nonces and bounds.              *)
(***************************************************************************)
EXTENDS Producer, FiniteSetTheorems, SequenceTheorems, TLAPS

(***************************************************************************)
(* Messages and their order                                                *)
(***************************************************************************)
PubOnline == Pub("presence", "online")
PubOffline == Pub("presence", "offline")
PubFlush(c) == Pub("flush", c)
PresNone == Pub("presence", NONE)
DevNone == Pub("devices", NONE)

\* What the broker delivers: retained, and not.
Kept(value) == [topic |-> "presence", value |-> value, retained |-> TRUE]
News(topic, value) == [topic |-> topic, value |-> value, retained |-> FALSE]

\* After every m an n comes; some m comes before any n; m comes once at most.
Then(q, m, n) == \A i \in DOMAIN q : q[i] = m => \E j \in DOMAIN q : j > i /\ q[j] = n
Ahead(q, m, n) == \E i \in DOMAIN q : q[i] = m /\ \A j \in DOMAIN q : q[j] = n => i < j
Once(q, m) == \A i, j \in DOMAIN q : q[i] = m /\ q[j] = m => i = j

(***************************************************************************)
(* The invariant                                                           *)
(***************************************************************************)
\* A client that is off has nothing under way, and one that is cut off nothing
\* from the broker.
LinkInv(c) ==
    /\ pc[c] = "off" <=> link[c] = "none"
    /\ pc[c] = "off" => up[c] = <<>>
    /\ link[c] # "up" => down[c] = <<>> /\ subs[c] = {}

JobInv(c) ==
    /\ pc[c] = "run" => job[c] = "serve"
    /\ pc[c] = "clear" => job[c] # "serve"
    /\ nonce[c] # NONE <=> pc[c] = "probe"

\* What may be under way.
WordInv(c) ==
    /\ \A m \in ToSet(up[c]) :
         /\ m.op = "pub" /\ m.topic = "presence" => m.value \in {"online", "offline", NONE}
         /\ m.topic = "flush" => pc[c] = "flush" /\ (m.op = "pub" => m.value = c)
    /\ \A m \in ToSet(down[c]) :
         /\ m.retained => m.topic = "presence"
         /\ m.topic = "flush" => pc[c] = "flush" /\ m.value = c
    /\ Once(up[c], PubFlush(c))
    /\ News("flush", c) \in ToSet(down[c]) => PubFlush(c) \notin ToSet(up[c])

Base == TypeOK /\ \A c \in Client : LinkInv(c) /\ JobInv(c) /\ WordInv(c)

\* A check that counts on another's answer gets it: where the presence, the
\* probe and its answer are.
CountInv(c) ==
    \A d \in answering[c] : d # c /\ pc[d] = "run" /\ "probe" \in subs[d]

ListenInv(c) ==
    job[c] # "retire" /\ pc[c] = "listen" =>
        \/ /\ up[c] = <<Sub("presence")>> /\ answering[c] = {}
           /\ \A m \in ToSet(down[c]) : ~m.retained
        \/ /\ up[c] = <<>>
           /\ answering[c] # {} => /\ \E m \in ToSet(down[c]) : m.retained
                                   /\ \A m \in ToSet(down[c]) : m.retained => m.value = "online"
                                   /\ link[c] = "up"

ProbeInv(c) ==
    job[c] # "retire" /\ pc[c] = "probe" /\ answering[c] # {} =>
        /\ link[c] = "up"
        /\ \/ up[c] = <<Sub("alive"), Pub("probe", nonce[c])>>
           \/ up[c] = <<Pub("probe", nonce[c])>> /\ "alive" \in subs[c]
           \/ /\ up[c] = <<>> /\ "alive" \in subs[c]
              /\ \A d \in answering[c] :
                   \/ News("probe", nonce[c]) \in ToSet(down[d])
                   \/ Pub("alive", nonce[c]) \in ToSet(up[d])
                   \/ News("alive", nonce[c]) \in ToSet(down[c])

CheckInv == \A c \in Client : CountInv(c) /\ ListenInv(c) /\ ProbeInv(c)

\* While services only start and restart, nobody says anything but `online`.
OnlyOnline(c) ==
    /\ job[c] = "serve" /\ link[c] # "down"
    /\ \A m \in ToSet(up[c]) : m.op = "pub" /\ m.topic = "presence" => m.value = "online"

GapInv == OnlyRestarts => ghosts = 0 /\ \A c \in Client : OnlyOnline(c)

\* No devices are about to be shown.
Unshown(q) == \A m \in ToSet(q) : m.op = "pub" /\ m.topic = "devices" => m.value = NONE

Untouched(q) == \A m \in ToSet(q) : m.op = "pub" => m.topic # "devices"

\* A purge nothing overlaps: what it read is all there is, and what is left it
\* has still to say, the presence in any case and the rest unless it was blind.
Purging(c) ==
    /\ job[c] # "serve" /\ pc[c] \in {"listen", "probe", "read", "clear", "flush"}
    /\ pc[c] = "probe" => /\ Pub("alive", nonce[c]) \notin ToSet(up[c])
                          /\ News("alive", nonce[c]) \notin ToSet(down[c])
    /\ pc[c] = "clear" /\ purged = "alone" => Untouched(up[c]) /\ found[c] = shown
    /\ pc[c] = "flush" =>
         /\ Then(up[c], PubOnline, PresNone) /\ Then(up[c], PresNone, PubFlush(c))
         /\ presence = "online" => PresNone \in ToSet(up[c])
    /\ pc[c] = "flush" /\ purged = "alone" =>
         /\ Unshown(up[c]) /\ Then(up[c], DevNone, PubFlush(c))
         /\ shown => DevNone \in ToSet(up[c])

\* Where nothing is left of it.
Purged == /\ \A c \in Client : pc[c] = "off"
          /\ presence # "online" /\ (shown => purged = "blind")

PurgeInv == purged # "no" => Purged \/ \E c \in Client : Purging(c) /\ Alone(c)

\* A producer that runs has said `online`, is about to, or will be told that
\* another said otherwise.
Online(c) ==
    /\ job[c] = "serve" /\ Pub("presence", NONE) \notin ToSet(up[c])
    /\ pc[c] \in {"listen", "probe", "read"} => PubOnline \notin ToSet(up[c])
    /\ pc[c] = "run" /\ link[c] = "up" =>
         /\ "presence" \in subs[c] \/ Ahead(up[c], Sub("presence"), PubOnline)
         /\ \/ PubOnline \in ToSet(up[c])
            \/ /\ "presence" \in subs[c]
               /\ presence = "online" \/ News("presence", "offline") \in ToSet(down[c])

OnlineInv == spent["purge"] = 0 /\ spent["retire"] = 0 => \A c \in Client : Online(c)

\* Whoever said `online` takes it back, or its will does.
LastWords(c) ==
    /\ PubOnline \in ToSet(up[c]) => job[c] # "purge"
    /\ pc[c] # "run" => Then(up[c], PubOnline, PubOffline)
    /\ pc[c] = "flush" => Then(up[c], PubOffline, PubFlush(c))

TakesBack(c) == link[c] = "up" /\ job[c] # "purge" /\ (pc[c] = "run" \/ PubOffline \in ToSet(up[c]))

OfflineInv ==
    spent["late"] = 0 /\ spent["restart"] = 0 =>
        /\ \A c \in Client : LastWords(c)
        /\ presence = "online" => ghosts > 0 \/ \E c \in Client : TakesBack(c)

ProducerInv == Base /\ CheckInv /\ GapInv /\ PurgeInv /\ OnlineInv /\ OfflineInv

(***************************************************************************)
(* Sequences of messages                                                   *)
(***************************************************************************)
\* What is in a queue: one written out, ...
LEMMA Listed ==
    /\ ToSet(<<>>) = {}
    /\ \A a : ToSet(<<a>>) = {a}
    /\ \A a, b : ToSet(<<a, b>>) = {a, b}
    /\ \A a, b, c : ToSet(<<a, b, c>>) = {a, b, c}
    /\ \A a, b, c, d : ToSet(<<a, b, c, d>>) = {a, b, c, d}
BY DEF ToSet

\* ... two in a row, ...
LEMMA Joined ==
    ASSUME NEW S, NEW q \in Seq(S), NEW r \in Seq(S)
    PROVE  /\ q \o r \in Seq(S) /\ ToSet(q) \subseteq S
           /\ ToSet(q \o r) = ToSet(q) \cup ToSet(r)
<1> DEFINE s == q \o r
           n == Len(q)
<1>1. /\ s \in Seq(S) /\ Len(s) = n + Len(r) /\ n \in Nat /\ Len(r) \in Nat
      /\ \A i \in 1..n : i \in 1..Len(s) /\ s[i] = q[i]
      /\ \A i \in 1..Len(r) : n + i \in 1..Len(s) /\ s[n + i] = r[i]
      /\ \A i \in 1..Len(s) : i \in 1..n \/ (i - n \in 1..Len(r) /\ s[i] = r[i - n])
      /\ DOMAIN s = 1..Len(s) /\ DOMAIN q = 1..n /\ DOMAIN r = 1..Len(r)
  OBVIOUS
<1> HIDE DEF s, n
<1>2. ToSet(s) = ToSet(q) \cup ToSet(r)
  <2>1. ASSUME NEW i \in 1..Len(s) PROVE s[i] \in ToSet(q) \cup ToSet(r)
    BY <1>1, <2>1 DEF ToSet
  <2>2. ASSUME NEW i \in 1..n PROVE q[i] \in ToSet(s)
    BY <1>1, <2>2 DEF ToSet
  <2>3. ASSUME NEW i \in 1..Len(r) PROVE r[i] \in ToSet(s)
    BY <1>1, <2>3 DEF ToSet
  <2> QED BY ZenonT(60), <1>1, <2>1, <2>2, <2>3 DEF ToSet
<1>3. ToSet(q) \subseteq S
  BY DEF ToSet
<1> QED BY <1>1, <1>2, <1>3 DEF s

\* ... one without its first, ...
LEMMA Taken ==
    ASSUME NEW S, NEW q \in Seq(S), q # <<>>
    PROVE  /\ Tail(q) \in Seq(S) /\ Head(q) \in S
           /\ ToSet(q) = {Head(q)} \cup ToSet(Tail(q))
<1>1. /\ Tail(q) \in Seq(S) /\ Head(q) \in S /\ Head(q) = q[1] /\ Len(q) \in Nat \ {0}
      /\ Len(Tail(q)) = Len(q) - 1
      /\ \A i \in 1..Len(Tail(q)) : i + 1 \in 1..Len(q) /\ Tail(q)[i] = q[i + 1]
      /\ \A i \in 1..Len(q) : i = 1 \/ (i - 1 \in 1..Len(Tail(q)) /\ (i - 1) + 1 = i)
  BY HeadTailProperties
<1>2. \A i \in 1..Len(q) : i = 1 \/ (i - 1 \in 1..Len(Tail(q)) /\ Tail(q)[i - 1] = q[i])
  BY <1>1
<1>3. DOMAIN q = 1..Len(q) /\ DOMAIN Tail(q) = 1..Len(Tail(q)) /\ 1 \in 1..Len(q)
  BY <1>1
<1>4. ToSet(Tail(q)) \subseteq ToSet(q) /\ Head(q) \in ToSet(q)
  BY <1>1, <1>3 DEF ToSet
<1>5. ToSet(q) \subseteq {Head(q)} \cup ToSet(Tail(q))
  <2> SUFFICES ASSUME NEW i \in 1..Len(q), i # 1 PROVE q[i] \in ToSet(Tail(q))
    BY <1>1, <1>3 DEF ToSet
  <2> QED BY <1>2, <1>3 DEF ToSet
<1> QED BY <1>1, <1>4, <1>5

\* ... and with one more.
LEMMA Added ==
    ASSUME NEW S, NEW q \in Seq(S), NEW m \in S
    PROVE  Append(q, m) \in Seq(S) /\ ToSet(Append(q, m)) = ToSet(q) \cup {m}
<1>1. Append(q, m) = q \o <<m>> /\ <<m>> \in Seq(S)
  <2>1. Append(q, m) = q \o <<m>>
    BY AppendIsConcat
  <2>2. <<m>> \in Seq(S)
    OBVIOUS
  <2> QED BY <2>1, <2>2
<1> DEFINE r == <<m>>
<1>2. ToSet(r) = {m} /\ r \in Seq(S)
  BY <1>1, Listed
<1> HIDE DEF r
<1>3. q \o r \in Seq(S) /\ ToSet(q \o r) = ToSet(q) \cup ToSet(r)
  BY <1>2, Joined
<1> QED BY <1>1, <1>2, <1>3 DEF r

\* The order of messages in two queues in a row, ...
LEMMA InOrder ==
    ASSUME NEW S, NEW q \in Seq(S), NEW r \in Seq(S), NEW m, NEW n
    PROVE  /\ Then(q, m, n) /\ Then(r, m, n) => Then(q \o r, m, n)
           /\ n \in ToSet(r) /\ Then(r, m, n) => Then(q \o r, m, n)
           /\ Ahead(q, m, n) => Ahead(q \o r, m, n)
           /\ n \notin ToSet(q) /\ Ahead(r, m, n) => Ahead(q \o r, m, n)
           /\ m \notin ToSet(q) /\ Once(r, m) => Once(q \o r, m)
           /\ m \notin ToSet(r) /\ Once(q, m) => Once(q \o r, m)
<1> DEFINE s == q \o r
           k == Len(q)
           l == Len(r)
<1>1. /\ s \in Seq(S) /\ Len(s) = k + l /\ k \in Nat /\ l \in Nat
      /\ \A i \in 1..k : i \in 1..Len(s) /\ s[i] = q[i]
      /\ \A i \in 1..l : k + i \in 1..Len(s) /\ s[k + i] = r[i] /\ k + i > k
      /\ \A i \in 1..Len(s) : i \in 1..k \/ (i > k /\ i - k \in 1..l /\ s[i] = r[i - k])
      /\ DOMAIN s = 1..Len(s) /\ DOMAIN q = 1..k /\ DOMAIN r = 1..l
  OBVIOUS
<1> HIDE DEF s, k, l
<1>2. ASSUME Then(q, m, n), Then(r, m, n) PROVE Then(s, m, n)
  <2> SUFFICES ASSUME NEW i \in 1..Len(s), s[i] = m PROVE \E j \in 1..Len(s) : j > i /\ s[j] = n
    BY <1>1 DEF Then
  <2>1. CASE i \in 1..k
    BY <1>1, <1>2, <2>1 DEF Then
  <2>2. CASE i > k
    <3>0. i - k \in 1..l /\ r[i - k] = m
      BY <1>1, <2>2
    <3>1. PICK j \in 1..l : j > i - k /\ r[j] = n
      BY <1>1, <1>2, <3>0 DEF Then
    <3> QED BY <1>1, <3>1, <2>2
  <2> QED BY <1>1, <2>1, <2>2
<1>3. ASSUME n \in ToSet(r), Then(r, m, n) PROVE Then(s, m, n)
  <2> SUFFICES ASSUME NEW i \in 1..Len(s), s[i] = m PROVE \E j \in 1..Len(s) : j > i /\ s[j] = n
    BY <1>1 DEF Then
  <2>1. CASE i \in 1..k
    <3>1. PICK j \in 1..l : r[j] = n
      BY <1>1, <1>3 DEF ToSet
    <3> QED BY <1>1, <2>1, <3>1
  <2>2. CASE i > k
    <3>1. i - k \in 1..l /\ r[i - k] = m
      BY <1>1, <2>2
    <3>2. PICK j \in 1..l : j > i - k /\ r[j] = n
      BY <1>1, <1>3, <3>1 DEF Then
    <3> QED BY <1>1, <3>2, <2>2
  <2> QED BY <1>1, <2>1, <2>2
<1>4. ASSUME Ahead(q, m, n) PROVE Ahead(s, m, n)
  <2>1. PICK i \in 1..k : q[i] = m /\ \A j \in 1..k : q[j] = n => i < j
    BY <1>1, <1>4 DEF Ahead
  <2>2. \A j \in 1..Len(s) : s[j] = n => i < j
    BY <1>1, <2>1
  <2> QED BY <1>1, <2>1, <2>2 DEF Ahead
<1>5. ASSUME n \notin ToSet(q), Ahead(r, m, n) PROVE Ahead(s, m, n)
  <2>1. PICK i \in 1..l : r[i] = m /\ \A j \in 1..l : r[j] = n => i < j
    BY <1>1, <1>5 DEF Ahead
  <2>2. ASSUME NEW j \in 1..Len(s), s[j] = n PROVE k + i < j
    <3>1. j \notin 1..k
      BY <1>1, <1>5, <2>2 DEF ToSet
    <3> QED BY <1>1, <2>1, <2>2, <3>1
  <2> QED BY <1>1, <2>1, <2>2 DEF Ahead
<1>6. ASSUME m \notin ToSet(q), Once(r, m) PROVE Once(s, m)
  <2>1. \A i \in 1..Len(s) : s[i] = m => i > k /\ i - k \in 1..l /\ r[i - k] = m
    BY <1>1, <1>6 DEF ToSet
  <2>2. \A i, j \in 1..Len(s) : s[i] = m /\ s[j] = m => i - k = j - k
    BY <1>1, <1>6, <2>1 DEF Once
  <2> QED BY <1>1, <2>2 DEF Once
<1>7. ASSUME m \notin ToSet(r), Once(q, m) PROVE Once(s, m)
  <2>1. \A i \in 1..Len(s) : s[i] = m => i \in 1..k /\ q[i] = m
    BY <1>1, <1>7 DEF ToSet
  <2> QED BY <1>1, <1>7, <2>1 DEF Once
<1> QED BY <1>2, <1>3, <1>4, <1>5, <1>6, <1>7 DEF s

\* ... and in one without its first.
LEMMA TakenInOrder ==
    ASSUME NEW S, NEW q \in Seq(S), q # <<>>, NEW m, NEW n
    PROVE  /\ Then(q, m, n) => Then(Tail(q), m, n) /\ (Head(q) = m => n \in ToSet(Tail(q)))
           /\ Ahead(q, m, n) /\ Head(q) # m => Ahead(Tail(q), m, n)
           /\ Ahead(q, m, n) /\ m # n => Head(q) # n
           /\ Once(q, m) => Once(Tail(q), m) /\ (Head(q) = m => m \notin ToSet(Tail(q)))
<1> DEFINE t == Tail(q)
<1>1. /\ t \in Seq(S) /\ Head(q) = q[1] /\ Len(q) \in Nat \ {0} /\ Len(t) = Len(q) - 1
      /\ \A i \in 1..Len(t) : i + 1 \in 1..Len(q) /\ t[i] = q[i + 1]
      /\ \A i \in 1..Len(q) : i > 1 => i - 1 \in 1..Len(t) /\ (i - 1) + 1 = i
      /\ DOMAIN q = 1..Len(q) /\ DOMAIN t = 1..Len(t) /\ 1 \in 1..Len(q)
  BY HeadTailProperties
<1> HIDE DEF t
<1>2. \A i \in 1..Len(q) : i > 1 => i - 1 \in 1..Len(t) /\ t[i - 1] = q[i]
  BY <1>1
<1>3. ASSUME Then(q, m, n) PROVE Then(t, m, n) /\ (Head(q) = m => n \in ToSet(t))
  <2>1. ASSUME NEW i \in 1..Len(t), t[i] = m PROVE \E j \in 1..Len(t) : j > i /\ t[j] = n
    <3>1. PICK j \in 1..Len(q) : j > i + 1 /\ q[j] = n
      BY <1>1, <1>3, <2>1 DEF Then
    <3>2. j - 1 \in 1..Len(t) /\ t[j - 1] = n /\ j - 1 > i
      BY <1>1, <1>2, <3>1
    <3> QED BY <3>2
  <2>2. ASSUME Head(q) = m PROVE n \in ToSet(t)
    <3>1. PICK j \in 1..Len(q) : j > 1 /\ q[j] = n
      BY <1>1, <1>3, <2>2 DEF Then
    <3>2. j - 1 \in 1..Len(t) /\ t[j - 1] = n
      BY <1>2, <3>1
    <3> QED BY <1>1, <3>2 DEF ToSet
  <2> QED BY <1>1, <2>1, <2>2 DEF Then
<1>4. ASSUME Ahead(q, m, n), Head(q) # m PROVE Ahead(t, m, n)
  <2>1. PICK i \in 1..Len(q) : q[i] = m /\ \A j \in 1..Len(q) : q[j] = n => i < j
    BY <1>1, <1>4 DEF Ahead
  <2>2. i - 1 \in 1..Len(t) /\ t[i - 1] = m
    BY <1>1, <1>2, <1>4, <2>1
  <2>3. \A j \in 1..Len(t) : t[j] = n => i - 1 < j
    BY <1>1, <2>1
  <2> QED BY <1>1, <2>2, <2>3 DEF Ahead
<1>5. ASSUME Ahead(q, m, n), m # n PROVE Head(q) # n
  BY <1>1, <1>5 DEF Ahead
<1>6. ASSUME Once(q, m) PROVE Once(t, m) /\ (Head(q) = m => m \notin ToSet(t))
  <2>1. \A i, j \in 1..Len(t) : t[i] = m /\ t[j] = m => i + 1 = j + 1
    BY <1>1, <1>6 DEF Once
  <2>2. ASSUME Head(q) = m, NEW j \in 1..Len(t), t[j] = m PROVE FALSE
    <3>1. j + 1 \in 1..Len(q) /\ q[j + 1] = m /\ q[1] = m /\ j + 1 # 1
      BY <1>1, <2>2
    <3> QED BY <1>1, <1>6, <3>1 DEF Once
  <2> QED BY <1>1, <2>1, <2>2 DEF Once, ToSet
<1> QED BY <1>3, <1>4, <1>5, <1>6 DEF t

\* What paho sends again is what was to be published, in its order.
LEMMA Requeued ==
    ASSUME NEW S, NEW q \in Seq(S)
    PROVE  LET r == Queued(q) IN
           /\ r \in Seq(S) /\ ToSet(r) = {m \in ToSet(q) : m.op = "pub"}
           /\ \A m, n : Then(q, m, n) /\ n.op = "pub" => Then(r, m, n)
           /\ \A m : Once(q, m) => Once(r, m)
           /\ (\A m \in ToSet(q) : m.op # "pub") => r = <<>>
<1> DEFINE pubs == {i \in DOMAIN q : q[i].op = "pub"}
           rank(i) == Cardinality({j \in pubs : j <= i})
           n == Cardinality(pubs)
           nth(k) == CHOOSE i \in pubs : rank(i) = k
           r == [k \in 1..n |-> q[nth(k)]]
<1>0. r = Queued(q)
  BY DEF Queued
<1>1. IsFiniteSet(pubs) /\ n \in Nat /\ pubs \subseteq 1..Len(q) /\ Len(q) \in Nat
  <2>1. IsFiniteSet(1..Len(q)) /\ pubs \subseteq 1..Len(q) /\ Len(q) \in Nat
    BY FS_Interval
  <2> QED BY <2>1, FS_Subset, FS_CardinalityType
<1>2. ASSUME NEW i \in pubs
      PROVE  /\ IsFiniteSet({j \in pubs : j <= i}) /\ rank(i) \in Nat /\ rank(i) \in 1..n /\ i \in Int
  <2>1. IsFiniteSet({j \in pubs : j <= i}) /\ Cardinality({j \in pubs : j <= i}) <= n
    BY <1>1, FS_Subset, {j \in pubs : j <= i} \subseteq pubs
  <2>2. i \in {j \in pubs : j <= i}
    BY <1>1
  <2>3. Cardinality({j \in pubs : j <= i}) \in Nat /\ Cardinality({j \in pubs : j <= i}) # 0
    BY <2>1, <2>2, FS_CardinalityType, FS_EmptySet
  <2> QED BY <1>1, <2>1, <2>3
<1>3. ASSUME NEW i \in pubs, NEW j \in pubs, i < j PROVE rank(i) < rank(j)
  <2> DEFINE A == {k \in pubs : k <= i}
             B == {k \in pubs : k <= j}
  <2>0. IsFiniteSet(B)
    BY <1>2
  <2>1. A \subseteq B /\ j \in B /\ j \notin A
    <3>1. i \in Int /\ j \in Int /\ i < j /\ \A k \in pubs : k \in Int
      BY <1>1, <1>3
    <3>2. \A k \in pubs : k <= i => k <= j
      <4> SUFFICES ASSUME NEW k \in pubs, k <= i PROVE k <= j
        OBVIOUS
      <4> QED BY <3>1
    <3> QED BY <3>1, <3>2
  <2>2. Cardinality(A) <= Cardinality(B) /\ (Cardinality(A) = Cardinality(B) => A = B)
    BY <2>0, <2>1, FS_Subset
  <2>3. Cardinality(A) \in Nat /\ Cardinality(B) \in Nat
    BY <1>2, FS_CardinalityType
  <2> QED BY <2>1, <2>2, <2>3
<1>4. ASSUME NEW k \in 1..n PROVE \E i \in pubs : rank(i) = k
  <2> DEFINE f == [i \in pubs |-> rank(i)]
  <2> HIDE DEF rank
  <2>1. f \in [pubs -> 1..n]
    BY <1>2
  <2>2. \A i, j \in pubs : f[i] = f[j] => i = j
    <3> SUFFICES ASSUME NEW i \in pubs, NEW j \in pubs, rank(i) = rank(j) PROVE i = j
      OBVIOUS
    <3>1. rank(i) \in Nat /\ rank(j) \in Nat /\ i \in Int /\ j \in Int
      BY <1>1, <1>2
    <3> QED BY <3>1, <1>3
  <2>3. f \in Injection(pubs, 1..n)
    BY <2>1, <2>2 DEF Injection, IsInjective
  <2>4. IsFiniteSet(1..n) /\ Cardinality(1..n) = n
    BY <1>1, FS_Interval
  <2>5. f \in Surjection(pubs, 1..n)
    BY <2>3, <2>4, FS_Injection
  <2> QED BY <2>5 DEF Surjection
<1>5. \A k \in 1..n : nth(k) \in pubs /\ rank(nth(k)) = k
  BY <1>4
<1>6. \A i \in pubs : rank(i) \in 1..n /\ nth(rank(i)) = i
  <2> SUFFICES ASSUME NEW i \in pubs PROVE rank(i) \in 1..n /\ nth(rank(i)) = i
    OBVIOUS
  <2> HIDE DEF rank
  <2>1. rank(i) \in 1..n /\ nth(rank(i)) \in pubs /\ rank(nth(rank(i))) = rank(i)
    BY <1>2, <1>4
  <2> HIDE DEF nth
  <2>2. /\ i \in Int /\ nth(rank(i)) \in Int /\ rank(i) \in Int
        /\ ~(i < nth(rank(i))) /\ ~(nth(rank(i)) < i)
    BY <1>1, <1>3, <2>1
  <2> QED BY <2>1, <2>2
<1>7. ASSUME NEW k \in 1..n, NEW l \in 1..n PROVE nth(k) < nth(l) <=> k < l
  <2> HIDE DEF rank, nth
  <2>1. /\ nth(k) \in pubs /\ nth(l) \in pubs /\ rank(nth(k)) = k /\ rank(nth(l)) = l
        /\ nth(k) \in Int /\ nth(l) \in Int /\ k \in Int /\ l \in Int
    BY <1>1, <1>5
  <2> QED BY <2>1, <1>3
<1> HIDE DEF rank, nth, n
<1>8. /\ r \in Seq(S) /\ DOMAIN r = 1..n /\ Len(r) = n
      /\ \A k \in 1..n : r[k] = q[nth(k)] /\ nth(k) \in DOMAIN q /\ r[k].op = "pub"
  BY <1>1, <1>5
<1> HIDE DEF r
<1>9. ToSet(r) = {m \in ToSet(q) : m.op = "pub"}
  BY <1>5, <1>6, <1>8 DEF ToSet
<1>10. ASSUME NEW m, NEW o, Then(q, m, o), o.op = "pub" PROVE Then(r, m, o)
  <2> SUFFICES ASSUME NEW k \in 1..n, r[k] = m PROVE \E l \in 1..n : l > k /\ r[l] = o
    BY <1>8 DEF Then
  <2>1. PICK j \in DOMAIN q : j > nth(k) /\ q[j] = o
    BY <1>8, <1>10 DEF Then
  <2>2. rank(j) \in 1..n /\ nth(rank(j)) = j
    BY <1>6, <1>10, <2>1
  <2>3. k < rank(j)
    BY <1>7, <2>1, <2>2
  <2> QED BY <1>1, <1>8, <2>1, <2>2, <2>3
<1>11. ASSUME NEW m, Once(q, m) PROVE Once(r, m)
  <2>1. \A k, l \in 1..n : r[k] = m /\ r[l] = m => nth(k) = nth(l)
    BY <1>8, <1>11 DEF Once
  <2>2. \A k, l \in 1..n : nth(k) = nth(l) => k = l
    BY <1>5
  <2> QED BY <1>8, <2>1, <2>2 DEF Once
<1>12. ASSUME \A m \in ToSet(q) : m.op # "pub" PROVE r = <<>>
  BY <1>8, <1>9, <1>12 DEF ToSet
<1> QED BY <1>0, <1>8, <1>9, <1>10, <1>11, <1>12

(***************************************************************************)
(* What is said, and what is delivered                                     *)
(***************************************************************************)
\* Queues written out, two in a row: one and one, ...
LEMMA OneOne ==
    ASSUME NEW S, NEW a \in S, NEW b \in S
    PROVE  <<a>> \o <<b>> = <<a, b>> /\ <<a, b>> \in Seq(S)
<1> DEFINE s == <<a>> \o <<b>>
           t == <<a, b>>
<1>1. s \in Seq(S) /\ t \in Seq(S) /\ Len(t) = 2 /\ Len(s) = 2
  OBVIOUS
<1>2. s[1] = t[1] /\ s[2] = t[2]
  OBVIOUS
<1> HIDE DEF s, t
<1>3. s = t
  BY <1>1, <1>2, SeqEqual
<1> QED BY <1>1, <1>3 DEF s, t

\* ... one and two, ...
LEMMA OneTwo ==
    ASSUME NEW S, NEW a \in S, NEW b \in S, NEW c \in S
    PROVE  <<a>> \o <<b, c>> = <<a, b, c>> /\ <<a, b, c>> \in Seq(S)
<1> DEFINE s == <<a>> \o <<b, c>>
           t == <<a, b, c>>
<1>1. s \in Seq(S) /\ t \in Seq(S) /\ Len(t) = 3 /\ Len(s) = 3
  OBVIOUS
<1>2. s[1] = t[1] /\ s[2] = t[2] /\ s[3] = t[3]
  OBVIOUS
<1> HIDE DEF s, t
<1>3. s = t
  BY <1>1, <1>2, SeqEqual
<1> QED BY <1>1, <1>3 DEF s, t

\* ... and two and two.
LEMMA TwoTwo ==
    ASSUME NEW S, NEW a \in S, NEW b \in S, NEW c \in S, NEW d \in S
    PROVE  <<a, b>> \o <<c, d>> = <<a, b, c, d>> /\ <<a, b, c, d>> \in Seq(S)
<1> DEFINE s == <<a, b>> \o <<c, d>>
           t == <<a, b, c, d>>
<1>1. s \in Seq(S) /\ t \in Seq(S) /\ Len(t) = 4 /\ Len(s) = 4
  OBVIOUS
<1>2. s[1] = t[1] /\ s[2] = t[2] /\ s[3] = t[3] /\ s[4] = t[4]
  OBVIOUS
<1> HIDE DEF s, t
<1>3. s = t
  BY <1>1, <1>2, SeqEqual
<1> QED BY <1>1, <1>3 DEF s, t

\* The messages there are.
LEMMA Words ==
    /\ \A t \in Topic : Sub(t) \in Up
    /\ \A t \in Topic, v \in Value : Pub(t, v) \in Up /\ News(t, v) \in Down
    /\ \A v \in Value : Kept(v) \in Down
<1>1. \A t \in Topic : Sub(t) \in Up
  BY DEF Up, Sub, Value
<1>2. \A t \in Topic, v \in Value : Pub(t, v) \in Up /\ News(t, v) \in Down
  BY DEF Up, Down, Pub, News
<1>3. \A v \in Value : Kept(v) \in Down
  BY DEF Down, Kept, Topic
<1> QED BY <1>1, <1>2, <1>3

\* What a client says comes after what it said before.
LEMMA Saying ==
    ASSUME TypeOK, NEW c \in Client, NEW msgs \in Seq(Up), Say(c, msgs)
    PROVE  /\ up' \in [Client -> Seq(Up)] /\ up'[c] = up[c] \o msgs
           /\ ToSet(up'[c]) = ToSet(up[c]) \cup ToSet(msgs)
           /\ \A e \in Client \ {c} : up'[e] = up[e]
<1>1. up[c] \in Seq(Up) /\ up \in [Client -> Seq(Up)]
  BY DEF TypeOK
<1>2. up[c] \o msgs \in Seq(Up) /\ ToSet(up[c] \o msgs) = ToSet(up[c]) \cup ToSet(msgs)
  BY <1>1, Joined
<1> QED BY <1>1, <1>2 DEF Say

\* The exit stack says `offline` or not, and then flushes.
LEMMA Leaving ==
    ASSUME TypeOK, NEW c \in Client, Leave(c), offline' \in [Client -> BOOLEAN]
    PROVE  \E msgs \in Seq(Up) :
             /\ Say(c, msgs)
             /\ \/ offline'[c] /\ msgs = <<PubOffline, Sub("flush"), PubFlush(c)>>
                \/ ~offline'[c] /\ msgs = <<Sub("flush"), PubFlush(c)>>
<1>1. PubOffline \in Up /\ Sub("flush") \in Up /\ PubFlush(c) \in Up
  BY Words DEF PubOffline, PubFlush, Topic, Value
<1> DEFINE a == PubOffline
           s == Sub("flush")
           f == PubFlush(c)
<1>2. Say(c, (IF offline'[c] THEN <<a>> ELSE <<>>) \o <<s, f>>)
  BY DEF Leave, Flush, PubOffline, PubFlush
<1>3. a \in Up /\ s \in Up /\ f \in Up
  BY <1>1
<1> HIDE DEF a, s, f
<1>4. CASE offline'[c]
  <2>1. <<a>> \o <<s, f>> = <<a, s, f>> /\ <<a, s, f>> \in Seq(Up)
    BY <1>3, OneTwo
  <2> QED BY <1>2, <1>4, <2>1 DEF a, s, f
<1>5. CASE ~offline'[c]
  <2>1. <<>> \o <<s, f>> = <<s, f>> /\ <<s, f>> \in Seq(Up)
    BY <1>3, ConcatEmptySeq
  <2> QED BY <1>2, <1>5, <2>1 DEF s, f
<1> QED BY <1>4, <1>5

\* A purge clears what it found, and the presence.
LEMMA Clearing ==
    ASSUME TypeOK, NEW c \in Client, Clear(c)
    PROVE  \E msgs \in Seq(Up) :
             /\ Say(c, msgs)
             /\ \/ /\ found[c]
                   /\ msgs = <<Pub("devices", NONE), Pub("presence", NONE), Sub("flush"), PubFlush(c)>>
                \/ ~found[c] /\ msgs = <<Pub("presence", NONE), Sub("flush"), PubFlush(c)>>
<1>1. /\ Pub("devices", NONE) \in Up /\ Pub("presence", NONE) \in Up /\ Sub("flush") \in Up
      /\ PubFlush(c) \in Up
  BY Words DEF PubFlush, Topic, Value
<1> DEFINE a == Pub("devices", NONE)
           b == Pub("presence", NONE)
           s == Sub("flush")
           f == PubFlush(c)
<1>2. Say(c, (IF found[c] THEN <<a>> ELSE <<>>) \o <<b>> \o <<s, f>>)
  BY DEF Clear, Flush, PubFlush
<1>3. a \in Up /\ b \in Up /\ s \in Up /\ f \in Up
  BY <1>1
<1> HIDE DEF a, b, s, f
<1>4. CASE found[c]
  <2>1. <<a>> \o <<b>> = <<a, b>>
    BY <1>3, OneOne
  <2>2. <<a, b>> \o <<s, f>> = <<a, b, s, f>> /\ <<a, b, s, f>> \in Seq(Up)
    BY <1>3, TwoTwo
  <2> QED BY <1>2, <1>4, <2>1, <2>2 DEF a, b, s, f
<1>5. CASE ~found[c]
  <2>1. <<>> \o <<b>> = <<b>>
    BY <1>3, ConcatEmptySeq
  <2>2. <<b>> \o <<s, f>> = <<b, s, f>> /\ <<b, s, f>> \in Seq(Up)
    BY <1>3, OneTwo
  <2> QED BY <1>2, <1>5, <2>1, <2>2 DEF b, s, f
<1> QED BY <1>4, <1>5

\* What a client hears again when it reconnects.
LEMMA Listening ==
    ASSUME NEW c \in Client
    PROVE  /\ Listens(c) \in Seq(Up)
           /\ pc[c] = "listen" => Listens(c) = <<Sub("presence")>>
           /\ pc[c] = "run" => Listens(c) = <<Sub("presence"), Sub("probe")>>
           /\ pc[c] = "flush" => Listens(c) = <<Sub("flush")>>
           /\ \A m \in ToSet(Listens(c)) : m.op = "sub" /\ (m.topic = "flush" => pc[c] = "flush")
<1>1. /\ pc[c] = "listen" => Listens(c) = <<Sub("presence")>>
      /\ pc[c] = "probe" => Listens(c) = <<Sub("alive")>>
      /\ pc[c] = "run" => Listens(c) = <<Sub("presence"), Sub("probe")>>
      /\ pc[c] = "flush" => Listens(c) = <<Sub("flush")>>
      /\ pc[c] \notin {"listen", "probe", "run", "flush"} => Listens(c) = <<>>
  BY Zenon DEF Listens
<1>2. Sub("presence") \in Up /\ Sub("probe") \in Up /\ Sub("alive") \in Up /\ Sub("flush") \in Up
  BY Words DEF Topic
<1>3. Listens(c) \in Seq(Up)
  <2>1. <<Sub("presence")>> \in Seq(Up) /\ <<Sub("alive")>> \in Seq(Up) /\ <<Sub("flush")>> \in Seq(Up)
    BY <1>2
  <2>2. <<Sub("presence"), Sub("probe")>> \in Seq(Up) /\ <<>> \in Seq(Up)
    BY <1>2
  <2> QED BY <1>1, <2>1, <2>2
<1>4. \A m \in ToSet(Listens(c)) : m.op = "sub" /\ (m.topic = "flush" => pc[c] = "flush")
  BY <1>1, Listed DEF Sub
<1> QED BY <1>1, <1>3, <1>4

\* What it sends when it reconnects: to subscribe, what was queued, and more if
\* it runs.
LEMMA Reconnecting ==
    ASSUME TypeOK, NEW c \in Client, Reconnect(c)
    PROVE  \E more \in Seq(Up) :
             /\ up'[c] = (Listens(c) \o Queued(up[c])) \o more
             /\ \/ pc[c] = "run" /\ more = <<PubOnline>>
                \/ pc[c] = "run" /\ more = <<PubOnline, Pub("devices", "shown")>>
                \/ pc[c] # "run" /\ more = <<>>
             /\ Queued(up[c]) \in Seq(Up) /\ up' \in [Client -> Seq(Up)]
             /\ ToSet(up'[c]) = (ToSet(Listens(c)) \cup ToSet(Queued(up[c]))) \cup ToSet(more)
             /\ \A e \in Client \ {c} : up'[e] = up[e]
<1> DEFINE a == Listens(c) \o Queued(up[c])
           x == IF pc[c] = "run" THEN <<PubOnline>> ELSE <<>>
           y == IF pc[c] = "run" /\ driving[c] THEN <<Pub("devices", "shown")>> ELSE <<>>
<1>1. up' = [up EXCEPT ![c] = (a \o x) \o y]
  BY DEF Reconnect, PubOnline
<1>2. /\ up[c] \in Seq(Up) /\ Queued(up[c]) \in Seq(Up) /\ Listens(c) \in Seq(Up)
      /\ up \in [Client -> Seq(Up)]
  BY Requeued, Listening DEF TypeOK
<1>3. a \in Seq(Up) /\ ToSet(a) = ToSet(Listens(c)) \cup ToSet(Queued(up[c]))
  BY <1>2, Joined
<1>4. PubOnline \in Up /\ Pub("devices", "shown") \in Up
  BY Words DEF PubOnline, Topic, Value
<1>5. x \in Seq(Up) /\ y \in Seq(Up) /\ x \o y \in Seq(Up)
  BY <1>4, Joined
<1>6. \/ pc[c] = "run" /\ x \o y = <<PubOnline>>
      \/ pc[c] = "run" /\ x \o y = <<PubOnline, Pub("devices", "shown")>>
      \/ pc[c] # "run" /\ x \o y = <<>>
  <2> DEFINE g == Pub("devices", "shown")
  <2>1. PubOnline \in Up /\ g \in Up
    BY <1>4
  <2> HIDE DEF g
  <2>2. <<PubOnline>> \in Seq(Up) /\ <<PubOnline>> \o <<g>> = <<PubOnline, g>>
    BY <2>1, OneOne
  <2>3. <<PubOnline>> \o <<>> = <<PubOnline>>
    BY <2>2, ConcatEmptySeq
  <2>4. <<>> \o <<>> = <<>>
    BY EmptySeq, ConcatEmptySeq
  <2> QED BY <2>2, <2>3, <2>4 DEF g
<1> HIDE DEF a, x, y
<1>7. (a \o x) \o y = a \o (x \o y)
  BY <1>3, <1>5, ConcatAssociative
<1> DEFINE z == x \o y
<1>8. z \in Seq(Up) /\ up' = [up EXCEPT ![c] = a \o z]
  BY <1>1, <1>5, <1>7
<1> HIDE DEF z
<1>9. a \o z \in Seq(Up) /\ ToSet(a \o z) = ToSet(a) \cup ToSet(z)
  BY <1>3, <1>8, Joined
<1>10. up'[c] = a \o z /\ up' \in [Client -> Seq(Up)] /\ \A e \in Client \ {c} : up'[e] = up[e]
  BY <1>2, <1>8, <1>9
<1> QED BY <1>2, <1>3, <1>6, <1>8, <1>9, <1>10 DEF a, z

\* A message taken, ...
LEMMA Taking ==
    ASSUME TypeOK, NEW c \in Client, down[c] # <<>>, down' = [down EXCEPT ![c] = Tail(@)]
    PROVE  /\ down' \in [Client -> Seq(Down)] /\ Head(down[c]) \in Down
           /\ ToSet(down[c]) = {Head(down[c])} \cup ToSet(down'[c])
           /\ \A e \in Client \ {c} : down'[e] = down[e]
<1>1. down[c] \in Seq(Down) /\ down \in [Client -> Seq(Down)]
  BY DEF TypeOK
<1> QED BY <1>1, Taken

\* ... one delivered, ...
LEMMA Delivering ==
    ASSUME TypeOK, NEW topic \in Topic, NEW value \in Value, Deliver(topic, value)
    PROVE  /\ down' \in [Client -> Seq(Down)]
           /\ \A e \in Client :
                /\ \/ /\ topic \in subs[e] /\ (topic = "alive" => value = nonce[e])
                      /\ topic = "flush" => value = e
                      /\ ToSet(down'[e]) = ToSet(down[e]) \cup {News(topic, value)}
                   \/ /\ ~(topic \in subs[e] /\ (topic = "alive" => value = nonce[e])
                           /\ (topic = "flush" => value = e))
                      /\ down'[e] = down[e]
<1>1. News(topic, value) \in Down /\ down \in [Client -> Seq(Down)]
  BY Words DEF TypeOK
<1>2. \A e \in Client : down[e] \in Seq(Down)
  BY <1>1
<1>3. \A e \in Client : /\ Append(down[e], News(topic, value)) \in Seq(Down)
                        /\ ToSet(Append(down[e], News(topic, value))) = ToSet(down[e]) \cup {News(topic, value)}
  BY <1>1, <1>2, Added
<1>4. \A e \in Client : down'[e] =
        IF topic \in subs[e] /\ (topic = "alive" => value = nonce[e]) /\ (topic = "flush" => value = e)
        THEN Append(down[e], News(topic, value)) ELSE down[e]
  BY DEF Deliver, News
<1>5. down' \in [Client -> Seq(Down)]
  BY <1>1, <1>2, <1>3 DEF Deliver, News
<1> QED BY <1>3, <1>4, <1>5

\* ... and the message the broker takes.
LEMMA Brokering ==
    ASSUME TypeOK, NEW c \in Client, Broker(c)
    PROVE  LET m == Head(up[c]) IN
           /\ link[c] = "up" /\ up[c] # <<>> /\ m \in Up /\ m.topic \in Topic /\ m.value \in Value
           /\ up[c] \in Seq(Up) /\ up' \in [Client -> Seq(Up)] /\ up'[c] = Tail(up[c])
           /\ ToSet(up[c]) = {m} \cup ToSet(up'[c])
           /\ \A e \in Client \ {c} : up'[e] = up[e]
           /\ \/ m.op = "sub" /\ Subscribed(c, m.topic)
              \/ /\ m.op = "pub" /\ Deliver(m.topic, m.value) /\ UNCHANGED <<subs, answering>>
                 /\ presence' = IF m.topic = "presence" THEN m.value ELSE presence
                 /\ shown' = IF m.topic = "devices" THEN m.value # NONE ELSE shown
<1>1. up[c] \in Seq(Up) /\ up \in [Client -> Seq(Up)] /\ up[c] # <<>> /\ up' = [up EXCEPT ![c] = Tail(@)]
  BY DEF TypeOK, Broker
<1>2. Head(up[c]) \in Up /\ Tail(up[c]) \in Seq(Up) /\ ToSet(up[c]) = {Head(up[c])} \cup ToSet(Tail(up[c]))
  BY <1>1, Taken
<1>3. up'[c] = Tail(up[c]) /\ up' \in [Client -> Seq(Up)] /\ \A e \in Client \ {c} : up'[e] = up[e]
  BY <1>1, <1>2
<1> QED BY <1>1, <1>2, <1>3 DEF Broker, Up

\* To subscribe brings the retained presence, and a check counts on who runs.
LEMMA Subscribing ==
    ASSUME TypeOK, NEW c \in Client, NEW topic \in Topic, Subscribed(c, topic)
    PROVE  /\ down' \in [Client -> Seq(Down)] /\ subs' \in [Client -> SUBSET Topic]
           /\ answering' \in [Client -> SUBSET Client]
           /\ subs'[c] = subs[c] \cup {topic} /\ \A e \in Client \ {c} : subs'[e] = subs[e]
           /\ \A e \in Client \ {c} : down'[e] = down[e] /\ answering'[e] = answering[e]
           /\ \/ /\ topic = "presence" /\ presence # NONE
                 /\ ToSet(down'[c]) = ToSet(down[c]) \cup {Kept(presence)}
              \/ ~(topic = "presence" /\ presence # NONE) /\ down'[c] = down[c]
           /\ \/ /\ topic = "presence" /\ pc[c] = "listen" /\ presence = "online"
                 /\ answering'[c] = {e \in Client : pc[e] = "run" /\ "probe" \in subs[e]}
              \/ /\ ~(topic = "presence" /\ pc[c] = "listen" /\ presence = "online")
                 /\ answering'[c] = answering[c]
<1>1. /\ Kept(presence) \in Down /\ down \in [Client -> Seq(Down)] /\ down[c] \in Seq(Down)
      /\ subs \in [Client -> SUBSET Topic] /\ answering \in [Client -> SUBSET Client]
  BY Words DEF TypeOK, Value
<1>2. /\ Append(down[c], Kept(presence)) \in Seq(Down)
      /\ ToSet(Append(down[c], Kept(presence))) = ToSet(down[c]) \cup {Kept(presence)}
  BY <1>1, Added
<1>3. \/ topic = "presence" /\ presence # NONE /\ down' = [down EXCEPT ![c] = Append(@, Kept(presence))]
      \/ ~(topic = "presence" /\ presence # NONE) /\ down' = down
  BY DEF Subscribed, Kept
<1>4. subs' = [subs EXCEPT ![c] = @ \cup {topic}]
  BY DEF Subscribed
<1>5. answering' = IF topic = "presence" /\ pc[c] = "listen" /\ presence = "online"
                   THEN [answering EXCEPT ![c] = {e \in Client : pc[e] = "run" /\ "probe" \in subs[e]}]
                   ELSE answering
  BY DEF Subscribed
<1>6. /\ down' \in [Client -> Seq(Down)] /\ \A e \in Client \ {c} : down'[e] = down[e]
      /\ \/ /\ topic = "presence" /\ presence # NONE
            /\ ToSet(down'[c]) = ToSet(down[c]) \cup {Kept(presence)}
         \/ ~(topic = "presence" /\ presence # NONE) /\ down'[c] = down[c]
  BY <1>1, <1>2, <1>3
<1>7. /\ answering' \in [Client -> SUBSET Client] /\ \A e \in Client \ {c} : answering'[e] = answering[e]
      /\ \/ /\ topic = "presence" /\ pc[c] = "listen" /\ presence = "online"
            /\ answering'[c] = {e \in Client : pc[e] = "run" /\ "probe" \in subs[e]}
         \/ /\ ~(topic = "presence" /\ pc[c] = "listen" /\ presence = "online")
            /\ answering'[c] = answering[c]
  BY <1>1, <1>5
<1>8. subs' \in [Client -> SUBSET Topic] /\ subs'[c] = subs[c] \cup {topic} /\ \A e \in Client \ {c} : subs'[e] = subs[e]
  BY <1>1, <1>4
<1> QED BY <1>6, <1>7, <1>8

(***************************************************************************)
(* What is counted, and the types                                          *)
(***************************************************************************)
LEMMA Spent ==
    ASSUME TypeOK, NEW kind \in Kind, Spend(kind)
    PROVE  /\ spent' \in [Kind -> Nat] /\ spent'[kind] # 0
           /\ \A k \in Kind : spent'[k] = 0 => spent[k] = 0
<1>1. spent \in [Kind -> Nat] /\ spent' = [spent EXCEPT ![kind] = @ + 1]
  BY DEF TypeOK, Spend
<1> HIDE DEF Kind
<1> QED BY <1>1

\* What was not done by now was not done before.
LEMMA Counting ==
    ASSUME TypeOK, [Next]_vars
    PROVE  spent' \in [Kind -> Nat] /\ \A k \in Kind : spent'[k] = 0 => spent[k] = 0
<1>0. TypeOK
  OBVIOUS
<1>1. CASE Will
  BY <1>0, <1>1 DEF Will, TypeOK
<1>2. ASSUME NEW c \in Client, Unheard(c) PROVE spent' \in [Kind -> Nat] /\ \A k \in Kind : spent'[k] = 0 => spent[k] = 0
  <2>1. Spend("slow") \/ UNCHANGED spent
    BY <1>2 DEF Unheard
  <2> QED BY <1>0, <2>1, Spent DEF Kind, TypeOK
<1>3. ASSUME NEW c \in Client, Unanswered(c) PROVE spent' \in [Kind -> Nat] /\ \A k \in Kind : spent'[k] = 0 => spent[k] = 0
  <2>1. Spend("slow") \/ UNCHANGED spent
    BY <1>3 DEF Unanswered
  <2> QED BY <1>0, <2>1, Spent DEF Kind, TypeOK
<1>4. ASSUME NEW c \in Client, Heard(c) PROVE spent' \in [Kind -> Nat] /\ \A k \in Kind : spent'[k] = 0 => spent[k] = 0
  BY <1>0, <1>4 DEF Heard, TypeOK
<1>5. ASSUME NEW c \in Client, Refused(c) PROVE spent' \in [Kind -> Nat] /\ \A k \in Kind : spent'[k] = 0 => spent[k] = 0
  BY <1>0, <1>5 DEF Refused, TypeOK
<1>6. ASSUME NEW c \in Client, AnswerOffline(c) PROVE spent' \in [Kind -> Nat] /\ \A k \in Kind : spent'[k] = 0 => spent[k] = 0
  BY <1>0, <1>6 DEF AnswerOffline, TypeOK
<1>7. ASSUME NEW c \in Client, AnswerProbe(c) PROVE spent' \in [Kind -> Nat] /\ \A k \in Kind : spent'[k] = 0 => spent[k] = 0
  BY <1>0, <1>7 DEF AnswerProbe, TypeOK
<1>8. ASSUME NEW c \in Client, Ignore(c) PROVE spent' \in [Kind -> Nat] /\ \A k \in Kind : spent'[k] = 0 => spent[k] = 0
  BY <1>0, <1>8 DEF Ignore, TypeOK
<1>9. ASSUME NEW c \in Client, Run(c) PROVE spent' \in [Kind -> Nat] /\ \A k \in Kind : spent'[k] = 0 => spent[k] = 0
  BY <1>0, <1>9 DEF Run, TypeOK
<1>10. ASSUME NEW c \in Client, Describe(c) PROVE spent' \in [Kind -> Nat] /\ \A k \in Kind : spent'[k] = 0 => spent[k] = 0
  BY <1>0, <1>10 DEF Describe, TypeOK
<1>11. ASSUME NEW c \in Client, Read(c) PROVE spent' \in [Kind -> Nat] /\ \A k \in Kind : spent'[k] = 0 => spent[k] = 0
  <2>1. Spend("silent") \/ UNCHANGED spent
    BY <1>11 DEF Read, Unread
  <2> QED BY <1>0, <2>1, Spent DEF Kind, TypeOK
<1>12. ASSUME NEW c \in Client, Clear(c) PROVE spent' \in [Kind -> Nat] /\ \A k \in Kind : spent'[k] = 0 => spent[k] = 0
  BY <1>0, <1>12 DEF Clear, TypeOK
<1>13. ASSUME NEW c \in Client, Closed(c) PROVE spent' \in [Kind -> Nat] /\ \A k \in Kind : spent'[k] = 0 => spent[k] = 0
  <2>1. Spend("late") \/ UNCHANGED spent
    BY <1>13 DEF Closed
  <2> QED BY <1>0, <2>1, Spent DEF Kind, TypeOK
<1>14. ASSUME NEW c \in Client, NEW task, NEW kind, Begin(c, task, kind),
                 \/ task = "serve" /\ kind = "start"
                 \/ task = "purge" /\ kind = "purge"
      PROVE  spent' \in [Kind -> Nat] /\ \A k \in Kind : spent'[k] = 0 => spent[k] = 0
  <2>1. Spend(kind) /\ kind \in Kind
    BY <1>14 DEF Begin, Kind
  <2> QED BY <1>0, <2>1, Spent
<1>15. ASSUME NEW c \in Client, NEW kind \in {"stop", "restart"}, Stop(c, kind) PROVE spent' \in [Kind -> Nat] /\ \A k \in Kind : spent'[k] = 0 => spent[k] = 0
  <2>1. Spend(kind) /\ kind \in Kind
    BY <1>15 DEF Stop, Kind
  <2> QED BY <1>0, <2>1, Spent
<1>16. ASSUME NEW c \in Client, Retire(c) PROVE spent' \in [Kind -> Nat] /\ \A k \in Kind : spent'[k] = 0 => spent[k] = 0
  <2>1. Spend("retire") /\ "retire" \in Kind
    BY <1>16 DEF Retire, Kind
  <2> QED BY <1>0, <2>1, Spent
<1>17. ASSUME NEW c \in Client, Fail(c) PROVE spent' \in [Kind -> Nat] /\ \A k \in Kind : spent'[k] = 0 => spent[k] = 0
  <2>1. Spend("fail") /\ "fail" \in Kind
    BY <1>17 DEF Fail, Kind
  <2> QED BY <1>0, <2>1, Spent
<1>18. ASSUME NEW c \in Client, Crash(c) PROVE spent' \in [Kind -> Nat] /\ \A k \in Kind : spent'[k] = 0 => spent[k] = 0
  <2>1. Spend("crash") /\ "crash" \in Kind
    BY <1>18 DEF Crash, Kind
  <2> QED BY <1>0, <2>1, Spent
<1>19. ASSUME NEW c \in Client, Drop(c) PROVE spent' \in [Kind -> Nat] /\ \A k \in Kind : spent'[k] = 0 => spent[k] = 0
  <2>1. Spend("drop") /\ "drop" \in Kind
    BY <1>19 DEF Drop, Kind
  <2> QED BY <1>0, <2>1, Spent
<1>20. ASSUME NEW c \in Client, Broker(c) PROVE spent' \in [Kind -> Nat] /\ \A k \in Kind : spent'[k] = 0 => spent[k] = 0
  BY <1>0, <1>20 DEF Broker, TypeOK
<1>21. ASSUME NEW c \in Client, Reconnect(c) PROVE spent' \in [Kind -> Nat] /\ \A k \in Kind : spent'[k] = 0 => spent[k] = 0
  BY <1>0, <1>21 DEF Reconnect, TypeOK
<1>22. CASE UNCHANGED vars
  BY <1>0, <1>22 DEF vars, TypeOK
<1> QED BY <1>0, <1>1, <1>2, <1>3, <1>4, <1>5, <1>6, <1>7, <1>8, <1>9, <1>10, <1>11, <1>12,
       <1>13, <1>14, <1>15, <1>16, <1>17, <1>18, <1>19, <1>20, <1>21, <1>22
       DEF Next, Proceed, Receive, Ordered

\* Every action keeps the types.
LEMMA TypeKept ==
    ASSUME Base, [Next]_vars
    PROVE  TypeOK'
<1>0. TypeOK /\ \A c \in Client : WordInv(c)
  BY DEF Base
<1>c. spent' \in [Kind -> Nat]
  BY <1>0, Counting
<1>1. CASE Will
  <2>1. down' \in [Client -> Seq(Down)]
    BY <1>0, <1>c, <1>1, Delivering DEF Will, Topic, Value
  <2> QED BY <1>0, <1>c, <1>1, <2>1 DEF Will, TypeOK, clientVars
<1>2. ASSUME NEW c \in Client, Unheard(c) PROVE TypeOK'
  BY <1>0, <1>c, <1>2 DEF Unheard, TypeOK
<1>3. ASSUME NEW c \in Client, Unanswered(c) PROVE TypeOK'
  BY <1>0, <1>c, <1>3 DEF Unanswered, Unasked, TypeOK
<1>4. ASSUME NEW c \in Client, Heard(c) PROVE TypeOK'
  <2>1. down' \in [Client -> Seq(Down)]
    BY <1>0, <1>c, <1>4, Taking DEF Heard, Took
  <2>2. CASE Head(down[c]).value = "online"
    <3> DEFINE n == CHOOSE n \in Nonce : Unused(n)
    <3>1. n \in Nonce /\ nonce' = [nonce EXCEPT ![c] = n]
      BY <1>4, <2>2 DEF Heard
    <3>2. nonce'[c] = n
      BY <1>0, <3>1 DEF TypeOK
    <3> HIDE DEF n
    <3>3. Say(c, <<Sub("alive"), Pub("probe", n)>>)
      BY <1>4, <2>2, <3>2 DEF Heard
    <3>4. <<Sub("alive"), Pub("probe", n)>> \in Seq(Up)
      <4>1. Sub("alive") \in Up /\ Pub("probe", n) \in Up
        BY <3>1, Words DEF Topic, Value
      <4> QED BY <4>1
    <3>5. up' \in [Client -> Seq(Up)]
      BY <1>0, <3>3, <3>4, Saying
    <3> QED BY <1>0, <1>c, <1>4, <2>1, <2>2, <3>1, <3>5 DEF Heard, TypeOK
  <2>3. CASE Head(down[c]).value # "online"
    BY <1>0, <1>c, <1>4, <2>1, <2>3 DEF Heard, TypeOK
  <2> QED BY <2>2, <2>3
<1>5. ASSUME NEW c \in Client, Refused(c) PROVE TypeOK'
  <2>1. offline' \in [Client -> BOOLEAN]
    BY <1>0, <1>c, <1>5 DEF Refused, TypeOK
  <2>2. up' \in [Client -> Seq(Up)]
    BY <1>0, <1>c, <1>5, <2>1, Leaving, Saying DEF Refused
  <2>3. down' \in [Client -> Seq(Down)]
    BY <1>0, <1>c, <1>5, Taking DEF Refused, Took
  <2> QED BY <1>0, <1>c, <1>5, <2>1, <2>2, <2>3 DEF Refused, Leave, Unasked, TypeOK
<1>6. ASSUME NEW c \in Client, AnswerOffline(c) PROVE TypeOK'
  <2>1. <<Pub("presence", "online")>> \in Seq(Up)
    BY Words DEF Topic, Value
  <2>2. up' \in [Client -> Seq(Up)]
    BY <1>0, <1>c, <1>6, <2>1, Saying DEF AnswerOffline
  <2>3. down' \in [Client -> Seq(Down)] /\ Head(down[c]) \in Down
    BY <1>0, <1>c, <1>6, Taking DEF AnswerOffline, Took
  <2> QED BY <1>0, <1>c, <1>6, <2>2, <2>3 DEF AnswerOffline, TypeOK, clientVars, brokerVars
<1>7. ASSUME NEW c \in Client, AnswerProbe(c) PROVE TypeOK'
  <2>1. down' \in [Client -> Seq(Down)] /\ Head(down[c]) \in Down
    BY <1>0, <1>c, <1>7, Taking DEF AnswerProbe, Took
  <2>2. <<Pub("alive", Head(down[c]).value)>> \in Seq(Up)
    BY <2>1, Words DEF Topic, Down
  <2>3. up' \in [Client -> Seq(Up)]
    BY <1>0, <1>c, <1>7, <2>2, Saying DEF AnswerProbe
  <2> QED BY <1>0, <1>c, <1>7, <2>1, <2>3 DEF AnswerProbe, TypeOK, clientVars, brokerVars
<1>8. ASSUME NEW c \in Client, Ignore(c) PROVE TypeOK'
  <2>1. down' \in [Client -> Seq(Down)]
    BY <1>0, <1>c, <1>8, Taking DEF Ignore
  <2> QED BY <1>0, <1>c, <1>8, <2>1 DEF Ignore, TypeOK, clientVars, brokerVars
<1>9. ASSUME NEW c \in Client, Run(c) PROVE TypeOK'
  <2>1. <<Sub("presence"), Sub("probe"), Pub("presence", "online")>> \in Seq(Up)
    BY Words DEF Topic, Value
  <2>2. up' \in [Client -> Seq(Up)]
    BY <1>0, <1>c, <1>9, <2>1, Saying DEF Run
  <2> QED BY <1>0, <1>c, <1>9, <2>2 DEF Run, TypeOK, brokerVars
<1>10. ASSUME NEW c \in Client, Describe(c) PROVE TypeOK'
  <2>1. <<Pub("devices", "shown")>> \in Seq(Up)
    BY Words DEF Topic, Value
  <2>2. up' \in [Client -> Seq(Up)]
    BY <1>0, <1>c, <1>10, <2>1, Saying DEF Describe
  <2> QED BY <1>0, <1>c, <1>10, <2>2 DEF Describe, TypeOK, brokerVars
<1>11. ASSUME NEW c \in Client, Read(c) PROVE TypeOK'
  <2>1. purged' \in {"no", "alone", "blind"} /\ found' \in [Client -> BOOLEAN]
    BY <1>0, <1>11 DEF Read, Unread, TypeOK
  <2> QED BY <1>0, <1>c, <1>11, <2>1 DEF Read, TypeOK, brokerVars
<1>12. ASSUME NEW c \in Client, Clear(c) PROVE TypeOK'
  <2>1. up' \in [Client -> Seq(Up)]
    BY <1>0, <1>c, <1>12, Clearing, Saying
  <2> QED BY <1>0, <1>c, <1>12, <2>1 DEF Clear, TypeOK, brokerVars
<1>13. ASSUME NEW c \in Client, Closed(c) PROVE TypeOK'
  <2>1. purged' \in {"no", "alone", "blind"} /\ ghosts' \in Nat
    <3>1. ghosts' = ghosts 
      BY <1>0, <1>c, <1>13 DEF Closed, TypeOK
    <3>2. purged' \in {"no", "alone", "blind"}
      BY <1>0, <1>c, <1>13 DEF Closed, TypeOK
    <3> QED BY <1>0, <3>1, <3>2 DEF TypeOK
  <2>2. Gone(c)
    BY <1>13 DEF Closed
  <2>3. up' \in [Client -> Seq(Up)] /\ down' \in [Client -> Seq(Down)]
    BY <1>0, <2>2 DEF Gone, TypeOK
  <2> QED BY <1>0, <1>c, <1>13, <2>1, <2>2, <2>3 DEF Gone, Silent, NoLongerAnswers, Unasked, TypeOK
<1>14. ASSUME NEW c \in Client, NEW task, NEW kind, Begin(c, task, kind),
                 \/ task = "serve" /\ kind = "start"
                 \/ task = "purge" /\ kind = "purge"
      PROVE  TypeOK'
  <2>1. <<Sub("presence")>> \in Seq(Up)
    BY Words DEF Topic, Value
  <2>2. up' \in [Client -> Seq(Up)]
    BY <1>0, <1>c, <1>14, <2>1, Saying DEF Begin
  <2>3. purged' \in {"no", "alone", "blind"}
    BY <1>14 DEF Begin
  <2> QED BY <1>0, <1>c, <1>14, <2>2, <2>3 DEF Begin, Check, TypeOK, brokerVars
<1>15. ASSUME NEW c \in Client, NEW kind \in {"stop", "restart"}, Stop(c, kind) PROVE TypeOK'
  <2>1. offline' \in [Client -> BOOLEAN]
    BY <1>0, <1>c, <1>15 DEF Stop, TypeOK
  <2>2. up' \in [Client -> Seq(Up)]
    BY <1>0, <1>c, <1>15, <2>1, Leaving, Saying DEF Stop
  <2> QED BY <1>0, <1>c, <1>15, <2>1, <2>2 DEF Stop, Leave, Silent, NoLongerAnswers, TypeOK
<1>16. ASSUME NEW c \in Client, Retire(c) PROVE TypeOK'
  <2>1. <<Pub("presence", "offline"), Sub("presence")>> \in Seq(Up)
    BY Words DEF Topic, Value
  <2>2. up' \in [Client -> Seq(Up)]
    BY <1>0, <1>c, <1>16, <2>1, Saying DEF Retire
  <2> QED BY <1>0, <1>c, <1>16, <2>2 DEF Retire, Silent, NoLongerAnswers, Alone, TypeOK
<1>17. ASSUME NEW c \in Client, Fail(c) PROVE TypeOK'
  <2>1. offline' \in [Client -> BOOLEAN]
    BY <1>0, <1>c, <1>17 DEF Fail, TypeOK
  <2>2. up' \in [Client -> Seq(Up)]
    BY <1>0, <1>c, <1>17, <2>1, Leaving, Saying DEF Fail
  <2> QED BY <1>0, <1>c, <1>17, <2>1, <2>2 DEF Fail, Leave, Unasked, TypeOK
<1>18. ASSUME NEW c \in Client, Crash(c) PROVE TypeOK'
  <2>1. purged' \in {"no", "alone", "blind"} /\ ghosts' \in Nat
    <3>1. ghosts' = ghosts \/ ghosts' = ghosts + 1
      BY <1>0, <1>c, <1>18 DEF Crash, TypeOK
    <3>2. purged' \in {"no", "alone", "blind"}
      BY <1>0, <1>c, <1>18 DEF Crash, TypeOK
    <3> QED BY <1>0, <3>1, <3>2 DEF TypeOK
  <2>2. Gone(c)
    BY <1>18 DEF Crash
  <2>3. up' \in [Client -> Seq(Up)] /\ down' \in [Client -> Seq(Down)]
    BY <1>0, <2>2 DEF Gone, TypeOK
  <2> QED BY <1>0, <1>c, <1>18, <2>1, <2>2, <2>3 DEF Gone, Silent, NoLongerAnswers, Unasked, TypeOK
<1>19. ASSUME NEW c \in Client, Drop(c) PROVE TypeOK'
  <2>1. down' \in [Client -> Seq(Down)]
    BY <1>0, <1>c, <1>19 DEF Drop, TypeOK
  <2> QED BY <1>0, <1>c, <1>19, <2>1 DEF Drop, TypeOK, clientVars
<1>20. ASSUME NEW c \in Client, Broker(c) PROVE TypeOK'
  <2> DEFINE m == Head(up[c])
  <2>1. /\ m.topic \in Topic /\ m.value \in Value /\ up' \in [Client -> Seq(Up)]
        /\ m \in ToSet(up[c])
        /\ \/ m.op = "sub" /\ Subscribed(c, m.topic)
           \/ /\ m.op = "pub" /\ Deliver(m.topic, m.value) /\ UNCHANGED <<subs, answering>>
              /\ presence' = IF m.topic = "presence" THEN m.value ELSE presence
              /\ shown' = IF m.topic = "devices" THEN m.value # NONE ELSE shown
    BY <1>0, <1>c, <1>20, Brokering
  <2>2. m.op = "pub" /\ m.topic = "presence" => m.value \in {"online", "offline", NONE}
    BY <1>0, <2>1 DEF WordInv
  <2> HIDE DEF m
  <2>3. CASE Subscribed(c, m.topic)
    <3>1. /\ down' \in [Client -> Seq(Down)] /\ subs' \in [Client -> SUBSET Topic]
          /\ answering' \in [Client -> SUBSET Client] /\ UNCHANGED <<presence, shown>>
      BY <1>0, <2>1, <2>3, Subscribing DEF Subscribed
    <3> QED BY <1>0, <1>c, <1>20, <2>1, <3>1 DEF Broker, TypeOK, clientVars
  <2>4. CASE m.op = "pub" /\ Deliver(m.topic, m.value) /\ UNCHANGED <<subs, answering>>
    <3>1. down' \in [Client -> Seq(Down)]
      BY <1>0, <2>1, <2>4, Delivering
    <3>2. presence' \in {"online", "offline", NONE} /\ shown' \in BOOLEAN
      BY <1>0, <2>1, <2>2, <2>4 DEF TypeOK, Subscribed
    <3> QED BY <1>0, <1>c, <1>20, <2>1, <2>4, <3>1, <3>2 DEF Broker, TypeOK, clientVars
  <2> QED BY <2>1, <2>3, <2>4
<1>21. ASSUME NEW c \in Client, Reconnect(c) PROVE TypeOK'
  <2>1. up' \in [Client -> Seq(Up)]
    BY <1>0, <1>c, <1>21, Reconnecting
  <2> QED BY <1>0, <1>c, <1>21, <2>1 DEF Reconnect, TypeOK, clientVars, brokerVars
<1>22. CASE UNCHANGED vars
  BY <1>0, <1>22 DEF vars, TypeOK, clientVars, brokerVars
<1> QED BY <1>0, <1>1, <1>2, <1>3, <1>4, <1>5, <1>6, <1>7, <1>8, <1>9, <1>10, <1>11, <1>12,
       <1>13, <1>14, <1>15, <1>16, <1>17, <1>18, <1>19, <1>20, <1>21, <1>22
       DEF Next, Proceed, Receive, Ordered

\* ... who is connected, ...
LEMMA LinkKept ==
    ASSUME Base, [Next]_vars
    PROVE  \A e \in Client : LinkInv(e)'
<1>0. TypeOK /\ \A e \in Client : LinkInv(e)
  BY DEF Base
<1>1. CASE Will
  <2>1. \A e \in Client : down'[e] = down[e] \/ subs[e] # {}
    BY <1>0, <1>1, Delivering DEF Will, Topic, Value
  <2> QED BY <1>0, <1>1, <2>1 DEF Will, LinkInv, clientVars
<1>2. ASSUME NEW c \in Client, Unheard(c) PROVE \A e \in Client : LinkInv(e)'
  BY <1>0, <1>2 DEF Unheard, clientVars, brokerVars, LinkInv, TypeOK
<1>3. ASSUME NEW c \in Client, Unanswered(c) PROVE \A e \in Client : LinkInv(e)'
  BY <1>0, <1>3 DEF Unanswered, Unasked, clientVars, brokerVars, LinkInv, TypeOK
<1>4. ASSUME NEW c \in Client, Heard(c) PROVE \A e \in Client : LinkInv(e)'
  BY <1>0, <1>4 DEF Heard, Took, Say, clientVars, brokerVars, LinkInv, TypeOK
<1>5. ASSUME NEW c \in Client, Refused(c) PROVE \A e \in Client : LinkInv(e)'
  BY <1>0, <1>5 DEF Refused, Took, Unasked, Leave, Say, clientVars, brokerVars, LinkInv, TypeOK
<1>6. ASSUME NEW c \in Client, AnswerOffline(c) PROVE \A e \in Client : LinkInv(e)'
  BY <1>0, <1>6 DEF AnswerOffline, Took, Say, clientVars, brokerVars, LinkInv, TypeOK
<1>7. ASSUME NEW c \in Client, AnswerProbe(c) PROVE \A e \in Client : LinkInv(e)'
  BY <1>0, <1>7 DEF AnswerProbe, Took, Say, clientVars, brokerVars, LinkInv, TypeOK
<1>8. ASSUME NEW c \in Client, Ignore(c) PROVE \A e \in Client : LinkInv(e)'
  BY <1>0, <1>8 DEF Ignore, clientVars, brokerVars, LinkInv, TypeOK
<1>9. ASSUME NEW c \in Client, Run(c) PROVE \A e \in Client : LinkInv(e)'
  BY <1>0, <1>9 DEF Run, Say, clientVars, brokerVars, LinkInv, TypeOK
<1>10. ASSUME NEW c \in Client, Describe(c) PROVE \A e \in Client : LinkInv(e)'
  BY <1>0, <1>10 DEF Describe, Say, clientVars, brokerVars, LinkInv, TypeOK
<1>11. ASSUME NEW c \in Client, Read(c) PROVE \A e \in Client : LinkInv(e)'
  BY <1>0, <1>11 DEF Read, clientVars, brokerVars, LinkInv, TypeOK
<1>12. ASSUME NEW c \in Client, Clear(c) PROVE \A e \in Client : LinkInv(e)'
  BY <1>0, <1>12 DEF Clear, Say, clientVars, brokerVars, LinkInv, TypeOK
<1>13. ASSUME NEW c \in Client, Closed(c) PROVE \A e \in Client : LinkInv(e)'
  BY <1>0, <1>13 DEF Closed, Gone, Silent, NoLongerAnswers, Unasked, clientVars, brokerVars, LinkInv, TypeOK
<1>14. ASSUME NEW c \in Client, NEW task, NEW kind, Begin(c, task, kind),
                 \/ task = "serve" /\ kind = "start"
                 \/ task = "purge" /\ kind = "purge"
      PROVE  \A e \in Client : LinkInv(e)'
  BY <1>0, <1>14 DEF Begin, Check, Say, clientVars, brokerVars, LinkInv, TypeOK
<1>15. ASSUME NEW c \in Client, NEW kind \in {"stop", "restart"}, Stop(c, kind) PROVE \A e \in Client : LinkInv(e)'
  BY <1>0, <1>15 DEF Stop, Silent, NoLongerAnswers, Leave, Say, clientVars, brokerVars, LinkInv, TypeOK
<1>16. ASSUME NEW c \in Client, Retire(c) PROVE \A e \in Client : LinkInv(e)'
  BY <1>0, <1>16 DEF Retire, Silent, NoLongerAnswers, Say, clientVars, brokerVars, LinkInv, TypeOK
<1>17. ASSUME NEW c \in Client, Fail(c) PROVE \A e \in Client : LinkInv(e)'
  BY <1>0, <1>17 DEF Fail, Unasked, Leave, Say, clientVars, brokerVars, LinkInv, TypeOK
<1>18. ASSUME NEW c \in Client, Crash(c) PROVE \A e \in Client : LinkInv(e)'
  BY <1>0, <1>18 DEF Crash, Gone, Silent, NoLongerAnswers, Unasked, clientVars, brokerVars, LinkInv, TypeOK
<1>19. ASSUME NEW c \in Client, Drop(c) PROVE \A e \in Client : LinkInv(e)'
  BY <1>0, <1>19 DEF Drop, clientVars, brokerVars, LinkInv, TypeOK
<1>20. ASSUME NEW c \in Client, Broker(c) PROVE \A e \in Client : LinkInv(e)'
  <2> DEFINE m == Head(up[c])
  <2>1. /\ m.topic \in Topic /\ m.value \in Value /\ link[c] = "up" /\ \A e \in Client \ {c} : up'[e] = up[e]
        /\ \/ m.op = "sub" /\ Subscribed(c, m.topic)
           \/ m.op = "pub" /\ Deliver(m.topic, m.value) /\ UNCHANGED <<subs, answering>>
    BY <1>0, <1>20, Brokering
  <2> HIDE DEF m
  <2>2. CASE Subscribed(c, m.topic)
    <3>1. \A e \in Client \ {c} : down'[e] = down[e] /\ subs'[e] = subs[e]
      BY <1>0, <2>1, <2>2, Subscribing
    <3> QED BY <1>0, <1>20, <2>1, <3>1 DEF Broker, LinkInv, clientVars
  <2>3. CASE Deliver(m.topic, m.value) /\ UNCHANGED <<subs, answering>>
    <3>1. \A e \in Client : down'[e] = down[e] \/ subs[e] # {}
      BY <1>0, <2>1, <2>3, Delivering
    <3> QED BY <1>0, <1>20, <2>1, <2>3, <3>1 DEF Broker, LinkInv, clientVars
  <2> QED BY <2>1, <2>2, <2>3
<1>21. ASSUME NEW c \in Client, Reconnect(c) PROVE \A e \in Client : LinkInv(e)'
  <2>1. \A e \in Client \ {c} : up'[e] = up[e]
    BY <1>0, <1>21, Reconnecting
  <2> QED BY <1>0, <1>21, <2>1 DEF Reconnect, LinkInv, TypeOK, clientVars, brokerVars
<1>22. CASE UNCHANGED vars
  BY <1>0, <1>22 DEF vars, clientVars, brokerVars, LinkInv, TypeOK
<1> QED BY <1>0, <1>1, <1>2, <1>3, <1>4, <1>5, <1>6, <1>7, <1>8, <1>9, <1>10, <1>11, <1>12,
       <1>13, <1>14, <1>15, <1>16, <1>17, <1>18, <1>19, <1>20, <1>21, <1>22
       DEF Next, Proceed, Receive, Ordered

\* ... what each client does, ...
LEMMA JobKept ==
    ASSUME Base, [Next]_vars
    PROVE  \A e \in Client : JobInv(e)'
<1>0. TypeOK /\ \A e \in Client : JobInv(e)
  BY DEF Base
<1>1. CASE Will
  BY <1>0, <1>1 DEF Will, JobInv, clientVars
<1>2. ASSUME NEW c \in Client, Unheard(c) PROVE \A e \in Client : JobInv(e)'
  BY <1>0, <1>2 DEF Unheard, clientVars, brokerVars, JobInv, TypeOK
<1>3. ASSUME NEW c \in Client, Unanswered(c) PROVE \A e \in Client : JobInv(e)'
  BY <1>0, <1>3 DEF Unanswered, Unasked, clientVars, brokerVars, JobInv, TypeOK
<1>4. ASSUME NEW c \in Client, Heard(c) PROVE \A e \in Client : JobInv(e)'
  <2> DEFINE n == CHOOSE n \in Nonce : Unused(n)
  <2>1. Head(down[c]).value = "online" => n \in Nonce /\ nonce' = [nonce EXCEPT ![c] = n]
    BY <1>4 DEF Heard
  <2> HIDE DEF n
  <2> QED BY <1>0, <1>4, <2>1, ProducerAssumption DEF Heard, JobInv, TypeOK
<1>5. ASSUME NEW c \in Client, Refused(c) PROVE \A e \in Client : JobInv(e)'
  BY <1>0, <1>5 DEF Refused, Took, Unasked, Leave, Say, clientVars, brokerVars, JobInv, TypeOK
<1>6. ASSUME NEW c \in Client, AnswerOffline(c) PROVE \A e \in Client : JobInv(e)'
  BY <1>0, <1>6 DEF AnswerOffline, Took, Say, clientVars, brokerVars, JobInv, TypeOK
<1>7. ASSUME NEW c \in Client, AnswerProbe(c) PROVE \A e \in Client : JobInv(e)'
  BY <1>0, <1>7 DEF AnswerProbe, Took, Say, clientVars, brokerVars, JobInv, TypeOK
<1>8. ASSUME NEW c \in Client, Ignore(c) PROVE \A e \in Client : JobInv(e)'
  BY <1>0, <1>8 DEF Ignore, JobInv, clientVars
<1>9. ASSUME NEW c \in Client, Run(c) PROVE \A e \in Client : JobInv(e)'
  BY <1>0, <1>9 DEF Run, Say, clientVars, brokerVars, JobInv, TypeOK
<1>10. ASSUME NEW c \in Client, Describe(c) PROVE \A e \in Client : JobInv(e)'
  BY <1>0, <1>10 DEF Describe, Say, clientVars, brokerVars, JobInv, TypeOK
<1>11. ASSUME NEW c \in Client, Read(c) PROVE \A e \in Client : JobInv(e)'
  BY <1>0, <1>11 DEF Read, clientVars, brokerVars, JobInv, TypeOK
<1>12. ASSUME NEW c \in Client, Clear(c) PROVE \A e \in Client : JobInv(e)'
  BY <1>0, <1>12 DEF Clear, Say, clientVars, brokerVars, JobInv, TypeOK
<1>13. ASSUME NEW c \in Client, Closed(c) PROVE \A e \in Client : JobInv(e)'
  BY <1>0, <1>13 DEF Closed, Gone, Silent, NoLongerAnswers, Unasked, clientVars, brokerVars, JobInv, TypeOK
<1>14. ASSUME NEW c \in Client, NEW task, NEW kind, Begin(c, task, kind),
                 \/ task = "serve" /\ kind = "start"
                 \/ task = "purge" /\ kind = "purge"
      PROVE  \A e \in Client : JobInv(e)'
  BY <1>0, <1>14 DEF Begin, Check, Say, clientVars, brokerVars, JobInv, TypeOK
<1>15. ASSUME NEW c \in Client, NEW kind \in {"stop", "restart"}, Stop(c, kind) PROVE \A e \in Client : JobInv(e)'
  BY <1>0, <1>15 DEF Stop, Silent, NoLongerAnswers, Leave, Say, clientVars, brokerVars, JobInv, TypeOK
<1>16. ASSUME NEW c \in Client, Retire(c) PROVE \A e \in Client : JobInv(e)'
  BY <1>0, <1>16 DEF Retire, Silent, NoLongerAnswers, Say, clientVars, brokerVars, JobInv, TypeOK
<1>17. ASSUME NEW c \in Client, Fail(c) PROVE \A e \in Client : JobInv(e)'
  BY <1>0, <1>17 DEF Fail, Unasked, Leave, Say, clientVars, brokerVars, JobInv, TypeOK
<1>18. ASSUME NEW c \in Client, Crash(c) PROVE \A e \in Client : JobInv(e)'
  BY <1>0, <1>18 DEF Crash, Gone, Silent, NoLongerAnswers, Unasked, clientVars, brokerVars, JobInv, TypeOK
<1>19. ASSUME NEW c \in Client, Drop(c) PROVE \A e \in Client : JobInv(e)'
  BY <1>0, <1>19 DEF Drop, clientVars, brokerVars, JobInv, TypeOK
<1>20. ASSUME NEW c \in Client, Broker(c) PROVE \A e \in Client : JobInv(e)'
  BY <1>0, <1>20 DEF Broker, JobInv, clientVars
<1>21. ASSUME NEW c \in Client, Reconnect(c) PROVE \A e \in Client : JobInv(e)'
  BY <1>0, <1>21 DEF Reconnect, JobInv, clientVars
<1>22. CASE UNCHANGED vars
  BY <1>0, <1>22 DEF vars, clientVars, brokerVars, JobInv, TypeOK
<1> QED BY <1>0, <1>1, <1>2, <1>3, <1>4, <1>5, <1>6, <1>7, <1>8, <1>9, <1>10, <1>11, <1>12,
       <1>13, <1>14, <1>15, <1>16, <1>17, <1>18, <1>19, <1>20, <1>21, <1>22
       DEF Next, Proceed, Receive, Ordered

\* A client that says something says what may be said.
LEMMA Worded ==
    ASSUME Base, NEW c \in Client, NEW msgs \in Seq(Up), Say(c, msgs),
           \A m \in ToSet(msgs) :
             /\ m.op = "pub" /\ m.topic = "presence" => m.value \in {"online", "offline", NONE}
             /\ m.topic = "flush" => pc'[c] = "flush" /\ (m.op = "pub" => m.value = c),
           Once(msgs, PubFlush(c)), pc[c] = "flush" => PubFlush(c) \notin ToSet(msgs),
           pc[c] = "flush" => pc'[c] = "flush", ToSet(down'[c]) \subseteq ToSet(down[c])
    PROVE  WordInv(c)'
<1>0. TypeOK /\ WordInv(c)
  BY DEF Base
<1>1. up'[c] = up[c] \o msgs /\ ToSet(up'[c]) = ToSet(up[c]) \cup ToSet(msgs) /\ up[c] \in Seq(Up)
  BY <1>0, Saying DEF TypeOK
<1>2. Once(up'[c], PubFlush(c))
  <2>1. CASE pc[c] = "flush"
    BY ZenonT(60), <1>0, <1>1, <2>1, InOrder DEF WordInv
  <2>2. CASE pc[c] # "flush"
    <3>1. PubFlush(c) \notin ToSet(up[c])
      BY <1>0, <2>2 DEF WordInv, PubFlush, Pub
    <3> QED BY <1>1, <3>1, InOrder
  <2> QED BY <2>1, <2>2
<1>3. News("flush", c) \in ToSet(down'[c]) => PubFlush(c) \notin ToSet(up'[c])
  BY <1>0, <1>1 DEF WordInv, News
<1> QED BY <1>0, <1>1, <1>2, <1>3 DEF WordInv

\* Who says nothing and hears nothing new has said and heard no other.
LEMMA SameWords ==
    ASSUME NEW e \in Client, WordInv(e), up'[e] = up[e], ToSet(down'[e]) \subseteq ToSet(down[e]),
           pc[e] = "flush" => pc'[e] = "flush"
    PROVE  WordInv(e)'
BY DEF WordInv, PubFlush

\* Who says nothing new and hears nothing wrong has said and heard no other.
LEMMA NewsWords ==
    ASSUME NEW e \in Client, WordInv(e), ToSet(up'[e]) \subseteq ToSet(up[e]), Once(up'[e], PubFlush(e)),
           pc[e] = "flush" => pc'[e] = "flush",
           \A x \in ToSet(down'[e]) \ ToSet(down[e]) :
             /\ x.retained => x.topic = "presence"
             /\ x.topic = "flush" => pc'[e] = "flush" /\ x.value = e /\ PubFlush(e) \notin ToSet(up'[e])
    PROVE  WordInv(e)'
<1>1. \A x \in ToSet(down'[e]) : /\ x.retained => x.topic = "presence"
                                 /\ x.topic = "flush" => pc'[e] = "flush" /\ x.value = e
  BY DEF WordInv
<1>2. News("flush", e) \in ToSet(down'[e]) => PubFlush(e) \notin ToSet(up'[e])
  BY DEF WordInv, News
<1>3. \A m \in ToSet(up'[e]) :
         /\ m.op = "pub" /\ m.topic = "presence" => m.value \in {"online", "offline", NONE}
         /\ m.topic = "flush" => pc'[e] = "flush" /\ (m.op = "pub" => m.value = e)
  BY DEF WordInv
<1> QED BY <1>1, <1>2, <1>3 DEF WordInv, PubFlush, News

\* ... and what may be under way.
LEMMA WordKept ==
    ASSUME Base, [Next]_vars
    PROVE  \A e \in Client : WordInv(e)'
<1>0. Base /\ TypeOK /\ \A e \in Client : WordInv(e) /\ LinkInv(e) /\ JobInv(e)
  BY DEF Base
<1>1. CASE Will
  <2>1. \A e \in Client : ToSet(down'[e]) = ToSet(down[e]) \cup {News("presence", "offline")} \/ down'[e] = down[e]
    BY <1>0, <1>1, Delivering DEF Will, Topic, Value
  <2>2. up' = up /\ pc' = pc
    BY <1>1 DEF Will, clientVars
  <2>3. \A e \in Client : \A x \in ToSet(down'[e]) \ ToSet(down[e]) : ~x.retained /\ x.topic = "presence"
    BY <2>1 DEF News
  <2>4. \A e \in Client : Once(up'[e], PubFlush(e)) /\ ToSet(up'[e]) = ToSet(up[e]) /\ pc'[e] = pc[e]
    BY <1>0, <2>2 DEF WordInv
  <2> QED BY <1>0, <2>3, <2>4, NewsWords
<1>2. ASSUME NEW c \in Client, Unheard(c) PROVE \A e \in Client : WordInv(e)'
  <2>1. \A e \in Client : up'[e] = up[e] /\ ToSet(down'[e]) \subseteq ToSet(down[e]) /\ (pc[e] = "flush" => pc'[e] = "flush")
    BY <1>0, <1>2 DEF Unheard, TypeOK, clientVars, brokerVars
  <2> QED BY <1>0, <2>1, SameWords
<1>3. ASSUME NEW c \in Client, Unanswered(c) PROVE \A e \in Client : WordInv(e)'
  <2>1. \A e \in Client : up'[e] = up[e] /\ ToSet(down'[e]) \subseteq ToSet(down[e]) /\ (pc[e] = "flush" => pc'[e] = "flush")
    BY <1>0, <1>3 DEF Unanswered, TypeOK, clientVars, brokerVars
  <2> QED BY <1>0, <2>1, SameWords
<1>4. ASSUME NEW c \in Client, Heard(c) PROVE \A e \in Client : WordInv(e)'
  <2>1. ToSet(down'[c]) \subseteq ToSet(down[c]) /\ \A e \in Client \ {c} : down'[e] = down[e]
    BY <1>0, <1>4, Taking DEF Heard, Took
  <2>2. \A e \in Client : pc[e] = "flush" => pc'[e] = "flush"
    BY <1>0, <1>4 DEF Heard, TypeOK
  <2>3. CASE up' = up
    BY <1>0, <2>1, <2>2, <2>3, SameWords
  <2>4. ASSUME NEW n \in Nonce, Say(c, <<Sub("alive"), Pub("probe", n)>>) PROVE \A e \in Client : WordInv(e)'
    <3> DEFINE msgs == <<Sub("alive"), Pub("probe", n)>>
    <3>1. Sub("alive") \in Up /\ Pub("probe", n) \in Up
      BY Words DEF Topic, Value
    <3>2. msgs \in Seq(Up) /\ \A m \in ToSet(msgs) : m.topic \in {"alive", "probe"}
      BY <3>1, Listed DEF Sub, Pub
    <3>3. Once(msgs, PubFlush(c)) /\ PubFlush(c) \notin ToSet(msgs)
      BY <3>2 DEF Once, ToSet, PubFlush, Pub
    <3> HIDE DEF msgs
    <3>4. WordInv(c)'
      BY <1>0, <2>1, <2>2, <2>4, <3>2, <3>3, Worded DEF msgs
    <3>5. \A e \in Client \ {c} : up'[e] = up[e]
      BY <1>0, <2>4 DEF Say, TypeOK
    <3> QED BY <1>0, <2>1, <2>2, <3>4, <3>5, SameWords
  <2>5. Head(down[c]).value = "online" =>
          \E n \in Nonce : Say(c, <<Sub("alive"), Pub("probe", n)>>)
    <3> SUFFICES ASSUME Head(down[c]).value = "online"
                 PROVE  \E n \in Nonce : Say(c, <<Sub("alive"), Pub("probe", n)>>)
      OBVIOUS
    <3> DEFINE n == CHOOSE n \in Nonce : Unused(n)
    <3>1. n \in Nonce /\ nonce' = [nonce EXCEPT ![c] = n]
      BY <1>4 DEF Heard
    <3>2. nonce'[c] = n
      BY <1>0, <3>1 DEF TypeOK
    <3> HIDE DEF n
    <3> QED BY <1>4, <3>1, <3>2 DEF Heard
  <2> QED BY <1>4, <2>3, <2>4, <2>5 DEF Heard
<1>5. ASSUME NEW c \in Client, Refused(c) PROVE \A e \in Client : WordInv(e)'
  <2>1. ToSet(down'[c]) \subseteq ToSet(down[c]) /\ \A e \in Client \ {c} : down'[e] = down[e]
    BY <1>0, <1>5, Taking DEF Refused, Took
  <2>2. offline' \in [Client -> BOOLEAN]
    BY <1>0, <1>5 DEF Refused, TypeOK
  <2>3. PICK msgs \in Seq(Up) :
          /\ Say(c, msgs)
          /\ \/ offline'[c] /\ msgs = <<PubOffline, Sub("flush"), PubFlush(c)>>
             \/ ~offline'[c] /\ msgs = <<Sub("flush"), PubFlush(c)>>
    BY <1>0, <1>5, <2>2, Leaving DEF Refused
  <2>4. /\ \A m \in ToSet(msgs) :
             /\ m.op = "pub" /\ m.topic = "presence" => m.value \in {"offline", NONE}
             /\ m.topic = "flush" /\ m.op = "pub" => m.value = c
        /\ Once(msgs, PubFlush(c))
    <3>1. Once(msgs, PubFlush(c))
      BY <2>3 DEF Once, PubFlush, PubOffline, Sub, Pub
    <3> QED BY <2>3, <3>1, Listed DEF PubFlush, PubOffline, Sub, Pub
  <2>5. pc[c] # "flush" /\ pc'[c] = "flush"
    BY <1>0, <1>5 DEF Refused, Leave, TypeOK
  <2>6. WordInv(c)'
    <3>1. \A m \in ToSet(msgs) :
             /\ m.op = "pub" /\ m.topic = "presence" => m.value \in {"online", "offline", NONE}
             /\ m.topic = "flush" => pc'[c] = "flush" /\ (m.op = "pub" => m.value = c)
      BY <2>4, <2>5
    <3> QED BY <1>0, <2>1, <2>3, <2>4, <2>5, <3>1, Worded
  <2>7. \A e \in Client \ {c} : up'[e] = up[e] /\ pc'[e] = pc[e]
    BY <1>0, <1>5, <2>3 DEF Refused, Leave, Say, TypeOK
  <2> QED BY <1>0, <2>1, <2>6, <2>7, SameWords
<1>6. ASSUME NEW c \in Client, AnswerOffline(c) PROVE \A e \in Client : WordInv(e)'
  <2>1. ToSet(down'[c]) \subseteq ToSet(down[c])
    BY <1>0, <1>6, Taking DEF AnswerOffline, Took
  <2> DEFINE msgs == <<Pub("presence", "online")>>
  <2>2. msgs \in Seq(Up) /\ Say(c, msgs)
    BY <1>6, Words DEF AnswerOffline, Topic, Value
  <2>3. \A m \in ToSet(msgs) : m.topic # "flush" /\ (m.op = "pub" /\ m.topic = "presence" => m.value \in {"online", "offline"})
    BY Listed DEF Sub, Pub
  <2>4. Once(msgs, PubFlush(c)) /\ PubFlush(c) \notin ToSet(msgs)
    BY <2>3 DEF Once, ToSet, PubFlush, Pub
  <2> HIDE DEF msgs
  <2>5. pc[c] = "flush" => pc'[c] = "flush"
    BY <1>0, <1>6 DEF AnswerOffline, clientVars
  <2>6. WordInv(c)'
    BY <1>0, <2>1, <2>2, <2>3, <2>4, <2>5, Worded
  <2>7. \A e \in Client \ {c} : up'[e] = up[e] /\ down'[e] = down[e] /\ pc'[e] = pc[e]
    BY <1>0, <1>6 DEF AnswerOffline, Say, clientVars, TypeOK, Took
  <2> QED BY <1>0, <2>6, <2>7, SameWords
<1>7. ASSUME NEW c \in Client, AnswerProbe(c) PROVE \A e \in Client : WordInv(e)'
  <2>1. ToSet(down'[c]) \subseteq ToSet(down[c])
    BY <1>0, <1>7, Taking DEF AnswerProbe, Took
  <2> DEFINE msgs == <<Pub("alive", Head(down[c]).value)>>
  <2>2. msgs \in Seq(Up) /\ Say(c, msgs)
    <3>1. Head(down[c]) \in Down
      BY <1>0, <1>7, Taking DEF AnswerProbe, Took
    <3>2. Head(down[c]).value \in Value /\ "alive" \in Topic
      BY <3>1 DEF Down, Topic
    <3>3. Pub("alive", Head(down[c]).value) \in Up
      BY <3>2, Words
    <3> QED BY <1>7, <3>3 DEF AnswerProbe
  <2>3. \A m \in ToSet(msgs) : m.topic # "flush" /\ (m.op = "pub" /\ m.topic = "presence" => m.value \in {"online", "offline"})
    BY Listed DEF Sub, Pub
  <2>4. Once(msgs, PubFlush(c)) /\ PubFlush(c) \notin ToSet(msgs)
    BY <2>3 DEF Once, ToSet, PubFlush, Pub
  <2> HIDE DEF msgs
  <2>5. pc[c] = "flush" => pc'[c] = "flush"
    BY <1>0, <1>7 DEF AnswerProbe, clientVars
  <2>6. WordInv(c)'
    BY <1>0, <2>1, <2>2, <2>3, <2>4, <2>5, Worded
  <2>7. \A e \in Client \ {c} : up'[e] = up[e] /\ down'[e] = down[e] /\ pc'[e] = pc[e]
    BY <1>0, <1>7 DEF AnswerProbe, Say, clientVars, TypeOK, Took
  <2> QED BY <1>0, <2>6, <2>7, SameWords
<1>8. ASSUME NEW c \in Client, Ignore(c) PROVE \A e \in Client : WordInv(e)'
  <2>1. \A e \in Client : up'[e] = up[e] /\ ToSet(down'[e]) \subseteq ToSet(down[e]) /\ (pc[e] = "flush" => pc'[e] = "flush")
    BY <1>0, <1>8, Taking DEF Ignore, TypeOK, clientVars, brokerVars
  <2> QED BY <1>0, <2>1, SameWords
<1>9. ASSUME NEW c \in Client, Run(c) PROVE \A e \in Client : WordInv(e)'
  <2>1. down' = down
    BY <1>9 DEF Run
  <2> DEFINE msgs == <<Sub("presence"), Sub("probe"), Pub("presence", "online")>>
  <2>2. msgs \in Seq(Up) /\ Say(c, msgs)
    BY <1>9, Words DEF Run, Topic, Value
  <2>3. \A m \in ToSet(msgs) : m.topic # "flush" /\ (m.op = "pub" /\ m.topic = "presence" => m.value \in {"online", "offline"})
    BY Listed DEF Sub, Pub
  <2>4. Once(msgs, PubFlush(c)) /\ PubFlush(c) \notin ToSet(msgs)
    BY <2>3 DEF Once, ToSet, PubFlush, Pub
  <2> HIDE DEF msgs
  <2>5. pc[c] = "flush" => pc'[c] = "flush"
    BY <1>0, <1>9 DEF Run, clientVars
  <2>6. WordInv(c)'
    BY <1>0, <2>1, <2>2, <2>3, <2>4, <2>5, Worded
  <2>7. \A e \in Client \ {c} : up'[e] = up[e] /\ down'[e] = down[e] /\ pc'[e] = pc[e]
    BY <1>0, <1>9 DEF Run, Say, clientVars, TypeOK, Took
  <2> QED BY <1>0, <2>6, <2>7, SameWords
<1>10. ASSUME NEW c \in Client, Describe(c) PROVE \A e \in Client : WordInv(e)'
  <2>1. down' = down
    BY <1>10 DEF Describe
  <2> DEFINE msgs == <<Pub("devices", "shown")>>
  <2>2. msgs \in Seq(Up) /\ Say(c, msgs)
    BY <1>10, Words DEF Describe, Topic, Value
  <2>3. \A m \in ToSet(msgs) : m.topic # "flush" /\ (m.op = "pub" /\ m.topic = "presence" => m.value \in {"online", "offline"})
    BY Listed DEF Sub, Pub
  <2>4. Once(msgs, PubFlush(c)) /\ PubFlush(c) \notin ToSet(msgs)
    BY <2>3 DEF Once, ToSet, PubFlush, Pub
  <2> HIDE DEF msgs
  <2>5. pc[c] = "flush" => pc'[c] = "flush"
    BY <1>0, <1>10 DEF Describe, clientVars
  <2>6. WordInv(c)'
    BY <1>0, <2>1, <2>2, <2>3, <2>4, <2>5, Worded
  <2>7. \A e \in Client \ {c} : up'[e] = up[e] /\ down'[e] = down[e] /\ pc'[e] = pc[e]
    BY <1>0, <1>10 DEF Describe, Say, clientVars, TypeOK, Took
  <2> QED BY <1>0, <2>6, <2>7, SameWords
<1>11. ASSUME NEW c \in Client, Read(c) PROVE \A e \in Client : WordInv(e)'
  <2>1. \A e \in Client : up'[e] = up[e] /\ ToSet(down'[e]) \subseteq ToSet(down[e]) /\ (pc[e] = "flush" => pc'[e] = "flush")
    BY <1>0, <1>11 DEF Read, TypeOK, clientVars, brokerVars
  <2> QED BY <1>0, <2>1, SameWords
<1>12. ASSUME NEW c \in Client, Clear(c) PROVE \A e \in Client : WordInv(e)'
  <2>1. ToSet(down'[c]) \subseteq ToSet(down[c]) /\ \A e \in Client \ {c} : down'[e] = down[e]
    BY <1>12 DEF Clear
  <2>3. PICK msgs \in Seq(Up) :
          /\ Say(c, msgs)
          /\ \/ msgs = <<Pub("devices", NONE), Pub("presence", NONE), Sub("flush"), PubFlush(c)>>
             \/ msgs = <<Pub("presence", NONE), Sub("flush"), PubFlush(c)>>
    BY <1>0, <1>12, Clearing DEF Clear
  <2>4. /\ \A m \in ToSet(msgs) :
             /\ m.op = "pub" /\ m.topic = "presence" => m.value \in {"offline", NONE}
             /\ m.topic = "flush" /\ m.op = "pub" => m.value = c
        /\ Once(msgs, PubFlush(c))
    <3>1. Once(msgs, PubFlush(c))
      BY <2>3 DEF Once, PubFlush, PubOffline, Sub, Pub
    <3> QED BY <2>3, <3>1, Listed DEF PubFlush, PubOffline, Sub, Pub
  <2>5. pc[c] # "flush" /\ pc'[c] = "flush"
    BY <1>0, <1>12 DEF Clear, TypeOK
  <2>6. WordInv(c)'
    <3>1. \A m \in ToSet(msgs) :
             /\ m.op = "pub" /\ m.topic = "presence" => m.value \in {"online", "offline", NONE}
             /\ m.topic = "flush" => pc'[c] = "flush" /\ (m.op = "pub" => m.value = c)
      BY <2>4, <2>5
    <3> QED BY <1>0, <2>1, <2>3, <2>4, <2>5, <3>1, Worded
  <2>7. \A e \in Client \ {c} : up'[e] = up[e] /\ pc'[e] = pc[e]
    BY <1>0, <1>12, <2>3 DEF Clear, Say, TypeOK
  <2> QED BY <1>0, <2>1, <2>6, <2>7, SameWords
<1>13. ASSUME NEW c \in Client, Closed(c) PROVE \A e \in Client : WordInv(e)'
  <2>1. up'[c] = <<>> /\ down'[c] = <<>> /\ \A e \in Client \ {c} : up'[e] = up[e] /\ down'[e] = down[e] /\ pc'[e] = pc[e]
    BY <1>0, <1>13 DEF Closed, Gone, TypeOK
  <2>2. WordInv(c)'
    BY <2>1, Listed DEF WordInv, Once
  <2> QED BY <1>0, <2>1, <2>2, SameWords
<1>14. ASSUME NEW c \in Client, NEW task, NEW kind, Begin(c, task, kind),
                 \/ task = "serve" /\ kind = "start"
                 \/ task = "purge" /\ kind = "purge"
      PROVE  \A e \in Client : WordInv(e)'
  <2>1. down' = down
    BY <1>14 DEF Begin
  <2> DEFINE msgs == <<Sub("presence")>>
  <2>2. msgs \in Seq(Up) /\ Say(c, msgs)
    BY <1>14, Words DEF Begin, Topic, Value
  <2>3. \A m \in ToSet(msgs) : m.topic # "flush" /\ (m.op = "pub" /\ m.topic = "presence" => m.value \in {"online", "offline"})
    BY Listed DEF Sub, Pub
  <2>4. Once(msgs, PubFlush(c)) /\ PubFlush(c) \notin ToSet(msgs)
    BY <2>3 DEF Once, ToSet, PubFlush, Pub
  <2> HIDE DEF msgs
  <2>5. pc[c] = "flush" => pc'[c] = "flush"
    BY <1>0, <1>14 DEF Begin, clientVars, Check
  <2>6. WordInv(c)'
    BY <1>0, <2>1, <2>2, <2>3, <2>4, <2>5, Worded
  <2>7. \A e \in Client \ {c} : up'[e] = up[e] /\ down'[e] = down[e] /\ pc'[e] = pc[e]
    BY <1>0, <1>14 DEF Begin, Say, clientVars, TypeOK, Check, Took
  <2> QED BY <1>0, <2>6, <2>7, SameWords
<1>15. ASSUME NEW c \in Client, NEW kind \in {"stop", "restart"}, Stop(c, kind) PROVE \A e \in Client : WordInv(e)'
  <2>1. ToSet(down'[c]) \subseteq ToSet(down[c]) /\ \A e \in Client \ {c} : down'[e] = down[e]
    BY <1>15 DEF Stop
  <2>2. offline' \in [Client -> BOOLEAN]
    BY <1>0, <1>15 DEF Stop, TypeOK
  <2>3. PICK msgs \in Seq(Up) :
          /\ Say(c, msgs)
          /\ \/ offline'[c] /\ msgs = <<PubOffline, Sub("flush"), PubFlush(c)>>
             \/ ~offline'[c] /\ msgs = <<Sub("flush"), PubFlush(c)>>
    BY <1>0, <1>15, <2>2, Leaving DEF Stop
  <2>4. /\ \A m \in ToSet(msgs) :
             /\ m.op = "pub" /\ m.topic = "presence" => m.value \in {"offline", NONE}
             /\ m.topic = "flush" /\ m.op = "pub" => m.value = c
        /\ Once(msgs, PubFlush(c))
    <3>1. Once(msgs, PubFlush(c))
      BY <2>3 DEF Once, PubFlush, PubOffline, Sub, Pub
    <3> QED BY <2>3, <3>1, Listed DEF PubFlush, PubOffline, Sub, Pub
  <2>5. pc[c] # "flush" /\ pc'[c] = "flush"
    BY <1>0, <1>15 DEF Stop, Leave, TypeOK
  <2>6. WordInv(c)'
    <3>1. \A m \in ToSet(msgs) :
             /\ m.op = "pub" /\ m.topic = "presence" => m.value \in {"online", "offline", NONE}
             /\ m.topic = "flush" => pc'[c] = "flush" /\ (m.op = "pub" => m.value = c)
      BY <2>4, <2>5
    <3> QED BY <1>0, <2>1, <2>3, <2>4, <2>5, <3>1, Worded
  <2>7. \A e \in Client \ {c} : up'[e] = up[e] /\ pc'[e] = pc[e]
    BY <1>0, <1>15, <2>3 DEF Stop, Leave, Say, TypeOK
  <2> QED BY <1>0, <2>1, <2>6, <2>7, SameWords
<1>16. ASSUME NEW c \in Client, Retire(c) PROVE \A e \in Client : WordInv(e)'
  <2>1. down' = down
    BY <1>16 DEF Retire
  <2> DEFINE msgs == <<Pub("presence", "offline"), Sub("presence")>>
  <2>2. msgs \in Seq(Up) /\ Say(c, msgs)
    BY <1>16, Words DEF Retire, Topic, Value
  <2>3. \A m \in ToSet(msgs) : m.topic # "flush" /\ (m.op = "pub" /\ m.topic = "presence" => m.value \in {"online", "offline"})
    BY Listed DEF Sub, Pub
  <2>4. Once(msgs, PubFlush(c)) /\ PubFlush(c) \notin ToSet(msgs)
    BY <2>3 DEF Once, ToSet, PubFlush, Pub
  <2> HIDE DEF msgs
  <2>5. pc[c] = "flush" => pc'[c] = "flush"
    BY <1>0, <1>16 DEF Retire, clientVars
  <2>6. WordInv(c)'
    BY <1>0, <2>1, <2>2, <2>3, <2>4, <2>5, Worded
  <2>7. \A e \in Client \ {c} : up'[e] = up[e] /\ down'[e] = down[e] /\ pc'[e] = pc[e]
    BY <1>0, <1>16 DEF Retire, Say, clientVars, TypeOK, Took
  <2> QED BY <1>0, <2>6, <2>7, SameWords
<1>17. ASSUME NEW c \in Client, Fail(c) PROVE \A e \in Client : WordInv(e)'
  <2>1. ToSet(down'[c]) \subseteq ToSet(down[c]) /\ \A e \in Client \ {c} : down'[e] = down[e]
    BY <1>17 DEF Fail
  <2>2. offline' \in [Client -> BOOLEAN]
    BY <1>0, <1>17 DEF Fail, TypeOK
  <2>3. PICK msgs \in Seq(Up) :
          /\ Say(c, msgs)
          /\ \/ offline'[c] /\ msgs = <<PubOffline, Sub("flush"), PubFlush(c)>>
             \/ ~offline'[c] /\ msgs = <<Sub("flush"), PubFlush(c)>>
    BY <1>0, <1>17, <2>2, Leaving DEF Fail
  <2>4. /\ \A m \in ToSet(msgs) :
             /\ m.op = "pub" /\ m.topic = "presence" => m.value \in {"offline", NONE}
             /\ m.topic = "flush" /\ m.op = "pub" => m.value = c
        /\ Once(msgs, PubFlush(c))
    <3>1. Once(msgs, PubFlush(c))
      BY <2>3 DEF Once, PubFlush, PubOffline, Sub, Pub
    <3> QED BY <2>3, <3>1, Listed DEF PubFlush, PubOffline, Sub, Pub
  <2>5. pc[c] # "flush" /\ pc'[c] = "flush"
    BY <1>0, <1>17 DEF Fail, Leave, TypeOK
  <2>6. WordInv(c)'
    <3>1. \A m \in ToSet(msgs) :
             /\ m.op = "pub" /\ m.topic = "presence" => m.value \in {"online", "offline", NONE}
             /\ m.topic = "flush" => pc'[c] = "flush" /\ (m.op = "pub" => m.value = c)
      BY <2>4, <2>5
    <3> QED BY <1>0, <2>1, <2>3, <2>4, <2>5, <3>1, Worded
  <2>7. \A e \in Client \ {c} : up'[e] = up[e] /\ pc'[e] = pc[e]
    BY <1>0, <1>17, <2>3 DEF Fail, Leave, Say, TypeOK
  <2> QED BY <1>0, <2>1, <2>6, <2>7, SameWords
<1>18. ASSUME NEW c \in Client, Crash(c) PROVE \A e \in Client : WordInv(e)'
  <2>1. up'[c] = <<>> /\ down'[c] = <<>> /\ \A e \in Client \ {c} : up'[e] = up[e] /\ down'[e] = down[e] /\ pc'[e] = pc[e]
    BY <1>0, <1>18 DEF Crash, Gone, TypeOK
  <2>2. WordInv(c)'
    BY <2>1, Listed DEF WordInv, Once
  <2> QED BY <1>0, <2>1, <2>2, SameWords
<1>19. ASSUME NEW c \in Client, Drop(c) PROVE \A e \in Client : WordInv(e)'
  <2>1. \A e \in Client : up'[e] = up[e] /\ pc'[e] = pc[e] /\ (down'[e] = down[e] \/ down'[e] = <<>>)
    BY <1>0, <1>19 DEF Drop, TypeOK, clientVars
  <2>2. \A e \in Client : ToSet(down'[e]) \subseteq ToSet(down[e])
    BY <2>1, Listed
  <2> QED BY <1>0, <2>1, <2>2, SameWords
<1>20. ASSUME NEW c \in Client, Broker(c) PROVE \A e \in Client : WordInv(e)'
  <2> DEFINE m == Head(up[c])
  <2>1. /\ m.topic \in Topic /\ m.value \in Value /\ m \in Up /\ up[c] \in Seq(Up) /\ up[c] # <<>>
        /\ ToSet(up[c]) = {m} \cup ToSet(up'[c]) /\ up'[c] = Tail(up[c])
        /\ \A e \in Client \ {c} : up'[e] = up[e]
        /\ \/ m.op = "sub" /\ Subscribed(c, m.topic)
           \/ m.op = "pub" /\ Deliver(m.topic, m.value)
        /\ pc' = pc
    BY <1>0, <1>20, Brokering DEF Broker, clientVars
  <2>2. \A e \in Client : /\ ToSet(up'[e]) \subseteq ToSet(up[e]) /\ Once(up'[e], PubFlush(e))
                          /\ e = c /\ m = PubFlush(c) => PubFlush(c) \notin ToSet(up'[c])
    <3>1. Once(up'[c], PubFlush(c)) /\ (m = PubFlush(c) => PubFlush(c) \notin ToSet(up'[c]))
      BY <1>0, <2>1, TakenInOrder DEF WordInv
    <3> QED BY <1>0, <2>1, <3>1 DEF WordInv
  <2> HIDE DEF m
  <2>3. CASE m.op = "sub" /\ Subscribed(c, m.topic)
    <3>1. \A e \in Client : down'[e] = down[e] \/ ToSet(down'[e]) = ToSet(down[e]) \cup {Kept(presence)}
      BY <1>0, <2>1, <2>3, Subscribing
    <3>2. \A e \in Client : \A x \in ToSet(down'[e]) \ ToSet(down[e]) : x.topic = "presence"
      BY <3>1 DEF Kept
    <3> QED BY <1>0, <2>1, <2>2, <3>2, NewsWords
  <2>4. CASE m.op = "pub" /\ Deliver(m.topic, m.value)
    <3>1. \A e \in Client : \/ down'[e] = down[e]
                            \/ /\ ToSet(down'[e]) = ToSet(down[e]) \cup {News(m.topic, m.value)}
                               /\ m.topic = "flush" => m.value = e
      <4> DEFINE t == m.topic
                 v == m.value
      <4>1. t \in Topic /\ v \in Value /\ Deliver(t, v)
        BY <2>1, <2>4
      <4> HIDE DEF t, v
      <4>2. \A e \in Client : \/ down'[e] = down[e]
                              \/ /\ ToSet(down'[e]) = ToSet(down[e]) \cup {News(t, v)}
                                 /\ t = "flush" => v = e
        <5>1. TypeOK
          BY <1>0
        <5> QED BY <4>1, <5>1, Delivering
      <4> QED BY <4>2 DEF t, v
    <3>2. m.topic = "flush" => m.value = c /\ m = PubFlush(c) /\ pc[c] = "flush"
      <4>1. m.topic = "flush" => m.value = c /\ pc[c] = "flush"
        <5>1. m \in ToSet(up[c])
          BY <2>1
        <5>2. WordInv(c)
          BY <1>0
        <5> QED BY <2>4, <5>1, <5>2 DEF WordInv
      <4>2. m.topic = "flush" => m = PubFlush(c)
        BY <2>1, <2>4, <4>1 DEF PubFlush, Pub, Up
      <4> QED BY <4>1, <4>2
    <3>3. \A e \in Client : \A x \in ToSet(down'[e]) \ ToSet(down[e]) :
             ~x.retained /\ (x.topic = "flush" => e = c /\ x.value = e /\ pc[c] = "flush" /\ m = PubFlush(c))
      BY <3>1, <3>2 DEF News
    <3>4. \A e \in Client : \A x \in ToSet(down'[e]) \ ToSet(down[e]) :
             /\ ~x.retained
             /\ x.topic = "flush" => pc'[e] = "flush" /\ x.value = e /\ PubFlush(e) \notin ToSet(up'[e])
      BY <2>1, <2>2, <3>3
    <3> QED BY <1>0, <2>1, <2>2, <3>4, NewsWords
  <2> QED BY <2>1, <2>3, <2>4
<1>21. ASSUME NEW c \in Client, Reconnect(c) PROVE \A e \in Client : WordInv(e)'
  <2> DEFINE a == Listens(c)
             q == Queued(up[c])
  <2>1. PICK more \in Seq(Up) :
          /\ up'[c] = (a \o q) \o more /\ ToSet(up'[c]) = (ToSet(a) \cup ToSet(q)) \cup ToSet(more)
          /\ q \in Seq(Up) /\ \A e \in Client \ {c} : up'[e] = up[e]
          /\ more = <<>> \/ more = <<PubOnline>> \/ more = <<PubOnline, Pub("devices", "shown")>>
    BY <1>0, <1>21, Reconnecting
  <2>2. \A m \in ToSet(more) : m.topic # "flush" /\ (m.topic = "presence" => m.value = "online")
    BY <2>1, Listed DEF PubOnline, Pub
  <2>3. ToSet(q) \subseteq ToSet(up[c]) /\ Once(q, PubFlush(c))
    BY <1>0, Requeued DEF TypeOK, WordInv
  <2>4. a \in Seq(Up) /\ \A m \in ToSet(a) : m.op = "sub" /\ (m.topic = "flush" => pc[c] = "flush")
    BY Listening
  <2> HIDE DEF a, q
  <2>5. PubFlush(c) \notin ToSet(a) /\ PubFlush(c) \notin ToSet(more)
    BY <2>2, <2>4 DEF PubFlush, Pub
  <2>6. a \o q \in Seq(Up) /\ Once(a \o q, PubFlush(c))
    BY <2>1, <2>3, <2>4, <2>5, Joined, InOrder
  <2>7. Once(up'[c], PubFlush(c))
    BY <2>1, <2>5, <2>6, InOrder
  <2>8. pc' = pc /\ down' = down /\ down[c] = <<>> /\ ToSet(down[c]) = {}
    BY <1>0, <1>21, Listed DEF Reconnect, clientVars, LinkInv
  <2>9. WordInv(c)'
    BY <1>0, <2>1, <2>2, <2>3, <2>4, <2>7, <2>8 DEF WordInv
  <2> QED BY <1>0, <2>1, <2>8, <2>9, SameWords
<1>22. CASE UNCHANGED vars
  <2>1. \A e \in Client : up'[e] = up[e] /\ ToSet(down'[e]) \subseteq ToSet(down[e]) /\ (pc[e] = "flush" => pc'[e] = "flush")
    BY <1>0, <1>22 DEF vars, TypeOK, clientVars, brokerVars
  <2> QED BY <1>0, <2>1, SameWords
<1> QED BY <1>0, <1>1, <1>2, <1>3, <1>4, <1>5, <1>6, <1>7, <1>8, <1>9, <1>10, <1>11, <1>12,
       <1>13, <1>14, <1>15, <1>16, <1>17, <1>18, <1>19, <1>20, <1>21, <1>22
       DEF Next, Proceed, Receive, Ordered

\* Types, connections, jobs and words together.
LEMMA BaseKept ==
    ASSUME Base, [Next]_vars
    PROVE  Base'
BY TypeKept, LinkKept, JobKept, WordKept DEF Base

\* What a client does is its own: others may only stop counting on it.
LEMMA OwnStep ==
    ASSUME TypeOK, NEW c \in Client, Proceed(c) \/ Ordered(c) \/ Reconnect(c)
    PROVE  /\ presence' = presence /\ shown' = shown
           /\ \A e \in Client \ {c} :
                /\ pc'[e] = pc[e] /\ job'[e] = job[e] /\ nonce'[e] = nonce[e] /\ found'[e] = found[e]
                /\ link'[e] = link[e] /\ up'[e] = up[e] /\ down'[e] = down[e] /\ subs'[e] = subs[e]
                /\ answering'[e] \in {answering[e], answering[e] \ {c}}
<1> DEFINE Own ==
      /\ presence' = presence /\ shown' = shown
      /\ \A e \in Client \ {c} :
           /\ pc'[e] = pc[e] /\ job'[e] = job[e] /\ nonce'[e] = nonce[e] /\ found'[e] = found[e]
           /\ link'[e] = link[e] /\ up'[e] = up[e] /\ down'[e] = down[e] /\ subs'[e] = subs[e]
           /\ answering'[e] \in {answering[e], answering[e] \ {c}}
<1>0. TypeOK
  OBVIOUS
<1>1. ASSUME Unheard(c) PROVE Own
  BY <1>0, <1>1 DEF Unheard, TypeOK, clientVars, brokerVars
<1>2. ASSUME Unanswered(c) PROVE Own
  BY <1>0, <1>2 DEF Unanswered, Unasked, TypeOK, clientVars, brokerVars
<1>3. ASSUME Heard(c) PROVE Own
  BY <1>0, <1>3 DEF Heard, Took, Say, TypeOK, clientVars, brokerVars
<1>4. ASSUME Refused(c) PROVE Own
  BY <1>0, <1>4 DEF Refused, Took, Leave, Say, Unasked, TypeOK, clientVars, brokerVars
<1>5. ASSUME AnswerOffline(c) PROVE Own
  BY <1>0, <1>5 DEF AnswerOffline, Took, Say, TypeOK, clientVars, brokerVars
<1>6. ASSUME AnswerProbe(c) PROVE Own
  BY <1>0, <1>6 DEF AnswerProbe, Took, Say, TypeOK, clientVars, brokerVars
<1>7. ASSUME Ignore(c) PROVE Own
  BY <1>0, <1>7 DEF Ignore, TypeOK, clientVars, brokerVars
<1>8. ASSUME Run(c) PROVE Own
  BY <1>0, <1>8 DEF Run, Say, TypeOK, clientVars, brokerVars
<1>9. ASSUME Describe(c) PROVE Own
  BY <1>0, <1>9 DEF Describe, Say, TypeOK, clientVars, brokerVars
<1>10. ASSUME Read(c) PROVE Own
  BY <1>0, <1>10 DEF Read, Unread, TypeOK, clientVars, brokerVars
<1>11. ASSUME Clear(c) PROVE Own
  BY <1>0, <1>11 DEF Clear, Say, TypeOK, clientVars, brokerVars
<1>12. ASSUME Closed(c) PROVE Own
  BY <1>0, <1>12 DEF Closed, Gone, Silent, NoLongerAnswers, Unasked, TypeOK, clientVars, brokerVars
<1>13. ASSUME NEW task, NEW kind, Begin(c, task, kind) PROVE Own
  BY <1>0, <1>13 DEF Begin, Check, Say, TypeOK, clientVars, brokerVars
<1>14. ASSUME NEW kind, Stop(c, kind) PROVE Own
  BY <1>0, <1>14 DEF Stop, Leave, Say, Silent, NoLongerAnswers, TypeOK, clientVars, brokerVars
<1>15. ASSUME Retire(c) PROVE Own
  BY <1>0, <1>15 DEF Retire, Say, Silent, NoLongerAnswers, TypeOK, clientVars, brokerVars
<1>16. ASSUME Fail(c) PROVE Own
  BY <1>0, <1>16 DEF Fail, Leave, Say, Unasked, TypeOK, clientVars, brokerVars
<1>17. ASSUME Crash(c) PROVE Own
  BY <1>0, <1>17 DEF Crash, Gone, Silent, NoLongerAnswers, Unasked, TypeOK, clientVars, brokerVars
<1>18. ASSUME Drop(c) PROVE Own
  BY <1>0, <1>18 DEF Drop, TypeOK, clientVars, brokerVars
<1>19. ASSUME Reconnect(c) PROVE Own
  BY <1>0, <1>19 DEF Reconnect, TypeOK, clientVars, brokerVars
<1> HIDE DEF Own
<1>20. Own
  BY <1>1, <1>2, <1>3, <1>4, <1>5, <1>6, <1>7, <1>8, <1>9, <1>10, <1>11, <1>12, <1>13, <1>14, <1>15, <1>16, <1>17, <1>18, <1>19 DEF Proceed, Receive, Ordered
<1> QED BY <1>20 DEF Own

\* The check that hears of a producer asks it, with a nonce of its own.
LEMMA Asked ==
    ASSUME TypeOK, NEW c \in Client, Heard(c)
    PROVE  \/ Head(down[c]).value # "online" /\ pc'[c] = "read" /\ up' = up /\ nonce' = nonce
           \/ /\ Head(down[c]).value = "online" /\ pc'[c] = "probe"
              /\ \E n \in Nonce : /\ Unused(n) /\ Say(c, <<Sub("alive"), Pub("probe", n)>>)
                                  /\ nonce'[c] = n
<1>1. CASE Head(down[c]).value # "online"
  BY <1>1 DEF Heard, TypeOK
<1>2. CASE Head(down[c]).value = "online"
  <2> DEFINE n == CHOOSE n \in Nonce : Unused(n)
  <2>1. n \in Nonce /\ Unused(n) /\ nonce' = [nonce EXCEPT ![c] = n]
    BY <1>2 DEF Heard
  <2>2. nonce'[c] = n
    BY <2>1 DEF TypeOK
  <2> HIDE DEF n
  <2>3. pc'[c] = "probe"
    BY <1>2 DEF Heard, TypeOK
  <2> QED BY <1>2, <2>1, <2>2, <2>3 DEF Heard
<1> QED BY <1>1, <1>2

(***************************************************************************)
(* Nothing but `online`, and no gap                                        *)
(***************************************************************************)
\* Who says nothing but `online` has said nothing else.
LEMMA GapSaying ==
    ASSUME TypeOK, NEW c \in Client, OnlyOnline(c), NEW msgs \in Seq(Up), Say(c, msgs),
           \A m \in ToSet(msgs) : m.op = "pub" /\ m.topic = "presence" => m.value = "online",
           job'[c] = "serve", link'[c] # "down"
    PROVE  OnlyOnline(c)'
<1>1. ToSet(up'[c]) = ToSet(up[c]) \cup ToSet(msgs)
  BY Saying
<1> QED BY <1>1 DEF OnlyOnline

\* Every step keeps it while nothing but starts and restarts happens.
LEMMA GapKept ==
    ASSUME Base, GapInv, [Next]_vars
    PROVE  GapInv'
<1> SUFFICES ASSUME OnlyRestarts'
             PROVE  ghosts' = 0 /\ \A c \in Client : OnlyOnline(c)'
  BY DEF GapInv
<1>0. TypeOK /\ \A c \in Client : LinkInv(c) /\ JobInv(c)
  BY DEF Base
<1>a. OnlyRestarts
  BY <1>0, Counting DEF OnlyRestarts
<1>b. ghosts = 0 /\ \A c \in Client : OnlyOnline(c)
  BY <1>a DEF GapInv
<1>c. ASSUME NEW kind \in {"purge", "stop", "retire", "fail", "crash", "drop"}, Spend(kind) PROVE FALSE
  <2>1. kind \in Kind \ {"start", "restart", "slow", "late"}
    BY DEF Kind
  <2>2. spent'[kind] # 0
    BY <1>0, <1>c, <2>1, Spent
  <2> QED BY <2>1, <2>2 DEF OnlyRestarts
<1>d. ASSUME NEW c \in Client, Proceed(c) \/ Ordered(c) \/ Reconnect(c), ghosts' = ghosts, OnlyOnline(c)'
      PROVE  ghosts' = 0 /\ \A e \in Client : OnlyOnline(e)'
  <2>1. \A e \in Client \ {c} : job'[e] = job[e] /\ link'[e] = link[e] /\ up'[e] = up[e]
    BY <1>0, <1>d, OwnStep
  <2> QED BY <1>b, <1>d, <2>1 DEF OnlyOnline
<1>1. CASE Will
  BY <1>b, <1>1 DEF Will
<1>2. ASSUME NEW c \in Client, Unheard(c) PROVE ghosts' = 0 /\ \A e \in Client : OnlyOnline(e)'
  <2>1. ghosts' = ghosts /\ OnlyOnline(c)'
    BY <1>0, <1>b, <1>2 DEF Unheard, OnlyOnline, TypeOK, clientVars, brokerVars
  <2> QED BY <1>d, <1>2, <2>1 DEF Proceed, Receive
<1>3. ASSUME NEW c \in Client, Unanswered(c) PROVE ghosts' = 0 /\ \A e \in Client : OnlyOnline(e)'
  <2>1. ghosts' = ghosts /\ OnlyOnline(c)'
    BY <1>0, <1>b, <1>3 DEF Unanswered, OnlyOnline, TypeOK, clientVars, brokerVars
  <2> QED BY <1>d, <1>3, <2>1 DEF Proceed, Receive
<1>4. ASSUME NEW c \in Client, Heard(c) PROVE ghosts' = 0 /\ \A e \in Client : OnlyOnline(e)'
  <2>0. ghosts' = ghosts /\ job'[c] = "serve" /\ link'[c] # "down"
    BY <1>0, <1>b, <1>4 DEF Heard, OnlyOnline
  <2>1. CASE up' = up
    <3>1. OnlyOnline(c)'
      BY <1>b, <2>0, <2>1 DEF OnlyOnline
    <3> QED BY <1>d, <1>4, <2>0, <3>1 DEF Proceed, Receive
  <2>2. ASSUME NEW n \in Nonce, Say(c, <<Sub("alive"), Pub("probe", n)>>) PROVE ghosts' = 0 /\ \A e \in Client : OnlyOnline(e)'
    <3> DEFINE msgs == <<Sub("alive"), Pub("probe", n)>>
    <3>1. Sub("alive") \in Up /\ Pub("probe", n) \in Up
      BY Words DEF Topic, Value
    <3>2. msgs \in Seq(Up) /\ \A m \in ToSet(msgs) : m.topic \in {"alive", "probe"}
      BY <3>1, Listed DEF Sub, Pub
    <3> HIDE DEF msgs
    <3>3. OnlyOnline(c)'
      BY <1>0, <1>b, <2>0, <2>2, <3>2, GapSaying DEF msgs
    <3> QED BY <1>d, <1>4, <2>0, <3>3 DEF Proceed, Receive
  <2> QED BY <1>0, <1>4, <2>1, <2>2, Asked
<1>5. ASSUME NEW c \in Client, Refused(c) PROVE ghosts' = 0 /\ \A e \in Client : OnlyOnline(e)'
  <2>1. offline' \in [Client -> BOOLEAN] /\ ~offline'[c] /\ ghosts' = ghosts /\ job'[c] = "serve" /\ link'[c] # "down"
    BY <1>0, <1>b, <1>5 DEF Refused, TypeOK, OnlyOnline
  <2>2. PICK msgs \in Seq(Up) : Say(c, msgs) /\ msgs = <<Sub("flush"), PubFlush(c)>>
    BY <1>0, <1>5, <2>1, Leaving DEF Refused
  <2>3. \A m \in ToSet(msgs) : m.topic = "flush"
    BY <2>2, Listed DEF Sub, Pub, PubFlush
  <2>4. OnlyOnline(c)'
    BY <1>0, <1>b, <2>1, <2>2, <2>3, GapSaying
  <2> QED BY <1>d, <1>5, <2>1, <2>4 DEF Proceed, Receive, Ordered
<1>6. ASSUME NEW c \in Client, AnswerOffline(c) PROVE ghosts' = 0 /\ \A e \in Client : OnlyOnline(e)'
  <2> DEFINE msgs == <<Pub("presence", "online")>>
  <2>1. msgs \in Seq(Up) /\ \A m \in ToSet(msgs) : m.op = "pub" /\ m.topic = "presence" => m.value = "online"
    BY Listed, Words DEF Topic, Value, Sub, Pub
  <2>2. Say(c, msgs) /\ ghosts' = ghosts /\ job'[c] = "serve" /\ link'[c] # "down"
    BY <1>0, <1>b, <1>6 DEF AnswerOffline, clientVars, brokerVars, OnlyOnline
  <2> HIDE DEF msgs
  <2>3. OnlyOnline(c)'
    BY <1>0, <1>b, <2>1, <2>2, GapSaying
  <2> QED BY <1>d, <1>6, <2>2, <2>3 DEF Proceed, Receive
<1>7. ASSUME NEW c \in Client, AnswerProbe(c) PROVE ghosts' = 0 /\ \A e \in Client : OnlyOnline(e)'
  <2> DEFINE v == Head(down[c]).value
             msgs == <<Pub("alive", v)>>
  <2>1. v \in Value
    BY <1>0, <1>7, Taking DEF AnswerProbe, Took, Down
  <2>2. Say(c, msgs) /\ ghosts' = ghosts /\ job'[c] = "serve" /\ link'[c] # "down"
    BY <1>0, <1>b, <1>7 DEF AnswerProbe, clientVars, brokerVars, OnlyOnline
  <2> HIDE DEF v
  <2>3. msgs \in Seq(Up) /\ \A m \in ToSet(msgs) : m.topic = "alive"
    BY <2>1, Listed, Words DEF Topic, Pub
  <2> HIDE DEF msgs
  <2>4. OnlyOnline(c)'
    BY <1>0, <1>b, <2>2, <2>3, GapSaying
  <2> QED BY <1>d, <1>7, <2>2, <2>4 DEF Proceed, Receive
<1>8. ASSUME NEW c \in Client, Ignore(c) PROVE ghosts' = 0 /\ \A e \in Client : OnlyOnline(e)'
  <2>1. ghosts' = ghosts /\ OnlyOnline(c)'
    BY <1>0, <1>b, <1>8 DEF Ignore, OnlyOnline, TypeOK, clientVars, brokerVars
  <2> QED BY <1>d, <1>8, <2>1 DEF Proceed, Receive
<1>9. ASSUME NEW c \in Client, Run(c) PROVE ghosts' = 0 /\ \A e \in Client : OnlyOnline(e)'
  <2> DEFINE msgs == <<Sub("presence"), Sub("probe"), Pub("presence", "online")>>
  <2>1. msgs \in Seq(Up) /\ \A m \in ToSet(msgs) : m.op = "pub" /\ m.topic = "presence" => m.value = "online"
    BY Listed, Words DEF Topic, Value, Sub, Pub
  <2>2. Say(c, msgs) /\ ghosts' = ghosts /\ job'[c] = "serve" /\ link'[c] # "down"
    BY <1>0, <1>b, <1>9 DEF Run, clientVars, brokerVars, OnlyOnline
  <2> HIDE DEF msgs
  <2>3. OnlyOnline(c)'
    BY <1>0, <1>b, <2>1, <2>2, GapSaying
  <2> QED BY <1>d, <1>9, <2>2, <2>3 DEF Proceed, Receive
<1>10. ASSUME NEW c \in Client, Describe(c) PROVE ghosts' = 0 /\ \A e \in Client : OnlyOnline(e)'
  <2> DEFINE msgs == <<Pub("devices", "shown")>>
  <2>1. msgs \in Seq(Up) /\ \A m \in ToSet(msgs) : m.op = "pub" /\ m.topic = "presence" => m.value = "online"
    BY Listed, Words DEF Topic, Value, Sub, Pub
  <2>2. Say(c, msgs) /\ ghosts' = ghosts /\ job'[c] = "serve" /\ link'[c] # "down"
    BY <1>0, <1>b, <1>10 DEF Describe, clientVars, brokerVars, OnlyOnline
  <2> HIDE DEF msgs
  <2>3. OnlyOnline(c)'
    BY <1>0, <1>b, <2>1, <2>2, GapSaying
  <2> QED BY <1>d, <1>10, <2>2, <2>3 DEF Proceed, Receive
<1>11. ASSUME NEW c \in Client, Read(c) PROVE FALSE
  BY <1>b, <1>11 DEF Read, OnlyOnline
<1>12. ASSUME NEW c \in Client, Clear(c) PROVE FALSE
  BY <1>0, <1>b, <1>12 DEF Clear, OnlyOnline, JobInv
<1>13. ASSUME NEW c \in Client, Closed(c) PROVE ghosts' = 0 /\ \A e \in Client : OnlyOnline(e)'
  <2>1. ghosts' = ghosts /\ up'[c] = <<>> /\ link'[c] = "none" /\ job'[c] = job[c]
    BY <1>0, <1>13 DEF Closed, Gone, TypeOK
  <2>2. OnlyOnline(c)'
    BY <1>b, <2>1, Listed DEF OnlyOnline
  <2> QED BY <1>d, <1>13, <2>1, <2>2 DEF Proceed
<1>14. ASSUME NEW c \in Client, Begin(c, "serve", "start") PROVE ghosts' = 0 /\ \A e \in Client : OnlyOnline(e)'
  <2> DEFINE msgs == <<Sub("presence")>>
  <2>1. msgs \in Seq(Up) /\ \A m \in ToSet(msgs) : m.op = "pub" /\ m.topic = "presence" => m.value = "online"
    BY Listed, Words DEF Topic, Value, Sub, Pub
  <2>2. Say(c, msgs) /\ ghosts' = ghosts /\ job'[c] = "serve" /\ link'[c] # "down"
    BY <1>0, <1>b, <1>14 DEF Begin, clientVars, brokerVars, OnlyOnline, Check, TypeOK
  <2> HIDE DEF msgs
  <2>3. OnlyOnline(c)'
    BY <1>0, <1>b, <2>1, <2>2, GapSaying
  <2> QED BY <1>d, <1>14, <2>2, <2>3 DEF Ordered
<1>15. ASSUME NEW c \in Client, Begin(c, "purge", "purge") PROVE FALSE
  BY <1>c, <1>15 DEF Begin
<1>16. ASSUME NEW c \in Client, Stop(c, "stop") PROVE FALSE
  BY <1>c, <1>16 DEF Stop
<1>17. ASSUME NEW c \in Client, Stop(c, "restart") PROVE ghosts' = 0 /\ \A e \in Client : OnlyOnline(e)'
  <2>1. offline' \in [Client -> BOOLEAN] /\ ~offline'[c] /\ ghosts' = ghosts /\ job'[c] = "serve" /\ link'[c] # "down"
    BY <1>0, <1>b, <1>17 DEF Stop, TypeOK, OnlyOnline
  <2>2. PICK msgs \in Seq(Up) : Say(c, msgs) /\ msgs = <<Sub("flush"), PubFlush(c)>>
    BY <1>0, <1>17, <2>1, Leaving DEF Stop
  <2>3. \A m \in ToSet(msgs) : m.topic = "flush"
    BY <2>2, Listed DEF Sub, Pub, PubFlush
  <2>4. OnlyOnline(c)'
    BY <1>0, <1>b, <2>1, <2>2, <2>3, GapSaying
  <2> QED BY <1>d, <1>17, <2>1, <2>4 DEF Proceed, Receive, Ordered
<1>18. ASSUME NEW c \in Client, Retire(c) PROVE FALSE
  BY <1>c, <1>18 DEF Retire
<1>19. ASSUME NEW c \in Client, Fail(c) PROVE FALSE
  BY <1>c, <1>19 DEF Fail
<1>20. ASSUME NEW c \in Client, Crash(c) PROVE FALSE
  BY <1>c, <1>20 DEF Crash
<1>21. ASSUME NEW c \in Client, Drop(c) PROVE FALSE
  BY <1>c, <1>21 DEF Drop
<1>22. ASSUME NEW c \in Client, Broker(c) PROVE ghosts' = 0 /\ \A e \in Client : OnlyOnline(e)'
  <2>1. /\ ghosts' = ghosts /\ job' = job /\ link' = link
        /\ \A e \in Client : ToSet(up'[e]) \subseteq ToSet(up[e])
    BY <1>0, <1>22, Brokering DEF Broker, clientVars
  <2> QED BY <1>b, <2>1 DEF OnlyOnline
<1>23. ASSUME NEW c \in Client, Reconnect(c) PROVE FALSE
  BY <1>b, <1>23 DEF Reconnect, OnlyOnline
<1>24. CASE UNCHANGED vars
  BY <1>b, <1>24 DEF vars, clientVars, brokerVars, OnlyOnline
<1> QED BY <1>1, <1>2, <1>3, <1>4, <1>5, <1>6, <1>7, <1>8, <1>9, <1>10, <1>11, <1>12,
       <1>13, <1>14, <1>15, <1>16, <1>17, <1>18, <1>19, <1>20, <1>21, <1>22, <1>23, <1>24
       DEF Next, Proceed, Receive, Ordered

(***************************************************************************)
(* Checks find who answers                                                 *)
(***************************************************************************)
\* Whoever is still counted on after a step of its own still runs and listens
\* for probes, and has answered those it took.
LEMMA StaysRunning ==
    ASSUME Base, NEW c \in Client, NEW e \in Client \ {c}, Proceed(c) \/ Ordered(c) \/ Reconnect(c),
           pc[c] = "run", "probe" \in subs[c], c \in answering'[e]
    PROVE  /\ pc'[c] = "run" /\ "probe" \in subs'[c] /\ ToSet(up[c]) \subseteq ToSet(up'[c])
           /\ \A n : News("probe", n) \in ToSet(down[c])
                       => News("probe", n) \in ToSet(down'[c]) \/ Pub("alive", n) \in ToSet(up'[c])
<1>0. TypeOK /\ LinkInv(c)
  BY DEF Base
<1> DEFINE Goal ==
      /\ pc'[c] = "run" /\ "probe" \in subs'[c] /\ ToSet(up[c]) \subseteq ToSet(up'[c])
      /\ \A n : News("probe", n) \in ToSet(down[c])
                  => News("probe", n) \in ToSet(down'[c]) \/ Pub("alive", n) \in ToSet(up'[c])
<1>1. ASSUME AnswerOffline(c) PROVE Goal
  <2> DEFINE msgs == <<Pub("presence", "online")>>
  <2>1. msgs \in Seq(Up) /\ Say(c, msgs)
    BY <1>1, Words DEF AnswerOffline, Topic, Value
  <2> HIDE DEF msgs
  <2>2. ToSet(up[c]) \subseteq ToSet(up'[c])
    BY <1>0, <2>1, Saying
  <2>3. ToSet(down[c]) = {Head(down[c])} \cup ToSet(down'[c]) /\ Head(down[c]).topic = "presence"
    BY <1>0, <1>1, Taking DEF AnswerOffline, Took
  <2> QED BY <1>1, <2>2, <2>3 DEF AnswerOffline, clientVars, brokerVars, News
<1>2. ASSUME AnswerProbe(c) PROVE Goal
  <2> DEFINE v == Head(down[c]).value
             msgs == <<Pub("alive", v)>>
  <2>1. /\ ToSet(down[c]) = {Head(down[c])} \cup ToSet(down'[c]) /\ Say(c, msgs)
        /\ v \in Value
    BY <1>0, <1>2, Taking DEF AnswerProbe, Took, Down
  <2>2. msgs \in Seq(Up) /\ ToSet(msgs) = {Pub("alive", v)}
    BY <2>1, Words, Listed DEF Topic
  <2> HIDE DEF msgs, v
  <2>3. ToSet(up'[c]) = ToSet(up[c]) \cup ToSet(msgs)
    BY <1>0, <2>1, <2>2, Saying
  <2> QED BY <1>2, <2>1, <2>2, <2>3 DEF v, AnswerProbe, clientVars, brokerVars, News
<1>3. ASSUME Ignore(c) PROVE Goal
  <2>1. ToSet(down[c]) = {Head(down[c])} \cup ToSet(down'[c]) /\ Head(down[c]).topic # "probe"
    BY <1>0, <1>3, Taking DEF Ignore, Heeded
  <2> QED BY <1>3, <2>1 DEF Ignore, clientVars, brokerVars, News
<1>4. ASSUME Describe(c) PROVE Goal
  <2> DEFINE msgs == <<Pub("devices", "shown")>>
  <2>1. msgs \in Seq(Up) /\ Say(c, msgs)
    BY <1>4, Words DEF Describe, Topic, Value
  <2> HIDE DEF msgs
  <2>2. ToSet(up[c]) \subseteq ToSet(up'[c])
    BY <1>0, <2>1, Saying
  <2> QED BY <1>4, <2>2 DEF Describe, brokerVars
<1>5. ~Reconnect(c)
  BY <1>0 DEF Reconnect, LinkInv
<1>6. \A kind : ~Stop(c, kind) /\ ~Retire(c) /\ ~Crash(c) /\ ~Drop(c)
  BY DEF Stop, Retire, Crash, Drop, Gone, Silent, NoLongerAnswers
<1> HIDE DEF Goal
<1>7. Goal
  BY <1>1, <1>2, <1>3, <1>4, <1>5, <1>6
     DEF Proceed, Receive, Ordered, Unheard, Unanswered, Heard, Refused, Run, Read, Clear, Closed, Begin, Fail
<1> QED BY <1>7 DEF Goal

\* What a client does keeps what is so of the checks of others, ...
LEMMA CheckOthers ==
    ASSUME Base, CheckInv, NEW c \in Client, NEW e \in Client \ {c}, Proceed(c) \/ Ordered(c) \/ Reconnect(c)
    PROVE  CountInv(e)' /\ ListenInv(e)' /\ ProbeInv(e)'
<1>0. TypeOK /\ CountInv(e) /\ ListenInv(e) /\ ProbeInv(e) /\ answering[e] \subseteq Client
  BY DEF Base, CheckInv, TypeOK
<1>1. /\ pc'[e] = pc[e] /\ job'[e] = job[e] /\ nonce'[e] = nonce[e] /\ link'[e] = link[e]
      /\ up'[e] = up[e] /\ down'[e] = down[e] /\ subs'[e] = subs[e]
      /\ answering'[e] \subseteq answering[e]
  BY <1>0, OwnStep
<1>2. ASSUME NEW d \in answering'[e]
      PROVE  /\ d # e /\ pc'[d] = "run" /\ "probe" \in subs'[d] /\ ToSet(up[d]) \subseteq ToSet(up'[d])
             /\ \A n : News("probe", n) \in ToSet(down[d])
                         => News("probe", n) \in ToSet(down'[d]) \/ Pub("alive", n) \in ToSet(up'[d])
  <2>0. d \in Client /\ d # e /\ pc[d] = "run" /\ "probe" \in subs[d]
    BY <1>0, <1>1 DEF CountInv
  <2>1. CASE d = c
    BY <1>2, <2>0, <2>1, StaysRunning
  <2>2. CASE d # c
    BY <1>0, <2>0, <2>2, OwnStep
  <2> QED BY <2>1, <2>2
<1>3. CountInv(e)'
  BY <1>2 DEF CountInv
<1>4. ListenInv(e)'
  BY <1>0, <1>1 DEF ListenInv
<1>5. ProbeInv(e)'
  <2> SUFFICES ASSUME job[e] # "retire", pc[e] = "probe", answering'[e] # {}
               PROVE  /\ link[e] = "up"
                      /\ \/ up[e] = <<Sub("alive"), Pub("probe", nonce[e])>>
                         \/ up[e] = <<Pub("probe", nonce[e])>> /\ "alive" \in subs[e]
                         \/ /\ up[e] = <<>> /\ "alive" \in subs[e]
                            /\ \A d \in answering'[e] :
                                 \/ News("probe", nonce[e]) \in ToSet(down'[d])
                                 \/ Pub("alive", nonce[e]) \in ToSet(up'[d])
                                 \/ News("alive", nonce[e]) \in ToSet(down[e])
    BY <1>1 DEF ProbeInv, Sub, Pub, News
  <2>1. answering[e] # {}
    BY <1>1
  <2> QED BY <1>0, <1>1, <1>2, <2>1 DEF ProbeInv
<1> QED BY <1>3, <1>4, <1>5

\* ... and what is so of its own.
LEMMA CheckOwn ==
    ASSUME Base, CheckInv, NEW c \in Client, Proceed(c) \/ Ordered(c) \/ Reconnect(c)
    PROVE  CountInv(c)' /\ ListenInv(c)' /\ ProbeInv(c)'
<1>0. /\ TypeOK /\ LinkInv(c) /\ JobInv(c) /\ WordInv(c)
      /\ CountInv(c) /\ ListenInv(c) /\ ProbeInv(c) /\ answering[c] \subseteq Client
  BY DEF Base, CheckInv, TypeOK
<1> DEFINE Goal == CountInv(c)' /\ ListenInv(c)' /\ ProbeInv(c)'
<1>1. \A d \in Client \ {c} : pc'[d] = pc[d] /\ up'[d] = up[d] /\ down'[d] = down[d] /\ subs'[d] = subs[d]
  BY <1>0, OwnStep
<1>2. ASSUME answering'[c] \subseteq answering[c] PROVE CountInv(c)'
  BY <1>0, <1>1, <1>2 DEF CountInv
<1>3. ASSUME answering'[c] \subseteq answering[c], pc'[c] \notin {"listen", "probe"} PROVE Goal
  BY <1>2, <1>3 DEF ListenInv, ProbeInv
<1>4. ASSUME Unheard(c) \/ Unanswered(c) \/ Read(c) \/ Clear(c) \/ Run(c) \/ Describe(c) PROVE Goal
  BY <1>0, <1>3, <1>4 DEF Unheard, Unanswered, Read, Clear, Run, Describe, TypeOK
<1>5. ASSUME Closed(c) \/ Crash(c) PROVE Goal
  BY <1>0, <1>3, <1>5 DEF Closed, Crash, Gone, Silent, NoLongerAnswers, TypeOK
<1>6. ASSUME AnswerOffline(c) \/ AnswerProbe(c) PROVE Goal
  BY <1>0, <1>3, <1>6 DEF AnswerOffline, AnswerProbe, clientVars
<1>7. ASSUME Refused(c) \/ Fail(c) PROVE Goal
  BY <1>0, <1>3, <1>7 DEF Refused, Fail, Leave, TypeOK
<1>8. ASSUME NEW kind, Stop(c, kind) PROVE Goal
  BY <1>0, <1>3, <1>8 DEF Stop, Leave, Silent, NoLongerAnswers, TypeOK
<1>9. ASSUME Retire(c) PROVE Goal
  <2>1. pc'[c] = "listen" /\ job'[c] = "retire" /\ answering'[c] \subseteq answering[c]
    BY <1>0, <1>9 DEF Retire, Silent, NoLongerAnswers, TypeOK
  <2> QED BY <1>2, <2>1 DEF ListenInv, ProbeInv
<1>10. ASSUME NEW task, NEW kind, Begin(c, task, kind) PROVE Goal
  <2>1. /\ pc'[c] = "listen" /\ answering'[c] = {} /\ down'[c] = down[c] /\ up'[c] = <<>> \o <<Sub("presence")>>
        /\ down[c] = <<>>
    BY <1>0, <1>10 DEF Begin, Check, Say, TypeOK, LinkInv
  <2> DEFINE s == Sub("presence")
  <2>2. s \in Up
    BY Words DEF Topic
  <2> HIDE DEF s
  <2>3. <<>> \o <<s>> = <<s>>
    BY <2>2, ConcatEmptySeq
  <2>4. up'[c] = <<Sub("presence")>> /\ \A m \in ToSet(down'[c]) : ~m.retained
    BY <2>1, <2>3, Listed DEF s
  <2>5. ListenInv(c)'
    BY <2>1, <2>4 DEF ListenInv, Sub
  <2> QED BY <2>1, <2>5 DEF CountInv, ProbeInv
<1>11. ASSUME Ignore(c) PROVE Goal
  <2>1. /\ ToSet(down[c]) = {Head(down[c])} \cup ToSet(down'[c]) /\ ~Heeded(c, Head(down[c]))
        /\ pc'[c] = pc[c] /\ job'[c] = job[c] /\ nonce'[c] = nonce[c] /\ up'[c] = up[c] /\ link'[c] = link[c]
        /\ answering'[c] = answering[c] /\ subs'[c] = subs[c]
    BY <1>0, <1>11, Taking DEF Ignore, clientVars, brokerVars
  <2>2. pc[c] = "listen" => ~Head(down[c]).retained
    BY <1>0, <2>1 DEF Heeded, WordInv
  <2>3. ListenInv(c)'
    BY <1>0, <2>1, <2>2 DEF ListenInv
  <2>4. pc[c] = "probe" => Head(down[c]) # News("alive", nonce[c])
    BY <2>1 DEF Heeded, News
  <2>5. ProbeInv(c)'
    <3> SUFFICES ASSUME job[c] # "retire", pc[c] = "probe", answering[c] # {}
                 PROVE  /\ link[c] = "up"
                        /\ \/ up[c] = <<Sub("alive"), Pub("probe", nonce[c])>>
                           \/ up[c] = <<Pub("probe", nonce[c])>> /\ "alive" \in subs[c]
                           \/ /\ up[c] = <<>> /\ "alive" \in subs[c]
                              /\ \A d \in answering[c] :
                                   \/ News("probe", nonce[c]) \in ToSet(down'[d])
                                   \/ Pub("alive", nonce[c]) \in ToSet(up'[d])
                                   \/ News("alive", nonce[c]) \in ToSet(down'[c])
      BY <2>1 DEF ProbeInv, Sub, Pub, News
    <3>1. \A d \in answering[c] : d \in Client \ {c}
      BY <1>0 DEF CountInv
    <3> QED BY <1>0, <1>1, <2>1, <2>4, <3>1 DEF ProbeInv
  <2> QED BY <1>2, <2>1, <2>3, <2>5
<1>12. ASSUME Heard(c) PROVE Goal
  <2>1. answering'[c] = answering[c] /\ pc[c] = "listen" /\ job'[c] = job[c] /\ link'[c] = link[c]
        /\ Head(down[c]) \in ToSet(down[c]) /\ Head(down[c]).retained
    BY <1>0, <1>12, Taking DEF Heard, Took
  <2>2. CASE pc'[c] = "read"
    BY <1>3, <2>1, <2>2
  <2>3. ASSUME pc'[c] = "probe", NEW n \in Nonce, Say(c, <<Sub("alive"), Pub("probe", n)>>), nonce'[c] = n
        PROVE  ProbeInv(c)'
    <3> SUFFICES ASSUME job[c] # "retire", answering[c] # {}
                 PROVE  link[c] = "up" /\ up'[c] = <<Sub("alive"), Pub("probe", n)>>
      BY <2>1, <2>3 DEF ProbeInv, Sub, Pub
    <3>1. up[c] = <<>> /\ link[c] = "up"
      BY <1>0, <2>1 DEF ListenInv
    <3> DEFINE s == Sub("alive")
               p == Pub("probe", n)
    <3>2. s \in Up /\ p \in Up
      BY Words DEF Topic, Value
    <3>3. up'[c] = <<>> \o <<s, p>>
      BY <1>0, <2>3, <3>1 DEF Say, TypeOK
    <3> HIDE DEF s, p
    <3>4. <<>> \o <<s, p>> = <<s, p>>
      BY <3>2, ConcatEmptySeq
    <3> QED BY <3>1, <3>3, <3>4 DEF s, p
  <2>4. pc'[c] # "listen"
    BY <1>0, <1>12, Asked
  <2>5. pc'[c] = "read" \/ ProbeInv(c)'
    BY <1>0, <1>12, <2>3, Asked
  <2> QED BY <1>2, <2>1, <2>2, <2>4, <2>5 DEF ListenInv
<1>13. ASSUME Drop(c) PROVE Goal
  <2>1. /\ answering'[c] = {} /\ down'[c] = <<>> /\ up'[c] = up[c] /\ pc'[c] = pc[c] /\ job'[c] = job[c]
    BY <1>0, <1>13 DEF Drop, clientVars, TypeOK
  <2>2. \A m \in ToSet(down'[c]) : ~m.retained
    BY <2>1, Listed
  <2>3. ListenInv(c)'
    BY <1>0, <2>1, <2>2 DEF ListenInv, Sub
  <2> QED BY <1>2, <2>1, <2>3 DEF ProbeInv
<1>14. ASSUME Reconnect(c) PROVE Goal
  <2>1. /\ link[c] = "down" /\ answering'[c] = answering[c] /\ down'[c] = down[c] /\ down[c] = <<>>
        /\ pc'[c] = pc[c] /\ job'[c] = job[c]
    BY <1>0, <1>14 DEF Reconnect, clientVars, LinkInv
  <2>2. CountInv(c)'
    BY <1>2, <2>1
  <2>3. ProbeInv(c)'
    BY <1>0, <2>1 DEF ProbeInv
  <2>4. ListenInv(c)'
    <3> SUFFICES ASSUME job[c] # "retire", pc[c] = "listen"
                 PROVE  up'[c] = <<Sub("presence")>> /\ answering[c] = {} /\ \A m \in ToSet(down'[c]) : ~m.retained
      BY <2>1 DEF ListenInv, Sub
    <3>1. answering[c] = {} /\ (up[c] = <<Sub("presence")>> \/ up[c] = <<>>)
      BY <1>0, <2>1 DEF ListenInv
    <3>2. \A m \in ToSet(up[c]) : m.op # "pub"
      <4> DEFINE s == Sub("presence")
      <4>1. s.op = "sub" /\ (up[c] = <<s>> \/ up[c] = <<>>)
        BY <3>1 DEF Sub
      <4> HIDE DEF s
      <4>2. ToSet(up[c]) \subseteq {s}
        BY <4>1, Listed
      <4> QED BY <4>1, <4>2
    <3>3. Queued(up[c]) = <<>>
      BY <1>0, <3>2, Requeued DEF TypeOK
    <3>4. up'[c] = (<<Sub("presence")>> \o <<>>) \o <<>>
      BY <1>0, <1>14, <3>3, Reconnecting, Listening
    <3> DEFINE s == Sub("presence")
    <3>5. s \in Up
      BY Words DEF Topic
    <3> HIDE DEF s
    <3>6. <<s>> \o <<>> = <<s>>
      BY <3>5, ConcatEmptySeq
    <3> QED BY <2>1, <3>1, <3>4, <3>6, Listed DEF s
  <2> QED BY <2>2, <2>3, <2>4
<1> HIDE DEF Goal
<1>15. Goal
  BY <1>4, <1>5, <1>6, <1>7, <1>8, <1>9, <1>10, <1>11, <1>12, <1>13, <1>14 DEF Proceed, Receive, Ordered
<1> QED BY <1>15 DEF Goal

\* The broker brings each what it is sent, in its order.
LEMMA CheckBrought ==
    ASSUME Base, CheckInv, NEW c \in Client, Broker(c)
    PROVE  CheckInv'
<1>0. TypeOK /\ \A e \in Client : CountInv(e) /\ ListenInv(e) /\ ProbeInv(e) /\ WordInv(e) /\ answering[e] \subseteq Client
  BY DEF Base, CheckInv, TypeOK
<1> DEFINE m == Head(up[c])
<1>1. /\ link[c] = "up" /\ up[c] # <<>> /\ m.topic \in Topic /\ m.value \in Value
      /\ up'[c] = Tail(up[c]) /\ ToSet(up[c]) = {m} \cup ToSet(up'[c]) /\ up[c] \in Seq(Up)
      /\ \A e \in Client \ {c} : up'[e] = up[e]
      /\ \/ m.op = "sub" /\ Subscribed(c, m.topic)
         \/ m.op = "pub" /\ Deliver(m.topic, m.value) /\ UNCHANGED <<subs, answering>>
      /\ pc' = pc /\ job' = job /\ nonce' = nonce /\ link' = link
  BY <1>0, Brokering DEF Broker, clientVars
<1>2. \A e \in Client : /\ subs[e] \subseteq subs'[e] /\ ToSet(down[e]) \subseteq ToSet(down'[e])
                        /\ (e # c => answering'[e] = answering[e])
                        /\ \A x \in ToSet(down'[e]) \ ToSet(down[e]) : x.retained => e = c /\ m.op = "sub"
  <2> DEFINE t == m.topic
             v == m.value
  <2>1. /\ t \in Topic /\ v \in Value
        /\ \/ m.op = "sub" /\ Subscribed(c, t)
           \/ m.op = "pub" /\ Deliver(t, v) /\ UNCHANGED <<subs, answering>>
    BY <1>1
  <2> HIDE DEF t, v, m
  <2>2. CASE m.op = "sub" /\ Subscribed(c, t)
    <3>0. TypeOK
      BY <1>0
    <3>1. /\ subs'[c] = subs[c] \cup {t} /\ \A e \in Client \ {c} : subs'[e] = subs[e]
          /\ \A e \in Client \ {c} : down'[e] = down[e] /\ answering'[e] = answering[e]
          /\ ToSet(down'[c]) = ToSet(down[c]) \cup {Kept(presence)} \/ down'[c] = down[c]
      BY <2>1, <2>2, <3>0, Subscribing
    <3> QED BY <2>2, <3>1
  <2>3. CASE m.op = "pub" /\ Deliver(t, v) /\ UNCHANGED <<subs, answering>>
    <3>1. \A e \in Client : down'[e] = down[e] \/ ToSet(down'[e]) = ToSet(down[e]) \cup {News(t, v)}
      BY <1>0, <2>1, <2>3, Delivering
    <3> QED BY <2>3, <3>1 DEF News
  <2> QED BY <2>1, <2>2, <2>3
\* the client whose message it is
<1>3. pc[c] = "listen" /\ job[c] # "retire" =>
         /\ up'[c] = <<>>
         /\ answering'[c] # {} => /\ \E x \in ToSet(down'[c]) : x.retained
                                  /\ \A x \in ToSet(down'[c]) : x.retained => x.value = "online"
  <2> SUFFICES ASSUME pc[c] = "listen", job[c] # "retire"
               PROVE  /\ up'[c] = <<>>
                      /\ answering'[c] # {} => /\ \E x \in ToSet(down'[c]) : x.retained
                                               /\ \A x \in ToSet(down'[c]) : x.retained => x.value = "online"
    OBVIOUS
  <2>1. /\ up[c] = <<Sub("presence")>> /\ answering[c] = {} /\ \A x \in ToSet(down[c]) : ~x.retained
    BY <1>0, <1>1 DEF ListenInv
  <2>2. m = Sub("presence") /\ Tail(up[c]) = <<>>
    BY <2>1
  <2>3. Subscribed(c, "presence")
    BY <1>1, <2>2 DEF Sub
  <2> HIDE DEF m
  <2>4. answering'[c] # {} => presence = "online" /\ ToSet(down'[c]) = ToSet(down[c]) \cup {Kept(presence)}
    BY <1>0, <2>1, <2>3, Subscribing, ProducerAssumption DEF Topic
  <2>5. answering'[c] # {} => /\ Kept(presence) \in ToSet(down'[c]) /\ Kept(presence).retained
                              /\ \A x \in ToSet(down'[c]) : x.retained => x.value = "online"
    BY <2>1, <2>4 DEF Kept
  <2> QED BY <1>1, <2>2, <2>5
<1>4. ASSUME NEW e \in Client, NEW d \in answering'[e]
      PROVE  d # e /\ d \in Client /\ pc[d] = "run" /\ "probe" \in subs[d]
  <2>1. CASE d \in answering[e]
    BY <1>0, <2>1 DEF CountInv
  <2>2. CASE d \notin answering[e]
    <3>1. e = c /\ m.op = "sub" /\ Subscribed(c, m.topic)
      BY <1>1, <1>2, <1>4, <2>2
    <3> HIDE DEF m
    <3>2. pc[c] = "listen" /\ answering'[c] = {x \in Client : pc[x] = "run" /\ "probe" \in subs[x]}
      BY <1>0, <1>1, <1>4, <2>2, <3>1, Subscribing
    <3> QED BY <1>4, <3>1, <3>2
  <2> QED BY <2>1, <2>2
<1>5. \A e \in Client : CountInv(e)'
  BY <1>1, <1>2, <1>4 DEF CountInv
<1>6. \A e \in Client : ListenInv(e)'
  <2>1. ListenInv(c)'
    BY <1>1, <1>3 DEF ListenInv
  <2>2. \A e \in Client \ {c} : ListenInv(e)'
    BY <1>0, <1>1, <1>2 DEF ListenInv, Sub
  <2> QED BY <2>1, <2>2
<1>7. ASSUME NEW e \in Client, pc[e] = "probe" PROVE answering'[e] = answering[e]
  <2>1. CASE e = c /\ m.op = "sub" /\ Subscribed(c, m.topic)
    <3> HIDE DEF m
    <3> QED BY <1>0, <1>1, <1>7, <2>1, Subscribing
  <2>2. CASE ~(e = c /\ m.op = "sub" /\ Subscribed(c, m.topic))
    BY <1>1, <1>2, <2>2
  <2> QED BY <2>1, <2>2
<1>8. \A e \in Client : ProbeInv(e)'
  <2> SUFFICES ASSUME NEW e \in Client, job[e] # "retire", pc[e] = "probe", answering[e] # {}
               PROVE  /\ link[e] = "up"
                      /\ \/ up'[e] = <<Sub("alive"), Pub("probe", nonce[e])>>
                         \/ up'[e] = <<Pub("probe", nonce[e])>> /\ "alive" \in subs'[e]
                         \/ /\ up'[e] = <<>> /\ "alive" \in subs'[e]
                            /\ \A d \in answering[e] :
                                 \/ News("probe", nonce[e]) \in ToSet(down'[d])
                                 \/ Pub("alive", nonce[e]) \in ToSet(up'[d])
                                 \/ News("alive", nonce[e]) \in ToSet(down'[e])
    BY <1>1, <1>7 DEF ProbeInv, Sub, Pub, News
  <2>0. link[e] = "up" /\ \A d \in answering[e] : d \in Client /\ d # e /\ "probe" \in subs[d]
    BY <1>0 DEF ProbeInv, CountInv
  <2>1. CASE up[e] = <<Sub("alive"), Pub("probe", nonce[e])>>
    <3>1. CASE e # c
      BY <1>1, <2>0, <2>1, <3>1
    <3>2. CASE e = c
      <4>1. m = Sub("alive") /\ Tail(up[c]) = <<Pub("probe", nonce[e])>>
        <5> DEFINE s == Sub("alive")
                   p == Pub("probe", nonce[e])
        <5>1. s \in Up /\ p \in Up
          BY <1>0, <1>1, <2>1, <3>2, Listed, Joined
        <5>2. up[c] = <<s, p>>
          BY <2>1, <3>2
        <5> HIDE DEF s, p
        <5>3. Head(<<s, p>>) = s /\ Tail(<<s, p>>) = <<p>>
          <6> DEFINE a == Tail(<<s, p>>)
                     b == <<p>>
          <6>1. a \in Seq(Up) /\ b \in Seq(Up) /\ Len(a) = 1 /\ Len(b) = 1 /\ a[1] = b[1]
            BY <5>1
          <6> HIDE DEF a, b
          <6>2. a = b
            BY <6>1, SeqEqual
          <6> QED BY <6>2 DEF a, b
        <5> QED BY <5>2, <5>3 DEF s, p
      <4>2. Subscribed(c, "alive")
        BY <1>1, <4>1 DEF Sub
      <4>3. "alive" \in subs'[c]
        BY <1>0, <4>2, Subscribing DEF Topic
      <4> QED BY <1>1, <2>0, <3>2, <4>1, <4>3
    <3> QED BY <3>1, <3>2
  <2>2. CASE up[e] = <<Pub("probe", nonce[e])>> /\ "alive" \in subs[e]
    <3>1. CASE e # c
      BY <1>1, <1>2, <2>0, <2>2, <3>1
    <3>2. CASE e = c
      <4> DEFINE p == Pub("probe", nonce[e])
      <4>0. up[c] = <<p>>
        BY <2>2, <3>2
      <4> HIDE DEF p
      <4>1. m = p /\ Tail(up[c]) = <<>>
        BY <4>0
      <4>2. Deliver("probe", nonce[e]) /\ nonce[e] \in Value
        BY <1>1, <4>1 DEF p, Pub
      <4>3. \A d \in answering[e] : ToSet(down'[d]) = ToSet(down[d]) \cup {News("probe", nonce[e])}
        BY <1>0, <2>0, <4>2, Delivering DEF Topic
      <4> QED BY <1>1, <1>2, <2>0, <2>2, <3>2, <4>1, <4>3
    <3> QED BY <3>1, <3>2
  <2>3. CASE /\ up[e] = <<>> /\ "alive" \in subs[e]
             /\ \A d \in answering[e] :
                  \/ News("probe", nonce[e]) \in ToSet(down[d])
                  \/ Pub("alive", nonce[e]) \in ToSet(up[d])
                  \/ News("alive", nonce[e]) \in ToSet(down[e])
    <3>1. e # c /\ up'[e] = <<>> /\ "alive" \in subs'[e]
      BY <1>1, <1>2, <2>3
    <3>2. ASSUME NEW d \in answering[e]
          PROVE  \/ News("probe", nonce[e]) \in ToSet(down'[d])
                 \/ Pub("alive", nonce[e]) \in ToSet(up'[d])
                 \/ News("alive", nonce[e]) \in ToSet(down'[e])
      <4>1. CASE d = c /\ m = Pub("alive", nonce[e])
        <5>1. Deliver("alive", nonce[e]) /\ nonce[e] \in Value
          BY <1>1, <4>1 DEF Pub
        <5>2. ToSet(down'[e]) = ToSet(down[e]) \cup {News("alive", nonce[e])}
          BY <1>0, <2>3, <5>1, Delivering DEF Topic
        <5> QED BY <5>2
      <4>2. CASE ~(d = c /\ m = Pub("alive", nonce[e]))
        BY <1>1, <1>2, <2>0, <2>3, <3>2, <4>2
      <4> QED BY <4>1, <4>2
    <3> QED BY <2>0, <3>1, <3>2
  <2> QED BY <1>0, <2>1, <2>2, <2>3 DEF ProbeInv
<1> QED BY <1>5, <1>6, <1>8 DEF CheckInv

\* So every step keeps that checks find who answers.
LEMMA CheckKept ==
    ASSUME Base, CheckInv, [Next]_vars
    PROVE  CheckInv'
<1>0. TypeOK /\ \A e \in Client : CountInv(e) /\ ListenInv(e) /\ ProbeInv(e)
  BY DEF Base, CheckInv
<1>1. ASSUME NEW c \in Client, Proceed(c) \/ Ordered(c) \/ Reconnect(c) PROVE CheckInv'
  BY <1>1, CheckOthers, CheckOwn DEF CheckInv
<1>2. ASSUME NEW c \in Client, Broker(c) PROVE CheckInv'
  BY <1>2, CheckBrought
<1>3. CASE Will
  <2>1. \A e \in Client : down'[e] = down[e] \/ ToSet(down'[e]) = ToSet(down[e]) \cup {News("presence", "offline")}
    BY <1>0, <1>3, Delivering DEF Will, Topic, Value
  <2>2. /\ pc' = pc /\ job' = job /\ nonce' = nonce /\ link' = link /\ up' = up /\ subs' = subs /\ answering' = answering
        /\ \A e \in Client : ToSet(down[e]) \subseteq ToSet(down'[e])
                              /\ \A x \in ToSet(down'[e]) \ ToSet(down[e]) : ~x.retained
    BY <1>3, <2>1 DEF Will, clientVars, News
  <2>3. \A e \in Client : CountInv(e)'
    BY <1>0, <2>2 DEF CountInv
  <2>4. \A e \in Client : ListenInv(e)'
    BY <1>0, <2>2 DEF ListenInv, Sub
  <2>5. \A e \in Client : ProbeInv(e)'
    <3> SUFFICES ASSUME NEW e \in Client PROVE ProbeInv(e)'
      OBVIOUS
    <3>1. \A d \in answering[e] : d \in Client
      BY <1>0 DEF TypeOK
    <3> QED BY <1>0, <2>2, <3>1 DEF ProbeInv, Sub, Pub, News
  <2> QED BY <2>3, <2>4, <2>5 DEF CheckInv
<1>4. CASE UNCHANGED vars
  BY <1>0, <1>4 DEF CheckInv, CountInv, ListenInv, ProbeInv, vars, clientVars, brokerVars, Sub, Pub, News
<1> QED BY <1>1, <1>2, <1>3, <1>4 DEF Next

(***************************************************************************)
(* A purge nothing overlaps                                                *)
(***************************************************************************)
\* What a client that purges alone does keeps its purge going, or ends it.
LEMMA PurgeOwn ==
    ASSUME Base, NEW p \in Client, Purging(p), purged # "no", purged' # "no", Proceed(p) \/ Ordered(p)
    PROVE  \/ Purging(p)'
           \/ pc'[p] = "off" /\ presence' # "online" /\ (shown' => purged' = "blind")
<1>0. /\ TypeOK /\ LinkInv(p) /\ JobInv(p) /\ WordInv(p)
      /\ pc[p] \in {"listen", "probe", "read", "clear", "flush"} /\ job[p] # "serve"
  BY DEF Base, Purging
<1> DEFINE Goal == \/ Purging(p)'
                   \/ pc'[p] = "off" /\ presence' # "online" /\ (shown' => purged' = "blind")
<1>1. presence' = presence /\ shown' = shown
  BY <1>0, OwnStep
<1>2. ASSUME Unheard(p) \/ Unanswered(p) PROVE Goal
  BY <1>0, <1>2 DEF Unheard, Unanswered, Purging, TypeOK
<1>3. ASSUME Heard(p) PROVE Goal
  <2>1. ToSet(down'[p]) \subseteq ToSet(down[p]) /\ job'[p] = job[p]
    BY <1>0, <1>3, Taking DEF Heard, Took
  <2>2. ASSUME pc'[p] = "probe", NEW n \in Nonce, Unused(n), Say(p, <<Sub("alive"), Pub("probe", n)>>), nonce'[p] = n
        PROVE  Purging(p)'
    <3> DEFINE msgs == <<Sub("alive"), Pub("probe", n)>>
    <3>1. Sub("alive") \in Up /\ Pub("probe", n) \in Up
      BY Words DEF Topic, Value
    <3>2. msgs \in Seq(Up) /\ Say(p, msgs) /\ Pub("alive", n) \notin ToSet(msgs)
      BY <2>2, <3>1, Listed DEF Sub, Pub
    <3> HIDE DEF msgs
    <3>3. ToSet(up'[p]) = ToSet(up[p]) \cup ToSet(msgs)
      BY <1>0, <3>2, Saying
    <3>4. Pub("alive", n) \notin ToSet(up[p]) /\ News("alive", n) \notin ToSet(down[p])
      BY <2>2 DEF Unused, UnderWay, Probes, Pub, News
    <3> QED BY <1>0, <2>1, <2>2, <3>2, <3>3, <3>4 DEF Purging, Pub, News
  <2>3. pc'[p] = "read" => Purging(p)'
    BY <1>0, <2>1 DEF Purging
  <2> QED BY <1>0, <1>3, <2>2, <2>3, Asked
<1>4. ~Refused(p)
  <2> SUFFICES ASSUME Refused(p) PROVE FALSE
    OBVIOUS
  <2>1. /\ Head(down[p]) \in ToSet(down[p]) /\ Head(down[p]) \in Down /\ Head(down[p]).topic = "alive"
        /\ Head(down[p]).value = nonce[p] /\ pc[p] = "probe"
    BY <1>0, Taken DEF Refused, Took, TypeOK
  <2>2. Head(down[p]) = News("alive", nonce[p])
    BY <1>0, <2>1 DEF WordInv, News, Down
  <2> QED BY <2>1, <2>2 DEF Purging
<1>5. ~AnswerOffline(p) /\ ~AnswerProbe(p) /\ ~Run(p) /\ ~Describe(p) /\ ~Retire(p) /\ ~Fail(p) /\ ~Crash(p)
  BY <1>0 DEF AnswerOffline, AnswerProbe, Run, Describe, Retire, Fail, Crash, TypeOK
<1>6. \A kind, task : ~Stop(p, kind) /\ ~Begin(p, task, kind)
  BY <1>0 DEF Stop, Begin
<1>7. ASSUME Ignore(p) \/ Drop(p) PROVE Goal
  <2>1. ToSet(down'[p]) \subseteq ToSet(down[p])
    <3>1. CASE Ignore(p)
      BY <1>0, <3>1, Taking DEF Ignore
    <3>2. CASE Drop(p)
      <4>1. down'[p] = <<>>
        BY <1>0, <3>2 DEF Drop, TypeOK
      <4> QED BY <4>1, Listed
    <3> QED BY <1>7, <3>1, <3>2
  <2>2. up' = up /\ pc' = pc /\ job' = job /\ nonce' = nonce /\ found' = found /\ purged' = purged
    BY <1>7 DEF Ignore, Drop, clientVars
  <2>3. Purging(p)'
    BY <1>1, <2>1, <2>2 DEF Purging, Unshown, Untouched, Then, Pub, News, PubOnline, PubFlush, PresNone, DevNone
  <2> QED BY <2>3
<1>8. ASSUME Read(p) PROVE Goal
  <2>1. pc'[p] = "clear" /\ job'[p] = job[p] /\ up' = up
    BY <1>0, <1>8 DEF Read, TypeOK
  <2>2. purged' = "alone" => up[p] = <<>> /\ found'[p] = shown
    BY <1>0, <1>8 DEF Read, Unread, TypeOK
  <2>3. up[p] = <<>> => Untouched(up[p])
    BY Listed DEF Untouched
  <2>4. purged' = "alone" => Untouched(up'[p]) /\ found'[p] = shown'
    BY <1>1, <2>1, <2>2, <2>3
  <2> QED BY <1>0, <2>1, <2>4 DEF Purging, Untouched
<1>9. ASSUME Clear(p) PROVE Goal
  <2> DEFINE x == up[p]
             o == PubOnline
             a == DevNone
             b == PresNone
             s == Sub("flush")
             f == PubFlush(p)
  <2>1. /\ pc[p] = "clear" /\ pc'[p] = "flush" /\ job'[p] = job[p] /\ purged' = purged
        /\ purged = "alone" => Untouched(x) /\ found[p] = shown
    BY <1>0, <1>9 DEF Clear, Purging, TypeOK
  <2>2. PICK msgs \in Seq(Up) :
          /\ Say(p, msgs)
          /\ \/ found[p] /\ msgs = <<a, b, s, f>>
             \/ ~found[p] /\ msgs = <<b, s, f>>
    BY <1>0, <1>9, Clearing DEF PresNone, DevNone
  <2>3. x \in Seq(Up) /\ up'[p] = x \o msgs /\ ToSet(up'[p]) = ToSet(x) \cup ToSet(msgs)
    BY <1>0, <2>2, Saying DEF TypeOK
  <2>4. /\ a # b /\ a # s /\ a # f /\ b # s /\ b # f /\ s # f /\ o # a /\ o # b /\ o # s /\ o # f
        /\ s.op = "sub" /\ a.value = NONE /\ b.topic = "presence" /\ f.topic = "flush" /\ a.topic = "devices"
        /\ NONE # "online"
    BY ProducerAssumption DEF PubOnline, PresNone, DevNone, PubFlush, Pub, Sub
  <2> HIDE DEF x, o, a, b, s, f
  <2>5. b \in ToSet(msgs) /\ f \in ToSet(msgs) /\ (found[p] => a \in ToSet(msgs))
    BY <2>2, Listed
  <2>6. Then(msgs, o, b) /\ Then(msgs, b, f) /\ Then(msgs, a, f)
    <3>1. CASE msgs = <<a, b, s, f>>
      BY <2>4, <3>1 DEF Then
    <3>2. CASE msgs = <<b, s, f>>
      BY <2>4, <3>2 DEF Then
    <3> QED BY <2>2, <3>1, <3>2
  <2>7. Then(up'[p], o, b) /\ Then(up'[p], b, f) /\ Then(up'[p], a, f)
    BY <2>2, <2>3, <2>5, <2>6, InOrder
  <2>8. purged = "alone" => Unshown(up'[p]) /\ (shown => a \in ToSet(up'[p]))
    <3>1. \A m \in ToSet(msgs) : m \in {a, b, s, f}
      BY <2>2, Listed
    <3>2. Unshown(msgs)
      BY <2>4, <3>1 DEF Unshown
    <3> QED BY <2>1, <2>3, <2>5, <3>2 DEF Unshown, Untouched
  <2>9. b \in ToSet(up'[p])
    BY <2>3, <2>5
  <2> QED BY <1>0, <1>1, <2>1, <2>7, <2>8, <2>9
       DEF Purging, Unshown, Then, PubOnline, PresNone, DevNone, PubFlush, Pub, o, a, b, f
<1>10. ASSUME Closed(p) PROVE Goal
  <2>1. /\ pc[p] = "flush" /\ pc'[p] = "off" /\ down[p] # <<>> /\ Head(down[p]).topic = "flush"
        /\ purged' = purged
    BY <1>0, <1>10 DEF Closed, Gone, TypeOK
  <2>2. Head(down[p]) \in ToSet(down[p]) /\ Head(down[p]) \in Down
    BY <1>0, <2>1, Taken DEF TypeOK
  <2>3. Head(down[p]) = News("flush", p)
    BY <1>0, <2>1, <2>2 DEF WordInv, News, Down
  <2>4. PubFlush(p) \notin ToSet(up[p])
    BY <1>0, <2>2, <2>3 DEF WordInv
  <2>5. \A m : Then(up[p], m, PubFlush(p)) => m \notin ToSet(up[p])
    BY <2>4 DEF Then, ToSet
  <2>6. presence # "online" /\ (purged = "alone" => ~shown)
    BY <2>1, <2>5 DEF Purging
  <2>7. purged \in {"alone", "blind"}
    BY <1>0 DEF TypeOK
  <2> QED BY <1>1, <2>1, <2>6, <2>7
<1> HIDE DEF Goal
<1>11. Goal
  BY <1>2, <1>3, <1>4, <1>5, <1>6, <1>7, <1>8, <1>9, <1>10 DEF Proceed, Receive, Ordered
<1> QED BY <1>11 DEF Goal

\* So does what the broker takes of it, ...
LEMMA PurgeBrought ==
    ASSUME Base, NEW p \in Client, Purging(p), Broker(p)
    PROVE  Purging(p)'
<1>0. /\ TypeOK /\ LinkInv(p) /\ JobInv(p) /\ WordInv(p)
      /\ pc[p] \in {"listen", "probe", "read", "clear", "flush"} /\ job[p] # "serve"
  BY DEF Base, Purging
<1> DEFINE m == Head(up[p])
<1>1. /\ link[p] = "up" /\ up[p] # <<>> /\ m.topic \in Topic /\ m.value \in Value /\ m \in Up
      /\ up'[p] = Tail(up[p]) /\ ToSet(up[p]) = {m} \cup ToSet(up'[p]) /\ up[p] \in Seq(Up)
      /\ \/ m.op = "sub" /\ Subscribed(p, m.topic)
         \/ /\ m.op = "pub" /\ Deliver(m.topic, m.value)
            /\ presence' = IF m.topic = "presence" THEN m.value ELSE presence
            /\ shown' = IF m.topic = "devices" THEN m.value # NONE ELSE shown
      /\ pc' = pc /\ job' = job /\ nonce' = nonce /\ found' = found /\ purged' = purged
  BY <1>0, Brokering DEF Broker, clientVars
<1>2. m.op = "sub" => presence' = presence /\ shown' = shown
  BY <1>1 DEF Subscribed
<1>3. ASSUME pc[p] = "probe"
      PROVE  Pub("alive", nonce[p]) \notin ToSet(up'[p]) /\ News("alive", nonce[p]) \notin ToSet(down'[p])
  <2>1. m # Pub("alive", nonce[p]) /\ Pub("alive", nonce[p]) \notin ToSet(up'[p])
    BY <1>1, <1>3 DEF Purging
  <2>2. News("alive", nonce[p]) \notin ToSet(down[p])
    BY <1>3 DEF Purging
  <2>3. ~(m.op = "pub" /\ m.topic = "alive" /\ m.value = nonce[p])
    BY <1>1, <2>1 DEF Pub, Up
  <2> DEFINE t == m.topic
             v == m.value
  <2>4. /\ t \in Topic /\ v \in Value
        /\ Subscribed(p, t) \/ (Deliver(t, v) /\ ~(t = "alive" /\ v = nonce[p]))
    BY <1>1, <2>3
  <2> HIDE DEF t, v, m
  <2>5. \/ down'[p] = down[p]
        \/ ToSet(down'[p]) = ToSet(down[p]) \cup {Kept(presence)}
        \/ ToSet(down'[p]) = ToSet(down[p]) \cup {News(t, v)} /\ ~(t = "alive" /\ v = nonce[p])
    <3>1. CASE Subscribed(p, t)
      BY <1>0, <2>4, <3>1, Subscribing
    <3>2. CASE Deliver(t, v) /\ ~(t = "alive" /\ v = nonce[p])
      BY <1>0, <2>4, <3>2, Delivering
    <3> QED BY <2>4, <3>1, <3>2
  <2> QED BY <2>1, <2>2, <2>5 DEF News, Kept
<1>4. ASSUME pc[p] = "clear", purged = "alone"
      PROVE  Untouched(up'[p]) /\ found[p] = shown'
  <2>1. Untouched(up[p]) /\ found[p] = shown
    BY <1>4 DEF Purging
  <2>2. m.op = "pub" => m.topic # "devices"
    BY <1>1, <2>1 DEF Untouched
  <2>3. shown' = shown
    BY <1>1, <1>2, <2>2
  <2>4. Untouched(up'[p])
    BY <1>1, <2>1 DEF Untouched
  <2> QED BY <2>1, <2>3, <2>4
<1> DEFINE o == PubOnline
           a == DevNone
           b == PresNone
           f == PubFlush(p)
<1>5. ASSUME pc[p] = "flush"
      PROVE  /\ Then(up'[p], o, b) /\ Then(up'[p], b, f)
             /\ presence' = "online" => b \in ToSet(up'[p])
  <2>1. Then(up[p], o, b) /\ Then(up[p], b, f) /\ (presence = "online" => b \in ToSet(up[p]))
    BY <1>5 DEF Purging
  <2>2. /\ Then(up'[p], o, b) /\ Then(up'[p], b, f)
        /\ m = o => b \in ToSet(up'[p])
    BY <1>1, <2>1, TakenInOrder
  <2>3. presence' = "online" => m = o \/ (presence = "online" /\ m # b)
    <3>1. m.op = "pub" /\ m.topic = "presence" /\ m.value = "online" => m = o
      BY <1>1 DEF PubOnline, Pub, Up
    <3>2. b.op = "pub" /\ b.topic = "presence" /\ b.value # "online"
      BY ProducerAssumption DEF PresNone, Pub
    <3> HIDE DEF m, o, b
    <3>3. m.op = "sub" \/ m.op = "pub"
      BY <1>1
    <3>4. m.op = "pub" /\ m.topic # "presence" => presence' = presence /\ m # b
      BY <1>1, <3>2
    <3>5. m.op = "sub" => presence' = presence /\ m # b
      BY <1>2, <3>2
    <3> QED BY <1>1, <3>1, <3>3, <3>4, <3>5
  <2>4. presence = "online" /\ m # b => b \in ToSet(up'[p])
    BY <1>1, <2>1
  <2> HIDE DEF m, o, b, f
  <2> QED BY <2>2, <2>3, <2>4
<1>6. ASSUME pc[p] = "flush", purged = "alone"
      PROVE  /\ Unshown(up'[p]) /\ Then(up'[p], a, f)
             /\ shown' => a \in ToSet(up'[p])
  <2>1. Unshown(up[p]) /\ Then(up[p], a, f) /\ (shown => a \in ToSet(up[p]))
    BY <1>6 DEF Purging
  <2>2. Then(up'[p], a, f) /\ Unshown(up'[p])
    BY <1>1, <2>1, TakenInOrder DEF Unshown
  <2>3. shown' => shown /\ m # a
    <3>1. a.op = "pub" /\ a.topic = "devices" /\ a.value = NONE
      BY DEF DevNone, Pub
    <3>2. m.op = "pub" /\ m.topic = "devices" => m.value = NONE
      BY <1>1, <2>1 DEF Unshown
    <3> HIDE DEF m, a
    <3>3. m.op = "sub" => shown' = shown /\ m # a
      BY <1>2, <3>1
    <3>4. m.op = "pub" /\ m.topic # "devices" => shown' = shown /\ m # a
      BY <1>1, <3>1
    <3>5. m.op = "pub" /\ m.topic = "devices" => ~shown'
      BY <1>1, <3>2
    <3> QED BY <1>1, <3>3, <3>4, <3>5
  <2> QED BY <1>1, <2>1, <2>2, <2>3
<1> HIDE DEF m
<1> QED BY <1>0, <1>1, <1>3, <1>4, <1>5, <1>6
     DEF Purging, Unshown, Untouched, Then, Pub, News, PubOnline, PubFlush, PresNone, DevNone, o, a, b, f

\* ... and what it sends again when it reconnects.
LEMMA PurgeAgain ==
    ASSUME Base, NEW p \in Client, Purging(p), Reconnect(p)
    PROVE  Purging(p)'
<1> DEFINE l == Listens(p)
           q == Queued(up[p])
           u == up[p]
           v == l \o q
<1>0. TypeOK /\ u \in Seq(Up) /\ pc[p] # "run"
  BY DEF Base, TypeOK, Purging
<1>1. PICK more \in Seq(Up) :
        up'[p] = v \o more /\ q \in Seq(Up) /\ more = <<>>
  BY <1>0, Reconnecting
<1>2. l \in Seq(Up) /\ \A x \in ToSet(l) : x.op = "sub"
  BY Listening
<1>3. /\ pc' = pc /\ job' = job /\ nonce' = nonce /\ found' = found /\ down' = down
      /\ presence' = presence /\ shown' = shown /\ purged' = purged
  BY DEF Reconnect, clientVars, brokerVars
<1>4. /\ ToSet(q) = {m \in ToSet(u) : m.op = "pub"}
      /\ \A m, n : Then(u, m, n) /\ n.op = "pub" => Then(q, m, n)
  BY <1>0, Requeued
<1> HIDE DEF l, q, u, v
<1>5. v \in Seq(Up) /\ ToSet(v) = ToSet(l) \cup ToSet(q)
  BY <1>1, <1>2, Joined DEF v
<1>6. up'[p] = v
  BY <1>1, <1>5, ConcatEmptySeq
<1>7. ASSUME NEW m, NEW n, m.op = "pub", n.op = "pub", Then(u, m, n) PROVE Then(up'[p], m, n)
  <2>1. Then(q, m, n)
    BY <1>4, <1>7
  <2>2. Then(l, m, n)
    BY <1>2, <1>7 DEF Then, ToSet
  <2> QED BY <1>1, <1>2, <1>6, <2>1, <2>2, InOrder DEF v
<1>8. ASSUME NEW m, m.op = "pub" PROVE m \in ToSet(up'[p]) <=> m \in ToSet(u)
  BY <1>2, <1>4, <1>5, <1>6, <1>8
<1>9. (Unshown(u) => Unshown(up'[p])) /\ (Untouched(u) => Untouched(up'[p]))
  BY <1>8 DEF Unshown, Untouched
<1> DEFINE o == PubOnline
           a == DevNone
           b == PresNone
           f == PubFlush(p)
           k == Pub("alive", nonce[p])
<1>10. o.op = "pub" /\ a.op = "pub" /\ b.op = "pub" /\ f.op = "pub" /\ k.op = "pub"
  BY DEF PubOnline, DevNone, PresNone, PubFlush, Pub
<1>11. /\ job[p] # "serve" /\ pc[p] \in {"listen", "probe", "read", "clear", "flush"}
       /\ pc[p] = "probe" => k \notin ToSet(u) /\ News("alive", nonce[p]) \notin ToSet(down[p])
       /\ pc[p] = "clear" /\ purged = "alone" => Untouched(u) /\ found[p] = shown
       /\ pc[p] = "flush" => Then(u, o, b) /\ Then(u, b, f) /\ (presence = "online" => b \in ToSet(u))
       /\ pc[p] = "flush" /\ purged = "alone" => Unshown(u) /\ Then(u, a, f) /\ (shown => a \in ToSet(u))
  BY DEF Purging, u
<1> HIDE DEF o, a, b, f, k
<1>12. pc[p] = "probe" => k \notin ToSet(up'[p])
  BY <1>8, <1>10, <1>11
<1>13. pc[p] = "flush" => /\ Then(up'[p], o, b) /\ Then(up'[p], b, f)
                          /\ presence = "online" => b \in ToSet(up'[p])
  BY <1>7, <1>8, <1>10, <1>11
<1>14. pc[p] = "flush" /\ purged = "alone" =>
         Unshown(up'[p]) /\ Then(up'[p], a, f) /\ (shown => a \in ToSet(up'[p]))
  BY <1>7, <1>8, <1>9, <1>10, <1>11
<1>15. pc[p] = "clear" /\ purged = "alone" => Untouched(up'[p]) /\ found[p] = shown
  BY <1>9, <1>11
<1> QED BY <1>3, <1>11, <1>12, <1>13, <1>14, <1>15
     DEF Purging, Unshown, Untouched, Then, Pub, News, PubOnline, PubFlush, PresNone, DevNone, o, a, b, f, k

\* Every step keeps what is so of a purge; another client that begins ends its
\* being alone.
LEMMA PurgeKept ==
    ASSUME Base, PurgeInv, [Next]_vars
    PROVE  PurgeInv'
<1> SUFFICES ASSUME purged' # "no"
             PROVE  Purged' \/ \E c \in Client : Purging(c)' /\ Alone(c)'
  BY DEF PurgeInv
<1>0. TypeOK /\ \A c \in Client : LinkInv(c) /\ JobInv(c) /\ WordInv(c)
  BY DEF Base
<1>1. purged # "no" => Purged \/ \E c \in Client : Purging(c) /\ Alone(c)
  BY DEF PurgeInv
<1> DEFINE Goal == Purged' \/ \E c \in Client : Purging(c)' /\ Alone(c)'
<1>2. ASSUME NEW c \in Client, NEW task, NEW kind, Begin(c, task, kind) PROVE Goal
  <2>1. task = "purge" /\ Alone(c) /\ pc'[c] = "listen" /\ job'[c] = "purge"
    BY <1>0, <1>2 DEF Begin, Check, TypeOK
  <2>2. Alone(c)'
    BY <1>0, <1>2, <2>1 DEF Begin, Check, Alone, TypeOK
  <2> QED BY <2>1, <2>2 DEF Purging
<1>3. ASSUME NEW c \in Client, Retire(c) PROVE Goal
  <2>1. Alone(c) /\ pc'[c] = "listen" /\ job'[c] = "retire"
    BY <1>0, <1>3 DEF Retire, TypeOK
  <2>2. Alone(c)'
    BY <1>0, <1>3, <2>1 DEF Retire, Alone, TypeOK
  <2> QED BY <2>1, <2>2 DEF Purging
\* A client that is off only begins.
<1>4. ASSUME NEW c \in Client, Proceed(c) \/ Ordered(c), pc[c] = "off" PROVE Goal
  <2>1. link[c] = "none" /\ down[c] = <<>>
    BY <1>0, <1>4 DEF LinkInv
  <2>2. ~Proceed(c)
    BY <1>4, <2>1 DEF Proceed, Receive, Unheard, Unanswered, Heard, Refused, AnswerOffline, AnswerProbe, Ignore, Run,
                Describe, Read, Clear, Closed
  <2>3. Begin(c, "serve", "start") \/ Begin(c, "purge", "purge")
    BY <1>4, <2>1, <2>2 DEF Ordered, Stop, Retire, Fail, Crash, Drop
  <2> QED BY <1>2, <2>3
\* Any other step is of the one that purges.
<1>5. ASSUME NEW c \in Client, purged # "no", pc[c] # "off" PROVE Purging(c) /\ Alone(c)
  BY <1>1, <1>5 DEF Purged, Alone
<1>6. ASSUME NEW c \in Client, Proceed(c) \/ Ordered(c) PROVE Goal
  <2>1. \/ purged # "no" \/ Retire(c)
        \/ \E task, kind : Begin(c, task, kind)
    BY <1>6 DEF Proceed, Receive, Ordered, Unheard, Unanswered, Heard, Refused, AnswerOffline, AnswerProbe,
         Ignore, Run, Describe, Read, Unread, Clear, Closed, Stop, Fail, Crash, Drop
  <2>2. CASE purged # "no" /\ pc[c] # "off"
    <3>1. Purging(c) /\ Alone(c)
      BY <1>5, <2>2
    <3>2. \A e \in Client \ {c} : pc'[e] = "off"
      BY <1>0, <1>6, <3>1, OwnStep DEF Alone
    <3>3. Purging(c)' \/ (pc'[c] = "off" /\ presence' # "online" /\ (shown' => purged' = "blind"))
      BY <1>6, <2>2, <3>1, PurgeOwn
    <3> QED BY <3>2, <3>3 DEF Alone, Purged
  <2> QED BY <1>2, <1>3, <1>4, <1>6, <2>1, <2>2
<1>7. ASSUME NEW c \in Client, Broker(c) \/ Reconnect(c) PROVE Goal
  <2>1. purged # "no" /\ link[c] # "none" /\ pc' = pc
    BY <1>7 DEF Broker, Reconnect, clientVars
  <2>2. Purging(c) /\ Alone(c)
    BY <1>0, <1>5, <2>1 DEF LinkInv
  <2>3. Purging(c)'
    BY <1>7, <2>2, PurgeBrought, PurgeAgain
  <2> QED BY <2>1, <2>2, <2>3 DEF Alone
<1>8. ASSUME Will PROVE Goal
  <2>1. \A e \in Client : down'[e] = down[e] \/ ToSet(down'[e]) = ToSet(down[e]) \cup {News("presence", "offline")}
    BY <1>0, <1>8, Delivering DEF Will, Topic, Value
  <2>2. /\ purged' = purged /\ pc' = pc /\ job' = job /\ nonce' = nonce /\ found' = found /\ up' = up
        /\ presence' # "online" /\ shown' = shown
    BY <1>8 DEF Will, clientVars
  <2>3. ASSUME NEW p \in Client, Purging(p) PROVE Purging(p)'
    <3>1. News("alive", nonce[p]) \notin ToSet(down[p]) => News("alive", nonce[p]) \notin ToSet(down'[p])
      BY <2>1 DEF News
    <3> QED BY <2>2, <2>3, <3>1
         DEF Purging, Unshown, Untouched, Then, Pub, News, PubOnline, PubFlush, PresNone, DevNone
  <2> QED BY <1>1, <2>2, <2>3 DEF Alone, Purged
<1>9. ASSUME UNCHANGED vars PROVE Goal
  <2>1. ASSUME NEW p \in Client, Purging(p) PROVE Purging(p)'
    BY <1>9, <2>1
       DEF vars, clientVars, brokerVars, Purging, Unshown, Untouched, Then, Pub, News, PubOnline, PubFlush,
           PresNone, DevNone
  <2> QED BY <1>1, <1>9, <2>1 DEF vars, clientVars, brokerVars, Alone, Purged
<1> HIDE DEF Goal
<1>10. Goal
  BY <1>6, <1>7, <1>8, <1>9 DEF Next
<1> QED BY <1>10 DEF Goal

(***************************************************************************)
(* What the presence says in the end                                       *)
(***************************************************************************)
\* What a client says in a step of its own.
LEMMA Said ==
    ASSUME Base, NEW c \in Client, Proceed(c) \/ Ordered(c)
    PROVE  \/ up'[c] = up[c] /\ pc'[c] \notin {"run", "flush"} \ {pc[c]}
           \/ (Closed(c) \/ Crash(c)) /\ pc'[c] = "off" /\ link'[c] = "none" /\ up'[c] = <<>>
           \/ \E msgs \in Seq(Up) :
                /\ up'[c] = up[c] \o msgs
                /\ ToSet(up'[c]) = ToSet(up[c]) \cup ToSet(msgs)
                /\ \/ /\ pc'[c] \notin {"run", "flush"} \ {pc[c]} /\ (pc'[c] = "run" \/ pc[c] # "run")
                      /\ \A m \in ToSet(msgs) : m.op = "pub" => m.topic \notin {"presence", "flush"}
                   \/ AnswerOffline(c) /\ msgs = <<PubOnline>>
                   \/ Run(c) /\ msgs = <<Sub("presence"), Sub("probe"), PubOnline>>
                   \/ Retire(c) /\ msgs = <<PubOffline, Sub("presence")>>
                   \/ /\ Clear(c) /\ PubFlush(c) \in ToSet(msgs)
                      /\ PubOnline \notin ToSet(msgs) /\ PubOffline \notin ToSet(msgs)
                   \/ /\ \/ Refused(c) \/ Fail(c) \/ Stop(c, "restart")
                         \/ Stop(c, "stop") /\ PubOffline \in ToSet(msgs)
                      /\ PubFlush(c) \in ToSet(msgs) /\ Then(msgs, PubOffline, PubFlush(c))
                      /\ \A m \in ToSet(msgs) : m # PubOnline /\ m # Pub("presence", NONE)
<1>0. TypeOK /\ LinkInv(c) /\ JobInv(c)
  BY DEF Base
<1> DEFINE Plain(msgs) == /\ pc'[c] \notin {"run", "flush"} \ {pc[c]} /\ (pc'[c] = "run" \/ pc[c] # "run")
                          /\ \A m \in ToSet(msgs) : m.op = "pub" => m.topic \notin {"presence", "flush"}
           Leaves(msgs) == /\ \/ Refused(c) \/ Fail(c) \/ Stop(c, "restart")
                              \/ Stop(c, "stop") /\ PubOffline \in ToSet(msgs)
                           /\ PubFlush(c) \in ToSet(msgs) /\ Then(msgs, PubOffline, PubFlush(c))
                           /\ \A m \in ToSet(msgs) : m # PubOnline /\ m # Pub("presence", NONE)
           Clears(msgs) == /\ Clear(c) /\ PubFlush(c) \in ToSet(msgs)
                           /\ PubOnline \notin ToSet(msgs) /\ PubOffline \notin ToSet(msgs)
           Says(msgs) == \/ Plain(msgs)
                         \/ AnswerOffline(c) /\ msgs = <<PubOnline>>
                         \/ Run(c) /\ msgs = <<Sub("presence"), Sub("probe"), PubOnline>>
                         \/ Retire(c) /\ msgs = <<PubOffline, Sub("presence")>>
                         \/ Clears(msgs)
                         \/ Leaves(msgs)
           Goal == \/ up'[c] = up[c] /\ pc'[c] \notin {"run", "flush"} \ {pc[c]}
                   \/ (Closed(c) \/ Crash(c)) /\ pc'[c] = "off" /\ link'[c] = "none" /\ up'[c] = <<>>
                   \/ \E msgs \in Seq(Up) : /\ up'[c] = up[c] \o msgs
                                            /\ ToSet(up'[c]) = ToSet(up[c]) \cup ToSet(msgs)
                                            /\ Says(msgs)
<1>1. ASSUME NEW msgs \in Seq(Up), Say(c, msgs), Says(msgs) PROVE Goal
  <2> HIDE DEF Says
  <2> QED BY <1>0, <1>1, Saying
<1>2. ASSUME Closed(c) \/ Crash(c) PROVE Goal
  BY <1>0, <1>2 DEF Closed, Crash, Gone, TypeOK
<1>3. ASSUME Unheard(c) \/ Unanswered(c) \/ Ignore(c) \/ Read(c) \/ Drop(c) PROVE Goal
  BY <1>0, <1>3 DEF Unheard, Unanswered, Ignore, Read, Drop, clientVars, TypeOK
<1>4. ASSUME Heard(c) PROVE Goal
  <2>1. CASE pc'[c] = "read" /\ up' = up
    BY <2>1
  <2>2. ASSUME pc'[c] = "probe", NEW n \in Nonce, Say(c, <<Sub("alive"), Pub("probe", n)>>) PROVE Goal
    <3> DEFINE msgs == <<Sub("alive"), Pub("probe", n)>>
    <3>1. Sub("alive") \in Up /\ Pub("probe", n) \in Up
      BY Words DEF Topic, Value
    <3>2. msgs \in Seq(Up) /\ Say(c, msgs) /\ \A m \in ToSet(msgs) : m.topic \in {"alive", "probe"}
      BY <2>2, <3>1, Listed DEF Sub, Pub
    <3>3. pc[c] = "listen"
      BY <1>4 DEF Heard
    <3> HIDE DEF msgs
    <3>4. Plain(msgs)
      BY <2>2, <3>2, <3>3
    <3> HIDE DEF Plain
    <3> QED BY <1>1, <3>2, <3>4
  <2> HIDE DEF Goal
  <2> QED BY <1>0, <1>4, <2>1, <2>2, Asked
<1>5. ASSUME AnswerOffline(c) PROVE Goal
  <2>1. <<PubOnline>> \in Seq(Up) /\ Say(c, <<PubOnline>>)
    BY <1>5, Words DEF AnswerOffline, PubOnline, Topic, Value
  <2> HIDE DEF Plain, Leaves, Clears
  <2> QED BY <1>1, <1>5, <2>1
<1>6. ASSUME AnswerProbe(c) PROVE Goal
  <2> DEFINE v == Head(down[c]).value
             msgs == <<Pub("alive", v)>>
  <2>1. v \in Value /\ Say(c, msgs) /\ pc'[c] = "run"
    BY <1>0, <1>6, Taking DEF AnswerProbe, Took, Down, clientVars
  <2> HIDE DEF v
  <2>2. msgs \in Seq(Up) /\ \A m \in ToSet(msgs) : m.topic = "alive"
    BY <2>1, Listed, Words DEF Topic, Pub
  <2> HIDE DEF msgs
  <2>3. Plain(msgs)
    BY <1>6, <2>1, <2>2 DEF AnswerProbe
  <2> HIDE DEF Plain
  <2> QED BY <1>1, <2>1, <2>2, <2>3
<1>7. ASSUME Describe(c) PROVE Goal
  <2> DEFINE msgs == <<Pub("devices", "shown")>>
  <2>1. msgs \in Seq(Up) /\ Say(c, msgs) /\ \A m \in ToSet(msgs) : m.topic = "devices"
    BY <1>7, Words, Listed DEF Describe, Pub, Topic, Value
  <2> HIDE DEF msgs
  <2>2. Plain(msgs)
    BY <1>7, <2>1 DEF Describe
  <2> HIDE DEF Plain
  <2> QED BY <1>1, <2>1, <2>2
<1>8. ASSUME Run(c) PROVE Goal
  <2>1. Sub("presence") \in Up /\ Sub("probe") \in Up /\ PubOnline \in Up
    BY Words DEF PubOnline, Topic, Value
  <2> DEFINE msgs == <<Sub("presence"), Sub("probe"), PubOnline>>
  <2>2. msgs \in Seq(Up) /\ Say(c, msgs)
    BY <1>8, <2>1 DEF Run, PubOnline
  <2> HIDE DEF Plain, Leaves, Clears
  <2> QED BY <1>1, <1>8, <2>2
<1>9. ASSUME NEW task, NEW kind, Begin(c, task, kind) PROVE Goal
  <2> DEFINE msgs == <<Sub("presence")>>
  <2>1. msgs \in Seq(Up) /\ Say(c, msgs) /\ \A m \in ToSet(msgs) : m.op = "sub"
    BY <1>9, Words, Listed DEF Begin, Sub, Topic
  <2> HIDE DEF msgs
  <2>2. Plain(msgs)
    BY <1>0, <1>9, <2>1 DEF Begin, Check, TypeOK
  <2> HIDE DEF Plain
  <2> QED BY <1>1, <2>1, <2>2
<1>10. ASSUME Retire(c) PROVE Goal
  <2>1. Sub("presence") \in Up /\ PubOffline \in Up
    BY Words DEF PubOffline, Topic, Value
  <2> DEFINE msgs == <<PubOffline, Sub("presence")>>
  <2>2. msgs \in Seq(Up) /\ Say(c, msgs)
    BY <1>10, <2>1 DEF Retire, PubOffline
  <2> HIDE DEF Plain, Leaves, Clears
  <2> QED BY <1>1, <1>10, <2>2
<1>11. ASSUME Clear(c) PROVE Goal
  <2>1. PICK msgs \in Seq(Up) :
          /\ Say(c, msgs)
          /\ \/ msgs = <<Pub("devices", NONE), Pub("presence", NONE), Sub("flush"), PubFlush(c)>>
             \/ msgs = <<Pub("presence", NONE), Sub("flush"), PubFlush(c)>>
    BY <1>0, <1>11, Clearing
  <2>2. /\ PubFlush(c) \in ToSet(msgs)
        /\ PubOnline \notin ToSet(msgs) /\ PubOffline \notin ToSet(msgs)
    <3> DEFINE a == Pub("devices", NONE)
               b == Pub("presence", NONE)
               s == Sub("flush")
               f == PubFlush(c)
    <3>1. PubOnline \notin {a, b, s, f} /\ PubOffline \notin {a, b, s, f}
      BY ProducerAssumption DEF PubOnline, PubOffline, PubFlush, Pub, Sub
    <3>2. msgs = <<a, b, s, f>> \/ msgs = <<b, s, f>>
      BY <2>1
    <3> HIDE DEF a, b, s, f
    <3>3. ToSet(msgs) = {a, b, s, f} \/ ToSet(msgs) = {b, s, f}
      BY <3>2, Listed
    <3> QED BY <3>1, <3>3 DEF f
  <2>3. Clears(msgs)
    BY <1>11, <2>2
  <2> HIDE DEF Plain, Leaves, Clears
  <2> QED BY <1>1, <2>1, <2>3
<1>12. ASSUME \/ Refused(c) \/ Fail(c) \/ Stop(c, "restart")
              \/ Stop(c, "stop") /\ offline'[c],
              Leave(c), offline' \in [Client -> BOOLEAN]
       PROVE  Goal
  <2>1. PICK msgs \in Seq(Up) :
          /\ Say(c, msgs)
          /\ \/ offline'[c] /\ msgs = <<PubOffline, Sub("flush"), PubFlush(c)>>
             \/ ~offline'[c] /\ msgs = <<Sub("flush"), PubFlush(c)>>
    BY <1>0, <1>12, Leaving
  <2> DEFINE a == PubOffline
             s == Sub("flush")
             f == PubFlush(c)
  <2>2. /\ a # f /\ a # s
        /\ \A m \in {a, s, f} : m # PubOnline /\ m # Pub("presence", NONE)
    BY ProducerAssumption DEF PubOnline, PubOffline, PubFlush, Pub, Sub
  <2>3. \/ offline'[c] /\ msgs = <<a, s, f>>
        \/ ~offline'[c] /\ msgs = <<s, f>>
    BY <2>1
  <2> HIDE DEF a, s, f
  <2>4. /\ ToSet(msgs) = {a, s, f} \/ (ToSet(msgs) = {s, f} /\ ~offline'[c])
        /\ Then(msgs, a, f)
    <3>1. CASE offline'[c] /\ msgs = <<a, s, f>>
      BY <2>2, <3>1, Listed DEF Then
    <3>2. CASE ~offline'[c] /\ msgs = <<s, f>>
      BY <2>2, <3>2, Listed DEF Then
    <3> QED BY <2>3, <3>1, <3>2
  <2>5. /\ f \in ToSet(msgs) /\ \A m \in ToSet(msgs) : m # PubOnline /\ m # Pub("presence", NONE)
        /\ offline'[c] => a \in ToSet(msgs)
    BY <2>2, <2>4
  <2>6. Leaves(msgs)
    BY <1>12, <2>4, <2>5 DEF a, f
  <2> HIDE DEF Plain, Leaves, Clears
  <2> QED BY <1>1, <2>1, <2>6
<1>13. ASSUME Refused(c) \/ Fail(c) \/ Stop(c, "restart") \/ Stop(c, "stop") PROVE Goal
  <2> HIDE DEF Goal
  <2>1. CASE Refused(c)
    BY <1>0, <1>12, <2>1 DEF Refused, TypeOK
  <2>2. CASE Fail(c)
    BY <1>0, <1>12, <2>2 DEF Fail, TypeOK
  <2>3. CASE Stop(c, "restart")
    <3>1. Leave(c) /\ offline' = [offline EXCEPT ![c] = ("restart" = "stop")]
      BY <2>3 DEF Stop
    <3>2. offline' \in [Client -> BOOLEAN] /\ Leave(c)
      BY <1>0, <3>1 DEF TypeOK
    <3> QED BY <1>12, <2>3, <3>2
  <2>4. CASE Stop(c, "stop")
    <3>1. Leave(c) /\ offline' = [offline EXCEPT ![c] = ("stop" = "stop")]
      BY <2>4 DEF Stop
    <3>2. offline' \in [Client -> BOOLEAN] /\ offline'[c] = ("stop" = "stop")
      BY <1>0, <3>1 DEF TypeOK
    <3> QED BY <1>12, <2>4, <3>1, <3>2
  <2> QED BY <1>13, <2>1, <2>2, <2>3, <2>4
<1> HIDE DEF Goal
<1>14. Goal
  BY <1>2, <1>3, <1>4, <1>5, <1>6, <1>7, <1>8, <1>9, <1>10, <1>11, <1>13 DEF Proceed, Receive, Ordered
<1> QED BY <1>14 DEF Goal

\* A producer's presence is `online`, or it will hear that it is not: after a
\* step of its own, ...
LEMMA OnlineOwn ==
    ASSUME Base, NEW c \in Client, Online(c), Proceed(c) \/ Ordered(c),
           spent'["purge"] = 0, spent'["retire"] = 0
    PROVE  Online(c)'
<1>0. /\ TypeOK /\ LinkInv(c) /\ JobInv(c) /\ WordInv(c) /\ job[c] = "serve"
      /\ up[c] \in Seq(Up)
  BY DEF Base, Online, TypeOK
<1>1. ~Retire(c) /\ ~Begin(c, "purge", "purge") /\ ~Clear(c) /\ ~Read(c)
  <2>1. Retire(c) => spent'["retire"] # 0
    BY <1>0, Spent DEF Retire, Kind
  <2>2. Begin(c, "purge", "purge") => spent'["purge"] # 0
    BY <1>0, Spent DEF Begin, Kind
  <2> QED BY <1>0, <2>1, <2>2 DEF Clear, Read, JobInv
<1>2. job'[c] = "serve"
  BY <1>0, <1>1 DEF Proceed, Receive, Ordered, Unheard, Unanswered, Heard, Refused, AnswerOffline, AnswerProbe,
       Ignore, Run, Describe, Closed, Begin, Check, Stop, Fail, Crash, Drop, Gone, clientVars, TypeOK
<1>3. presence' = presence
  BY <1>0, OwnStep
<1>4. pc'[c] = "run" /\ link'[c] = "up" /\ pc[c] = "run" =>
         /\ link[c] = "up" /\ subs'[c] = subs[c]
         /\ News("presence", "offline") \in ToSet(down[c])
              => News("presence", "offline") \in ToSet(down'[c]) \/ PubOnline \in ToSet(up'[c])
  <2> SUFFICES ASSUME pc'[c] = "run", link'[c] = "up", pc[c] = "run"
               PROVE  /\ link[c] = "up" /\ subs'[c] = subs[c]
                      /\ News("presence", "offline") \in ToSet(down[c])
                           => News("presence", "offline") \in ToSet(down'[c]) \/ PubOnline \in ToSet(up'[c])
    OBVIOUS
  <2>1. CASE AnswerOffline(c)
    <3>1. PubOnline \in Up
      BY Words DEF PubOnline, Topic, Value
    <3> DEFINE r == <<PubOnline>>
    <3>2. r \in Seq(Up) /\ Say(c, r) /\ ToSet(r) = {PubOnline}
      BY <2>1, <3>1, Listed DEF AnswerOffline, PubOnline
    <3> HIDE DEF r
    <3>3. PubOnline \in ToSet(up'[c])
      BY <1>0, <3>2, Saying
    <3> QED BY <2>1, <3>3 DEF AnswerOffline, brokerVars
  <2>2. CASE AnswerProbe(c)
    <3>1. ToSet(down[c]) = {Head(down[c])} \cup ToSet(down'[c]) /\ Head(down[c]).topic = "probe"
      BY <1>0, <2>2, Taking DEF AnswerProbe, Took
    <3> QED BY <2>2, <3>1 DEF AnswerProbe, brokerVars, News
  <2>3. CASE Ignore(c)
    <3>1. /\ ToSet(down[c]) = {Head(down[c])} \cup ToSet(down'[c])
          /\ ~Heeded(c, Head(down[c]))
      BY <1>0, <2>3, Taking DEF Ignore
    <3>2. Head(down[c]) # News("presence", "offline")
      BY <3>1 DEF Heeded, News
    <3> QED BY <2>3, <3>1, <3>2 DEF Ignore, brokerVars
  <2>4. CASE Describe(c)
    BY <2>4 DEF Describe, brokerVars
  <2>5. /\ ~Unheard(c) /\ ~Unanswered(c) /\ ~Heard(c) /\ ~Refused(c) /\ ~Run(c) /\ ~Read(c) /\ ~Clear(c)
        /\ ~Closed(c) /\ ~Fail(c) /\ ~Begin(c, "serve", "start") /\ ~Begin(c, "purge", "purge")
    BY DEF Unheard, Unanswered, Heard, Refused, Run, Read, Clear, Closed, Fail, Begin
  <2>6. ~Stop(c, "stop") /\ ~Stop(c, "restart") /\ ~Retire(c) /\ ~Crash(c) /\ ~Drop(c)
    BY <1>0 DEF Stop, Leave, Retire, Crash, Gone, Drop, TypeOK
  <2> QED BY <2>1, <2>2, <2>3, <2>4, <2>5, <2>6 DEF Proceed, Receive, Ordered
<1>5. PubOnline.op = "pub" /\ PubOnline.topic = "presence" /\ Pub("presence", NONE).op = "pub" /\ Pub("presence", NONE).topic = "presence"
      /\ Sub("presence").op = "sub" /\ PubOnline # Pub("presence", NONE) /\ PubOnline # Sub("presence")
  BY ProducerAssumption DEF PubOnline, Pub, Sub
<1>6. pc[c] \notin {"run", "flush", "off"} => pc[c] \in {"listen", "probe", "read"} \/ pc[c] = "clear"
  BY <1>0 DEF TypeOK
<1>7. pc'[c] \in {"listen", "probe", "read"} => pc[c] \in {"listen", "probe", "read", "off"}
  BY <1>0, <1>1 DEF Proceed, Receive, Ordered, Unheard, Unanswered, Heard, Refused, Leave, AnswerOffline, AnswerProbe,
       Ignore, Run, Describe, Closed, Begin, Check, Stop, Fail, Crash, Drop, Gone, clientVars, TypeOK
<1>8. pc[c] \in {"listen", "probe", "read", "off"} => PubOnline \notin ToSet(up[c])
  BY <1>0, Listed DEF LinkInv, Online
<1>9. CASE up'[c] = up[c] /\ pc'[c] \notin {"run", "flush"} \ {pc[c]}
  <2> QED BY <1>0, <1>2, <1>3, <1>4, <1>7, <1>8, <1>9 DEF Online, PubOnline, Pub, Sub, News
<1>10. CASE pc'[c] = "off" /\ up'[c] = <<>>
  BY <1>2, <1>10, Listed DEF Online
<1>11. ASSUME NEW msgs \in Seq(Up), up'[c] = up[c] \o msgs, ToSet(up'[c]) = ToSet(up[c]) \cup ToSet(msgs),
             Pub("presence", NONE) \notin ToSet(msgs),
             pc'[c] \in {"listen", "probe", "read"} => PubOnline \notin ToSet(msgs),
             pc'[c] = "run" => \/ pc[c] = "run"
                               \/ PubOnline \in ToSet(msgs) /\ Ahead(up'[c], Sub("presence"), PubOnline)
      PROVE  Online(c)'
  <2>1. Pub("presence", NONE) \notin ToSet(up'[c])
    BY <1>11 DEF Online
  <2>2. pc'[c] \in {"listen", "probe", "read"} => PubOnline \notin ToSet(up'[c])
    BY <1>7, <1>8, <1>11
  <2>3. Ahead(up[c], Sub("presence"), PubOnline) => Ahead(up'[c], Sub("presence"), PubOnline)
    BY <1>0, <1>11, InOrder
  <2>4. pc'[c] = "run" /\ link'[c] = "up" =>
         /\ "presence" \in subs'[c] \/ Ahead(up'[c], Sub("presence"), PubOnline)
         /\ \/ PubOnline \in ToSet(up'[c])
            \/ /\ "presence" \in subs'[c]
               /\ presence' = "online" \/ News("presence", "offline") \in ToSet(down'[c])
    BY <1>3, <1>4, <1>11, <2>3 DEF Online
  <2> QED BY <1>2, <2>1, <2>2, <2>4 DEF Online, PubOnline, Pub, Sub, News
<1>12. ASSUME NEW msgs \in Seq(Up), up'[c] = up[c] \o msgs, ToSet(up'[c]) = ToSet(up[c]) \cup ToSet(msgs),
             /\ pc'[c] \notin {"run", "flush"} \ {pc[c]} /\ (pc'[c] = "run" \/ pc[c] # "run")
             /\ \A m \in ToSet(msgs) : m.op = "pub" => m.topic \notin {"presence", "flush"}
      PROVE  Online(c)'
  <2>1. PubOnline \notin ToSet(msgs) /\ Pub("presence", NONE) \notin ToSet(msgs)
    BY <1>5, <1>12
  <2>2. pc'[c] = "run" => pc[c] = "run"
    BY <1>12
  <2> QED BY <1>11, <1>12, <2>1, <2>2
<1>13. ASSUME NEW msgs \in Seq(Up), up'[c] = up[c] \o msgs, ToSet(up'[c]) = ToSet(up[c]) \cup ToSet(msgs),
             AnswerOffline(c), msgs = <<PubOnline>>
      PROVE  Online(c)'
  <2>1. ToSet(msgs) = {PubOnline}
    BY <1>13, Listed
  <2>2. pc[c] = "run" /\ pc'[c] = "run"
    BY <1>13 DEF AnswerOffline, clientVars
  <2>3. Pub("presence", NONE) \notin ToSet(msgs)
    BY <1>5, <2>1
  <2>4. /\ pc'[c] \in {"listen", "probe", "read"} => PubOnline \notin ToSet(msgs)
        /\ pc'[c] = "run" => pc[c] = "run"
    BY <2>2
  <2> QED BY <1>11, <1>13, <2>3, <2>4
<1>14. ASSUME NEW msgs \in Seq(Up), up'[c] = up[c] \o msgs, ToSet(up'[c]) = ToSet(up[c]) \cup ToSet(msgs),
             Run(c), msgs = <<Sub("presence"), Sub("probe"), PubOnline>>
      PROVE  Online(c)'
  <2> DEFINE s == Sub("presence")
             t == Sub("probe")
             o == PubOnline
  <2>1. msgs = <<s, t, o>> /\ s # o /\ t # o /\ s # Pub("presence", NONE) /\ t # Pub("presence", NONE)
    BY <1>14 DEF PubOnline, Sub, Pub
  <2> HIDE DEF s, t, o
  <2>2. Ahead(msgs, s, o)
    BY <2>1 DEF Ahead
  <2>3. o \notin ToSet(up[c]) /\ pc'[c] = "run"
    BY <1>0, <1>8, <1>14 DEF Run, TypeOK, o
  <2>4. Ahead(up'[c], s, o)
    BY <1>0, <1>14, <2>2, <2>3, InOrder
  <2>5. ToSet(msgs) = {s, t, o}
    BY <2>1, Listed
  <2> QED BY <1>5, <1>11, <1>14, <2>1, <2>3, <2>4, <2>5 DEF s, o
<1>15. ASSUME NEW msgs \in Seq(Up), up'[c] = up[c] \o msgs, ToSet(up'[c]) = ToSet(up[c]) \cup ToSet(msgs),
             Refused(c) \/ Fail(c) \/ Stop(c, "restart") \/ Stop(c, "stop"),
             \A m \in ToSet(msgs) : m # PubOnline /\ m # Pub("presence", NONE)
      PROVE  Online(c)'
  <2>1. pc'[c] = "flush"
    BY <1>0, <1>15 DEF Refused, Fail, Stop, Leave, TypeOK
  <2> QED BY <1>11, <1>15, <2>1
<1> QED BY <1>1, <1>9, <1>10, <1>12, <1>13, <1>14, <1>15, Said

\* ... after the broker took a message, ...
LEMMA OnlineBrought ==
    ASSUME Base, NEW c \in Client, \A e \in Client : Online(e), Broker(c)
    PROVE  \A e \in Client : Online(e)'
<1>0. TypeOK /\ \A e \in Client : Online(e) /\ WordInv(e) /\ up[e] \in Seq(Up)
  BY DEF Base, TypeOK
<1> DEFINE m == Head(up[c])
           s == Sub("presence")
           o == PubOnline
<1>1. /\ m.topic \in Topic /\ m.value \in Value /\ m \in Up /\ up[c] # <<>> /\ m \in ToSet(up[c])
      /\ ToSet(up[c]) = {m} \cup ToSet(up'[c]) /\ up'[c] = Tail(up[c])
      /\ \A e \in Client \ {c} : up'[e] = up[e]
      /\ \/ m.op = "sub" /\ Subscribed(c, m.topic)
         \/ /\ m.op = "pub" /\ Deliver(m.topic, m.value) /\ subs' = subs
            /\ presence' = IF m.topic = "presence" THEN m.value ELSE presence
      /\ pc' = pc /\ job' = job /\ link' = link
  BY <1>0, Brokering DEF Broker, clientVars
<1>2. /\ s.op = "sub" /\ s.topic = "presence" /\ o.op = "pub" /\ o.topic = "presence" /\ o.value = "online"
      /\ s # o
  BY DEF PubOnline, Pub, Sub
<1>3. m.op = "pub" /\ m.topic = "presence" => (m.value = "online" /\ m = o) \/ m.value = "offline"
  <2>1. m.op = "pub" /\ m.topic = "presence" => m.value \in {"online", "offline", NONE} /\ m # Pub("presence", NONE)
    BY <1>0, <1>1 DEF WordInv, Online
  <2>2. m.op = "pub" /\ m.topic = "presence" => m = Pub("presence", m.value)
    BY <1>1 DEF Up, Pub
  <2> QED BY <2>1, <2>2 DEF PubOnline
<1>4. \A e \in Client : /\ ToSet(up'[e]) \subseteq ToSet(up[e])
                        /\ o \in ToSet(up[e]) => o \in ToSet(up'[e]) \/ (e = c /\ m = o)
                        /\ Ahead(up[e], s, o) => Ahead(up'[e], s, o) \/ (e = c /\ m = s)
                        /\ Ahead(up[c], s, o) => m # o
  <2>1. Ahead(up[c], s, o) /\ m # s => Ahead(up'[c], s, o)
    BY <1>0, <1>1, TakenInOrder
  <2>2. Ahead(up[c], s, o) => m # o
    BY <1>0, <1>1, <1>2, TakenInOrder
  <2> HIDE DEF m, s, o
  <2> QED BY <1>1, <2>1, <2>2
<1>5. \A e \in Client : /\ subs[e] \subseteq subs'[e] /\ ToSet(down[e]) \subseteq ToSet(down'[e])
                        /\ e = c /\ m = s => "presence" \in subs'[e]
                        /\ m.op = "sub" => presence' = presence
                        /\ m.op = "pub" /\ m.topic = "presence" /\ m.value = "offline" /\ "presence" \in subs[e]
                            => News("presence", "offline") \in ToSet(down'[e])
  <2> DEFINE t == m.topic
             v == m.value
             sub == m.op = "sub"
  <2>1. /\ t \in Topic /\ v \in Value
        /\ (sub /\ Subscribed(c, t)) \/ (~sub /\ Deliver(t, v) /\ subs' = subs)
        /\ m = s => t = "presence" /\ sub
    BY <1>1, <1>2
  <2>2. CASE sub /\ Subscribed(c, t)
    <3> HIDE DEF t, v, m, s, o
    <3>0. TypeOK
      BY <1>0
    <3>1. /\ subs'[c] = subs[c] \cup {t} /\ \A e \in Client \ {c} : subs'[e] = subs[e]
          /\ \A e \in Client \ {c} : down'[e] = down[e]
          /\ ToSet(down'[c]) = ToSet(down[c]) \cup {Kept(presence)} \/ down'[c] = down[c]
          /\ presence' = presence
      BY <2>1, <2>2, <3>0, Subscribing DEF Subscribed
    <3> QED BY <2>1, <2>2, <3>1
  <2>3. CASE ~sub /\ Deliver(t, v) /\ subs' = subs
    <3> HIDE DEF t, v, m, s, o
    <3>0. TypeOK
      BY <1>0
    <3>1. t \in Topic /\ v \in Value /\ Deliver(t, v)
      BY <2>1, <2>3
    <3>2. \A e \in Client : /\ down'[e] = down[e] \/ ToSet(down'[e]) = ToSet(down[e]) \cup {News(t, v)}
                            /\ t \in subs[e] /\ t \notin {"alive", "flush"}
                                => ToSet(down'[e]) = ToSet(down[e]) \cup {News(t, v)}
      BY <3>0, <3>1, Delivering
    <3> QED BY <2>1, <2>3, <3>2 DEF t, v
  <2> QED BY <2>1, <2>2, <2>3
<1> HIDE DEF m, s
<1>6. ASSUME NEW e \in Client, pc[e] = "run", link[e] = "up"
      PROVE  /\ "presence" \in subs'[e] \/ Ahead(up'[e], s, PubOnline)
             /\ \/ PubOnline \in ToSet(up'[e])
                \/ /\ "presence" \in subs'[e]
                   /\ presence' = "online" \/ News("presence", "offline") \in ToSet(down'[e])
  <2>1. /\ "presence" \in subs[e] \/ Ahead(up[e], s, o)
        /\ \/ o \in ToSet(up[e])
           \/ /\ "presence" \in subs[e]
              /\ presence = "online" \/ News("presence", "offline") \in ToSet(down[e])
    BY <1>0, <1>6 DEF Online, s
  <2> HIDE DEF o
  <2>2. "presence" \in subs'[e] \/ Ahead(up'[e], s, o)
    BY <1>4, <1>5, <2>1
  <2>3. \/ o \in ToSet(up'[e])
        \/ /\ "presence" \in subs'[e]
           /\ presence' = "online" \/ News("presence", "offline") \in ToSet(down'[e])
    <3>1. CASE m.op = "pub" /\ m.topic = "presence"
      <4>1. CASE m.value = "offline"
        <5>1. m # o
          BY <1>2, <4>1
        <5> QED BY <1>4, <1>5, <2>1, <3>1, <4>1, <5>1
      <4>2. CASE m.value = "online" /\ m = o
        <5>1. presence' = "online" /\ subs' = subs
          BY <1>1, <3>1, <4>2
        <5>2. CASE o \notin ToSet(up'[e]) /\ o \in ToSet(up[e])
          <6>1. e = c /\ ~Ahead(up[e], s, o)
            BY <1>4, <4>2, <5>2
          <6> QED BY <2>1, <5>1, <6>1
        <5>3. CASE o \notin ToSet(up[e])
          BY <2>1, <5>1, <5>3
        <5> QED BY <5>2, <5>3
      <4> QED BY <1>3, <3>1, <4>1, <4>2
    <3>2. CASE ~(m.op = "pub" /\ m.topic = "presence")
      <4>1. presence' = presence /\ m # o
        BY <1>1, <1>2, <1>5, <3>2
      <4> QED BY <1>4, <1>5, <2>1, <4>1
    <3> QED BY <3>1, <3>2
  <2> QED BY <2>2, <2>3 DEF o
<1>7. \A e \in Client : /\ job'[e] = "serve" /\ Pub("presence", NONE) \notin ToSet(up'[e])
                        /\ pc'[e] \in {"listen", "probe", "read"} => PubOnline \notin ToSet(up'[e])
  BY <1>0, <1>1, <1>4 DEF Online
<1> QED BY <1>1, <1>6, <1>7 DEF Online, PubOnline, Pub, Sub, News, s

\* ... and after it reconnected.
LEMMA OnlineAgain ==
    ASSUME Base, NEW c \in Client, Online(c), Reconnect(c)
    PROVE  Online(c)'
<1>0. TypeOK /\ JobInv(c) /\ Online(c) /\ up[c] \in Seq(Up)
  BY DEF Base, TypeOK
<1> DEFINE a == Listens(c)
           q == Queued(up[c])
           s == Sub("presence")
           t == Sub("probe")
           o == PubOnline
           d == Pub("devices", "shown")
           n == Pub("presence", NONE)
<1>1. PICK more \in Seq(Up) :
        /\ up'[c] = (a \o q) \o more /\ ToSet(up'[c]) = (ToSet(a) \cup ToSet(q)) \cup ToSet(more)
        /\ q \in Seq(Up)
        /\ \/ pc[c] = "run" /\ more = <<o>>
           \/ pc[c] = "run" /\ more = <<o, d>>
           \/ pc[c] # "run" /\ more = <<>>
  BY <1>0, Reconnecting
<1>2. ToSet(q) \subseteq ToSet(up[c])
  BY <1>0, Requeued
<1>3. a \in Seq(Up) /\ (pc[c] = "run" => a = <<s, t>>) /\ \A m \in ToSet(a) : m.op = "sub"
  BY Listening
<1>4. o # n /\ d # n /\ o.op = "pub" /\ n.op = "pub" /\ s # o /\ t # o
  BY ProducerAssumption DEF PubOnline, Pub, Sub
<1>5. pc' = pc /\ job' = job /\ presence' = presence
  BY DEF Reconnect, clientVars, brokerVars
<1>6. n \notin ToSet(up[c]) /\ (pc[c] \in {"listen", "probe", "read"} => o \notin ToSet(up[c]))
  BY <1>0 DEF Online
<1> HIDE DEF a, q, s, t, o, d, n
<1>7. \/ pc[c] = "run" /\ (ToSet(more) = {o} \/ ToSet(more) = {o, d})
      \/ pc[c] # "run" /\ ToSet(more) = {}
  BY <1>1, Listed
<1>8. n \notin ToSet(up'[c]) /\ (pc[c] \in {"listen", "probe", "read"} => o \notin ToSet(up'[c]))
  BY <1>1, <1>2, <1>3, <1>4, <1>6, <1>7
<1>9. pc[c] = "run" => o \in ToSet(up'[c]) /\ Ahead(up'[c], s, o)
  <2> SUFFICES ASSUME pc[c] = "run" PROVE o \in ToSet(up'[c]) /\ Ahead(up'[c], s, o)
    OBVIOUS
  <2>1. Ahead(a, s, o)
    <3>1. a = <<s, t>>
      BY <1>3
    <3> QED BY <1>4, <3>1 DEF Ahead
  <2>2. a \o q \in Seq(Up) /\ Ahead(a \o q, s, o)
    BY <1>1, <1>3, <2>1, Joined, InOrder
  <2>3. Ahead(up'[c], s, o)
    BY <1>1, <2>2, InOrder
  <2> QED BY <1>1, <1>7, <2>3
<1> QED BY <1>0, <1>5, <1>8, <1>9 DEF Online, PubOnline, Pub, Sub, News, s, o, n

\* So every step keeps that producers are `online`, or hear that they are not.
LEMMA OnlineKept ==
    ASSUME Base, OnlineInv, [Next]_vars
    PROVE  OnlineInv'
<1> SUFFICES ASSUME spent'["purge"] = 0, spent'["retire"] = 0
             PROVE  \A e \in Client : Online(e)'
  BY DEF OnlineInv
<1>0. TypeOK /\ spent["purge"] = 0 /\ spent["retire"] = 0
  BY Counting DEF Base, Kind
<1>1. \A e \in Client : Online(e)
  BY <1>0 DEF OnlineInv
<1>2. ASSUME NEW c \in Client, Proceed(c) \/ Ordered(c) \/ Reconnect(c), Online(c)' PROVE \A e \in Client : Online(e)'
  <2>1. /\ presence' = presence
        /\ \A e \in Client \ {c} : /\ pc'[e] = pc[e] /\ job'[e] = job[e] /\ link'[e] = link[e]
                                   /\ up'[e] = up[e] /\ down'[e] = down[e] /\ subs'[e] = subs[e]
    BY <1>0, <1>2, OwnStep
  <2>2. \A e \in Client \ {c} : Online(e)'
    BY <1>1, <2>1 DEF Online, PubOnline, Pub, Sub, News
  <2> QED BY <1>2, <2>2
<1>3. ASSUME NEW c \in Client, Proceed(c) \/ Ordered(c) PROVE \A e \in Client : Online(e)'
  BY <1>1, <1>2, <1>3, OnlineOwn
<1>4. ASSUME NEW c \in Client, Reconnect(c) PROVE \A e \in Client : Online(e)'
  BY <1>1, <1>2, <1>4, OnlineAgain
<1>5. ASSUME NEW c \in Client, Broker(c) PROVE \A e \in Client : Online(e)'
  BY <1>1, <1>5, OnlineBrought
<1>6. CASE Will
  <2>1. /\ Deliver("presence", "offline") /\ "presence" \in Topic /\ "offline" \in Value
        /\ pc' = pc /\ job' = job /\ link' = link /\ up' = up /\ subs' = subs
    BY <1>6 DEF Will, clientVars, Topic, Value
  <2>2. \A e \in Client : /\ ToSet(down[e]) \subseteq ToSet(down'[e])
                          /\ "presence" \in subs[e] => News("presence", "offline") \in ToSet(down'[e])
    <3> DEFINE t == "presence"
               v == "offline"
    <3>1. t \in Topic /\ v \in Value /\ Deliver(t, v) /\ t # "alive" /\ t # "flush"
      BY <2>1
    <3>2. TypeOK
      BY <1>0
    <3> HIDE DEF t, v
    <3>3. \A e \in Client : /\ down'[e] = down[e] \/ ToSet(down'[e]) = ToSet(down[e]) \cup {News(t, v)}
                            /\ t \in subs[e] /\ t \notin {"alive", "flush"}
                                => ToSet(down'[e]) = ToSet(down[e]) \cup {News(t, v)}
      BY <3>1, <3>2, Delivering
    <3> QED BY <3>1, <3>3 DEF t, v
  <2> QED BY <1>1, <2>1, <2>2 DEF Online, PubOnline, Pub, Sub, News
<1>7. CASE UNCHANGED vars
  BY <1>1, <1>7 DEF Online, PubOnline, Pub, Sub, News, vars, clientVars, brokerVars
<1> QED BY <1>3, <1>4, <1>5, <1>6, <1>7 DEF Next
\* Whoever said `online` takes it back before it is gone: what a client says in
\* a step of its own keeps that order, ...
LEMMA LastSaid ==
    ASSUME Base, NEW c \in Client, LastWords(c), Proceed(c) \/ Ordered(c), ~Stop(c, "restart")
    PROVE  LastWords(c)'
<1> DEFINE o == PubOnline
           f == PubOffline
           h == PubFlush(c)
           u == up[c]
<1>0. TypeOK /\ LinkInv(c) /\ JobInv(c) /\ u \in Seq(Up)
  BY DEF Base, TypeOK
<1>1. /\ o \in ToSet(u) => job[c] # "purge"
      /\ pc[c] # "run" => Then(u, o, f)
      /\ pc[c] = "flush" => Then(u, f, h)
  BY DEF LastWords
<1>2. \/ job'[c] = job[c] \/ job'[c] = "retire"
      \/ pc[c] = "off" /\ \E task, kind : Begin(c, task, kind)
  BY <1>0 DEF Proceed, Receive, Ordered, Unheard, Unanswered, Heard, Refused, AnswerOffline, AnswerProbe,
       Ignore, Run, Describe, Read, Clear, Closed, Begin, Stop, Retire, Fail, Crash, Drop, Gone, clientVars, TypeOK
<1>3. \A q : (o \notin ToSet(q) => Then(q, o, f)) /\ (f \notin ToSet(q) => Then(q, f, h))
  BY DEF Then, ToSet
<1>4. o # f /\ o # h /\ f # h /\ o.op = "pub" /\ f.op = "pub" /\ o.topic = "presence" /\ f.topic = "presence"
      /\ (\A t \in Topic : Sub(t) # o /\ Sub(t) # f /\ Sub(t) # h)
  BY DEF PubOnline, PubOffline, PubFlush, Pub, Sub
<1>5. pc[c] = "off" => u = <<>> /\ o \notin ToSet(u) /\ f \notin ToSet(u)
  BY <1>0, Listed DEF LinkInv
<1>6. pc[c] = "run" /\ pc'[c] # "run" => Retire(c) \/ Stop(c, "stop") \/ Crash(c)
  BY <1>0 DEF Proceed, Receive, Ordered, Unheard, Unanswered, Heard, Refused, AnswerOffline, AnswerProbe,
       Ignore, Run, Describe, Read, Clear, Closed, Begin, Fail, Drop, clientVars, TypeOK
<1>7. AnswerOffline(c) \/ Run(c) => job[c] = "serve" /\ job'[c] = "serve" /\ pc'[c] = "run"
  BY <1>0 DEF AnswerOffline, Run, JobInv, clientVars, TypeOK
<1>8. Stop(c, "stop") \/ Retire(c) => job[c] = "serve" /\ job'[c] # "purge"
  BY <1>0 DEF Stop, Retire, JobInv, TypeOK
\* Nothing is said.
<1>9. CASE up'[c] = u /\ pc'[c] \notin {"run", "flush"} \ {pc[c]}
  <2>1. ~Retire(c) /\ ~Stop(c, "stop")
    <3>1. Stop(c, "stop") => pc[c] = "run" /\ pc'[c] = "flush"
      BY <1>0 DEF Stop, Leave, TypeOK
    <3>2. ~Retire(c)
      <4> SUFFICES ASSUME Retire(c) PROVE FALSE
        OBVIOUS
      <4> DEFINE r == <<f, Sub("presence")>>
      <4>1. f \in Up /\ Sub("presence") \in Up
        BY Words DEF Topic, Value, PubOffline
      <4>2. r \in Seq(Up) /\ Say(c, r) /\ Len(r) = 2
        BY <4>1 DEF Retire, PubOffline
      <4> HIDE DEF r, u
      <4>3. up'[c] = u \o r
        BY <1>0, <4>2, Saying DEF u
      <4>4. Len(u \o r) = Len(u) + Len(r) /\ Len(u) \in Nat
        BY <1>0, <4>2, ConcatProperties, LenProperties
      <4>5. u \o r # u
        BY <1>0, <4>2, <4>4
      <4> QED BY <1>9, <4>3, <4>5
    <3> QED BY <1>9, <3>1, <3>2
  <2>2. (pc'[c] # "run" => Then(u, o, f)) /\ (pc'[c] = "flush" => Then(u, f, h))
    <3>1. Crash(c) => o \notin ToSet(u) /\ pc'[c] = "off"
      BY <1>0, <1>9, Listed DEF Crash, Gone, TypeOK
    <3> QED BY <1>1, <1>3, <1>5, <1>6, <1>9, <2>1, <3>1
  <2>3. o \in ToSet(u) => job'[c] # "purge"
    BY <1>1, <1>2, <1>5
  <2> QED BY <1>9, <2>2, <2>3 DEF LastWords
<1>10. CASE pc'[c] = "off" /\ up'[c] = <<>>
  BY <1>3, <1>10, Listed DEF LastWords
\* Something is.
<1>11. ASSUME NEW msgs \in Seq(Up), up'[c] = u \o msgs, ToSet(up'[c]) = ToSet(u) \cup ToSet(msgs),
             o \in ToSet(msgs) => pc'[c] = "run" /\ job'[c] # "purge",
             pc[c] = "run" /\ pc'[c] # "run" => f \in ToSet(msgs),
             f \in ToSet(msgs) => Then(msgs, o, f),
             pc'[c] = "flush" /\ pc[c] # "flush" => h \in ToSet(msgs) /\ Then(msgs, f, h),
             pc'[c] = "flush" /\ pc[c] = "flush" => Then(msgs, f, h)
      PROVE  LastWords(c)'
  <2>1. pc'[c] # "run" => Then(up'[c], o, f)
    <3> SUFFICES ASSUME pc'[c] # "run" PROVE Then(u \o msgs, o, f)
      BY <1>11
    <3>1. Then(msgs, o, f)
      BY <1>3, <1>11
    <3>2. Then(u, o, f) \/ f \in ToSet(msgs)
      BY <1>1, <1>11
    <3> HIDE DEF o, f, u
    <3> QED BY <1>0, <3>1, <3>2, InOrder
  <2>2. pc'[c] = "flush" => Then(up'[c], f, h)
    <3> SUFFICES ASSUME pc'[c] = "flush" PROVE Then(u \o msgs, f, h)
      BY <1>11
    <3>1. Then(msgs, f, h) /\ (Then(u, f, h) \/ h \in ToSet(msgs))
      BY <1>1, <1>11
    <3> HIDE DEF h, f, u
    <3> QED BY <1>0, <3>1, InOrder
  <2>3. o \in ToSet(up'[c]) => job'[c] # "purge"
    BY <1>1, <1>2, <1>5, <1>11
  <2> QED BY <2>1, <2>2, <2>3 DEF LastWords
<1>12. ASSUME NEW msgs \in Seq(Up), up'[c] = u \o msgs, ToSet(up'[c]) = ToSet(u) \cup ToSet(msgs),
             pc'[c] \notin {"run", "flush"} \ {pc[c]}, pc'[c] = "run" \/ pc[c] # "run",
             \A m \in ToSet(msgs) : m.op = "pub" => m.topic \notin {"presence", "flush"}
      PROVE  LastWords(c)'
  <2>1. o \notin ToSet(msgs) /\ f \notin ToSet(msgs)
    BY <1>4, <1>12
  <2> QED BY <1>3, <1>11, <1>12, <2>1
<1>13. ASSUME NEW msgs \in Seq(Up), up'[c] = u \o msgs, ToSet(up'[c]) = ToSet(u) \cup ToSet(msgs),
             \/ AnswerOffline(c) /\ msgs = <<o>>
             \/ Run(c) /\ msgs = <<Sub("presence"), Sub("probe"), o>>
      PROVE  LastWords(c)'
  <2>1. f \notin ToSet(msgs)
    BY <1>4, <1>13, Listed DEF Topic
  <2> QED BY <1>7, <1>11, <1>13, <2>1
<1>14. ASSUME NEW msgs \in Seq(Up), up'[c] = u \o msgs, ToSet(up'[c]) = ToSet(u) \cup ToSet(msgs),
             Retire(c), msgs = <<f, Sub("presence")>>
      PROVE  LastWords(c)'
  <2>1. ToSet(msgs) = {f, Sub("presence")} /\ o \notin ToSet(msgs)
    <3>1. ToSet(msgs) = {f, Sub("presence")}
      BY <1>14, Listed
    <3> QED BY <1>4, <3>1 DEF Topic
  <2>2. pc'[c] = "listen"
    BY <1>0, <1>14 DEF Retire, TypeOK
  <2> QED BY <1>3, <1>11, <1>14, <2>1, <2>2
<1>15. ASSUME NEW msgs \in Seq(Up), up'[c] = u \o msgs, ToSet(up'[c]) = ToSet(u) \cup ToSet(msgs),
             Clear(c), h \in ToSet(msgs), o \notin ToSet(msgs), f \notin ToSet(msgs)
      PROVE  LastWords(c)'
  <2>1. pc[c] = "clear"
    BY <1>15 DEF Clear
  <2> QED BY <1>3, <1>11, <1>15, <2>1
<1>16. ASSUME NEW msgs \in Seq(Up), up'[c] = u \o msgs, ToSet(up'[c]) = ToSet(u) \cup ToSet(msgs),
             Refused(c) \/ Fail(c) \/ (Stop(c, "stop") /\ f \in ToSet(msgs)),
             h \in ToSet(msgs), Then(msgs, f, h), o \notin ToSet(msgs)
      PROVE  LastWords(c)'
  <2>1. Refused(c) \/ Fail(c) => pc[c] # "run"
    BY DEF Refused, Fail
  <2> QED BY <1>3, <1>11, <1>16, <2>1
<1> QED
  <2> HIDE DEF u
  <2>1. \/ up'[c] = u /\ pc'[c] \notin {"run", "flush"} \ {pc[c]}
        \/ pc'[c] = "off" /\ up'[c] = <<>>
        \/ \E msgs \in Seq(Up) :
             /\ up'[c] = u \o msgs
             /\ ToSet(up'[c]) = ToSet(u) \cup ToSet(msgs)
             /\ \/ /\ pc'[c] \notin {"run", "flush"} \ {pc[c]} /\ (pc'[c] = "run" \/ pc[c] # "run")
                   /\ \A m \in ToSet(msgs) : m.op = "pub" => m.topic \notin {"presence", "flush"}
                \/ AnswerOffline(c) /\ msgs = <<o>>
                \/ Run(c) /\ msgs = <<Sub("presence"), Sub("probe"), o>>
                \/ Retire(c) /\ msgs = <<f, Sub("presence")>>
                \/ /\ Clear(c) /\ h \in ToSet(msgs)
                   /\ o \notin ToSet(msgs) /\ f \notin ToSet(msgs)
                \/ /\ Refused(c) \/ Fail(c) \/ (Stop(c, "stop") /\ f \in ToSet(msgs))
                   /\ h \in ToSet(msgs) /\ Then(msgs, f, h) /\ o \notin ToSet(msgs)
    BY Said DEF u
  <2> HIDE DEF o, f, h
  <2> QED BY <1>9, <1>10, <1>12, <1>13, <1>14, <1>15, <1>16, <2>1
\* ... and leaves somebody who takes an `online` back, ...
LEMMA TakenBack ==
    ASSUME Base, NEW c \in Client, LastWords(c), Proceed(c) \/ Ordered(c),
           spent'["late"] = 0, spent'["restart"] = 0, TakesBack(c)
    PROVE  ghosts' > 0 \/ TakesBack(c)'
<1> DEFINE o == PubOnline
           f == PubOffline
           h == PubFlush(c)
           u == up[c]
<1>0. TypeOK /\ LinkInv(c) /\ JobInv(c) /\ WordInv(c) /\ u \in Seq(Up) /\ ghosts \in Nat
  BY DEF Base, TypeOK
<1>1. link[c] = "up" /\ job[c] # "purge" /\ (pc[c] = "run" \/ f \in ToSet(u)) /\ HasWill(c) /\ pc[c] # "off"
  BY <1>0 DEF TakesBack, HasWill, LinkInv
<1>2. ~Stop(c, "restart")
  BY <1>0, Spent DEF Stop, Kind
<1>3. Crash(c) \/ Drop(c) => ghosts' > 0
  BY <1>0, <1>1 DEF Crash, Drop, Gone
<1>4. ~Closed(c)
  <2> SUFFICES ASSUME Closed(c) PROVE FALSE
    OBVIOUS
  <2>1. pc[c] = "flush" /\ f \in ToSet(u)
    BY <1>1 DEF Closed
  <2>2. ~Spend("late")
    BY <1>0, Spent DEF Kind
  <2>3. ASSUME down[c] # <<>>, Head(down[c]).topic = "flush"
        PROVE  h \notin ToSet(u)
    <3>1. Head(down[c]) \in ToSet(down[c]) /\ Head(down[c]) \in Down
      BY <1>0, <2>3, Taken DEF TypeOK
    <3>2. Head(down[c]) = News("flush", c)
      BY <1>0, <2>3, <3>1 DEF WordInv, News, Down
    <3> QED BY <1>0, <3>1, <3>2 DEF WordInv
  <2>4. ~UnderWay({"flush"}, c) => h \notin ToSet(u)
    BY DEF UnderWay, PubFlush, Pub
  <2>5. h \notin ToSet(u)
    BY <1>1, <2>2, <2>3, <2>4 DEF Closed
  <2>6. Then(u, f, h)
    BY <2>1 DEF LastWords
  <2>7. \A q, m, n : Then(q, m, n) /\ m \in ToSet(q) => n \in ToSet(q)
    BY DEF Then, ToSet
  <2> QED BY <2>1, <2>5, <2>6, <2>7
<1>5. \A task, kind : ~Begin(c, task, kind)
  BY <1>1 DEF Begin
<1>6. ~Crash(c) /\ ~Drop(c) => link'[c] = link[c] /\ job'[c] # "purge"
  BY <1>0, <1>1, <1>4, <1>5 DEF Proceed, Receive, Ordered, Unheard, Unanswered, Heard, Refused, AnswerOffline, AnswerProbe,
       Ignore, Run, Describe, Read, Clear, Stop, Retire, Fail, clientVars, TypeOK
<1>7. pc[c] = "run" /\ pc'[c] # "run" => Retire(c) \/ Stop(c, "stop") \/ Crash(c)
  BY <1>0, <1>2 DEF Proceed, Receive, Ordered, Unheard, Unanswered, Heard, Refused, AnswerOffline, AnswerProbe,
       Ignore, Run, Describe, Read, Clear, Closed, Begin, Fail, Drop, clientVars, TypeOK
<1>8. Retire(c) \/ Stop(c, "stop") => f \in ToSet(up'[c])
  <2>1. ASSUME Stop(c, "stop") PROVE f \in ToSet(up'[c])
    <3>1. Leave(c) /\ offline' \in [Client -> BOOLEAN] /\ offline'[c]
      BY <1>0, <2>1 DEF Stop, TypeOK
    <3>2. PICK msgs \in Seq(Up) : Say(c, msgs) /\ msgs = <<f, Sub("flush"), h>>
      BY <1>0, <3>1, Leaving
    <3>3. f \in ToSet(msgs)
      BY <3>2, Listed
    <3>4. TypeOK /\ Say(c, msgs)
      BY <1>0, <3>2
    <3> HIDE DEF f
    <3> QED BY <3>3, <3>4, Saying
  <2>2. ASSUME Retire(c) PROVE f \in ToSet(up'[c])
    <3> DEFINE r == <<f, Sub("presence")>>
    <3>1. f \in Up /\ Sub("presence") \in Up
      BY Words DEF Topic, Value, PubOffline
    <3>2. r \in Seq(Up) /\ Say(c, r) /\ f \in ToSet(r)
      BY <2>2, <3>1, Listed DEF Retire, PubOffline
    <3> HIDE DEF r
    <3> QED BY <1>0, <3>2, Saying
  <2> QED BY <2>1, <2>2
<1>9. ~Crash(c) => ToSet(u) \subseteq ToSet(up'[c])
  BY <1>4, Said
<1> QED BY <1>0, <1>1, <1>3, <1>6, <1>7, <1>8, <1>9 DEF TakesBack

\* ... as the broker does when it takes a message, ...
LEMMA LastBrought ==
    ASSUME Base, NEW c \in Client, \A e \in Client : LastWords(e), Broker(c),
           presence = "online" => ghosts > 0 \/ \E e \in Client : TakesBack(e)
    PROVE  /\ \A e \in Client : LastWords(e)'
           /\ presence' = "online" => ghosts' > 0 \/ \E e \in Client : TakesBack(e)'
<1> DEFINE m == Head(up[c])
           o == PubOnline
           f == PubOffline
<1>0. TypeOK /\ WordInv(c) /\ LastWords(c)
  BY DEF Base
<1>1. /\ link[c] = "up" /\ up[c] # <<>> /\ up[c] \in Seq(Up) /\ m \in Up /\ up'[c] = Tail(up[c])
      /\ ToSet(up[c]) = {m} \cup ToSet(up'[c])
      /\ \A e \in Client \ {c} : up'[e] = up[e]
      /\ pc' = pc /\ job' = job /\ link' = link /\ ghosts' = ghosts
      /\ m.op = "sub" => presence' = presence
      /\ m.op = "pub" => presence' = IF m.topic = "presence" THEN m.value ELSE presence
  BY <1>0, Brokering DEF Broker, Subscribed, clientVars
<1>2. \A e \in Client \ {c} : LastWords(e)'
  BY <1>1 DEF LastWords, PubOnline, PubOffline, PubFlush, Pub
<1>3. LastWords(c)'
  <2>1. \A x, y : Then(up[c], x, y) => Then(up'[c], x, y)
    BY <1>1, TakenInOrder
  <2> QED BY <1>0, <1>1, <2>1 DEF LastWords, PubOnline, PubOffline, PubFlush, Pub
<1>4. m.op = "pub" /\ m.topic = "presence" => m = Pub("presence", m.value)
  BY <1>1 DEF Up, Pub
<1>5. ASSUME presence' = "online", m = o PROVE TakesBack(c)'
  <2>1. job[c] # "purge" /\ (pc[c] # "run" => Then(up[c], o, f))
    BY <1>0, <1>1, <1>5 DEF LastWords
  <2>2. Then(up[c], o, f) => f \in ToSet(up'[c])
    BY <1>1, <1>5, TakenInOrder
  <2> QED BY <1>1, <2>1, <2>2 DEF TakesBack, PubOffline, Pub
<1>6. ASSUME presence' = "online", m # o PROVE presence = "online" /\ m # f
  BY <1>1, <1>4, <1>6 DEF PubOnline, PubOffline, Pub, Up
<1>7. ASSUME NEW e \in Client, TakesBack(e), m # f PROVE TakesBack(e)'
  BY <1>1, <1>7 DEF TakesBack, PubOffline, Pub
<1> QED BY <1>1, <1>2, <1>3, <1>5, <1>6, <1>7

\* ... and a client that reconnects.
LEMMA LastAgain ==
    ASSUME Base, NEW c \in Client, LastWords(c), Reconnect(c)
    PROVE  LastWords(c)'
<1> DEFINE a == Listens(c)
           q == Queued(up[c])
           o == PubOnline
           f == PubOffline
           h == PubFlush(c)
           u == up[c]
<1>0. TypeOK /\ JobInv(c) /\ u \in Seq(Up)
  BY DEF Base, TypeOK
<1>1. PICK more \in Seq(Up) :
        /\ up'[c] = (a \o q) \o more /\ ToSet(up'[c]) = (ToSet(a) \cup ToSet(q)) \cup ToSet(more)
        /\ q \in Seq(Up) /\ (pc[c] # "run" => more = <<>>)
  BY <1>0, Reconnecting
<1>2. a \in Seq(Up) /\ \A x \in ToSet(a) : x.op = "sub"
  BY Listening
<1>3. o.op = "pub" /\ f.op = "pub" /\ h.op = "pub"
  BY DEF PubOnline, PubOffline, PubFlush, Pub
<1>4. pc' = pc /\ job' = job
  BY DEF Reconnect, clientVars
<1>5. /\ ToSet(q) \subseteq ToSet(u)
      /\ \A m, n : Then(u, m, n) /\ n.op = "pub" => Then(q, m, n)
  BY <1>0, Requeued
<1>6. /\ o \in ToSet(u) => job[c] # "purge"
      /\ pc[c] # "run" => Then(u, o, f)
      /\ pc[c] = "flush" => Then(u, f, h)
      /\ pc[c] = "run" => job[c] = "serve"
  BY <1>0 DEF LastWords, JobInv
<1> HIDE DEF a, q, o, f, h, u
<1>7. pc[c] # "run" => up'[c] = a \o q /\ ToSet(more) = {}
  <2>1. a \o q \in Seq(Up)
    BY <1>1, <1>2
  <2> QED BY <1>1, <2>1, ConcatEmptySeq, Listed
<1>8. o \in ToSet(up'[c]) => job[c] # "purge"
  BY <1>1, <1>2, <1>3, <1>5, <1>6, <1>7
<1>9. \A m, n : m.op = "pub" /\ Then(q, m, n) => Then(a \o q, m, n)
  <2> SUFFICES ASSUME NEW m, NEW n, m.op = "pub", Then(q, m, n) PROVE Then(a \o q, m, n)
    OBVIOUS
  <2>1. Then(a, m, n)
    BY <1>2 DEF Then, ToSet
  <2> QED BY <1>1, <1>2, <2>1, InOrder
<1> QED BY <1>3, <1>4, <1>5, <1>6, <1>7, <1>8, <1>9 DEF LastWords, PubOnline, PubOffline, PubFlush, Pub, o, f, h

\* So every step keeps that somebody takes an `online` back.
LEMMA OfflineKept ==
    ASSUME Base, OfflineInv, [Next]_vars
    PROVE  OfflineInv'
<1> SUFFICES ASSUME spent'["late"] = 0, spent'["restart"] = 0
             PROVE  /\ \A e \in Client : LastWords(e)'
                    /\ presence' = "online" => ghosts' > 0 \/ \E e \in Client : TakesBack(e)'
  BY DEF OfflineInv
<1>0. TypeOK /\ spent["late"] = 0 /\ spent["restart"] = 0 /\ ghosts \in Nat
  BY Counting DEF Base, Kind, TypeOK
<1>1. /\ \A e \in Client : LastWords(e)
      /\ presence = "online" => ghosts > 0 \/ \E e \in Client : TakesBack(e)
  BY <1>0 DEF OfflineInv
<1>2. ASSUME NEW c \in Client, Proceed(c) \/ Ordered(c) \/ Reconnect(c)
      PROVE  /\ presence' = presence
             /\ \A e \in Client \ {c} : LastWords(e)' /\ (TakesBack(e) => TakesBack(e)')
  <2>1. /\ presence' = presence
        /\ \A e \in Client \ {c} : pc'[e] = pc[e] /\ job'[e] = job[e] /\ link'[e] = link[e] /\ up'[e] = up[e]
    BY <1>0, <1>2, OwnStep
  <2> QED BY <1>1, <2>1 DEF LastWords, TakesBack, PubOnline, PubOffline, PubFlush, Pub
<1>3. ASSUME NEW c \in Client, Proceed(c) \/ Ordered(c)
      PROVE  /\ \A e \in Client : LastWords(e)'
             /\ presence' = "online" => ghosts' > 0 \/ \E e \in Client : TakesBack(e)'
  <2>1. ~Stop(c, "restart")
    BY <1>0, Spent DEF Stop, Kind
  <2>2. LastWords(c)'
    BY <1>1, <1>3, <2>1, LastSaid
  <2>3. TakesBack(c) => ghosts' > 0 \/ TakesBack(c)'
    BY <1>1, <1>3, TakenBack
  <2>4. ghosts' >= ghosts /\ ghosts' \in Nat
    BY <1>0, <1>3 DEF Proceed, Receive, Ordered, Unheard, Unanswered, Heard, Refused, AnswerOffline, AnswerProbe,
         Ignore, Run, Describe, Read, Clear, Closed, Begin, Stop, Retire, Fail, Crash, Drop, Gone, brokerVars
  <2> QED BY <1>0, <1>1, <1>2, <1>3, <2>2, <2>3, <2>4
<1>4. ASSUME NEW c \in Client, Reconnect(c)
      PROVE  /\ \A e \in Client : LastWords(e)'
             /\ presence' = "online" => ghosts' > 0 \/ \E e \in Client : TakesBack(e)'
  <2>1. LastWords(c)' /\ ghosts' = ghosts /\ ~TakesBack(c)
    BY <1>1, <1>4, LastAgain DEF Reconnect, brokerVars, TakesBack
  <2> QED BY <1>1, <1>2, <1>4, <2>1
<1>5. ASSUME NEW c \in Client, Broker(c)
      PROVE  /\ \A e \in Client : LastWords(e)'
             /\ presence' = "online" => ghosts' > 0 \/ \E e \in Client : TakesBack(e)'
  BY <1>1, <1>5, LastBrought
<1>6. CASE Will
  BY <1>1, <1>6 DEF Will, clientVars, LastWords, PubOnline, PubOffline, PubFlush, Pub
<1>7. CASE UNCHANGED vars
  BY <1>1, <1>7 DEF vars, clientVars, brokerVars, LastWords, TakesBack, PubOnline, PubOffline, PubFlush, Pub
<1> QED BY <1>3, <1>4, <1>5, <1>6, <1>7 DEF Next

(***************************************************************************)
(* The theorems                                                            *)
(***************************************************************************)
\* At the start nobody has said anything, and no `online` is retained.
LEMMA Started ==
    ASSUME Init
    PROVE  ProducerInv
<1>1. TypeOK
  <2>1. shown \in BOOLEAN /\ purged \in {"no", "alone", "blind"}
    BY Zenon DEF Init
  <2>2. \A S : <<>> \in Seq(S)
    OBVIOUS
  <2> QED BY <2>1, <2>2 DEF Init, TypeOK
<1>2. \A c \in Client : /\ pc[c] = "off" /\ link[c] = "none" /\ job[c] = "serve" /\ nonce[c] = NONE
                        /\ up[c] = <<>> /\ down[c] = <<>> /\ subs[c] = {} /\ answering[c] = {}
                        /\ ToSet(up[c]) = {} /\ ToSet(down[c]) = {} /\ DOMAIN up[c] = {}
  BY Listed DEF Init
<1>3. presence # "online" /\ purged = "no" /\ ghosts = 0
  BY ProducerAssumption DEF Init
<1>4. \A c \in Client : LinkInv(c) /\ JobInv(c) /\ WordInv(c)
  BY <1>2 DEF LinkInv, JobInv, WordInv, Once
<1>5. CheckInv
  BY <1>2 DEF CheckInv, CountInv, ListenInv, ProbeInv
<1>6. GapInv /\ PurgeInv
  BY <1>2, <1>3 DEF GapInv, OnlyOnline, PurgeInv
<1>7. OnlineInv /\ OfflineInv
  BY <1>2, <1>3 DEF OnlineInv, Online, OfflineInv, LastWords, Then
<1> QED BY <1>1, <1>4, <1>5, <1>6, <1>7 DEF ProducerInv, Base

\* The inductive invariant: who is where, what is under way, whose answer a
\* check counts on, and who has the last word about the presence.
THEOREM ProducerInvariant == Spec => []ProducerInv
<1>1. Init => ProducerInv
  BY Started
<1>2. ProducerInv /\ [Next]_vars => ProducerInv'
  BY BaseKept, CheckKept, GapKept, PurgeKept, OnlineKept, OfflineKept DEF ProducerInv
<1> QED BY <1>1, <1>2, PTL DEF Spec

\* Every variable keeps its type.
THEOREM ProducerTypes == Spec => []TypeOK
<1>1. ProducerInv => TypeOK
  BY DEF ProducerInv, Base
<1> QED BY <1>1, ProducerInvariant, PTL

\* A check that hears of a producer does not give up on one that runs, stays
\* connected and answers in time (producer_running).
THEOREM ChecksFind == Spec => CheckFinds
<1>1. ProducerInv /\ [Next]_vars =>
        [\A c \in Client :
           spent'["slow"] = 0 /\ job[c] # "retire" /\ pc[c] \in {"listen", "probe"} /\ pc'[c] = "read"
              => answering[c] = {}]_vars
  <2> SUFFICES ASSUME ProducerInv, Next, NEW c \in Client,
                      spent'["slow"] = 0, job[c] # "retire", pc[c] \in {"listen", "probe"}, pc'[c] = "read"
               PROVE  answering[c] = {}
    BY DEF vars
  <2>0. /\ TypeOK /\ WordInv(c) /\ ListenInv(c) /\ ProbeInv(c) /\ CountInv(c)
        /\ ~Spend("slow")
    <3>1. TypeOK
      BY DEF ProducerInv, Base
    <3> QED BY <3>1, Spent DEF ProducerInv, Base, CheckInv, Kind
  <2>1. Unheard(c) \/ Unanswered(c) \/ Heard(c)
    <3>1. \A e \in Client \ {c} : ~(Proceed(e) \/ Ordered(e) \/ Reconnect(e))
      BY <2>0, OwnStep
    <3>2. Will => pc' = pc
      BY DEF Will, clientVars
    <3>3. \A e \in Client : Broker(e) \/ Reconnect(e) => pc' = pc
      BY DEF Broker, Reconnect, clientVars
    <3>4. Proceed(c) \/ Ordered(c)
      BY <3>1, <3>2, <3>3 DEF Next
    <3>5. ~Refused(c) /\ ~AnswerOffline(c) /\ ~AnswerProbe(c) /\ ~Ignore(c) /\ ~Run(c) /\ ~Describe(c) /\ ~Read(c) /\ ~Clear(c)
          /\ ~Closed(c) /\ ~Retire(c) /\ ~Fail(c) /\ ~Crash(c) /\ ~Drop(c)
      BY <2>0 DEF Refused, Leave, AnswerOffline, AnswerProbe, Ignore, Run, Describe, Read, Clear, Closed,
           Retire, Fail, Crash, Drop, Gone, clientVars, TypeOK
    <3>6. \A kind, task : ~Stop(c, kind) /\ ~Begin(c, task, kind)
      BY DEF Stop, Begin
    <3> QED BY <3>4, <3>5, <3>6 DEF Proceed, Receive, Ordered
  <2>2. CASE Unheard(c)
    <3>1. \/ link[c] = "down"
          \/ Sub("presence") \notin ToSet(up[c]) /\ \A m \in ToSet(down[c]) : ~m.retained
      BY <2>0, <2>2 DEF Unheard
    <3>2. Sub("presence") \in ToSet(<<Sub("presence")>>)
      BY Listed
    <3> QED BY <2>0, <2>2, <3>1, <3>2 DEF Unheard, ListenInv
  <2>3. CASE Unanswered(c)
    <3>1. link[c] = "down" \/ ~UnderWay(Probes, nonce[c])
      BY <2>0, <2>3 DEF Unanswered
    <3> DEFINE n == nonce[c]
               a == Sub("alive")
               p == Pub("probe", n)
    <3>2. p \in ToSet(<<a, p>>) /\ p \in ToSet(<<p>>)
      <4> HIDE DEF a, p
      <4> QED BY Listed
    <3>3. /\ p.topic = "probe" /\ Pub("alive", n).topic = "alive" /\ p.value = n /\ Pub("alive", n).value = n
          /\ News("probe", n).topic = "probe" /\ News("probe", n).value = n
          /\ News("alive", n).topic = "alive" /\ News("alive", n).value = n
      BY DEF Pub, News
    <3>4. ~UnderWay(Probes, n) =>
            \A d \in Client : \A m \in ToSet(up[d]) \cup ToSet(down[d]) : m # p /\ m # News("probe", n)
                                /\ m # Pub("alive", n) /\ m # News("alive", n)
      BY <3>3 DEF UnderWay, Probes
    <3>5. answering[c] \subseteq Client
      BY <2>0 DEF TypeOK
    <3> SUFFICES ASSUME answering[c] # {} PROVE FALSE
      OBVIOUS
    <3>6. /\ link[c] = "up"
          /\ \/ up[c] = <<a, p>>
             \/ up[c] = <<p>>
             \/ \A d \in answering[c] :
                   \/ News("probe", n) \in ToSet(down[d])
                   \/ Pub("alive", n) \in ToSet(up[d])
                   \/ News("alive", n) \in ToSet(down[c])
      BY <2>0, <2>3 DEF Unanswered, ProbeInv
    <3> HIDE DEF n, a, p
    <3> QED BY <3>1, <3>2, <3>4, <3>5, <3>6 DEF n
  <2>4. CASE Heard(c)
    <3>1. pc[c] = "listen" /\ down[c] # <<>> /\ Head(down[c]).retained /\ Head(down[c]).value # "online"
      BY <2>0, <2>4 DEF Heard, Took, TypeOK
    <3>2. Head(down[c]) \in ToSet(down[c])
      BY <2>0, <3>1, Taken DEF TypeOK
    <3> QED BY <2>0, <3>1, <3>2 DEF ListenInv
  <2> QED BY <2>1, <2>2, <2>3, <2>4
<1> QED BY <1>1, ProducerInvariant, PTL DEF Spec, CheckFinds

\* While services only start, restart and are refused, an `online` presence
\* stays (Service.stop with offline=False, AnotherProducer).
THEOREM GapNever == Spec => NoGap
<1>1. ProducerInv /\ [Next]_vars => [OnlyRestarts /\ presence = "online" => presence' = "online"]_vars
  <2> SUFFICES ASSUME ProducerInv, Next, OnlyRestarts, presence = "online"
               PROVE  presence' = "online"
    BY DEF vars
  <2>1. TypeOK /\ ghosts = 0 /\ \A c \in Client : OnlyOnline(c)
    BY DEF ProducerInv, Base, GapInv
  <2>2. ASSUME NEW c \in Client, Broker(c) PROVE presence' = "online"
    <3>1. Head(up[c]) \in ToSet(up[c])
      BY <2>1, <2>2, Brokering
    <3> QED BY <2>1, <2>2, <3>1 DEF Broker, Subscribed, OnlyOnline
  <2>3. ASSUME NEW c \in Client, Proceed(c) \/ Ordered(c) \/ Reconnect(c) PROVE presence' = "online"
    BY <2>1, <2>3, OwnStep
  <2> QED BY <2>1, <2>2, <2>3 DEF Next, Will
<1> QED BY <1>1, ProducerInvariant, PTL DEF Spec, NoGap

\* A purge, or a move, that nothing overlaps and that went through, over
\* whatever losses of its connection, takes the presence away, and leaves
\* nothing else of the producer but what it took silence for
\* (purge_il, _retained, _retire_topics).
THEOREM PurgeLeavesNothing == Spec => []PurgedIsGone
<1>1. ProducerInv => PurgedIsGone
  BY DEF ProducerInv, PurgeInv, PurgedIsGone, Purged, Purging
<1> QED BY <1>1, ProducerInvariant, PTL

\* Once all is said, the presence tells what became of the producers: `online`
\* while one runs, and not `online` once all have stopped or died.
THEOREM PresenceIsTold == Spec => []PresenceTells
<1>1. ProducerInv => RunningIsOnline
  <2> SUFFICES ASSUME ProducerInv, Quiet, spent["purge"] = 0, spent["retire"] = 0, NEW c \in Client, pc[c] = "run"
               PROVE  presence = "online"
    BY DEF RunningIsOnline
  <2>1. link[c] = "up" /\ up[c] = <<>> /\ down[c] = <<>> /\ Online(c)
    BY DEF Quiet, ProducerInv, OnlineInv
  <2>2. ToSet(up[c]) = {} /\ ToSet(down[c]) = {} /\ ~Ahead(up[c], Sub("presence"), PubOnline)
    BY <2>1, Listed DEF Ahead
  <2> QED BY <2>1, <2>2 DEF Online
<1>2. ProducerInv => StoppedIsOffline
  <2> SUFFICES ASSUME ProducerInv, Quiet, spent["late"] = 0, spent["restart"] = 0, \A c \in Client : pc[c] = "off"
               PROVE  presence # "online"
    BY DEF StoppedIsOffline
  <2>1. \A c \in Client : link[c] = "none"
    BY DEF ProducerInv, Base, LinkInv
  <2> QED BY <2>1 DEF ProducerInv, OfflineInv, TakesBack, Quiet
<1>3. ProducerInv => PurgedIsGone
  BY DEF ProducerInv, PurgeInv, PurgedIsGone, Purged, Purging
<1>4. ProducerInv => PresenceTells
  BY <1>1, <1>2, <1>3 DEF PresenceTells
<1> QED BY <1>4, ProducerInvariant, PTL
=============================================================================
