----------------------- MODULE BridgeCommand_proofs -----------------------
(***************************************************************************)
(* Proofs about BridgeCommand, for any finite set of devices, any callers, *)
(* any bounds.                                                             *)
(***************************************************************************)
EXTENDS BridgeCommand, FiniteSetTheorems, TLAPS

(***************************************************************************)
(* The messages                                                            *)
(***************************************************************************)
AckMsgs == [type : {"ack"}, key : Key, of : Nat, ok : BOOLEAN, retained : BOOLEAN]
PageMsgs == [type : {"page"}, ids : SUBSET Device, total : Nat, more : BOOLEAN, part : SUBSET Device,
             held : SUBSET Device]
LinkMsgs == [type : {"link"}, id : Device, up : BOOLEAN, stay : Nat, retained : BOOLEAN]
StateMsgs == [type : {"state"}, id : Device, stay : Nat, retained : BOOLEAN]
Messages == AckMsgs \cup PageMsgs \cup LinkMsgs \cup StateMsgs \cup [type : {"config"}]

StatusRequests == [type : {"status"}, part : (SUBSET Device) \cup {NONE}]
CommandRequests == [type : {"command"}, key : Key, of : Nat]

\* Nothing is left in the queue of a client that stopped.
Queues ==
    /\ requests \in Seq(StatusRequests \cup CommandRequests) /\ inbound \in Seq(Messages)
    /\ kept \in AckMsgs \cup {NONE}
    /\ ~running => inbound = <<>>

\* Who waits, waits under a key.
Named == \A c \in Caller : call[c] # "idle" => key[c] \in Key

BasicInv == TypeOK /\ Queues /\ Named

(***************************************************************************)
(* Commands and their answers                                              *)
(***************************************************************************)
\* Callers that wait have numbers of their own, and those that do not keep nothing.
Numbered ==
    /\ \A c \in Caller :
        IF call[c] = "idle" THEN key[c] = NONE /\ answer[c] = NONE /\ c \notin reached
                            ELSE mine[c] \in 1..spent["ask"]
    /\ \A c, e \in Caller : call[c] # "idle" /\ call[e] # "idle" /\ mine[c] = mine[e] => c = e

\* What a command was published as, and its live answer: a token of it.
Sent(i) == requests[i].type = "command"
Back(i) == inbound[i].type = "ack" /\ ~inbound[i].retained

\* Of a caller that waits, a token has the key.
Keyed(k, n) ==
    n <= spent["ask"] /\ \A c \in Caller : (call[c] # "idle" /\ mine[c] = n) => key[c] = k
KeyedAll ==
    /\ \A i \in DOMAIN requests : Sent(i) => Keyed(requests[i].key, requests[i].of)
    /\ \A i \in DOMAIN inbound : Back(i) => Keyed(inbound[i].key, inbound[i].of)

\* A token whose key is not in doubt is its waiter's, which has no answer yet ...
Awaited(k, n) ==
    k \in doubtful \/ (/\ waiters[k] \in Caller /\ call[waiters[k]] = "wait" /\ mine[waiters[k]] = n
                       /\ answer[waiters[k]] = NONE)
AwaitedAll ==
    running => /\ \A i \in DOMAIN requests : Sent(i) => Awaited(requests[i].key, requests[i].of)
               /\ \A i \in DOMAIN inbound : Back(i) => Awaited(inbound[i].key, inbound[i].of)

\* ... and the only one.
Alone ==
    running =>
        /\ \A i, j \in DOMAIN requests :
              (Sent(i) /\ Sent(j) /\ requests[i].key = requests[j].key) => i = j \/ requests[i].key \in doubtful
        /\ \A i, j \in DOMAIN inbound :
              (Back(i) /\ Back(j) /\ inbound[i].key = inbound[j].key) => i = j \/ inbound[i].key \in doubtful
        /\ \A i \in DOMAIN requests, j \in DOMAIN inbound :
              (Sent(i) /\ Back(j) /\ requests[i].key = inbound[j].key) => requests[i].key \in doubtful

\* Nothing answers a command before it is published, but one with a key in doubt.
Unasked == \A c \in Caller : (call[c] = "publish" /\ running /\ answer[c] # NONE) => key[c] \in doubtful

\* A stay has a number above those before, retains something only while it
\* lasts, and has values only once it has a link.
Present ==
    \A d \in Device :
        /\ stay[d] <= stays /\ (stay[d] = 0 => link[d] = "none" /\ ~stated[d])
        /\ d \in Linked /\ stated[d] => link[d] # "none"

Waiting == WaitersAreCallers /\ Numbered
Tokens == KeyedAll /\ AwaitedAll /\ Alone /\ Unasked
AnswerInv == BasicInv /\ Present /\ Waiting /\ Tokens /\ Answers

\* Whatever is spent is counted.
LEMMA SpendType ==
    ASSUME TypeOK, NEW kind \in Kind, Spend(kind)
    PROVE  spent' \in [Kind -> Nat] /\ \A k \in Kind : spent'[k] = IF k = kind THEN spent[k] + 1 ELSE spent[k]
BY DEF TypeOK, Spend

\* A queue without its first message.
LEMMA TailIs ==
    ASSUME NEW S, NEW s \in Seq(S), s # <<>>
    PROVE  /\ Tail(s) \in Seq(S) /\ Len(Tail(s)) = Len(s) - 1 /\ Len(s) \in Nat \ {0}
           /\ Head(s) = s[1] /\ Head(s) \in S /\ 1 \in DOMAIN s
           /\ \A i \in DOMAIN Tail(s) : i + 1 \in DOMAIN s /\ Tail(s)[i] = s[i + 1]
           /\ \A i \in DOMAIN s : i = 1 \/ (i - 1 \in DOMAIN Tail(s) /\ Tail(s)[i - 1] = s[i])
OBVIOUS

\* A queue with one message more.
LEMMA AppendIs ==
    ASSUME NEW S, NEW s \in Seq(S), NEW m \in S
    PROVE  /\ Append(s, m) \in Seq(S) /\ Len(Append(s, m)) = Len(s) + 1 /\ Len(s) \in Nat
           /\ \A i \in DOMAIN s : i \in DOMAIN Append(s, m) /\ Append(s, m)[i] = s[i]
           /\ \A i \in DOMAIN Append(s, m) : i \in DOMAIN s \/ (i = Len(s) + 1 /\ Append(s, m)[i] = m)
           /\ Len(s) + 1 \in DOMAIN Append(s, m) /\ Append(s, m)[Len(s) + 1] = m
OBVIOUS

\* Two queues, one after the other.
LEMMA ConcatIs ==
    ASSUME NEW S, NEW s \in Seq(S), NEW t \in Seq(S)
    PROVE  /\ s \o t \in Seq(S) /\ Len(s \o t) = Len(s) + Len(t) /\ Len(s) \in Nat /\ Len(t) \in Nat
           /\ \A i \in DOMAIN s : i \in DOMAIN (s \o t) /\ i <= Len(s) /\ (s \o t)[i] = s[i]
           /\ \A i \in DOMAIN t : Len(s) + i \in DOMAIN (s \o t) /\ (s \o t)[Len(s) + i] = t[i]
           /\ \A i \in DOMAIN (s \o t) :
                \/ i \in DOMAIN s /\ (s \o t)[i] = s[i]
                \/ i > Len(s) /\ i - Len(s) \in DOMAIN t /\ (s \o t)[i] = t[i - Len(s)]
OBVIOUS

\* What is sent to the client is the last message in its queue, or lost.
LEMMA HeardIs ==
    ASSUME Queues, NEW m \in Messages
    PROVE  /\ Heard(m) \in Seq(Messages) /\ Len(inbound) \in Nat
           /\ Len(Heard(m)) = IF connected /\ running THEN Len(inbound) + 1 ELSE Len(inbound)
           /\ \A i \in DOMAIN inbound : i \in DOMAIN Heard(m) /\ Heard(m)[i] = inbound[i]
           /\ \A i \in DOMAIN Heard(m) :
                i \in DOMAIN inbound \/ (i = Len(inbound) + 1 /\ Heard(m)[i] = m /\ connected /\ running)
           /\ connected /\ running =>
                Len(inbound) + 1 \in DOMAIN Heard(m) /\ Heard(m)[Len(inbound) + 1] = m
           /\ ~running => Heard(m) = <<>>
BY AppendIs DEF Queues, Heard

\* The elements of a finite set in some order are all of them and no others.
LEMMA SeqOfSet ==
    ASSUME NEW S, IsFiniteSet(S)
    PROVE  /\ SetToSeq(S) \in Seq(S) /\ Len(SetToSeq(S)) = Cardinality(S)
           /\ \A x \in S : \E i \in DOMAIN SetToSeq(S) : SetToSeq(S)[i] = x
<1> DEFINE n == Cardinality(S)
           P(f) == f \in [1..n -> S] /\ IsInjective(f)
<1>1. n \in Nat
  BY FS_CardinalityType
<1>2. \E f : P(f)
  <2>1. PICK f : f \in Bijection(1..n, S)
    BY FS_NatBijection, FS_CardinalityType, FS_CountingElements, <1>1 DEF ExistsBijection
  <2> QED BY <2>1 DEF Bijection, Injection, IsInjective, Surjection
<1>3. SetToSeq(S) = CHOOSE f \in [1..n -> S] : IsInjective(f)
  BY DEF SetToSeq
<1>4. P(SetToSeq(S))
  BY <1>2, <1>3
<1>5. SetToSeq(S) \in Injection(1..n, S)
  BY <1>4 DEF Injection, IsInjective
<1>6. SetToSeq(S) \in Surjection(1..n, S)
  BY <1>1, <1>5, FS_Interval, FS_Injection
<1> QED BY <1>1, <1>4, <1>6 DEF Surjection
(***************************************************************************)
(* Answers                                                                 *)
(***************************************************************************)
\* What each kind of message is.
LEMMA MessageTypes ==
    /\ \A k \in Key, n \in Nat, ok \in BOOLEAN : Ack(k, n, ok) \in AckMsgs
    /\ \A k \in Key, n \in Nat, ok \in BOOLEAN : [Ack(k, n, ok) EXCEPT !.retained = TRUE] \in AckMsgs
    /\ \A d \in Device, up, r \in BOOLEAN : TypeOK => LinkMsg(d, up, r) \in LinkMsgs
    /\ \A d \in Device, r \in BOOLEAN : TypeOK => StateMsg(d, r) \in StateMsgs
BY DEF Ack, AckMsgs, LinkMsg, LinkMsgs, StateMsg, StateMsgs, TypeOK

\* What the bridge holds is counted.
LEMMA HeldCount == TypeOK => Held \subseteq Device /\ Cardinality(Held) \in Nat
BY CommandAssumption, FS_Subset, FS_CardinalityType DEF Held

\* Everything retained: of what is there, a device's link before its values.
LEMMA RetainedIs ==
    ASSUME TypeOK, Queues, Present
    PROVE  /\ Retained \in Seq(Messages)
           /\ \A i \in DOMAIN Retained :
                \/ Retained[i].type = "ack" /\ Retained[i].retained
                \/ Retained[i].type = "config"
                \/ /\ Retained[i].type = "link" /\ Retained[i].id \in Device
                   /\ Retained[i].stay = stay[Retained[i].id] /\ stay[Retained[i].id] > 0
                   /\ Retained[i].retained
                \/ /\ Retained[i].type = "state" /\ Retained[i].id \in Device
                   /\ Retained[i].stay = stay[Retained[i].id] /\ stay[Retained[i].id] > 0
                   /\ Retained[i].retained
                   /\ Retained[i].id \in Linked => \E j \in DOMAIN Retained :
                        j < i /\ Retained[j].type = "link" /\ Retained[j].id = Retained[i].id
                        /\ Retained[j].stay = Retained[i].stay
           /\ \A d \in Device : link[d] # "none" => \E j \in DOMAIN Retained :
                Retained[j].type = "link" /\ Retained[j].id = d /\ Retained[j].stay = stay[d]
<1> DEFINE L == {e \in Held : link[e] # "none"}
           S == {e \in Held : stated[e]}
           lm(d) == LinkMsg(d, link[d] = "up", TRUE)
           sm(d) == StateMsg(d, TRUE)
           links == {lm(d) : d \in L}
           states == {sm(d) : d \in S}
           reply == IF kept = NONE THEN <<>> ELSE <<[kept EXCEPT !.retained = TRUE]>>
           A == SetToSeq(links)
           B == SetToSeq(states)
<1>0. Retained = A \o B \o reply \o <<Config>>
  BY DEF Retained
<1>1. /\ L \subseteq Device /\ S \subseteq Device /\ IsFiniteSet(L) /\ IsFiniteSet(S)
      /\ \A d \in Device : link[d] # "none" => d \in L
      /\ \A d \in S : stay[d] > 0 /\ (d \in Linked => d \in L)
      /\ \A d \in L : stay[d] > 0
  BY CommandAssumption, FS_Subset DEF Held, TypeOK, Present
<1>2. IsFiniteSet(links)
  <2> DEFINE f == [d \in L |-> lm(d)]
  <2>1. f \in Surjection(L, links)
    BY DEF Surjection
  <2> QED BY <1>1, <2>1, FS_Surjection
<1>3. IsFiniteSet(states)
  <2> DEFINE f == [d \in S |-> sm(d)]
  <2>1. f \in Surjection(S, states)
    BY DEF Surjection
  <2> QED BY <1>1, <2>1, FS_Surjection
<1>4. \A d \in L : lm(d) \in LinkMsgs /\ lm(d).type = "link" /\ lm(d).id = d /\ lm(d).stay = stay[d] /\ lm(d).retained
  BY <1>1, MessageTypes DEF LinkMsg
<1>5. \A d \in S : sm(d) \in StateMsgs /\ sm(d).type = "state" /\ sm(d).id = d /\ sm(d).stay = stay[d] /\ sm(d).retained
  BY <1>1, MessageTypes DEF StateMsg
<1>6. /\ reply \in Seq(Messages) /\ <<Config>> \in Seq(Messages)
      /\ \A i \in DOMAIN reply : reply[i].type = "ack" /\ reply[i].retained
      /\ \A i \in DOMAIN <<Config>> : <<Config>>[i].type = "config"
  <2>1. Config \in Messages /\ Config.type = "config"
    BY DEF Config, Messages
  <2>2. CASE kept = NONE
    <3>1. reply = <<>>
      BY <2>2
    <3> QED BY <2>1, <3>1
  <2>3. CASE kept # NONE
    <3> DEFINE m == [kept EXCEPT !.retained = TRUE]
    <3>1. m \in Messages /\ m.type = "ack" /\ m.retained
      BY <2>3 DEF Queues, AckMsgs, Messages
    <3>2. reply = <<m>>
      BY <2>3
    <3> HIDE DEF m, reply
    <3> QED BY <2>1, <3>1, <3>2
  <2> QED BY <2>2, <2>3
<1> DEFINE end == <<Config>>
<1> HIDE DEF L, S, reply, end, lm, sm
<1>7. /\ A \in Seq(links) /\ \A x \in links : \E i \in DOMAIN A : A[i] = x
      /\ B \in Seq(states) /\ \A x \in states : \E i \in DOMAIN B : B[i] = x
  BY <1>2, <1>3, SeqOfSet
<1>8. links \subseteq Messages /\ states \subseteq Messages
  BY <1>4, <1>5 DEF Messages
<1>9. A \in Seq(Messages) /\ B \in Seq(Messages)
  BY <1>7, <1>8
<1>a. \A x \in links : \E d \in L : x = lm(d)
  OBVIOUS
<1>b. \A x \in states : \E d \in S : x = sm(d)
  OBVIOUS
<1>c. \A d \in L : lm(d) \in links
  OBVIOUS
<1> HIDE DEF links, states
<1>10. /\ \A i \in DOMAIN A : \E d \in L : A[i] = lm(d)
       /\ \A i \in DOMAIN B : \E d \in S : B[i] = sm(d)
       /\ \A d \in L : \E i \in DOMAIN A : A[i] = lm(d)
  BY <1>7, <1>a, <1>b, <1>c
<1> HIDE DEF A, B
<1>11. /\ Retained \in Seq(Messages) /\ Len(A) \in Nat
       /\ \A i \in DOMAIN A : i \in DOMAIN Retained /\ i <= Len(A) /\ Retained[i] = A[i]
       /\ \A i \in DOMAIN Retained :
            \/ i \in DOMAIN A /\ Retained[i] = A[i]
            \/ i > Len(A) /\ \E j \in DOMAIN B : Retained[i] = B[j]
            \/ \E j \in DOMAIN reply : Retained[i] = reply[j]
            \/ \E j \in DOMAIN end : Retained[i] = end[j]
  <2> DEFINE C == A \o B
             D == C \o reply
  <2>1. /\ C \in Seq(Messages) /\ Len(C) = Len(A) + Len(B) /\ Len(A) \in Nat /\ Len(B) \in Nat
        /\ \A i \in DOMAIN A : i \in DOMAIN C /\ i <= Len(A) /\ C[i] = A[i]
        /\ \A i \in DOMAIN C : (i \in DOMAIN A /\ C[i] = A[i]) \/ (i > Len(A) /\ \E j \in DOMAIN B : C[i] = B[j])
    BY <1>9, ConcatIs
  <2> HIDE DEF C
  <2>2. /\ D \in Seq(Messages)
        /\ \A i \in DOMAIN C : i \in DOMAIN D /\ D[i] = C[i]
        /\ \A i \in DOMAIN D : (i \in DOMAIN C /\ D[i] = C[i]) \/ \E j \in DOMAIN reply : D[i] = reply[j]
    BY <1>6, <2>1, ConcatIs
  <2> HIDE DEF D
  <2>3. /\ D \o end \in Seq(Messages)
        /\ \A i \in DOMAIN D : i \in DOMAIN (D \o end) /\ (D \o end)[i] = D[i]
        /\ \A i \in DOMAIN (D \o end) : (i \in DOMAIN D /\ (D \o end)[i] = D[i]) \/ \E j \in DOMAIN end : (D \o end)[i] = end[j]
    BY <1>6, <2>2, ConcatIs DEF end
  <2>4. Retained = D \o end
    BY <1>0 DEF C, D, end
  <2> QED BY <2>1, <2>2, <2>3, <2>4
<1>12. ASSUME NEW i \in DOMAIN Retained
       PROVE  \/ Retained[i].type = "ack" /\ Retained[i].retained
              \/ Retained[i].type = "config"
              \/ /\ Retained[i].type = "link" /\ Retained[i].id \in Device
                 /\ Retained[i].stay = stay[Retained[i].id] /\ stay[Retained[i].id] > 0
                 /\ Retained[i].retained
              \/ /\ Retained[i].type = "state" /\ Retained[i].id \in Device
                 /\ Retained[i].stay = stay[Retained[i].id] /\ stay[Retained[i].id] > 0
                 /\ Retained[i].retained
                 /\ Retained[i].id \in Linked => \E j \in DOMAIN Retained :
                      j < i /\ Retained[j].type = "link" /\ Retained[j].id = Retained[i].id
                      /\ Retained[j].stay = Retained[i].stay
  <2>1. CASE i \in DOMAIN A /\ Retained[i] = A[i]
    BY <2>1, <1>1, <1>4, <1>10
  <2>2. CASE i > Len(A) /\ \E j \in DOMAIN B : Retained[i] = B[j]
    <3>1. PICK d \in S : Retained[i] = sm(d)
      BY <2>2, <1>10
    <3>2. d \in Linked => \E j \in DOMAIN Retained : j < i /\ Retained[j] = lm(d) /\ d \in L
      <4>1. SUFFICES ASSUME d \in Linked
                     PROVE  \E j \in DOMAIN Retained : j < i /\ Retained[j] = lm(d) /\ d \in L
        OBVIOUS
      <4>2. PICK j \in DOMAIN A : A[j] = lm(d)
        BY <4>1, <1>1, <1>10
      <4>3. j \in DOMAIN Retained /\ j <= Len(A) /\ Retained[j] = lm(d) /\ j \in Nat /\ i \in Nat
        BY <4>2, <1>11, <1>9
      <4> QED BY <4>1, <4>3, <2>2, <1>1, <1>11
    <3> QED BY <3>1, <3>2, <1>1, <1>4, <1>5
  <2>3. CASE (\E j \in DOMAIN reply : Retained[i] = reply[j]) \/ \E j \in DOMAIN end : Retained[i] = end[j]
    BY <2>3, <1>6 DEF end
  <2> QED BY <2>1, <2>2, <2>3, <1>11
<1>13. ASSUME NEW d \in Device, link[d] # "none"
       PROVE  \E j \in DOMAIN Retained : Retained[j].type = "link" /\ Retained[j].id = d /\ Retained[j].stay = stay[d]
  BY <1>13, <1>1, <1>4, <1>10, <1>11
<1> QED BY <1>11, <1>12, <1>13
(***************************************************************************)
(* Types and queues                                                        *)
(***************************************************************************)
\* What is heard keeps the queues.
LEMMA HearQueues ==
    ASSUME Queues, NEW m \in Messages, inbound' = Heard(m), UNCHANGED running,
           requests' \in Seq(StatusRequests \cup CommandRequests), kept' \in AckMsgs \cup {NONE}
    PROVE  Queues'
BY HeardIs DEF Queues

\* What is taken from the queue keeps it.
LEMMA TailQueues ==
    ASSUME Queues, inbound # <<>>, inbound' = Tail(inbound), UNCHANGED <<running, kept>>,
           requests' \in Seq(StatusRequests \cup CommandRequests)
    PROVE  Queues' /\ Head(inbound) \in Messages /\ running
BY TailIs DEF Queues

\* Another status request keeps the queue to the bridge.
LEMMA AskQueues ==
    ASSUME Queues, NEW part \in (SUBSET Device) \cup {NONE}, AskStatus(part)
    PROVE  /\ requests' \in Seq(StatusRequests \cup CommandRequests)
           /\ \A i \in DOMAIN requests' :
                requests'[i].type = "command" => i \in DOMAIN requests /\ requests'[i] = requests[i]
<1>1. [type |-> "status", part |-> part] \in StatusRequests \cup CommandRequests
  BY DEF StatusRequests
<1> QED BY <1>1, AppendIs DEF AskStatus, Queues

\* A command waits under a key.
LEMMA CommandBasic ==
    ASSUME BasicInv, NEW c \in Caller, Command(c)
    PROVE  BasicInv'
<1>s. spent' \in [Kind -> Nat]
  BY SpendType DEF BasicInv, Command, Kind
<1>1. TypeOK'
  <2>1. PICK k \in Key : /\ waiters' = [waiters EXCEPT ![k] = c] /\ call' = [call EXCEPT ![c] = "publish"]
                         /\ key' = [key EXCEPT ![c] = k] /\ mine' = [mine EXCEPT ![c] = spent'["ask"]]
    BY DEF Command
  <2>2. spent'["ask"] \in Nat
    BY <1>s DEF Kind
  <2> QED BY <1>s, <2>1, <2>2 DEF BasicInv, TypeOK, Command, bridge, view, callers, vars
<1>2. Queues'
  BY DEF BasicInv, Queues, Command, bridge, view, callers, vars
<1>3. Named'
  BY DEF BasicInv, Named, TypeOK, Command, bridge, view, callers, vars
<1> QED BY <1>1, <1>2, <1>3 DEF BasicInv

\* What is published is a command.
LEMMA PublishBasic ==
    ASSUME BasicInv, NEW c \in Caller, Publish(c)
    PROVE  BasicInv'
<1>1. TypeOK'
  BY DEF BasicInv, TypeOK, Publish, bridge, view, callers, vars
<1>2. Queues'
  <2> DEFINE r == [type |-> "command", key |-> key[c], of |-> mine[c]]
  <2>1. r \in StatusRequests \cup CommandRequests
    BY DEF BasicInv, Publish, Named, TypeOK, CommandRequests
  <2>2. requests' = Append(requests, r)
    BY DEF Publish
  <2> HIDE DEF r
  <2>3. requests' \in Seq(StatusRequests \cup CommandRequests)
    BY <2>1, <2>2, AppendIs DEF BasicInv, Queues
  <2> QED BY <2>3 DEF BasicInv, Queues, Publish, bridge, view, callers, vars
<1>3. Named'
  BY DEF BasicInv, Named, TypeOK, Publish, bridge, view, callers, vars
<1> QED BY <1>1, <1>2, <1>3 DEF BasicInv

\* Who leaves waits no more.
LEMMA AnsweredBasic ==
    ASSUME BasicInv, NEW c \in Caller, Answered(c)
    PROVE  BasicInv'
<1>1. TypeOK'
  BY DEF BasicInv, TypeOK, Answered, Leave, bridge, view, callers, vars
<1>2. Queues'
  BY DEF BasicInv, Queues, Answered, bridge, view, callers, vars
<1>3. Named'
  BY DEF BasicInv, Named, TypeOK, Answered, Leave, bridge, view, callers, vars
<1> QED BY <1>1, <1>2, <1>3 DEF BasicInv

\* Who gives up waits no more.
LEMMA ExpireBasic ==
    ASSUME BasicInv, NEW c \in Caller, Expire(c)
    PROVE  BasicInv'
<1>s. spent' \in [Kind -> Nat]
  BY SpendType DEF BasicInv, TypeOK, Expire, Kind
<1>1. TypeOK'
  BY <1>s DEF BasicInv, TypeOK, Named, Expire, Leave, bridge, view, callers, vars
<1>2. Queues'
  BY DEF BasicInv, Queues, Expire, bridge, view, callers, vars
<1>3. Named'
  BY DEF BasicInv, Named, TypeOK, Expire, Leave, bridge, view, callers, vars
<1> QED BY <1>1, <1>2, <1>3 DEF BasicInv

\* What the bridge holds is well typed.
BridgeOK ==
    /\ stay \in [Device -> Nat] /\ stays \in Nat /\ stated \in [Device -> BOOLEAN]
    /\ link \in [Device -> {"none", "up", "down"}]

\* A command that is taken or refused leaves the bridge well typed, with a reply.
LEMMA TakeBridge ==
    ASSUME TypeOK, NEW k \in Key, NEW n \in Nat, Take(k, n) \/ Refuse(k, n)
    PROVE  BridgeOK' /\ kept' \in AckMsgs /\ kept' \in Messages
<1>1. k[2] \in Device
  BY DEF Key
<1>2. CASE Take(k, n)
  <2>1. stay' \in [Device -> Nat] /\ stays' \in Nat
    BY <1>1, <1>2 DEF TypeOK, Take
  <2>2. stated' \in [Device -> BOOLEAN] /\ link' \in [Device -> {"none", "up", "down"}]
    BY <1>1, <1>2 DEF TypeOK, Take
  <2>3. kept' \in AckMsgs
    BY <1>2, MessageTypes DEF Take
  <2> QED BY <2>1, <2>2, <2>3 DEF BridgeOK, Messages
<1>3. CASE Refuse(k, n)
  BY <1>3, MessageTypes DEF TypeOK, Refuse, BridgeOK, Messages
<1> QED BY <1>2, <1>3

\* A command is taken from the queue, and answered.
LEMMA TakeCommandBasic ==
    ASSUME BasicInv, TakeCommand
    PROVE  BasicInv'
<1>r. Head(requests) \in CommandRequests /\ requests' \in Seq(StatusRequests \cup CommandRequests)
  BY TailIs DEF BasicInv, Queues, TakeCommand, StatusRequests, CommandRequests
<1> DEFINE r == Head(requests)
<1>k. r.key \in Key /\ r.of \in Nat
  BY <1>r DEF CommandRequests
<1>a. /\ Take(r.key, r.of) \/ Refuse(r.key, r.of)
      /\ inbound' = Heard(kept') /\ UNCHANGED <<connected, running, view, cycle, callers, heard, reached, doubtful>>
  BY DEF TakeCommand
<1>s. spent' \in [Kind -> Nat]
  BY SpendType DEF BasicInv, TypeOK, TakeCommand, Kind
<1> HIDE DEF r
<1>b. BridgeOK' /\ kept' \in AckMsgs
  BY <1>k, <1>a, TakeBridge DEF BasicInv
<1>1. TypeOK'
  BY <1>a, <1>b, <1>s DEF BasicInv, TypeOK, BridgeOK, view, callers
<1>2. Queues'
  BY <1>r, <1>a, <1>b, HearQueues DEF BasicInv, Messages
<1>3. Named'
  BY <1>a DEF BasicInv, Named, callers
<1> QED BY <1>1, <1>2, <1>3 DEF BasicInv

\* A command that comes twice is twice in the queue.
LEMMA TakeTwiceBasic ==
    ASSUME BasicInv, TakeTwice
    PROVE  BasicInv'
<1>s. spent' \in [Kind -> Nat]
  BY SpendType DEF BasicInv, TakeTwice, Kind
<1>r. /\ requests' = <<Head(requests)>> \o requests /\ Head(requests) \in StatusRequests \cup CommandRequests
      /\ Head(requests).key \in Key
  BY TailIs DEF BasicInv, Queues, TakeTwice, StatusRequests, CommandRequests
<1>q. requests' \in Seq(StatusRequests \cup CommandRequests)
  BY <1>r, ConcatIs DEF BasicInv, Queues
<1>1. TypeOK'
  BY <1>s, <1>r DEF BasicInv, TypeOK, TakeTwice, bridge, view, callers, vars
<1>2. Queues'
  BY <1>q DEF BasicInv, Queues, TakeTwice, bridge, view, callers, vars
<1>3. Named'
  BY DEF BasicInv, Named, TakeTwice, bridge, view, callers, vars
<1> QED BY <1>1, <1>2, <1>3 DEF BasicInv

\* Another client's command is answered to everybody.
LEMMA ForeignBasic ==
    ASSUME BasicInv, Foreign
    PROVE  BasicInv'
<1>s. spent' \in [Kind -> Nat]
  BY SpendType DEF BasicInv, Foreign, Kind
<1>k. PICK k \in Key : Take(k, 0) /\ inbound' = Heard(kept') /\ doubtful' = doubtful \cup {k}
  BY DEF Foreign
<1>b. BridgeOK' /\ kept' \in AckMsgs
  BY <1>k, TakeBridge DEF BasicInv
<1>1. TypeOK'
  BY <1>k, <1>b, <1>s DEF BasicInv, TypeOK, BridgeOK, Foreign, bridge, view, callers, vars
<1>2. Queues'
  <2>1. requests' \in Seq(StatusRequests \cup CommandRequests) /\ UNCHANGED running
    BY DEF BasicInv, Queues, Foreign
  <2> QED BY <1>k, <1>b, <2>1, HearQueues DEF BasicInv, Messages
<1>3. Named'
  BY DEF BasicInv, Named, Foreign, callers
<1> QED BY <1>1, <1>2, <1>3 DEF BasicInv

\* What the bridge answers to a status request is a page.
LEMMA StatusPage ==
    ASSUME TypeOK, TakeStatus
    PROVE  \E ids, part \in SUBSET Device, more \in BOOLEAN :
             inbound' = Heard(Page(ids, more, part)) /\ Page(ids, more, part) \in PageMsgs
<1>1. \E ids, part \in SUBSET Device, more \in BOOLEAN : inbound' = Heard(Page(ids, more, part))
  <2>1. CASE Head(requests).part = NONE
    BY <2>1, HeldCount DEF TakeStatus
  <2>2. CASE Head(requests).part # NONE
    BY <2>2, HeldCount DEF TakeStatus
  <2> QED BY <2>1, <2>2
<1>2. \A ids, part \in SUBSET Device, more \in BOOLEAN : Page(ids, more, part) \in PageMsgs
  BY HeldCount DEF Page, PageMsgs
<1> QED BY <1>1, <1>2

\* A status request is answered with a page.
LEMMA TakeStatusBasic ==
    ASSUME BasicInv, TakeStatus
    PROVE  BasicInv'
<1>m. PICK m \in Messages : inbound' = Heard(m)
  BY StatusPage DEF BasicInv, Messages
<1>1. TypeOK'
  BY DEF BasicInv, TypeOK, TakeStatus, bridge, view, callers, vars
<1>2. Queues'
  <2>1. requests' \in Seq(StatusRequests \cup CommandRequests) /\ UNCHANGED <<running, kept>>
    BY TailIs DEF BasicInv, Queues, TakeStatus, bridge, view, callers, vars
  <2> QED BY <1>m, <2>1, HearQueues DEF BasicInv, Queues
<1>3. Named'
  BY DEF BasicInv, Named, TakeStatus, bridge, view, callers, vars
<1> QED BY <1>1, <1>2, <1>3 DEF BasicInv

\* A link that changes is told.
LEMMA LinkChangesBasic ==
    ASSUME BasicInv, NEW d \in Device, LinkChanges(d)
    PROVE  BasicInv'
<1>s. spent' \in [Kind -> Nat]
  BY SpendType DEF BasicInv, LinkChanges, Kind
<1>m. PICK up \in BOOLEAN : link' = [link EXCEPT ![d] = IF up THEN "up" ELSE "down"] /\ inbound' = Heard(LinkMsg(d, up, FALSE))
  BY DEF LinkChanges
<1>1. TypeOK'
  BY <1>s, <1>m DEF BasicInv, TypeOK, LinkChanges, view, callers
<1>2. Queues'
  <2>1. requests' \in Seq(StatusRequests \cup CommandRequests) /\ UNCHANGED <<running, kept>>
    BY DEF BasicInv, Queues, LinkChanges
  <2>2. LinkMsg(d, up, FALSE) \in Messages
    BY MessageTypes DEF BasicInv, Messages
  <2> QED BY <1>m, <2>1, <2>2, HearQueues DEF BasicInv, Queues
<1>3. Named'
  BY DEF BasicInv, Named, LinkChanges, callers
<1> QED BY <1>1, <1>2, <1>3 DEF BasicInv

\* Values that change are told.
LEMMA StateChangesBasic ==
    ASSUME BasicInv, NEW d \in Device, StateChanges(d)
    PROVE  BasicInv'
<1>s. spent' \in [Kind -> Nat]
  BY SpendType DEF BasicInv, StateChanges, Kind
<1>1. TypeOK'
  BY <1>s DEF BasicInv, TypeOK, StateChanges, view, callers
<1>2. Queues'
  <2>1. /\ requests' \in Seq(StatusRequests \cup CommandRequests) /\ UNCHANGED <<running, kept>>
        /\ inbound' = Heard(StateMsg(d, FALSE))
    BY DEF BasicInv, Queues, StateChanges
  <2>2. StateMsg(d, FALSE) \in Messages
    BY MessageTypes DEF BasicInv, Messages
  <2> QED BY <2>1, <2>2, HearQueues DEF BasicInv, Queues
<1>3. Named'
  BY DEF BasicInv, Named, StateChanges, callers
<1> QED BY <1>1, <1>2, <1>3 DEF BasicInv

\* A config that changes is told.
LEMMA ConfigChangesBasic ==
    ASSUME BasicInv, ConfigChanges
    PROVE  BasicInv'
<1>s. spent' \in [Kind -> Nat]
  BY SpendType DEF BasicInv, ConfigChanges, Kind
<1>1. TypeOK'
  BY <1>s DEF BasicInv, TypeOK, ConfigChanges, bridge, view, callers, vars
<1>2. Queues'
  <2>1. /\ requests' \in Seq(StatusRequests \cup CommandRequests) /\ UNCHANGED <<running, kept>>
        /\ inbound' = Heard(Config)
    BY DEF BasicInv, Queues, ConfigChanges, bridge
  <2>2. Config \in Messages
    BY DEF Config, Messages
  <2> QED BY <2>1, <2>2, HearQueues DEF BasicInv, Queues
<1>3. Named'
  BY DEF BasicInv, Named, ConfigChanges, callers
<1> QED BY <1>1, <1>2, <1>3 DEF BasicInv

\* A lost connection keeps what was sent.
LEMMA LoseBasic ==
    ASSUME BasicInv, Lose
    PROVE  BasicInv'
<1>s. spent' \in [Kind -> Nat]
  BY SpendType DEF BasicInv, Lose, Kind
<1>1. TypeOK'
  BY <1>s DEF BasicInv, TypeOK, Lose, bridge, view, callers, vars
<1>2. Queues'
  BY DEF BasicInv, Queues, Lose, bridge, view, callers, vars
<1>3. Named'
  BY DEF BasicInv, Named, Lose, bridge, view, callers, vars
<1> QED BY <1>1, <1>2, <1>3 DEF BasicInv

\* All that is retained comes again.
LEMMA ReconnectBasic ==
    ASSUME BasicInv, Present, Reconnect
    PROVE  BasicInv'
<1>1. TypeOK'
  BY DEF BasicInv, TypeOK, Reconnect, bridge, view, callers, vars
<1>2. Queues'
  <2>1. Retained \in Seq(Messages)
    BY RetainedIs DEF BasicInv
  <2>2. inbound \o Retained \in Seq(Messages)
    BY <2>1, ConcatIs DEF BasicInv, Queues
  <2> QED BY <2>2 DEF BasicInv, Queues, Reconnect, bridge, view, callers, vars
<1>3. Named'
  BY DEF BasicInv, Named, Reconnect, bridge, view, callers, vars
<1> QED BY <1>1, <1>2, <1>3 DEF BasicInv

\* A link is heard.
LEMMA OnLinkBasic ==
    ASSUME BasicInv, OnLink
    PROVE  BasicInv'
<1>2. Queues'
  BY TailQueues DEF BasicInv, Queues, OnLink, Dispatch, bridge
<1>m. Head(inbound) \in LinkMsgs
  BY TailIs DEF BasicInv, Queues, OnLink, Dispatch, AckMsgs, PageMsgs, LinkMsgs, StateMsgs, Messages, StatusRequests, CommandRequests
<1> DEFINE m == Head(inbound)
<1>n. m.id \in Device /\ NewsOf(m) \in News
  BY <1>m DEF LinkMsgs, NewsOf, News
<1> HIDE DEF m
<1>o. /\ lastConn' = [lastConn EXCEPT ![m.id] = NewsOf(m)] /\ heard' = [heard EXCEPT ![m.id] = NewsOf(m)]
      /\ told' = IF m.id \in driven THEN [told EXCEPT ![m.id] = NewsOf(m)] ELSE told
  BY DEF OnLink, m
<1>u. UNCHANGED <<bridge, connected, requests, running, registered, driven, lastState, over, passed, cycle,
                  callers, reached, doubtful, spent>>
  BY DEF OnLink
<1>t. lastConn' \in [Device -> News \cup {NONE}] /\ heard' \in [Device -> News \cup {NONE}]
  BY <1>n, <1>o DEF BasicInv, TypeOK
<1>d. told' \in [Device -> News \cup {NONE}]
  <2>1. CASE m.id \in driven
    BY <1>n, <1>o, <2>1 DEF BasicInv, TypeOK
  <2>2. CASE m.id \notin driven
    BY <1>n, <1>o, <2>2 DEF BasicInv, TypeOK
  <2> QED BY <2>1, <2>2
<1>1. TypeOK'
  BY <1>u, <1>t, <1>d DEF BasicInv, TypeOK, bridge, callers
<1>3. Named'
  BY DEF BasicInv, Named, OnLink, callers
<1> QED BY <1>1, <1>2, <1>3 DEF BasicInv

\* Values are heard.
LEMMA OnStateBasic ==
    ASSUME BasicInv, OnState
    PROVE  BasicInv'
<1>2. Queues'
  BY TailQueues DEF BasicInv, Queues, OnState, Dispatch, bridge
<1>m. Head(inbound) \in StateMsgs
  BY TailIs DEF BasicInv, Queues, OnState, Dispatch, AckMsgs, PageMsgs, LinkMsgs, StateMsgs, Messages, StatusRequests, CommandRequests
<1> DEFINE m == Head(inbound)
<1>n. m.id \in Device /\ m.stay \in Nat
  BY <1>m DEF StateMsgs
<1> HIDE DEF m
<1>o. lastState' = [lastState EXCEPT ![m.id] = @ \cup {m.stay}]
  BY DEF OnState, m
<1>u. UNCHANGED <<bridge, connected, requests, running, registered, driven, lastConn, told, over, passed, cycle,
                  callers, heard, reached, doubtful, spent>>
  BY DEF OnState
<1>t. lastState' \in [Device -> SUBSET Nat]
  BY <1>n, <1>o DEF BasicInv, TypeOK
<1>1. TypeOK'
  BY <1>u, <1>t DEF BasicInv, TypeOK, bridge, callers
<1>3. Named'
  BY DEF BasicInv, Named, OnState, callers
<1> QED BY <1>1, <1>2, <1>3 DEF BasicInv

\* What the client makes of a set of devices is well typed.
ViewOK ==
    /\ driven \subseteq Device /\ (registered = NONE \/ registered \subseteq Device)
    /\ lastConn \in [Device -> News \cup {NONE}] /\ told \in [Device -> News \cup {NONE}]
    /\ lastState \in [Device -> SUBSET Nat] /\ over \in [Device -> SUBSET Nat] /\ passed \subseteq Device

\* Reconciling the view with the devices there are now keeps it well typed.
LEMMA ReconcileView ==
    ASSUME TypeOK, NEW now \in SUBSET Device, NEW forgotten, NEW gone, Reconcile(now, forgotten), Over(gone),
           passed' \subseteq Device
    PROVE  ViewOK'
<1>1. driven' \subseteq Device /\ registered' \subseteq Device
  BY CommandAssumption DEF Reconcile
<1>2. lastConn' \in [Device -> News \cup {NONE}] /\ lastState' \in [Device -> SUBSET Nat]
  BY DEF Reconcile, TypeOK
<1>3. told' \in [Device -> News \cup {NONE}]
  <2>1. told' = [d \in Device |-> IF d \notin driven' THEN NONE ELSE IF d \in driven THEN told[d] ELSE lastConn'[d]]
    BY DEF Reconcile
  <2> QED BY <1>2, <2>1 DEF TypeOK
<1>4. over' \in [Device -> SUBSET Nat]
  <2>1. \A d \in Device : heard[d] # NONE => heard[d].stay \in Nat
    BY DEF TypeOK, News
  <2> QED BY <2>1 DEF Over, TypeOK
<1> QED BY <1>1, <1>2, <1>3, <1>4 DEF ViewOK

\* An answer is heard.
LEMMA OnAckBasic ==
    ASSUME BasicInv, OnAck
    PROVE  BasicInv'
<1>2. Queues'
  BY TailQueues DEF BasicInv, Queues, OnAck, Dispatch, bridge
<1>m. Head(inbound) \in AckMsgs
  BY TailIs DEF BasicInv, Queues, OnAck, Dispatch, AckMsgs, PageMsgs, LinkMsgs, StateMsgs, Messages, StatusRequests, CommandRequests
<1> DEFINE m == Head(inbound)
           d == m.key[2]
<1>n. m.key \in Key /\ m.ok \in BOOLEAN /\ m.of \in Nat /\ d \in Device
  BY <1>m DEF AckMsgs, Key
<1> HIDE DEF m, d
<1>o. /\ answer' = IF Resolves(m) THEN [answer EXCEPT ![Waiter(m)] = [ok |-> m.ok, of |-> m.of]] ELSE answer
      /\ reached' = IF m.retained THEN reached
                    ELSE reached \cup {c \in Caller : call[c] # "idle" /\ mine[c] = m.of}
      /\ \/ UNCHANGED view
         \/ registered # NONE /\ UNCHANGED passed /\ Reconcile(registered \cup {d}, {}) /\ Over({})
         \/ registered # NONE /\ UNCHANGED passed /\ Reconcile(registered \ {d}, {d}) /\ Over({d})
  BY DEF OnAck, m, d
<1>a. answer' \in [Caller -> Result \cup {NONE}]
  BY <1>n, <1>o DEF BasicInv, TypeOK, Result
<1>v. ViewOK'
  <2>1. CASE UNCHANGED view
    BY <2>1 DEF BasicInv, TypeOK, ViewOK, view
  <2>2. CASE ~UNCHANGED view
    <3>1. registered \cup {d} \in SUBSET Device /\ registered \ {d} \in SUBSET Device /\ passed' \subseteq Device
      BY <2>2, <1>n, <1>o DEF BasicInv, TypeOK
    <3> QED BY <2>2, <3>1, <1>o, ReconcileView DEF BasicInv
  <2> QED BY <2>1, <2>2
<1>1. TypeOK'
  BY <1>o, <1>a, <1>v DEF BasicInv, TypeOK, ViewOK, OnAck, bridge
<1>3. Named'
  BY DEF BasicInv, Named, OnAck
<1> QED BY <1>1, <1>2, <1>3 DEF BasicInv

\* The open request is well typed.
CycleOK == cycle \in [at : {"none", "first", "second"}, again : BOOLEAN, listed : SUBSET Device, total : Nat]

\* The request opens, opens again, or is to open once more.
LEMMA CycleTypes ==
    /\ TypeOK => CycleOK
    /\ CycleOK /\ cycle' = [cycle EXCEPT !.again = TRUE] => CycleOK'
    /\ cycle' = [Closed EXCEPT !.at = "first"] => CycleOK'
    /\ cycle' = Closed => CycleOK'
    /\ \A all \in SUBSET Device, total \in Nat :
          CycleOK /\ cycle' = [cycle EXCEPT !.at = "second", !.listed = all, !.total = total] => CycleOK'
<1>1. Closed \in [at : {"none", "first", "second"}, again : BOOLEAN, listed : SUBSET Device, total : Nat]
  BY DEF Closed
<1>2. TypeOK => CycleOK
  BY DEF TypeOK, CycleOK
<1>3. CycleOK /\ cycle' = [cycle EXCEPT !.again = TRUE] => CycleOK'
  BY DEF CycleOK
<1>4. cycle' = [Closed EXCEPT !.at = "first"] => CycleOK'
  BY <1>1 DEF CycleOK
<1>5. cycle' = Closed => CycleOK'
  BY <1>1 DEF CycleOK
<1>6. ASSUME NEW all \in SUBSET Device, NEW total \in Nat, CycleOK,
             cycle' = [cycle EXCEPT !.at = "second", !.listed = all, !.total = total]
      PROVE  CycleOK'
  BY <1>6 DEF CycleOK
<1> QED BY <1>1, <1>2, <1>3, <1>4, <1>5, <1>6

\* A config is heard.
LEMMA OnConfigBasic ==
    ASSUME BasicInv, OnConfig
    PROVE  BasicInv'
<1>r. requests' \in Seq(StatusRequests \cup CommandRequests)
  BY AskQueues DEF BasicInv, Queues, OnConfig
<1>2. Queues'
  BY <1>r, TailQueues DEF BasicInv, OnConfig, Dispatch, bridge
<1>c. CycleOK'
  BY CycleTypes DEF BasicInv, OnConfig
<1>1. TypeOK'
  BY <1>c DEF BasicInv, TypeOK, CycleOK, OnConfig, bridge, view, callers, vars
<1>3. Named'
  BY DEF BasicInv, Named, OnConfig, callers
<1> QED BY <1>1, <1>2, <1>3 DEF BasicInv

\* A page is heard.
LEMMA OnPageBasic ==
    ASSUME BasicInv, OnPage
    PROVE  BasicInv'
<1>m. Head(inbound) \in PageMsgs
  BY TailIs DEF BasicInv, Queues, OnPage, Dispatch, AckMsgs, PageMsgs, LinkMsgs, StateMsgs, Messages, StatusRequests, CommandRequests
<1> DEFINE m == Head(inbound)
           all == cycle.listed \cup m.ids
<1>n. m.ids \subseteq Device /\ m.part \subseteq Device /\ m.held \subseteq Device /\ m.total \in Nat /\ all \subseteq Device
  BY <1>m DEF PageMsgs, BasicInv, TypeOK
<1>o. \/ UNCHANGED <<view, cycle, requests>>
      \/ /\ cycle' = [cycle EXCEPT !.at = "second", !.listed = all, !.total = m.total]
         /\ AskStatus(m.part) /\ UNCHANGED view
      \/ /\ Reconcile(all, {d \in Device \ all : lastConn[d] # NONE})
         /\ Over(Device \ (all \cup m.held)) /\ passed' = passed \cup (m.held \ all)
         /\ \/ cycle' = [Closed EXCEPT !.at = "first"] /\ AskStatus(NONE)
            \/ cycle' = Closed /\ UNCHANGED requests
  BY DEF OnPage
<1> HIDE DEF m, all
<1>r. requests' \in Seq(StatusRequests \cup CommandRequests)
  BY <1>n, <1>o, AskQueues DEF BasicInv, Queues
<1>2. Queues'
  BY <1>r, TailQueues DEF BasicInv, OnPage, Dispatch, bridge
<1>c. CycleOK'
  <2>1. CASE UNCHANGED <<view, cycle, requests>>
    BY <2>1 DEF BasicInv, TypeOK, CycleOK
  <2> QED BY <1>n, <1>o, <2>1, CycleTypes DEF BasicInv
<1>v. ViewOK'
  <2>1. CASE UNCHANGED view
    BY <2>1 DEF BasicInv, TypeOK, ViewOK, view
  <2>2. CASE Reconcile(all, {d \in Device \ all : lastConn[d] # NONE})
             /\ Over(Device \ (all \cup m.held)) /\ passed' = passed \cup (m.held \ all)
    <3>1. passed' \subseteq Device
      BY <2>2, <1>n DEF BasicInv, TypeOK
    <3> QED BY <2>2, <3>1, <1>n, ReconcileView DEF BasicInv
  <2> QED BY <1>o, <2>1, <2>2 DEF view
<1>1. TypeOK'
  BY <1>c, <1>v DEF BasicInv, TypeOK, ViewOK, CycleOK, OnPage, bridge, callers
<1>3. Named'
  BY DEF BasicInv, Named, OnPage, callers
<1> QED BY <1>1, <1>2, <1>3 DEF BasicInv

\* A status is asked for again.
LEMMA RetryBasic ==
    ASSUME BasicInv, Retry
    PROVE  BasicInv'
<1>r. requests' \in Seq(StatusRequests \cup CommandRequests)
  BY AskQueues DEF BasicInv, Retry
<1>1. TypeOK'
  BY DEF BasicInv, TypeOK, Retry, Closed, bridge, view, callers, vars
<1>2. Queues'
  BY <1>r DEF BasicInv, Queues, Retry, bridge
<1>3. Named'
  BY DEF BasicInv, Named, Retry, callers
<1> QED BY <1>1, <1>2, <1>3 DEF BasicInv

\* A client that stops hears nothing more.
LEMMA StopBasic ==
    ASSUME BasicInv, Stop
    PROVE  BasicInv'
<1>s. spent' \in [Kind -> Nat]
  BY SpendType DEF BasicInv, Stop, Kind
<1>1. TypeOK'
  BY <1>s DEF BasicInv, TypeOK, Stop, Closed, Result, bridge, view
<1>2. Queues'
  BY DEF BasicInv, Queues, Stop, bridge
<1>3. Named'
  BY DEF BasicInv, Named, Stop
<1> QED BY <1>1, <1>2, <1>3 DEF BasicInv

\* What the broker retains of a device is of a stay that lasts.
LEMMA PresentNext ==
    ASSUME BasicInv, Present, [Next]_vars
    PROVE  Present'
<1>1. ASSUME UNCHANGED <<stay, stays, link, stated>> PROVE Present'
  BY <1>1 DEF Present
<1>2. ASSUME NEW k \in Key, NEW of, Take(k, of) PROVE Present'
  <2> DEFINE d == k[2]
             new == k[1] = "add" /\ stay[d] = 0
             gone == k[1] = "remove"
  <2>1. /\ stay' = [stay EXCEPT ![d] = IF gone THEN 0 ELSE IF new THEN stays + 1 ELSE @]
        /\ stays' = IF new THEN stays + 1 ELSE stays
        /\ link' = IF gone THEN [link EXCEPT ![d] = "none"] ELSE link
        /\ stated' = IF gone THEN [stated EXCEPT ![d] = FALSE] ELSE stated
        /\ d \in Device /\ ~(gone /\ new)
    BY <1>2 DEF Take, Key
  <2> HIDE DEF d, new, gone
  <2>2. CASE gone
    BY <2>1, <2>2 DEF Present, BasicInv, TypeOK
  <2>3. CASE ~gone
    BY <2>1, <2>3 DEF Present, BasicInv, TypeOK
  <2> QED BY <2>2, <2>3
<1>3. CASE TakeCommand
  <2>1. Head(requests).key \in Key
    BY <1>3, TailIs DEF TakeCommand, BasicInv, Queues, StatusRequests, CommandRequests
  <2>2. Take(Head(requests).key, Head(requests).of) \/ Refuse(Head(requests).key, Head(requests).of)
    BY <1>3 DEF TakeCommand
  <2> QED BY <2>1, <2>2, <1>1, <1>2 DEF Refuse
<1>4. CASE Foreign
  BY <1>4, <1>2 DEF Foreign
<1>5. ASSUME NEW d \in Device, LinkChanges(d) PROVE Present'
  BY <1>5 DEF LinkChanges, Present, BasicInv, TypeOK, Held
<1>6. ASSUME NEW d \in Device, StateChanges(d) PROVE Present'
  BY <1>6 DEF StateChanges, Present, BasicInv, TypeOK, Held
<1>7. CASE TakeTwice \/ TakeStatus \/ ConfigChanges \/ Lose \/ Reconnect
  BY <1>7, <1>1 DEF TakeTwice, TakeStatus, ConfigChanges, Lose, Reconnect, bridge
<1>8. CASE Client
  BY <1>8, <1>1 DEF Client, OnLink, OnState, OnAck, OnConfig, OnPage, Retry, Stop, bridge
<1>9. CASE \E c \in Caller : Command(c) \/ Publish(c) \/ Answered(c) \/ Expire(c)
  BY <1>9, <1>1 DEF Command, Publish, Answered, Expire, bridge
<1> QED BY <1>1, <1>3, <1>4, <1>5, <1>6, <1>7, <1>8, <1>9 DEF Next, Bridge, vars, bridge

\* Whatever happens, the basic invariant holds on.
LEMMA BasicNext ==
    ASSUME BasicInv, Present, [Next]_vars
    PROVE  BasicInv'
<1>1. CASE UNCHANGED vars
  BY <1>1 DEF BasicInv, TypeOK, Queues, Named, vars, bridge, view, callers
<1>2. CASE Client
  BY <1>2, OnLinkBasic, OnStateBasic, OnAckBasic, OnConfigBasic, OnPageBasic, RetryBasic, StopBasic DEF Client
<1>3. CASE Bridge
  BY <1>3, TakeCommandBasic, TakeTwiceBasic, ForeignBasic, TakeStatusBasic, ConfigChangesBasic, LoseBasic,
     ReconnectBasic, LinkChangesBasic, StateChangesBasic DEF Bridge
<1>4. CASE \E c \in Caller : Command(c) \/ Publish(c) \/ Answered(c) \/ Expire(c)
  BY <1>4, CommandBasic, PublishBasic, AnsweredBasic, ExpireBasic
<1> QED BY <1>1, <1>2, <1>3, <1>4 DEF Next

(***************************************************************************)
(* The answers are the caller's own                                        *)
(***************************************************************************)
\* The tokens among the requests are those of before, some places further on;
\* or they are in doubt, and have their callers' keys.
Staying(p) ==
    \A i \in DOMAIN requests' : Sent(i)' =>
        \/ i + p \in DOMAIN requests /\ requests[i + p] = requests'[i]
        \/ requests'[i].key \in doubtful' /\ Keyed(requests'[i].key, requests'[i].of)

\* The same of the answers on their way.
Arriving(q) ==
    \A i \in DOMAIN inbound' : Back(i)' =>
        \/ i + q \in DOMAIN inbound /\ inbound[i + q] = inbound'[i]
        \/ inbound'[i].key \in doubtful' /\ Keyed(inbound'[i].key, inbound'[i].of)

\* A step that no caller is part of, and that hands on the tokens as they are.
LEMMA QuietStep ==
    ASSUME AnswerInv, BasicInv', Present', UNCHANGED <<callers, running, reached>>, doubtful \subseteq doubtful',
           spent'["ask"] = spent["ask"], NEW p \in Int, NEW q \in Int, Staying(p), Arriving(q)
    PROVE  AnswerInv'
<1>1. UNCHANGED <<call, key, mine, waiters, answer, running, reached>>
  BY DEF callers
<1>2. Waiting'
  BY <1>1 DEF AnswerInv, Waiting, WaitersAreCallers, Numbered
<1>3. Answers'
  BY <1>1 DEF AnswerInv, Answers, OwnAnswer, AnswerReaches
<1>4. Unasked'
  BY <1>1 DEF AnswerInv, Tokens, Unasked
<1>k. /\ \A k, n : Keyed(k, n) => Keyed(k, n)'
      /\ \A k, n : Awaited(k, n) => Awaited(k, n)'
  BY <1>1 DEF Keyed, Awaited
<1>r. requests \in Seq(StatusRequests \cup CommandRequests) /\ inbound \in Seq(Messages)
      /\ requests' \in Seq(StatusRequests \cup CommandRequests) /\ inbound' \in Seq(Messages)
  BY DEF AnswerInv, BasicInv, Queues
<1>a. \A i \in DOMAIN requests' : Sent(i)' =>
        \/ /\ i + p \in DOMAIN requests /\ Sent(i + p)
           /\ requests[i + p].key = requests'[i].key /\ requests[i + p].of = requests'[i].of
        \/ requests'[i].key \in doubtful' /\ Keyed(requests'[i].key, requests'[i].of)
  BY DEF Staying, Sent
<1>b. \A i \in DOMAIN inbound' : Back(i)' =>
        \/ /\ i + q \in DOMAIN inbound /\ Back(i + q)
           /\ inbound[i + q].key = inbound'[i].key /\ inbound[i + q].of = inbound'[i].of
        \/ inbound'[i].key \in doubtful' /\ Keyed(inbound'[i].key, inbound'[i].of)
  BY DEF Arriving, Back
<1>5. KeyedAll'
  <2>1. \A i \in DOMAIN requests' : Sent(i)' => Keyed(requests[i].key, requests[i].of)'
    BY <1>a, <1>k DEF AnswerInv, Tokens, KeyedAll
  <2>2. \A i \in DOMAIN inbound' : Back(i)' => Keyed(inbound[i].key, inbound[i].of)'
    BY <1>b, <1>k DEF AnswerInv, Tokens, KeyedAll
  <2> QED BY <2>1, <2>2 DEF KeyedAll
<1>6. AwaitedAll'
  <2> SUFFICES ASSUME running' PROVE AwaitedAll'
    BY DEF AwaitedAll
  <2>0. \A k, n : k \in doubtful' => Awaited(k, n)'
    BY DEF Awaited
  <2>1. \A i \in DOMAIN requests' : Sent(i)' => Awaited(requests[i].key, requests[i].of)'
    BY <1>1, <1>a, <1>k, <2>0 DEF AnswerInv, Tokens, AwaitedAll
  <2>2. \A i \in DOMAIN inbound' : Back(i)' => Awaited(inbound[i].key, inbound[i].of)'
    BY <1>1, <1>b, <1>k, <2>0 DEF AnswerInv, Tokens, AwaitedAll
  <2> QED BY <2>1, <2>2 DEF AwaitedAll
<1>7. Alone'
  <2> SUFFICES ASSUME running' PROVE Alone'
    BY DEF Alone
  <2>0. Alone /\ running
    BY <1>1 DEF AnswerInv, Tokens
  <2>i. DOMAIN requests' \subseteq Int /\ DOMAIN inbound' \subseteq Int
    BY <1>r
  <2>1. \A i, j \in DOMAIN requests' :
          (Sent(i)' /\ Sent(j)' /\ requests'[i].key = requests'[j].key) => i = j \/ requests'[i].key \in doubtful'
    BY <1>a, <2>0, <2>i DEF Alone
  <2>2. \A i, j \in DOMAIN inbound' :
          (Back(i)' /\ Back(j)' /\ inbound'[i].key = inbound'[j].key) => i = j \/ inbound'[i].key \in doubtful'
    BY <1>b, <2>0, <2>i DEF Alone
  <2>3. \A i \in DOMAIN requests', j \in DOMAIN inbound' :
          (Sent(i)' /\ Back(j)' /\ requests'[i].key = inbound'[j].key) => requests'[i].key \in doubtful'
    BY <1>a, <1>b, <2>0 DEF Alone
  <2> QED BY <2>1, <2>2, <2>3 DEF Alone
<1> QED BY <1>2, <1>3, <1>4, <1>5, <1>6, <1>7 DEF AnswerInv, Tokens

\* A queue that stays, loses its head, or gets a message that is no token.
LEMMA Handed ==
    ASSUME BasicInv
    PROVE  /\ UNCHANGED requests => Staying(0)
           /\ requests # <<>> /\ requests' = Tail(requests) => Staying(1)
           /\ \A part \in (SUBSET Device) \cup {NONE} : AskStatus(part) => Staying(0)
           /\ UNCHANGED inbound => Arriving(0)
           /\ inbound # <<>> /\ inbound' = Tail(inbound) => Arriving(1)
           /\ \A m \in Messages : inbound' = Heard(m) /\ m.type # "ack" => Arriving(0)
<1> USE DEF BasicInv, Queues
<1>1. UNCHANGED requests => Staying(0)
  BY DEF Staying
<1>2. requests # <<>> /\ requests' = Tail(requests) => Staying(1)
  BY TailIs DEF Staying
<1>3. ASSUME NEW part \in (SUBSET Device) \cup {NONE}, AskStatus(part) PROVE Staying(0)
  <2> DEFINE m == [type |-> "status", part |-> part]
  <2>1. m \in StatusRequests \cup CommandRequests /\ m.type # "command" /\ requests' = Append(requests, m)
    BY <1>3 DEF AskStatus, StatusRequests
  <2> HIDE DEF m
  <2> QED BY <2>1, AppendIs DEF Staying, Sent
<1>4. UNCHANGED inbound => Arriving(0)
  BY DEF Arriving
<1>5. inbound # <<>> /\ inbound' = Tail(inbound) => Arriving(1)
  BY TailIs DEF Arriving
<1>6. ASSUME NEW m \in Messages, inbound' = Heard(m), m.type # "ack" PROVE Arriving(0)
  <2>1. \A i \in DOMAIN inbound : i + 0 = i
    OBVIOUS
  <2>2. \A i \in DOMAIN inbound' : Back(i)' => i \in DOMAIN inbound /\ inbound'[i] = inbound[i]
    BY <1>6, HeardIs DEF Back
  <2> QED BY <2>1, <2>2 DEF Arriving
<1> QED BY <1>1, <1>2, <1>3, <1>4, <1>5, <1>6

\* Status pages are no answers.
LEMMA TakeStatusAnswers ==
    ASSUME AnswerInv, BasicInv', Present', TakeStatus
    PROVE  AnswerInv'
<1>1. Staying(1)
  BY Handed DEF AnswerInv, TakeStatus
<1>2. Arriving(0)
  <2>1. PICK m \in Messages : inbound' = Heard(m) /\ m.type # "ack"
    BY StatusPage DEF AnswerInv, BasicInv, Messages, PageMsgs
  <2> QED BY <2>1, Handed DEF AnswerInv
<1>3. UNCHANGED <<callers, running, reached, doubtful, spent>>
  BY DEF TakeStatus
<1> QED BY <1>1, <1>2, <1>3, QuietStep

\* Nor is news.
LEMMA ChangesAnswers ==
    ASSUME AnswerInv, BasicInv', Present',
           ConfigChanges \/ \E d \in Device : LinkChanges(d) \/ StateChanges(d)
    PROVE  AnswerInv'
<1>1. UNCHANGED <<requests, callers, running, reached, doubtful>>
  BY DEF ConfigChanges, LinkChanges, StateChanges
<1>2. spent'["ask"] = spent["ask"]
  BY SpendType DEF AnswerInv, BasicInv, ConfigChanges, LinkChanges, StateChanges, Kind
<1>3. Arriving(0)
  <2>1. CASE ConfigChanges
    BY <2>1, Handed DEF AnswerInv, ConfigChanges, Config, Messages
  <2>2. ASSUME NEW d \in Device, LinkChanges(d) PROVE Arriving(0)
    <3>1. PICK m \in LinkMsgs : inbound' = Heard(m)
      BY <2>2, MessageTypes DEF AnswerInv, BasicInv, LinkChanges
    <3> QED BY <3>1, Handed DEF AnswerInv, LinkMsgs, Messages
  <2>3. ASSUME NEW d \in Device, StateChanges(d) PROVE Arriving(0)
    <3>1. PICK m \in StateMsgs : inbound' = Heard(m)
      BY <2>3, MessageTypes DEF AnswerInv, BasicInv, StateChanges
    <3> QED BY <3>1, Handed DEF AnswerInv, StateMsgs, Messages
  <2> QED BY <2>1, <2>2, <2>3
<1> QED BY <1>1, <1>2, <1>3, Handed, QuietStep DEF AnswerInv

\* What the broker replays is no live answer.
LEMMA ConnectionAnswers ==
    ASSUME AnswerInv, BasicInv', Present', Lose \/ Reconnect
    PROVE  AnswerInv'
<1>1. UNCHANGED <<requests, callers, running, reached, doubtful>>
  BY DEF Lose, Reconnect
<1>2. spent'["ask"] = spent["ask"]
  BY SpendType DEF AnswerInv, BasicInv, Lose, Reconnect, Kind
<1>3. Arriving(0)
  <2>1. CASE UNCHANGED inbound
    BY <2>1, Handed DEF AnswerInv
  <2>2. CASE inbound' = inbound \o Retained
    <3>1. Retained \in Seq(Messages) /\ inbound \in Seq(Messages)
      BY RetainedIs DEF AnswerInv, BasicInv, Queues
    <3>2. \A i \in DOMAIN Retained : ~(Retained[i].type = "ack" /\ ~Retained[i].retained)
      BY RetainedIs DEF AnswerInv, BasicInv
    <3> HIDE DEF Retained
    <3> QED BY <2>2, <3>1, <3>2, ConcatIs DEF Arriving, Back
  <2> QED BY <2>1, <2>2 DEF Lose, Reconnect
<1> QED BY <1>1, <1>2, <1>3, Handed, QuietStep DEF AnswerInv

\* Whatever else is heard is not for the callers.
LEMMA HearingAnswers ==
    ASSUME AnswerInv, BasicInv', Present', OnLink \/ OnState \/ OnConfig \/ OnPage \/ Retry
    PROVE  AnswerInv'
<1>1. UNCHANGED <<callers, running, reached, doubtful, spent>>
  BY DEF OnLink, OnState, OnConfig, OnPage, Retry
<1>2. Arriving(1) \/ Arriving(0)
  BY Handed DEF AnswerInv, OnLink, OnState, OnConfig, OnPage, Retry, Dispatch
<1>3. Staying(0)
  <2>1. CASE OnPage
    <3>1. Head(inbound).part \in SUBSET Device
      <4>1. Head(inbound) \in PageMsgs
        BY <2>1, TailIs DEF OnPage, Dispatch, AnswerInv, BasicInv, Queues, Messages, AckMsgs, PageMsgs,
                            LinkMsgs, StateMsgs
      <4> QED BY <4>1 DEF PageMsgs
    <3>2. UNCHANGED requests \/ AskStatus(Head(inbound).part) \/ AskStatus(NONE)
      BY <2>1 DEF OnPage
    <3> QED BY <3>1, <3>2, Handed DEF AnswerInv
  <2>2. CASE OnLink \/ OnState \/ OnConfig \/ Retry
    <3>1. UNCHANGED requests \/ AskStatus(NONE)
      BY <2>2 DEF OnLink, OnState, OnConfig, Retry
    <3> QED BY <3>1, Handed DEF AnswerInv
  <2> QED BY <2>1, <2>2
<1> QED BY <1>1, <1>2, <1>3, QuietStep

\* A command that comes twice is in doubt from then on.
LEMMA TakeTwiceAnswers ==
    ASSUME AnswerInv, BasicInv', Present', TakeTwice
    PROVE  AnswerInv'
<1>1. UNCHANGED <<inbound, callers, running, reached>> /\ doubtful \subseteq doubtful'
  BY DEF TakeTwice
<1>2. spent'["ask"] = spent["ask"]
  BY SpendType DEF AnswerInv, BasicInv, TakeTwice, Kind
<1> DEFINE r == Head(requests)
<1>3. /\ 1 \in DOMAIN requests /\ r = requests[1] /\ r.type = "command" /\ r.key \in doubtful'
      /\ requests \in Seq(StatusRequests \cup CommandRequests) /\ r \in StatusRequests \cup CommandRequests
      /\ requests' = <<r>> \o requests
  BY TailIs DEF TakeTwice, AnswerInv, BasicInv, Queues
<1>4. Keyed(r.key, r.of)
  BY <1>3 DEF AnswerInv, Tokens, KeyedAll, Sent
<1>5. <<r>> \in Seq(StatusRequests \cup CommandRequests) /\ DOMAIN <<r>> = {1} /\ Len(<<r>>) = 1 /\ <<r>>[1] = r
  BY <1>3
<1> HIDE DEF r
<1>6. \A i \in DOMAIN requests' :
        requests'[i] = r \/ (i + (0 - 1) \in DOMAIN requests /\ requests[i + (0 - 1)] = requests'[i])
  <2> DEFINE first == <<r>>
  <2> HIDE DEF first
  <2> QED BY <1>3, <1>5, ConcatIs DEF first
<1>7. Staying(0 - 1)
  BY <1>3, <1>4, <1>6 DEF Staying
<1> QED BY <1>1, <1>2, <1>7, Handed, QuietStep DEF AnswerInv

\* The answer to another client's command has nobody's number.
LEMMA ForeignAnswers ==
    ASSUME AnswerInv, BasicInv', Present', Foreign
    PROVE  AnswerInv'
<1>1. UNCHANGED <<requests, callers, running, reached>>
  BY DEF Foreign
<1>2. spent'["ask"] = spent["ask"]
  BY SpendType DEF AnswerInv, BasicInv, Foreign, Kind
<1>k. PICK k \in Key : kept' = Ack(k, 0, TRUE) /\ inbound' = Heard(kept') /\ doubtful' = doubtful \cup {k}
  BY DEF Foreign, Take
<1> DEFINE m == Ack(k, 0, TRUE)
<1>3. m \in Messages /\ m.key = k /\ m.of = 0
  BY MessageTypes DEF Messages, Ack
<1>4. inbound' = Heard(m)
  BY <1>k
<1> HIDE DEF m
<1>5. Keyed(k, 0)
  BY DEF Keyed, AnswerInv, BasicInv, TypeOK, Kind, Waiting, Numbered
<1>6. Arriving(0)
  <2>1. \A i \in DOMAIN inbound : i + 0 = i
    BY DEF AnswerInv, BasicInv, Queues
  <2>2. \A i \in DOMAIN inbound' : (i \in DOMAIN inbound /\ inbound'[i] = inbound[i]) \/ inbound'[i] = m
    BY <1>3, <1>4, HeardIs DEF AnswerInv, BasicInv
  <2> QED BY <1>3, <1>5, <1>k, <2>1, <2>2 DEF Arriving
<1> QED BY <1>1, <1>2, <1>6, <1>k, Handed, QuietStep DEF AnswerInv

\* Tokens have keys and numbers.
LEMMA TokenTypes ==
    ASSUME Queues
    PROVE  /\ \A i \in DOMAIN requests : Sent(i) => requests[i].key \in Key /\ requests[i].of \in Nat
           /\ \A i \in DOMAIN inbound : Back(i) => inbound[i].key \in Key /\ inbound[i].of \in Nat
BY DEF Queues, Sent, Back, StatusRequests, CommandRequests, Messages, AckMsgs, PageMsgs, LinkMsgs, StateMsgs

\* A command has a number of its own, and a key that no token in question has.
LEMMA CommandAnswers ==
    ASSUME AnswerInv, BasicInv', Present', NEW c \in Caller, Command(c)
    PROVE  AnswerInv'
<1>1. PICK k \in Key :
        /\ waiters[k] = NONE /\ waiters' = [waiters EXCEPT ![k] = c]
        /\ call' = [call EXCEPT ![c] = "publish"] /\ key' = [key EXCEPT ![c] = k]
        /\ mine' = [mine EXCEPT ![c] = spent'["ask"]]
  BY DEF Command
<1>2. /\ UNCHANGED <<requests, inbound, running, answer, reached, doubtful>>
      /\ call[c] = "idle" /\ spent'["ask"] = spent["ask"] + 1 /\ spent["ask"] \in Nat
  BY SpendType DEF Command, AnswerInv, BasicInv, TypeOK, Kind
<1>3. key[c] = NONE /\ answer[c] = NONE /\ c \notin reached
  BY <1>2 DEF AnswerInv, Waiting, Numbered
<1>t. /\ call \in [Caller -> {"idle", "publish", "wait"}] /\ key \in [Caller -> Key \cup {NONE}]
      /\ mine \in [Caller -> Nat] /\ waiters \in [Key -> Caller \cup {NONE}]
  BY DEF AnswerInv, BasicInv, TypeOK
<1>n. NONE \notin Caller \cup Key
  BY CommandAssumption
<1>4. Waiting'
  <2>1. WaitersAreCallers'
    BY <1>1, <1>2, <1>t, <1>n DEF AnswerInv, Waiting, WaitersAreCallers
  <2>2. Numbered'
    <3>1. \A e \in Caller : call[e] # "idle" => mine[e] \in 1..spent["ask"]
      BY DEF AnswerInv, Waiting, Numbered
    <3> QED BY <1>1, <1>2, <1>3, <1>t, <3>1 DEF AnswerInv, Waiting, Numbered
  <2> QED BY <2>1, <2>2 DEF Waiting
<1>5. Answers'
  BY <1>1, <1>2, <1>3, <1>t DEF AnswerInv, Answers, OwnAnswer, AnswerReaches
<1>6. Unasked'
  BY <1>1, <1>2, <1>3, <1>t DEF AnswerInv, Tokens, Unasked
<1>7. KeyedAll'
  <2>1. \A l \in Key, n \in Nat : Keyed(l, n) => Keyed(l, n)'
    BY <1>1, <1>2, <1>t DEF Keyed
  <2>2. /\ \A i \in DOMAIN requests : Sent(i) => requests[i].key \in Key /\ requests[i].of \in Nat
        /\ \A i \in DOMAIN inbound : Back(i) => inbound[i].key \in Key /\ inbound[i].of \in Nat
    BY TokenTypes DEF AnswerInv, BasicInv
  <2> QED BY <1>2, <2>1, <2>2 DEF AnswerInv, Tokens, KeyedAll, Sent, Back
<1>8. AwaitedAll'
  <2>1. \A l \in Key : \A n : Awaited(l, n) => Awaited(l, n)'
    BY <1>1, <1>2, <1>t, <1>n DEF Awaited
  <2>2. /\ \A i \in DOMAIN requests : Sent(i) => requests[i].key \in Key
        /\ \A i \in DOMAIN inbound : Back(i) => inbound[i].key \in Key
    BY TokenTypes DEF AnswerInv, BasicInv
  <2> QED BY <1>2, <2>1, <2>2 DEF AnswerInv, Tokens, AwaitedAll, Sent, Back
<1>9. Alone'
  BY <1>2 DEF AnswerInv, Tokens, Alone, Sent, Back
<1> QED BY <1>4, <1>5, <1>6, <1>7, <1>8, <1>9 DEF AnswerInv, Tokens

\* The first token of a command is published while nothing is on its way under
\* its key, or what is there is in doubt.
LEMMA PublishAnswers ==
    ASSUME AnswerInv, BasicInv', Present', NEW c \in Caller, Publish(c)
    PROVE  AnswerInv'
<1> DEFINE r == [type |-> "command", key |-> key[c], of |-> mine[c]]
<1>1. /\ call[c] = "publish" /\ call' = [call EXCEPT ![c] = "wait"] /\ running
      /\ requests' = Append(requests, r)
      /\ UNCHANGED <<inbound, running, key, mine, waiters, answer, reached, doubtful, spent>>
  BY DEF Publish
<1>t. /\ call \in [Caller -> {"idle", "publish", "wait"}] /\ key[c] \in Key /\ mine[c] \in Nat
      /\ waiters[key[c]] = c /\ mine[c] <= spent["ask"]
      /\ requests \in Seq(StatusRequests \cup CommandRequests)
  BY SMTT(30), <1>1 DEF AnswerInv, BasicInv, TypeOK, Named, Queues, Waiting, WaitersAreCallers, Numbered, Kind
<1>r. r \in StatusRequests \cup CommandRequests /\ r.type = "command" /\ r.key = key[c] /\ r.of = mine[c]
  BY <1>t DEF CommandRequests
<1> HIDE DEF r
<1>q. \A i \in DOMAIN requests' :
        (i \in DOMAIN requests /\ requests'[i] = requests[i]) \/ (i = Len(requests) + 1 /\ requests'[i] = r)
  BY <1>1, <1>t, <1>r, AppendIs
<1>2. Waiting'
  BY <1>1, <1>t DEF AnswerInv, Waiting, WaitersAreCallers, Numbered
<1>3. Answers'
  BY <1>1 DEF AnswerInv, Answers, OwnAnswer, AnswerReaches
<1>4. Unasked'
  BY <1>1, <1>t DEF AnswerInv, Tokens, Unasked
<1>5. KeyedAll'
  <2>1. \A l, n : Keyed(l, n) => Keyed(l, n)'
    BY <1>1, <1>t DEF Keyed
  <2>2. Keyed(key[c], mine[c])'
    BY <1>1, <1>t DEF Keyed, AnswerInv, Waiting, Numbered
  <2>3. \A i \in DOMAIN requests' : Sent(i)' => Keyed(requests[i].key, requests[i].of)'
    BY <1>1, <1>q, <1>r, <2>1, <2>2 DEF AnswerInv, Tokens, KeyedAll, Sent
  <2>4. \A i \in DOMAIN inbound' : Back(i)' => Keyed(inbound[i].key, inbound[i].of)'
    BY <1>1, <2>1 DEF AnswerInv, Tokens, KeyedAll, Back
  <2> QED BY <2>3, <2>4 DEF KeyedAll
<1>6. AwaitedAll'
  <2>1. \A l, n : Awaited(l, n) => Awaited(l, n)'
    BY <1>1, <1>t DEF Awaited
  <2>2. Awaited(key[c], mine[c])'
    BY <1>1, <1>t DEF Awaited, AnswerInv, Tokens, Unasked
  <2>3. \A i \in DOMAIN requests' : Sent(i)' => Awaited(requests[i].key, requests[i].of)'
    BY <1>1, <1>q, <1>r, <2>1, <2>2 DEF AnswerInv, Tokens, AwaitedAll, Sent
  <2>4. \A i \in DOMAIN inbound' : Back(i)' => Awaited(inbound[i].key, inbound[i].of)'
    BY <1>1, <2>1 DEF AnswerInv, Tokens, AwaitedAll, Back
  <2> QED BY <2>3, <2>4 DEF AwaitedAll
<1>7. Alone'
  <2>0. \A n : Awaited(key[c], n) => key[c] \in doubtful
    BY <1>1, <1>t DEF Awaited
  <2>1. /\ \A i \in DOMAIN requests : Sent(i) /\ requests[i].key = key[c] => key[c] \in doubtful
        /\ \A i \in DOMAIN inbound : Back(i) /\ inbound[i].key = key[c] => key[c] \in doubtful
    BY <1>1, <2>0 DEF AnswerInv, Tokens, AwaitedAll
  <2>2. Alone
    BY DEF AnswerInv, Tokens
  <2>3. \A i, j \in DOMAIN requests' :
          (Sent(i)' /\ Sent(j)' /\ requests'[i].key = requests'[j].key) => i = j \/ requests'[i].key \in doubtful'
    BY <1>1, <1>q, <1>r, <2>1, <2>2 DEF Alone, Sent
  <2>4. \A i, j \in DOMAIN inbound' :
          (Back(i)' /\ Back(j)' /\ inbound'[i].key = inbound'[j].key) => i = j \/ inbound'[i].key \in doubtful'
    BY <1>1, <2>2 DEF Alone, Back
  <2>5. \A i \in DOMAIN requests', j \in DOMAIN inbound' :
          (Sent(i)' /\ Back(j)' /\ requests'[i].key = inbound'[j].key) => requests'[i].key \in doubtful'
    BY <1>1, <1>q, <1>r, <2>1, <2>2 DEF Alone, Sent, Back
  <2> QED BY <2>3, <2>4, <2>5 DEF Alone
<1> QED BY <1>2, <1>3, <1>4, <1>5, <1>6, <1>7 DEF AnswerInv, Tokens

\* Who leaves with an answer, or leaves its key in doubt, leaves nothing behind.
LEMMA LeaveAnswers ==
    ASSUME AnswerInv, BasicInv', Present', NEW c \in Caller, call[c] # "idle", Leave(c),
           UNCHANGED <<requests, inbound, running>>, spent'["ask"] = spent["ask"],
           \/ answer[c] # NONE /\ UNCHANGED doubtful
           \/ doubtful' = doubtful \cup {key[c]}
    PROVE  AnswerInv'
<1>1. /\ call' = [call EXCEPT ![c] = "idle"] /\ answer' = [answer EXCEPT ![c] = NONE]
      /\ key' = [key EXCEPT ![c] = NONE] /\ mine' = [mine EXCEPT ![c] = 0] /\ reached' = reached \ {c}
      /\ waiters' = [waiters EXCEPT ![key[c]] = NONE]
  BY DEF Leave
<1>t. /\ call \in [Caller -> {"idle", "publish", "wait"}] /\ key \in [Caller -> Key \cup {NONE}]
      /\ mine \in [Caller -> Nat] /\ waiters \in [Key -> Caller \cup {NONE}]
      /\ answer \in [Caller -> Result \cup {NONE}] /\ key[c] \in Key /\ waiters[key[c]] = c
  BY DEF AnswerInv, BasicInv, TypeOK, Named, Waiting, WaitersAreCallers
<1>n. NONE \notin Caller
  BY CommandAssumption
<1>2. Waiting'
  <2>1. WaitersAreCallers'
    BY <1>1, <1>t, <1>n DEF AnswerInv, Waiting, WaitersAreCallers
  <2>2. Numbered'
    BY <1>1, <1>t DEF AnswerInv, Waiting, Numbered
  <2> QED BY <2>1, <2>2 DEF Waiting
<1>3. Answers'
  BY <1>1, <1>t DEF AnswerInv, Answers, OwnAnswer, AnswerReaches
<1>4. Unasked'
  BY <1>1, <1>t DEF AnswerInv, Tokens, Unasked
<1>5. KeyedAll'
  <2>1. \A l, n : Keyed(l, n) => Keyed(l, n)'
    BY <1>1, <1>t DEF Keyed
  <2> QED BY <2>1 DEF AnswerInv, Tokens, KeyedAll, Sent, Back
<1>6. AwaitedAll'
  <2>1. \A l \in Key : \A n : Awaited(l, n) => Awaited(l, n)'
    <3> SUFFICES ASSUME NEW l \in Key, NEW n, Awaited(l, n), l \notin doubtful' PROVE Awaited(l, n)'
      BY DEF Awaited
    <3>1. waiters[l] # c
      BY <1>t DEF Awaited, AnswerInv, Waiting, WaitersAreCallers
    <3> QED BY <1>1, <1>t, <3>1 DEF Awaited
  <2>2. /\ \A i \in DOMAIN requests : Sent(i) => requests[i].key \in Key
        /\ \A i \in DOMAIN inbound : Back(i) => inbound[i].key \in Key
    BY TokenTypes DEF AnswerInv, BasicInv
  <2> QED BY <2>1, <2>2 DEF AnswerInv, Tokens, AwaitedAll, Sent, Back
<1>7. Alone'
  BY DEF AnswerInv, Tokens, Alone, Sent, Back
<1> QED BY <1>2, <1>3, <1>4, <1>5, <1>6, <1>7 DEF AnswerInv, Tokens

\* A command that is taken is answered, or its answer is lost.
LEMMA TakeCommandAnswers ==
    ASSUME AnswerInv, BasicInv', Present', TakeCommand
    PROVE  AnswerInv'
<1> DEFINE r == Head(requests)
<1>1. /\ UNCHANGED <<callers, running, reached, doubtful>> /\ spent'["ask"] = spent["ask"]
  BY SpendType DEF TakeCommand, AnswerInv, BasicInv, Kind
<1>2. /\ requests \in Seq(StatusRequests \cup CommandRequests) /\ requests # <<>> /\ requests' = Tail(requests)
      /\ r = requests[1] /\ 1 \in DOMAIN requests /\ Sent(1) /\ r \in CommandRequests
  BY TailIs DEF TakeCommand, AnswerInv, BasicInv, Queues, Sent, StatusRequests, CommandRequests
<1>3. PICK ok \in BOOLEAN : inbound' = Heard(Ack(r.key, r.of, ok))
  BY DEF TakeCommand, Take, Refuse
<1> DEFINE m == Ack(r.key, r.of, ok)
<1>4. m \in Messages /\ m.key = r.key /\ m.of = r.of
  BY <1>2, MessageTypes DEF Ack, Messages, CommandRequests
<1> HIDE DEF r, m
<1>5. \A i \in DOMAIN inbound' :
        (i \in DOMAIN inbound /\ inbound'[i] = inbound[i]) \/ (i = Len(inbound) + 1 /\ inbound'[i] = m)
  <2>1. inbound' = Heard(m)
    BY <1>3 DEF m
  <2> QED BY <1>4, <2>1, HeardIs DEF AnswerInv, BasicInv
<1>6. \A i \in DOMAIN requests' : i + 1 \in DOMAIN requests /\ i + 1 # 1 /\ requests'[i] = requests[i + 1]
  BY <1>2, TailIs
<1>u. UNCHANGED <<call, key, mine, waiters, answer, running, reached, doubtful>>
  BY <1>1 DEF callers
<1>7. Waiting'
  BY <1>1, <1>u DEF AnswerInv, Waiting, WaitersAreCallers, Numbered
<1>8. Answers' /\ Unasked'
  BY <1>u DEF AnswerInv, Answers, OwnAnswer, AnswerReaches, Tokens, Unasked
<1>k. /\ \A k, n : Keyed(k, n) => Keyed(k, n)'
      /\ \A k, n : Awaited(k, n) => Awaited(k, n)'
  BY <1>1, <1>u DEF Keyed, Awaited
<1>9. KeyedAll'
  <2>1. \A i \in DOMAIN requests' : Sent(i)' => Keyed(requests[i].key, requests[i].of)'
    BY <1>6, <1>k DEF AnswerInv, Tokens, KeyedAll, Sent
  <2>2. Keyed(r.key, r.of)
    BY <1>2 DEF AnswerInv, Tokens, KeyedAll
  <2>3. \A i \in DOMAIN inbound' : Back(i)' => Keyed(inbound[i].key, inbound[i].of)'
    BY <1>4, <1>5, <1>k, <2>2 DEF AnswerInv, Tokens, KeyedAll, Back
  <2> QED BY <2>1, <2>3 DEF KeyedAll
<1>10. AwaitedAll'
  <2> SUFFICES ASSUME running' PROVE AwaitedAll'
    BY DEF AwaitedAll
  <2>0. running /\ AwaitedAll
    BY <1>u DEF AnswerInv, Tokens
  <2>1. \A i \in DOMAIN requests' : Sent(i)' => Awaited(requests[i].key, requests[i].of)'
    BY <1>6, <1>k, <2>0 DEF AwaitedAll, Sent
  <2>2. Awaited(r.key, r.of)
    BY <1>2, <2>0 DEF AwaitedAll
  <2>3. \A i \in DOMAIN inbound' : Back(i)' => Awaited(inbound[i].key, inbound[i].of)'
    BY <1>4, <1>5, <1>k, <2>0, <2>2 DEF AwaitedAll, Back
  <2> QED BY <2>1, <2>3 DEF AwaitedAll
<1>11. Alone'
  <2> SUFFICES ASSUME running' PROVE Alone'
    BY DEF Alone
  <2>0. running /\ Alone
    BY <1>u DEF AnswerInv, Tokens
  <2>i. DOMAIN requests' \subseteq Int
    BY <1>2
  <2>1. \A i \in DOMAIN requests : (Sent(i) /\ requests[i].key = r.key) => i = 1 \/ r.key \in doubtful
    BY <1>2, <2>0 DEF Alone
  <2>2. \A j \in DOMAIN inbound : (Back(j) /\ inbound[j].key = r.key) => r.key \in doubtful
    BY <1>2, <2>0 DEF Alone
  <2>3. \A i, j \in DOMAIN requests' :
          (Sent(i)' /\ Sent(j)' /\ requests'[i].key = requests'[j].key) => i = j \/ requests'[i].key \in doubtful'
    <3>1. \A i, j \in DOMAIN requests' : i + 1 = j + 1 => i = j
      BY <2>i
    <3> QED BY <1>6, <1>u, <2>0, <3>1 DEF Alone, Sent
  <2>4. \A i, j \in DOMAIN inbound' :
          (Back(i)' /\ Back(j)' /\ inbound'[i].key = inbound'[j].key) => i = j \/ inbound'[i].key \in doubtful'
    BY <1>4, <1>5, <1>u, <2>0, <2>2 DEF Alone, Back
  <2>5. \A i \in DOMAIN requests', j \in DOMAIN inbound' :
          (Sent(i)' /\ Back(j)' /\ requests'[i].key = inbound'[j].key) => requests'[i].key \in doubtful'
    BY <1>4, <1>5, <1>6, <1>u, <2>0, <2>1 DEF Alone, Sent, Back
  <2> QED BY <2>3, <2>4, <2>5 DEF Alone
<1> QED BY <1>7, <1>8, <1>9, <1>10, <1>11 DEF AnswerInv, Tokens

\* An answer goes to the caller whose command it answers, unless its key is in doubt.
LEMMA OnAckAnswers ==
    ASSUME AnswerInv, BasicInv', Present', OnAck
    PROVE  AnswerInv'
<1> DEFINE m == Head(inbound)
           w == waiters[m.key]
<1>1. /\ answer' = IF Resolves(m) THEN [answer EXCEPT ![w] = [ok |-> m.ok, of |-> m.of]] ELSE answer
      /\ reached' = IF m.retained THEN reached
                    ELSE reached \cup {c \in Caller : call[c] # "idle" /\ mine[c] = m.of}
      /\ UNCHANGED <<requests, running, call, key, mine, waiters, doubtful, spent>> /\ running
  BY DEF OnAck, Dispatch, Waiter
<1>2. /\ inbound \in Seq(Messages) /\ inbound # <<>> /\ inbound' = Tail(inbound)
      /\ m = inbound[1] /\ 1 \in DOMAIN inbound /\ m \in AckMsgs
  BY TailIs DEF OnAck, Dispatch, AnswerInv, BasicInv, Queues, Messages, AckMsgs, PageMsgs, LinkMsgs, StateMsgs
<1>3. m.key \in Key /\ m.of \in Nat /\ m.ok \in BOOLEAN /\ m.retained \in BOOLEAN /\ (~m.retained => Back(1))
  BY <1>2 DEF AckMsgs, Back
<1>4. Resolves(m) <=> ~m.retained /\ w # NONE /\ answer[w] = NONE
  BY DEF Resolves, Waiter
<1>t. /\ call \in [Caller -> {"idle", "publish", "wait"}] /\ key \in [Caller -> Key \cup {NONE}]
      /\ mine \in [Caller -> Nat] /\ waiters \in [Key -> Caller \cup {NONE}]
      /\ answer \in [Caller -> Result \cup {NONE}]
  BY DEF AnswerInv, BasicInv, TypeOK
<1> HIDE DEF m
<1>n. NONE \notin Caller /\ [ok |-> m.ok, of |-> m.of] # NONE
  BY <1>3, CommandAssumption DEF Result
<1>w. w # NONE => w \in Caller /\ call[w] # "idle" /\ key[w] = m.key
  BY <1>3, <1>t DEF AnswerInv, Waiting, WaitersAreCallers
<1> HIDE DEF w
<1>5. /\ \A i \in DOMAIN inbound' : i + 1 \in DOMAIN inbound /\ i + 1 # 1 /\ inbound'[i] = inbound[i + 1]
      /\ DOMAIN inbound' \subseteq Int
  BY <1>2, TailIs
<1>6. ~m.retained => Keyed(m.key, m.of) /\ Awaited(m.key, m.of)
  BY <1>1, <1>2, <1>3 DEF AnswerInv, Tokens, KeyedAll, AwaitedAll
<1>a. \A c \in Caller : answer'[c] = answer[c] \/ (c = w /\ Resolves(m) /\ answer'[c] = [ok |-> m.ok, of |-> m.of])
  BY <1>1, <1>t
<1>7. Waiting'
  <2>1. WaitersAreCallers'
    BY <1>1 DEF AnswerInv, Waiting, WaitersAreCallers
  <2>2. \A c \in Caller : call[c] = "idle" => answer'[c] = NONE /\ c \notin reached'
    BY <1>1, <1>4, <1>a, <1>w DEF AnswerInv, Waiting, Numbered
  <2> QED BY <1>1, <2>1, <2>2 DEF AnswerInv, Waiting, Numbered
<1>8. OwnAnswer'
  <2>1. Resolves(m) => mine[w] = m.of \/ key[w] \in doubtful
    BY <1>4, <1>6, <1>w DEF Awaited, w
  <2> QED BY <1>1, <1>a, <2>1 DEF AnswerInv, Answers, OwnAnswer
<1>9. AnswerReaches'
  <2> SUFFICES ASSUME NEW c \in reached' PROVE answer'[c] # NONE
    BY DEF AnswerReaches
  <2>1. CASE c \in reached
    <3>1. answer[c] # NONE /\ c \in Caller
      BY <2>1 DEF AnswerInv, Answers, AnswerReaches, BasicInv, TypeOK
    <3> QED BY <1>a, <1>n, <3>1
  <2>2. CASE c \notin reached
    <3>1. ~m.retained /\ c \in Caller /\ call[c] # "idle" /\ mine[c] = m.of
      BY <1>1, <2>2
    <3>2. key[c] = m.key
      BY <1>6, <3>1 DEF Keyed
    <3>3. w = c
      BY <1>3, <3>1, <3>2 DEF AnswerInv, Waiting, WaitersAreCallers, w
    <3> QED BY <1>1, <1>4, <1>a, <1>n, <1>t, <3>1, <3>3
  <2> QED BY <2>1, <2>2
<1>10. Unasked'
  <2>1. Resolves(m) /\ call[w] = "publish" => key[w] \in doubtful
    BY <1>4, <1>6, <1>w DEF Awaited, w
  <2> QED BY <1>1, <1>a, <2>1 DEF AnswerInv, Tokens, Unasked
<1>11. KeyedAll'
  <2>1. \A k, n : Keyed(k, n) => Keyed(k, n)'
    BY <1>1 DEF Keyed
  <2>2. \A i \in DOMAIN requests' : Sent(i)' => Keyed(requests[i].key, requests[i].of)'
    BY <1>1, <2>1 DEF AnswerInv, Tokens, KeyedAll, Sent
  <2>3. \A i \in DOMAIN inbound' : Back(i)' => Keyed(inbound[i].key, inbound[i].of)'
    BY <1>5, <2>1 DEF AnswerInv, Tokens, KeyedAll, Back
  <2> QED BY <2>2, <2>3 DEF KeyedAll
<1>12. AwaitedAll'
  <2>1. \A k \in Key : \A n : (Awaited(k, n) /\ (Resolves(m) /\ k = m.key => k \in doubtful)) => Awaited(k, n)'
    <3>1. \A k \in Key : (waiters[k] = w /\ w # NONE) => k = m.key
      BY <1>w, <1>t DEF AnswerInv, Waiting, WaitersAreCallers
    <3>2. \A k \in Key : \A n : Awaited(k, n) /\ k \notin doubtful => waiters[k] \in Caller
      BY DEF Awaited
    <3> QED BY <1>1, <1>4, <1>a, <3>1, <3>2 DEF Awaited
  <2>2. ~m.retained => \A i \in DOMAIN requests : Sent(i) /\ requests[i].key = m.key => m.key \in doubtful
    BY <1>1, <1>2, <1>3 DEF AnswerInv, Tokens, Alone
  <2>3. ~m.retained =>
          \A i \in DOMAIN inbound : i # 1 /\ Back(i) /\ inbound[i].key = m.key => m.key \in doubtful
    BY <1>1, <1>2, <1>3 DEF AnswerInv, Tokens, Alone
  <2>t. /\ \A i \in DOMAIN requests : Sent(i) => requests[i].key \in Key
        /\ \A i \in DOMAIN inbound : Back(i) => inbound[i].key \in Key
    BY TokenTypes DEF AnswerInv, BasicInv
  <2>4. \A i \in DOMAIN requests' : Sent(i)' => Awaited(requests[i].key, requests[i].of)'
    BY <1>1, <1>4, <2>1, <2>2, <2>t DEF AnswerInv, Tokens, AwaitedAll, Sent
  <2>5. \A i \in DOMAIN inbound' : Back(i)' => Awaited(inbound[i].key, inbound[i].of)'
    BY <1>1, <1>4, <1>5, <2>1, <2>3, <2>t DEF AnswerInv, Tokens, AwaitedAll, Back
  <2> QED BY <2>4, <2>5 DEF AwaitedAll
<1>13. Alone'
  <2>0. running /\ Alone
    BY <1>1 DEF AnswerInv, Tokens
  <2>1. \A i, j \in DOMAIN inbound' : i + 1 = j + 1 => i = j
    BY <1>5
  <2> QED BY <1>1, <1>5, <2>0, <2>1 DEF Alone, Sent, Back
<1> QED BY <1>7, <1>8, <1>9, <1>10, <1>11, <1>12, <1>13 DEF AnswerInv, Tokens, Answers

\* Who stops tells its callers so, and hears no answers any more.
LEMMA StopAnswers ==
    ASSUME AnswerInv, BasicInv', Present', Stop
    PROVE  AnswerInv'
<1>1. /\ ~running' /\ inbound' = <<>> /\ UNCHANGED <<requests, call, key, mine, waiters, reached, doubtful>>
      /\ \A c \in Caller : answer'[c] = answer[c] \/ (call[c] # "idle" /\ answer[c] = NONE)
  BY DEF Stop
<1>2. spent'["ask"] = spent["ask"]
  BY SpendType DEF Stop, AnswerInv, BasicInv, Kind
<1>3. Waiting'
  BY <1>1, <1>2 DEF AnswerInv, Waiting, WaitersAreCallers, Numbered
<1>4. Answers'
  BY <1>1 DEF AnswerInv, BasicInv, TypeOK, Answers, OwnAnswer, AnswerReaches
<1>5. KeyedAll'
  BY <1>1, <1>2 DEF AnswerInv, Tokens, KeyedAll, Keyed, Sent, Back
<1>6. AwaitedAll' /\ Alone' /\ Unasked'
  BY <1>1 DEF AwaitedAll, Alone, Unasked
<1> QED BY <1>3, <1>4, <1>5, <1>6 DEF AnswerInv, Tokens

\* Every step keeps the invariant.
LEMMA AnswersNext ==
    ASSUME AnswerInv, [Next]_vars
    PROVE  AnswerInv'
<1>b. BasicInv' /\ Present'
  BY BasicNext, PresentNext DEF AnswerInv
<1>1. CASE UNCHANGED vars
  <2>1. UNCHANGED <<requests, inbound, callers, running, reached, doubtful, spent>>
    BY <1>1 DEF vars
  <2> QED BY <1>b, <2>1, Handed, QuietStep DEF AnswerInv
<1>2. CASE Client
  BY <1>b, <1>2, HearingAnswers, OnAckAnswers, StopAnswers DEF Client
<1>3. CASE Bridge
  BY <1>b, <1>3, TakeCommandAnswers, TakeTwiceAnswers, ForeignAnswers, TakeStatusAnswers, ChangesAnswers,
     ConnectionAnswers DEF Bridge
<1>4. ASSUME NEW c \in Caller, Command(c) \/ Publish(c) PROVE AnswerInv'
  BY <1>b, <1>4, CommandAnswers, PublishAnswers
<1>5. ASSUME NEW c \in Caller, Answered(c) \/ Expire(c) PROVE AnswerInv'
  <2>1. /\ call[c] # "idle" /\ Leave(c) /\ UNCHANGED <<requests, inbound, running>>
        /\ (answer[c] # NONE /\ UNCHANGED doubtful) \/ doubtful' = doubtful \cup {key[c]}
    BY <1>5 DEF Answered, Expire
  <2>2. spent'["ask"] = spent["ask"]
    BY <1>5, SpendType DEF Answered, Expire, AnswerInv, BasicInv, Kind
  <2> QED BY <1>b, <2>1, <2>2, LeaveAnswers
<1> QED BY <1>1, <1>2, <1>3, <1>4, <1>5 DEF Next

\* Nothing has been asked, said or heard.
LEMMA AnswersInit == Init => AnswerInv
<1> SUFFICES ASSUME Init PROVE AnswerInv
  OBVIOUS
<1>0. [type |-> "status", part |-> NONE] \in StatusRequests \cup CommandRequests
  BY DEF StatusRequests
<1>n. NONE \notin Caller \cup Key
  BY CommandAssumption
<1>1. TypeOK
  <2>1. CycleOK
    <3>1. Closed \in [at : {"none", "first", "second"}, again : BOOLEAN, listed : SUBSET Device, total : Nat]
      BY DEF Closed
    <3> QED BY <3>1 DEF Init, CycleOK
  <2> QED BY <2>1 DEF Init, TypeOK, CycleOK
<1>2. Queues /\ Named
  BY <1>0 DEF Init, Queues, Named
<1>3. Present
  BY DEF Init, Present
<1>4. Waiting
  BY <1>n DEF Init, Waiting, WaitersAreCallers, Numbered
<1>5. Answers /\ Unasked
  BY DEF Init, Answers, OwnAnswer, AnswerReaches, Unasked
<1>6. KeyedAll /\ AwaitedAll /\ Alone
  <2>1. \A i \in DOMAIN requests : ~Sent(i)
    BY DEF Init, Sent
  <2>2. DOMAIN inbound = {}
    BY DEF Init
  <2> QED BY <2>1, <2>2 DEF KeyedAll, AwaitedAll, Alone
<1> QED BY <1>1, <1>2, <1>3, <1>4, <1>5, <1>6 DEF AnswerInv, BasicInv, Tokens

\* The inductive invariant of the commands.
THEOREM AnswerInvariant == Spec => []AnswerInv
<1>1. Init => AnswerInv
  BY AnswersInit
<1>2. AnswerInv /\ [Next]_vars => AnswerInv'
  BY AnswersNext
<1> QED BY <1>1, <1>2, PTL DEF Spec

\* The table of waiters is exactly the callers that wait, whatever way they stop
\* waiting (the `finally` of publish_command).
THEOREM WaitersKept == Spec => []IInv
<1>1. AnswerInv => IInv
  BY DEF AnswerInv, BasicInv, Waiting, IInv
<1> QED BY <1>1, AnswerInvariant, PTL

\* However callers, other clients, lost connections and replies delivered late
\* or twice interleave, a caller gets the answer to its own command, and gets it
\* once it was heard.
THEOREM AnswersTheirOwn == Spec => []Answers
<1>1. AnswerInv => Answers
  BY DEF AnswerInv
<1> QED BY <1>1, AnswerInvariant, PTL

(***************************************************************************)
(* The stays of a device, in the order of their news                       *)
(***************************************************************************)
\* The client heard of these stays of the device, and has not forgotten the values.
HeardStays(d) == lastState[d] \cup (IF heard[d] = NONE THEN {} ELSE {heard[d].stay})

\* News of the device, and what tells the client that a stay of it is over.
About(i, d) == inbound[i].type \in {"link", "state"} /\ inbound[i].id = d
Ends(i, d) ==
    \/ inbound[i].type = "ack" /\ ~inbound[i].retained /\ inbound[i].ok /\ inbound[i].key = <<"remove", d>>
    \/ inbound[i].type = "page" /\ d \notin inbound[i].held

\* What was heard is of stays that were, and what the client takes for over is.
Past(d) ==
    /\ HeardStays(d) \subseteq 1..stays /\ over[d] \subseteq 1..stays /\ stay[d] \notin over[d]
    /\ stay[d] > 0 => \A s \in HeardStays(d) : s <= stay[d]

\* News on its way is of no stay that is over for the client, nor before what it heard.
Coming(d) ==
    \A i \in DOMAIN inbound : About(i, d) =>
        /\ inbound[i].stay \in 1..stays /\ inbound[i].stay \notin over[d]
        /\ stay[d] > 0 => inbound[i].stay <= stay[d]
        /\ \A s \in HeardStays(d) : s <= inbound[i].stay

Ordered(d) ==
    \A i, j \in DOMAIN inbound :
        i < j /\ About(i, d) /\ About(j, d) => inbound[i].stay <= inbound[j].stay

\* The end of a stay is between the news of that stay and the news of the next.
Ended(d) ==
    \A j \in DOMAIN inbound : Ends(j, d) =>
        /\ stay[d] \notin HeardStays(d)
        /\ \A i \in DOMAIN inbound : i < j /\ About(i, d) => inbound[i].stay # stay[d]
        /\ \A i \in DOMAIN inbound : j < i /\ About(i, d) => inbound[i].stay \notin HeardStays(d)
        /\ \A h, i \in DOMAIN inbound :
              h < j /\ j < i /\ About(h, d) /\ About(i, d) => inbound[h].stay # inbound[i].stay

\* The client has the link it heard last, unless that stay is over, and so has
\* the driver.
Latest(d) ==
    /\ lastConn[d] = NONE \/ (lastConn[d] = heard[d] /\ lastConn[d].stay \notin over[d])
    /\ heard[d] # NONE /\ heard[d].stay = stay[d] => lastConn[d] = heard[d] \/ d \in passed
    /\ d \in driven => told[d] = lastConn[d]

\* Values of a linked device come after its link, and are forgotten with it.
Follows(d, s, n) ==
    \/ lastConn[d] # NONE /\ lastConn[d].stay = s
    \/ \E i \in DOMAIN inbound : i < n /\ inbound[i].type = "link" /\ inbound[i].id = d /\ inbound[i].stay = s
LinkFirst(d) ==
    d \in Linked \ passed =>
        /\ lastState[d] # {} => lastConn[d] # NONE
        /\ lastState[d] \cap over[d] = {}
        /\ connected /\ running /\ link[d] # "none" => Follows(d, stay[d], Len(inbound) + 1)
        /\ \A i \in DOMAIN inbound : inbound[i].type = "state" /\ inbound[i].id = d => Follows(d, inbound[i].stay, i)

StaysInv(d) == Past(d) /\ Coming(d) /\ Ordered(d) /\ Ended(d) /\ Latest(d) /\ LinkFirst(d)
SeedInv == BasicInv /\ Present /\ \A d \in Device : StaysInv(d)

\* What is heard of a device keeps its order when all that comes after is news of
\* the present stay, or its end.
LEMMA GrowKeeps ==
    ASSUME TypeOK, TypeOK', Queues, Queues', Present, Present', NEW d \in Device, StaysInv(d),
           UNCHANGED <<heard, view>>, stays <= stays',
           stay'[d] \in {0, stay[d]} \/ stay'[d] > stays,
           Len(inbound) <= Len(inbound'),
           \A i \in DOMAIN inbound : i \in DOMAIN inbound' /\ inbound'[i] = inbound[i],
           \A i \in DOMAIN inbound' \ DOMAIN inbound :
              /\ About(i, d)' => inbound'[i].stay = stay'[d] /\ stay'[d] > 0
              /\ Ends(i, d)' => stay'[d] = 0
              /\ (d \in Linked \ passed /\ inbound'[i].type = "state" /\ inbound'[i].id = d) => Follows(d, stay[d], i)',
           d \in Linked \ passed /\ connected' /\ running' /\ link'[d] # "none" => Follows(d, stay[d], Len(inbound) + 1)'
    PROVE  StaysInv(d)'
<1> DEFINE n == Len(inbound)
           k == Len(inbound')
<1>1. n \in Nat /\ k \in Nat /\ DOMAIN inbound = 1..n /\ DOMAIN inbound' = 1..k
  BY DEF Queues
<1>t. stay[d] \in Nat /\ stay'[d] \in Nat /\ stays \in Nat /\ stays' \in Nat /\ stay'[d] <= stays'
  BY DEF TypeOK, Present
<1>h. HeardStays(d)' = HeardStays(d) /\ over'[d] = over[d]
  BY DEF HeardStays, view
<1>o. \A i \in DOMAIN inbound : (About(i, d)' <=> About(i, d)) /\ (Ends(i, d)' <=> Ends(i, d))
  BY DEF About, Ends
<1>p. HeardStays(d) \subseteq 1..stays /\ over[d] \subseteq 1..stays
  BY DEF StaysInv, Past
<1>c. \A i \in DOMAIN inbound : About(i, d) => inbound[i].stay \in 1..stays
  BY DEF StaysInv, Coming
<1>2. Past(d)'
  BY <1>t, <1>h DEF StaysInv, Past
<1>3. stay'[d] = stay[d] \/ (stay'[d] \notin 1..stays)
  BY <1>t
<1>4. Coming(d)'
  <2> SUFFICES ASSUME NEW i \in DOMAIN inbound', About(i, d)'
               PROVE  /\ inbound'[i].stay \in 1..stays' /\ inbound'[i].stay \notin over[d]
                      /\ stay'[d] > 0 => inbound'[i].stay <= stay'[d]
                      /\ \A s \in HeardStays(d) : s <= inbound'[i].stay
    BY <1>h DEF Coming
  <2>1. CASE i \in DOMAIN inbound
    BY <2>1, <1>t, <1>o, <1>c DEF StaysInv, Coming
  <2>2. CASE i \notin DOMAIN inbound
    <3>1. inbound'[i].stay = stay'[d] /\ stay'[d] > 0
      BY <2>2
    <3> QED BY <3>1, <1>t, <1>2, <1>h DEF Past
  <2> QED BY <2>1, <2>2
<1>5. Ordered(d)'
  <2> SUFFICES ASSUME NEW i \in DOMAIN inbound', NEW j \in DOMAIN inbound', i < j, About(i, d)', About(j, d)'
               PROVE  inbound'[i].stay <= inbound'[j].stay
    BY DEF Ordered
  <2>1. CASE j \in DOMAIN inbound
    <3>1. i \in DOMAIN inbound
      BY <2>1, <1>1
    <3> QED BY <2>1, <3>1, <1>o DEF StaysInv, Ordered
  <2>2. CASE j \notin DOMAIN inbound
    <3>1. inbound'[j].stay = stay'[d] /\ stay'[d] > 0
      BY <2>2
    <3> QED BY <3>1, <1>4 DEF Coming
  <2> QED BY <2>1, <2>2
<1>6. Ended(d)'
  <2> SUFFICES ASSUME NEW j \in DOMAIN inbound', Ends(j, d)'
               PROVE  /\ stay'[d] \notin HeardStays(d)
                      /\ \A i \in DOMAIN inbound' : i < j /\ About(i, d)' => inbound'[i].stay # stay'[d]
                      /\ \A i \in DOMAIN inbound' : j < i /\ About(i, d)' => inbound'[i].stay \notin HeardStays(d)
                      /\ \A h, i \in DOMAIN inbound' :
                            h < j /\ j < i /\ About(h, d)' /\ About(i, d)' => inbound'[h].stay # inbound'[i].stay
    BY <1>h DEF Ended
  <2>1. CASE j \in DOMAIN inbound
    <3>1. stay'[d] \notin HeardStays(d)
      BY <2>1, <1>3, <1>p, <1>o DEF StaysInv, Ended
    <3>2. ASSUME NEW i \in DOMAIN inbound', i < j, About(i, d)'
          PROVE  i \in DOMAIN inbound /\ About(i, d) /\ inbound'[i].stay # stay'[d]
      <4>1. i \in DOMAIN inbound
        BY <2>1, <3>2, <1>1
      <4>2. About(i, d)
        BY <3>2, <4>1, <1>o
      <4> QED BY <2>1, <3>2, <4>1, <4>2, <1>3, <1>c, <1>o DEF StaysInv, Ended
    <3>3. ASSUME NEW i \in DOMAIN inbound', j < i, About(i, d)'
          PROVE  inbound'[i].stay \notin HeardStays(d)
      <4>1. CASE i \in DOMAIN inbound
        BY <2>1, <3>3, <4>1, <1>o DEF StaysInv, Ended
      <4>2. CASE i \notin DOMAIN inbound
        BY <3>1, <3>3, <4>2
      <4> QED BY <4>1, <4>2
    <3>4. ASSUME NEW h \in DOMAIN inbound', NEW i \in DOMAIN inbound', h < j, j < i, About(h, d)', About(i, d)'
          PROVE  inbound'[h].stay # inbound'[i].stay
      <4>1. CASE i \in DOMAIN inbound
        BY <2>1, <3>2, <3>4, <4>1, <1>o DEF StaysInv, Ended
      <4>2. CASE i \notin DOMAIN inbound
        BY <3>2, <3>4, <4>2
      <4> QED BY <4>1, <4>2
    <3> QED BY <3>1, <3>2, <3>3, <3>4
  <2>2. CASE j \notin DOMAIN inbound
    <3>1. stay'[d] = 0
      BY <2>2
    <3>2. \A i \in DOMAIN inbound' : About(i, d)' => i \in DOMAIN inbound /\ inbound'[i].stay \in 1..stays
      BY <3>1, <1>o, <1>c
    <3>3. \A i \in DOMAIN inbound' : j < i => i \notin DOMAIN inbound
      BY <2>2, <1>1
    <3> QED BY <3>1, <3>2, <3>3, <1>p, <1>t
  <2> QED BY <2>1, <2>2
<1>7. Latest(d)'
  <2>1. heard[d] # NONE => heard[d].stay \in HeardStays(d)
    BY DEF HeardStays
  <2> QED BY <2>1, <1>3, <1>p DEF StaysInv, Latest, view
<1>8. LinkFirst(d)'
  <2> SUFFICES ASSUME d \in Linked \ passed
               PROVE  \A i \in DOMAIN inbound' :
                        inbound'[i].type = "state" /\ inbound'[i].id = d => Follows(d, inbound[i].stay, i)'
    BY DEF StaysInv, LinkFirst, view
  <2> SUFFICES ASSUME NEW i \in DOMAIN inbound', inbound'[i].type = "state", inbound'[i].id = d
               PROVE  Follows(d, inbound[i].stay, i)'
    OBVIOUS
  <2>1. CASE i \in DOMAIN inbound
    <3>1. Follows(d, inbound[i].stay, i)
      BY <2>1 DEF StaysInv, LinkFirst
    <3> QED BY <2>1, <3>1 DEF Follows, view
  <2>2. CASE i \notin DOMAIN inbound
    <3>1. Follows(d, stay[d], i)' /\ inbound'[i].stay = stay'[d]
      BY <2>2 DEF About
    <3> QED BY <3>1 DEF Follows
  <2> QED BY <2>1, <2>2
<1> QED BY <1>2, <1>4, <1>5, <1>6, <1>7, <1>8 DEF StaysInv

\* The first message taken, the others keep their order.
LEMMA ShiftIs ==
    ASSUME Queues, inbound # <<>>, inbound' = Tail(inbound), NEW d
    PROVE  /\ Len(inbound) \in Nat /\ DOMAIN inbound = 1..Len(inbound) /\ 1 \in DOMAIN inbound
           /\ Len(inbound') = Len(inbound) - 1 /\ DOMAIN inbound' = 1..(Len(inbound) - 1)
           /\ \A i \in DOMAIN inbound' : i + 1 \in DOMAIN inbound /\ inbound'[i] = inbound[i + 1]
           /\ \A i \in DOMAIN inbound : i = 1 \/ (i - 1 \in DOMAIN inbound' /\ inbound'[i - 1] = inbound[i])
           /\ \A i \in DOMAIN inbound' : (About(i, d)' <=> About(i + 1, d)) /\ (Ends(i, d)' <=> Ends(i + 1, d))
<1>1. /\ Len(inbound) \in Nat /\ DOMAIN inbound = 1..Len(inbound) /\ 1 \in DOMAIN inbound
      /\ Len(inbound') = Len(inbound) - 1 /\ DOMAIN inbound' = 1..(Len(inbound) - 1)
      /\ \A i \in DOMAIN inbound' : i + 1 \in DOMAIN inbound /\ inbound'[i] = inbound[i + 1]
      /\ \A i \in DOMAIN inbound : i = 1 \/ (i - 1 \in DOMAIN inbound' /\ inbound'[i - 1] = inbound[i])
  BY TailIs DEF Queues
<1>2. \A i \in DOMAIN inbound' : (About(i, d)' <=> About(i + 1, d)) /\ (Ends(i, d)' <=> Ends(i + 1, d))
  BY <1>1 DEF About, Ends
<1> QED BY <1>1, <1>2

\* What the client has heard of a device may grow by the stay that the message
\* it takes is of, and only by that.
LEMMA HeardOrder ==
    ASSUME Queues, TypeOK, NEW d \in Device, StaysInv(d), inbound # <<>>, inbound' = Tail(inbound),
           UNCHANGED <<stay, stays>>,
           \A s \in HeardStays(d)' : s \in HeardStays(d) \/ (About(1, d) /\ s = inbound[1].stay)
    PROVE  /\ Ordered(d)' /\ Ended(d)'
           /\ UNCHANGED over[d] => Past(d)' /\ Coming(d)'
<1>1. /\ DOMAIN inbound = 1..Len(inbound) /\ 1 \in DOMAIN inbound /\ Len(inbound) \in Nat
      /\ DOMAIN inbound' = 1..(Len(inbound) - 1)
      /\ \A i \in DOMAIN inbound' : i + 1 \in DOMAIN inbound /\ inbound'[i] = inbound[i + 1]
      /\ \A i \in DOMAIN inbound' : (About(i, d)' <=> About(i + 1, d)) /\ (Ends(i, d)' <=> Ends(i + 1, d))
  BY ShiftIs
<1>t. stay[d] \in Nat /\ stays \in Nat
  BY DEF TypeOK
<1>c. About(1, d) => /\ inbound[1].stay \in 1..stays /\ inbound[1].stay \notin over[d]
                     /\ stay[d] > 0 => inbound[1].stay <= stay[d]
  BY <1>1 DEF StaysInv, Coming
<1>o. \A i \in DOMAIN inbound' : About(1, d) /\ About(i + 1, d) => inbound[1].stay <= inbound[i + 1].stay
  BY <1>1 DEF StaysInv, Ordered
<1>2. UNCHANGED over[d] => Past(d)'
  BY <1>c, <1>t DEF StaysInv, Past
<1>3. UNCHANGED over[d] => Coming(d)'
  BY <1>1, <1>o DEF StaysInv, Coming
<1>4. Ordered(d)'
  BY <1>1 DEF StaysInv, Ordered
<1>5. Ended(d)'
  <2> SUFFICES ASSUME NEW j \in DOMAIN inbound', Ends(j, d)'
               PROVE  /\ stay[d] \notin HeardStays(d)'
                      /\ \A i \in DOMAIN inbound' : i < j /\ About(i, d)' => inbound'[i].stay # stay[d]
                      /\ \A i \in DOMAIN inbound' : j < i /\ About(i, d)' => inbound'[i].stay \notin HeardStays(d)'
                      /\ \A h, i \in DOMAIN inbound' :
                            h < j /\ j < i /\ About(h, d)' /\ About(i, d)' => inbound'[h].stay # inbound'[i].stay
    BY DEF Ended
  <2>1. Ends(j + 1, d) /\ j + 1 \in DOMAIN inbound /\ 1 < j + 1 /\ j \in Int
    BY <1>1
  <2>2. About(1, d) => inbound[1].stay # stay[d]
    BY <1>1, <2>1 DEF StaysInv, Ended
  <2>3. stay[d] \notin HeardStays(d)'
    BY <2>1, <2>2 DEF StaysInv, Ended
  <2>4. \A i \in DOMAIN inbound' : i < j /\ About(i, d)' => inbound'[i].stay # stay[d]
    BY <1>1, <2>1 DEF StaysInv, Ended
  <2>5. ASSUME NEW i \in DOMAIN inbound', j < i, About(i, d)'
        PROVE  inbound'[i].stay \notin HeardStays(d)'
    <3>1. i + 1 \in DOMAIN inbound /\ j + 1 < i + 1 /\ About(i + 1, d) /\ inbound'[i] = inbound[i + 1]
      BY <1>1, <2>1, <2>5
    <3>2. inbound[i + 1].stay \notin HeardStays(d)
      BY <2>1, <3>1 DEF StaysInv, Ended
    <3>3. About(1, d) => inbound[1].stay # inbound[i + 1].stay
      BY <1>1, <2>1, <3>1 DEF StaysInv, Ended
    <3> QED BY <3>1, <3>2, <3>3
  <2>6. ASSUME NEW h \in DOMAIN inbound', NEW i \in DOMAIN inbound', h < j, j < i, About(h, d)', About(i, d)'
        PROVE  inbound'[h].stay # inbound'[i].stay
    <3>1. /\ h + 1 \in DOMAIN inbound /\ i + 1 \in DOMAIN inbound /\ h + 1 < j + 1 /\ j + 1 < i + 1
          /\ About(h + 1, d) /\ About(i + 1, d)
          /\ inbound'[h] = inbound[h + 1] /\ inbound'[i] = inbound[i + 1]
      BY <1>1, <2>1, <2>6
    <3> QED BY <2>1, <3>1 DEF StaysInv, Ended
  <2> QED BY <2>3, <2>4, <2>5, <2>6
<1> QED BY <1>2, <1>3, <1>4, <1>5

\* A link that was before a message still is, when the first message was not it,
\* or what it brought is what the client has.
LEMMA ShiftFollows ==
    ASSUME Queues, NEW d, inbound # <<>>, inbound' = Tail(inbound), NEW s, NEW n \in Int, Follows(d, s, n + 1),
           lastConn[d] # NONE /\ lastConn[d].stay = s => Follows(d, s, n)',
           inbound[1].type = "link" /\ inbound[1].id = d /\ inbound[1].stay = s /\ 1 < n + 1 =>
              lastConn'[d] # NONE /\ lastConn'[d].stay = s
    PROVE  Follows(d, s, n)'
<1>1. CASE lastConn[d] # NONE /\ lastConn[d].stay = s
  BY <1>1
<1>2. CASE \E i \in DOMAIN inbound :
              i < n + 1 /\ inbound[i].type = "link" /\ inbound[i].id = d /\ inbound[i].stay = s
  <2>1. PICK i \in DOMAIN inbound :
              i < n + 1 /\ inbound[i].type = "link" /\ inbound[i].id = d /\ inbound[i].stay = s
    BY <1>2
  <2>2. i = 1 \/ (i - 1 \in DOMAIN inbound' /\ inbound'[i - 1] = inbound[i] /\ i - 1 < n)
    BY <2>1, ShiftIs
  <2> QED BY <2>1, <2>2 DEF Follows
<1> QED BY <1>1, <1>2 DEF Follows

\* Values of a linked device still come after its link.
LEMMA ShiftLinkFirst ==
    ASSUME Queues, TypeOK, NEW d \in Linked \ passed, StaysInv(d), inbound # <<>>, inbound' = Tail(inbound),
           UNCHANGED <<stay, link, connected, running>>,
           (/\ lastConn[d] # NONE
            /\ \/ lastConn[d].stay = stay[d] /\ link[d] # "none"
               \/ \E i \in DOMAIN inbound : i > 1 /\ About(i, d) /\ inbound[i].stay = lastConn[d].stay)
           => lastConn'[d] # NONE /\ lastConn'[d].stay = lastConn[d].stay,
           inbound[1].type = "link" /\ inbound[1].id = d => lastConn'[d] # NONE /\ lastConn'[d].stay = inbound[1].stay
    PROVE  /\ connected' /\ running' /\ link'[d] # "none" => Follows(d, stay[d], Len(inbound) + 1)'
           /\ \A i \in DOMAIN inbound' : inbound'[i].type = "state" /\ inbound'[i].id = d =>
                            Follows(d, inbound[i].stay, i)'
<1>1. /\ Len(inbound) \in Int /\ Len(inbound) = Len(inbound') + 1 /\ DOMAIN inbound' = 1..(Len(inbound) - 1)
      /\ \A i \in DOMAIN inbound' : i + 1 \in DOMAIN inbound /\ inbound'[i] = inbound[i + 1]
  BY ShiftIs
<1>2. connected' /\ running' /\ link'[d] # "none" => Follows(d, stay[d], Len(inbound) + 1)'
  <2> SUFFICES ASSUME connected, running, link[d] # "none"
               PROVE  Follows(d, stay[d], Len(inbound) + 1)'
    OBVIOUS
  <2>1. PICK s \in Nat : s = stay[d]
    BY CommandAssumption DEF TypeOK
  <2>2. PICK n \in Int : n = Len(inbound) /\ n = Len(inbound') + 1
    BY <1>1
  <2>3. Follows(d, s, n + 1)
    BY <2>1, <2>2 DEF StaysInv, LinkFirst
  <2>4. lastConn[d] # NONE /\ lastConn[d].stay = s => Follows(d, s, n)'
    BY <2>1 DEF Follows
  <2>5. Follows(d, s, n)'
    BY <2>3, <2>4, ShiftFollows
  <2> QED BY <2>1, <2>2, <2>5 DEF Follows
<1>3. ASSUME NEW i \in DOMAIN inbound', inbound'[i].type = "state", inbound'[i].id = d
      PROVE  Follows(d, inbound[i].stay, i)'
  <2>1. i + 1 \in DOMAIN inbound /\ inbound'[i] = inbound[i + 1] /\ i \in Int /\ i + 1 > 1
    BY <1>1
  <2>2. PICK s : s = inbound[i + 1].stay
    OBVIOUS
  <2>3. Follows(d, s, i + 1)
    BY <1>3, <2>1, <2>2 DEF StaysInv, LinkFirst
  <2>4. lastConn[d] # NONE /\ lastConn[d].stay = s => Follows(d, s, i)'
    BY <1>3, <2>1, <2>2 DEF About, Follows
  <2>5. Follows(d, s, i)'
    BY <2>1, <2>3, <2>4, ShiftFollows
  <2> QED BY <2>1, <2>2, <2>5 DEF Follows
<1> QED BY <1>2, <1>3

\* A message that says nothing of a device leaves what is known of it.
LEMMA ShiftKeeps ==
    ASSUME Queues, TypeOK, NEW d \in Device, StaysInv(d), inbound # <<>>, inbound' = Tail(inbound),
           UNCHANGED <<stay, stays, link, connected, running, over, passed>>,
           UNCHANGED <<lastConn[d], lastState[d], heard[d]>>,
           d \in driven' => told'[d] = lastConn[d],
           ~About(1, d)
    PROVE  StaysInv(d)'
<1>1. Past(d)' /\ Coming(d)' /\ Ordered(d)' /\ Ended(d)'
  <2>1. HeardStays(d)' = HeardStays(d)
    BY DEF HeardStays
  <2> QED BY <2>1, HeardOrder
<1>2. Latest(d)'
  BY DEF StaysInv, Latest
<1>3. LinkFirst(d)'
  <2>1. ASSUME d \in Linked \ passed
        PROVE  /\ connected' /\ running' /\ link'[d] # "none" => Follows(d, stay[d], Len(inbound) + 1)'
               /\ \A i \in DOMAIN inbound' : inbound'[i].type = "state" /\ inbound'[i].id = d =>
                            Follows(d, inbound[i].stay, i)'
    <3>1. ~(inbound[1].type = "link" /\ inbound[1].id = d)
      BY DEF About
    <3> QED BY <2>1, <3>1, ShiftLinkFirst
  <2> QED BY <2>1 DEF StaysInv, LinkFirst
<1> QED BY <1>1, <1>2, <1>3 DEF StaysInv

\* A link that is heard is the latest of its device.
LEMMA OnLinkSeeds ==
    ASSUME SeedInv, OnLink
    PROVE  \A d \in Device : StaysInv(d)'
<1> SUFFICES ASSUME NEW d \in Device PROVE StaysInv(d)'
  OBVIOUS
<1> DEFINE m == Head(inbound)
<1>1. /\ Queues /\ TypeOK /\ Present /\ StaysInv(d) /\ inbound # <<>> /\ inbound' = Tail(inbound)
      /\ inbound[1] = m /\ m.type = "link" /\ m \in LinkMsgs
  BY TailIs DEF SeedInv, BasicInv, Queues, OnLink, Dispatch, AckMsgs, PageMsgs, LinkMsgs, StateMsgs, Messages
<1>u. UNCHANGED <<stay, stays, link, connected, running, over, passed, lastState, driven>>
  BY DEF OnLink, bridge
<1>t. /\ lastConn \in [Device -> News \cup {NONE}] /\ heard \in [Device -> News \cup {NONE}]
      /\ told \in [Device -> News \cup {NONE}] /\ m.id \in Device /\ NewsOf(m) \in News /\ NewsOf(m) # NONE
      /\ NewsOf(m).stay = m.stay
  BY <1>1, CommandAssumption DEF TypeOK, LinkMsgs, NewsOf, News
<1>m. /\ lastConn' = [lastConn EXCEPT ![m.id] = NewsOf(m)] /\ heard' = [heard EXCEPT ![m.id] = NewsOf(m)]
      /\ told' = IF m.id \in driven THEN [told EXCEPT ![m.id] = NewsOf(m)] ELSE told
  BY DEF OnLink
<1> HIDE DEF m
<1>2. CASE m.id # d
  <2>1. ~About(1, d)
    BY <1>1, <1>2 DEF About
  <2>2. UNCHANGED <<lastConn[d], heard[d], told[d], lastState[d]>>
    BY <1>2, <1>u, <1>t, <1>m
  <2>3. d \in driven' => told'[d] = lastConn[d]
    BY <2>2, <1>1, <1>u DEF StaysInv, Latest
  <2> QED BY <2>1, <2>2, <2>3, <1>1, <1>u, ShiftKeeps
<1>3. CASE m.id = d
  <2>1. About(1, d) /\ inbound[1].stay = m.stay
    BY <1>1, <1>3 DEF About
  <2>2. lastConn'[d] = NewsOf(m) /\ heard'[d] = NewsOf(m) /\ (d \in driven => told'[d] = NewsOf(m))
    BY <1>3, <1>t, <1>m
  <2>3. HeardStays(d)' = lastState[d] \cup {m.stay}
    BY <2>2, <1>t, <1>u DEF HeardStays
  <2>4. Past(d)' /\ Coming(d)' /\ Ordered(d)' /\ Ended(d)'
    <3>1. \A s \in HeardStays(d)' : s \in HeardStays(d) \/ s = inbound[1].stay
      BY <2>1, <2>3 DEF HeardStays
    <3> QED BY <3>1, <2>1, <1>1, <1>u, HeardOrder
  <2>5. m.stay \notin over[d] /\ m.stay \in 1..stays
    BY <2>1, ShiftIs, <1>1 DEF StaysInv, Coming
  <2>6. Latest(d)'
    BY <2>2, <2>5, <1>t, <1>u DEF Latest
  <2>7. ASSUME d \in Linked \ passed,
               lastConn[d] # NONE,
               \/ lastConn[d].stay = stay[d] /\ link[d] # "none"
               \/ \E i \in DOMAIN inbound : i > 1 /\ About(i, d) /\ inbound[i].stay = lastConn[d].stay
        PROVE  lastConn[d].stay = m.stay
    <3>1. lastConn[d].stay \in HeardStays(d) /\ lastConn[d].stay \in Nat /\ m.stay \in Nat
      BY <2>7, <1>t, <1>1 DEF StaysInv, Latest, HeardStays, News, LinkMsgs
    <3>2. lastConn[d].stay <= m.stay
      BY <2>1, <3>1, ShiftIs, <1>1 DEF StaysInv, Coming
    <3>3. CASE lastConn[d].stay = stay[d] /\ link[d] # "none"
      <4>1. stay[d] \in Nat /\ stay[d] # 0
        BY <3>3, <1>1 DEF TypeOK, Present
      <4>2. m.stay <= stay[d]
        BY <2>1, <4>1, ShiftIs, <1>1 DEF StaysInv, Coming
      <4> QED BY <3>1, <3>2, <3>3, <4>2
    <3>4. CASE \E i \in DOMAIN inbound : i > 1 /\ About(i, d) /\ inbound[i].stay = lastConn[d].stay
      <4>1. m.stay <= lastConn[d].stay
        BY <2>1, <3>4, ShiftIs, <1>1 DEF StaysInv, Ordered
      <4> QED BY <3>1, <3>2, <4>1
    <3> QED BY <2>7, <3>3, <3>4
  <2>8. LinkFirst(d)'
    <3>1. ASSUME d \in Linked \ passed
          PROVE  /\ connected' /\ running' /\ link'[d] # "none" => Follows(d, stay[d], Len(inbound) + 1)'
                 /\ \A i \in DOMAIN inbound' : inbound'[i].type = "state" /\ inbound'[i].id = d =>
                            Follows(d, inbound[i].stay, i)'
      BY <3>1, <2>1, <2>2, <2>7, <1>1, <1>t, <1>u, ShiftLinkFirst
    <3> QED BY <3>1, <2>2, <1>1, <1>t, <1>u DEF LinkFirst, StaysInv
  <2> QED BY <2>4, <2>6, <2>8 DEF StaysInv
<1> QED BY <1>2, <1>3

\* Values that are heard are of a stay with a link.
LEMMA OnStateSeeds ==
    ASSUME SeedInv, OnState
    PROVE  \A d \in Device : StaysInv(d)'
<1> SUFFICES ASSUME NEW d \in Device PROVE StaysInv(d)'
  OBVIOUS
<1> DEFINE m == Head(inbound)
<1>1. /\ Queues /\ TypeOK /\ Present /\ StaysInv(d) /\ inbound # <<>> /\ inbound' = Tail(inbound)
      /\ inbound[1] = m /\ m.type = "state" /\ m \in StateMsgs
  BY TailIs DEF SeedInv, BasicInv, Queues, OnState, Dispatch, AckMsgs, PageMsgs, LinkMsgs, StateMsgs, Messages
<1>u. UNCHANGED <<stay, stays, link, connected, running, over, passed, lastConn, heard, told, driven>>
  BY DEF OnState, bridge
<1>m. m.id \in Device /\ lastState \in [Device -> SUBSET Nat] /\ lastState' = [lastState EXCEPT ![m.id] = @ \cup {m.stay}]
  BY <1>1 DEF OnState, TypeOK, StateMsgs
<1> HIDE DEF m
<1>d. d \in driven => told[d] = lastConn[d]
  BY <1>1 DEF StaysInv, Latest
<1>2. CASE m.id # d
  <2>1. ~About(1, d)
    BY <1>1, <1>2 DEF About
  <2>2. UNCHANGED lastState[d]
    BY <1>2, <1>m
  <2> QED BY <2>1, <2>2, <1>1, <1>d, <1>u, ShiftKeeps
<1>3. CASE m.id = d
  <2>1. About(1, d) /\ inbound[1].stay = m.stay
    BY <1>1, <1>3 DEF About
  <2>2. lastState'[d] = lastState[d] \cup {m.stay}
    BY <1>3, <1>m
  <2>3. HeardStays(d)' = HeardStays(d) \cup {m.stay}
    BY <2>2, <1>u DEF HeardStays
  <2>4. Past(d)' /\ Coming(d)' /\ Ordered(d)' /\ Ended(d)'
    <3>1. \A s \in HeardStays(d)' : s \in HeardStays(d) \/ s = inbound[1].stay
      BY <2>1, <2>3
    <3> QED BY <3>1, <2>1, <1>1, <1>u, HeardOrder
  <2>5. m.stay \notin over[d]
    BY <2>1, ShiftIs, <1>1 DEF StaysInv, Coming
  <2>6. Latest(d)'
    BY <1>1, <1>u DEF StaysInv, Latest
  <2>7. LinkFirst(d)'
    <3>1. ASSUME d \in Linked \ passed
          PROVE  /\ connected' /\ running' /\ link'[d] # "none" => Follows(d, stay[d], Len(inbound) + 1)'
                 /\ \A i \in DOMAIN inbound' : inbound'[i].type = "state" /\ inbound'[i].id = d =>
                            Follows(d, inbound[i].stay, i)'
      BY <3>1, <1>1, <1>u, ShiftLinkFirst
    <3>2. d \in Linked \ passed => lastConn[d] # NONE
      <4>1. d \in Linked \ passed => Follows(d, m.stay, 1)
        BY <2>1, <1>1, <1>3, ShiftIs DEF StaysInv, LinkFirst
      <4>2. \A i \in DOMAIN inbound : ~(i < 1)
        BY ShiftIs, <1>1
      <4> QED BY <4>1, <4>2 DEF Follows
    <3> QED BY <3>1, <3>2, <2>2, <2>5, <1>1, <1>u DEF LinkFirst, StaysInv
  <2> QED BY <2>4, <2>6, <2>7 DEF StaysInv
<1> QED BY <1>2, <1>3

\* Devices whose stay is over are forgotten, and so are those that a snapshot
\* leaves out though they are there.
LEMMA Forgotten ==
    ASSUME Queues, TypeOK, Present, inbound # <<>>, inbound' = Tail(inbound),
           UNCHANGED <<stay, stays, link, connected, running, heard>>,
           inbound[1].type \notin {"link", "state"},
           NEW now \in SUBSET Device, NEW forgotten \in SUBSET Device, NEW gone \in SUBSET Device,
           Reconcile(now, forgotten), Over(gone), forgotten \cap now = {}, passed \subseteq passed',
           NEW d \in Device, StaysInv(d),
           d \in gone => Ends(1, d) /\ (lastConn[d] # NONE => d \in forgotten),
           d \in forgotten \ gone => d \in passed'
    PROVE  StaysInv(d)'
<1>n. ~About(1, d)
  BY DEF About
<1>1. /\ lastConn'[d] = IF d \in forgotten THEN NONE ELSE lastConn[d]
      /\ lastState'[d] = IF d \in forgotten THEN {} ELSE lastState[d]
      /\ d \in driven' => d \notin forgotten /\ told'[d] = IF d \in driven THEN told[d] ELSE lastConn[d]
  BY DEF Reconcile
<1>2. over'[d] = IF d \in gone THEN over[d] \cup HeardStays(d) ELSE over[d]
  BY DEF Over, HeardStays
<1>s. HeardStays(d)' \subseteq HeardStays(d) /\ (heard[d] # NONE => heard[d].stay \in HeardStays(d))
  BY <1>1 DEF HeardStays
<1>l. lastConn[d] # NONE => lastConn[d] = heard[d] /\ heard[d] # NONE
  BY DEF StaysInv, Latest
<1>3. CASE d \notin gone
  <2>1. over'[d] = over[d]
    BY <1>2, <1>3
  <2>4. Past(d)' /\ Coming(d)' /\ Ordered(d)' /\ Ended(d)'
    BY <2>1, <1>s, HeardOrder
  <2>5. Latest(d)'
    BY <2>1, <1>1, <1>3, CommandAssumption DEF StaysInv, Latest
  <2>6. LinkFirst(d)'
    <3>1. ASSUME d \in Linked \ passed'
          PROVE  d \notin forgotten /\ d \in Linked \ passed
      BY <3>1, <1>3
    <3>2. ASSUME d \in Linked \ passed'
          PROVE  /\ connected' /\ running' /\ link'[d] # "none" => Follows(d, stay[d], Len(inbound) + 1)'
                 /\ \A i \in DOMAIN inbound' : inbound'[i].type = "state" /\ inbound'[i].id = d =>
                            Follows(d, inbound[i].stay, i)'
      BY <3>1, <3>2, <1>1, ShiftLinkFirst
    <3> QED BY <3>1, <3>2, <2>1, <1>1 DEF StaysInv, LinkFirst
  <2> QED BY <2>4, <2>5, <2>6 DEF StaysInv
<1>4. CASE d \in gone
  <2>1. /\ stay[d] \notin HeardStays(d)
        /\ \A i \in DOMAIN inbound : 1 < i /\ About(i, d) => inbound[i].stay \notin HeardStays(d)
    BY <1>4, ShiftIs DEF StaysInv, Ended
  <2>2. over'[d] = over[d] \cup HeardStays(d)
    BY <1>2, <1>4
  <2>4. Past(d)' /\ Coming(d)' /\ Ordered(d)' /\ Ended(d)'
    <3>1. Ordered(d)' /\ Ended(d)'
      BY <1>s, HeardOrder
    <3>2. Past(d)'
      BY <2>1, <2>2, <1>s DEF StaysInv, Past
    <3>3. Coming(d)'
      <4>1. \A i \in DOMAIN inbound' : /\ i + 1 \in DOMAIN inbound /\ inbound'[i] = inbound[i + 1] /\ 1 < i + 1
                                       /\ About(i, d)' <=> About(i + 1, d)
        BY SMTT(30), ShiftIs
      <4> QED BY <4>1, <2>1, <2>2, <1>s DEF StaysInv, Coming
    <3> QED BY <3>1, <3>2, <3>3
  <2>3. lastConn'[d] = NONE
    BY <1>1, <1>4
  <2>5. Latest(d)'
    BY <2>1, <2>3, <1>s, <1>1, <1>4, CommandAssumption DEF StaysInv, Latest
  <2>6. LinkFirst(d)'
    <3>1. ASSUME d \in Linked \ passed
          PROVE  /\ connected' /\ running' /\ link'[d] # "none" => Follows(d, stay[d], Len(inbound) + 1)'
                 /\ \A i \in DOMAIN inbound' : inbound'[i].type = "state" /\ inbound'[i].id = d =>
                            Follows(d, inbound[i].stay, i)'
      BY <3>1, <2>1, <1>l, <1>s, ShiftLinkFirst
    <3>2. d \in Linked \ passed => lastState'[d] = {}
      BY <1>1, <1>4 DEF StaysInv, LinkFirst
    <3> QED BY <3>1, <3>2 DEF LinkFirst
  <2> QED BY <2>4, <2>5, <2>6 DEF StaysInv
<1> QED BY <1>3, <1>4

\* What is not about the news of a device leaves what is known of it.
LEMMA QuietSeeds ==
    ASSUME SeedInv, BasicInv', Present', UNCHANGED <<inbound, heard, view, stay, stays, link>>,
           connected' /\ running' => connected /\ running
    PROVE  \A d \in Device : StaysInv(d)'
<1> SUFFICES ASSUME NEW d \in Device PROVE StaysInv(d)'
  OBVIOUS
<1>1. StaysInv(d)
  BY DEF SeedInv
<1>2. d \in Linked \ passed /\ connected' /\ running' /\ link'[d] # "none" => Follows(d, stay[d], Len(inbound) + 1)'
  BY <1>1 DEF StaysInv, LinkFirst, Follows, view
<1>3. stays <= stays' /\ Len(inbound) <= Len(inbound')
  BY DEF SeedInv, BasicInv, TypeOK, Queues
<1> QED BY <1>1, <1>2, <1>3, GrowKeeps DEF SeedInv, BasicInv

\* A message of the bridge that is news of the present stay of a device, or its
\* end, leaves what is known of the device.
LEMMA HearKeeps ==
    ASSUME BasicInv, BasicInv', Present, Present', NEW d \in Device, StaysInv(d), NEW m \in Messages,
           inbound' = Heard(m), UNCHANGED <<heard, view, connected, running>>, stays <= stays',
           stay'[d] \in {0, stay[d]} \/ stay'[d] > stays,
           m.type \in {"link", "state"} /\ m.id = d => m.stay = stay'[d] /\ stay'[d] > 0,
           m.type = "state" /\ m.id = d /\ d \in Linked => link'[d] # "none",
           m.type = "ack" /\ m.ok /\ m.key = <<"remove", d>> => stay'[d] = 0,
           m.type = "page" /\ d \notin m.held => stay'[d] = 0,
           link'[d] # "none" => \/ m.type = "link" /\ m.id = d /\ m.stay = stay'[d]
                                \/ link[d] # "none" /\ stay'[d] = stay[d]
    PROVE  StaysInv(d)'
<1>1. /\ Len(inbound) \in Nat
      /\ Len(inbound') = IF connected /\ running THEN Len(inbound) + 1 ELSE Len(inbound)
      /\ \A i \in DOMAIN inbound : i \in DOMAIN inbound' /\ inbound'[i] = inbound[i]
      /\ \A i \in DOMAIN inbound' :
           i \in DOMAIN inbound \/ (i = Len(inbound) + 1 /\ inbound'[i] = m /\ connected /\ running)
      /\ connected /\ running => Len(inbound) + 1 \in DOMAIN inbound' /\ inbound'[Len(inbound) + 1] = m
      /\ DOMAIN inbound = 1..Len(inbound)
  BY HeardIs DEF BasicInv, Queues
<1>2. ASSUME d \in Linked \ passed, connected, running, link[d] # "none", NEW n, n = Len(inbound) + 1, stay'[d] = stay[d]
      PROVE  Follows(d, stay[d], n)'
  BY <1>1, <1>2 DEF StaysInv, LinkFirst, Follows, view
<1>3. d \in Linked \ passed /\ connected' /\ running' /\ link'[d] # "none" => Follows(d, stay[d], Len(inbound) + 1)'
  <2> SUFFICES ASSUME d \in Linked \ passed, connected, running, link'[d] # "none"
               PROVE  Follows(d, stay[d], Len(inbound) + 1)'
    OBVIOUS
  <2>1. CASE m.type = "link" /\ m.id = d /\ m.stay = stay'[d]
    BY <2>1, <1>1 DEF Follows
  <2>2. CASE link[d] # "none" /\ stay'[d] = stay[d]
    BY <2>2, <1>1 DEF StaysInv, LinkFirst, Follows, view
  <2> QED BY <2>1, <2>2
<1>4. ASSUME NEW i \in DOMAIN inbound' \ DOMAIN inbound
      PROVE  /\ About(i, d)' => inbound'[i].stay = stay'[d] /\ stay'[d] > 0
             /\ Ends(i, d)' => stay'[d] = 0
             /\ (d \in Linked \ passed /\ inbound'[i].type = "state" /\ inbound'[i].id = d) => Follows(d, stay[d], i)'
  <2>1. i = Len(inbound) + 1 /\ inbound'[i] = m /\ connected /\ running
    BY <1>1
  <2>2. (About(i, d)' => inbound'[i].stay = stay'[d] /\ stay'[d] > 0) /\ (Ends(i, d)' => stay'[d] = 0)
    BY <2>1 DEF About, Ends
  <2>3. (d \in Linked \ passed /\ m.type = "state" /\ m.id = d) => Follows(d, stay[d], i)'
    BY <2>1, <1>2
  <2> QED BY <2>1, <2>2, <2>3
<1>5. Len(inbound) <= Len(inbound')
  BY <1>1
<1> QED BY <1>1, <1>3, <1>4, <1>5, GrowKeeps DEF BasicInv

\* A command that is taken or refused says what becomes of its device.
LEMMA TakeSeeds ==
    ASSUME SeedInv, BasicInv', Present', NEW k \in Key, NEW n \in Nat, Take(k, n) \/ Refuse(k, n),
           inbound' = Heard(kept'), UNCHANGED <<heard, view, connected, running>>
    PROVE  \A d \in Device : StaysInv(d)'
<1> SUFFICES ASSUME NEW d \in Device PROVE StaysInv(d)'
  OBVIOUS
<1>1. kept' \in Messages /\ kept'.type = "ack" /\ kept'.key = k
  BY TakeBridge DEF SeedInv, BasicInv, Take, Refuse, Ack
<1>t. /\ stay \in [Device -> Nat] /\ stays \in Nat /\ link \in [Device -> {"none", "up", "down"}] /\ k[2] \in Device
      /\ stay[d] = 0 => link[d] = "none"
  BY DEF SeedInv, BasicInv, TypeOK, Present, Key
<1>2. stays <= stays' /\ (stay'[d] \in {0, stay[d]} \/ stay'[d] > stays)
  <2>1. CASE Refuse(k, n)
    BY <2>1, <1>t DEF Refuse
  <2>2. CASE Take(k, n)
    <3>1. stays' = stays \/ (stays' = stays + 1 /\ stay[k[2]] = 0 /\ stay'[k[2]] = stays + 1)
      BY <2>2, <1>t DEF Take
    <3>2. stay'[d] \in {0, stay[d]} \/ (d = k[2] /\ stay'[d] = stays + 1)
      BY <2>2, <1>t DEF Take
    <3> QED BY <3>1, <3>2, <1>t
  <2> QED BY <2>1, <2>2
<1>3. kept'.ok /\ kept'.key = <<"remove", d>> => stay'[d] = 0
  BY <1>t, <1>1 DEF Take, Refuse, Ack
<1>4. link'[d] # "none" => link[d] # "none" /\ stay'[d] = stay[d]
  BY <1>t DEF Take, Refuse
<1> QED BY <1>1, <1>2, <1>3, <1>4, HearKeeps DEF SeedInv

\* A page says which devices were there.
LEMMA TakeStatusSeeds ==
    ASSUME SeedInv, BasicInv', Present', TakeStatus
    PROVE  \A d \in Device : StaysInv(d)'
<1> SUFFICES ASSUME NEW d \in Device PROVE StaysInv(d)'
  OBVIOUS
<1>1. PICK ids \in SUBSET Device, part \in SUBSET Device, more \in BOOLEAN :
        inbound' = Heard(Page(ids, more, part)) /\ Page(ids, more, part) \in PageMsgs
  BY StatusPage DEF SeedInv, BasicInv
<1>2. PICK m \in PageMsgs : inbound' = Heard(m) /\ m.held = Held /\ m.type = "page"
  <2>1. Page(ids, more, part).held = Held /\ Page(ids, more, part).type = "page"
    BY DEF Page
  <2> QED BY <1>1, <2>1
<1>3. UNCHANGED <<heard, view, connected, running, stay, stays, link>>
  BY DEF TakeStatus, bridge
<1>4. m \in Messages
  BY <1>2 DEF Messages
<1>5. d \notin m.held => stay[d] = 0
  BY <1>2 DEF Held, SeedInv, BasicInv, TypeOK
<1>6. StaysInv(d) /\ stay[d] \in Nat /\ stays \in Nat
  BY DEF SeedInv, BasicInv, TypeOK
<1> QED BY <1>2, <1>3, <1>4, <1>5, <1>6, HearKeeps DEF SeedInv

\* A link that changes is news of the present stay.
LEMMA LinkChangesSeeds ==
    ASSUME SeedInv, BasicInv', Present', NEW e \in Device, LinkChanges(e)
    PROVE  \A d \in Device : StaysInv(d)'
<1> SUFFICES ASSUME NEW d \in Device PROVE StaysInv(d)'
  OBVIOUS
<1>1. PICK up \in BOOLEAN : /\ link' = [link EXCEPT ![e] = IF up THEN "up" ELSE "down"]
                            /\ inbound' = Heard(LinkMsg(e, up, FALSE))
  BY DEF LinkChanges
<1>2. UNCHANGED <<heard, view, connected, running, stay, stays>> /\ stay[e] > 0
  BY DEF LinkChanges, Held
<1>3. PICK m \in Messages : inbound' = Heard(m) /\ m.type = "link" /\ m.id = e /\ m.stay = stay[e]
  <2>1. LinkMsg(e, up, FALSE) \in Messages
    BY MessageTypes DEF SeedInv, BasicInv, Messages
  <2> QED BY <1>1, <2>1 DEF LinkMsg
<1>4. StaysInv(d) /\ stay[d] \in Nat /\ stays \in Nat /\ link \in [Device -> {"none", "up", "down"}]
  BY DEF SeedInv, BasicInv, TypeOK
<1>5. link'[d] # "none" => d = e \/ link[d] # "none"
  BY <1>1, <1>4
<1> QED BY <1>2, <1>3, <1>4, <1>5, HearKeeps DEF SeedInv

\* Values that change are news of the present stay, of a device whose link was told.
LEMMA StateChangesSeeds ==
    ASSUME SeedInv, BasicInv', Present', NEW e \in Device, StateChanges(e)
    PROVE  \A d \in Device : StaysInv(d)'
<1> SUFFICES ASSUME NEW d \in Device PROVE StaysInv(d)'
  OBVIOUS
<1>2. /\ UNCHANGED <<heard, view, connected, running, stay, stays, link>> /\ stay[e] > 0
      /\ e \in Linked => link[e] # "none"
  BY DEF StateChanges, Held
<1>3. PICK m \in Messages : inbound' = Heard(m) /\ m.type = "state" /\ m.id = e /\ m.stay = stay[e]
  <2>1. StateMsg(e, FALSE) \in Messages /\ inbound' = Heard(StateMsg(e, FALSE))
    BY MessageTypes DEF SeedInv, BasicInv, Messages, StateChanges
  <2> QED BY <2>1 DEF StateMsg
<1>4. StaysInv(d) /\ stay[d] \in Nat /\ stays \in Nat
  BY DEF SeedInv, BasicInv, TypeOK
<1> QED BY <1>2, <1>3, <1>4, HearKeeps DEF SeedInv

\* The config is about no device.
LEMMA ConfigChangesSeeds ==
    ASSUME SeedInv, BasicInv', Present', ConfigChanges
    PROVE  \A d \in Device : StaysInv(d)'
<1> SUFFICES ASSUME NEW d \in Device PROVE StaysInv(d)'
  OBVIOUS
<1>2. UNCHANGED <<heard, view, connected, running, stay, stays, link>>
  BY DEF ConfigChanges, bridge
<1>3. PICK m \in Messages : inbound' = Heard(m) /\ m.type = "config"
  BY DEF ConfigChanges, Config, Messages
<1>4. StaysInv(d) /\ stay[d] \in Nat /\ stays \in Nat
  BY DEF SeedInv, BasicInv, TypeOK
<1> QED BY <1>2, <1>3, <1>4, HearKeeps DEF SeedInv

\* What comes again after a lost connection is of the present stays, links first.
LEMMA ReconnectSeeds ==
    ASSUME SeedInv, BasicInv', Present', Reconnect
    PROVE  \A d \in Device : StaysInv(d)'
<1>u. UNCHANGED <<heard, view, running, stay, stays, link>>
  BY DEF Reconnect, bridge
<1>1. CASE ~running
  <2>1. UNCHANGED inbound
    BY <1>1 DEF Reconnect
  <2> QED BY <2>1, <1>1, <1>u, QuietSeeds
<1>2. CASE running
  <2> SUFFICES ASSUME NEW d \in Device PROVE StaysInv(d)'
    OBVIOUS
  <2>i. Queues /\ TypeOK /\ Present /\ StaysInv(d) /\ Queues' /\ TypeOK' /\ stay[d] \in Nat /\ stays \in Nat
    BY DEF SeedInv, BasicInv, TypeOK
  <2> DEFINE R == Retained
             n == Len(inbound)
  <2>1. /\ R \in Seq(Messages)
        /\ \A i \in DOMAIN R :
             /\ R[i].type \in {"link", "state"} => R[i].stay = stay[R[i].id] /\ stay[R[i].id] > 0
             /\ R[i].type = "ack" => R[i].retained
             /\ R[i].type # "page"
             /\ R[i].type = "state" /\ R[i].id \in Linked => \E j \in DOMAIN R :
                  j < i /\ R[j].type = "link" /\ R[j].id = R[i].id /\ R[j].stay = R[i].stay
        /\ link[d] # "none" => \E j \in DOMAIN R : R[j].type = "link" /\ R[j].id = d /\ R[j].stay = stay[d]
    BY <2>i, RetainedIs
  <2>2. inbound' = inbound \o R
    BY <1>2 DEF Reconnect
  <2> HIDE DEF R
  <2>3. /\ Len(inbound') = n + Len(R) /\ n \in Nat /\ Len(R) \in Nat /\ DOMAIN R = 1..Len(R)
        /\ \A i \in DOMAIN inbound : i \in DOMAIN inbound' /\ inbound'[i] = inbound[i]
        /\ \A i \in DOMAIN R : n + i \in DOMAIN inbound' /\ inbound'[n + i] = R[i]
        /\ \A i \in DOMAIN inbound' \ DOMAIN inbound : i - n \in DOMAIN R /\ inbound'[i] = R[i - n] /\ i \in Int
    BY <2>1, <2>2, <2>i, ConcatIs DEF Queues
  <2>4. ASSUME NEW j \in DOMAIN R, R[j].type = "link", R[j].id = d, R[j].stay = stay[d], NEW k \in Int, n + j < k
        PROVE  Follows(d, stay[d], k)'
    BY <2>3, <2>4, <1>u DEF Follows
  <2>5. d \in Linked \ passed /\ connected' /\ running' /\ link'[d] # "none" => Follows(d, stay[d], Len(inbound) + 1)'
    <3> SUFFICES ASSUME link[d] # "none" PROVE Follows(d, stay[d], Len(inbound) + 1)'
      BY <1>u
    <3>1. PICK j \in DOMAIN R : R[j].type = "link" /\ R[j].id = d /\ R[j].stay = stay[d]
      BY <2>1
    <3>2. n + j < Len(inbound') + 1 /\ n + j \in DOMAIN inbound' /\ inbound'[n + j] = R[j]
      BY <2>3
    <3> QED BY <3>1, <3>2, <1>u DEF Follows
  <2>6. ASSUME NEW i \in DOMAIN inbound' \ DOMAIN inbound
        PROVE  /\ About(i, d)' => inbound'[i].stay = stay'[d] /\ stay'[d] > 0
               /\ Ends(i, d)' => stay'[d] = 0
               /\ (d \in Linked \ passed /\ inbound'[i].type = "state" /\ inbound'[i].id = d) => Follows(d, stay[d], i)'
    <3>1. i - n \in DOMAIN R /\ inbound'[i] = R[i - n] /\ i \in Int
      BY <2>3
    <3>2. About(i, d)' => inbound'[i].stay = stay'[d] /\ stay'[d] > 0
      BY <3>1, <2>1, <1>u DEF About
    <3>3. ~Ends(i, d)'
      BY <3>1, <2>1 DEF Ends
    <3>4. ASSUME d \in Linked, inbound'[i].type = "state", inbound'[i].id = d
          PROVE  Follows(d, stay[d], i)'
      <4>1. PICK j \in DOMAIN R : j < i - n /\ R[j].type = "link" /\ R[j].id = d /\ R[j].stay = stay[d]
        BY <3>1, <3>4, <2>1
      <4>2. n + j < i
        BY <3>1, <4>1, <2>3
      <4> QED BY <3>1, <4>1, <4>2, <2>4
    <3> QED BY <3>2, <3>3, <3>4
  <2>7. n <= Len(inbound')
    BY <2>3
  <2> QED BY <2>i, <2>3, <2>5, <2>6, <2>7, <1>u, GrowKeeps
<1> QED BY <1>1, <1>2

\* A client that stopped hears no more.
LEMMA StopSeeds ==
    ASSUME SeedInv, BasicInv', Present', Stop
    PROVE  \A d \in Device : StaysInv(d)'
<1> SUFFICES ASSUME NEW d \in Device PROVE StaysInv(d)'
  OBVIOUS
<1>1. StaysInv(d) /\ DOMAIN inbound' = {} /\ ~running' /\ UNCHANGED <<heard, view, stay, stays>>
  BY DEF SeedInv, Stop, bridge
<1>2. HeardStays(d)' = HeardStays(d)
  BY <1>1 DEF HeardStays, view
<1>3. Past(d)' /\ Latest(d)'
  BY <1>1, <1>2 DEF StaysInv, Past, Latest, view
<1>4. Coming(d)' /\ Ordered(d)' /\ Ended(d)'
  BY <1>1 DEF Coming, Ordered, Ended
<1>5. LinkFirst(d)'
  BY <1>1 DEF StaysInv, LinkFirst, view
<1> QED BY <1>3, <1>4, <1>5 DEF StaysInv

\* The client's view stays as it is when a message that is no news makes nothing of it.
LEMMA IgnoredSeeds ==
    ASSUME SeedInv, inbound # <<>>, inbound' = Tail(inbound), Head(inbound).type \notin {"link", "state"},
           UNCHANGED <<stay, stays, link, connected, running, heard, view>>
    PROVE  \A d \in Device : StaysInv(d)'
<1> SUFFICES ASSUME NEW d \in Device PROVE StaysInv(d)'
  OBVIOUS
<1>1. Queues /\ TypeOK /\ StaysInv(d) /\ inbound[1] = Head(inbound)
  BY TailIs DEF SeedInv, BasicInv, Queues
<1>2. ~About(1, d)
  BY <1>1 DEF About
<1>3. d \in driven' => told'[d] = lastConn[d]
  BY <1>1 DEF StaysInv, Latest, view
<1> QED BY <1>1, <1>2, <1>3, ShiftKeeps DEF view

\* An acknowledged removal ends the stay of its device, for the client as well.
LEMMA OnAckSeeds ==
    ASSUME SeedInv, OnAck
    PROVE  \A d \in Device : StaysInv(d)'
<1> DEFINE m == Head(inbound)
<1>1. /\ Queues /\ TypeOK /\ Present /\ inbound # <<>> /\ inbound' = Tail(inbound)
      /\ inbound[1] = m /\ m.type = "ack" /\ m \in AckMsgs
  BY TailIs DEF SeedInv, BasicInv, Queues, OnAck, Dispatch, AckMsgs, PageMsgs, LinkMsgs, StateMsgs, Messages
<1>u. UNCHANGED <<stay, stays, link, connected, running, heard>>
  BY <1>1 DEF OnAck, Dispatch, bridge
<1>2. CASE m.retained \/ ~m.ok \/ registered = NONE
  <2>1. UNCHANGED view
    BY <1>2 DEF OnAck
  <2> QED BY <2>1, <1>1, <1>u, IgnoredSeeds
<1>3. CASE ~(m.retained \/ ~m.ok \/ registered = NONE)
  <2> DEFINE d == m.key[2]
  <2>1. /\ UNCHANGED passed
        /\ IF m.key[1] = "add" THEN Reconcile(registered \cup {d}, {}) /\ Over({})
                               ELSE Reconcile(registered \ {d}, {d}) /\ Over({d})
    BY <1>3 DEF OnAck
  <2>2. d \in Device /\ m.key \in Key /\ registered \subseteq Device
    BY <1>1, <1>3 DEF AckMsgs, Key, TypeOK
  <2>3. m.key = <<m.key[1], d>> /\ m.key[1] \in {"add", "remove"}
    BY <2>2 DEF Key, Action
  <2> HIDE DEF m, d
  <2>4. CASE m.key[1] = "add"
    <3> DEFINE now == registered \cup {d}
               gone == {}
    <3>1. now \in SUBSET Device /\ gone \in SUBSET Device /\ gone \cap now = {} /\ \A e : e \notin gone
      BY <2>2
    <3>2. Reconcile(now, gone) /\ Over(gone) /\ UNCHANGED passed
      BY <2>1, <2>4
    <3> SUFFICES ASSUME NEW e \in Device PROVE StaysInv(e)'
      OBVIOUS
    <3>3. StaysInv(e)
      BY DEF SeedInv
    <3> HIDE DEF now, gone
    <3> QED BY <3>1, <3>2, <3>3, <1>1, <1>u, Forgotten
  <2>5. CASE m.key[1] # "add"
    <3> DEFINE now == registered \ {d}
               gone == {d}
    <3>1. now \in SUBSET Device /\ gone \in SUBSET Device /\ gone \cap now = {} /\ gone \ gone = {}
      BY <2>2
    <3>2. Reconcile(now, gone) /\ Over(gone) /\ UNCHANGED passed
      BY <2>1, <2>5
    <3> SUFFICES ASSUME NEW e \in Device PROVE StaysInv(e)'
      OBVIOUS
    <3>3. StaysInv(e)
      BY DEF SeedInv
    <3>4. e \in gone => Ends(1, e)
      BY <1>1, <1>3, <2>3, <2>5 DEF Ends
    <3> HIDE DEF now, gone
    <3> QED BY <3>1, <3>2, <3>3, <3>4, <1>1, <1>u, Forgotten
  <2> QED BY <2>4, <2>5
<1> QED BY <1>2, <1>3

\* A config asks for the list again, or marks the open request.
LEMMA OnConfigSeeds ==
    ASSUME SeedInv, OnConfig
    PROVE  \A d \in Device : StaysInv(d)'
BY IgnoredSeeds DEF OnConfig, Dispatch, bridge

\* A snapshot ends the stays of the devices that it is without and that were gone.
LEMMA OnPageSeeds ==
    ASSUME SeedInv, OnPage
    PROVE  \A d \in Device : StaysInv(d)'
<1> DEFINE m == Head(inbound)
           all == cycle.listed \cup m.ids
           forgotten == {d \in Device \ all : lastConn[d] # NONE}
           gone == Device \ (all \cup m.held)
<1>1. /\ Queues /\ TypeOK /\ Present /\ inbound # <<>> /\ inbound' = Tail(inbound)
      /\ inbound[1] = m /\ m.type = "page" /\ m \in PageMsgs
  BY TailIs DEF SeedInv, BasicInv, Queues, OnPage, Dispatch, AckMsgs, PageMsgs, LinkMsgs, StateMsgs, Messages
<1>u. UNCHANGED <<stay, stays, link, connected, running, heard>>
  BY <1>1 DEF OnPage, Dispatch, bridge, callers
<1>2. \/ UNCHANGED view
      \/ Reconcile(all, forgotten) /\ Over(gone) /\ passed' = passed \cup (m.held \ all)
  BY DEF OnPage
<1>3. CASE UNCHANGED view
  BY <1>1, <1>u, <1>3, IgnoredSeeds
<1>4. CASE Reconcile(all, forgotten) /\ Over(gone) /\ passed' = passed \cup (m.held \ all)
  <2>1. all \in SUBSET Device /\ forgotten \in SUBSET Device /\ gone \in SUBSET Device /\ forgotten \cap all = {}
    BY <1>1 DEF PageMsgs, TypeOK
  <2> SUFFICES ASSUME NEW e \in Device PROVE StaysInv(e)'
    OBVIOUS
  <2>2. StaysInv(e) /\ passed \subseteq passed'
    BY <1>4 DEF SeedInv
  <2>3. e \in gone => Ends(1, e) /\ (lastConn[e] # NONE => e \in forgotten)
    BY <1>1 DEF Ends
  <2>4. e \in forgotten \ gone => e \in passed'
    BY <1>4
  <2> HIDE DEF m, all, forgotten, gone
  <2> QED BY <2>1, <2>2, <2>3, <2>4, <1>1, <1>4, <1>u, Forgotten
<1> QED BY <1>2, <1>3, <1>4

\* Every step keeps the news of each device in order.
LEMMA SeedsNext ==
    ASSUME SeedInv, [Next]_vars
    PROVE  SeedInv'
<1>b. BasicInv' /\ Present'
  BY BasicNext, PresentNext DEF SeedInv
<1>1. CASE UNCHANGED vars
  BY <1>b, <1>1, QuietSeeds DEF SeedInv, vars, bridge
<1>2. CASE Client
  <2>1. CASE Retry
    BY <1>b, <2>1, QuietSeeds DEF SeedInv, Retry, bridge
  <2>2. CASE Stop
    BY <1>b, <2>2, StopSeeds DEF SeedInv
  <2> QED BY <1>b, <1>2, <2>1, <2>2, OnLinkSeeds, OnStateSeeds, OnAckSeeds, OnConfigSeeds, OnPageSeeds DEF Client, SeedInv
<1>3. CASE Bridge
  <2>1. CASE TakeCommand
    <3>1. Head(requests) \in CommandRequests
      BY <2>1, TailIs DEF SeedInv, BasicInv, Queues, TakeCommand, StatusRequests, CommandRequests
    <3>2. PICK k \in Key, n \in Nat : Take(k, n) \/ Refuse(k, n)
      BY <2>1, <3>1 DEF TakeCommand, CommandRequests
    <3>3. inbound' = Heard(kept') /\ UNCHANGED <<heard, view, connected, running>>
      BY <2>1 DEF TakeCommand
    <3> QED BY <1>b, <3>2, <3>3, TakeSeeds DEF SeedInv
  <2>2. CASE Foreign
    <3>1. PICK k \in Key : Take(k, 0) /\ inbound' = Heard(kept')
      BY <2>2 DEF Foreign
    <3>2. UNCHANGED <<heard, view, connected, running>>
      BY <2>2 DEF Foreign
    <3> QED BY <1>b, <3>1, <3>2, TakeSeeds DEF SeedInv
  <2>3. CASE TakeTwice \/ Lose
    BY <1>b, <2>3, QuietSeeds DEF SeedInv, TakeTwice, Lose, bridge
  <2> QED BY <1>b, <1>3, <2>1, <2>2, <2>3, TakeStatusSeeds, ConfigChangesSeeds, ReconnectSeeds, LinkChangesSeeds,
             StateChangesSeeds DEF Bridge, SeedInv
<1>4. CASE \E c \in Caller : Command(c) \/ Publish(c) \/ Answered(c) \/ Expire(c)
  <2>1. UNCHANGED <<inbound, heard, view, stay, stays, link, connected, running>>
    BY <1>4 DEF Command, Publish, Answered, Expire, bridge
  <2> QED BY <1>b, <2>1, QuietSeeds DEF SeedInv
<1> QED BY <1>1, <1>2, <1>3, <1>4 DEF Next

\* Nothing was heard of any device.
LEMMA SeedsInit == Init => SeedInv
<1> SUFFICES ASSUME Init PROVE SeedInv
  OBVIOUS
<1>1. BasicInv /\ Present
  BY AnswersInit DEF AnswerInv
<1> SUFFICES ASSUME NEW d \in Device PROVE StaysInv(d)
  BY <1>1 DEF SeedInv
<1>2. /\ stay[d] \in {0, 1} /\ stays = 1 /\ link[d] = "none" /\ DOMAIN inbound = {} /\ lastConn[d] = NONE
      /\ lastState[d] = {} /\ over[d] = {} /\ heard[d] = NONE /\ driven = {} /\ passed = {}
  BY DEF Init
<1>3. HeardStays(d) = {}
  BY <1>2 DEF HeardStays
<1> QED BY <1>2, <1>3 DEF StaysInv, Past, Coming, Ordered, Ended, Latest, LinkFirst

\* The inductive invariant of the stays.
THEOREM SeedInvariant == Spec => []SeedInv
<1>1. Init => SeedInv
  BY SeedsInit
<1>2. SeedInv /\ [Next]_vars => SeedInv'
  BY SeedsNext
<1> QED BY <1>1, <1>2, PTL DEF Spec

\* However snapshots, removals and lost connections interleave with the news of
\* a device, its driver has the link heard last in its present stay, and nothing
\* of a stay that the client learnt is over.
THEOREM SeedsOfStay == Spec => []Seeds
<1>1. ASSUME SeedInv PROVE Seeds
  <2>1. ASSUME NEW d \in driven \ passed, heard[d] # NONE, heard[d].stay = stay[d]
        PROVE  told[d] = heard[d]
    BY <1>1, <2>1 DEF SeedInv, BasicInv, TypeOK, StaysInv, Latest
  <2>2. ASSUME NEW d \in (driven \cap Linked) \ passed
        PROVE  (told[d] = NONE \/ told[d].stay \notin over[d]) /\ lastState[d] \cap over[d] = {}
    BY <1>1, <2>2 DEF SeedInv, BasicInv, TypeOK, StaysInv, Latest, LinkFirst
  <2> QED BY <2>1, <2>2 DEF Seeds, Replayed, SeedsFresh
<1> QED BY <1>1, SeedInvariant, PTL
=============================================================================
