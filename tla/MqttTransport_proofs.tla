------------------------ MODULE MqttTransport_proofs ------------------------
(***************************************************************************)
(* Proofs about MqttTransport, for any topics, tasks and bounds.           *)
(***************************************************************************)
EXTENDS MqttTransport, SequenceTheorems, TLAPS

(***************************************************************************)
(* The invariant                                                           *)
(***************************************************************************)
\* What the loop will take the connection to be once it has heard all that is
\* scheduled.
WillBe(c, q) ==
    \/ c /\ \A i \in 1..Len(q) : q[i] # "disconnected"
    \/ \E i \in 1..Len(q) : q[i] = "connected" /\ \A j \in (i + 1)..Len(q) : q[j] # "disconnected"

\* The thread connects within a session only.
InSession == index >= 1 /\ (paho = "connect" => up)

\* What is scheduled tells of the session that is.
Telling ==
    /\ closeAt # "open" => ~connected
    /\ closeAt = "open" /\ paho = "idle" => (WillBe(connected, queue) <=> up)

\* What is remembered is subscribed, or the thread found it, or comes to it.
Subscribed ==
    up /\ closeAt = "open" =>
        \A i \in 1..Len(subs) :
            /\ paho = "idle" => subs[i] \in wire \cup gap
            /\ paho = "connect" /\ i < index => subs[i] \in wire \cup gap \cup found

\* The steps of close leave nothing behind.
Ending ==
    /\ closeAt \in {"cancel", "wait", "done"} => ~up
    /\ closeAt = "wait" => \A h \in Handler \ {closer} : handler[h] = "idle" \/ h \in doomed
    /\ closeAt = "done" => subs = <<>> /\ \A h \in Handler \ {closer} : handler[h] = "idle"
    /\ \A c \in Caller : pc[c] = "returned" => closeAt = "done"

TransportInv == TypeOK /\ InSession /\ Telling /\ Subscribed /\ Ending

(***************************************************************************)
(* Sequences                                                               *)
(***************************************************************************)
\* A queue with one more to hear.
LEMMA Scheduling ==
    ASSUME NEW S, NEW q \in Seq(S), NEW m \in S, NEW c
    PROVE  /\ Append(q, m) \in Seq(S)
           /\ m = "connected" => WillBe(c, Append(q, m))
           /\ m = "disconnected" => ~WillBe(c, Append(q, m))
           /\ m \notin {"connected", "disconnected"} => (WillBe(c, Append(q, m)) <=> WillBe(c, q))
<1> DEFINE r == Append(q, m)
           n == Len(q) + 1
<1>1. /\ r \in Seq(S) /\ Len(r) = n /\ Len(q) \in Nat /\ r[n] = m
      /\ \A i \in 1..Len(q) : r[i] = q[i]
  OBVIOUS
<1>2. /\ \A i \in 1..n : i \in 1..Len(q) \/ i = n
      /\ \A i \in 1..Len(q) : i \in 1..n /\ n \in (i + 1)..n /\ \A j \in (i + 1)..n : j \in (i + 1)..Len(q) \/ j = n
      /\ \A i \in 1..Len(q) : \A j \in (i + 1)..Len(q) : j \in (i + 1)..n /\ j \in 1..Len(q)
      /\ n \in 1..n /\ (n + 1)..n = {}
  BY <1>1
<1> HIDE DEF r, n
<1>3. m = "connected" => WillBe(c, r)
  BY <1>1, <1>2 DEF WillBe
<1>4. m = "disconnected" => ~WillBe(c, r)
  BY <1>1, <1>2 DEF WillBe
<1>5. m \notin {"connected", "disconnected"} => (WillBe(c, r) <=> WillBe(c, q))
  <2> SUFFICES ASSUME m \notin {"connected", "disconnected"} PROVE WillBe(c, r) <=> WillBe(c, q)
    OBVIOUS
  <2>1. (\A i \in 1..n : r[i] # "disconnected") <=> (\A i \in 1..Len(q) : q[i] # "disconnected")
    BY <1>1, <1>2
  <2>2. ASSUME NEW i \in 1..Len(q)
        PROVE  (\A j \in (i + 1)..n : r[j] # "disconnected") <=> (\A j \in (i + 1)..Len(q) : q[j] # "disconnected")
    BY <1>1, <1>2, <2>2
  <2>3. (\E i \in 1..n : r[i] = "connected" /\ \A j \in (i + 1)..n : r[j] # "disconnected")
        <=> (\E i \in 1..Len(q) : q[i] = "connected" /\ \A j \in (i + 1)..Len(q) : q[j] # "disconnected")
    BY <1>1, <1>2, <2>2
  <2> QED BY <1>1, <2>1, <2>3 DEF WillBe
<1> QED BY <1>1, <1>3, <1>4, <1>5 DEF r

\* A queue without what was heard.
LEMMA Hearing ==
    ASSUME NEW S, NEW q \in Seq(S), q # <<>>, NEW c
    PROVE  /\ Tail(q) \in Seq(S) /\ Head(q) \in S
           /\ Head(q) = "connected" => (WillBe(TRUE, Tail(q)) <=> WillBe(c, q))
           /\ Head(q) = "disconnected" => (WillBe(FALSE, Tail(q)) <=> WillBe(c, q))
           /\ Head(q) \notin {"connected", "disconnected"} => (WillBe(c, Tail(q)) <=> WillBe(c, q))
<1> DEFINE r == Tail(q)
           n == Len(r)
           m == Head(q)
<1>1. /\ r \in Seq(S) /\ Len(q) = n + 1 /\ n \in Nat /\ q[1] = m /\ m \in S
      /\ \A i \in 1..n : r[i] = q[i + 1]
  OBVIOUS
<1>2. /\ \A i \in 1..(n + 1) : i = 1 \/ (i - 1 \in 1..n /\ (i - 1) + 1 = i)
      /\ \A i \in 1..n : i + 1 \in 1..(n + 1)
      /\ 1 \in 1..(n + 1)
      /\ \A i \in 1..n : \A j \in (i + 1 + 1)..(n + 1) : j - 1 \in (i + 1)..n /\ j - 1 \in 1..n /\ (j - 1) + 1 = j
      /\ \A i \in 1..n : \A j \in (i + 1)..n : j + 1 \in (i + 1 + 1)..(n + 1) /\ j \in 1..n
      /\ \A j \in (1 + 1)..(n + 1) : j - 1 \in 1..n /\ (j - 1) + 1 = j
      /\ \A j \in 1..n : j + 1 \in (1 + 1)..(n + 1)
  BY <1>1
<1> DEFINE Quiet(i) == \A j \in (i + 1)..(n + 1) : q[j] # "disconnected"
<1> HIDE DEF r, n, m
<1>3. ASSUME NEW i \in 1..n PROVE (\A j \in (i + 1)..n : r[j] # "disconnected") <=> Quiet(i + 1)
  <2>1. ASSUME \A j \in (i + 1)..n : r[j] # "disconnected", NEW j \in (i + 1 + 1)..(n + 1)
        PROVE  q[j] # "disconnected"
    <3>1. j - 1 \in (i + 1)..n /\ j - 1 \in 1..n /\ (j - 1) + 1 = j
      BY <1>2
    <3> QED BY <1>1, <2>1, <3>1
  <2>2. ASSUME Quiet(i + 1), NEW j \in (i + 1)..n PROVE r[j] # "disconnected"
    BY <1>1, <1>2, <2>2
  <2> QED BY <2>1, <2>2
<1>4. (\A i \in 1..n : r[i] # "disconnected") <=> Quiet(1)
  <2>1. ASSUME \A j \in 1..n : r[j] # "disconnected", NEW j \in (1 + 1)..(n + 1)
        PROVE  q[j] # "disconnected"
    <3>1. j - 1 \in 1..n /\ (j - 1) + 1 = j
      BY <1>2
    <3> QED BY <1>1, <2>1, <3>1
  <2>2. ASSUME Quiet(1), NEW j \in 1..n PROVE r[j] # "disconnected"
    BY <1>1, <1>2, <2>2
  <2> QED BY <2>1, <2>2
<1> DEFINE Some == \E i \in 1..n : q[i + 1] = "connected" /\ Quiet(i + 1)
<1>5. \A e : WillBe(e, r) <=> (e /\ Quiet(1)) \/ Some
  BY <1>1, <1>3, <1>4 DEF WillBe, n
<1>6. WillBe(c, q) <=> \/ c /\ m # "disconnected" /\ Quiet(1)
                       \/ m = "connected" /\ Quiet(1)
                       \/ Some
  <2>1. (\A i \in 1..(n + 1) : q[i] # "disconnected") <=> m # "disconnected" /\ Quiet(1)
    <3>1. \A i \in 1..(n + 1) : i = 1 \/ i \in (1 + 1)..(n + 1)
      BY <1>1
    <3>2. (1 + 1)..(n + 1) \subseteq 1..(n + 1)
      BY <1>1
    <3> QED BY <1>1, <1>2, <3>1, <3>2
  <2>2. (\E i \in 1..(n + 1) : q[i] = "connected" /\ Quiet(i)) <=> (m = "connected" /\ Quiet(1)) \/ Some
    <3>1. ASSUME NEW i \in 1..(n + 1), q[i] = "connected", Quiet(i) PROVE (m = "connected" /\ Quiet(1)) \/ Some
      <4>1. CASE i = 1
        BY <1>1, <3>1, <4>1
      <4>2. CASE i # 1
        <5> DEFINE k == i - 1
        <5>1. k \in 1..n /\ k + 1 = i
          BY <1>2, <4>2
        <5> HIDE DEF k
        <5> QED BY <3>1, <5>1
      <4> QED BY <4>1, <4>2
    <3>2. ASSUME (m = "connected" /\ Quiet(1)) \/ Some PROVE \E i \in 1..(n + 1) : q[i] = "connected" /\ Quiet(i)
      BY <1>1, <1>2, <3>2
    <3> QED BY <3>1, <3>2
  <2> QED BY <1>1, <2>1, <2>2 DEF WillBe
<1> HIDE DEF Quiet, Some
<1>7. ASSUME m = "connected" PROVE WillBe(TRUE, r) <=> WillBe(c, q)
  <2>1. WillBe(TRUE, r) <=> Quiet(1) \/ Some
    BY <1>5, Zenon
  <2>2. WillBe(c, q) <=> Quiet(1) \/ Some
    BY <1>6, <1>7, Zenon
  <2> QED BY <2>1, <2>2, Zenon
<1>8. ASSUME m = "disconnected" PROVE WillBe(FALSE, r) <=> WillBe(c, q)
  <2>1. WillBe(FALSE, r) <=> Some
    BY <1>5, Zenon
  <2>2. WillBe(c, q) <=> Some
    BY <1>6, <1>8
  <2> QED BY <2>1, <2>2, Zenon
<1>9. ASSUME m \notin {"connected", "disconnected"} PROVE WillBe(c, r) <=> WillBe(c, q)
  BY <1>5, <1>6, <1>9
<1> QED BY <1>1, <1>7, <1>8, <1>9 DEF r, m

\* Nothing of the connection is scheduled: it is what the loop thinks.
LEMMA AllHeard ==
    ASSUME TypeOK, \A i \in DOMAIN queue : queue[i] \in Topic
    PROVE  WillBe(connected, queue) <=> connected
<1>1. \A i \in 1..Len(queue) : queue[i] # "connected" /\ queue[i] # "disconnected"
  BY TransportAssumption DEF TypeOK
<1> QED BY <1>1 DEF WillBe

\* A list without one of its entries.
LEMMA Removing ==
    ASSUME NEW S, NEW s \in Seq(S), NEW i \in 1..Len(s)
    PROVE  /\ RemoveAt(s, i) \in Seq(S) /\ Len(RemoveAt(s, i)) = Len(s) - 1 /\ Len(s) \in Nat
           /\ \A j \in 1..(Len(s) - 1) : RemoveAt(s, i)[j] = IF j < i THEN s[j] ELSE s[j + 1]
<1> DEFINE a == SubSeq(s, 1, i - 1)
           b == SubSeq(s, i + 1, Len(s))
           l == Len(s)
<1>1. l \in Nat /\ i \in 1..l
  OBVIOUS
<1>2. a \in Seq(S) /\ Len(a) = i - 1 /\ \A j \in 1..(i - 1) : a[j] = s[j]
  BY <1>1
<1>3. b \in Seq(S) /\ Len(b) = l - i /\ \A j \in 1..(l - i) : b[j] = s[i + j]
  BY <1>1
<1>4. RemoveAt(s, i) = a \o b
  BY DEF RemoveAt
<1> HIDE DEF a, b, l
<1>5. a \o b \in Seq(S) /\ Len(a \o b) = l - 1
  <2>1. a \o b \in Seq(S) /\ Len(a \o b) = Len(a) + Len(b)
    BY <1>2, <1>3, ConcatProperties
  <2> QED BY <1>1, <1>2, <1>3, <2>1
<1>6. ASSUME NEW j \in 1..(l - 1) PROVE (a \o b)[j] = IF j < i THEN s[j] ELSE s[j + 1]
  <2>1. (a \o b)[j] = IF j <= Len(a) THEN a[j] ELSE b[j - Len(a)]
    BY <1>1, <1>2, <1>3, ConcatProperties
  <2>2. CASE j < i
    BY <1>1, <1>2, <2>1, <2>2
  <2>3. CASE ~(j < i)
    <3>1. j - (i - 1) \in 1..(l - i) /\ i + (j - (i - 1)) = j + 1 /\ ~(j <= i - 1)
      BY <1>1, <2>3
    <3> QED BY <1>2, <1>3, <2>1, <2>3, <3>1
  <2> QED BY <2>2, <2>3
<1> QED BY <1>1, <1>4, <1>5, <1>6 DEF l

\* What a budget bounds is counted.
LEMMA Spent ==
    ASSUME TypeOK, NEW kind \in Kind, Spend(kind)
    PROVE  spent' \in [Kind -> Nat]
BY DEF TypeOK, Spend

\* Whoever begins to close it, it is one that does.
LEMMA Begins ==
    ASSUME TypeOK, NEW who \in Caller \cup Handler, BeginClose(who)
    PROVE  /\ closeAt' \in {"open", "disconnect", "cancel", "wait", "done"} /\ closeAt' # "open"
           /\ closer' \in Caller \cup Handler \cup {NONE} /\ (closer' = NONE) = (closeAt' = "open")
           /\ connected' \in BOOLEAN
           /\ closeAt # "open" => UNCHANGED <<closeAt, closer, connected>>
           /\ closeAt = "open" => closeAt' = "disconnect" /\ closer' = who /\ connected' = FALSE
<1>1. CASE closeAt = "open"
  <2>1. closeAt' = "disconnect" /\ closer' = who /\ connected' = FALSE /\ who # NONE
    BY <1>1, TransportAssumption DEF BeginClose
  <2> QED BY <1>1, <2>1
<1>2. CASE closeAt # "open"
  BY <1>2 DEF TypeOK, BeginClose
<1> QED BY <1>1, <1>2

(***************************************************************************)
(* The actions                                                             *)
(***************************************************************************)
\* Every action keeps the types, ...
LEMMA TypeKept ==
    ASSUME TransportInv, [Next]_vars
    PROVE  TypeOK'
<1>0. TypeOK /\ InSession
  BY DEF TransportInv
<1>1. CASE Find
  <2>1. index \in 1..Len(subs) /\ subs[index] \in Topic /\ index + 1 \in Nat
    BY <1>0, <1>1 DEF Find, TypeOK, InSession
  <2> QED BY <1>0, <1>1, <2>1 DEF Find, TypeOK, closing
<1>2. CASE Resubscribe
  <2>1. queue' \in Seq({"connected", "disconnected"} \cup Topic)
    BY <1>0, <1>2, Scheduling DEF Resubscribe, TypeOK
  <2> QED BY <1>0, <1>2, <2>1 DEF Resubscribe, TypeOK, InSession, closing
<1>3. CASE ConnectedInLoop
  <2>1. queue' \in Seq({"connected", "disconnected"} \cup Topic)
    BY <1>0, <1>3, Hearing DEF ConnectedInLoop, Scheduled, TypeOK
  <2> QED BY <1>0, <1>3, <2>1 DEF ConnectedInLoop, TypeOK, session, closing
<1>4. CASE DisconnectedInLoop
  <2>1. queue' \in Seq({"connected", "disconnected"} \cup Topic)
    BY <1>0, <1>4, Hearing DEF DisconnectedInLoop, Scheduled, TypeOK
  <2> QED BY <1>0, <1>4, <2>1 DEF DisconnectedInLoop, TypeOK, session, closing
<1>5. ASSUME NEW t \in Topic, Dispatch(t) PROVE TypeOK'
  <2>1. queue' \in Seq({"connected", "disconnected"} \cup Topic)
    BY <1>0, <1>5, Hearing DEF Dispatch, Scheduled, TypeOK
  <2>2. handler' \in [Handler -> {"idle", "run", "cancelled", "close"}]
    <3>1. CASE UNCHANGED handler
      BY <1>0, <3>1 DEF TypeOK
    <3>2. ASSUME NEW hs, handler' = [h \in Handler |-> IF h \in hs THEN "run" ELSE handler[h]]
          PROVE  handler' \in [Handler -> {"idle", "run", "cancelled", "close"}]
      BY <1>0, <3>2 DEF TypeOK
    <3> QED BY <1>5, <3>1, <3>2 DEF Dispatch, Deliver
  <2> QED BY <1>0, <1>5, <2>1, <2>2 DEF Dispatch, TypeOK, session, closing
<1>6. CASE Disconnect
  <2>1. queue' \in Seq({"connected", "disconnected"} \cup Topic)
    BY <1>0, <1>6, Scheduling DEF Disconnect, TypeOK
  <2> QED BY <1>0, <1>6, <2>1 DEF Disconnect, TypeOK
<1>7. CASE CancelHandlers
  BY <1>0, <1>7 DEF CancelHandlers, TypeOK, session
<1>8. CASE CloseEnds
  BY <1>0, <1>8 DEF CloseEnds, TypeOK, session
<1>9. CASE Connect
  BY <1>0, <1>9 DEF Connect, TypeOK, closing
<1>10. CASE Drop
  <2>1. queue' \in Seq({"connected", "disconnected"} \cup Topic) /\ spent' \in [Kind -> Nat]
    BY <1>0, <1>10, Scheduling, Spent DEF Drop, Kind, TypeOK
  <2> QED BY <1>0, <1>10, <2>1 DEF Drop, TypeOK, closing
<1>11. CASE Opened
  BY <1>0, <1>11 DEF Opened, TypeOK, session, closing
<1>12. CASE ConnectFails
  BY <1>0, <1>12, Begins, TransportAssumption DEF ConnectFails, TypeOK, session
<1>13. ASSUME NEW t \in Topic, OnMessage(t) PROVE TypeOK'
  <2>1. queue' \in Seq({"connected", "disconnected"} \cup Topic) /\ spent' \in [Kind -> Nat]
    BY <1>0, <1>13, Scheduling, Spent DEF OnMessage, Kind, TypeOK
  <2> QED BY <1>0, <1>13, <2>1 DEF OnMessage, TypeOK, session, closing
<1>14. ASSUME NEW t \in Topic, Subscribe(t) PROVE TypeOK'
  <2>1. spent' \in [Kind -> Nat] /\ subs' \in Seq(Topic)
    BY <1>0, <1>14, Spent DEF Subscribe, Kind, TypeOK
  <2> QED BY <1>0, <1>14, <2>1 DEF Subscribe, TypeOK, closing
<1>15. ASSUME NEW i \in 1..Len(subs), Unsubscribe(i) PROVE TypeOK'
  <2>1. spent' \in [Kind -> Nat] /\ subs' \in Seq(Topic)
    BY <1>0, <1>15, Spent, Removing DEF Unsubscribe, Kind, TypeOK
  <2>2. wire' \subseteq wire
    BY <1>15 DEF Unsubscribe, Unsubscribed
  <2>3. gap' \subseteq Topic
    BY <1>0, <1>15 DEF Unsubscribe, TypeOK, InSession
  <2> QED BY <1>0, <1>15, <2>1, <2>2, <2>3 DEF Unsubscribe, TypeOK, closing
<1>16. ASSUME NEW c \in Caller, Close(c) PROVE TypeOK'
  <2>1. spent' \in [Kind -> Nat]
    BY <1>0, <1>16, Spent DEF Close, Kind
  <2> QED BY <1>0, <1>16, <2>1, Begins DEF Close, TypeOK, session
<1>17. ASSUME NEW c \in Caller, Cancelled(c) PROVE TypeOK'
  <2>1. spent' \in [Kind -> Nat]
    BY <1>0, <1>17, Spent DEF Cancelled, Kind
  <2> QED BY <1>0, <1>17, <2>1 DEF Cancelled, TypeOK, session, closing
<1>18. ASSUME NEW c \in Caller, Return(c) PROVE TypeOK'
  BY <1>0, <1>18 DEF Return, TypeOK, session, closing
<1>19. ASSUME NEW h \in Handler, HandlerCloses(h) PROVE TypeOK'
  <2>1. spent' \in [Kind -> Nat]
    BY <1>0, <1>19, Spent DEF HandlerCloses, Kind
  <2> QED BY <1>0, <1>19, <2>1, Begins DEF HandlerCloses, TypeOK, session
<1>20. ASSUME NEW h \in Handler, HandlerGoesOn(h) PROVE TypeOK'
  BY <1>0, <1>20 DEF HandlerGoesOn, TypeOK, session, closing
<1>21. ASSUME NEW h \in Handler, HandlerEnds(h) PROVE TypeOK'
  BY <1>0, <1>21 DEF HandlerEnds, TypeOK, session
<1>22. CASE UNCHANGED vars
  BY <1>0, <1>22 DEF vars, TypeOK, session, closing
<1> QED BY <1>0, <1>1, <1>2, <1>3, <1>4, <1>5, <1>6, <1>7, <1>8, <1>9, <1>10, <1>11, <1>12,
       <1>13, <1>14, <1>15, <1>16, <1>17, <1>18, <1>19, <1>20, <1>21, <1>22
       DEF Next, Thread, Loop, Closing

\* ... the thread's session, ...
LEMMA InSessionKept ==
    ASSUME TransportInv, [Next]_vars
    PROVE  InSession'
<1>0. TypeOK /\ InSession
  BY DEF TransportInv
<1>1. CASE Find
  BY <1>0, <1>1 DEF Find, TypeOK, InSession, closing
<1>2. CASE Resubscribe
  BY <1>0, <1>2 DEF Resubscribe, TypeOK, InSession, closing
<1>3. CASE ConnectedInLoop
  BY <1>0, <1>3 DEF ConnectedInLoop, TypeOK, InSession, session, closing, Scheduled
<1>4. CASE DisconnectedInLoop
  BY <1>0, <1>4 DEF DisconnectedInLoop, TypeOK, InSession, session, closing, Scheduled
<1>5. ASSUME NEW t \in Topic, Dispatch(t) PROVE InSession'
  BY <1>0, <1>5 DEF Dispatch, TypeOK, InSession, session, closing, Scheduled, Deliver
<1>6. CASE Disconnect
  BY <1>0, <1>6 DEF Disconnect, TypeOK, InSession
<1>7. CASE CancelHandlers
  BY <1>0, <1>7 DEF CancelHandlers, TypeOK, InSession, session
<1>8. CASE CloseEnds
  BY <1>0, <1>8 DEF CloseEnds, TypeOK, InSession, session
<1>9. CASE Connect
  BY <1>0, <1>9 DEF Connect, TypeOK, InSession, closing
<1>10. CASE Drop
  BY <1>0, <1>10 DEF Drop, TypeOK, InSession, closing
<1>11. CASE Opened
  BY <1>0, <1>11 DEF Opened, TypeOK, InSession, session, closing
<1>12. CASE ConnectFails
  BY <1>0, <1>12 DEF ConnectFails, TypeOK, InSession, session, BeginClose
<1>13. ASSUME NEW t \in Topic, OnMessage(t) PROVE InSession'
  BY <1>0, <1>13 DEF OnMessage, TypeOK, InSession, session, closing
<1>14. ASSUME NEW t \in Topic, Subscribe(t) PROVE InSession'
  BY <1>0, <1>14 DEF Subscribe, TypeOK, InSession, closing
<1>15. ASSUME NEW i \in 1..Len(subs), Unsubscribe(i) PROVE InSession'
  BY <1>0, <1>15 DEF Unsubscribe, TypeOK, InSession, closing
<1>16. ASSUME NEW c \in Caller, Close(c) PROVE InSession'
  BY <1>0, <1>16 DEF Close, TypeOK, InSession, session, BeginClose
<1>17. ASSUME NEW c \in Caller, Cancelled(c) PROVE InSession'
  BY <1>0, <1>17 DEF Cancelled, TypeOK, InSession, session, closing
<1>18. ASSUME NEW c \in Caller, Return(c) PROVE InSession'
  BY <1>0, <1>18 DEF Return, TypeOK, InSession, session, closing
<1>19. ASSUME NEW h \in Handler, HandlerCloses(h) PROVE InSession'
  BY <1>0, <1>19 DEF HandlerCloses, TypeOK, InSession, session, BeginClose
<1>20. ASSUME NEW h \in Handler, HandlerGoesOn(h) PROVE InSession'
  BY <1>0, <1>20 DEF HandlerGoesOn, TypeOK, InSession, session, closing
<1>21. ASSUME NEW h \in Handler, HandlerEnds(h) PROVE InSession'
  BY <1>0, <1>21 DEF HandlerEnds, TypeOK, InSession, session
<1>22. CASE UNCHANGED vars
  BY <1>0, <1>22 DEF vars, TypeOK, InSession, session, closing
<1> QED BY <1>0, <1>1, <1>2, <1>3, <1>4, <1>5, <1>6, <1>7, <1>8, <1>9, <1>10, <1>11, <1>12,
       <1>13, <1>14, <1>15, <1>16, <1>17, <1>18, <1>19, <1>20, <1>21, <1>22
       DEF Next, Thread, Loop, Closing

\* ... what it tells the loop, ...
LEMMA TellingKept ==
    ASSUME TransportInv, [Next]_vars
    PROVE  Telling'
<1>0. TypeOK /\ InSession /\ Telling
  BY DEF TransportInv
<1>1. CASE Find
  BY <1>0, <1>1 DEF Find, Telling, closing
<1>2. CASE Resubscribe
  <2>1. queue \in Seq({"connected", "disconnected"} \cup Topic) /\ "connected" \in {"connected", "disconnected"} \cup Topic
    BY <1>0, <1>2 DEF TypeOK
  <2>2. WillBe(connected, Append(queue, "connected"))
    BY <2>1, Scheduling
  <2> QED BY <1>0, <1>2, <2>2 DEF Resubscribe, Telling, InSession, closing
<1>3. CASE ConnectedInLoop
  BY ZenonT(60), <1>0, <1>3, Hearing, TransportAssumption DEF ConnectedInLoop, Scheduled, Telling, TypeOK, session, closing
<1>4. CASE DisconnectedInLoop
  BY ZenonT(60), <1>0, <1>4, Hearing, TransportAssumption DEF DisconnectedInLoop, Scheduled, Telling, TypeOK, session,
       closing
<1>5. ASSUME NEW t \in Topic, Dispatch(t) PROVE Telling'
  BY ZenonT(60), <1>0, <1>5, Hearing, TransportAssumption DEF Dispatch, Scheduled, Telling, TypeOK, session, closing
<1>6. CASE Disconnect
  BY <1>0, <1>6 DEF Disconnect, Telling
<1>7. CASE CancelHandlers
  BY <1>0, <1>7 DEF CancelHandlers, Telling, session
<1>8. CASE CloseEnds
  BY <1>0, <1>8 DEF CloseEnds, Telling, session
<1>9. CASE Connect
  BY <1>0, <1>9 DEF Connect, Telling, closing
<1>10. CASE Drop
  <2>1. queue \in Seq({"connected", "disconnected"} \cup Topic) /\ "disconnected" \in {"connected", "disconnected"} \cup Topic
    BY <1>0, <1>10 DEF TypeOK
  <2>2. ~WillBe(connected, Append(queue, "disconnected"))
    BY <2>1, Scheduling
  <2> QED BY <1>0, <1>10, <2>2 DEF Drop, Telling, InSession, closing
<1>11. CASE Opened
  BY <1>0, <1>11 DEF Opened, Telling, session, closing
<1>12. CASE ConnectFails
  <2>1. closeAt' # "open" /\ (closeAt # "open" => connected' = connected) /\ (closeAt = "open" => connected' = FALSE)
    BY <1>0, <1>12, Begins, TransportAssumption DEF ConnectFails
  <2> QED BY <1>0, <2>1 DEF Telling
<1>13. ASSUME NEW t \in Topic, OnMessage(t) PROVE Telling'
  <2>1. queue \in Seq({"connected", "disconnected"} \cup Topic) /\ t \in {"connected", "disconnected"} \cup Topic
    BY <1>0, <1>13 DEF TypeOK
  <2>2. WillBe(connected, Append(queue, t)) <=> WillBe(connected, queue)
    BY <2>1, Scheduling, TransportAssumption
  <2> QED BY <1>0, <1>13, <2>2 DEF OnMessage, Telling, InSession, closing, session
<1>14. ASSUME NEW t \in Topic, Subscribe(t) PROVE Telling'
  BY <1>0, <1>14 DEF Subscribe, Telling, closing
<1>15. ASSUME NEW i \in 1..Len(subs), Unsubscribe(i) PROVE Telling'
  BY <1>0, <1>15 DEF Unsubscribe, Telling, closing
<1>16. ASSUME NEW c \in Caller, Close(c) PROVE Telling'
  <2>1. closeAt' # "open" /\ (closeAt # "open" => connected' = connected) /\ (closeAt = "open" => connected' = FALSE)
    BY <1>0, <1>16, Begins, TransportAssumption DEF Close
  <2> QED BY <1>0, <2>1 DEF Telling
<1>17. ASSUME NEW c \in Caller, Cancelled(c) PROVE Telling'
  BY <1>0, <1>17 DEF Cancelled, Telling, session, closing
<1>18. ASSUME NEW c \in Caller, Return(c) PROVE Telling'
  BY <1>0, <1>18 DEF Return, Telling, session, closing
<1>19. ASSUME NEW h \in Handler, HandlerCloses(h) PROVE Telling'
  <2>1. closeAt' # "open" /\ (closeAt # "open" => connected' = connected) /\ (closeAt = "open" => connected' = FALSE)
    BY <1>0, <1>19, Begins, TransportAssumption DEF HandlerCloses
  <2> QED BY <1>0, <2>1 DEF Telling
<1>20. ASSUME NEW h \in Handler, HandlerGoesOn(h) PROVE Telling'
  BY <1>0, <1>20 DEF HandlerGoesOn, Telling, session, closing
<1>21. ASSUME NEW h \in Handler, HandlerEnds(h) PROVE Telling'
  BY <1>0, <1>21 DEF HandlerEnds, Telling, session
<1>22. CASE UNCHANGED vars
  BY <1>0, <1>22 DEF vars, Telling, session, closing
<1> QED BY <1>0, <1>1, <1>2, <1>3, <1>4, <1>5, <1>6, <1>7, <1>8, <1>9, <1>10, <1>11, <1>12,
       <1>13, <1>14, <1>15, <1>16, <1>17, <1>18, <1>19, <1>20, <1>21, <1>22
       DEF Next, Thread, Loop, Closing

\* ... what is subscribed, ...
LEMMA SubscribedKept ==
    ASSUME TransportInv, [Next]_vars
    PROVE  Subscribed'
<1>0. TypeOK /\ InSession /\ Subscribed
  BY DEF TransportInv
<1>1. CASE Find
  <2> SUFFICES ASSUME up, closeAt = "open", NEW i \in 1..Len(subs), i < index + 1 PROVE subs[i] \in wire \cup gap \cup found'
    BY <1>1 DEF Find, Subscribed, closing
  <2>1. CASE i = index
    BY <1>1, <2>1 DEF Find
  <2>2. CASE i # index
    <3>1. i < index
      BY <1>0, <2>2 DEF TypeOK
    <3> QED BY <1>0, <1>1, <3>1 DEF Find, Subscribed
  <2> QED BY <2>1, <2>2
<1>2. CASE Resubscribe
  BY <1>0, <1>2 DEF Resubscribe, Subscribed, TypeOK, closing
<1>3. CASE ConnectedInLoop
  BY <1>0, <1>3 DEF ConnectedInLoop, Subscribed, session, closing, Scheduled
<1>4. CASE DisconnectedInLoop
  BY <1>0, <1>4 DEF DisconnectedInLoop, Subscribed, session, closing, Scheduled
<1>5. ASSUME NEW t \in Topic, Dispatch(t) PROVE Subscribed'
  BY <1>0, <1>5 DEF Dispatch, Subscribed, session, closing, Scheduled, Deliver
<1>6. CASE Disconnect
  BY <1>0, <1>6 DEF Disconnect, Subscribed
<1>7. CASE CancelHandlers
  BY <1>0, <1>7 DEF CancelHandlers, Subscribed, session
<1>8. CASE CloseEnds
  BY <1>8 DEF CloseEnds, Subscribed
<1>9. CASE Connect
  <2>1. up' => paho' \in {"idle", "connect"} /\ index' = 1 /\ (closeAt = "open" => paho' = "connect")
    BY <1>9 DEF Connect
  <2> QED BY <1>0, <1>9, <2>1 DEF Connect, Subscribed, TypeOK, closing
<1>10. CASE Drop
  BY <1>0, <1>10 DEF Drop, Subscribed, closing
<1>11. CASE Opened
  BY <1>0, <1>11 DEF Opened, Subscribed, session, closing
<1>12. CASE ConnectFails
  BY <1>0, <1>12, Begins, TransportAssumption DEF ConnectFails, Subscribed
<1>13. ASSUME NEW t \in Topic, OnMessage(t) PROVE Subscribed'
  BY <1>0, <1>13 DEF OnMessage, Subscribed, session, closing
<1>14. ASSUME NEW t \in Topic, Subscribe(t) PROVE Subscribed'
  <2> SUFFICES ASSUME up, closeAt = "open", NEW i \in 1..Len(subs')
               PROVE  /\ paho = "idle" => subs'[i] \in wire' \cup gap'
                      /\ paho = "connect" /\ i < index => subs'[i] \in wire' \cup gap' \cup found
    BY <1>14 DEF Subscribe, Subscribed, closing
  <2>1. /\ subs' = Append(subs, t) /\ Len(subs') = Len(subs) + 1 /\ Len(subs) \in Nat /\ wire \subseteq wire' /\ gap \subseteq gap'
        /\ \A j \in 1..Len(subs) : subs'[j] = subs[j]
        /\ subs'[Len(subs')] = t
    BY <1>0, <1>14 DEF Subscribe, TypeOK
  <2>2. CASE i \in 1..Len(subs)
    BY <1>0, <2>1, <2>2 DEF Subscribed
  <2>3. CASE i = Len(subs')
    <3>1. CASE connected
      BY <1>14, <2>1, <2>3, <3>1 DEF Subscribe
    <3>2. CASE ~connected
      <4>1. gap' = IF paho = "idle" \/ Len(subs') < index THEN gap \cup {t} ELSE gap
        BY <1>14, <3>2 DEF Subscribe
      <4> QED BY <1>0, <2>1, <2>3, <4>1 DEF TypeOK
    <3> QED BY <3>1, <3>2
  <2> QED BY <2>1, <2>2, <2>3
<1>15. ASSUME NEW i \in 1..Len(subs), Unsubscribe(i) PROVE Subscribed'
  <2> SUFFICES ASSUME up, closeAt = "open", NEW j \in 1..Len(subs')
               PROVE  /\ paho = "idle" => subs'[j] \in wire' \cup gap'
                      /\ paho = "connect" /\ j < index => subs'[j] \in wire' \cup gap' \cup found
    BY <1>15 DEF Unsubscribe, Subscribed, closing
  <2>1. /\ subs' = RemoveAt(subs, i) /\ Len(subs') = Len(subs) - 1 /\ Len(subs) \in Nat /\ index \in Nat
        /\ subs'[j] = IF j < i THEN subs[j] ELSE subs[j + 1]
        /\ gap \subseteq gap' /\ paho \in {"idle", "connect"}
    <3>1. subs' = RemoveAt(subs, i) /\ subs \in Seq(Topic) /\ gap \subseteq gap'
      BY <1>0, <1>15 DEF Unsubscribe, TypeOK
    <3>2. /\ Len(RemoveAt(subs, i)) = Len(subs) - 1 /\ Len(subs) \in Nat
          /\ \A n \in 1..(Len(subs) - 1) : RemoveAt(subs, i)[n] = IF n < i THEN subs[n] ELSE subs[n + 1]
      BY <1>15, <3>1, Removing
    <3> QED BY <1>0, <3>1, <3>2 DEF TypeOK
  <2>2. subs'[j] \in wire => subs'[j] \in wire'
    BY <1>15 DEF Unsubscribe, Unsubscribed, Contains
  <2> DEFINE k == IF j < i THEN j ELSE j + 1
  <2>3. k \in 1..Len(subs) /\ subs'[j] = subs[k] /\ (k < index \/ (k = index /\ i < index) \/ ~(j < index))
    BY <2>1
  <2> HIDE DEF k
  <2>4. CASE paho = "idle"
    BY <1>0, <2>1, <2>2, <2>3, <2>4 DEF Subscribed
  <2>5. CASE paho = "connect" /\ k < index
    BY <1>0, <2>1, <2>2, <2>3, <2>5 DEF Subscribed
  <2>6. CASE paho = "connect" /\ k = index /\ i < index
    <3>1. subs[index] \in gap'
      BY <1>15, <2>1, <2>3, <2>6 DEF Unsubscribe
    <3> QED BY <2>3, <2>6, <3>1
  <2> QED BY <2>1, <2>3, <2>4, <2>5, <2>6
<1>16. ASSUME NEW c \in Caller, Close(c) PROVE Subscribed'
  BY <1>0, <1>16, Begins, TransportAssumption DEF Close, Subscribed
<1>17. ASSUME NEW c \in Caller, Cancelled(c) PROVE Subscribed'
  BY <1>0, <1>17 DEF Cancelled, Subscribed, session, closing
<1>18. ASSUME NEW c \in Caller, Return(c) PROVE Subscribed'
  BY <1>0, <1>18 DEF Return, Subscribed, session, closing
<1>19. ASSUME NEW h \in Handler, HandlerCloses(h) PROVE Subscribed'
  BY <1>0, <1>19, Begins, TransportAssumption DEF HandlerCloses, Subscribed
<1>20. ASSUME NEW h \in Handler, HandlerGoesOn(h) PROVE Subscribed'
  BY <1>0, <1>20 DEF HandlerGoesOn, Subscribed, session, closing
<1>21. ASSUME NEW h \in Handler, HandlerEnds(h) PROVE Subscribed'
  BY <1>0, <1>21 DEF HandlerEnds, Subscribed, session
<1>22. CASE UNCHANGED vars
  BY <1>0, <1>22 DEF vars, Subscribed, session, closing
<1> QED BY <1>0, <1>1, <1>2, <1>3, <1>4, <1>5, <1>6, <1>7, <1>8, <1>9, <1>10, <1>11, <1>12,
       <1>13, <1>14, <1>15, <1>16, <1>17, <1>18, <1>19, <1>20, <1>21, <1>22
       DEF Next, Thread, Loop, Closing

\* ... and how a close ends.
LEMMA EndingKept ==
    ASSUME TransportInv, [Next]_vars
    PROVE  Ending'
<1>0. TypeOK /\ Ending
  BY DEF TransportInv
<1>1. CASE Find
  BY <1>0, <1>1 DEF Find, Ending, TypeOK, closing
<1>2. CASE Resubscribe
  BY <1>0, <1>2 DEF Resubscribe, Ending, TypeOK, closing
<1>3. CASE ConnectedInLoop
  BY <1>0, <1>3 DEF ConnectedInLoop, Ending, TypeOK, session, closing, Scheduled
<1>4. CASE DisconnectedInLoop
  BY <1>0, <1>4 DEF DisconnectedInLoop, Ending, TypeOK, session, closing, Scheduled
<1>5. ASSUME NEW t \in Topic, Dispatch(t) PROVE Ending'
  <2>1. closeAt # "open" => UNCHANGED handler
    BY <1>5 DEF Dispatch
  <2> QED BY <1>0, <1>5, <2>1 DEF Dispatch, Ending, session, closing
<1>6. CASE Disconnect
  BY <1>0, <1>6 DEF Disconnect, Ending, TypeOK
<1>7. CASE CancelHandlers
  BY <1>0, <1>7 DEF CancelHandlers, Ending, TypeOK, session
<1>8. CASE CloseEnds
  BY <1>0, <1>8 DEF CloseEnds, Ending, TypeOK, session
<1>9. CASE Connect
  BY <1>0, <1>9 DEF Connect, Running, Ending, TypeOK, closing
<1>10. CASE Drop
  BY <1>0, <1>10 DEF Drop, Ending, TypeOK, closing
<1>11. CASE Opened
  BY <1>0, <1>11 DEF Opened, Ending, TypeOK, session, closing
<1>12. CASE ConnectFails
  <2>1. closeAt # "open" => UNCHANGED <<closeAt, closer>>
    BY <1>0, <1>12, Begins, TransportAssumption DEF ConnectFails
  <2>2. closeAt = "open" => closeAt' = "disconnect"
    BY <1>0, <1>12, Begins, TransportAssumption DEF ConnectFails
  <2> QED BY <1>0, <1>12, <2>1, <2>2 DEF ConnectFails, Ending, TypeOK, session
<1>13. ASSUME NEW t \in Topic, OnMessage(t) PROVE Ending'
  BY <1>0, <1>13 DEF OnMessage, Ending, TypeOK, session, closing
<1>14. ASSUME NEW t \in Topic, Subscribe(t) PROVE Ending'
  BY <1>0, <1>14 DEF Subscribe, Ending, TypeOK, closing
<1>15. ASSUME NEW i \in 1..Len(subs), Unsubscribe(i) PROVE Ending'
  <2>1. closeAt # "done"
    BY <1>0 DEF Ending
  <2> QED BY <1>0, <1>15, <2>1 DEF Unsubscribe, Ending, closing
<1>16. ASSUME NEW c \in Caller, Close(c) PROVE Ending'
  <2>1. closeAt # "open" => UNCHANGED <<closeAt, closer>>
    BY <1>0, <1>16, Begins, TransportAssumption DEF Close
  <2>2. closeAt = "open" => closeAt' = "disconnect"
    BY <1>0, <1>16, Begins, TransportAssumption DEF Close
  <2> QED BY <1>0, <1>16, <2>1, <2>2 DEF Close, Ending, TypeOK, session
<1>17. ASSUME NEW c \in Caller, Cancelled(c) PROVE Ending'
  BY <1>0, <1>17 DEF Cancelled, Ending, TypeOK, session, closing
<1>18. ASSUME NEW c \in Caller, Return(c) PROVE Ending'
  BY <1>0, <1>18 DEF Return, Ending, TypeOK, session, closing
<1>19. ASSUME NEW h \in Handler, HandlerCloses(h) PROVE Ending'
  <2>1. closeAt # "open" => UNCHANGED <<closeAt, closer>>
    BY <1>0, <1>19, Begins, TransportAssumption DEF HandlerCloses
  <2>2. closeAt = "open" => closeAt' = "disconnect"
    BY <1>0, <1>19, Begins, TransportAssumption DEF HandlerCloses
  <2> QED BY <1>0, <1>19, <2>1, <2>2 DEF HandlerCloses, Ending, TypeOK, session
<1>20. ASSUME NEW h \in Handler, HandlerGoesOn(h) PROVE Ending'
  BY <1>0, <1>20 DEF HandlerGoesOn, Ending, TypeOK, session, closing
<1>21. ASSUME NEW h \in Handler, HandlerEnds(h) PROVE Ending'
  BY <1>0, <1>21 DEF HandlerEnds, Ending, TypeOK, session
<1>22. CASE UNCHANGED vars
  BY <1>0, <1>22 DEF vars, Ending, TypeOK, session, closing
<1> QED BY <1>0, <1>1, <1>2, <1>3, <1>4, <1>5, <1>6, <1>7, <1>8, <1>9, <1>10, <1>11, <1>12,
       <1>13, <1>14, <1>15, <1>16, <1>17, <1>18, <1>19, <1>20, <1>21, <1>22
       DEF Next, Thread, Loop, Closing

(***************************************************************************)
(* The specification                                                       *)
(***************************************************************************)
\* The thread, the loop and the steps of close keep what each of them relies
\* on, in any order.
THEOREM TransportInvariant == Spec => []TransportInv
<1>1. Init => TransportInv
  <2>1. Init => TypeOK
    <3> SUFFICES ASSUME Init PROVE TypeOK
      OBVIOUS
    <3>1. queue \in Seq({"connected", "disconnected"} \cup Topic) /\ subs \in Seq(Topic)
      BY DEF Init
    <3>2. /\ handler \in [Handler -> {"idle", "run", "cancelled", "close"}]
          /\ pc \in [Caller -> {"idle", "connect", "close", "cancelled", "returned"}]
          /\ spent \in [Kind -> Nat] /\ closer = NONE /\ closeAt = "open"
      BY DEF Init
    <3> QED BY <3>1, <3>2 DEF Init, TypeOK
  <2>2. Init => InSession /\ Telling /\ Subscribed /\ Ending
    BY DEF Init, InSession, Telling, WillBe, Subscribed, Ending
  <2> QED BY <2>1, <2>2 DEF TransportInv
<1>2. TransportInv /\ [Next]_vars => TransportInv'
  BY TypeKept, InSessionKept, TellingKept, SubscribedKept, EndingKept DEF TransportInv
<1> QED BY <1>1, <1>2, PTL DEF Spec

\* Every reachable state is well typed.
THEOREM TransportTypes == Spec => []TypeOK
<1>1. TransportInv => TypeOK
  BY DEF TransportInv
<1> QED BY <1>1, TransportInvariant, PTL

\* The loop and the broker agree on the connection and on what is subscribed
\* (mqtt.py _on_connect, _connected_in_loop, subscribe, unsubscribe).
THEOREM LoopInStep == Spec => []InStep
<1>1. TransportInv => InStep
  <2>1. TransportInv => Remembered
    BY DEF TransportInv, Remembered, Told, Subscribed, ToSet
  <2>2. ASSUME TransportInv, Told PROVE connected = (up /\ closeAt = "open")
    <3>1. (WillBe(connected, queue) <=> connected) /\ connected \in BOOLEAN /\ up \in BOOLEAN
      BY <2>2, AllHeard DEF TransportInv, Told, TypeOK
    <3> QED BY <2>2, <3>1 DEF TransportInv, Telling, Told
  <2> QED BY <2>1, <2>2 DEF InStep, Truthful
<1> QED BY <1>1, TransportInvariant, PTL

\* After close, nothing goes on and nothing comes back (mqtt.py close, _close).
THEOREM ClosedIsClosed == Spec => []ClosedForGood
<1>1. TransportInv => ClosedForGood
  BY DEF TransportInv, Ending, ClosedForGood
<1> QED BY <1>1, TransportInvariant, PTL
=============================================================================
