------------------------------ MODULE Producer ------------------------------
(***************************************************************************)
(* The presence of a producer, `<prefix>/_producer/<source>`: the check    *)
(* before a start or a purge (`producer_running`), the Runner that answers *)
(* it, what is said at a stop, a restart and a move to another source      *)
(* (Service.start and stop, the callbacks of its exit stack), the Last     *)
(* Will, and `purge_il`.                                                   *)
(*                                                                         *)
(* All clients share one broker, prefix and source.  Between a client and  *)
(* the broker messages keep their order; each step below is what a client  *)
(* does between two awaits, or the broker taking one message.  What a      *)
(* client keeps retained under its devices is one thing here, `shown`: the *)
(* topics themselves are IlPublisher's.                                    *)
(***************************************************************************)
EXTENDS Integers, Sequences, FiniteSets, SequencesExt, Functions

CONSTANTS
    Client,     \* services, and callers of `purge_il`
    Nonce,      \* what a check may send with its probe
    Budgets,    \* a set of bounds on what they and the broker do, by kind
    NONE

Kind == {"start", "purge", "stop", "restart", "retire", "fail", "crash", "drop", "slow", "silent",
         "late"}

ASSUME ProducerAssumption ==
    /\ Budgets \subseteq [Kind -> Nat]
    /\ NONE \notin Client \cup Nonce \cup {"online", "offline", "shown"}

VARIABLES
    pc, job,            \* where each client is, and in which of its jobs
    offline,            \* Service._offline: does the exit stack say so?
    driving,            \* has it published its devices since it runs?
    nonce,              \* what the answer to its probe must say
    link,               \* the connection as the client has it
    up, down,           \* its messages under way, either direction
    subs,               \* the broker: the subscriptions it has taken
    presence, shown,    \* retained: the presence, and topics of devices
    ghosts,             \* sessions that died: their wills are to come
    found,              \* what a purge read
    answering,          \* history: whose answers a check counts on
    purged,             \* history: was the last to begin a purge, and alone;
                        \* "blind": it read less than there was to read
    spent               \* how much of a budget is used

clientVars == <<pc, job, offline, driving, nonce, found>>
brokerVars == <<subs, presence, shown, ghosts>>
vars == <<clientVars, link, up, down, brokerVars, answering, purged, spent>>

(***************************************************************************)
(* Messages                                                                *)
(***************************************************************************)
Topic == {"presence", "probe", "alive", "flush", "devices"}
Value == {"online", "offline", "shown", NONE} \cup Client \cup Nonce

Sub(topic) == [op |-> "sub", topic |-> topic, value |-> NONE]
Pub(topic, value) == [op |-> "pub", topic |-> topic, value |-> value]
Up == [op : {"sub", "pub"}, topic : Topic, value : Value]
Down == [topic : Topic, value : Value, retained : BOOLEAN]

TypeOK ==
    /\ pc \in [Client -> {"off", "listen", "probe", "read", "clear", "run", "flush"}]
    /\ job \in [Client -> {"serve", "purge", "retire"}]
    /\ offline \in [Client -> BOOLEAN] /\ driving \in [Client -> BOOLEAN]
    /\ nonce \in [Client -> Nonce \cup {NONE}]
    /\ link \in [Client -> {"none", "up", "down"}]
    /\ up \in [Client -> Seq(Up)] /\ down \in [Client -> Seq(Down)]
    /\ subs \in [Client -> SUBSET Topic]
    /\ presence \in {"online", "offline", NONE} /\ shown \in BOOLEAN
    /\ ghosts \in Nat /\ found \in [Client -> BOOLEAN]
    /\ answering \in [Client -> SUBSET Client] /\ purged \in {"no", "alone", "blind"}
    /\ spent \in [Kind -> Nat]

\* A clean broker, or what an earlier run left.
Init ==
    /\ pc = [c \in Client |-> "off"] /\ job = [c \in Client |-> "serve"]
    /\ offline = [c \in Client |-> TRUE] /\ driving = [c \in Client |-> FALSE]
    /\ nonce = [c \in Client |-> NONE]
    /\ link = [c \in Client |-> "none"]
    /\ up = [c \in Client |-> <<>>] /\ down = [c \in Client |-> <<>>]
    /\ subs = [c \in Client |-> {}]
    /\ presence \in {"offline", NONE} /\ shown = (presence = "offline") /\ ghosts = 0
    /\ found = [c \in Client |-> FALSE]
    /\ answering = [c \in Client |-> {}] /\ purged = "no"
    /\ spent = [k \in Kind |-> 0]

Spend(kind) ==
    /\ spent' = [spent EXCEPT ![kind] = @ + 1]
    /\ \E b \in Budgets : \A k \in Kind : spent'[k] <= b[k]

Say(c, msgs) == up' = [up EXCEPT ![c] = @ \o msgs]

\* Client c is no longer one whose answer others count on.
NoLongerAnswers(c) == answering' = [e \in Client |-> answering[e] \ {c}]

(***************************************************************************)
(* The check: `producer_running`                                           *)
(***************************************************************************)
\* Connected (with a will, if it is to serve), it subscribes the presence.
Check(c, task) ==
    /\ job' = [job EXCEPT ![c] = task] /\ pc' = [pc EXCEPT ![c] = "listen"]
    /\ offline' = [offline EXCEPT ![c] = (task = "serve")]
    /\ driving' = [driving EXCEPT ![c] = FALSE]
    /\ answering' = [e \in Client |-> IF e = c THEN {} ELSE answering[e] \ {c}]

Alone(c) == \A e \in Client \ {c} : pc[e] = "off"

Begin(c, task, kind) ==
    /\ pc[c] = "off" /\ Spend(kind)
    /\ Check(c, task)
    /\ link' = [link EXCEPT ![c] = "up"] /\ Say(c, <<Sub("presence")>>)
    /\ purged' = IF task = "purge" /\ Alone(c) THEN "alone" ELSE "no"
    /\ UNCHANGED <<down, brokerVars, nonce, found>>

\* Nothing retained came in time: no producer.
Unheard(c) ==
    /\ pc[c] = "listen" /\ pc' = [pc EXCEPT ![c] = "read"]
    /\ \/ link[c] = "down" /\ UNCHANGED spent
       \/ /\ Sub("presence") \notin ToSet(up[c]) /\ \A m \in ToSet(down[c]) : ~m.retained
          /\ UNCHANGED spent
       \/ Spend("slow")
    /\ subs' = [subs EXCEPT ![c] = @ \ {"presence"}]
    /\ UNCHANGED <<job, offline, driving, nonce, found, link, up, down, presence, shown, ghosts,
                   answering, purged>>

\* A message with such a value is still under way.
UnderWay(topics, value) ==
    \E e \in Client : \E m \in ToSet(up[e]) \cup ToSet(down[e]) : m.topic \in topics /\ m.value = value

\* What client c asked, it asks no more.
Unasked(c) == nonce' = [nonce EXCEPT ![c] = NONE]

Probes == {"probe", "alive"}

\* Nobody answered the probe in time.
Unanswered(c) ==
    /\ pc[c] = "probe" /\ pc' = [pc EXCEPT ![c] = "read"]
    /\ \/ link[c] = "down" /\ UNCHANGED spent
       \/ ~UnderWay(Probes, nonce[c]) /\ UNCHANGED spent
       \/ Spend("slow")
    /\ subs' = [subs EXCEPT ![c] = @ \ {"alive"}] /\ Unasked(c)
    /\ UNCHANGED <<job, offline, driving, found, link, up, down, presence, shown, ghosts,
                   answering, purged>>

(***************************************************************************)
(* Messages received                                                       *)
(***************************************************************************)
Took(c, topic) ==
    /\ down[c] # <<>> /\ Head(down[c]).topic = topic
    /\ down' = [down EXCEPT ![c] = Tail(@)]

\* One that no check asks with, and none did whose messages are still about.
Unused(n) == (\A e \in Client : nonce[e] # n) /\ ~UnderWay(Probes, n)

\* The retained presence: `online` is to be probed, with a random nonce.
Heard(c) ==
    /\ pc[c] = "listen" /\ Took(c, "presence") /\ Head(down[c]).retained
    /\ subs' = [subs EXCEPT ![c] = @ \ {"presence"}]
    /\ IF Head(down[c]).value = "online"
       THEN /\ pc' = [pc EXCEPT ![c] = "probe"] /\ \E n \in Nonce : Unused(n)
            /\ nonce' = [nonce EXCEPT ![c] = CHOOSE n \in Nonce : Unused(n)]
            /\ Say(c, <<Sub("alive"), Pub("probe", nonce'[c])>>)
       ELSE pc' = [pc EXCEPT ![c] = "read"] /\ UNCHANGED <<nonce, up>>
    /\ UNCHANGED <<job, offline, driving, found, link, presence, shown, ghosts, answering, purged,
                   spent>>

\* What a client says last, and the message it waits for to come back.
Flush(c) == <<Sub("flush"), Pub("flush", c)>>

\* The exit stack of Service.start: `_say_offline`, then `_flush_il`.
Leave(c) ==
    /\ pc' = [pc EXCEPT ![c] = "flush"]
    /\ Say(c, (IF offline'[c] THEN <<Pub("presence", "offline")>> ELSE <<>>) \o Flush(c))

\* Mutant: the presence counts as this producer's even so.
RefusedSaysOffline(c) ==
    /\ pc[c] = "probe" /\ Took(c, "alive") /\ Head(down[c]).value = nonce[c]
    /\ UNCHANGED offline
    /\ Leave(c) /\ Unasked(c)
    /\ subs' = [subs EXCEPT ![c] = {}]
    /\ UNCHANGED <<job, driving, found, link, presence, shown, ghosts, answering, purged, spent>>

\* The probe was answered: `AnotherProducer`, whose presence is left alone.
Refused(c) ==
    /\ pc[c] = "probe" /\ Took(c, "alive") /\ Head(down[c]).value = nonce[c]
    /\ offline' = [offline EXCEPT ![c] = FALSE]
    /\ Leave(c) /\ Unasked(c)
    /\ subs' = [subs EXCEPT ![c] = {}]
    /\ UNCHANGED <<job, driving, found, link, presence, shown, ghosts, answering, purged, spent>>

\* Mutant: an `offline` goes unanswered.
AnswerOfflineNever(c) ==
    /\ pc[c] = "run" /\ Took(c, "presence")
    /\ ~Head(down[c]).retained /\ Head(down[c]).value = "offline"
    /\ UNCHANGED <<clientVars, link, up, brokerVars, answering, purged, spent>>

\* `Runner._on_presence`: another producer's `offline`, or a late will of this
\* one, is answered.
AnswerOffline(c) ==
    /\ pc[c] = "run" /\ Took(c, "presence")
    /\ ~Head(down[c]).retained /\ Head(down[c]).value = "offline"
    /\ Say(c, <<Pub("presence", "online")>>)
    /\ UNCHANGED <<clientVars, link, brokerVars, answering, purged, spent>>

\* Mutant: a probe is answered for the producer itself.
AnswerProbeSelf(c) ==
    /\ pc[c] = "run" /\ Took(c, "probe")
    /\ Say(c, <<Pub("alive", c)>>)
    /\ UNCHANGED <<clientVars, link, brokerVars, answering, purged, spent>>

\* Mutant: another field of the message is sent back.
AnswerProbeField(c) ==
    /\ pc[c] = "run" /\ Took(c, "probe")
    /\ Say(c, <<Pub("alive", Head(down[c]).topic)>>)
    /\ UNCHANGED <<clientVars, link, brokerVars, answering, purged, spent>>

\* `Runner._on_probe`.
AnswerProbe(c) ==
    /\ pc[c] = "run" /\ Took(c, "probe")
    /\ Say(c, <<Pub("alive", Head(down[c]).value)>>)
    /\ UNCHANGED <<clientVars, link, brokerVars, answering, purged, spent>>

\* Nobody handles it: an old message, a producer's own, or one for an earlier step.
Heeded(c, m) ==
    \/ pc[c] = "listen" /\ m.topic = "presence" /\ m.retained
    \/ pc[c] = "probe" /\ m.topic = "alive" /\ m.value = nonce[c]
    \/ pc[c] = "run" /\ m.topic = "presence" /\ ~m.retained /\ m.value = "offline"
    \/ pc[c] = "run" /\ m.topic = "probe"
    \/ pc[c] = "flush" /\ m.topic = "flush"

Ignore(c) ==
    /\ down[c] # <<>> /\ ~Heeded(c, Head(down[c]))
    /\ down' = [down EXCEPT ![c] = Tail(@)]
    /\ UNCHANGED <<clientVars, link, up, brokerVars, answering, purged, spent>>

(***************************************************************************)
(* A service runs, and stops                                               *)
(***************************************************************************)
\* `Runner.start`, at the end of `Service.start`.
Run(c) ==
    /\ pc[c] = "read" /\ job[c] = "serve" /\ pc' = [pc EXCEPT ![c] = "run"]
    /\ Say(c, <<Sub("presence"), Sub("probe"), Pub("presence", "online")>>)
    /\ UNCHANGED <<job, offline, driving, nonce, found, link, down, brokerVars, answering, purged, spent>>

\* The bridge's registry came: the devices are published.
Describe(c) ==
    /\ pc[c] = "run" /\ ~driving[c] /\ driving' = [driving EXCEPT ![c] = TRUE]
    /\ Say(c, <<Pub("devices", "shown")>>)
    /\ UNCHANGED <<pc, job, offline, nonce, found, link, down, brokerVars, answering, purged, spent>>

Silent(c) == subs' = [subs EXCEPT ![c] = {}] /\ NoLongerAnswers(c)

\* `stop`; `restart`: with `offline=False`.
Stop(c, kind) ==
    /\ pc[c] = "run" /\ kind \in {"stop", "restart"} /\ Spend(kind)
    /\ offline' = [offline EXCEPT ![c] = (kind = "stop")]
    /\ Leave(c)
    /\ Silent(c)
    /\ UNCHANGED <<job, driving, nonce, found, link, down, presence, shown, ghosts, purged>>

\* `stop` for a successor with another prefix or source: `offline`, then
\* `purge_il` on the same connection.
Retire(c) ==
    /\ pc[c] = "run" /\ Spend("retire")
    /\ pc' = [pc EXCEPT ![c] = "listen"] /\ job' = [job EXCEPT ![c] = "retire"]
    /\ offline' = [offline EXCEPT ![c] = FALSE]
    /\ Say(c, <<Pub("presence", "offline"), Sub("presence")>>)
    /\ Silent(c) /\ purged' = IF Alone(c) THEN "alone" ELSE "no"
    /\ UNCHANGED <<driving, nonce, found, link, down, presence, shown, ghosts>>

\* A start is cancelled, or fails.
Fail(c) ==
    /\ pc[c] \in {"listen", "probe", "read"} /\ job[c] = "serve" /\ Spend("fail")
    /\ UNCHANGED offline
    /\ Leave(c) /\ Unasked(c)
    /\ subs' = [subs EXCEPT ![c] = {}]
    /\ UNCHANGED <<job, driving, found, link, down, presence, shown, ghosts, answering, purged>>

(***************************************************************************)
(* `purge_il` after the check                                              *)
(***************************************************************************)
\* Silence is taken for an empty broker: a connection that is down replays
\* nothing, and one that is up may be too slow.
Unread(c) ==
    /\ \/ link[c] = "down" /\ UNCHANGED spent
       \/ Spend("silent")
    /\ found' = [found EXCEPT ![c] = FALSE]
    /\ purged' = IF purged = "alone" THEN "blind" ELSE purged

\* What is retained is read.  Half a second without a message ends that, also
\* where the broker is only slow to replay it.
Read(c) ==
    /\ pc[c] = "read" /\ job[c] # "serve" /\ pc' = [pc EXCEPT ![c] = "clear"]
    /\ \/ /\ link[c] = "up" /\ up[c] = <<>> /\ found' = [found EXCEPT ![c] = shown]
          /\ UNCHANGED <<purged, spent>>
       \/ Unread(c)
    /\ UNCHANGED <<job, offline, driving, nonce, link, up, down, brokerVars, answering>>

\* Mutant: what was read is not cleared.
ClearPresenceOnly(c) ==
    /\ pc[c] = "clear" /\ pc' = [pc EXCEPT ![c] = "flush"]
    /\ Say(c, <<Pub("presence", NONE)>> \o Flush(c))
    /\ UNCHANGED <<job, offline, driving, nonce, found, link, down, brokerVars, answering, purged, spent>>

\* It is cleared, and the presence with it.
Clear(c) ==
    /\ pc[c] = "clear" /\ pc' = [pc EXCEPT ![c] = "flush"]
    /\ Say(c, (IF found[c] THEN <<Pub("devices", NONE)>> ELSE <<>>)
              \o <<Pub("presence", NONE)>> \o Flush(c))
    /\ UNCHANGED <<job, offline, driving, nonce, found, link, down, brokerVars, answering, purged, spent>>

(***************************************************************************)
(* The end of a connection                                                 *)
(***************************************************************************)
Gone(c) ==
    /\ pc' = [pc EXCEPT ![c] = "off"] /\ link' = [link EXCEPT ![c] = "none"]
    /\ up' = [up EXCEPT ![c] = <<>>] /\ down' = [down EXCEPT ![c] = <<>>]
    /\ driving' = [driving EXCEPT ![c] = FALSE] /\ found' = [found EXCEPT ![c] = FALSE]
    /\ Silent(c) /\ Unasked(c)
    /\ UNCHANGED <<job, offline, presence, shown>>

\* Mutant: the flush is waited for without a timeout.
ClosedByEcho(c) ==
    /\ pc[c] = "flush"
    /\ down[c] # <<>> /\ Head(down[c]).topic = "flush"
    /\ Gone(c)
    /\ UNCHANGED <<ghosts, purged, spent>>

\* The flush came back, or the broker did not answer in time (or was slow to):
\* a clean close, which takes what is still queued and the will along.
Closed(c) ==
    /\ pc[c] = "flush"
    /\ \/ down[c] # <<>> /\ Head(down[c]).topic = "flush" /\ UNCHANGED <<purged, spent>>
       \/ link[c] = "down" /\ purged' = "no" /\ UNCHANGED spent
       \/ ~UnderWay({"flush"}, c) /\ purged' = "no" /\ UNCHANGED spent
       \/ Spend("late") /\ purged' = "no"
    /\ Gone(c)
    /\ UNCHANGED ghosts

HasWill(c) == link[c] = "up" /\ job[c] # "purge"

Crash(c) ==
    /\ pc[c] # "off" /\ Spend("crash")
    /\ Gone(c)
    /\ ghosts' = ghosts + (IF HasWill(c) THEN 1 ELSE 0)
    /\ purged' = "no"

\* The connection is lost, and what the broker had for the client with it.
Drop(c) ==
    /\ link[c] = "up" /\ Spend("drop")
    /\ link' = [link EXCEPT ![c] = "down"] /\ down' = [down EXCEPT ![c] = <<>>]
    /\ subs' = [subs EXCEPT ![c] = {}]
    /\ answering' = [e \in Client |-> IF e = c THEN {} ELSE answering[e] \ {c}]
    /\ ghosts' = ghosts + (IF HasWill(c) THEN 1 ELSE 0)
    /\ UNCHANGED <<clientVars, up, presence, shown, purged>>

\* What a client listens to at each step, and subscribes again.
Listens(c) ==
    CASE pc[c] = "listen" -> <<Sub("presence")>>
      [] pc[c] = "probe"  -> <<Sub("alive")>>
      [] pc[c] = "run"    -> <<Sub("presence"), Sub("probe")>>
      [] pc[c] = "flush"  -> <<Sub("flush")>>
      [] OTHER            -> <<>>

\* What is queued to be published, in its order; to subscribe is not queued.
Queued(q) ==
    LET pubs == {i \in DOMAIN q : q[i].op = "pub"}
        Nth(k) == CHOOSE i \in pubs : Cardinality({j \in pubs : j <= i}) = k
    IN  [k \in 1..Cardinality(pubs) |-> q[Nth(k)]]

\* paho reconnects: the subscriptions, what was queued, and of a Runner the
\* presence and its devices again (`_reconnected`).
Reconnect(c) ==
    /\ link[c] = "down" /\ link' = [link EXCEPT ![c] = "up"]
    /\ up' = [up EXCEPT ![c] =
         Listens(c) \o Queued(@)
         \o (IF pc[c] = "run" THEN <<Pub("presence", "online")>> ELSE <<>>)
         \o (IF pc[c] = "run" /\ driving[c] THEN <<Pub("devices", "shown")>> ELSE <<>>)]
    /\ UNCHANGED <<clientVars, down, brokerVars, answering, purged, spent>>

(***************************************************************************)
(* The broker (external)                                                   *)
(***************************************************************************)
\* An answer and a flush are for the one that waits for them.
Deliver(topic, value) ==
    down' = [e \in Client |->
        IF topic \in subs[e] /\ (topic = "alive" => value = nonce[e])
                             /\ (topic = "flush" => value = e)
        THEN Append(down[e], [topic |-> topic, value |-> value, retained |-> FALSE])
        ELSE down[e]]

\* A check begins to count on the answers of those that run now.
Subscribed(c, topic) ==
    /\ subs' = [subs EXCEPT ![c] = @ \cup {topic}]
    /\ down' = IF topic = "presence" /\ presence # NONE
               THEN [down EXCEPT ![c] = Append(@, [topic |-> topic, value |-> presence, retained |-> TRUE])]
               ELSE down
    /\ answering' = IF topic = "presence" /\ pc[c] = "listen" /\ presence = "online"
                    THEN [answering EXCEPT ![c] = {e \in Client : pc[e] = "run" /\ "probe" \in subs[e]}]
                    ELSE answering
    /\ UNCHANGED <<presence, shown>>

\* The broker takes a client's next message.
Broker(c) ==
    /\ link[c] = "up" /\ up[c] # <<>> /\ up' = [up EXCEPT ![c] = Tail(@)]
    /\ LET m == Head(up[c]) IN
       \/ m.op = "sub" /\ Subscribed(c, m.topic)
       \/ /\ m.op = "pub"
          /\ presence' = IF m.topic = "presence" THEN m.value ELSE presence
          /\ shown' = IF m.topic = "devices" THEN m.value # NONE ELSE shown
          /\ Deliver(m.topic, m.value)
          /\ UNCHANGED <<subs, answering>>
    /\ UNCHANGED <<clientVars, link, ghosts, purged, spent>>

\* The will of a session that died.
Will ==
    /\ ghosts > 0 /\ ghosts' = ghosts - 1
    /\ presence' = "offline" /\ Deliver("presence", "offline")
    /\ UNCHANGED <<clientVars, link, up, subs, shown, answering, purged, spent>>

(***************************************************************************)
(* The specification                                                       *)
(***************************************************************************)
Receive(c) ==
    Heard(c) \/ Refused(c) \/ AnswerOffline(c) \/ AnswerProbe(c) \/ Ignore(c)

\* What goes on by itself.
Proceed(c) ==
    \/ Unheard(c) \/ Unanswered(c) \/ Receive(c)
    \/ Run(c) \/ Describe(c) \/ Read(c) \/ Clear(c) \/ Closed(c)

\* What is asked of a client, or happens to it.
Ordered(c) ==
    \/ Begin(c, "serve", "start") \/ Begin(c, "purge", "purge")
    \/ Stop(c, "stop") \/ Stop(c, "restart") \/ Retire(c) \/ Fail(c)
    \/ Crash(c) \/ Drop(c)

Next ==
    \/ Will
    \/ \E c \in Client : Proceed(c) \/ Ordered(c) \/ Broker(c) \/ Reconnect(c)

Spec == Init /\ [][Next]_vars

\* Timeouts run out, the event loop runs what is ready, paho reconnects, and
\* the broker takes and delivers what it is sent, wills included.
Fairness ==
    /\ WF_vars(Will)
    /\ \A c \in Client : WF_vars(Proceed(c)) /\ WF_vars(Broker(c)) /\ WF_vars(Reconnect(c))

FairSpec == Spec /\ Fairness

(***************************************************************************)
(* Properties                                                              *)
(***************************************************************************)
\* A check that reads an `online` finds the producer behind it, if that runs
\* and stays connected meanwhile and its answer is not slower than the check
\* waits: neither a start nor a purge goes past it (producer_running).  (A move
\* to another source checks on a connection that may still bring an older
\* presence.)
CheckFinds ==
    [][\A c \in Client :
         spent'["slow"] = 0 /\ job[c] # "retire" /\ pc[c] \in {"listen", "probe"} /\ pc'[c] = "read"
            => answering[c] = {}]_vars

\* While services only start, restart and are refused, a presence that is
\* `online` stays so (Service.stop with offline=False, AnotherProducer).
OnlyRestarts == \A k \in Kind \ {"start", "restart", "slow", "late"} : spent[k] = 0
NoGap == [][OnlyRestarts /\ presence = "online" => presence' = "online"]_vars

\* A purge, or a move to another source, that nothing else overlaps and that
\* went through, over whatever losses of its connection, takes the presence
\* away and leaves nothing of the producer but what it took silence for
\* (purge_il, _retained, _retire_topics).
PurgedIsGone ==
    purged # "no" /\ (\A c \in Client : pc[c] = "off")
        => presence # "online" /\ (shown => purged = "blind")

\* Nothing is under way, and no will is to come.
Quiet ==
    /\ ghosts = 0
    /\ \A c \in Client : /\ pc[c] = "off" \/ (pc[c] = "run" /\ link[c] = "up")
                         /\ up[c] = <<>> /\ down[c] = <<>>

\* Once all is said, the presence is `online` if a producer runs and nobody
\* purged or moved: the `offline` of another one, and the late will of a session that
\* was lost, are answered (Runner._on_presence, _reconnected).
RunningIsOnline ==
    Quiet /\ spent["purge"] = 0 /\ spent["retire"] = 0 /\ (\E c \in Client : pc[c] = "run") => presence = "online"

\* Once every producer has stopped or died, the presence does not say `online`,
\* unless a broker too slow for the flush never got the last word, or the last
\* stop was half of a restart, which says nothing
\* (_say_offline, _flush, the Last Will).
StoppedIsOffline ==
    Quiet /\ spent["late"] = 0 /\ spent["restart"] = 0 /\ (\A c \in Client : pc[c] = "off")
        => presence # "online"

\* What the broker keeps of the producers tells in the end what became of them.
PresenceTells == RunningIsOnline /\ StoppedIsOffline /\ PurgedIsGone

\* Every start, stop and purge comes to an end, whatever the broker answers.
Ends == \A c \in Client : pc[c] \notin {"off", "run"} ~> pc[c] \in {"off", "run"}
=============================================================================
