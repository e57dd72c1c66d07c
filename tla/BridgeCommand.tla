--------------------------- MODULE BridgeCommand ---------------------------
(***************************************************************************)
(* What BridgeClient keeps per device and per command, over one FIFO of    *)
(* messages from the bridge: the commands of the panel, each waiting for   *)
(* its acknowledgement under (action, id) alone; and what was heard of a   *)
(* device (`_last_conn`, `_last_state`), kept to seed its driver, and      *)
(* forgotten with the stay of the device on the bridge that it was about.  *)
(*                                                                         *)
(* The status request is two pages here, of whatever part of the list;     *)
(* BridgeRegistry has its offsets, timers and foreign pages.  A device's   *)
(* stay on the bridge begins with an `add` of an unknown id.  The broker   *)
(* queues what is published while the connection is down.                  *)
(***************************************************************************)
EXTENDS Integers, Sequences, FiniteSets, SequencesExt

CONSTANTS
    Device, Linked,     \* device ids; those with a link of their own (no sub-devices)
    Caller,             \* coroutines in publish_command
    Records,            \* the ids of the device file
    Budgets,            \* a set of bounds on what the environment does, by kind
    NONE

Action == {"add", "remove"}
Key == Action \X Device
Kind == {"ask", "foreign", "error", "expire", "twice", "loss", "link", "state", "config", "stop"}

News == [up : BOOLEAN, stay : Nat]
Result == [ok : BOOLEAN, of : Nat]

ASSUME CommandAssumption ==
    /\ IsFiniteSet(Device) /\ Linked \subseteq Device /\ Records \subseteq Device
    /\ Budgets \subseteq [Kind -> Nat]
    /\ NONE \notin Caller \cup Nat \cup Key \cup News \cup Result

VARIABLES
    stay, link, stated,             \* the bridge: 0 or the stay's number; what it retains of it
    stays, kept,                    \* stays begun so far; the reply the broker retains
    connected, requests, inbound,
    running, registered, driven,    \* the client
    lastConn, lastState,            \* _last_conn; _last_state by the stays its values are of
    told,                           \* the link each driver was told last
    over, passed,                   \* history: the stays heard of that were over for the client;
                                    \* the devices that a snapshot left out though they were there
    cycle,                          \* the open status request
    call, key, mine, waiters, answer,   \* the callers, and _command_waiters
    heard, reached, doubtful,       \* history: see Replayed, AnswerReaches, OwnAnswer
    spent

bridge == <<stay, link, stated, stays, kept>>
view == <<registered, driven, lastConn, lastState, told, over, passed>>
callers == <<call, key, mine, waiters, answer>>
vars == <<bridge, connected, requests, inbound, running, view, cycle, callers, heard, reached,
          doubtful, spent>>

Closed == [at |-> "none", again |-> FALSE, listed |-> {}, total |-> 0]

TypeOK ==
    /\ stay \in [Device -> Nat] /\ stays \in Nat /\ stated \in [Device -> BOOLEAN]
    /\ link \in [Device -> {"none", "up", "down"}]
    /\ connected \in BOOLEAN /\ running \in BOOLEAN
    /\ driven \subseteq Device /\ (registered = NONE \/ registered \subseteq Device)
    /\ lastConn \in [Device -> News \cup {NONE}] /\ told \in [Device -> News \cup {NONE}]
    /\ lastState \in [Device -> SUBSET Nat] /\ over \in [Device -> SUBSET Nat]
    /\ cycle \in [at : {"none", "first", "second"}, again : BOOLEAN, listed : SUBSET Device, total : Nat]
    /\ passed \subseteq Device
    /\ call \in [Caller -> {"idle", "publish", "wait"}] /\ key \in [Caller -> Key \cup {NONE}]
    /\ mine \in [Caller -> Nat] /\ waiters \in [Key -> Caller \cup {NONE}]
    /\ answer \in [Caller -> Result \cup {NONE}]
    /\ heard \in [Device -> News \cup {NONE}] /\ reached \subseteq Caller /\ doubtful \subseteq Key
    /\ spent \in [Kind -> Nat]

Init ==
    /\ stay \in [Device -> {0, 1}] /\ stays = 1 /\ kept = NONE
    /\ link = [d \in Device |-> "none"] /\ stated = [d \in Device |-> FALSE]
    /\ connected = TRUE /\ requests = <<[type |-> "status", part |-> NONE]>> /\ inbound = <<>>
    /\ running = TRUE /\ registered = NONE /\ driven = {}
    /\ lastConn = [d \in Device |-> NONE] /\ lastState = [d \in Device |-> {}]
    /\ told = [d \in Device |-> NONE] /\ over = [d \in Device |-> {}] /\ passed = {}
    /\ cycle = [Closed EXCEPT !.at = "first"]
    /\ call = [c \in Caller |-> "idle"] /\ key = [c \in Caller |-> NONE] /\ mine = [c \in Caller |-> 0]
    /\ waiters = [k \in Key |-> NONE] /\ answer = [c \in Caller |-> NONE]
    /\ heard = [d \in Device |-> NONE] /\ reached = {} /\ doubtful = {}
    /\ spent = [k \in Kind |-> 0]

Spend(kind) ==
    /\ spent' = [spent EXCEPT ![kind] = @ + 1]
    /\ \E b \in Budgets : \A k \in Kind : spent'[k] <= b[k]

Heard(msg) == IF connected /\ running THEN Append(inbound, msg) ELSE inbound

(***************************************************************************)
(* publish_command                                                         *)
(***************************************************************************)
\* A command is numbered by how many there were.  One that is pending for the
\* same action and id refuses the next.
Command(c) ==
    /\ call[c] = "idle" /\ Spend("ask")
    /\ \E k \in Key :
         /\ waiters[k] = NONE /\ waiters' = [waiters EXCEPT ![k] = c]
         /\ call' = [call EXCEPT ![c] = "publish"] /\ key' = [key EXCEPT ![c] = k]
         /\ mine' = [mine EXCEPT ![c] = spent'["ask"]]
    /\ UNCHANGED <<bridge, connected, requests, inbound, running, view, cycle, answer, heard, reached,
                   doubtful>>

Publish(c) ==
    /\ call[c] = "publish" /\ running /\ call' = [call EXCEPT ![c] = "wait"]
    /\ requests' = Append(requests, [type |-> "command", key |-> key[c], of |-> mine[c]])
    /\ UNCHANGED <<bridge, connected, inbound, running, view, cycle, key, mine, waiters, answer, heard,
                   reached, doubtful, spent>>

\* Mutant: the key stays pending.
LeaveKeeps(c) ==
    /\ call' = [call EXCEPT ![c] = "idle"] /\ answer' = [answer EXCEPT ![c] = NONE]
    /\ key' = [key EXCEPT ![c] = NONE] /\ mine' = [mine EXCEPT ![c] = 0] /\ reached' = reached \ {c}
    /\ UNCHANGED waiters

Leave(c) ==
    /\ call' = [call EXCEPT ![c] = "idle"] /\ answer' = [answer EXCEPT ![c] = NONE]
    /\ key' = [key EXCEPT ![c] = NONE] /\ mine' = [mine EXCEPT ![c] = 0] /\ reached' = reached \ {c}
    /\ waiters' = [waiters EXCEPT ![key[c]] = NONE]

Answered(c) ==
    /\ call[c] = "wait" /\ answer[c] # NONE /\ Leave(c)
    /\ UNCHANGED <<bridge, connected, requests, inbound, running, view, cycle, heard, doubtful, spent>>

\* The time is up, or the transport it would publish on is closed.
Expire(c) ==
    /\ call[c] # "idle" /\ Leave(c) /\ doubtful' = doubtful \cup {key[c]}
    /\ IF running THEN Spend("expire") ELSE UNCHANGED spent
    /\ UNCHANGED <<bridge, connected, requests, inbound, running, view, cycle, heard>>

(***************************************************************************)
(* The bridge                                                              *)
(***************************************************************************)
Ack(k, of, ok) == [type |-> "ack", key |-> k, of |-> of, ok |-> ok, retained |-> FALSE]
Held == {d \in Device : stay[d] > 0}

\* A command is taken and replied to.  An `add` of a known id updates it; a
\* removal clears what was retained of the device.
Take(k, of) ==
    LET d == k[2]  new == k[1] = "add" /\ stay[d] = 0  gone == k[1] = "remove" IN
    /\ stay' = [stay EXCEPT ![d] = IF gone THEN 0 ELSE IF new THEN stays + 1 ELSE @]
    /\ stays' = IF new THEN stays + 1 ELSE stays
    /\ link' = IF gone THEN [link EXCEPT ![d] = "none"] ELSE link
    /\ stated' = IF gone THEN [stated EXCEPT ![d] = FALSE] ELSE stated
    /\ kept' = Ack(k, of, TRUE)

Refuse(k, of) == kept' = Ack(k, of, FALSE) /\ UNCHANGED <<stay, stays, link, stated>>

TakeCommand ==
    /\ connected /\ requests # <<>> /\ Head(requests).type = "command" /\ requests' = Tail(requests)
    /\ LET r == Head(requests) IN
       \/ Take(r.key, r.of) /\ UNCHANGED spent
       \/ Refuse(r.key, r.of) /\ Spend("error")
    /\ inbound' = Heard(kept')
    /\ UNCHANGED <<connected, running, view, cycle, callers, heard, reached, doubtful>>

\* Delivered twice: the broker had not heard that it arrived.
TakeTwice ==
    /\ connected /\ requests # <<>> /\ Head(requests).type = "command" /\ Spend("twice")
    /\ requests' = <<Head(requests)>> \o requests /\ doubtful' = doubtful \cup {Head(requests).key}
    /\ UNCHANGED <<bridge, connected, inbound, running, view, cycle, callers, heard, reached>>

\* Another client's command, over its own connection.
Foreign ==
    /\ Spend("foreign") /\ \E k \in Key :
         Take(k, 0) /\ inbound' = Heard(kept') /\ doubtful' = doubtful \cup {k}
    /\ UNCHANGED <<connected, requests, running, view, cycle, callers, heard, reached>>

\* A page: some part of the list first, what that leaves out second.  `held` is
\* history, and not in the message.
Page(ids, more, part) ==
    [type |-> "page", ids |-> ids, total |-> Cardinality(Held), more |-> more, part |-> part, held |-> Held]

TakeStatus ==
    /\ connected /\ requests # <<>> /\ Head(requests).type = "status" /\ requests' = Tail(requests)
    /\ IF Head(requests).part = NONE
         THEN \E part \in SUBSET Device :
                /\ Held # {} => part \cap Held # {}
                /\ inbound' = Heard(Page(Held \cap part, Held \ part # {}, part))
         ELSE inbound' = Heard(Page(Held \ Head(requests).part, FALSE, {}))
    /\ UNCHANGED <<bridge, connected, running, view, cycle, callers, heard, reached, doubtful, spent>>

LinkMsg(d, up, retained) == [type |-> "link", id |-> d, up |-> up, stay |-> stay[d], retained |-> retained]
StateMsg(d, retained) == [type |-> "state", id |-> d, stay |-> stay[d], retained |-> retained]

LinkChanges(d) ==
    /\ d \in Linked \cap Held /\ Spend("link")
    /\ \E up \in BOOLEAN :
         /\ link' = [link EXCEPT ![d] = IF up THEN "up" ELSE "down"] /\ link' # link
         /\ inbound' = Heard(LinkMsg(d, up, FALSE))
    /\ UNCHANGED <<stay, stated, stays, kept, connected, requests, running, view, cycle, callers, heard,
                   reached, doubtful>>

\* Values come over the link, where there is one.
StateChanges(d) ==
    /\ d \in Held /\ (d \in Linked => link[d] = "up") /\ ~stated[d] /\ Spend("state")
    /\ stated' = [stated EXCEPT ![d] = TRUE] /\ inbound' = Heard(StateMsg(d, FALSE))
    /\ UNCHANGED <<stay, link, stays, kept, connected, requests, running, view, cycle, callers, heard,
                   reached, doubtful>>

Config == [type |-> "config"]
ConfigChanges ==
    /\ connected /\ Spend("config") /\ inbound' = Heard(Config)
    /\ UNCHANGED <<bridge, connected, requests, running, view, cycle, callers, heard, reached, doubtful>>

(***************************************************************************)
(* The connection                                                          *)
(***************************************************************************)
Lose ==
    /\ connected /\ running /\ Spend("loss") /\ connected' = FALSE
    /\ UNCHANGED <<bridge, requests, inbound, running, view, cycle, callers, heard, reached, doubtful>>

\* Subscribed again: everything retained comes again.
Retained ==
    LET links == {LinkMsg(d, link[d] = "up", TRUE) : d \in {e \in Held : link[e] # "none"}}
        states == {StateMsg(d, TRUE) : d \in {e \in Held : stated[e]}} IN
    SetToSeq(links) \o SetToSeq(states) \o
        (IF kept = NONE THEN <<>> ELSE <<[kept EXCEPT !.retained = TRUE]>>) \o <<Config>>

Reconnect ==
    /\ ~connected /\ connected' = TRUE
    /\ inbound' = IF running THEN inbound \o Retained ELSE inbound
    /\ UNCHANGED <<bridge, requests, running, view, cycle, callers, heard, reached, doubtful, spent>>

(***************************************************************************)
(* _on_event, _on_reply, _on_ack, _on_status_page                          *)
(***************************************************************************)
Dispatch(type) == running /\ inbound # <<>> /\ Head(inbound).type = type /\ inbound' = Tail(inbound)

NewsOf(m) == [up |-> m.up, stay |-> m.stay]

OnLink ==
    /\ Dispatch("link")
    /\ LET m == Head(inbound)  news == NewsOf(m) IN
       /\ lastConn' = [lastConn EXCEPT ![m.id] = news] /\ heard' = [heard EXCEPT ![m.id] = news]
       /\ told' = IF m.id \in driven THEN [told EXCEPT ![m.id] = news] ELSE told
    /\ UNCHANGED <<bridge, connected, requests, running, registered, driven, lastState, over, passed, cycle,
                   callers, reached, doubtful, spent>>

\* Merged with what was heard before.
OnState ==
    /\ Dispatch("state")
    /\ LET m == Head(inbound) IN lastState' = [lastState EXCEPT ![m.id] = @ \cup {m.stay}]
    /\ UNCHANGED <<bridge, connected, requests, running, registered, driven, lastConn, told, over, passed, cycle,
                   callers, heard, reached, doubtful, spent>>

\* Mutant: what was heard of a device outlives its stay.
ReconcileKeeps(now, forgotten) ==
    /\ registered' = now /\ driven' = Records \cap now /\ UNCHANGED <<lastConn, lastState>>
    /\ told' = [d \in Device |-> IF d \notin driven' THEN NONE ELSE IF d \in driven THEN told[d] ELSE lastConn[d]]

\* For these devices a stay is over: by a removal, or by a snapshot without them.
Over(devices) ==
    over' = [d \in Device |-> IF d \notin devices THEN over[d]
                ELSE over[d] \cup lastState[d] \cup (IF heard[d] = NONE THEN {} ELSE {heard[d].stay})]

\* _reconcile, with the devices of `forgotten` forgotten first.
Reconcile(now, forgotten) ==
    /\ registered' = now /\ driven' = Records \cap now
    /\ lastConn' = [d \in Device |-> IF d \in forgotten THEN NONE ELSE lastConn[d]]
    /\ lastState' = [d \in Device |-> IF d \in forgotten THEN {} ELSE lastState[d]]
    /\ told' = [d \in Device |-> IF d \notin driven' THEN NONE ELSE IF d \in driven THEN told[d] ELSE lastConn'[d]]

Waiter(m) == waiters[m.key]
\* Mutant: a reply replayed by the broker is taken for an answer.
ResolvesReplayed(m) == Waiter(m) # NONE /\ answer[Waiter(m)] = NONE

Resolves(m) == ~m.retained /\ Waiter(m) # NONE /\ answer[Waiter(m)] = NONE

OnAck ==
    /\ Dispatch("ack")
    /\ LET m == Head(inbound)  d == m.key[2] IN
       /\ answer' = IF Resolves(m) THEN [answer EXCEPT ![Waiter(m)] = [ok |-> m.ok, of |-> m.of]] ELSE answer
       /\ reached' = IF m.retained THEN reached
                     ELSE reached \cup {c \in Caller : call[c] # "idle" /\ mine[c] = m.of}
       /\ IF m.retained \/ ~m.ok \/ registered = NONE
            THEN UNCHANGED view
            ELSE /\ UNCHANGED passed
                 /\ IF m.key[1] = "add" THEN Reconcile(registered \cup {d}, {}) /\ Over({})
                                        ELSE Reconcile(registered \ {d}, {d}) /\ Over({d})
    /\ UNCHANGED <<bridge, connected, requests, running, cycle, call, key, mine, waiters, heard, doubtful,
                   spent>>

AskStatus(part) == requests' = Append(requests, [type |-> "status", part |-> part])

OnConfig ==
    /\ Dispatch("config")
    /\ IF cycle.at # "none" THEN cycle' = [cycle EXCEPT !.again = TRUE] /\ UNCHANGED requests
                            ELSE cycle' = [Closed EXCEPT !.at = "first"] /\ AskStatus(NONE)
    /\ UNCHANGED <<bridge, connected, running, view, callers, heard, reached, doubtful, spent>>

\* A page that does not add up with the one before is ignored.
Fits(m) ==
    /\ cycle.at = "second" => m.total = cycle.total /\ cycle.listed \cap m.ids = {}
    /\ m.more <=> Cardinality(cycle.listed \cup m.ids) < m.total
    /\ cycle.at # "none" /\ (m.part # {} => cycle.at = "first")

OnPage ==
    /\ Dispatch("page")
    /\ LET m == Head(inbound)  all == cycle.listed \cup m.ids IN
       IF ~Fits(m) THEN UNCHANGED <<view, cycle, requests>>
       ELSE IF m.more
       THEN /\ cycle' = [cycle EXCEPT !.at = "second", !.listed = all, !.total = m.total]
            /\ AskStatus(m.part) /\ UNCHANGED view
       ELSE /\ Reconcile(all, {d \in Device \ all : lastConn[d] # NONE})
            /\ Over(Device \ (all \cup m.held)) /\ passed' = passed \cup (m.held \ all)
            /\ IF cycle.again THEN cycle' = [Closed EXCEPT !.at = "first"] /\ AskStatus(NONE)
                              ELSE cycle' = Closed /\ UNCHANGED requests
    /\ UNCHANGED <<bridge, connected, running, callers, heard, reached, doubtful, spent>>

\* The timer, once nothing of the request is under way any more.
Retry ==
    /\ running /\ cycle.at # "none"
    /\ \A i \in DOMAIN requests : requests[i].type # "status"
    /\ \A i \in DOMAIN inbound : inbound[i].type # "page"
    /\ cycle' = [Closed EXCEPT !.at = "first"] /\ AskStatus(NONE)
    /\ UNCHANGED <<bridge, connected, inbound, running, view, callers, heard, reached, doubtful, spent>>

Stop ==
    /\ running /\ Spend("stop") /\ running' = FALSE /\ inbound' = <<>> /\ cycle' = Closed
    /\ answer' = [c \in Caller |-> IF call[c] # "idle" /\ answer[c] = NONE
                                     THEN [ok |-> FALSE, of |-> mine[c]] ELSE answer[c]]
    /\ UNCHANGED <<bridge, connected, requests, view, call, key, mine, waiters, heard, reached, doubtful>>

Client == OnLink \/ OnState \/ OnAck \/ OnConfig \/ OnPage \/ Retry \/ Stop
Bridge == TakeCommand \/ TakeTwice \/ Foreign \/ TakeStatus \/ ConfigChanges \/ Lose \/ Reconnect
          \/ \E d \in Device : LinkChanges(d) \/ StateChanges(d)

Next == Client \/ Bridge \/ \E c \in Caller : Command(c) \/ Publish(c) \/ Answered(c) \/ Expire(c)

Spec == Init /\ [][Next]_vars

(***************************************************************************)
(* What the client promises                                                *)
(***************************************************************************)
\* The table of waiters is exactly the callers that wait: one that gave up, was
\* refused or stopped never leaves a key pending (bridge_client.py:247).
WaitersAreCallers ==
    \A k \in Key, c \in Caller : waiters[k] = c <=> call[c] # "idle" /\ key[c] = k
IInv == TypeOK /\ WaitersAreCallers

\* The answer a caller gets is the one to its own command, and never an old one
\* replayed by the broker.  The bridge has no request ids: left out are a key
\* whose earlier command was given up on or delivered twice, and another client's.
OwnAnswer ==
    \A c \in Caller : (answer[c] # NONE /\ running) => answer[c].of = mine[c] \/ key[c] \in doubtful

\* Once the answer to its command was heard, a caller has it, however early it
\* came.
AnswerReaches == \A c \in reached : answer[c] # NONE

\* The answer to a command gets to its caller, whole and alone.
Answers == OwnAnswer /\ AnswerReaches

\* "the latest thing heard per device, replayed when a device becomes driven
\* after it was already heard" (bridge_client.py:185): of the stay the device
\* is in, the driver knows the link that was heard last.  Left out are devices
\* that came into a page that had been read as another one left it: the snapshot
\* is without them, and what was heard of them is forgotten (:463).
Replayed ==
    \A d \in driven \ passed : (heard[d] # NONE /\ heard[d].stay = stay[d]) => told[d] = heard[d]

\* A driver never knows anything of a stay of its device that the client has
\* learnt is over.  Left out are sub-devices, which a snapshot does not forget
\* as they have no link (bridge_client.py:463); a removal acknowledged before
\* the first snapshot is ignored, and teaches nothing (:396).
SeedsFresh ==
    \A d \in (driven \cap Linked) \ passed :
        (told[d] = NONE \/ told[d].stay \notin over[d]) /\ lastState[d] \cap over[d] = {}

\* A driver starts from what was heard of the present stay of its device, all
\* of it and nothing else.
Seeds == Replayed /\ SeedsFresh
=============================================================================
