---------------------------- MODULE MqttTransport ----------------------------
(***************************************************************************)
(* The transport over paho: its thread, which keeps the connection and     *)
(* hands everything to the event loop with `call_soon_threadsafe`; the     *)
(* subscriptions that are remembered and made again; and `close`, from a   *)
(* task, from a connect that fails, or from inside a handler that close    *)
(* itself would cancel and wait for.                                       *)
(*                                                                         *)
(* paho and the broker are external: a session begins without              *)
(* subscriptions, and what is sent while there is none is gone.  A task    *)
(* that waits in `close` is cancelled at most once here.                   *)
(***************************************************************************)
EXTENDS Integers, Sequences, FiniteSets, SequencesExt

CONSTANTS
    Topic,
    Caller, Opener,     \* tasks that may close it, and the one that connects it
    Handler,            \* tasks that handle messages
    Budgets,            \* a set of bounds on what happens, by kind
    NONE

Kind == {"sub", "unsub", "msg", "drop", "close", "cancel"}

ASSUME TransportAssumption ==
    /\ Budgets \subseteq [Kind -> Nat] /\ Opener \in Caller
    /\ NONE \notin Caller \cup Handler /\ Caller \cap Handler = {}
    /\ {"connected", "disconnected"} \cap Topic = {}

VARIABLES
    up, wire,           \* paho has a session; what the broker has of its subscriptions
    paho, index, found, \* the thread: in _on_connect, at which entry, and what it found
    queue,              \* what it scheduled on the loop
    connected, subs,    \* _connected; the topics of _subs
    closeAt, closer,    \* _close_task, and who began it
    doomed,             \* the handlers it cancelled and waits for
    handler, pc,        \* _tasks; the tasks in connect or close
    gap,                \* history: see Remembered
    spent

session == <<up, wire, paho, index, found>>
closing == <<closeAt, closer, doomed>>
vars == <<session, queue, connected, subs, closing, handler, pc, gap, spent>>

TypeOK ==
    /\ up \in BOOLEAN /\ wire \subseteq Topic /\ (~up => wire = {})
    /\ paho \in {"idle", "connect"} /\ index \in Nat /\ found \subseteq Topic
    /\ queue \in Seq({"connected", "disconnected"} \cup Topic)
    /\ connected \in BOOLEAN /\ subs \in Seq(Topic)
    /\ closeAt \in {"open", "disconnect", "cancel", "wait", "done"}
    /\ closer \in Caller \cup Handler \cup {NONE} /\ (closer = NONE) = (closeAt = "open")
    /\ doomed \subseteq Handler
    /\ handler \in [Handler -> {"idle", "run", "cancelled", "close"}]
    /\ pc \in [Caller -> {"idle", "connect", "close", "cancelled", "returned"}]
    /\ gap \subseteq Topic /\ spent \in [Kind -> Nat]

\* connect() has started the thread, and waits.
Init ==
    /\ up = FALSE /\ wire = {} /\ paho = "idle" /\ index = 1 /\ found = {} /\ queue = <<>>
    /\ connected = FALSE /\ subs = <<>>
    /\ closeAt = "open" /\ closer = NONE /\ doomed = {}
    /\ handler = [h \in Handler |-> "idle"]
    /\ pc = [c \in Caller |-> IF c = Opener THEN "connect" ELSE "idle"]
    /\ gap = {} /\ spent = [k \in Kind |-> 0]

Spend(kind) ==
    /\ spent' = [spent EXCEPT ![kind] = @ + 1]
    /\ \E b \in Budgets : \A k \in Kind : spent'[k] <= b[k]

(***************************************************************************)
(* paho's thread                                                           *)
(***************************************************************************)
Running == closeAt \in {"open", "disconnect"}

\* _on_connect does nothing for a transport that is closing.
Connect ==
    /\ ~up /\ Running /\ up' = TRUE /\ gap' = {}
    /\ paho' = IF closeAt = "open" THEN "connect" ELSE "idle"
    /\ index' = 1 /\ found' = {}
    /\ UNCHANGED <<wire, queue, connected, subs, closing, handler, pc, spent>>

\* It goes through the list while the loop may change it: an entry added is
\* found, one that moves up is missed.
Find ==
    /\ paho = "connect" /\ index <= Len(subs)
    /\ found' = found \cup {subs[index]} /\ index' = index + 1
    /\ UNCHANGED <<up, wire, paho, queue, connected, subs, closing, handler, pc, gap, spent>>

Resubscribe ==
    /\ paho = "connect" /\ index > Len(subs) /\ paho' = "idle"
    /\ wire' = wire \cup found /\ queue' = Append(queue, "connected")
    /\ UNCHANGED <<up, index, found, connected, subs, closing, handler, pc, gap, spent>>

Drop ==
    /\ up /\ paho = "idle" /\ Running /\ Spend("drop")
    /\ up' = FALSE /\ wire' = {} /\ queue' = Append(queue, "disconnected")
    /\ UNCHANGED <<paho, index, found, connected, subs, closing, handler, pc, gap>>

OnMessage(t) ==
    /\ t \in wire /\ paho = "idle" /\ Running /\ Spend("msg") /\ queue' = Append(queue, t)
    /\ UNCHANGED <<session, connected, subs, closing, handler, pc, gap>>

(***************************************************************************)
(* What it scheduled, on the loop                                          *)
(***************************************************************************)
Scheduled(what) == queue # <<>> /\ Head(queue) = what /\ queue' = Tail(queue)

ConnectedInLoop ==
    /\ Scheduled("connected") /\ connected' = (connected \/ closeAt = "open")
    /\ UNCHANGED <<session, subs, closing, handler, pc, gap, spent>>

DisconnectedInLoop ==
    /\ Scheduled("disconnected") /\ connected' = FALSE
    /\ UNCHANGED <<session, subs, closing, handler, pc, gap, spent>>

\* Some of the callbacks of a message go on as tasks.
Deliver(t) ==
    \E hs \in SUBSET {h \in Handler : handler[h] = "idle"} :
        /\ Cardinality(hs) <= Cardinality({i \in DOMAIN subs : subs[i] = t})
        /\ handler' = [h \in Handler |-> IF h \in hs THEN "run" ELSE handler[h]]

\* Mutant: what was scheduled before close began is still delivered.
DispatchAlways(t) ==
    /\ Scheduled(t) /\ Deliver(t)
    /\ UNCHANGED <<session, connected, subs, closing, pc, gap, spent>>

Dispatch(t) ==
    /\ Scheduled(t)
    /\ IF closeAt = "open" THEN Deliver(t) ELSE UNCHANGED handler
    /\ UNCHANGED <<session, connected, subs, closing, pc, gap, spent>>

(***************************************************************************)
(* subscribe and unsubscribe                                               *)
(***************************************************************************)
\* A host subscribes once it is connected, and again whenever it needs to.
Subscribe(t) ==
    /\ closeAt = "open" /\ pc[Opener] # "connect" /\ Spend("sub")
    /\ subs' = Append(subs, t)
    /\ wire' = IF connected /\ up THEN wire \cup {t} ELSE wire
    /\ gap' = IF ~connected /\ up /\ (paho = "idle" \/ Len(subs') < index) THEN gap \cup {t} ELSE gap
    /\ UNCHANGED <<up, paho, index, found, queue, connected, closing, handler, pc>>

\* Mutant: another subscription of the topic is not looked for.
LastUnsubscribed(t, left) == wire \ {t}

\* The topic goes with the last subscription of it.
Unsubscribed(t, left) == IF Contains(left, t) THEN wire ELSE wire \ {t}

Unsubscribe(i) ==
    /\ Spend("unsub") /\ subs' = RemoveAt(subs, i)
    /\ wire' = IF connected THEN Unsubscribed(subs[i], subs') ELSE wire
    /\ gap' = IF paho = "connect" /\ i < index /\ index <= Len(subs) THEN gap \cup {subs[index]} ELSE gap
    /\ UNCHANGED <<up, paho, index, found, queue, connected, closing, handler, pc>>

(***************************************************************************)
(* connect and close                                                       *)
(***************************************************************************)
\* Mutant: who began it is not passed on.
BeginCloseAnonymous(who) ==
    IF closeAt # "open" THEN UNCHANGED <<closeAt, closer, connected>>
    ELSE closeAt' = "disconnect" /\ connected' = FALSE /\ UNCHANGED closer

\* Whoever is first begins it, the others wait for the same task.
BeginClose(who) ==
    IF closeAt # "open" THEN UNCHANGED <<closeAt, closer, connected>>
    ELSE closeAt' = "disconnect" /\ closer' = who /\ connected' = FALSE

Opened ==
    /\ pc[Opener] = "connect" /\ connected /\ pc' = [pc EXCEPT ![Opener] = "idle"]
    /\ UNCHANGED <<session, queue, connected, subs, closing, handler, gap, spent>>

\* Timed out, or cancelled: no thread may be left.
ConnectFails ==
    /\ pc[Opener] = "connect" /\ ~connected /\ pc' = [pc EXCEPT ![Opener] = "close"]
    /\ BeginClose(Opener)
    /\ UNCHANGED <<session, queue, subs, doomed, handler, gap, spent>>

Close(c) ==
    /\ pc[c] = "idle" /\ Spend("close") /\ pc' = [pc EXCEPT ![c] = "close"] /\ BeginClose(c)
    /\ UNCHANGED <<session, queue, subs, doomed, handler, gap>>

\* Cancelled, it waits for the end all the same.
Cancelled(c) ==
    /\ pc[c] = "close" /\ Spend("cancel") /\ pc' = [pc EXCEPT ![c] = "cancelled"]
    /\ UNCHANGED <<session, queue, connected, subs, closing, handler, gap>>

Return(c) ==
    /\ pc[c] \in {"close", "cancelled"} /\ closeAt = "done" /\ pc' = [pc EXCEPT ![c] = "returned"]
    /\ UNCHANGED <<session, queue, connected, subs, closing, handler, gap, spent>>

\* In a thread of its own: disconnected, and paho's thread joined.
Disconnect ==
    /\ closeAt = "disconnect" /\ paho = "idle" /\ closeAt' = "cancel"
    /\ up' = FALSE /\ wire' = {} /\ queue' = IF up THEN Append(queue, "disconnected") ELSE queue
    /\ UNCHANGED <<paho, index, found, connected, subs, closer, doomed, handler, pc, gap, spent>>

\* Every handler but the one that closes.
CancelHandlers ==
    /\ closeAt = "cancel" /\ closeAt' = "wait"
    /\ doomed' = {h \in Handler : handler[h] # "idle"} \ {closer}
    /\ handler' = [h \in Handler |-> IF h \in doomed' THEN "cancelled" ELSE handler[h]]
    /\ UNCHANGED <<session, queue, connected, subs, closer, pc, gap, spent>>

CloseEnds ==
    /\ closeAt = "wait" /\ doomed = {} /\ closeAt' = "done" /\ subs' = <<>>
    /\ UNCHANGED <<session, queue, connected, closer, doomed, handler, pc, gap, spent>>

(***************************************************************************)
(* Handlers                                                                *)
(***************************************************************************)
\* Mutant: one that calls close while it is under way waits for it as well.
HandlerClosesToo(h) ==
    /\ handler[h] \in {"run", "cancelled"} /\ closeAt # "done" /\ Spend("close")
    /\ handler' = [handler EXCEPT ![h] = "close"] /\ BeginClose(h)
    /\ UNCHANGED <<session, queue, subs, doomed, pc, gap>>

\* One that calls close while it is under way goes on at once.
HandlerCloses(h) ==
    /\ handler[h] = "run" /\ closeAt = "open" /\ Spend("close")
    /\ handler' = [handler EXCEPT ![h] = "close"] /\ BeginClose(h)
    /\ UNCHANGED <<session, queue, subs, doomed, pc, gap>>

HandlerGoesOn(h) ==
    /\ handler[h] = "close" /\ closeAt = "done" /\ handler' = [handler EXCEPT ![h] = "run"]
    /\ UNCHANGED <<session, queue, connected, subs, closing, pc, gap, spent>>

HandlerEnds(h) ==
    /\ handler[h] \in {"run", "cancelled"} /\ handler' = [handler EXCEPT ![h] = "idle"]
    /\ doomed' = doomed \ {h}
    /\ UNCHANGED <<session, queue, connected, subs, closeAt, closer, pc, gap, spent>>

(***************************************************************************)
(* The specification                                                       *)
(***************************************************************************)
Thread == Find \/ Resubscribe
Loop == ConnectedInLoop \/ DisconnectedInLoop \/ \E t \in Topic : Dispatch(t)
Closing == Disconnect \/ CancelHandlers \/ CloseEnds

Next ==
    \/ Thread \/ Loop \/ Closing \/ Connect \/ Drop \/ Opened \/ ConnectFails
    \/ \E t \in Topic : OnMessage(t) \/ Subscribe(t)
    \/ \E i \in DOMAIN subs : Unsubscribe(i)
    \/ \E c \in Caller : Close(c) \/ Cancelled(c) \/ Return(c)
    \/ \E h \in Handler : HandlerCloses(h) \/ HandlerGoesOn(h) \/ HandlerEnds(h)

Spec == Init /\ [][Next]_vars

\* Threads and the loop go on; a connect has a timeout, and a handler that is
\* cancelled ends.
Fairness ==
    /\ WF_vars(Thread) /\ WF_vars(Loop) /\ WF_vars(Closing) /\ WF_vars(Opened \/ ConnectFails)
    /\ \A c \in Caller : WF_vars(Return(c))
    /\ \A h \in Handler : WF_vars(HandlerGoesOn(h)) /\ WF_vars(handler[h] = "cancelled" /\ HandlerEnds(h))

FairSpec == Spec /\ Fairness

(***************************************************************************)
(* What the transport promises                                             *)
(***************************************************************************)
\* Nothing of the connection is under way between the thread and the loop.
Told == paho = "idle" /\ \A i \in DOMAIN queue : queue[i] \in Topic

\* "Subscriptions are remembered and made again after a reconnect" (mqtt.py:23),
\* however the loop subscribes and unsubscribes while the thread does so.  Left
\* out: one made after the thread went through the list and before the loop
\* heard of the connection, and one the thread missed as another was removed.
Remembered == up /\ Told /\ closeAt = "open" => ToSet(subs) \subseteq wire \cup gap

\* What the loop is told of the connection is true in the end, across drops,
\* reconnects and a close that crosses them.
Truthful == Told => connected = (up /\ closeAt = "open")

\* Once all is told, the loop and the broker have the same connection with the
\* same subscriptions.
InStep == Remembered /\ Truthful

\* When close is over, and for whoever it returns to, even cancelled, nothing
\* goes on: no session, and no handler but the one that closed.
ClosedForGood ==
    /\ closeAt = "done" => ~up /\ subs = <<>> /\ \A h \in Handler \ {closer} : handler[h] = "idle"
    /\ \A c \in Caller : pc[c] = "returned" => closeAt = "done"

\* A close ends, whoever calls it and however often, from inside handlers, from
\* their cancellation, or from a connect that failed.
CloseReturns ==
    /\ \A c \in Caller : pc[c] \in {"close", "cancelled"} ~> pc[c] = "returned"
    /\ \A h \in Handler : handler[h] = "close" ~> handler[h] # "close"
=============================================================================
