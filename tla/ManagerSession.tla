--------------------------- MODULE ManagerSession ---------------------------
(***************************************************************************)
(* The one session with rustuya-manager that the config flow, the options  *)
(* flow, the panel's cloud fetch and its bridge list share: the lock, the  *)
(* wait for it and the close that gives it back; the fetch with its        *)
(* watcher and its cancellation; the flows that a user may close at any    *)
(* time; and the new device file that goes to the entry afterwards.        *)
(*                                                                         *)
(* A client is one request, or one flow from its first step to the last    *)
(* task it leaves behind.  A step of a flow goes on when the flow is       *)
(* closed under it; the task that `async_remove` leaves runs beside it.    *)
(***************************************************************************)
EXTENDS Integers, FiniteSets

CONSTANTS
    Client,     \* requests and flows
    Budgets,    \* a set of bounds on what is begun and on what fails, by kind
    NONE

Flow == {"setup", "configure"}
Job == {"list", "fetch"} \cup Flow
Kind == Job \cup {"retry", "fail", "slow"}

Outcome == {"done", "error", "cancelled"}

ASSUME SessionAssumption == Budgets \subseteq [Kind -> Nat] /\ NONE \notin Client \cup Job \cup Outcome

VARIABLES
    lock, holders,      \* the lock, and the sessions that are to release it
    connected,          \* Managers with a connection of their own
    current,            \* the fetch in hass.data, while it runs
    job, pc,            \* each client's job, and where its handler or step is
    wizard,             \* the login of its session
    manager, login,     \* a flow: its session, and what a closed one owes
    gone, task,         \* a flow: no more in progress, and the task it left
    outcome,            \* a fetch: what it is finishing with
    owed,               \* device files that were written and not handed over
    slow, left, missed, \* history: see OneConnection, Owned, HandedOver
    spent

flows == <<manager, login, gone, task>>
history == <<slow, left, missed>>
vars == <<lock, holders, connected, current, job, pc, wizard, flows, outcome, owed,
          history, spent>>

TypeOK ==
    /\ lock \in Client \cup {NONE} /\ current \in Client \cup {NONE}
    /\ holders \subseteq Client /\ connected \subseteq Client
    /\ job \in [Client -> Job \cup {NONE}]
    /\ pc \in [Client -> {"idle", "lock", "connect", "ready", "work", "login", "watch", "finish",
                          "form", "sync", "close", "hand", "over", "end"}]
    /\ wizard \in [Client -> {"none", "working", "done", "error"}]
    /\ manager \in [Client -> BOOLEAN] /\ login \in [Client -> BOOLEAN]
    /\ gone \in [Client -> BOOLEAN] /\ task \in [Client -> {"none", "close", "owes", "hand"}]
    /\ outcome \in [Client -> Outcome \cup {NONE}]
    /\ owed \subseteq Client /\ slow \subseteq Client /\ left \subseteq Client
    /\ missed \subseteq Client /\ spent \in [Kind -> Nat]

Init ==
    /\ lock = NONE /\ holders = {} /\ connected = {} /\ current = NONE
    /\ job = [c \in Client |-> NONE] /\ pc = [c \in Client |-> "idle"]
    /\ wizard = [c \in Client |-> "none"]
    /\ manager = [c \in Client |-> FALSE] /\ login = [c \in Client |-> FALSE]
    /\ gone = [c \in Client |-> FALSE] /\ task = [c \in Client |-> "none"]
    /\ outcome = [c \in Client |-> NONE]
    /\ owed = {} /\ slow = {} /\ left = {} /\ missed = {} /\ spent = [k \in Kind |-> 0]

Spend(kind) ==
    /\ spent' = [spent EXCEPT ![kind] = @ + 1]
    /\ \E b \in Budgets : \A k \in Kind : spent'[k] <= b[k]

Goto(c, where) == pc' = [pc EXCEPT ![c] = where]
IsFlow(c) == job[c] \in Flow

\* Where a step goes back to: a flow waits for its user, or is closed already.
Shown(c) == IF gone[c] THEN "end" ELSE "form"

(***************************************************************************)
(* open_manager, open_panel_for_entry and close_manager                    *)
(***************************************************************************)
\* The panel shares the service's connection; only the others connect.
TakeLock(c) ==
    /\ pc[c] = "lock" /\ lock = NONE /\ lock' = c
    /\ IF job[c] = "list" THEN Goto(c, "ready") /\ holders' = holders \cup {c}
                          ELSE Goto(c, "connect") /\ UNCHANGED holders
    /\ UNCHANGED <<connected, current, job, wizard, flows, outcome, owed, history, spent>>

\* Busy: the request answers so, the flow is aborted.
GiveUp(c) ==
    /\ pc[c] = "lock" /\ lock # NONE /\ Goto(c, "end")
    /\ UNCHANGED <<lock, holders, connected, current, job, wizard, flows, outcome, owed,
                   history, spent>>

\* Mutant: a session that cannot be entered keeps the lock.
ConnectKeeps(c) ==
    /\ pc[c] = "connect"
    /\ \/ connected' = connected \cup {c} /\ holders' = holders \cup {c} /\ Goto(c, "ready") /\ UNCHANGED spent
       \/ Spend("fail") /\ Goto(c, IF IsFlow(c) THEN Shown(c) ELSE "end") /\ UNCHANGED <<connected, holders>>
    /\ UNCHANGED <<lock, current, job, wizard, flows, outcome, owed, history>>

Connect(c) ==
    /\ pc[c] = "connect"
    /\ \/ /\ connected' = connected \cup {c} /\ holders' = holders \cup {c} /\ Goto(c, "ready")
          /\ UNCHANGED <<lock, spent>>
       \/ /\ Spend("fail") /\ lock' = NONE /\ Goto(c, IF IsFlow(c) THEN Shown(c) ELSE "end")
          /\ UNCHANGED <<connected, holders>>
    /\ UNCHANGED <<current, job, wizard, flows, outcome, owed, history>>

\* The registry has arrived, or the session is closed again.  A flow that was
\* closed meanwhile gets its session all the same.
Ready(c) ==
    /\ pc[c] = "ready"
    /\ \/ /\ Goto(c, CASE job[c] = "list" -> "work" [] job[c] = "fetch" -> "login" [] OTHER -> Shown(c))
          /\ manager' = [manager EXCEPT ![c] = IsFlow(c)]
          /\ login' = [login EXCEPT ![c] = job[c] = "setup"]
          /\ left' = IF gone[c] THEN left \cup {c} ELSE left
          /\ owed' = IF job[c] = "setup" /\ ~gone[c] THEN owed \cup {c} ELSE owed
          /\ UNCHANGED spent
       \/ Spend("fail") /\ Goto(c, "close") /\ UNCHANGED <<manager, login, left, owed>>
    /\ UNCHANGED <<lock, holders, connected, current, job, wizard, gone, task, outcome, slow, missed>>

\* The end of close_manager: disconnected, or given up on after WAIT; either
\* way the lock is released by the session that took it, once.
Released(c) ==
    /\ \/ connected' = connected \ {c} /\ UNCHANGED <<slow, spent>>
       \/ c \in connected /\ Spend("slow") /\ slow' = slow \cup {c} /\ UNCHANGED connected
    /\ holders' = holders \ {c}
    /\ lock' = IF c \in holders THEN NONE ELSE lock

(***************************************************************************)
(* The panel's bridge list (BridgeView._session)                           *)
(***************************************************************************)
Ask(c, what) ==
    /\ pc[c] = "idle" /\ Spend(what) /\ job' = [job EXCEPT ![c] = what] /\ Goto(c, "lock")
    /\ UNCHANGED <<lock, holders, connected, current, wizard, flows, outcome, owed, history>>

List(c) == Ask(c, "list")

\* The commands and the refreshes, all of them or up to the first that fails.
Work(c) ==
    /\ pc[c] = "work" /\ Goto(c, "close")
    /\ UNCHANGED <<lock, holders, connected, current, job, wizard, flows, outcome, owed,
                   history, spent>>

(***************************************************************************)
(* The panel's fetch (CloudView, CloudFetch)                               *)
(***************************************************************************)
\* A fetch that is only starting is not seen here yet.
Post(c) == current = NONE /\ Ask(c, "fetch")

Login(c) ==
    /\ pc[c] = "login"
    /\ \/ /\ current' = c /\ Goto(c, "watch") /\ wizard' = [wizard EXCEPT ![c] = "working"]
          /\ UNCHANGED spent
       \/ Spend("fail") /\ Goto(c, "close") /\ UNCHANGED <<current, wizard>>
    /\ UNCHANGED <<lock, holders, connected, job, flows, outcome, owed, history>>

\* Only the first to finish a fetch does.
Finish(c, how) ==
    /\ pc[c] = "watch" /\ Goto(c, "finish") /\ outcome' = [outcome EXCEPT ![c] = how]
    /\ missed' = IF how = "cancelled" /\ c \in owed THEN missed \cup {c} ELSE missed
    /\ UNCHANGED <<lock, holders, connected, job, wizard, flows, owed, slow, left, spent>>

Watch(c) == wizard[c] \in {"done", "error"} /\ Finish(c, wizard[c]) /\ UNCHANGED current
\* Mutant: a page that stops asking is waited for.
ExpireNever(c) == FALSE /\ wizard[c] = "working"

\* Mutant: what the wizard is doing is reported as the outcome.
ExpireAsIs(c) == wizard[c] = "working" /\ Finish(c, wizard[c]) /\ UNCHANGED current

Expire(c) == wizard[c] = "working" /\ Finish(c, "cancelled") /\ UNCHANGED current
Cancel(c) == current = c /\ Finish(c, "cancelled") /\ UNCHANGED current

\* The entry goes (or its panel): the fetch is forgotten, and cancelled.
EntryGoes(c) == current = c /\ current' = NONE /\ Finish(c, "cancelled")

Finished(c) ==
    /\ pc[c] = "finish" /\ Released(c) /\ Goto(c, IF outcome[c] = "done" THEN "hand" ELSE "over")
    /\ UNCHANGED <<current, job, wizard, flows, outcome, owed, left, missed>>

\* The new device file goes to the entry, and only then is the outcome told.
HandOver(c) ==
    /\ pc[c] = "hand" /\ owed' = owed \ {c} /\ Goto(c, IF IsFlow(c) THEN "end" ELSE "over")
    /\ gone' = [gone EXCEPT ![c] = IsFlow(c)]
    /\ UNCHANGED <<lock, holders, connected, current, job, wizard, manager, login, task, outcome,
                   history, spent>>

Tell(c) ==
    /\ pc[c] = "over" /\ job[c] = "fetch" /\ Goto(c, "end")
    /\ current' = IF current = c THEN NONE ELSE current
    /\ UNCHANGED <<lock, holders, connected, job, wizard, flows, outcome, owed, history, spent>>

Fetch(c) == Login(c) \/ Watch(c) \/ Finished(c) \/ HandOver(c) \/ Tell(c)

(***************************************************************************)
(* The login of a session, in rustuya-manager; done, it wrote a new file   *)
(***************************************************************************)
Unread(c) == gone[c] \/ pc[c] = "finish"

LoginEnds(c) ==
    /\ wizard[c] = "working" /\ c \in connected \ slow
    /\ \/ /\ wizard' = [wizard EXCEPT ![c] = "done"] /\ owed' = owed \cup {c}
          /\ missed' = IF Unread(c) /\ job[c] # "setup" THEN missed \cup {c} ELSE missed
       \/ wizard' = [wizard EXCEPT ![c] = "error"] /\ UNCHANGED <<owed, missed>>
    /\ UNCHANGED <<lock, holders, connected, current, job, pc, flows, outcome, slow, left, spent>>

(***************************************************************************)
(* The config flow and the options flow (_ManagerSteps and its two users)  *)
(***************************************************************************)
Open(c) == \E flow \in Flow : Ask(c, flow)

\* The step failed to open a session: the user is still at the form before it.
OpenAgain(c) ==
    /\ pc[c] = "form" /\ ~manager[c] /\ Spend("retry") /\ Goto(c, "lock")
    /\ UNCHANGED <<lock, holders, connected, current, job, wizard, flows, outcome, owed, history>>

LoginStart(c) ==
    /\ pc[c] = "form" /\ manager[c] /\ wizard' = [wizard EXCEPT ![c] = "working"]
    /\ \/ wizard[c] = "none" /\ UNCHANGED spent
       \/ wizard[c] = "error" /\ job[c] = "setup" /\ Spend("retry")
    /\ UNCHANGED <<lock, holders, connected, current, job, pc, flows, outcome, owed, history>>

Close(c, how) == Goto(c, "close") /\ outcome' = [outcome EXCEPT ![c] = how]

\* The devices to choose from, or none: then setup finishes, Configure is aborted.
Sync(c) ==
    /\ pc[c] = "form" /\ manager[c]
    /\ \/ wizard[c] = "done"
       \/ wizard[c] = "none" /\ job[c] = "configure"
    /\ login' = [login EXCEPT ![c] = (@ \/ wizard[c] = "done")]
    /\ \/ Goto(c, "sync") /\ UNCHANGED outcome
       \/ Close(c, IF job[c] = "setup" THEN "done" ELSE "error")
    /\ UNCHANGED <<lock, holders, connected, current, job, wizard, manager, gone, task, owed,
                   history, spent>>

\* A publish that fails shows the same form again.
Submit(c) ==
    /\ pc[c] = "sync" /\ Close(c, "done")
    /\ UNCHANGED <<lock, holders, connected, current, job, wizard, flows, owed, history, spent>>

\* A failed login: Configure is aborted, setup may go on without it.
LoginFailed(c) ==
    /\ pc[c] = "form" /\ wizard[c] = "error" /\ Close(c, IF job[c] = "setup" THEN "done" ELSE "error")
    /\ UNCHANGED <<lock, holders, connected, current, job, wizard, flows, owed, history, spent>>

\* The step's close has returned: the setup is finished, the file goes to the
\* entry, or the flow is aborted, and a login handed over by the task that leaves.
\* What a step returns to a flow that is closed already is dropped.
Closed(c) ==
    /\ pc[c] = "close" /\ Released(c) /\ manager' = [manager EXCEPT ![c] = FALSE]
    /\ IF ~manager[c] /\ ~gone[c] /\ IsFlow(c)
         THEN Goto(c, "form") /\ UNCHANGED <<login, gone, task, owed>>
         ELSE LET hands == job[c] = "configure" /\ outcome[c] = "done"
                  aborts == job[c] = "configure" /\ outcome[c] = "error" /\ ~gone[c]
              IN
              /\ Goto(c, IF hands THEN "hand" ELSE "end")
              /\ gone' = [gone EXCEPT ![c] = (@ \/ (IsFlow(c) /\ ~hands))]
              /\ login' = [login EXCEPT ![c] = FALSE]
              /\ task' = IF aborts /\ login[c] THEN [task EXCEPT ![c] = "owes"] ELSE task
              /\ owed' = IF job[c] = "setup" /\ ~gone[c] THEN owed \ {c} ELSE owed
    /\ UNCHANGED <<current, job, wizard, outcome, left, missed>>

\* Mutant: a closed flow closes its session and forgets what it owes.
RemoveForgets(c) ==
    /\ IsFlow(c) /\ ~gone[c] /\ pc[c] # "end"
    /\ gone' = [gone EXCEPT ![c] = TRUE] /\ login' = [login EXCEPT ![c] = FALSE]
    /\ task' = [task EXCEPT ![c] = IF manager[c] THEN "close" ELSE "none"]
    /\ pc' = IF pc[c] \in {"form", "sync"} THEN [pc EXCEPT ![c] = "end"] ELSE pc
    /\ missed' = IF c \in owed /\ ~login[c] /\ pc[c] # "hand" THEN missed \cup {c} ELSE missed
    /\ UNCHANGED <<lock, holders, connected, current, job, wizard, manager, outcome, owed, slow, left, spent>>

\* async_remove: the user closes the flow's window, whatever its step is doing.
Remove(c) ==
    /\ IsFlow(c) /\ ~gone[c] /\ pc[c] # "end"
    /\ gone' = [gone EXCEPT ![c] = TRUE] /\ login' = [login EXCEPT ![c] = FALSE]
    /\ task' = [task EXCEPT ![c] = IF login[c] THEN "owes" ELSE IF manager[c] THEN "close" ELSE "none"]
    /\ pc' = IF pc[c] \in {"form", "sync"} THEN [pc EXCEPT ![c] = "end"] ELSE pc
    /\ missed' = IF c \in owed /\ ~login[c] /\ pc[c] # "hand" THEN missed \cup {c} ELSE missed
    /\ UNCHANGED <<lock, holders, connected, current, job, wizard, manager, outcome, owed, slow, left, spent>>

\* The session first, then what the flow owes.
TaskCloses(c) ==
    /\ task[c] \in {"close", "owes"} /\ Released(c) /\ manager' = [manager EXCEPT ![c] = FALSE]
    /\ task' = [task EXCEPT ![c] = IF @ = "owes" THEN "hand" ELSE "none"]
    /\ UNCHANGED <<current, job, pc, wizard, login, gone, outcome, owed, left, missed>>

\* Mutant: what the flow owes before its session has closed.
TaskHandsFirst(c) ==
    /\ task[c] \in {"owes", "hand"} /\ owed' = owed \ {c}
    /\ task' = [task EXCEPT ![c] = IF @ = "owes" THEN "close" ELSE "none"]
    /\ UNCHANGED <<lock, holders, connected, current, job, pc, wizard, manager, login, gone,
                   outcome, history, spent>>

TaskHands(c) ==
    /\ task[c] = "hand" /\ task' = [task EXCEPT ![c] = "none"] /\ owed' = owed \ {c}
    /\ UNCHANGED <<lock, holders, connected, current, job, pc, wizard, manager, login, gone,
                   outcome, history, spent>>

\* Over for good: what is kept of it is forgotten.
Over(c) == pc[c] = "end" /\ task[c] = "none"

End(c) ==
    /\ Over(c) /\ c \notin connected /\ Goto(c, "idle")
    /\ job' = [job EXCEPT ![c] = NONE] /\ wizard' = [wizard EXCEPT ![c] = "none"]
    /\ gone' = [gone EXCEPT ![c] = FALSE] /\ outcome' = [outcome EXCEPT ![c] = NONE]
    /\ owed' = owed \ {c} /\ missed' = missed \ {c} /\ slow' = slow \ {c}
    /\ UNCHANGED <<lock, holders, connected, current, manager, login, task, left, spent>>

User(c) ==
    \/ List(c) \/ Post(c) \/ Cancel(c) \/ EntryGoes(c) \/ Open(c) \/ OpenAgain(c)
    \/ LoginStart(c) \/ Sync(c) \/ Submit(c) \/ LoginFailed(c) \/ Remove(c)

Session(c) == TakeLock(c) \/ GiveUp(c) \/ Connect(c) \/ Ready(c) \/ Work(c) \/ Closed(c)

Task(c) == TaskCloses(c) \/ TaskHands(c)

Next == \E c \in Client :
    User(c) \/ Session(c) \/ Fetch(c) \/ Expire(c) \/ LoginEnds(c) \/ Task(c) \/ End(c)

Spec == Init /\ [][Next]_vars

\* Every wait is bounded by WAIT, and a fetch by its page and MAX_TIME, but for
\* the Manager's own `__aenter__`, which is taken to connect or to fail; users
\* and logins may take for ever.
Fairness == \A c \in Client :
    /\ WF_vars(Session(c)) /\ WF_vars(Fetch(c) \/ Expire(c)) /\ WF_vars(Task(c))

LiveSpec == Spec /\ Fairness

(***************************************************************************)
(* What the sessions promise                                               *)
(***************************************************************************)
\* One session at a time (manager_session.py:9): no two Managers are connected
\* under the one client id, except for one whose close was given up on.
OneConnection == Cardinality(connected \ slow) <= 1

\* A held lock has somebody who will give it back: a handler, an open flow or
\* the task of a closed one.  Left out: a flow that was closed while it was
\* still opening its session: it gets the session all the same, and nobody closes
\* it (_async_manager, async_remove).
WillRelease(c) == ~Over(c) /\ pc[c] # "idle"
Owned == lock # NONE => WillRelease(lock) \/ lock \in left

\* The session is one client's at a time, and comes back from it.
Exclusive == OneConnection /\ Owned

\* What a client was owed, the new file at the entry or the setup finished, it
\* has got when it is over, in whatever order it was closed, cancelled and
\* answered; only a login that ends as its flow or fetch is given up is missed.
HandedOver == \A c \in Client : (Over(c) /\ c \in owed) => c \in missed

\* The entry, which may run a bridge on the same state file, gets the file or
\* is created only after the session that wrote it has been closed
\* (config_flow.py:338, 434, panel.py:480).
Serves(c) == c \in owed /\ c \notin owed'
StartsAlone == [][\A c \in Client : Serves(c) => c \notin (connected \ slow)']_vars

\* A request for the list is answered, and a fetch reports an outcome, whoever
\* holds the session, and the session of a closed flow is given back, if no
\* Manager takes for ever to connect (manager_session.py).
Bounded(c) == job[c] \in {"list", "fetch"} \/ gone[c]
Answered ==
    \A c \in Client : /\ job[c] \in {"list", "fetch"} ~> Over(c)
                      /\ (lock = c /\ Bounded(c)) ~> (lock # c \/ c \in left)
=============================================================================
