----------------------- MODULE ManagerSession_proofs -----------------------
(***************************************************************************)
(* Proofs about ManagerSession, for any number of clients and any bounds.  *)
(***************************************************************************)
EXTENDS ManagerSession, FiniteSetTheorems, TLAPS

\* The lock is held by the client that is entering its session, or by the one
\* session that is to release it; who is connected holds it, but for those whose
\* close was given up on.
LockKept ==
    /\ \A c \in Client : pc[c] = "connect" => lock = c /\ c \notin holders
    /\ \A c \in holders : c = lock
    /\ lock # NONE => lock \in holders \/ pc[lock] = "connect"
    /\ connected \ slow \subseteq holders

\* What each kind of client may be doing; only a flow has a session of its own
\* to keep between its steps, and a task it left.
Kinds ==
    \A c \in Client :
        /\ pc[c] = "idle" <=> job[c] = NONE
        /\ pc[c] = "work" => job[c] = "list"
        /\ pc[c] \in {"login", "watch", "finish", "over"} => job[c] = "fetch"
        /\ pc[c] \in {"form", "sync"} => IsFlow(c) /\ ~gone[c]
        /\ pc[c] = "hand" => job[c] \in {"fetch", "configure"}
        /\ gone[c] \/ manager[c] \/ login[c] => IsFlow(c)
        /\ task[c] # "none" => gone[c]

\* A flow that is entering a session has none yet, one that closes it after a
\* sync or a failed login has, and what a flow still owes when it is over is left
\* to a task, or in a session that nobody closes.
Sessions ==
    \A c \in Client :
        /\ pc[c] \in {"idle", "lock", "connect", "ready"} =>
                /\ ~manager[c] /\ ~login[c] /\ task[c] = "none"
                /\ wizard[c] = "none" /\ outcome[c] = NONE
        /\ pc[c] = "ready" /\ IsFlow(c) => c \in connected
        /\ pc[c] \in {"form", "close"} /\ IsFlow(c) /\ ~manager[c] /\ ~gone[c] =>
                wizard[c] = "none" /\ ~login[c] /\ outcome[c] = NONE
        /\ pc[c] = "sync" => manager[c] /\ wizard[c] # "working"
        /\ job[c] = "setup" /\ manager[c] /\ ~gone[c] => login[c]
        /\ pc[c] = "hand" => ~manager[c] /\ ~login[c]
        /\ pc[c] = "end" /\ task[c] = "none" => c \in connected \/ (~manager[c] /\ ~login[c])
        /\ task[c] # "none" => ~login[c]
        /\ task[c] = "hand" => ~manager[c]

\* Who holds a session will come to its close: in its step, as the open flow
\* that waits for its user, or through the task of the closed one.
Closing(c) ==
    \/ pc[c] \in {"ready", "work", "login", "watch", "finish", "close"}
    \/ pc[c] \in {"form", "sync"} /\ manager[c]
    \/ task[c] \in {"close", "owes"}
HoldersClose == \A c \in holders : c \in left \/ Closing(c)

SessionInv == TypeOK /\ LockKept /\ Kinds /\ Sessions /\ HoldersClose

\* A login still on its way, in a session that is not closed yet.
Pending ==
    \A c \in Client : wizard[c] = "working" /\ c \in connected \ slow =>
        \/ job[c] = "fetch" /\ pc[c] \in {"watch", "finish"}
        \/ job[c] = "configure" /\ (gone[c] \/ (pc[c] = "form" /\ manager[c]))
        \/ job[c] = "setup" /\ (task[c] = "owes" \/ (pc[c] = "form" /\ manager[c] /\ login[c] /\ ~gone[c]))

\* Who has yet to be handed what is owed, unless it was missed.
Handing(c) ==
    \/ task[c] \in {"owes", "hand"} \/ pc[c] = "hand"
    \/ job[c] = "fetch" /\ (\/ pc[c] = "watch" /\ wizard[c] = "done"
                            \/ pc[c] = "finish" /\ outcome[c] = "done")
    \/ job[c] = "configure" /\ (\/ pc[c] = "form" /\ wizard[c] = "done" /\ manager[c]
                                \/ pc[c] = "sync" /\ login[c]
                                \/ pc[c] = "close" /\ outcome[c] = "done" /\ (manager[c] \/ gone[c])
                                \/ pc[c] = "close" /\ outcome[c] = "error" /\ login[c] /\ manager[c] /\ ~gone[c])
    \/ job[c] = "setup" /\ pc[c] \in {"form", "sync", "close"} /\ login[c] /\ manager[c] /\ ~gone[c]
Delivered == \A c \in owed : c \in missed \/ Handing(c)

\* The session is closed before what it wrote is handed over.
ClosedFirst == \A c \in connected \ slow : pc[c] # "hand" /\ task[c] # "hand"

DeliveryInv == SessionInv /\ Pending /\ Delivered /\ ClosedFirst

\* Whatever is spent is counted.
LEMMA SpendType ==
    ASSUME TypeOK, NEW kind \in Kind, Spend(kind)
    PROVE  spent' \in [Kind -> Nat]
BY DEF TypeOK, Spend

\* The lock is free: nobody holds a session.
LEMMA TakeLockSafe ==
    ASSUME SessionInv, NEW c \in Client, TakeLock(c)
    PROVE  SessionInv'
<1>1. TypeOK'
  BY SessionAssumption DEF SessionInv, TakeLock, Goto, flows, history, TypeOK, Outcome, Job, Flow, Kind
<1>2. LockKept'
  BY SessionAssumption DEF SessionInv, TakeLock, Goto, flows, history, LockKept, TypeOK, Kinds, Sessions
<1>3. Kinds'
  BY SessionAssumption DEF SessionInv, TakeLock, Goto, flows, history, Kinds, TypeOK, Sessions, IsFlow, Flow,
       Job
<1>4. Sessions'
  BY SessionAssumption DEF SessionInv, TakeLock, Goto, flows, history, Sessions, TypeOK, Kinds, LockKept, IsFlow,
       Flow, Job
<1>5. HoldersClose'
  BY SessionAssumption DEF SessionInv, TakeLock, Goto, flows, history, HoldersClose, TypeOK, Kinds, Sessions,
       LockKept, Closing, IsFlow, Flow, Job
<1> QED BY <1>1, <1>2, <1>3, <1>4, <1>5 DEF SessionInv

\* ... and what is owed is still to be delivered.
LEMMA TakeLockDelivers ==
    ASSUME DeliveryInv, SessionInv', NEW c \in Client, TakeLock(c)
    PROVE  DeliveryInv'
<1>1. Pending'
  BY SessionAssumption DEF DeliveryInv, SessionInv, TakeLock, Goto, flows, history, Pending, TypeOK, Kinds,
       Sessions, LockKept, IsFlow, Flow, Job
<1>2. Delivered'
  BY SessionAssumption DEF DeliveryInv, SessionInv, TakeLock, Goto, flows, history, Delivered, TypeOK, Kinds,
       Sessions, LockKept, Pending, ClosedFirst, Handing, IsFlow, Flow, Job
<1>3. ClosedFirst'
  BY SessionAssumption DEF DeliveryInv, SessionInv, TakeLock, Goto, flows, history, ClosedFirst, TypeOK, Kinds,
       Sessions, LockKept, Pending, IsFlow, Flow, Job
<1> QED BY <1>1, <1>2, <1>3 DEF DeliveryInv

\* A client that gives up waiting holds nothing.
LEMMA GiveUpSafe ==
    ASSUME SessionInv, NEW c \in Client, GiveUp(c)
    PROVE  SessionInv'
<1>1. TypeOK'
  BY SessionAssumption DEF SessionInv, GiveUp, Goto, flows, history, TypeOK, Outcome, Job, Flow, Kind
<1>2. LockKept'
  BY SessionAssumption DEF SessionInv, GiveUp, Goto, flows, history, LockKept, TypeOK, Kinds, Sessions
<1>3. Kinds'
  BY SessionAssumption DEF SessionInv, GiveUp, Goto, flows, history, Kinds, TypeOK, Sessions, IsFlow, Flow, Job
<1>4. Sessions'
  BY SessionAssumption DEF SessionInv, GiveUp, Goto, flows, history, Sessions, TypeOK, Kinds, LockKept, IsFlow,
       Flow, Job
<1>5. HoldersClose'
  BY SessionAssumption DEF SessionInv, GiveUp, Goto, flows, history, HoldersClose, TypeOK, Kinds, Sessions,
       LockKept, Closing, IsFlow, Flow, Job
<1> QED BY <1>1, <1>2, <1>3, <1>4, <1>5 DEF SessionInv

\* ... and what is owed is still to be delivered.
LEMMA GiveUpDelivers ==
    ASSUME DeliveryInv, SessionInv', NEW c \in Client, GiveUp(c)
    PROVE  DeliveryInv'
<1>1. Pending'
  BY SessionAssumption DEF DeliveryInv, SessionInv, GiveUp, Goto, flows, history, Pending, TypeOK, Kinds,
       Sessions, LockKept, IsFlow, Flow, Job
<1>2. Delivered'
  BY SessionAssumption DEF DeliveryInv, SessionInv, GiveUp, Goto, flows, history, Delivered, TypeOK, Kinds,
       Sessions, LockKept, Pending, ClosedFirst, Handing, IsFlow, Flow, Job
<1>3. ClosedFirst'
  BY SessionAssumption DEF DeliveryInv, SessionInv, GiveUp, Goto, flows, history, ClosedFirst, TypeOK, Kinds,
       Sessions, LockKept, Pending, IsFlow, Flow, Job
<1> QED BY <1>1, <1>2, <1>3 DEF DeliveryInv

\* Who enters a session holds it; who cannot gives the lock back.
LEMMA ConnectSafe ==
    ASSUME SessionInv, NEW c \in Client, Connect(c)
    PROVE  SessionInv'
<1>1. TypeOK'
  BY SessionAssumption, SpendType DEF SessionInv, Connect, Goto, Shown, IsFlow, Flow, Spend, flows, history,
       TypeOK, Outcome, Job, Kind
<1>2. LockKept'
  BY SessionAssumption DEF SessionInv, Connect, Goto, Shown, IsFlow, Flow, Spend, flows, history, LockKept,
       TypeOK, Kinds, Sessions
<1>3. Kinds'
  BY SessionAssumption DEF SessionInv, Connect, Goto, Shown, IsFlow, Flow, Spend, flows, history, Kinds, TypeOK,
       Sessions, Job
<1>4. Sessions'
  BY SessionAssumption DEF SessionInv, Connect, Goto, Shown, IsFlow, Flow, Spend, flows, history, Sessions,
       TypeOK, Kinds, LockKept, Job
<1>5. HoldersClose'
  BY SessionAssumption DEF SessionInv, Connect, Goto, Shown, IsFlow, Flow, Spend, flows, history, HoldersClose,
       TypeOK, Kinds, Sessions, LockKept, Closing, Job
<1> QED BY <1>1, <1>2, <1>3, <1>4, <1>5 DEF SessionInv

\* ... and what is owed is still to be delivered.
LEMMA ConnectDelivers ==
    ASSUME DeliveryInv, SessionInv', NEW c \in Client, Connect(c)
    PROVE  DeliveryInv'
<1>1. Pending'
  BY SessionAssumption DEF DeliveryInv, SessionInv, Connect, Goto, Shown, IsFlow, Flow, Spend, flows, history,
       Pending, TypeOK, Kinds, Sessions, LockKept, Job
<1>2. Delivered'
  BY SessionAssumption DEF DeliveryInv, SessionInv, Connect, Goto, Shown, IsFlow, Flow, Spend, flows, history,
       Delivered, TypeOK, Kinds, Sessions, LockKept, Pending, ClosedFirst, Handing, Job
<1>3. ClosedFirst'
  BY SessionAssumption DEF DeliveryInv, SessionInv, Connect, Goto, Shown, IsFlow, Flow, Spend, flows, history,
       ClosedFirst, TypeOK, Kinds, Sessions, LockKept, Pending, Job
<1> QED BY <1>1, <1>2, <1>3 DEF DeliveryInv

\* A session that is ready is its flow's, or one nobody will close.
LEMMA ReadySafe ==
    ASSUME SessionInv, NEW c \in Client, Ready(c)
    PROVE  SessionInv'
<1> DEFINE Next1 == IF job[c] = "list" THEN "work" ELSE IF job[c] = "fetch" THEN "login" ELSE Shown(c)
<1>a. \/ /\ pc' = [pc EXCEPT ![c] = Next1]
         /\ manager' = [manager EXCEPT ![c] = IsFlow(c)] /\ login' = [login EXCEPT ![c] = job[c] = "setup"]
         /\ left' = IF gone[c] THEN left \cup {c} ELSE left
         /\ owed' = IF job[c] = "setup" /\ ~gone[c] THEN owed \cup {c} ELSE owed
         /\ UNCHANGED spent
      \/ Spend("fail") /\ pc' = [pc EXCEPT ![c] = "close"] /\ UNCHANGED <<manager, login, left, owed>>
  BY DEF Ready, Goto
<1>b. /\ pc[c] = "ready"
      /\ UNCHANGED <<lock, holders, connected, current, job, wizard, gone, task, outcome, slow, missed>>
  BY DEF Ready
<1>c. spent' \in [Kind -> Nat]
  BY <1>a, SpendType DEF SessionInv, TypeOK, Kind
<1>d. Next1 \in {"work", "login", "end", "form"} /\ IsFlow(c) \in BOOLEAN /\ (job[c] = "setup") \in BOOLEAN
  BY DEF Shown, IsFlow
<1>e. pc' \in [Client -> {"idle", "lock", "connect", "ready", "work", "login", "watch", "finish",
                          "form", "sync", "close", "hand", "over", "end"}]
  BY <1>a, <1>d DEF SessionInv, TypeOK
<1>f. manager' \in [Client -> BOOLEAN] /\ login' \in [Client -> BOOLEAN]
  BY <1>a, <1>d DEF SessionInv, TypeOK
<1>1. TypeOK'
  BY <1>a, <1>b, <1>c, <1>e, <1>f DEF SessionInv, TypeOK
<1>2. LockKept'
  BY SessionAssumption DEF SessionInv, Ready, Goto, Shown, IsFlow, Flow, Job, Spend, LockKept, TypeOK, Kinds,
       Sessions
<1>3. Kinds'
  BY SessionAssumption DEF SessionInv, Ready, Goto, Shown, IsFlow, Flow, Job, Spend, Kinds, TypeOK, Sessions
<1>4. Sessions'
  BY SessionAssumption DEF SessionInv, Ready, Goto, Shown, IsFlow, Flow, Job, Spend, Sessions, TypeOK, Kinds,
       LockKept
<1>5. HoldersClose'
  <2> SUFFICES ASSUME NEW d \in holders', d \notin left', ~Closing(d)'
               PROVE  FALSE
    BY DEF HoldersClose
  <2>1. d \in Client /\ job[c] \in Job /\ d \in holders /\ d \notin left
    BY <1>a, <1>b DEF SessionInv, TypeOK, Kinds
  <2>2. CASE d # c
    BY <1>a, <1>b, <2>1, <2>2 DEF SessionInv, TypeOK, HoldersClose, Closing
  <2>3. CASE d = c
    BY <1>a, <1>b, <2>1, <2>3 DEF SessionInv, TypeOK, Closing, Job, IsFlow, Shown
  <2> QED BY <2>2, <2>3
<1> QED BY <1>1, <1>2, <1>3, <1>4, <1>5 DEF SessionInv

\* ... and what is owed is still to be delivered.
LEMMA ReadyDelivers ==
    ASSUME DeliveryInv, SessionInv', NEW c \in Client, Ready(c)
    PROVE  DeliveryInv'
<1>1. Pending'
  BY SessionAssumption DEF DeliveryInv, SessionInv, Ready, Goto, Shown, IsFlow, Flow, Job, Spend, Pending,
       TypeOK, Kinds, Sessions, LockKept
<1>2. Delivered'
  BY SessionAssumption DEF DeliveryInv, SessionInv, Ready, Goto, Shown, IsFlow, Flow, Job, Spend, Delivered,
       TypeOK, Kinds, Sessions, LockKept, Pending, ClosedFirst, Handing
<1>3. ClosedFirst'
  BY SessionAssumption DEF DeliveryInv, SessionInv, Ready, Goto, Shown, IsFlow, Flow, Job, Spend, ClosedFirst,
       TypeOK, Kinds, Sessions, LockKept, Pending
<1> QED BY <1>1, <1>2, <1>3 DEF DeliveryInv

\* A new request or flow starts from nothing.
LEMMA AskSafe ==
    ASSUME SessionInv, NEW c \in Client, NEW what \in Job, Ask(c, what)
    PROVE  SessionInv'
<1>1. TypeOK'
  BY SessionAssumption, SpendType DEF SessionInv, Ask, Goto, Flow, Job, Spend, flows, history, TypeOK, Outcome,
       Kind
<1>2. LockKept'
  BY SessionAssumption DEF SessionInv, Ask, Goto, Flow, Job, IsFlow, Spend, flows, history, LockKept, TypeOK,
       Kinds, Sessions
<1>3. Kinds'
  BY SessionAssumption DEF SessionInv, Ask, Goto, Flow, Job, IsFlow, Spend, flows, history, Kinds, TypeOK,
       Sessions
<1>4. Sessions'
  BY SessionAssumption DEF SessionInv, Ask, Goto, Flow, Job, IsFlow, Spend, flows, history, Sessions, TypeOK,
       Kinds, LockKept
<1>5. HoldersClose'
  BY SessionAssumption DEF SessionInv, Ask, Goto, Flow, Job, IsFlow, Spend, flows, history, HoldersClose, TypeOK,
       Kinds, Sessions, LockKept, Closing
<1> QED BY <1>1, <1>2, <1>3, <1>4, <1>5 DEF SessionInv

\* ... and what is owed is still to be delivered.
LEMMA AskDelivers ==
    ASSUME DeliveryInv, SessionInv', NEW c \in Client, NEW what \in Job, Ask(c, what)
    PROVE  DeliveryInv'
<1>1. Pending'
  BY SessionAssumption DEF DeliveryInv, SessionInv, Ask, Goto, Flow, Job, IsFlow, Spend, flows, history, Pending,
       TypeOK, Kinds, Sessions, LockKept
<1>2. Delivered'
  BY SessionAssumption DEF DeliveryInv, SessionInv, Ask, Goto, Flow, Job, IsFlow, Spend, flows, history,
       Delivered, TypeOK, Kinds, Sessions, LockKept, Pending, ClosedFirst, Handing
<1>3. ClosedFirst'
  BY SessionAssumption DEF DeliveryInv, SessionInv, Ask, Goto, Flow, Job, IsFlow, Spend, flows, history,
       ClosedFirst, TypeOK, Kinds, Sessions, LockKept, Pending
<1> QED BY <1>1, <1>2, <1>3 DEF DeliveryInv

\* The list was worked through: the session is closed next.
LEMMA WorkSafe ==
    ASSUME SessionInv, NEW c \in Client, Work(c)
    PROVE  SessionInv'
<1>1. TypeOK'
  BY SessionAssumption DEF SessionInv, Work, Goto, flows, history, TypeOK, Outcome, Job, Flow, Kind
<1>2. LockKept'
  BY SessionAssumption DEF SessionInv, Work, Goto, flows, history, LockKept, TypeOK, Kinds, Sessions
<1>3. Kinds'
  BY SessionAssumption DEF SessionInv, Work, Goto, flows, history, Kinds, TypeOK, Sessions, IsFlow, Flow, Job
<1>4. Sessions'
  BY SessionAssumption DEF SessionInv, Work, Goto, flows, history, Sessions, TypeOK, Kinds, LockKept, IsFlow,
       Flow, Job
<1>5. HoldersClose'
  BY SessionAssumption DEF SessionInv, Work, Goto, flows, history, HoldersClose, TypeOK, Kinds, Sessions,
       LockKept, Closing, IsFlow, Flow, Job
<1> QED BY <1>1, <1>2, <1>3, <1>4, <1>5 DEF SessionInv

\* ... and what is owed is still to be delivered.
LEMMA WorkDelivers ==
    ASSUME DeliveryInv, SessionInv', NEW c \in Client, Work(c)
    PROVE  DeliveryInv'
<1>1. Pending'
  BY SessionAssumption DEF DeliveryInv, SessionInv, Work, Goto, flows, history, Pending, TypeOK, Kinds, Sessions,
       LockKept, IsFlow, Flow, Job
<1>2. Delivered'
  BY SessionAssumption DEF DeliveryInv, SessionInv, Work, Goto, flows, history, Delivered, TypeOK, Kinds,
       Sessions, LockKept, Pending, ClosedFirst, Handing, IsFlow, Flow, Job
<1>3. ClosedFirst'
  BY SessionAssumption DEF DeliveryInv, SessionInv, Work, Goto, flows, history, ClosedFirst, TypeOK, Kinds,
       Sessions, LockKept, Pending, IsFlow, Flow, Job
<1> QED BY <1>1, <1>2, <1>3 DEF DeliveryInv

\* A fetch has begun its login.
LEMMA LoginSafe ==
    ASSUME SessionInv, NEW c \in Client, Login(c)
    PROVE  SessionInv'
<1>1. TypeOK'
  BY SessionAssumption, SpendType DEF SessionInv, Login, Goto, Spend, flows, history, TypeOK, Outcome, Job, Flow,
       Kind
<1>2. LockKept'
  BY SessionAssumption DEF SessionInv, Login, Goto, Spend, flows, history, LockKept, TypeOK, Kinds, Sessions
<1>3. Kinds'
  BY SessionAssumption DEF SessionInv, Login, Goto, Spend, flows, history, Kinds, TypeOK, Sessions, IsFlow, Flow,
       Job
<1>4. Sessions'
  BY SessionAssumption DEF SessionInv, Login, Goto, Spend, flows, history, Sessions, TypeOK, Kinds, LockKept,
       IsFlow, Flow, Job
<1>5. HoldersClose'
  BY SessionAssumption DEF SessionInv, Login, Goto, Spend, flows, history, HoldersClose, TypeOK, Kinds, Sessions,
       LockKept, Closing, IsFlow, Flow, Job
<1> QED BY <1>1, <1>2, <1>3, <1>4, <1>5 DEF SessionInv

\* ... and what is owed is still to be delivered.
LEMMA LoginDelivers ==
    ASSUME DeliveryInv, SessionInv', NEW c \in Client, Login(c)
    PROVE  DeliveryInv'
<1>1. Pending'
  BY SessionAssumption DEF DeliveryInv, SessionInv, Login, Goto, Spend, flows, history, Pending, TypeOK, Kinds,
       Sessions, LockKept, IsFlow, Flow, Job
<1>2. Delivered'
  BY SessionAssumption DEF DeliveryInv, SessionInv, Login, Goto, Spend, flows, history, Delivered, TypeOK, Kinds,
       Sessions, LockKept, Pending, ClosedFirst, Handing, IsFlow, Flow, Job
<1>3. ClosedFirst'
  BY SessionAssumption DEF DeliveryInv, SessionInv, Login, Goto, Spend, flows, history, ClosedFirst, TypeOK,
       Kinds, Sessions, LockKept, Pending, IsFlow, Flow, Job
<1> QED BY <1>1, <1>2, <1>3 DEF DeliveryInv

\* Who finishes a fetch takes its outcome; a cancelled one may be missing its file.
LEMMA FinishSafe ==
    ASSUME SessionInv, NEW c \in Client, NEW how, UNCHANGED current \/ current' = NONE,
           how \in Outcome, how # "cancelled" => how = wizard[c], Finish(c, how)
    PROVE  SessionInv'
<1>1. TypeOK'
  BY SessionAssumption DEF SessionInv, Finish, Goto, Outcome, flows, TypeOK, Job, Flow, Kind
<1>2. LockKept'
  BY SessionAssumption DEF SessionInv, Finish, Goto, Outcome, flows, LockKept, TypeOK, Kinds, Sessions
<1>3. Kinds'
  BY SessionAssumption DEF SessionInv, Finish, Goto, Outcome, flows, Kinds, TypeOK, Sessions, IsFlow, Flow, Job
<1>4. Sessions'
  BY SessionAssumption DEF SessionInv, Finish, Goto, Outcome, flows, Sessions, TypeOK, Kinds, LockKept, IsFlow,
       Flow, Job
<1>5. HoldersClose'
  BY SessionAssumption DEF SessionInv, Finish, Goto, Outcome, flows, HoldersClose, TypeOK, Kinds, Sessions,
       LockKept, Closing, IsFlow, Flow, Job
<1> QED BY <1>1, <1>2, <1>3, <1>4, <1>5 DEF SessionInv

\* ... and what is owed is still to be delivered.
LEMMA FinishDelivers ==
    ASSUME DeliveryInv, SessionInv', NEW c \in Client, NEW how, UNCHANGED current \/ current' = NONE,
           how \in Outcome, how # "cancelled" => how = wizard[c], Finish(c, how)
    PROVE  DeliveryInv'
<1>1. Pending'
  BY SessionAssumption DEF DeliveryInv, SessionInv, Finish, Goto, Outcome, flows, Pending, TypeOK, Kinds,
       Sessions, LockKept, IsFlow, Flow, Job
<1>2. Delivered'
  BY SessionAssumption DEF DeliveryInv, SessionInv, Finish, Goto, Outcome, flows, Delivered, TypeOK, Kinds,
       Sessions, LockKept, Pending, ClosedFirst, Handing, IsFlow, Flow, Job
<1>3. ClosedFirst'
  BY SessionAssumption DEF DeliveryInv, SessionInv, Finish, Goto, Outcome, flows, ClosedFirst, TypeOK, Kinds,
       Sessions, LockKept, Pending, IsFlow, Flow, Job
<1> QED BY <1>1, <1>2, <1>3 DEF DeliveryInv

\* A finished fetch has closed its session before it hands its file over.
LEMMA FinishedSafe ==
    ASSUME SessionInv, NEW c \in Client, Finished(c)
    PROVE  SessionInv'
<1>1. TypeOK'
  BY SessionAssumption, SpendType DEF SessionInv, Finished, Goto, Released, Spend, flows, TypeOK, Outcome, Job,
       Flow, Kind
<1>2. LockKept'
  BY SessionAssumption DEF SessionInv, Finished, Goto, Released, Spend, flows, LockKept, TypeOK, Kinds, Sessions
<1>3. Kinds'
  BY SessionAssumption DEF SessionInv, Finished, Goto, Released, Spend, flows, Kinds, TypeOK, Sessions, IsFlow,
       Flow, Job
<1>4. Sessions'
  BY SessionAssumption DEF SessionInv, Finished, Goto, Released, Spend, flows, Sessions, TypeOK, Kinds, LockKept,
       IsFlow, Flow, Job
<1>5. HoldersClose'
  BY SessionAssumption DEF SessionInv, Finished, Goto, Released, Spend, flows, HoldersClose, TypeOK, Kinds,
       Sessions, LockKept, Closing, IsFlow, Flow, Job
<1> QED BY <1>1, <1>2, <1>3, <1>4, <1>5 DEF SessionInv

\* ... and what is owed is still to be delivered.
LEMMA FinishedDelivers ==
    ASSUME DeliveryInv, SessionInv', NEW c \in Client, Finished(c)
    PROVE  DeliveryInv'
<1>1. Pending'
  BY SessionAssumption DEF DeliveryInv, SessionInv, Finished, Goto, Released, Spend, flows, Pending, TypeOK,
       Kinds, Sessions, LockKept, IsFlow, Flow, Job
<1>2. Delivered'
  BY SessionAssumption DEF DeliveryInv, SessionInv, Finished, Goto, Released, Spend, flows, Delivered, TypeOK,
       Kinds, Sessions, LockKept, Pending, ClosedFirst, Handing, IsFlow, Flow, Job
<1>3. ClosedFirst'
  BY SessionAssumption DEF DeliveryInv, SessionInv, Finished, Goto, Released, Spend, flows, ClosedFirst, TypeOK,
       Kinds, Sessions, LockKept, Pending, IsFlow, Flow, Job
<1> QED BY <1>1, <1>2, <1>3 DEF DeliveryInv

\* The file is handed over.
LEMMA HandOverSafe ==
    ASSUME SessionInv, NEW c \in Client, HandOver(c)
    PROVE  SessionInv'
<1>1. TypeOK'
  BY SessionAssumption DEF SessionInv, HandOver, Goto, IsFlow, Flow, history, TypeOK, Outcome, Job, Kind
<1>2. LockKept'
  BY SessionAssumption DEF SessionInv, HandOver, Goto, IsFlow, Flow, history, LockKept, TypeOK, Kinds, Sessions
<1>3. Kinds'
  BY SessionAssumption DEF SessionInv, HandOver, Goto, IsFlow, Flow, history, Kinds, TypeOK, Sessions, Job
<1>4. Sessions'
  BY SessionAssumption DEF SessionInv, HandOver, Goto, IsFlow, Flow, history, Sessions, TypeOK, Kinds, LockKept,
       Job
<1>5. HoldersClose'
  BY SessionAssumption DEF SessionInv, HandOver, Goto, IsFlow, Flow, history, HoldersClose, TypeOK, Kinds,
       Sessions, LockKept, Closing, Job
<1> QED BY <1>1, <1>2, <1>3, <1>4, <1>5 DEF SessionInv

\* ... and what is owed is still to be delivered.
LEMMA HandOverDelivers ==
    ASSUME DeliveryInv, SessionInv', NEW c \in Client, HandOver(c)
    PROVE  DeliveryInv'
<1>1. Pending'
  BY SessionAssumption DEF DeliveryInv, SessionInv, HandOver, Goto, IsFlow, Flow, history, Pending, TypeOK,
       Kinds, Sessions, LockKept, Job
<1>2. Delivered'
  BY SessionAssumption DEF DeliveryInv, SessionInv, HandOver, Goto, IsFlow, Flow, history, Delivered, TypeOK,
       Kinds, Sessions, LockKept, Pending, ClosedFirst, Handing, Job
<1>3. ClosedFirst'
  BY SessionAssumption DEF DeliveryInv, SessionInv, HandOver, Goto, IsFlow, Flow, history, ClosedFirst, TypeOK,
       Kinds, Sessions, LockKept, Pending, Job
<1> QED BY <1>1, <1>2, <1>3 DEF DeliveryInv

\* The outcome is told.
LEMMA TellSafe ==
    ASSUME SessionInv, NEW c \in Client, Tell(c)
    PROVE  SessionInv'
<1>1. TypeOK'
  BY SessionAssumption DEF SessionInv, Tell, Goto, flows, history, TypeOK, Outcome, Job, Flow, Kind
<1>2. LockKept'
  BY SessionAssumption DEF SessionInv, Tell, Goto, flows, history, LockKept, TypeOK, Kinds, Sessions
<1>3. Kinds'
  BY SessionAssumption DEF SessionInv, Tell, Goto, flows, history, Kinds, TypeOK, Sessions, IsFlow, Flow, Job
<1>4. Sessions'
  BY SessionAssumption DEF SessionInv, Tell, Goto, flows, history, Sessions, TypeOK, Kinds, LockKept, IsFlow,
       Flow, Job
<1>5. HoldersClose'
  BY SessionAssumption DEF SessionInv, Tell, Goto, flows, history, HoldersClose, TypeOK, Kinds, Sessions,
       LockKept, Closing, IsFlow, Flow, Job
<1> QED BY <1>1, <1>2, <1>3, <1>4, <1>5 DEF SessionInv

\* ... and what is owed is still to be delivered.
LEMMA TellDelivers ==
    ASSUME DeliveryInv, SessionInv', NEW c \in Client, Tell(c)
    PROVE  DeliveryInv'
<1>1. Pending'
  BY SessionAssumption DEF DeliveryInv, SessionInv, Tell, Goto, flows, history, Pending, TypeOK, Kinds, Sessions,
       LockKept, IsFlow, Flow, Job
<1>2. Delivered'
  BY SessionAssumption DEF DeliveryInv, SessionInv, Tell, Goto, flows, history, Delivered, TypeOK, Kinds,
       Sessions, LockKept, Pending, ClosedFirst, Handing, IsFlow, Flow, Job
<1>3. ClosedFirst'
  BY SessionAssumption DEF DeliveryInv, SessionInv, Tell, Goto, flows, history, ClosedFirst, TypeOK, Kinds,
       Sessions, LockKept, Pending, IsFlow, Flow, Job
<1> QED BY <1>1, <1>2, <1>3 DEF DeliveryInv

\* A login ends, in a session that is not closed.
LEMMA LoginEndsSafe ==
    ASSUME SessionInv, NEW c \in Client, LoginEnds(c)
    PROVE  SessionInv'
<1>1. TypeOK'
  BY SessionAssumption DEF SessionInv, LoginEnds, Unread, flows, TypeOK, Outcome, Job, Flow, Kind
<1>2. LockKept'
  BY SessionAssumption DEF SessionInv, LoginEnds, Unread, flows, LockKept, TypeOK, Kinds, Sessions
<1>3. Kinds'
  BY SessionAssumption DEF SessionInv, LoginEnds, Unread, flows, Kinds, TypeOK, Sessions, IsFlow, Flow, Job
<1>4. Sessions'
  BY SessionAssumption DEF SessionInv, LoginEnds, Unread, flows, Sessions, TypeOK, Kinds, LockKept, IsFlow, Flow,
       Job
<1>5. HoldersClose'
  BY SessionAssumption DEF SessionInv, LoginEnds, Unread, flows, HoldersClose, TypeOK, Kinds, Sessions, LockKept,
       Closing, IsFlow, Flow, Job
<1> QED BY <1>1, <1>2, <1>3, <1>4, <1>5 DEF SessionInv

\* ... and what is owed is still to be delivered.
LEMMA LoginEndsDelivers ==
    ASSUME DeliveryInv, SessionInv', NEW c \in Client, LoginEnds(c)
    PROVE  DeliveryInv'
<1>1. Pending'
  BY SessionAssumption DEF DeliveryInv, SessionInv, LoginEnds, Unread, flows, Pending, TypeOK, Kinds, Sessions,
       LockKept, IsFlow, Flow, Job
<1>2. Delivered'
  BY SessionAssumption DEF DeliveryInv, SessionInv, LoginEnds, Unread, flows, Delivered, TypeOK, Kinds, Sessions,
       LockKept, Pending, ClosedFirst, Handing, IsFlow, Flow, Job
<1>3. ClosedFirst'
  BY SessionAssumption DEF DeliveryInv, SessionInv, LoginEnds, Unread, flows, ClosedFirst, TypeOK, Kinds,
       Sessions, LockKept, Pending, IsFlow, Flow, Job
<1> QED BY <1>1, <1>2, <1>3 DEF DeliveryInv

\* A flow without a session asks for one again.
LEMMA OpenAgainSafe ==
    ASSUME SessionInv, NEW c \in Client, OpenAgain(c)
    PROVE  SessionInv'
<1>1. TypeOK'
  BY SessionAssumption, SpendType DEF SessionInv, OpenAgain, Goto, Spend, flows, history, TypeOK, Outcome, Job,
       Flow, Kind
<1>2. LockKept'
  BY SessionAssumption DEF SessionInv, OpenAgain, Goto, Spend, flows, history, LockKept, TypeOK, Kinds, Sessions
<1>3. Kinds'
  BY SessionAssumption DEF SessionInv, OpenAgain, Goto, Spend, flows, history, Kinds, TypeOK, Sessions, IsFlow,
       Flow, Job
<1>4. Sessions'
  BY SessionAssumption DEF SessionInv, OpenAgain, Goto, Spend, flows, history, Sessions, TypeOK, Kinds, LockKept,
       IsFlow, Flow, Job
<1>5. HoldersClose'
  BY SessionAssumption DEF SessionInv, OpenAgain, Goto, Spend, flows, history, HoldersClose, TypeOK, Kinds,
       Sessions, LockKept, Closing, IsFlow, Flow, Job
<1> QED BY <1>1, <1>2, <1>3, <1>4, <1>5 DEF SessionInv

\* ... and what is owed is still to be delivered.
LEMMA OpenAgainDelivers ==
    ASSUME DeliveryInv, SessionInv', NEW c \in Client, OpenAgain(c)
    PROVE  DeliveryInv'
<1>1. Pending'
  BY SessionAssumption DEF DeliveryInv, SessionInv, OpenAgain, Goto, Spend, flows, history, Pending, TypeOK,
       Kinds, Sessions, LockKept, IsFlow, Flow, Job
<1>2. Delivered'
  BY SessionAssumption DEF DeliveryInv, SessionInv, OpenAgain, Goto, Spend, flows, history, Delivered, TypeOK,
       Kinds, Sessions, LockKept, Pending, ClosedFirst, Handing, IsFlow, Flow, Job
<1>3. ClosedFirst'
  BY SessionAssumption DEF DeliveryInv, SessionInv, OpenAgain, Goto, Spend, flows, history, ClosedFirst, TypeOK,
       Kinds, Sessions, LockKept, Pending, IsFlow, Flow, Job
<1> QED BY <1>1, <1>2, <1>3 DEF DeliveryInv

\* A flow begins a login in its session.
LEMMA LoginStartSafe ==
    ASSUME SessionInv, NEW c \in Client, LoginStart(c)
    PROVE  SessionInv'
<1>1. TypeOK'
  BY SessionAssumption, SpendType DEF SessionInv, LoginStart, Spend, flows, history, TypeOK, Outcome, Job, Flow,
       Kind
<1>2. LockKept'
  BY SessionAssumption DEF SessionInv, LoginStart, Spend, flows, history, LockKept, TypeOK, Kinds, Sessions
<1>3. Kinds'
  BY SessionAssumption DEF SessionInv, LoginStart, Spend, flows, history, Kinds, TypeOK, Sessions, IsFlow, Flow,
       Job
<1>4. Sessions'
  BY SessionAssumption DEF SessionInv, LoginStart, Spend, flows, history, Sessions, TypeOK, Kinds, LockKept,
       IsFlow, Flow, Job
<1>5. HoldersClose'
  BY SessionAssumption DEF SessionInv, LoginStart, Spend, flows, history, HoldersClose, TypeOK, Kinds, Sessions,
       LockKept, Closing, IsFlow, Flow, Job
<1> QED BY <1>1, <1>2, <1>3, <1>4, <1>5 DEF SessionInv

\* ... and what is owed is still to be delivered.
LEMMA LoginStartDelivers ==
    ASSUME DeliveryInv, SessionInv', NEW c \in Client, LoginStart(c)
    PROVE  DeliveryInv'
<1>1. Pending'
  BY SessionAssumption DEF DeliveryInv, SessionInv, LoginStart, Spend, flows, history, Pending, TypeOK, Kinds,
       Sessions, LockKept, IsFlow, Flow, Job
<1>2. Delivered'
  BY SessionAssumption DEF DeliveryInv, SessionInv, LoginStart, Spend, flows, history, Delivered, TypeOK, Kinds,
       Sessions, LockKept, Pending, ClosedFirst, Handing, IsFlow, Flow, Job
<1>3. ClosedFirst'
  BY SessionAssumption DEF DeliveryInv, SessionInv, LoginStart, Spend, flows, history, ClosedFirst, TypeOK,
       Kinds, Sessions, LockKept, Pending, IsFlow, Flow, Job
<1> QED BY <1>1, <1>2, <1>3 DEF DeliveryInv

\* A flow goes on from its login.
LEMMA SyncSafe ==
    ASSUME SessionInv, NEW c \in Client, Sync(c)
    PROVE  SessionInv'
<1>1. TypeOK'
  BY SessionAssumption DEF SessionInv, Sync, Close, Goto, history, TypeOK, Outcome, Job, Flow, Kind
<1>2. LockKept'
  BY SessionAssumption DEF SessionInv, Sync, Close, Goto, history, LockKept, TypeOK, Kinds, Sessions
<1>3. Kinds'
  BY SessionAssumption DEF SessionInv, Sync, Close, Goto, history, Kinds, TypeOK, Sessions, IsFlow, Flow, Job
<1>4. Sessions'
  BY SessionAssumption DEF SessionInv, Sync, Close, Goto, history, Sessions, TypeOK, Kinds, LockKept, IsFlow,
       Flow, Job
<1>5. HoldersClose'
  BY SessionAssumption DEF SessionInv, Sync, Close, Goto, history, HoldersClose, TypeOK, Kinds, Sessions,
       LockKept, Closing, IsFlow, Flow, Job
<1> QED BY <1>1, <1>2, <1>3, <1>4, <1>5 DEF SessionInv

\* ... and what is owed is still to be delivered.
LEMMA SyncDelivers ==
    ASSUME DeliveryInv, SessionInv', NEW c \in Client, Sync(c)
    PROVE  DeliveryInv'
<1>1. Pending'
  BY SessionAssumption DEF DeliveryInv, SessionInv, Sync, Close, Goto, history, Pending, TypeOK, Kinds, Sessions,
       LockKept, IsFlow, Flow, Job
<1>2. Delivered'
  BY SessionAssumption DEF DeliveryInv, SessionInv, Sync, Close, Goto, history, Delivered, TypeOK, Kinds,
       Sessions, LockKept, Pending, ClosedFirst, Handing, IsFlow, Flow, Job
<1>3. ClosedFirst'
  BY SessionAssumption DEF DeliveryInv, SessionInv, Sync, Close, Goto, history, ClosedFirst, TypeOK, Kinds,
       Sessions, LockKept, Pending, IsFlow, Flow, Job
<1> QED BY <1>1, <1>2, <1>3 DEF DeliveryInv

\* A flow has published its devices.
LEMMA SubmitSafe ==
    ASSUME SessionInv, NEW c \in Client, Submit(c)
    PROVE  SessionInv'
<1>1. TypeOK'
  BY SessionAssumption DEF SessionInv, Submit, Close, Goto, flows, history, TypeOK, Outcome, Job, Flow, Kind
<1>2. LockKept'
  BY SessionAssumption DEF SessionInv, Submit, Close, Goto, flows, history, LockKept, TypeOK, Kinds, Sessions
<1>3. Kinds'
  BY SessionAssumption DEF SessionInv, Submit, Close, Goto, flows, history, Kinds, TypeOK, Sessions, IsFlow,
       Flow, Job
<1>4. Sessions'
  BY SessionAssumption DEF SessionInv, Submit, Close, Goto, flows, history, Sessions, TypeOK, Kinds, LockKept,
       IsFlow, Flow, Job
<1>5. HoldersClose'
  BY SessionAssumption DEF SessionInv, Submit, Close, Goto, flows, history, HoldersClose, TypeOK, Kinds,
       Sessions, LockKept, Closing, IsFlow, Flow, Job
<1> QED BY <1>1, <1>2, <1>3, <1>4, <1>5 DEF SessionInv

\* ... and what is owed is still to be delivered.
LEMMA SubmitDelivers ==
    ASSUME DeliveryInv, SessionInv', NEW c \in Client, Submit(c)
    PROVE  DeliveryInv'
<1>1. Pending'
  BY SessionAssumption DEF DeliveryInv, SessionInv, Submit, Close, Goto, flows, history, Pending, TypeOK, Kinds,
       Sessions, LockKept, IsFlow, Flow, Job
<1>2. Delivered'
  BY SessionAssumption DEF DeliveryInv, SessionInv, Submit, Close, Goto, flows, history, Delivered, TypeOK,
       Kinds, Sessions, LockKept, Pending, ClosedFirst, Handing, IsFlow, Flow, Job
<1>3. ClosedFirst'
  BY SessionAssumption DEF DeliveryInv, SessionInv, Submit, Close, Goto, flows, history, ClosedFirst, TypeOK,
       Kinds, Sessions, LockKept, Pending, IsFlow, Flow, Job
<1> QED BY <1>1, <1>2, <1>3 DEF DeliveryInv

\* A flow goes on without its login.
LEMMA LoginFailedSafe ==
    ASSUME SessionInv, NEW c \in Client, LoginFailed(c)
    PROVE  SessionInv'
<1>1. TypeOK'
  BY SessionAssumption DEF SessionInv, LoginFailed, Close, Goto, flows, history, TypeOK, Outcome, Job, Flow,
       Kind
<1>2. LockKept'
  BY SessionAssumption DEF SessionInv, LoginFailed, Close, Goto, flows, history, LockKept, TypeOK, Kinds,
       Sessions
<1>3. Kinds'
  BY SessionAssumption DEF SessionInv, LoginFailed, Close, Goto, flows, history, Kinds, TypeOK, Sessions, IsFlow,
       Flow, Job
<1>4. Sessions'
  BY SessionAssumption DEF SessionInv, LoginFailed, Close, Goto, flows, history, Sessions, TypeOK, Kinds,
       LockKept, IsFlow, Flow, Job
<1>5. HoldersClose'
  BY SessionAssumption DEF SessionInv, LoginFailed, Close, Goto, flows, history, HoldersClose, TypeOK, Kinds,
       Sessions, LockKept, Closing, IsFlow, Flow, Job
<1> QED BY <1>1, <1>2, <1>3, <1>4, <1>5 DEF SessionInv

\* ... and what is owed is still to be delivered.
LEMMA LoginFailedDelivers ==
    ASSUME DeliveryInv, SessionInv', NEW c \in Client, LoginFailed(c)
    PROVE  DeliveryInv'
<1>1. Pending'
  BY SessionAssumption DEF DeliveryInv, SessionInv, LoginFailed, Close, Goto, flows, history, Pending, TypeOK,
       Kinds, Sessions, LockKept, IsFlow, Flow, Job
<1>2. Delivered'
  BY SessionAssumption DEF DeliveryInv, SessionInv, LoginFailed, Close, Goto, flows, history, Delivered, TypeOK,
       Kinds, Sessions, LockKept, Pending, ClosedFirst, Handing, IsFlow, Flow, Job
<1>3. ClosedFirst'
  BY SessionAssumption DEF DeliveryInv, SessionInv, LoginFailed, Close, Goto, flows, history, ClosedFirst,
       TypeOK, Kinds, Sessions, LockKept, Pending, IsFlow, Flow, Job
<1> QED BY <1>1, <1>2, <1>3 DEF DeliveryInv

\* A step's close gives back what its session held, and passes on what it owes.
LEMMA ClosedSafe ==
    ASSUME SessionInv, NEW c \in Client, Closed(c)
    PROVE  SessionInv'
<1>a. spent' \in [Kind -> Nat]
  BY SpendType DEF SessionInv, Closed, Released, TypeOK, Kind
<1>b. pc' \in [Client -> {"idle", "lock", "connect", "ready", "work", "login", "watch", "finish",
                          "form", "sync", "close", "hand", "over", "end"}]
  BY DEF SessionInv, Closed, Goto, TypeOK
<1>c. /\ lock' \in Client \cup {NONE} /\ holders' \subseteq Client /\ connected' \subseteq Client
      /\ slow' \subseteq Client
  BY DEF SessionInv, Closed, Released, TypeOK
<1>d. /\ manager' \in [Client -> BOOLEAN] /\ login' \in [Client -> BOOLEAN]
      /\ gone' \in [Client -> BOOLEAN] /\ task' \in [Client -> {"none", "close", "owes", "hand"}]
      /\ owed' \subseteq Client
  BY DEF SessionInv, Closed, TypeOK
<1>1. TypeOK'
  BY <1>a, <1>b, <1>c, <1>d DEF SessionInv, Closed, TypeOK
<1>2. LockKept'
  BY SessionAssumption DEF SessionInv, Closed, Goto, Released, Spend, LockKept, TypeOK, Kinds, Sessions
<1>3. Kinds'
  BY SessionAssumption DEF SessionInv, Closed, Goto, Released, Spend, Kinds, TypeOK, Sessions, IsFlow, Flow, Job
<1>4. Sessions'
  BY SessionAssumption DEF SessionInv, Closed, Goto, Released, Spend, Sessions, TypeOK, Kinds, LockKept, IsFlow,
       Flow, Job
<1>5. HoldersClose'
  BY SessionAssumption DEF SessionInv, Closed, Goto, Released, Spend, HoldersClose, TypeOK, Kinds, Sessions,
       LockKept, Closing, IsFlow, Flow, Job
<1> QED BY <1>1, <1>2, <1>3, <1>4, <1>5 DEF SessionInv

\* ... and what is owed is still to be delivered.
LEMMA ClosedDelivers ==
    ASSUME DeliveryInv, SessionInv', NEW c \in Client, Closed(c)
    PROVE  DeliveryInv'
<1>1. Pending'
  BY SessionAssumption DEF DeliveryInv, SessionInv, Closed, Goto, Released, Spend, Pending, TypeOK, Kinds,
       Sessions, LockKept, IsFlow, Flow, Job
<1>2. Delivered'
  BY SessionAssumption DEF DeliveryInv, SessionInv, Closed, Goto, Released, Spend, Delivered, TypeOK, Kinds,
       Sessions, LockKept, Pending, ClosedFirst, Handing, IsFlow, Flow, Job
<1>3. ClosedFirst'
  BY SessionAssumption DEF DeliveryInv, SessionInv, Closed, Goto, Released, Spend, ClosedFirst, TypeOK, Kinds,
       Sessions, LockKept, Pending, IsFlow, Flow, Job
<1> QED BY <1>1, <1>2, <1>3 DEF DeliveryInv

\* A closed flow leaves its session to a task, unless its own step closes it.
LEMMA RemoveSafe ==
    ASSUME SessionInv, NEW c \in Client, Remove(c)
    PROVE  SessionInv'
<1>1. TypeOK'
  BY SessionAssumption DEF SessionInv, Remove, TypeOK, Outcome, Job, Flow, Kind, IsFlow
<1>2. LockKept'
  BY SessionAssumption DEF SessionInv, Remove, LockKept, TypeOK, Kinds, Sessions
<1>3. Kinds'
  BY SessionAssumption DEF SessionInv, Remove, Kinds, TypeOK, Sessions, IsFlow, Flow, Job
<1>4. Sessions'
  BY SessionAssumption DEF SessionInv, Remove, Sessions, TypeOK, Kinds, LockKept, IsFlow, Flow, Job
<1>5. HoldersClose'
  BY SessionAssumption DEF SessionInv, Remove, HoldersClose, TypeOK, Kinds, Sessions, LockKept, Closing, IsFlow,
       Flow, Job
<1> QED BY <1>1, <1>2, <1>3, <1>4, <1>5 DEF SessionInv

\* ... and what is owed is still to be delivered.
LEMMA RemoveDelivers ==
    ASSUME DeliveryInv, SessionInv', NEW c \in Client, Remove(c)
    PROVE  DeliveryInv'
<1>a. /\ IsFlow(c) /\ ~gone[c] /\ gone' = [gone EXCEPT ![c] = TRUE] /\ login' = [login EXCEPT ![c] = FALSE]
      /\ pc' = IF pc[c] \in {"form", "sync"} THEN [pc EXCEPT ![c] = "end"] ELSE pc
      /\ missed' = IF c \in owed /\ ~login[c] /\ pc[c] # "hand" THEN missed \cup {c} ELSE missed
      /\ UNCHANGED <<lock, holders, connected, current, job, wizard, manager, outcome, owed, slow, left, spent>>
  BY DEF Remove
<1> DEFINE Left == IF login[c] THEN "owes" ELSE IF manager[c] THEN "close" ELSE "none"
<1>0. task \in [Client -> {"none", "close", "owes", "hand"}] /\ task' = [task EXCEPT ![c] = Left]
  BY DEF Remove, DeliveryInv, SessionInv, TypeOK
<1> HIDE DEF Left
<1>b. (login[c] => task'[c] = "owes") /\ \A d \in Client \ {c} : task'[d] = task[d]
  <2>1. login[c] => Left = "owes"
    BY DEF Left
  <2> QED BY <1>0, <2>1
<1>1. Pending'
  <2> SUFFICES ASSUME NEW d \in Client, wizard[d] = "working", d \in connected \ slow
               PROVE  \/ job[d] = "fetch" /\ pc'[d] \in {"watch", "finish"}
                      \/ job[d] = "configure" /\ gone'[d]
                      \/ job[d] = "configure" /\ pc'[d] = "form" /\ manager[d]
                      \/ job[d] = "setup" /\ task'[d] = "owes"
                      \/ job[d] = "setup" /\ pc'[d] = "form" /\ manager[d] /\ login'[d] /\ ~gone'[d]
    BY <1>a DEF Pending
  <2>1. CASE d # c
    BY <1>a, <1>b, <2>1 DEF DeliveryInv, SessionInv, TypeOK, Pending
  <2>2. CASE d = c
    BY <1>a, <1>b, <2>2 DEF DeliveryInv, SessionInv, TypeOK, Kinds, Pending, IsFlow, Flow
  <2> QED BY <2>1, <2>2
<1>2. Delivered'
  <2> SUFFICES ASSUME NEW d \in owed, d \notin missed'
               PROVE  Handing(d)'
    BY <1>a DEF Delivered
  <2> d \in Client /\ Handing(d)
    BY <1>a DEF DeliveryInv, SessionInv, TypeOK, Delivered
  <2>1. CASE d # c
    BY <1>a, <1>b, <2>1 DEF DeliveryInv, SessionInv, TypeOK, Handing
  <2>2. CASE d = c /\ login[c]
    BY <1>a, <1>b, <2>2 DEF Handing
  <2>3. CASE d = c /\ ~login[c]
    <3>1. pc[c] = "hand"
      BY <1>a, <2>3 DEF DeliveryInv, SessionInv, TypeOK
    <3>2. pc'[c] = "hand"
      BY <1>a, <3>1
    <3> QED BY <2>3, <3>2 DEF Handing
  <2> QED BY <2>1, <2>2, <2>3
<1>3. ClosedFirst'
  BY SessionAssumption DEF DeliveryInv, SessionInv, Remove, ClosedFirst, TypeOK, Kinds, Sessions, LockKept,
       Pending, IsFlow, Flow, Job
<1> QED BY <1>1, <1>2, <1>3 DEF DeliveryInv

\* The task closes the session before what it owes.
LEMMA TaskClosesSafe ==
    ASSUME SessionInv, NEW c \in Client, TaskCloses(c)
    PROVE  SessionInv'
<1>1. TypeOK'
  BY SessionAssumption, SpendType DEF SessionInv, TaskCloses, Released, Spend, TypeOK, Outcome, Job, Flow, Kind
<1>2. LockKept'
  BY SessionAssumption DEF SessionInv, TaskCloses, Released, Spend, LockKept, TypeOK, Kinds, Sessions
<1>3. Kinds'
  BY SessionAssumption DEF SessionInv, TaskCloses, Released, Spend, Kinds, TypeOK, Sessions, IsFlow, Flow, Job
<1>4. Sessions'
  BY SessionAssumption DEF SessionInv, TaskCloses, Released, Spend, Sessions, TypeOK, Kinds, LockKept, IsFlow,
       Flow, Job
<1>5. HoldersClose'
  BY SessionAssumption DEF SessionInv, TaskCloses, Released, Spend, HoldersClose, TypeOK, Kinds, Sessions,
       LockKept, Closing, IsFlow, Flow, Job
<1> QED BY <1>1, <1>2, <1>3, <1>4, <1>5 DEF SessionInv

\* ... and what is owed is still to be delivered.
LEMMA TaskClosesDelivers ==
    ASSUME DeliveryInv, SessionInv', NEW c \in Client, TaskCloses(c)
    PROVE  DeliveryInv'
<1>1. Pending'
  BY SessionAssumption DEF DeliveryInv, SessionInv, TaskCloses, Released, Spend, Pending, TypeOK, Kinds,
       Sessions, LockKept, IsFlow, Flow, Job
<1>2. Delivered'
  BY SessionAssumption DEF DeliveryInv, SessionInv, TaskCloses, Released, Spend, Delivered, TypeOK, Kinds,
       Sessions, LockKept, Pending, ClosedFirst, Handing, IsFlow, Flow, Job
<1>3. ClosedFirst'
  BY SessionAssumption DEF DeliveryInv, SessionInv, TaskCloses, Released, Spend, ClosedFirst, TypeOK, Kinds,
       Sessions, LockKept, Pending, IsFlow, Flow, Job
<1> QED BY <1>1, <1>2, <1>3 DEF DeliveryInv

\* The task hands over what is owed.
LEMMA TaskHandsSafe ==
    ASSUME SessionInv, NEW c \in Client, TaskHands(c)
    PROVE  SessionInv'
<1>1. TypeOK'
  BY SessionAssumption DEF SessionInv, TaskHands, history, TypeOK, Outcome, Job, Flow, Kind
<1>2. LockKept'
  BY SessionAssumption DEF SessionInv, TaskHands, history, LockKept, TypeOK, Kinds, Sessions
<1>3. Kinds'
  BY SessionAssumption DEF SessionInv, TaskHands, history, Kinds, TypeOK, Sessions, IsFlow, Flow, Job
<1>4. Sessions'
  BY SessionAssumption DEF SessionInv, TaskHands, history, Sessions, TypeOK, Kinds, LockKept, IsFlow, Flow, Job
<1>5. HoldersClose'
  BY SessionAssumption DEF SessionInv, TaskHands, history, HoldersClose, TypeOK, Kinds, Sessions, LockKept,
       Closing, IsFlow, Flow, Job
<1> QED BY <1>1, <1>2, <1>3, <1>4, <1>5 DEF SessionInv

\* ... and what is owed is still to be delivered.
LEMMA TaskHandsDelivers ==
    ASSUME DeliveryInv, SessionInv', NEW c \in Client, TaskHands(c)
    PROVE  DeliveryInv'
<1>1. Pending'
  BY SessionAssumption DEF DeliveryInv, SessionInv, TaskHands, history, Pending, TypeOK, Kinds, Sessions,
       LockKept, IsFlow, Flow, Job
<1>2. Delivered'
  BY SessionAssumption DEF DeliveryInv, SessionInv, TaskHands, history, Delivered, TypeOK, Kinds, Sessions,
       LockKept, Pending, ClosedFirst, Handing, IsFlow, Flow, Job
<1>3. ClosedFirst'
  BY SessionAssumption DEF DeliveryInv, SessionInv, TaskHands, history, ClosedFirst, TypeOK, Kinds, Sessions,
       LockKept, Pending, IsFlow, Flow, Job
<1> QED BY <1>1, <1>2, <1>3 DEF DeliveryInv

\* What is over is forgotten.
LEMMA EndSafe ==
    ASSUME SessionInv, NEW c \in Client, End(c)
    PROVE  SessionInv'
<1>1. TypeOK'
  BY SessionAssumption DEF SessionInv, End, Over, Goto, TypeOK, Outcome, Job, Flow, Kind
<1>2. LockKept'
  BY SessionAssumption DEF SessionInv, End, Over, Goto, LockKept, TypeOK, Kinds, Sessions
<1>3. Kinds'
  BY SessionAssumption DEF SessionInv, End, Over, Goto, Kinds, TypeOK, Sessions, IsFlow, Flow, Job
<1>4. Sessions'
  BY SessionAssumption DEF SessionInv, End, Over, Goto, Sessions, TypeOK, Kinds, LockKept, IsFlow, Flow, Job
<1>5. HoldersClose'
  BY SessionAssumption DEF SessionInv, End, Over, Goto, HoldersClose, TypeOK, Kinds, Sessions, LockKept, Closing,
       IsFlow, Flow, Job
<1> QED BY <1>1, <1>2, <1>3, <1>4, <1>5 DEF SessionInv

\* ... and what is owed is still to be delivered.
LEMMA EndDelivers ==
    ASSUME DeliveryInv, SessionInv', NEW c \in Client, End(c)
    PROVE  DeliveryInv'
<1>1. Pending'
  BY SessionAssumption DEF DeliveryInv, SessionInv, End, Over, Goto, Pending, TypeOK, Kinds, Sessions, LockKept,
       IsFlow, Flow, Job
<1>2. Delivered'
  BY SessionAssumption DEF DeliveryInv, SessionInv, End, Over, Goto, Delivered, TypeOK, Kinds, Sessions,
       LockKept, Pending, ClosedFirst, Handing, IsFlow, Flow, Job
<1>3. ClosedFirst'
  BY SessionAssumption DEF DeliveryInv, SessionInv, End, Over, Goto, ClosedFirst, TypeOK, Kinds, Sessions,
       LockKept, Pending, IsFlow, Flow, Job
<1> QED BY <1>1, <1>2, <1>3 DEF DeliveryInv

\* At the start nobody has anything to hand over.
LEMMA SafeInit == Init => DeliveryInv
BY SessionAssumption DEF Init, DeliveryInv, SessionInv, TypeOK, LockKept, Kinds, Sessions, HoldersClose, Pending,
     Delivered, ClosedFirst, Kind, Job, Flow

\* Every step keeps both parts, whoever takes it.
LEMMA SafeStep ==
    ASSUME DeliveryInv, [Next]_vars
    PROVE  DeliveryInv'
<1>1. CASE UNCHANGED vars
  BY <1>1 DEF DeliveryInv, SessionInv, TypeOK, LockKept, Kinds, Sessions, HoldersClose, Closing, Pending,
       Delivered, Handing, ClosedFirst, IsFlow, vars, flows, history
<1>2. ASSUME NEW c \in Client, User(c)
      PROVE  DeliveryInv'
  <2>1. CASE List(c) \/ Post(c) \/ Open(c)
    <3>1. PICK what \in Job : Ask(c, what)
      BY <2>1 DEF List, Post, Open, Job, Flow
    <3> QED BY <3>1, AskSafe, AskDelivers DEF DeliveryInv
  <2>2. CASE Cancel(c) \/ EntryGoes(c)
    <3>1. Finish(c, "cancelled") /\ (UNCHANGED current \/ current' = NONE)
      BY <2>2 DEF Cancel, EntryGoes
    <3> QED BY <3>1, FinishSafe, FinishDelivers DEF DeliveryInv, Outcome
  <2>3. CASE OpenAgain(c)
    BY <2>3, OpenAgainSafe, OpenAgainDelivers DEF DeliveryInv
  <2>4. CASE LoginStart(c)
    BY <2>4, LoginStartSafe, LoginStartDelivers DEF DeliveryInv
  <2>5. CASE Sync(c)
    BY <2>5, SyncSafe, SyncDelivers DEF DeliveryInv
  <2>6. CASE Submit(c)
    BY <2>6, SubmitSafe, SubmitDelivers DEF DeliveryInv
  <2>7. CASE LoginFailed(c)
    BY <2>7, LoginFailedSafe, LoginFailedDelivers DEF DeliveryInv
  <2>8. CASE Remove(c)
    BY <2>8, RemoveSafe, RemoveDelivers DEF DeliveryInv
  <2> QED BY <1>2, <2>1, <2>2, <2>3, <2>4, <2>5, <2>6, <2>7, <2>8 DEF User
<1>3. ASSUME NEW c \in Client, Session(c)
      PROVE  DeliveryInv'
  <2>1. CASE TakeLock(c)
    BY <2>1, TakeLockSafe, TakeLockDelivers DEF DeliveryInv
  <2>2. CASE GiveUp(c)
    BY <2>2, GiveUpSafe, GiveUpDelivers DEF DeliveryInv
  <2>3. CASE Connect(c)
    BY <2>3, ConnectSafe, ConnectDelivers DEF DeliveryInv
  <2>4. CASE Ready(c)
    BY <2>4, ReadySafe, ReadyDelivers DEF DeliveryInv
  <2>5. CASE Work(c)
    BY <2>5, WorkSafe, WorkDelivers DEF DeliveryInv
  <2>6. CASE Closed(c)
    BY <2>6, ClosedSafe, ClosedDelivers DEF DeliveryInv
  <2> QED BY <1>3, <2>1, <2>2, <2>3, <2>4, <2>5, <2>6 DEF Session
<1>4. ASSUME NEW c \in Client, Fetch(c) \/ Expire(c)
      PROVE  DeliveryInv'
  <2>1. CASE Login(c)
    BY <2>1, LoginSafe, LoginDelivers DEF DeliveryInv
  <2>2. CASE Watch(c)
    <3>1. Finish(c, wizard[c]) /\ UNCHANGED current /\ wizard[c] \in Outcome
      BY <2>2 DEF Watch, Outcome
    <3> QED BY <3>1, FinishSafe, FinishDelivers DEF DeliveryInv
  <2>3. CASE Expire(c)
    <3>1. Finish(c, "cancelled") /\ UNCHANGED current
      BY <2>3 DEF Expire
    <3> QED BY <3>1, FinishSafe, FinishDelivers DEF DeliveryInv, Outcome
  <2>4. CASE Finished(c)
    BY <2>4, FinishedSafe, FinishedDelivers DEF DeliveryInv
  <2>5. CASE HandOver(c)
    BY <2>5, HandOverSafe, HandOverDelivers DEF DeliveryInv
  <2>6. CASE Tell(c)
    BY <2>6, TellSafe, TellDelivers DEF DeliveryInv
  <2> QED BY <1>4, <2>1, <2>2, <2>3, <2>4, <2>5, <2>6 DEF Fetch
<1>5. ASSUME NEW c \in Client, LoginEnds(c) \/ Task(c) \/ End(c)
      PROVE  DeliveryInv'
  <2>1. CASE LoginEnds(c)
    BY <2>1, LoginEndsSafe, LoginEndsDelivers DEF DeliveryInv
  <2>2. CASE TaskCloses(c)
    BY <2>2, TaskClosesSafe, TaskClosesDelivers DEF DeliveryInv
  <2>3. CASE TaskHands(c)
    BY <2>3, TaskHandsSafe, TaskHandsDelivers DEF DeliveryInv
  <2>4. CASE End(c)
    BY <2>4, EndSafe, EndDelivers DEF DeliveryInv
  <2> QED BY <1>5, <2>1, <2>2, <2>3, <2>4 DEF Task
<1> QED BY <1>1, <1>2, <1>3, <1>4, <1>5 DEF Next

\* The lock, the sessions and what is owed are as the invariant says in every
\* state: the strengthening the theorems below rest on.
THEOREM SessionInvariant == Spec => []DeliveryInv
<1> QED BY SafeInit, SafeStep, PTL DEF Spec

\* The types of the clients' steps, flows, tasks and sessions.
THEOREM SessionTypes == Spec => []TypeOK
<1>1. DeliveryInv => TypeOK
  BY DEF DeliveryInv, SessionInv
<1> QED BY <1>1, SessionInvariant, PTL

\* For any number of requests and flows: one connection at a time under the one
\* client id, and a lock that is held has somebody who will give it back.
THEOREM SessionsExclusive == Spec => []Exclusive
<1>1. ASSUME DeliveryInv
      PROVE  OneConnection
  <2>1. connected \ slow = {} \/ connected \ slow = {lock}
    BY <1>1 DEF DeliveryInv, SessionInv, LockKept
  <2>2. Cardinality(connected \ slow) \in {0, 1}
    BY <2>1, FS_EmptySet, FS_Singleton
  <2> QED BY <2>2 DEF OneConnection
<1>2. ASSUME DeliveryInv
      PROVE  Owned
  BY <1>2, SessionAssumption DEF DeliveryInv, SessionInv, TypeOK, LockKept, Sessions, HoldersClose, Closing,
       Owned, WillRelease, Over
<1> QED BY <1>1, <1>2, SessionInvariant, PTL DEF Exclusive

\* Whoever is over has got what it was owed, but for the logins that ended as
\* their flow or fetch was given up.
THEOREM FilesHandedOver == Spec => []HandedOver
<1>1. DeliveryInv => HandedOver
  BY DEF DeliveryInv, Delivered, Handing, HandedOver, Over
<1> QED BY <1>1, SessionInvariant, PTL

\* What serves a client's file comes after its session has been closed.
THEOREM ServedAlone == Spec => StartsAlone
<1>1. ASSUME DeliveryInv, [Next]_vars, NEW c \in Client, Serves(c)
      PROVE  c \notin (connected \ slow)'
  <2>1. CASE UNCHANGED vars
    BY <1>1, <2>1 DEF Serves, vars
  <2>2. ASSUME NEW d \in Client, HandOver(d)
        PROVE  c \notin (connected \ slow)'
    BY <1>1, <2>2 DEF Serves, HandOver, DeliveryInv, ClosedFirst, history
  <2>3. ASSUME NEW d \in Client, TaskHands(d)
        PROVE  c \notin (connected \ slow)'
    BY <1>1, <2>3 DEF Serves, TaskHands, DeliveryInv, ClosedFirst, history
  <2>4. ASSUME NEW d \in Client, Closed(d)
        PROVE  c \notin (connected \ slow)'
    BY <1>1, <2>4 DEF Serves, Closed, Released
  <2>5. ASSUME NEW d \in Client, End(d)
        PROVE  c \notin (connected \ slow)'
    BY <1>1, <2>5 DEF Serves, End
  <2>6. ASSUME NEW d \in Client, User(d) \/ TakeLock(d) \/ GiveUp(d) \/ Connect(d) \/ Ready(d) \/ Work(d)
                 \/ Login(d) \/ Watch(d) \/ Finished(d) \/ Tell(d) \/ Expire(d) \/ LoginEnds(d) \/ TaskCloses(d)
        PROVE  owed \subseteq owed'
    BY <2>6 DEF User, List, Post, Ask, Cancel, EntryGoes, Open, OpenAgain, LoginStart, Sync, Submit, LoginFailed,
         Remove, TakeLock, GiveUp, Connect, Ready, Work, Login, Watch, Finish, Finished, Tell, Expire, LoginEnds,
         TaskCloses, flows
  <2> QED BY <1>1, <2>1, <2>2, <2>3, <2>4, <2>5, <2>6 DEF Next, Session, Fetch, Task, Serves
<1>2. DeliveryInv /\ [Next]_vars => [\A c \in Client : Serves(c) => c \notin (connected \ slow)']_vars
  BY <1>1
<1> QED BY <1>2, SessionInvariant, PTL DEF Spec, StartsAlone
=============================================================================
