--------------------------- MODULE EntryLifecycle ---------------------------
(***************************************************************************)
(* The config entry in Home Assistant: its setup and the rollback of one   *)
(* that fails, its unload, the restart of its service, what the panel's    *)
(* Options and Settings save and restore around them, the update listener, *)
(* and the device file handed to the service that runs.                    *)
(*                                                                         *)
(* Each process is one request or task of the event loop; a step is what   *)
(* it does between two awaits.  A coroutine that awaits another is a call: *)
(* `ret` holds where it goes on, and `result` what the last call gave it.  *)
(* Home Assistant's own part (`hass.config_entries`) is external: a lock   *)
(* around setup and unload, refusal of a setup of an entry that is not off *)
(* and of an unload in the middle of either, and the listener called in a  *)
(* task of its own.                                                        *)
(***************************************************************************)
EXTENDS Integers, Sequences, FiniteSets, SequencesExt

CONSTANTS
    Proc,       \* tasks that can be under way at once
    Budgets,    \* a set of bounds on what is asked and on what fails, by kind
    NONE

Asked == {"options", "panel", "settings", "reload", "file"}
Fault == {"start", "stop", "part", "refuse", "stuck"}
Kind == Asked \cup Fault

ASSUME EntryAssumption == Budgets \subseteq [Kind -> Nat] /\ NONE \notin Proc

Setting == [panel : BOOLEAN, rest : 0..1, data : 0..1]
Part == {"bridge", "platforms", "retained", "hub"}

VARIABLES
    entry,          \* the entry's state as Home Assistant has it
    stored,         \* its options and data
    runtimes, cur,  \* every RuntimeData made, and the one in hass.data (0: none)
    services,       \* every Service made
    parts,          \* what a setup has started beside the service
    file,           \* the device file: how often it was written
    setupLock, settingsLock,
    listening, reloading,   \* tasks scheduled: of the listener, of a reload
    pc, ret, result, gen, obj, was, want, seen,     \* of each process
    crossed, overtaken, refused, unrestored,    \* history: see NoStray and Settled
    spent

tasks == <<listening, reloading>>
ha == <<entry, stored, tasks>>
made == <<runtimes, cur, services>>
outside == <<parts, file>>
locks == <<setupLock, settingsLock>>
control == <<pc, ret, result>>
locals == <<gen, obj, was, want, seen>>
history == <<crossed, overtaken, refused, unrestored>>
vars == <<ha, made, outside, locks, control, locals, history, spent>>

Label == {"idle", "rlock", "rstop", "rmake", "rdone", "check", "run",
          "setup", "bridge", "read", "store", "platforms", "hub", "sdone", "undo", "undone",
          "unload", "uplatforms", "ulock", "ustop", "uhub", "ubridge",
          "saved", "unsaved", "change", "changed", "rollback", "restored",
          "listened", "reloaded", "end", "fread", "hand"}

TypeOK ==
    /\ entry \in {"off", "setup", "loaded", "unloading", "failed", "stuck"}
    /\ stored \in Setting /\ cur \in 0..Len(runtimes) /\ file \in Nat
    /\ runtimes \in Seq([service : 1..Len(services), options : Setting, lock : Proc \cup {NONE}])
    /\ services \in Seq([gen : 1..Len(runtimes), with : Setting, file : Nat,
                         stack : BOOLEAN, live : 0..2])
    /\ parts \subseteq Part
    /\ setupLock \in Proc \cup {NONE} /\ settingsLock \in Proc \cup {NONE}
    /\ listening \in Nat /\ reloading \in Nat
    /\ pc \in [Proc -> Label] /\ ret \in [Proc -> Seq(Label)]
    /\ result \in [Proc -> {"ok", "no", "raised"}]
    /\ gen \in [Proc -> 0..Len(runtimes)] /\ obj \in [Proc -> 0..Len(services)]
    /\ was \in [Proc -> Setting] /\ want \in [Proc -> Setting] /\ seen \in [Proc -> Nat]
    /\ crossed \in BOOLEAN /\ overtaken \in BOOLEAN /\ refused \in BOOLEAN
    /\ unrestored \in BOOLEAN /\ spent \in [Kind -> Nat]

Defaults == [panel |-> TRUE, rest |-> 0, data |-> 0]

\* Home Assistant has the entry, and is about to set it up.
Init ==
    /\ entry = "off" /\ stored = Defaults
    /\ runtimes = <<>> /\ cur = 0 /\ services = <<>> /\ parts = {} /\ file = 0
    /\ setupLock = NONE /\ settingsLock = NONE /\ listening = 0 /\ reloading = 1
    /\ pc = [p \in Proc |-> "idle"] /\ ret = [p \in Proc |-> <<>>]
    /\ result = [p \in Proc |-> "ok"]
    /\ gen = [p \in Proc |-> 0] /\ obj = [p \in Proc |-> 0]
    /\ was = [p \in Proc |-> Defaults] /\ want = [p \in Proc |-> Defaults]
    /\ seen = [p \in Proc |-> 0]
    /\ crossed = FALSE /\ overtaken = FALSE /\ refused = FALSE /\ unrestored = FALSE
    /\ spent = [k \in Kind |-> 0]

Spend(kind) ==
    /\ spent' = [spent EXCEPT ![kind] = @ + 1]
    /\ \E b \in Budgets : \A k \in Kind : spent'[k] <= b[k]

(***************************************************************************)
(* Going on, calling and returning                                         *)
(***************************************************************************)
Goto(p, label) == pc' = [pc EXCEPT ![p] = label] /\ UNCHANGED <<ret, result>>

Call(p, label, back) ==
    /\ pc' = [pc EXCEPT ![p] = label] /\ ret' = [ret EXCEPT ![p] = <<back>> \o @]
    /\ UNCHANGED result

Return(p, how) ==
    /\ pc' = [pc EXCEPT ![p] = Head(ret[p])] /\ ret' = [ret EXCEPT ![p] = Tail(@)]
    /\ result' = [result EXCEPT ![p] = how]

\* Where a call came back to goes on at once: nothing is awaited there.  Only a
\* save of settings has a step of its own, the clearing, before it goes on.
GoesOn(p) ==
    \/ pc[p] \in {"rdone", "sdone", "undo", "saved", "unsaved", "listened", "changed", "rollback",
                  "restored", "reloaded", "end"}
    \/ pc[p] = "change" /\ (want[p].data = was[p].data \/ result[p] # "ok")

Turn(p) == \A q \in Proc \ {p} : ~GoesOn(q)

Idle(p) == pc[p] = "idle"
\* A new task: which of the idle ones it is makes no difference.
Fresh(p) == Idle(p) /\ Turn(p) /\ p = CHOOSE q \in Proc : Idle(q)
Quiet == (\A p \in Proc : Idle(p)) /\ listening = 0 /\ reloading = 0

\* `async_update_entry`: the listener is called if there is one.
Listens == entry \in {"loaded", "unloading", "stuck"}

Update(new) ==
    /\ stored' = new
    /\ listening' = IF Listens /\ new # stored THEN listening + 1 ELSE listening

SetupLocked(p) == setupLock \in {NONE, p}
\* A reload keeps the lock from its unload to the end of its setup.
SetupUnlock(p) ==
    setupLock' = IF Contains(ret[p], "reloaded") \/ Contains(ret[p], "end") THEN p ELSE NONE

Raised(p, back) ==
    /\ pc' = [pc EXCEPT ![p] = back] /\ result' = [result EXCEPT ![p] = "raised"] /\ UNCHANGED ret

\* Refused at once, or a wait for the lock: the entry may be another by then.
CallSetup(p, back) == IF entry = "off" THEN Call(p, "setup", back) ELSE Raised(p, back)

CallUnload(p, back) ==
    IF entry \in {"setup", "unloading", "stuck"} THEN Raised(p, back) ELSE Call(p, "unload", back)

(***************************************************************************)
(* Service.start and stop, as the entry sees them                          *)
(***************************************************************************)

\* Its options are the entry's at the time it is made, the devices the file's
\* that was just read.
MakeService(g) == [gen |-> g, with |-> stored, file |-> file, stack |-> FALSE, live |-> 0]

Lives(g) == \E s \in DOMAIN services : services[s].gen = g /\ services[s].live > 0

\* The check for another producer on the transport they share, and whatever
\* else fails before a service runs.
Check(p) ==
    /\ pc[p] = "check"
    /\ \/ /\ ~Lives(services[obj[p]].gen) /\ Goto(p, "run") /\ UNCHANGED spent
       \/ /\ Lives(services[obj[p]].gen) /\ Return(p, "raised") /\ UNCHANGED spent
       \/ /\ Spend("start") /\ Return(p, "raised")
    /\ UNCHANGED <<ha, made, outside, locks, locals, history>>

\* The devices it was made with are applied, whatever was handed over before.
Run(p) ==
    /\ pc[p] = "run" /\ Return(p, "ok")
    /\ services' = [services EXCEPT ![obj[p]].stack = TRUE, ![obj[p]].live = @ + 1]
    /\ UNCHANGED <<ha, runtimes, cur, outside, locks, locals, history, spent>>

\* Mutant: a second stop is not told from the first.
StoppedAgain(s) == [services EXCEPT ![s].stack = FALSE, ![s].live = @ - 1]

\* A service that is not running, or not yet, has nothing to stop.
Stopped(s) ==
    [services EXCEPT ![s].stack = FALSE, ![s].live = IF services[s].stack THEN @ - 1 ELSE @]

(***************************************************************************)
(* async_restart_service                                                   *)
(***************************************************************************)
\* Mutant: without the service's lock.
RestartUnlocked(p) ==
    /\ pc[p] = "rlock" /\ Goto(p, "rstop")
    /\ crossed' = (crossed \/ entry # "loaded" \/ gen[p] # cur)
    /\ UNCHANGED <<ha, made, outside, locks, locals, overtaken, refused, unrestored, spent>>

RestartLock(p) ==
    /\ pc[p] = "rlock" /\ runtimes[gen[p]].lock = NONE /\ Goto(p, "rstop")
    /\ runtimes' = [runtimes EXCEPT ![gen[p]].lock = p]
    /\ crossed' = (crossed \/ entry # "loaded" \/ gen[p] # cur)
    /\ UNCHANGED <<ha, cur, services, outside, locks, locals, overtaken, refused, unrestored, spent>>

\* A stop that raises has stopped the service all the same.
RestartStop(p) ==
    /\ pc[p] = "rstop" /\ services' = Stopped(runtimes[gen[p]].service)
    /\ \/ /\ Goto(p, "rmake") /\ UNCHANGED spent
          /\ runtimes' = [runtimes EXCEPT ![gen[p]].options = stored]
       \/ /\ Spend("stop") /\ Return(p, "raised")
          /\ runtimes' = [runtimes EXCEPT ![gen[p]].lock = NONE]
    /\ UNCHANGED <<ha, cur, outside, locks, locals, history>>

RestartMake(p) ==
    /\ pc[p] = "rmake" /\ Call(p, "check", "rdone")
    /\ services' = Append(services, MakeService(gen[p]))
    /\ runtimes' = [runtimes EXCEPT ![gen[p]].service = Len(services')]
    /\ obj' = [obj EXCEPT ![p] = Len(services')]
    /\ UNCHANGED <<ha, cur, outside, locks, gen, was, want, seen, history, spent>>

\* The device file cannot be read: the runtime keeps the service that stopped.
RestartUnread(p) ==
    /\ pc[p] = "rmake" /\ Spend("part") /\ Return(p, "raised")
    /\ runtimes' = [runtimes EXCEPT ![gen[p]].lock = NONE]
    /\ UNCHANGED <<ha, cur, services, outside, locks, locals, history>>

\* Mutant: the lock of a restart that failed is not released.
RestartDoneKeeps(p) ==
    /\ pc[p] = "rdone" /\ Return(p, result[p])
    /\ runtimes' = [runtimes EXCEPT ![gen[p]].lock = IF result[p] = "ok" THEN NONE ELSE p]
    /\ UNCHANGED <<ha, cur, services, outside, locks, locals, history, spent>>

RestartDone(p) ==
    /\ pc[p] = "rdone" /\ Return(p, result[p])
    /\ runtimes' = [runtimes EXCEPT ![gen[p]].lock = NONE]
    /\ UNCHANGED <<ha, cur, services, outside, locks, locals, history, spent>>

Restart(p) == RestartLock(p) \/ RestartStop(p) \/ RestartMake(p) \/ RestartUnread(p) \/ RestartDone(p)

(***************************************************************************)
(* async_setup_entry                                                       *)
(***************************************************************************)
\* With the lock, an entry that another has set up meanwhile is refused.
SetupBegin(p) ==
    /\ pc[p] = "setup" /\ SetupLocked(p)
    /\ \/ /\ entry = "loaded" /\ Return(p, "raised")
          /\ UNCHANGED <<entry, setupLock, refused, unrestored>>
       \/ /\ entry # "loaded" /\ setupLock' = p /\ entry' = "setup" /\ Goto(p, "bridge")
          /\ refused' = FALSE /\ unrestored' = (cur # 0)
    /\ UNCHANGED <<stored, made, outside, settingsLock, tasks, locals, crossed, overtaken, spent>>

Failed(p) == entry' = "failed" /\ SetupUnlock(p) /\ Return(p, "no")

\* A bridge that does not start is stopped by its own start, if that stop does
\* not time out.
SetupBridge(p) ==
    /\ pc[p] = "bridge"
    /\ \/ /\ parts' = parts \cup {"bridge"} /\ Goto(p, "read")
          /\ UNCHANGED <<entry, setupLock, spent>>
       \/ Spend("part") /\ Failed(p) /\ UNCHANGED parts
       \/ Spend("stuck") /\ Failed(p) /\ parts' = parts \cup {"bridge"}
    /\ UNCHANGED <<stored, made, file, settingsLock, tasks, locals, history>>

\* The device file is read first; the service is made after what was retained
\* is restored.  Without either there is only the bridge to stop.
SetupRead(p) ==
    /\ pc[p] = "read"
    /\ \/ /\ Goto(p, "store") /\ UNCHANGED spent
          /\ services' = Append(services, MakeService(Len(runtimes) + 1))
          /\ runtimes' = Append(runtimes, [service |-> Len(services'), options |-> stored,
                                           lock |-> NONE])
          /\ gen' = [gen EXCEPT ![p] = Len(runtimes')]
       \/ Spend("part") /\ Goto(p, "undone") /\ UNCHANGED <<services, runtimes, gen>>
    /\ UNCHANGED <<ha, cur, outside, locks, obj, was, want, seen, history>>

SetupStore(p) ==
    /\ pc[p] = "store"
    /\ \/ /\ cur' = gen[p] /\ Goto(p, "platforms") /\ UNCHANGED spent
          /\ services' = [services EXCEPT ![runtimes[gen[p]].service].with = stored]
          /\ runtimes' = [runtimes EXCEPT ![gen[p]].options = stored]
       \/ Spend("part") /\ Goto(p, "undone") /\ UNCHANGED made
    /\ UNCHANGED <<ha, outside, locks, locals, history>>

SetupPlatforms(p) ==
    /\ pc[p] = "platforms"
    /\ \/ /\ parts' = parts \cup {"retained", "platforms"} /\ Goto(p, "hub") /\ UNCHANGED spent
       \/ /\ parts' = parts \cup {"retained"} /\ Goto(p, "undo") /\ Spend("part")
    /\ UNCHANGED <<ha, made, file, locks, locals, history>>

\* The hub, and then the service that the runtime has by then.
SetupHub(p) ==
    /\ pc[p] = "hub"
    /\ \/ /\ parts' = parts \cup {"hub"} /\ Call(p, "check", "sdone")
          /\ obj' = [obj EXCEPT ![p] = runtimes[gen[p]].service] /\ UNCHANGED spent
       \/ Spend("part") /\ Goto(p, "undo") /\ UNCHANGED <<parts, obj>>
    /\ UNCHANGED <<ha, made, file, locks, gen, was, want, seen, history>>

SetupDone(p) ==
    /\ pc[p] = "sdone"
    /\ IF result[p] = "ok"
       THEN entry' = "loaded" /\ SetupUnlock(p) /\ Return(p, "ok")
       ELSE Goto(p, "undo") /\ UNCHANGED <<entry, setupLock>>
    /\ UNCHANGED <<stored, made, outside, settingsLock, tasks, locals, history, spent>>

\* EmbeddedBridge.stop, after which nothing of `others` is left either.
StopBridge(others) ==
    \/ parts' = parts \ (others \cup {"bridge"}) /\ UNCHANGED spent
    \/ parts' = parts \ others /\ Spend("stuck")

\* What a failed setup had started goes in order, the bridge last; a bridge
\* that does not stop in time is lost sight of.
SetupUndo(p) ==
    /\ pc[p] = "undo" /\ Goto(p, "undone")
    /\ cur' = 0 /\ parts' = parts \ {"platforms"}
    /\ UNCHANGED <<ha, runtimes, services, file, locks, locals, history, spent>>

SetupUndone(p) == /\ pc[p] = "undone" /\ Failed(p) /\ StopBridge({"hub", "retained"})
                  /\ UNCHANGED <<stored, made, file, settingsLock, tasks, locals, history>>

Setup(p) ==
    \/ SetupBegin(p) \/ SetupBridge(p) \/ SetupRead(p) \/ SetupStore(p)
    \/ SetupPlatforms(p) \/ SetupHub(p) \/ SetupDone(p) \/ SetupUndo(p) \/ SetupUndone(p)

(***************************************************************************)
(* async_unload_entry                                                      *)
(***************************************************************************)
\* An entry that is not loaded has nothing to unload, and one whose unload
\* raised stays as it is.
UnloadBegin(p) ==
    /\ pc[p] = "unload" /\ SetupLocked(p)
    /\ \/ entry \in {"off", "failed"} /\ entry' = "off" /\ Return(p, "ok") /\ UNCHANGED <<setupLock, gen>>
       \/ entry = "stuck" /\ Return(p, "no") /\ UNCHANGED <<entry, setupLock, gen>>
       \/ /\ entry = "loaded" /\ setupLock' = p
          /\ entry' = "unloading" /\ Goto(p, "uplatforms")
          /\ gen' = [gen EXCEPT ![p] = cur]
    /\ UNCHANGED <<stored, made, outside, settingsLock, tasks, obj, was, want, seen, history, spent>>

\* Refused, the entry stays as it is.
UnloadPlatforms(p) ==
    /\ pc[p] = "uplatforms"
    /\ \/ /\ parts' = parts \ {"platforms"} /\ Goto(p, "ulock")
          /\ UNCHANGED <<entry, setupLock, refused, spent>>
       \/ /\ Spend("refuse") /\ entry' = "loaded" /\ SetupUnlock(p) /\ Return(p, "no")
          /\ refused' = (refused \/ Contains(ret[p], "reloaded")) /\ UNCHANGED parts
    /\ UNCHANGED <<stored, made, file, settingsLock, tasks, locals, crossed, overtaken,
                   unrestored>>

UnloadLock(p) ==
    /\ pc[p] = "ulock" /\ runtimes[gen[p]].lock = NONE /\ Goto(p, "ustop")
    /\ runtimes' = [runtimes EXCEPT ![gen[p]].lock = p]
    /\ UNCHANGED <<ha, cur, services, outside, locks, locals, history, spent>>

\* Whether or not the stop raises.
UnloadStop(p) ==
    /\ pc[p] = "ustop" /\ Goto(p, "uhub")
    /\ services' = Stopped(runtimes[gen[p]].service)
    /\ runtimes' = [runtimes EXCEPT ![gen[p]].lock = NONE]
    /\ UNCHANGED <<ha, cur, outside, locks, locals, history, spent>>

UnloadHub(p) ==
    /\ pc[p] = "uhub" /\ Goto(p, "ubridge") /\ parts' = parts \ {"hub", "retained"}
    /\ UNCHANGED <<ha, made, file, locks, locals, history, spent>>

\* A bridge that does not stop in time raises before the runtime goes, which
\* Home Assistant takes for a failed unload.
UnloadBridge(p) ==
    /\ pc[p] = "ubridge" /\ SetupUnlock(p) /\ StopBridge({})
    /\ IF "bridge" \in parts'
       THEN entry' = "stuck" /\ Return(p, "no") /\ UNCHANGED cur
       ELSE entry' = "off" /\ Return(p, "ok") /\ cur' = 0
    /\ UNCHANGED <<stored, runtimes, services, file, settingsLock, tasks, locals, history>>

Unload(p) ==
    \/ UnloadBegin(p) \/ UnloadPlatforms(p) \/ UnloadLock(p) \/ UnloadStop(p)
    \/ UnloadHub(p) \/ UnloadBridge(p)

(***************************************************************************)
(* The panel's Options and Settings, and the update listener               *)
(***************************************************************************)
\* The listener leaves a change of the panel alone to the panel.
WithoutPanel(s) == s.rest

\* A process is through; what it remembered is gone.
Rest(p) ==
    /\ pc' = [pc EXCEPT ![p] = "idle"] /\ ret' = [ret EXCEPT ![p] = <<>>]
    /\ result' = [result EXCEPT ![p] = "ok"]
    /\ gen' = [gen EXCEPT ![p] = 0] /\ obj' = [obj EXCEPT ![p] = 0]
    /\ was' = [was EXCEPT ![p] = Defaults] /\ want' = [want EXCEPT ![p] = Defaults]
    /\ seen' = [seen EXCEPT ![p] = 0]

Answer(p) == settingsLock' = NONE /\ Rest(p)

\* A request is answered while the panel is on, one save at a time; the entry
\* may be loaded or not.
Asks(p) == Fresh(p) /\ stored.panel /\ settingsLock = NONE

\* A running entry's options restart its service, told first so that the
\* listener has none of its own to do.
PutOptions(p) ==
    /\ Asks(p) /\ Spend("options")
    /\ settingsLock' = p /\ was' = [was EXCEPT ![p] = stored]
    /\ want' = [want EXCEPT ![p] = [stored EXCEPT !.rest = 1 - @]]
    /\ IF cur # 0
       THEN /\ Call(p, "rlock", "saved") /\ Update(want'[p])
            /\ gen' = [gen EXCEPT ![p] = cur]
            /\ runtimes' = [runtimes EXCEPT ![cur].options = want'[p]]
       ELSE /\ CallUnload(p, "change")
            /\ UNCHANGED <<stored, listening, gen, runtimes>>
    /\ UNCHANGED <<entry, cur, services, outside, setupLock, reloading, obj, seen, history>>

PutSettings(p) ==
    /\ Asks(p) /\ Spend("settings")
    /\ settingsLock' = p /\ was' = [was EXCEPT ![p] = stored]
    /\ want' = [want EXCEPT ![p] = [stored EXCEPT !.data = 1 - @]]
    /\ CallUnload(p, "change")
    /\ UNCHANGED <<ha, made, outside, setupLock, gen, obj, seen, history>>

\* Mutant: the old options are put back, but the service is not started again.
SavedNotAgain(p) ==
    /\ pc[p] = "saved" /\ Answer(p)
    /\ IF result[p] = "ok"
       THEN UNCHANGED <<stored, listening, runtimes>>
       ELSE /\ Update([was[p] EXCEPT !.data = stored.data])
            /\ runtimes' = [runtimes EXCEPT ![gen[p]].options = was[p]]
    /\ UNCHANGED <<entry, cur, services, outside, setupLock, reloading, history, spent>>

\* The service did not start with the new options: the old ones, and again;
\* if that fails too, a reload.
Saved(p) ==
    /\ pc[p] = "saved"
    /\ IF result[p] = "ok"
       THEN Answer(p) /\ UNCHANGED <<stored, listening, runtimes>>
       ELSE /\ Call(p, "rlock", "unsaved") /\ Update([was[p] EXCEPT !.data = stored.data])
            /\ runtimes' = [runtimes EXCEPT ![gen[p]].options = was[p]]
            /\ UNCHANGED <<settingsLock, locals>>
    /\ UNCHANGED <<entry, cur, services, outside, setupLock, reloading, history, spent>>

Unsaved(p) ==
    /\ pc[p] = "unsaved" /\ Answer(p)
    /\ reloading' = IF result[p] = "ok" THEN reloading ELSE reloading + 1
    /\ UNCHANGED <<entry, stored, made, outside, setupLock, listening, history, spent>>

\* Stopped, and the old bridge's topics cleared if it moves, the entry is given
\* the new settings and set up.
Change(p) ==
    /\ pc[p] = "change" /\ result[p] = "ok"
    /\ CallSetup(p, "changed")
    /\ Update(IF want[p].data = was[p].data THEN [want[p] EXCEPT !.data = stored.data]
                                            ELSE [stored EXCEPT !.data = want[p].data])
    /\ UNCHANGED <<entry, made, outside, locks, reloading, locals, history, spent>>

\* A clearing that fails changes nothing, and ends like a setup that does.
ChangeFails(p) ==
    /\ pc[p] = "change" /\ result[p] = "ok" /\ want[p].data # was[p].data
    /\ Spend("part") /\ CallUnload(p, "rollback")
    /\ UNCHANGED <<ha, made, outside, locks, locals, history>>

Unchanged(p) ==
    /\ pc[p] = "change" /\ result[p] # "ok" /\ Answer(p)
    /\ UNCHANGED <<ha, made, outside, setupLock, history, spent>>

Changed(p) ==
    /\ pc[p] = "changed"
    /\ IF result[p] = "ok"
       THEN Answer(p)
       ELSE CallUnload(p, "rollback") /\ UNCHANGED <<settingsLock, locals>>
    /\ UNCHANGED <<ha, made, outside, setupLock, history, spent>>

\* An unload that is refused does not keep the old settings from coming back,
\* one that raises does.  Either way the entry stays what it is, and what it
\* was set up with is not what is stored.
Rollback(p) ==
    /\ pc[p] = "rollback" /\ unrestored' = (unrestored \/ entry # "off")
    /\ IF result[p] = "raised"
       THEN Answer(p) /\ UNCHANGED <<stored, listening>>
       ELSE Update(was[p]) /\ CallSetup(p, "restored") /\ UNCHANGED <<settingsLock, locals>>
    /\ UNCHANGED <<entry, made, outside, setupLock, reloading, crossed, overtaken, refused, spent>>

Restored(p) ==
    /\ pc[p] = "restored" /\ Answer(p)
    /\ UNCHANGED <<ha, made, outside, setupLock, history, spent>>

\* The panel turned on or off, which waits for nothing.
TogglePanel ==
    /\ (\A p \in Proc : ~GoesOn(p)) /\ Spend("panel") /\ Update([stored EXCEPT !.panel = ~@])
    /\ UNCHANGED <<entry, made, outside, locks, reloading, control, locals, history>>

Listen(p) ==
    /\ Fresh(p) /\ listening > 0 /\ listening' = listening - 1
    /\ IF cur # 0 /\ WithoutPanel(runtimes[cur].options) # WithoutPanel(stored)
       THEN Call(p, "rlock", "listened") /\ gen' = [gen EXCEPT ![p] = cur] /\ UNCHANGED runtimes
       ELSE /\ UNCHANGED <<control, gen>>
            /\ runtimes' = [g \in DOMAIN runtimes |->
                               IF g = cur THEN [runtimes[g] EXCEPT !.options = stored] ELSE runtimes[g]]
    /\ UNCHANGED <<entry, stored, cur, services, outside, locks, reloading, obj, was,
                   want, seen, history, spent>>

Listened(p) ==
    /\ pc[p] = "listened" /\ Rest(p)
    /\ reloading' = IF result[p] = "ok" THEN reloading ELSE reloading + 1
    /\ UNCHANGED <<entry, stored, made, outside, locks, listening, history, spent>>

Panel(p) ==
    \/ Saved(p) \/ Unsaved(p) \/ Change(p) \/ ChangeFails(p) \/ Unchanged(p) \/ Changed(p)
    \/ Rollback(p) \/ Restored(p) \/ Listened(p)

(***************************************************************************)
(* Home Assistant's reload, and async_refresh_devices                      *)
(***************************************************************************)
Reload(p) ==
    /\ Fresh(p) /\ setupLock = NONE
    /\ \/ reloading > 0 /\ reloading' = reloading - 1 /\ UNCHANGED spent
       \/ Spend("reload") /\ UNCHANGED reloading
    /\ setupLock' = p /\ CallUnload(p, "reloaded")
    /\ UNCHANGED <<entry, stored, made, outside, settingsLock, listening, locals, history>>

Reloaded(p) ==
    /\ pc[p] = "reloaded"
    /\ IF result[p] = "ok" THEN Call(p, "setup", "end") /\ UNCHANGED <<setupLock, locals>>
                           ELSE setupLock' = NONE /\ Rest(p)
    /\ UNCHANGED <<ha, made, outside, settingsLock, history, spent>>

ReloadEnd(p) ==
    /\ pc[p] = "end" /\ setupLock' = NONE /\ Rest(p)
    /\ UNCHANGED <<ha, made, outside, settingsLock, history, spent>>

\* A login wrote a new device file: to the running service, or the entry is
\* started with it.
Refresh(p) ==
    /\ Fresh(p) /\ Spend("file") /\ file' = file + 1
    /\ IF cur = 0
       THEN /\ reloading' = IF entry # "loaded" THEN reloading + 1 ELSE reloading
            /\ UNCHANGED <<control, gen>>
       ELSE Goto(p, "fread") /\ gen' = [gen EXCEPT ![p] = cur] /\ UNCHANGED reloading
    /\ UNCHANGED <<entry, stored, made, parts, locks, listening, obj, was, want, seen, history>>

\* It is read in a thread of its own, of which the loop hears later.
ReadFile(p) ==
    /\ pc[p] = "fread" /\ Goto(p, "hand") /\ seen' = [seen EXCEPT ![p] = file]
    /\ UNCHANGED <<ha, made, outside, locks, gen, obj, was, want, history, spent>>

\* What was read goes to the service the runtime has by then; one that is not
\* up yet will apply its own.
Hand(p) ==
    /\ pc[p] = "hand" /\ Rest(p)
    /\ LET s == runtimes[gen[p]].service
       IN  /\ services' = [services EXCEPT ![s].file = IF services[s].stack THEN seen[p] ELSE @]
           /\ overtaken' = (overtaken \/ ~services[s].stack \/ seen[p] < services[s].file)
    /\ UNCHANGED <<ha, runtimes, cur, outside, locks, crossed, refused, unrestored, spent>>

\* What a process begins, and what it goes on with.
Begin(p) == PutOptions(p) \/ PutSettings(p) \/ Listen(p) \/ Reload(p) \/ Refresh(p)

Go(p) ==
    /\ Turn(p)
    /\ \/ Check(p) \/ Run(p) \/ Restart(p) \/ Setup(p) \/ Unload(p) \/ Panel(p)
       \/ Reloaded(p) \/ ReloadEnd(p) \/ ReadFile(p) \/ Hand(p)

Next == TogglePanel \/ \E p \in Proc : Begin(p) \/ Go(p)

Spec == Init /\ [][Next]_vars

\* The event loop goes on with what is under way and begins what is scheduled;
\* nobody has to ask for anything.
Fairness ==
    /\ \A p \in Proc : WF_vars(Go(p))
    /\ WF_vars(\E p \in Proc : Listen(p)) /\ WF_vars(reloading > 0 /\ \E p \in Proc : Reload(p))

LiveSpec == Spec /\ Fairness

(***************************************************************************)
(* Properties                                                              *)
(***************************************************************************)
Live == {s \in DOMAIN services : services[s].live > 0}

\* The services that run are none but one: the entry's, with one start of it.
OneService ==
    ~crossed => /\ Cardinality(Live) <= 1
                /\ \A s \in Live : services[s].live = 1 /\ services[s].stack

\* Once nothing goes on, a loaded entry has everything it needs and a service
\* with the options that are stored and the device file that was last written;
\* any other has nothing that runs, but for a bridge whose stop timed out.  Left
\* out are what `crossed`, a restart begun in the middle of a setup or an
\* unload, leads to; and three things that are true of the code:
\*   - `overtaken`: records handed to a service that was just starting, which
\*     applies those it was made with afterwards (service.py:214), or handed
\*     over after newer ones;
\*   - `refused`: a reload that Home Assistant's refusal to unload the platforms
\*     ended, which was to start the service again or to have it read the file;
\*   - `unrestored`: a save that could not unload the entry before it put the
\*     old settings back, because a reload was setting it up or unload was
\*     refused (panel.py:337-344), or a setup of an entry whose unload had left
\*     its runtime.  Stored and in use may then differ until the next setup.
Settled ==
    Quiet /\ ~crossed =>
        \/ /\ entry = "loaded" /\ cur # 0 /\ parts = Part
           /\ LET s == runtimes[cur].service
              IN  \/ Live = {} /\ refused
                  \/ /\ Live = {s}
                     /\ \/ unrestored
                        \/ /\ WithoutPanel(services[s].with) = WithoutPanel(stored)
                           /\ services[s].with.data = stored.data
                     /\ services[s].file = file \/ overtaken \/ refused
        \/ entry \in {"off", "failed"} /\ (cur = 0 \/ unrestored) /\ Live = {} /\ parts \subseteq {"bridge"}
        \/ entry = "stuck" /\ Live = {} /\ parts = {"bridge"}

\* A service runs only with its entry loaded, and once: what "a running
\* entry's options change restarts the service alone" promises.  The restart
\* takes any entry that has a runtime, also in the middle of a setup or an
\* unload, which then leaves the restarted service behind.
NoStray ==
    Quiet => /\ Live # {} => entry = "loaded"
             /\ \A s \in Live : services[s].live = 1 /\ s = runtimes[cur].service

\* Whatever fails, and whatever waits for what, a save is answered and the
\* locks are free again.
Answered ==
    /\ settingsLock # NONE ~> settingsLock = NONE
    /\ []<>(setupLock = NONE /\ \A g \in DOMAIN runtimes : runtimes[g].lock = NONE)
=============================================================================
