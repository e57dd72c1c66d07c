---------------------------- MODULE FollowedFiles ----------------------------
(***************************************************************************)
(* The files a running service follows: the override directory, with the   *)
(* pack's files (PackSync), the user's own and the settings written        *)
(* through IL (`OverrideWatcher`), and the daemon's device file            *)
(* (`DeviceWatcher`).                                                      *)
(*                                                                         *)
(* A watcher looks at the stamp of its files, reads them one after the     *)
(* other in a worker thread, and applies what it read on the event loop;   *)
(* whoever writes a file does so between any two of these steps.  Every    *)
(* write gives the files a stamp they never had: a count stands for it.    *)
(* The bridge holds every device here.                                     *)
(***************************************************************************)
EXTENDS PackSync, Sequences

CONSTANTS
    Device,     \* devices with settings, and records in the device file
    Plans       \* what may happen: a budget of PackSync's beside one of tasks

Task == {"look", "save", "edit", "list", "start", "trouble", "kill"}
Block == {"good", "bad"}    \* a device's settings: the Hub refuses bad ones

ASSUME FollowedAssumption ==
    /\ Plans \subseteq [pack : Budgets, files : [Task -> Nat]]
    /\ Device \cap (Name \cup {"start", "loop"}) = {} /\ "settings" \notin Name
    /\ NONE \notin Device \cup Block \cup Nat \cup {"start", "loop", "snap", "read", "apply", "replace"}

VARIABLES
    phase,              \* the service
    settings, clock,    \* the settings file; the directory's stamp
    listing, listClock, \* the device file, and its stamp
    holder,             \* who has the watcher's lock: "start", "loop", a device, NONE
    step,               \* what the holder does
    stamp, taken,       \* OverrideWatcher._stamp; that of the snapshot being read
    unread, loaded,     \* the files left to read, and what was read
    saving, copy,       \* the block each device's save writes; the file it goes into
    inforce,            \* the overrides of the Hub
    devAt, devStamp, devTaken, devRead, \* DeviceWatcher
    records,            \* the device file as the service has it
    refused, edited, missed,    \* history: see InForce, SaveSpares, ListFollowed
    done                \* how much of a plan is used

dirVars == <<settings, clock>>
listVars == <<listing, listClock>>
watchVars == <<holder, step, stamp, taken, unread, loaded, inforce, refused>>
saveVars == <<saving, copy, edited>>
deviceVars == <<devAt, devStamp, devTaken, devRead, records, missed>>
followed == <<phase, dirVars, listVars, watchVars, saveVars, deviceVars>>

Blocks == [Device -> Block \cup {NONE}]
Listings == [parses : BOOLEAN, ids : SUBSET Device]
Settings == [parses : BOOLEAN, of : Blocks]
Overrides == [pack : [Name -> Content \cup {NONE}], of : Blocks]
Reading == Name \cup {"settings"}

FollowedTypeOK ==
    /\ TypeOK
    /\ phase \in {"down", "starting", "up", "stopping"}
    /\ settings \in Settings /\ clock \in Nat
    /\ listing \in Listings /\ listClock \in Nat
    /\ holder \in Device \cup {"start", "loop", NONE}
    /\ step \in {"snap", "read", "apply", "replace", NONE} /\ (step = NONE) = (holder = NONE)
    /\ stamp \in Nat /\ taken \in Nat /\ unread \subseteq Reading /\ loaded \in Overrides
    /\ saving \in [Device -> Block \cup {"remove", NONE}] /\ copy \in Blocks
    /\ inforce \in Overrides /\ refused \in BOOLEAN /\ edited \in BOOLEAN
    /\ devAt \in {"idle", "read", "apply"} /\ devStamp \in Nat \cup {NONE} /\ devTaken \in Nat
    /\ devRead \subseteq Device /\ records \subseteq Device /\ missed \in BOOLEAN
    /\ done \in [Task -> Nat]

\* A file that does not parse is left out, whole.
NoBlocks == [d \in Device |-> NONE]
Said == IF settings.parses THEN settings.of ELSE NoBlocks
Nothing == [pack |-> Empty, of |-> NoBlocks]

\* A service that runs, with nothing to catch up on.  No more happens than one
\* plan allows.
FollowedInit ==
    /\ Init /\ phase = "up" /\ settings = [parses |-> TRUE, of |-> NoBlocks] /\ clock = 0
    /\ listing = [parses |-> TRUE, ids |-> Device] /\ listClock = 0
    /\ holder = NONE /\ step = NONE /\ stamp = 0 /\ taken = 0 /\ unread = {} /\ loaded = Nothing
    /\ saving = [d \in Device |-> NONE] /\ copy = NoBlocks
    /\ inforce = [pack |-> files, of |-> NoBlocks]
    /\ devAt = "idle" /\ devStamp = 0 /\ devTaken = 0 /\ devRead = {} /\ records = Device
    /\ refused = FALSE /\ edited = FALSE /\ missed = FALSE /\ done = [t \in Task |-> 0]

Fits(p) == (\A k \in Kind : spent[k] <= p.pack[k]) /\ (\A t \in Task : done[t] <= p.files[t])
Within == \E p \in Plans : Fits(p)

Use(task) ==
    /\ \E p \in Plans : Fits(p) /\ done[task] < p.files[task]
    /\ done' = [done EXCEPT ![task] = @ + 1]

(***************************************************************************)
(* The override watcher                                                    *)
(***************************************************************************)
\* `_loop` finds another stamp.
OverridesLook ==
    /\ phase = "up" /\ holder = NONE /\ clock # stamp /\ Use("look")
    /\ holder' = "loop" /\ step' = "snap"
    /\ UNCHANGED <<phase, dirVars, listVars, stamp, taken, unread, loaded, inforce, refused, saveVars, deviceVars>>

\* `_snapshot`: first the stamp, then the files.
TakeSnapshot ==
    /\ step = "snap" /\ step' = "read" /\ taken' = clock /\ unread' = Reading /\ loaded' = Nothing
    /\ UNCHANGED <<phase, dirVars, listVars, holder, stamp, inforce, refused, saveVars, deviceVars, done>>

\* The pack's files come before the user's; among them any order is as good.
Read(x) ==
    /\ step = "read" /\ x \in unread /\ (x = "settings" => unread = {x}) /\ unread' = unread \ {x}
    /\ loaded' = IF x = "settings" THEN [loaded EXCEPT !.of = Said]
                 ELSE [loaded EXCEPT !.pack[x] = files[x]]
    /\ step' = IF unread' = {} THEN "apply" ELSE "read"
    /\ UNCHANGED <<phase, dirVars, listVars, holder, stamp, taken, inforce, refused, saveVars, deviceVars, done>>

\* The Hub takes the overrides whole or not at all.
Driven == {d \in records : inforce.of[d] # "bad"}
Refuses(o) == \E d \in Driven : o.of[d] = "bad"

\* Mutant: a lock given back half way.
ReleaseHolder ==
    /\ holder' = NONE /\ unread' = {} /\ UNCHANGED step
    /\ saving' = [d \in Device |-> IF d = holder THEN NONE ELSE saving[d]]

\* The lock is given back, by a save for good.
Release ==
    /\ holder' = NONE /\ step' = NONE /\ unread' = {}
    /\ saving' = [d \in Device |-> IF d = holder THEN NONE ELSE saving[d]]

\* Mutant: the files' stamp by the time they are applied.
StampNow == stamp' = clock

\* The stamp of before they were read.
Stamp == stamp' = taken

\* What was read is applied, or refused, and its stamp kept either way.
Apply ==
    /\ step = "apply" /\ holder # "start" /\ Release
    /\ Stamp /\ refused' = Refuses(loaded)
    /\ inforce' = IF Refuses(loaded) THEN inforce ELSE loaded
    /\ UNCHANGED <<phase, dirVars, listVars, taken, loaded, copy, edited, deviceVars, done>>

\* Anything else that goes wrong is logged; the loop will see the stamp again.
Trouble ==
    /\ step \in {"snap", "read"} /\ holder # "start" /\ Use("trouble") /\ Release
    /\ UNCHANGED <<phase, dirVars, listVars, stamp, taken, loaded, inforce, refused, copy, edited, deviceVars>>

(***************************************************************************)
(* Settings written through IL                                             *)
(***************************************************************************)
\* `Hub` says a driven device's settings changed, and a task waits for the lock.
AskSave(d) ==
    /\ phase = "up" /\ d \in Driven /\ saving[d] = NONE /\ Use("save")
    /\ \E block \in {"good", "remove"} : saving' = [saving EXCEPT ![d] = block]
    /\ UNCHANGED <<phase, dirVars, listVars, watchVars, copy, edited, deviceVars>>

\* Mutant: the file is read before the lock is had, when the save is asked for.
LockedKeepsCopy(d) == holder' = d /\ UNCHANGED copy

\* `_write_settings` reads the file under the lock, ...
Locked(d) == holder' = d /\ copy' = Said

Save(d) ==
    /\ saving[d] # NONE /\ holder = NONE
    /\ \/ /\ settings.parses /\ Locked(d) /\ step' = "replace" /\ edited' = FALSE
          /\ UNCHANGED <<saving, done>>
       \* ... one that does not parse, or that cannot be written, is left as it is
       \/ /\ IF settings.parses THEN Use("trouble") ELSE UNCHANGED done
          /\ saving' = [saving EXCEPT ![d] = NONE] /\ UNCHANGED <<holder, step, copy, edited>>
    /\ UNCHANGED <<phase, dirVars, listVars, stamp, taken, unread, loaded, inforce, refused, deviceVars>>

\* ... and replaces it; then the directory is read and applied at once.
Replace ==
    /\ step = "replace" /\ step' = "snap" /\ clock' = clock + 1
    /\ settings' = [parses |-> TRUE,
                    of |-> [copy EXCEPT ![holder] = IF saving[holder] = "remove" THEN NONE ELSE saving[holder]]]
    /\ UNCHANGED <<phase, listVars, holder, stamp, taken, unread, loaded, inforce, refused, saveVars, deviceVars, done>>

(***************************************************************************)
(* The device watcher                                                      *)
(***************************************************************************)
DeviceLook ==
    /\ phase = "up" /\ devAt = "idle" /\ listClock # devStamp /\ Use("look")
    /\ devAt' = "read" /\ devTaken' = listClock
    /\ UNCHANGED <<phase, dirVars, listVars, watchVars, saveVars, devStamp, devRead, records, missed>>

\* A file that cannot be read now leaves things as they are, to be looked at
\* again.
DeviceRead ==
    /\ devAt = "read"
    /\ IF listing.parses THEN devAt' = "apply" /\ devRead' = listing.ids /\ UNCHANGED devStamp
                         ELSE devAt' = "idle" /\ devStamp' = NONE /\ UNCHANGED devRead
    /\ UNCHANGED <<phase, dirVars, listVars, watchVars, saveVars, devTaken, records, missed, done>>

DeviceStamp == devStamp' = devTaken

DeviceApply ==
    /\ devAt = "apply" /\ devAt' = "idle" /\ records' = devRead /\ DeviceStamp /\ missed' = FALSE
    /\ UNCHANGED <<phase, dirVars, listVars, watchVars, saveVars, devTaken, devRead, done>>

(***************************************************************************)
(* The service starts, stops and dies                                      *)
(***************************************************************************)
\* The configuration is read with the device file; `load_initial` has the lock
\* to itself.
Start ==
    /\ phase = "down" /\ listing.parses /\ Use("start") /\ phase' = "starting"
    /\ holder' = "start" /\ step' = "snap" /\ records' = listing.ids /\ missed' = FALSE
    /\ UNCHANGED <<dirVars, listVars, stamp, taken, unread, loaded, inforce, refused, saveVars,
                   devAt, devStamp, devTaken, devRead>>

\* A Hub without devices takes any overrides; then the watchers are started.
\* The device watcher takes the file as it is by now for applied.
Ready ==
    /\ step = "apply" /\ holder = "start" /\ phase' = "up" /\ Release
    /\ inforce' = loaded /\ Stamp /\ refused' = FALSE
    /\ devAt' = "idle" /\ devStamp' = listClock
    /\ UNCHANGED <<dirVars, listVars, taken, loaded, copy, edited, devTaken, devRead, records, missed, done>>

\* Nothing of the watchers goes on; a save does, and a sync of the pack.
Halt ==
    /\ devAt' = "idle"
    /\ IF holder = "loop" THEN Release ELSE UNCHANGED <<holder, step, unread, saving>>

\* `Service.stop` waits for the threads that read, which apply nothing more,
\* and for the saves.
Stop ==
    /\ phase = "up" /\ phase' = "stopping" /\ Use("kill") /\ Halt
    /\ UNCHANGED <<dirVars, listVars, stamp, taken, loaded, inforce, refused, copy, edited,
                   devStamp, devTaken, devRead, records, missed>>

Stopped ==
    /\ phase = "stopping" /\ holder = NONE /\ at = "idle" /\ \A d \in Device : saving[d] = NONE
    /\ phase' = "down"
    /\ UNCHANGED <<dirVars, listVars, watchVars, saveVars, deviceVars, done>>

\* The process dies.
Killed ==
    /\ phase # "down" /\ phase' = "down"
    /\ \/ Crash /\ UNCHANGED done
       \/ at = "idle" /\ Use("kill") /\ UNCHANGED vars
    /\ holder' = NONE /\ step' = NONE /\ unread' = {} /\ devAt' = "idle"
    /\ saving' = [d \in Device |-> NONE]
    /\ UNCHANGED <<dirVars, listVars, stamp, taken, loaded, inforce, refused, copy, edited,
                   devStamp, devTaken, devRead, records, missed>>

(***************************************************************************)
(* The owner of the files, and the pack                                    *)
(***************************************************************************)
EditSettings ==
    /\ Use("edit") /\ clock' = clock + 1 /\ settings' \in Settings \ {settings}
    /\ edited' = (edited \/ step = "replace")
    /\ UNCHANGED <<phase, listVars, watchVars, saving, copy, deviceVars>>

EditList ==
    /\ Use("list") /\ listClock' = listClock + 1 /\ listing' \in Listings \ {listing}
    /\ missed' = (missed \/ phase = "starting")
    /\ UNCHANGED <<phase, dirVars, watchVars, saveVars, devAt, devStamp, devTaken, devRead, records>>

\* The pack's task runs with the service; what it or the user writes under the
\* pack's names changes the stamp.
PackStep ==
    /\ ((at = "idle" => phase = "up") /\ Sync) \/ Check \/ Offer \/ \E n \in Name : User(n)
    /\ clock' = IF files' = files THEN clock ELSE clock + 1
    /\ UNCHANGED <<phase, settings, listVars, watchVars, saveVars, deviceVars, done>>

(***************************************************************************)
(* The specification                                                       *)
(***************************************************************************)
Watch ==
    \/ OverridesLook \/ TakeSnapshot \/ Apply \/ Trouble \/ Replace
    \/ DeviceLook \/ DeviceRead \/ DeviceApply
    \/ Start \/ Ready \/ Stop \/ Stopped
    \/ \E x \in Reading : Read(x)
    \/ EditSettings \/ EditList
    \/ \E d \in Device : Save(d) \/ AskSave(d)

FollowedNext == (PackStep /\ Within') \/ (Watch /\ UNCHANGED vars) \/ (Killed /\ Within')

FollowedSpec == FollowedInit /\ [][FollowedNext]_<<vars, followed, done>>

(***************************************************************************)
(* What the watchers promise                                               *)
(***************************************************************************)
\* Whenever the watcher is at rest and has nothing to catch up on, the Hub has
\* the directory as it is, and no mix of before and after, whatever the pack,
\* the user and the saves wrote while it read; unless the Hub refused what was
\* read last: that is not tried again before a file changes.
InForce ==
    phase = "up" /\ holder = NONE /\ stamp = clock /\ ~refused =>
        inforce = [pack |-> files, of |-> Said]

\* The same of the device file, unless it was written while the service
\* started, between being read and the watcher's first stamp.
ListFollowed ==
    phase = "up" /\ devAt = "idle" /\ devStamp = listClock /\ ~missed => records = listing.ids

\* What is applied is what the files say, of whichever watcher has come to rest.
Followed == InForce /\ ListFollowed

\* A save changes its own device's settings only, whoever else saves; but for
\* an edit of the user's between the file being read and being replaced.
SaveSpares ==
    [][step = "replace" /\ step' = "snap" /\ ~edited =>
         \A d \in Device \ {holder} : settings'.of[d] = settings.of[d]]_<<vars, followed>>
=============================================================================
