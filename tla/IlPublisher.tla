---------------------------- MODULE IlPublisher ----------------------------
(***************************************************************************)
(* What a service publishes on IL (host/hub.py, host/runner.py and         *)
(* `reconcile_previous` of service.py): the Hub's drivers, one per driven  *)
(* device, the Runner's queue of retained publishes, its timers and the    *)
(* settings being saved, the broker's retained topics, and what a run      *)
(* finds there of the run before.                                          *)
(*                                                                         *)
(* The event loop runs one handler at a time, so one handler is one        *)
(* action; the worker publishes between them, and a crash or a close can   *)
(* take what is still queued.  The queue is kept per device: the order of  *)
(* two devices' topics matters to nothing below.  A driver                 *)
(* (tuya-interpreter) is external: of a record and the overrides it makes  *)
(* a set of properties, or refuses them; presence is Producer's matter.    *)
(***************************************************************************)
EXTENDS Integers, Sequences, FiniteSets, SequencesExt, Functions

CONSTANTS
    Device,     \* device ids
    Foreign,    \* those another producer publishes under the same prefix
    Prop,       \* property names
    Motion,     \* properties of the motion role
    Record,     \* what the device file can say of a device
    Overrides,  \* what the override files can say
    Shape,      \* <<record, overrides>> -> the properties of its driver, or REFUSED
    Budgets,    \* a set of bounds on what happens to the service, by kind
    NONE, REFUSED

Kind == {"sync", "reload", "save", "link", "state", "reconnect", "crash", "stop", "lose", "edit"}

ASSUME PublisherAssumption ==
    /\ Foreign \subseteq Device /\ Motion \subseteq Prop
    /\ Shape \in [Record \X Overrides -> {REFUSED} \cup SUBSET Prop]
    /\ Budgets \subseteq [Kind -> Nat]
    /\ \A ps \in SUBSET Prop : ps # NONE /\ ps # REFUSED

VARIABLES
    phase,                                  \* is there a service? is its Runner stopping?
    devices, drivers, overrides,            \* the Hub: _devices, drivers, _kw['overrides']
    failed, timers, saves, out,             \* the Runner: _failed, _timers, _tasks, _out
    previous,                               \* what `reconcile_previous` has yet to clear
    heard, gets,                            \* the client's _last_conn and _last_state; `get`s sent
    desc, vals,                             \* the broker: retained descriptors and values
    wanted, left, kept, purged, stale,      \* history: see Start, SyncDevices, Purge and Overlook
    spent                                   \* how much of a budget is used

hubVars == <<devices, drivers, overrides>>
runnerVars == <<failed, timers, saves, out>>
brokerVars == <<desc, vals>>
history == <<wanted, left, kept, purged, stale>>
vars == <<phase, hubVars, runnerVars, previous, heard, gets, brokerVars, history, spent>>

(***************************************************************************)
(* Types                                                                   *)
(***************************************************************************)
Partial(S, T) == UNION {[D -> T] : D \in SUBSET S}
Own == Device \ Foreign

\* f, and g where f is not defined (TLC's @@, which the provers cannot expand).
Merge(f, g) == [x \in DOMAIN f \cup DOMAIN g |-> IF x \in DOMAIN f THEN f[x] ELSE g[x]]

Driver == [shape : SUBSET Prop, link : {"none", "up", "down"}, synced : BOOLEAN]
Known == [link : {"none", "up", "down"}, state : BOOLEAN]
Msg == [kind : {"descriptor"}, shape : {NONE} \cup SUBSET Prop]
       \cup [kind : {"values"}, props : SUBSET Prop, on : BOOLEAN]

TypeOK ==
    /\ phase \in {"down", "running", "stopping"}
    /\ devices \in Partial(Own, Record) /\ overrides \in Overrides
    /\ drivers \in Partial(Own, Driver) /\ DOMAIN drivers = DOMAIN devices
    /\ failed \in Partial(Own, Record)
    /\ timers \in SUBSET Device
    /\ saves \in Nat
    /\ out \in [Device -> Seq(Msg)]
    /\ previous \in Partial(Own, SUBSET Prop)
    /\ heard \in [Device -> Known] /\ gets \in SUBSET Device
    /\ desc \in [Device -> {NONE} \cup SUBSET Prop]
    /\ vals \in [Device -> SUBSET Prop]
    /\ wanted \in Partial(Own, Record)
    /\ left \in [Device -> SUBSET Prop] /\ kept \in SUBSET Device /\ purged \in BOOLEAN
    /\ stale \in [Device -> SUBSET Prop]
    /\ spent \in [Kind -> Nat]

Unheard == [d \in Device |-> [link |-> "none", state |-> FALSE]]
NoFun == [d \in {} |-> NONE]

\* The first run finds a clean broker, but for another producer's devices.
Init ==
    /\ phase = "down"
    /\ devices = NoFun /\ drivers = NoFun /\ overrides \in Overrides
    /\ failed = NoFun /\ timers = {} /\ saves = 0 /\ out = [d \in Device |-> <<>>]
    /\ previous = NoFun /\ heard = Unheard /\ gets = {}
    /\ desc = [d \in Device |-> IF d \in Foreign THEN Prop ELSE NONE]
    /\ vals = [d \in Device |-> IF d \in Foreign THEN Prop ELSE {}]
    /\ wanted = NoFun
    /\ left = [d \in Device |-> {}] /\ kept = {} /\ purged = FALSE
    /\ stale = [d \in Device |-> {}]
    /\ spent = [k \in Kind |-> 0]

Spend(kind) ==
    /\ spent' = [spent EXCEPT ![kind] = @ + 1]
    /\ \E b \in Budgets : \A k \in Kind : spent'[k] <= b[k]

(***************************************************************************)
(* What is published                                                       *)
(***************************************************************************)
Values(ps, on) == IF ps = {} THEN <<>> ELSE <<[kind |-> "values", props |-> ps, on |-> on]>>
Descriptor(s) == <<[kind |-> "descriptor", shape |-> s]>>

\* Mutant: the descriptor goes first.
ClearDescriptorFirst(ps) == Descriptor(NONE) \o Values(ps, FALSE)

\* `IlTopics.clear` with the descriptor: that goes last.
Clear(ps) == Values(ps, FALSE) \o Descriptor(NONE)

Available(dr) == dr.synced /\ dr.link # "down"

Shown(dr) == IF Available(dr) THEN Values(dr.shape, TRUE) ELSE <<>>

\* `TuyaDriver.describe`: the descriptor, then the values of a device that is up.
Describe(dr) == Descriptor(dr.shape) \o Shown(dr)

\* `Hub._adopt`: properties the driver before had and this one has not are
\* cleared first.
Adopt(old, new) ==
    Values((old.shape \ new.shape) \cup (old.shape \cap Motion), FALSE) \o Describe(new)

\* A driver made of a record, told what `seed` knows of the device.
Seeded(shape, seed) ==
    [shape |-> shape, link |-> seed.link, synced |-> seed.state /\ seed.link # "down"]

\* The seed of a driver that replaces `dr` when the rules change.
Carried(dr) == [link |-> IF dr.link = "up" THEN "up" ELSE "none", state |-> dr.synced]

\* `set_device` without a seed knows only whether the driver before was linked.
Unseeded(dr) == [link |-> IF dr.link = "up" THEN "up" ELSE "none", state |-> FALSE]

\* Append to the queue; `more` maps devices to publishes.
Queue(more) ==
    out' = [d \in Device |-> IF d \in DOMAIN more THEN out[d] \o more[d] ELSE out[d]]

\* The values an earlier run left that the first driver of a device, one of
\* `new`, does not have: only a driver before it would have them cleared.
Overlook(new) ==
    stale' = [d \in Device |-> IF d \in DOMAIN new \ DOMAIN drivers
                               THEN stale[d] \cup (left[d] \ new[d].shape) ELSE stale[d]]

(***************************************************************************)
(* The devices change                                                      *)
(***************************************************************************)
\* Mutant: only the state is handed over.
SeedStateOnly(d) == [link |-> "none", state |-> heard[d].state]

\* What the client knows of a device it starts to drive (`BridgeClient._seed`,
\* then `set_device`).
Seed(d) ==
    IF heard[d] = Unheard[d] /\ d \in DOMAIN drivers THEN Unseeded(drivers[d]) ELSE heard[d]

\* Mutant: only the descriptors are cleared.
TombstonesDescriptorOnly(want) == [d \in DOMAIN previous \ DOMAIN want |-> Descriptor(NONE)]

\* `on_reconcile`: on the first call, what the run before left of devices no
\* longer wanted is cleared.
Tombstones(want) == [d \in DOMAIN previous \ DOMAIN want |-> Clear(previous[d])]

\* `Runner.sync_devices`, called by `BridgeClient._reconcile` with the records
\* of the registered devices; `forgotten`: devices the client has heard nothing
\* more of since the bridge dropped them.
SyncDevices(want, forgotten, armed) ==
    /\ phase = "running" /\ Spend("sync")
    /\ LET gone == DOMAIN devices \ DOMAIN want
           todo == {d \in DOMAIN want : d \notin DOMAIN devices \/ devices[d] # want[d]}
           made == {d \in todo : Shape[<<want[d], overrides>>] # REFUSED}
           new  == [d \in made |-> Seeded(Shape[<<want[d], overrides>>], Seed(d))]
           said == [d \in gone \cup made |->
                      IF d \in gone THEN Clear(drivers[d].shape)
                      ELSE IF d \in DOMAIN drivers THEN Adopt(drivers[d], new[d])
                      ELSE Describe(new[d])]
       IN /\ Queue(Merge(said, Tombstones(want)))
          /\ devices' = Merge(Restrict(want, made), Restrict(devices, DOMAIN devices \ gone))
          /\ drivers' = Merge(new, Restrict(drivers, DOMAIN devices \ gone))
          /\ failed' = Restrict(want, todo \ made)
          /\ timers' = (timers \ (gone \cup made)) \cup (armed \cap made)
          /\ gets' = gets \cup {d \in made : new[d].link = "up" /\ ~new[d].synced}
          /\ kept' = (kept \ (DOMAIN previous \ DOMAIN want)) \ (gone \cup made)
          /\ left' = [d \in Device |-> IF d \in DOMAIN previous \ DOMAIN want THEN {} ELSE left[d]]
          /\ Overlook(new)
    /\ previous' = NoFun
    /\ heard' = [d \in Device |-> IF d \in forgotten THEN Unheard[d] ELSE heard[d]]
    /\ wanted' = want
    /\ UNCHANGED <<phase, overrides, saves, brokerVars, purged>>

(***************************************************************************)
(* The overrides change                                                    *)
(***************************************************************************)
\* `Hub.reload` is all or nothing.
Accepts(o) == \A d \in DOMAIN devices : Shape[<<devices[d], o>>] # REFUSED

\* The records refused before that would be driven now.
Fixed(o) == {d \in DOMAIN failed : Shape[<<failed[d], o>>] # REFUSED}

\* The drivers that come out different are replaced; then `Runner.reload` tries
\* the records refused before again.
ReloadWith(o, armed) ==
    LET replaced == {d \in DOMAIN devices : Shape[<<devices[d], o>>] # drivers[d].shape}
        between  == [d \in DOMAIN devices |->
                       IF d \in replaced THEN Seeded(Shape[<<devices[d], o>>], Carried(drivers[d]))
                       ELSE drivers[d]]
        fixed    == Fixed(o)
        new      == [d \in fixed |->
                       Seeded(Shape[<<failed[d], o>>],
                              IF d \in DOMAIN devices THEN Unseeded(between[d]) ELSE Unheard[d])]
        first(d) == IF d \in replaced THEN Adopt(drivers[d], between[d]) ELSE <<>>
        then(d)  == IF d \notin fixed THEN <<>>
                    ELSE IF d \in DOMAIN devices THEN Adopt(between[d], new[d]) ELSE Describe(new[d])
    IN /\ overrides' = o
       /\ devices' = Merge(Restrict(failed, fixed), devices)
       /\ drivers' = Merge(new, between)
       /\ failed' = Restrict(failed, DOMAIN failed \ fixed)
       /\ timers' = (timers \ (replaced \cup fixed)) \cup (armed \cap (replaced \cup fixed))
       /\ gets' = gets \cup {d \in replaced : between[d].link = "up" /\ ~between[d].synced}
                       \cup {d \in fixed : new[d].link = "up"}
       /\ Queue([d \in replaced \cup fixed |-> first(d) \o then(d)])
       /\ kept' = kept \ fixed /\ Overlook(new)

\* What the override files say is read and applied, or refused (`OverrideError`).
Apply(o, armed) ==
    /\ \/ Accepts(o) /\ ReloadWith(o, armed)
       \/ ~Accepts(o) /\ UNCHANGED <<hubVars, failed, timers, gets, out, kept, stale>>
    /\ UNCHANGED <<previous, heard, brokerVars, wanted, left, purged>>

\* The watcher found the files changed.
Reload(o, armed) ==
    /\ phase = "running" /\ Spend("reload")
    /\ Apply(o, armed)
    /\ UNCHANGED <<phase, saves>>

\* A setting written through IL: a task saves it in a thread, then reloads.
SaveSettings ==
    /\ phase = "running" /\ DOMAIN devices # {} /\ Spend("save")
    /\ saves' = saves + 1
    /\ UNCHANGED <<phase, hubVars, failed, timers, out, previous, heard, gets, brokerVars, history>>

\* The thread comes back: saved, and reloaded even while the Runner stops.
Saved(o, armed) ==
    /\ saves > 0 /\ saves' = saves - 1
    /\ Apply(o, armed)
    /\ UNCHANGED <<phase, spent>>

\* The files could not be written.
NotSaved ==
    /\ saves > 0 /\ saves' = saves - 1
    /\ UNCHANGED <<phase, hubVars, failed, timers, out, previous, heard, gets, brokerVars, history, spent>>

(***************************************************************************)
(* What the bridge says of a device                                        *)
(***************************************************************************)
\* A link frame: `_on_reply`, then `Hub.on_bridge_message`.
Link(d, up, retained) ==
    /\ phase = "running" /\ Spend("link")
    /\ heard' = [heard EXCEPT ![d].link = IF up THEN "up" ELSE "down"]
    /\ \/ d \notin DOMAIN drivers /\ UNCHANGED <<drivers, out, timers, gets>>
       \/ /\ d \in DOMAIN drivers /\ up
          /\ drivers' = [drivers EXCEPT ![d].link = "up"]
          /\ Queue([e \in {d} |-> Shown(drivers'[d])])
          /\ gets' = IF retained /\ drivers[d].synced THEN gets ELSE gets \cup {d}
          /\ UNCHANGED timers
       \/ /\ d \in DOMAIN drivers /\ ~up
          /\ drivers' = [drivers EXCEPT ![d].link = "down", ![d].synced = FALSE]
          /\ Queue([e \in {d} |-> Values(drivers[d].shape, FALSE)])
          /\ gets' = gets \ {d} /\ timers' = timers \ {d}
    /\ UNCHANGED <<phase, devices, overrides, failed, saves, previous, brokerVars, history>>

\* A state, of its own accord or as the answer to a `get`; the driver may want
\* to be called again.
State(d, arms) ==
    /\ phase = "running" /\ heard[d].link # "down"
    /\ \/ d \in gets /\ UNCHANGED spent
       \/ d \notin gets /\ Spend("state")
    /\ heard' = [heard EXCEPT ![d].state = TRUE]
    /\ gets' = gets \ {d}
    /\ \/ d \notin DOMAIN drivers /\ UNCHANGED <<drivers, out, timers>>
       \/ /\ d \in DOMAIN drivers
          /\ drivers' = [drivers EXCEPT ![d].synced = TRUE]
          /\ Queue([e \in {d} |-> Shown(drivers'[d])])
          /\ timers' = IF arms THEN timers \cup {d} ELSE timers
    /\ UNCHANGED <<phase, devices, overrides, failed, saves, previous, brokerVars, history>>

\* `_fire`, which a Runner that no longer accepts ignores.
Fire(d) ==
    /\ d \in timers /\ timers' = timers \ {d}
    /\ \/ phase = "running" /\ d \in DOMAIN drivers /\ Queue([e \in {d} |-> Shown(drivers[d])])
       \/ (phase # "running" \/ d \notin DOMAIN drivers) /\ UNCHANGED out
    /\ UNCHANGED <<phase, hubVars, failed, saves, previous, heard, gets, brokerVars, history, spent>>

\* `_reconnected`: every descriptor again.
Reconnected ==
    /\ phase = "running" /\ Spend("reconnect")
    /\ Queue([d \in DOMAIN drivers |-> Describe(drivers[d])])
    /\ UNCHANGED <<phase, hubVars, failed, timers, saves, previous, heard, gets, brokerVars, history>>

(***************************************************************************)
(* The worker and the broker                                               *)
(***************************************************************************)
\* Mutant: the worker ends with the first call of `stop`.
DeliverWhileRunning(d) ==
    /\ phase = "running" /\ out[d] # <<>>
    /\ LET m == Head(out[d]) IN
       \/ /\ m.kind = "descriptor"
          /\ desc' = [desc EXCEPT ![d] = m.shape]
          /\ out' = [out EXCEPT ![d] = Tail(@)]
          /\ UNCHANGED <<vals, stale>>
       \/ /\ m.kind = "values"
          /\ \E p \in m.props :
               /\ vals' = [vals EXCEPT ![d] = IF m.on THEN @ \cup {p} ELSE @ \ {p}]
               /\ out' = [out EXCEPT ![d] = Values(m.props \ {p}, m.on) \o Tail(@)]
               /\ stale' = [stale EXCEPT ![d] = @ \ {p}]
          /\ UNCHANGED desc
    /\ UNCHANGED <<phase, hubVars, failed, timers, saves, previous, heard, gets, wanted, left, kept, purged, spent>>

\* The next publish of a device reaches the broker, one topic at a time.
Deliver(d) ==
    /\ phase # "down" /\ out[d] # <<>>
    /\ LET m == Head(out[d]) IN
       \/ /\ m.kind = "descriptor"
          /\ desc' = [desc EXCEPT ![d] = m.shape]
          /\ out' = [out EXCEPT ![d] = Tail(@)]
          /\ UNCHANGED <<vals, stale>>
       \/ /\ m.kind = "values"
          /\ \E p \in m.props :
               /\ vals' = [vals EXCEPT ![d] = IF m.on THEN @ \cup {p} ELSE @ \ {p}]
               /\ out' = [out EXCEPT ![d] = Values(m.props \ {p}, m.on) \o Tail(@)]
               /\ stale' = [stale EXCEPT ![d] = @ \ {p}]
          /\ UNCHANGED desc
    /\ UNCHANGED <<phase, hubVars, failed, timers, saves, previous, heard, gets, wanted, left, kept, purged, spent>>

(***************************************************************************)
(* Starting and stopping                                                   *)
(***************************************************************************)
\* `_owned_ids`: devices with a descriptor of this source.
Owned == {d \in Own : desc[d] # NONE}

\* `Service.start`: an empty Hub with the overrides of the files, and what the
\* run before left on the broker.
Start(o) ==
    /\ phase = "down" /\ phase' = "running"
    /\ \/ o = overrides /\ UNCHANGED spent
       \/ o # overrides /\ Spend("edit")
    /\ overrides' = o
    /\ previous' = [d \in Owned |-> vals[d]]
    /\ kept' = Owned /\ left' = vals /\ purged' = FALSE
    /\ UNCHANGED <<devices, drivers, runnerVars, heard, gets, brokerVars, wanted, stale>>

\* `Runner.stop`: nothing is accepted any more, and the timers go.
Stop ==
    /\ phase = "running" /\ phase' = "stopping" /\ Spend("stop")
    /\ timers' = {}
    /\ UNCHANGED <<hubVars, failed, saves, out, previous, heard, gets, brokerVars, history>>

\* `purge_il`: a producer taken out for good, the devices it finds with it.
Purge ==
    /\ phase = "down" /\ ~purged /\ purged' = TRUE
    /\ desc' = [d \in Device |-> IF d \in Owned THEN NONE ELSE desc[d]]
    /\ vals' = [d \in Device |-> IF d \in Owned THEN {} ELSE vals[d]]
    /\ UNCHANGED <<phase, hubVars, runnerVars, previous, heard, gets, wanted, left, kept, stale, spent>>

\* What is lost with the process.
EndRun ==
    /\ phase' = "down"
    /\ devices' = NoFun /\ drivers' = NoFun /\ failed' = NoFun
    /\ saves' = 0 /\ out' = [d \in Device |-> <<>>]
    /\ previous' = NoFun /\ heard' = Unheard /\ gets' = {}
    /\ wanted' = NoFun /\ kept' = {} /\ left' = [d \in Device |-> {}]
    /\ UNCHANGED <<overrides, brokerVars, purged, stale>>

\* Mutant: the timers armed since `stop` stay.
ClosedKeepsTimers ==
    /\ phase = "stopping" /\ saves = 0
    /\ \/ (\A d \in Device : out[d] = <<>>) /\ UNCHANGED spent
       \/ Spend("lose")
    /\ UNCHANGED timers
    /\ EndRun

\* The settings are saved and the queue drained, or the broker was not there in
\* time; a reload meanwhile may have armed timers again.
Closed ==
    /\ phase = "stopping" /\ saves = 0
    /\ \/ (\A d \in Device : out[d] = <<>>) /\ UNCHANGED spent
       \/ Spend("lose")
    /\ timers' = {}
    /\ EndRun

Crash == phase # "down" /\ Spend("crash") /\ timers' = {} /\ EndRun

(***************************************************************************)
(* The specification                                                       *)
(***************************************************************************)
Work ==
    \/ SaveSettings \/ NotSaved \/ Reconnected \/ Stop \/ Closed \/ Crash \/ Purge
    \/ \E d \in Device : Fire(d) \/ Deliver(d)

Inputs ==
    \/ \E want \in Partial(Own, Record), forgotten \in SUBSET Own, armed \in {{}, Own} :
          forgotten \cap DOMAIN want = {} /\ SyncDevices(want, forgotten, armed)
    \/ \E o \in Overrides, armed \in {{}, Own} : Reload(o, armed) \/ Saved(o, armed)
    \/ \E o \in Overrides : Start(o)
    \/ \E d \in Own, up \in BOOLEAN, retained \in BOOLEAN : Link(d, up, retained)
    \/ \E d \in Own, arms \in BOOLEAN : State(d, arms)

Next == Work \/ Inputs

Spec == Init /\ [][Next]_vars

\* The worker publishes, the threads that save come back, and `stop` goes on.
Fairness ==
    /\ \A d \in Device : WF_vars(Deliver(d))
    /\ WF_vars(NotSaved \/ \E o \in Overrides, armed \in {{}, Own} : Saved(o, armed))
    /\ WF_vars(Closed)

FairSpec == Spec /\ Fairness

(***************************************************************************)
(* Properties                                                              *)
(***************************************************************************)
Settled(d) == out[d] = <<>>

\* A value is retained only under a retained descriptor, at every moment and
\* after a crash: only through the descriptor does a later run, or a purge,
\* find the topics of a device (IlTopics.clear, Hub._adopt, _owned_ids).  Left
\* out is a value of an earlier run that the driver of this one does not have
\* and nobody has written since: no driver clears it.
NoOrphan == \A d \in Device : vals[d] \ stale[d] # {} => desc[d] # NONE

\* A record the overrides in effect allow is driven, whatever order the device
\* file, the registry and the overrides changed in (sync_devices, reload).
AcceptedIsDriven ==
    /\ DOMAIN devices \subseteq DOMAIN wanted
    /\ \A d \in DOMAIN wanted :
         Shape[<<wanted[d], overrides>>] # REFUSED => d \in DOMAIN devices /\ devices[d] = wanted[d]

\* Once its queue is drained, a device the Hub drives is on the broker as its
\* driver describes it, and one it does not drive is not there, but for what
\* an earlier run left that the first reconcile did not clear.
OnBroker ==
    phase = "running" => \A d \in Own : Settled(d) =>
        /\ d \in DOMAIN drivers => /\ desc[d] = drivers[d].shape
                                   /\ vals[d] \subseteq drivers[d].shape \cup left[d]
        /\ d \notin DOMAIN drivers => /\ desc[d] # NONE => d \in kept
                                      /\ vals[d] \subseteq left[d]

\* What the device file, the registry and the overrides ask for is what the
\* broker shows in the end.
Mirrors == AcceptedIsDriven /\ OnBroker

\* A timer belongs to a driven device, and none outlives the Runner.
TimersAreDriven == timers \subseteq DOMAIN drivers
IInv == TypeOK /\ TimersAreDriven

\* A driver knows that its device is up if the client ever heard it, and has
\* its state or has asked for it.
HeardIsKnown ==
    \A d \in DOMAIN drivers :
        /\ heard[d].link = "up" => /\ drivers[d].link = "up"
                                   /\ drivers[d].synced \/ d \in gets
        /\ heard[d].link = "none" /\ heard[d].state => drivers[d].synced

\* After a purge, every retained topic the producer left is cleared, however its
\* runs ended (purge_il), with the same exception.
PurgeClears == purged => \A d \in Own : desc[d] = NONE /\ vals[d] \subseteq stale[d]

\* A Runner asked to stop stops, whatever is being saved or queued then.
StopEnds == phase = "stopping" ~> phase = "down"
=============================================================================
