# rustuya-local: specifications

TLA+ models of rustuya-local, the TLC configurations that check them on small
instances, and TLAPS proofs about them. Paths below are relative to the
repository; `R/` stands for `src/rustuya_local/` and `HA/` for
`custom_components/rustuya/`.

## 1. The system

rustuya-local sits between a **rustuya-bridge** (which talks to Tuya devices and
speaks MQTT) and consumers of **IL** (a set of MQTT topics that describe each
device and carry its properties). A *service* follows the devices a bridge
holds, drives those its own device file knows, and publishes each on IL. It
runs from the command line, as a rustuya-manager plugin, or inside Home
Assistant.

| Component | State | Operations | Talks to |
|---|---|---|---|
| `BridgeClient` (`R/bridge_client.py`) | topic templates; records of the device file; `_registered`, `_registry`, the open status request (`_status_*`); the last link and state heard of each device; command waiters | `start`, `stop`, `_on_config`, `_on_message` (pages, acks, links, states), `sync_devices`, `registry`, `publish_command`, the status timer | bridge (MQTT), `Runner.sync_devices`, `Hub` messages |
| `Hub` (`R/host/hub.py`) | one driver per device, overrides, rule pack | `set_device`, `remove_device`, `reload`, `on_bridge_message`, `on_timer`, writes | tuya-interpreter (external) |
| `Runner` (`R/host/runner.py`) | output queue and its worker, timers, settings tasks, refused records | `start`, `stop`, `sync_devices`, `reload`, `_fire`, `_on_presence`, `_on_probe`, `_reconnected` | IL (MQTT), `BridgeClient.send_command`, override files |
| `Service` (`R/service.py`) | the exit stack of everything above; `_offline`, `_retire` | `start`, `stop`, `purge_il`, rule-pack worker | both transports |
| Files (`R/host/overrides.py`, `devices.py`, `pack.py`) | stamps, a lock, the ledger | `check`, `save_settings`, `_loop`, `sync` | `Runner`, `BridgeClient` |
| `MqttTransport` (`R/host/mqtt.py`) | subscriptions, handler tasks, the paho thread | `connect`, `close`, `subscribe`, `publish`, `_dispatch` | broker |
| rustuya-manager plugin (`R/manager_plugin/`) | the service and its error | `run`, `on_devices` | `Service` |
| Home Assistant (`HA/`) | entry runtime, service lock, session lock, cloud fetch, retained store, embedded bridge | setup, unload, restart, panel views, config flow | `Service`, rustuya-manager |

The **hard part** is what happens between callbacks. The registry is read page
by page while the bridge changes and while other clients' answers arrive on the
same topic. Publishes wait in a queue that a crash or a close can cut anywhere.
Two producers may serve the same IL namespace, and only a retained presence, a
probe and a Last Will tell them of each other. On the other side, one manager session, one
settings file and one config entry are shared by whatever the user, a timer or
Home Assistant does at the moment. What makes each part correct:

* *BridgeClient*: a registry it offers is what the bridge holds; a refresh shows
  what was acknowledged before it; the Hub drives exactly the devices both
  sides know; and it gets there after any loss.
* *Hub and Runner*: what is retained can be found again by a later run; a
  drained queue leaves the broker showing what is driven; a driver knows what
  was heard of its device; no timer outlives its driver; a stop ends.
* *Service*: nobody starts or purges past a producer that answers; a restart has
  no gap; the presence ends up telling the truth; a purge leaves nothing; every
  start and stop ends.
* *Commands*: a caller gets the answer to its own command; a driver starts from
  what was heard of the present stay of its device, and nothing older.
* *Files*: what is applied is what the files say; the pack never touches the
  user's own files, and never loses sight of its own.
* *MqttTransport*: what is subscribed is remembered; a close ends, for everybody.
* *Home Assistant*: at most one service per entry, running what is stored; a save
  is answered; one manager session at a time, which comes back, and hands over
  what it wrote.

`PROJECT.json` lists every component and every hazard with its line.

## 2. The modules

| Module | Lines of the system | Role |
|---|---|---|
| `RegistryCache` | what `BridgeClient.registry` promises | abstract specification: a cache that is fresh only when it is true |
| `BridgeRegistry` | `R/bridge_client.py` 115-480 | the registry: the client, its connection and the bridge |
| `BridgeCommand` | `R/bridge_client.py` 185-465 | commands and their waiters; what was heard of each device |
| `IlPublisher` | `R/host/hub.py`, `runner.py`, `il.py`, `reconcile_previous` | what a service publishes, over several runs |
| `Producer` | `R/service.py`, `producer_running`, `_on_presence`, `_on_probe` | several services and purges on one broker |
| `MqttTransport` | `R/host/mqtt.py`, `transport.py` | paho's thread, the subscriptions, `close` |
| `PackSync` | `R/host/pack.py`, `Service.check_pack` | the rule pack in one directory |
| `FollowedFiles` | `R/host/overrides.py`, `devices.py`, `rules.py`, `async_tools.py` | the watchers and the saves; **composes** `PackSync` |
| `EntryLifecycle` | `HA/__init__.py`, `panel.py` 280-380, `bridge_supervisor.py` | the config entry: setup, unload, restart, saves |
| `ManagerSession` | `HA/manager_session.py`, `config_flow.py`, `panel.py` 380-560 | the one manager session and those who share it |
| `..._proofs` | | theorems about the module before the underscore; those of `FollowedFiles` include `PackSync`'s |
| `MC...` | | budgets and small constants for TLC |

`PROJECT.json` maps each definition to its lines. An operator named as a mutant
in its comment is a wrong version of the one that follows it; it is used by no
specification, only to confirm that a property can tell the two apart.

The modules meet at interfaces that are inputs of one and outputs of the other:
`BridgeRegistry!driven` is what `IlPublisher!SyncDevices` is called with (any
set of records, which is more than the first can produce); all of
`IlPublisher`'s topics are the one variable `shown` in `Producer`;
`FollowedFiles!inforce` are the overrides that `IlPublisher!Reload` is given;
`EntryLifecycle` sees a service as something that starts, stops and may fail to,
which `Producer` shows to come to an end (`Ends`).

Every module counts what its environment does in `spent` and lets it happen
while some member of `Budgets` allows it; a run gives a set of them, and its
behaviours are those of any one. History variables, named as such, are only read
by properties.

### BridgeRegistry

One action is one callback of the event loop; coroutines split where they
suspend. `deliver` runs `_on_config` as a task of its own, so a configuration
can be handled after messages that came behind it and after `stop()`: it goes
from `inbound` to `configTasks` (`DispatchConfig`) and then runs
(`RunConfigTask`). `_apply_templates` awaits subscriptions that never suspend in
`MqttTransport`, so the task is one step, in which `_request_status` is called
once or, when the layout moved, twice. One that runs after `stop` with topics
that moved subscribes the message topic again (`phase` is then `late`), requests
the status and has its pages taken, while the configuration's own topic stays
unsubscribed. `Hears` says when a message is heard, `Listening` when a
configuration is too. The model leaves the transport open after `stop`; in the
code it is closed soon after, or shared with others.

| TLA+ | Code |
|---|---|
| `templates`, `records`, `registered`, `registry`, `ready` | `_templates`, `_records`, `_registered`, `_registry`, `_registry_ready` |
| `since`, `rerun`, `accum`, `offset`, `total` | `_status_since` (`none`, `fresh`, or `expired`: older than `STATUS_CYCLE_TIMEOUT`), `_status_rerun`, `_status_accum`, `_status_offset`, `_status_total` |
| `driven` | the Hub's devices, set by `_reconcile` |
| `requests`, `inbound` | what is on its way to the bridge, and back, in order |
| `held`, `layout`, `announce`, `retained` | the bridge: its device list in its own order, its topics, whether it has yet to republish its config |
| `caller` | one coroutine in `registry()`; after the event is set it runs at any later time |
| `acked`, `known`, `shrunk` | history: devices acknowledged, those acknowledged before the refresh, and whether the bridge removed any of its list since, or before with its news still to come. A page's `whole` is the list it was cut from |

The bridge is external and modelled from how the client uses it: it answers a
status request with one page of its list at that moment, acknowledges every
change, and republishes its retained config after it.

### BridgeCommand

`Caller`s are coroutines in `publish_command`: `Command` registers the waiter
under its key and hands the command to the transport, `Publish` is the QoS 1
publish, then the caller waits and leaves by its `Answered`, by `Expire`, or by
`Stop`; `Leave` is the `finally`. `Kind.error` is a refusal by the bridge or the
transport. A reply (`OnAck`, `OnLink`) goes through `_on_reply`'s order: retained
or not, the waiter first, then the link, then the registry's part. The broker may
deliver a command twice, queues what it cannot deliver, and replays the last
retained reply after a reconnect.

`stay` numbers each device's stays on the bridge and every frame carries the one
it was sent in: the client cannot see it, the properties can. `lastConn`,
`lastState` and `told` (what each driver was told last) hold such news, and
`over` collects the stays the client has learnt are over. The status request is
two pages of any part of the list; its offsets and timers are `BridgeRegistry`'s.
A page carries, as history, what the bridge held when it was cut (`held`), and
`passed` are the devices that were on the bridge all along and on neither page.

### IlPublisher

A service lives through several runs: `Start`, work, `Stop` and `Closed`, or
`Crash`; `phase` says where it is. The Hub's `set_device`, `remove_device` and
`reload` are parts of `SyncDevices` and `Reload`, since the code calls them in
one callback. A driver is a set of properties (`shape`), a link and whether its
state is known; `Shape` gives the properties of a record under overrides or
refuses the pair, which is all the publisher can see of tuya-interpreter. The
queue `_out` is kept per device: topics of two devices never depend on each
other's order. `Deliver` lets the worker reach the broker one topic at a time,
so a crash may fall between any two publishes. `Closed` may also drop the queue
(`lose`): paho discards it when the two-second flush ran out.

History variables: `wanted` (records the last reconcile asked for), `kept`
(descriptors of the run before that no first reconcile has looked at) and `left`
(values of the run before), `purged`, and `stale`: values of an earlier run that
the driver of this one does not have, and that nobody has written since.

### Producer

Clients are services and callers of `purge_il` that share broker, prefix and
source. Each has a queue to the broker and one back; `pc` follows the awaits of
`Service.start`, `producer_running`, `stop` and `purge_il`:

    off -> listen -> probe -> read -> run          start (check, then Runner.start)
                        \-> flush -> off           refused: AnotherProducer
    run -> flush -> off                            stop, restart (offline=False)
    run -> listen -> ... -> clear -> flush -> off  stop for a successor elsewhere
    off -> listen -> ... -> clear -> flush -> off  purge_il

A probe carries a nonce nobody uses at that moment (`Nonce`, the code's random
token). Every timeout of the code is a disjunct that may be taken when its message
cannot come any more (the connection is down, or nothing is under way), plus one
that is taken although the message is coming, bounded by the budget: `slow` for
the check's two waits, `silent` for the half second without a message that ends
`_retained`, `late` for the flush. A reading that ends so finds nothing
(`Unread`), and the history `purged` turns from `alone` (the last purge to begin,
and nobody beside it) to `blind`. `Crash` and `Drop` leave the Last
Will to the broker, which publishes it at any later time (`ghosts`, `Will`).
paho reconnects with a new session, so subscriptions are taken again and only
publishes that were queued are kept; `_reconnected` then publishes the presence
and the devices. Repeated deliveries of QoS 1 are left out: every message here
is idempotent, and its repetition arrives next to it.

### MqttTransport

Two threads. paho's own (`Thread`) connects, goes through `_subs` entry by entry
(`paho`, `index`, `found`: the list may change under it) and appends what it has
for the loop to `queue`, in order; the loop takes from its head. `subs` is the
list of topics in `_subs`, `wire` what the broker has of this session, `up` and
`connected` the connection as paho and as the loop have it. `close` is the
shared `_close_task` (`closeAt`, `closer`), which cancels and awaits every
handler but the one that began it (`doomed`), and the callers that `shield` it:
a caller may be cancelled while it waits (`cancelled`), and goes on waiting.

### PackSync and FollowedFiles

`PackSync` is one `sync` in its worker thread: `Begin` reads manifest and ledger,
each file is looked at and then replaced (the download is in between, so anything
may happen there), the files no longer wanted are looked at and unlinked, and
`Record` writes the ledger. `author` remembers who wrote each file last; a
content stands for its hash. `Offer`, `User` and `Crash` happen at any point.

`FollowedFiles` EXTENDS it with the two watchers and the saves. The override
watcher's lock is `holder`, its progress `step`: snapshot of the stamps, the
files read one by one in a thread (`unread`, `loaded`), applied to the Hub
(`Apply`), which may refuse them. A save holds the same lock and reads, changes
and replaces the settings file (`copy`). Any write of `PackSync` moves the same
stamp (`clock`). The device file has its own watcher (`devAt`, `devStamp`,
`devRead`). Its next state is a step of `PackSync` or one of the watchers', so a
pack file may be replaced between any two reads.

### EntryLifecycle

Each process of `Proc` is a request or task; `pc` is its next step between two
awaits, and a coroutine that awaits another is a call: `ret` is its stack,
`result` what the last call gave. `entry` is Home Assistant's own state of the
entry, `setupLock` its lock, both external. `runtimes` and `services` list every
`RuntimeData` and `Service` ever made, since a task may hold an old one across an
await; `cur` is the one in `hass.data`; `services[s].live` counts the starts that
were not stopped. A `Setting` is what differs between the panel's own switch
(`panel`), the options that need a restart (`rest`) and the entry's data
(`data`). What fails is in the budgets: a start (`start`), a stop (`stop`), a part
(`part`: the bridge, reading the device file, restoring what was retained, the
platforms, the hub, clearing the old bridge's topics), Home Assistant refusing to
unload the platforms (`refuse`), a bridge that does not stop (`stuck`). Home
Assistant also refuses, as it does, a setup of an entry that is not off and an
unload in the middle of either, when asked (`CallSetup`, `CallUnload`), and a setup
again with the lock in hand if the entry was loaded meanwhile (`SetupBegin`). A call that comes back to a
place where nothing is awaited goes on before anything else does (`GoesOn`,
`Turn`). A hand-over reads the device file in a thread (`fread`, `seen`) and
gives it to the service the runtime has by then (`hand`).

History: `crossed` (a restart began in the middle of a setup or an unload, and
nothing else), `overtaken` (a file was handed to a service that had yet to start,
or after a newer one), `refused` (since the last setup Home Assistant refused to
unload the entry for a reload), `unrestored` (since the last setup a save could
not unload the entry before it put the old settings back; or that setup was of an
entry whose unload had left its runtime).

### ManagerSession

A client is one request (`list`, `fetch`) or one flow (`setup`, `configure`),
from its first step to the last task it leaves. Session steps are the lock with
its wait limit (`GiveUp`), `connect`, and the close, which is given up on after
`WAIT` (`slow`). `wizard` is the login; a fetch has its watcher (`Fetch`) and may
be cancelled; a user closes a flow at any step (`Remove`), which leaves the
session, or the file that was written, to a `task`. `owed` are files at which an
entry has yet to look.

## 3. The runs

All runs switch deadlock checking off: when the budget is spent a system that has
settled stops. `PROJECT.json` has, for each property, a mutant of a definition
that the run finds.

| Run | Instance | Properties | Shows |
|---|---|---|---|
| `registry_pages` | 2 devices, pages of 1, 2 layouts, no totals; six budgets: a sync with an add beside a foreign page, a removal, a loss or a stop; a refresh beside adds, a removal, a slow answer, or a move and a stop | `TypeOK` `ReadyIsCurrent` `DrivenIsWanted` `RefreshSeesAcked` `RefinesCache` | a registry offered as ready is the bridge's list; a refresh shows what was acknowledged; the client implements `RegistryCache`; the Hub drives the intersection |
| `registry_live` | 2 devices, 2 layouts; a removal, a foreign page, a loss, a move | `Converges` | the client settles on what the bridge holds |
| `command_answers` | 2 devices, one without a link; 2 callers; eight budgets of commands, foreign commands, refusals, timeouts, second deliveries, losses, links and states | `IInv` `Answers` `Seeds` | a caller gets its own answer; a key is free again; a driver starts from the present stay |
| `publish_crash` | 2 devices and a foreign one, records some overrides refuse; reconciles, reload, crash, a stop with a lost queue; or three runs with edited files and a purge | `NoOrphan` `Mirrors` `PurgeClears` | no value without a descriptor; what is asked for is driven and, drained, on the broker; a purge leaves nothing |
| `publish_rules` | 1 device and a foreign one; links, states, reconnect, reload, a setting saved while stopping | `IInv` `HeardIsKnown` `StopEnds` | no timer without its driver; a driver knows what was heard; a stop ends |
| `producer_shared` | 2 clients; 3 starts, restart, purge, an early timeout; or 2 starts, stop, crash, lost connection | `TypeOK` `CheckFinds` `NoGap` `PresenceTells` | nobody passes a producer that answers; a restart has no gap; once all is said, the presence is right and a purge left nothing but what it took silence for |
| `producer_ends` | 2 clients; a start, a stop and a move beside a failure, a lost connection, a slow, silent or late broker; a purge that loses its connection or meets silence | `PurgedIsGone` `Ends` | everything comes to an end without its broker; a move or a purge leaves nothing but what silence hid |
| `transport_close` | 2 topics, 3 callers, 2 handlers; drops, subscriptions, messages, closes, cancellations | `TypeOK` `InStep` `ClosedForGood` `CloseReturns` | the loop and the broker agree once all is told; a close ends, for good and for everybody |
| `files_followed` | 2 pack files, 2 versions, one bundled; 2 devices; nine plans of syncs, edits, failures, a crash, saves, looks and starts | `FollowedTypeOK` `Kept` `UsersOwn` `CheckTells` `Followed` `SaveSpares` | what is applied is what the files say; the user's files are spared and the pack's owned; a save changes its own device only |
| `entry` | 3 tasks; ten budgets: a save beside another, a reload or new files, with what can fail in each, a refused reload and a rollback that cannot unload included | `TypeOK` `OneService` `Settled` `Answered` | at most one service; at rest the entry runs what is stored, unless a rollback could not unload it, or nothing; a save is answered and locks are free |
| `entry_stray` | an option saved beside a reload, nothing failing | `NoStray` **violated** | a restart in the middle of setup or unload leaves a service behind |
| `session_shared` | 2 clients, every pair of kinds, retry, failure, a slow close | `TypeOK` `Exclusive` `HandedOver` `StartsAlone` `Answered` | one session at a time, which comes back; what was written is handed over, after the session |

**Combined properties.** A property whose name stands for several is their
conjunction, each defined and commented on its own: `Answers` (`OwnAnswer`,
`AnswerReaches`), `Seeds` (`Replayed`, `SeedsFresh`), `Mirrors`
(`AcceptedIsDriven`, `OnBroker`), `PresenceTells` (`RunningIsOnline`,
`StoppedIsOffline`, `PurgedIsGone`), `InStep` (`Remembered`, `Truthful`), `Kept`
(`NeverOrphaned`, `Applied`), `Followed` (`InForce`, `ListFollowed`),
`Exclusive` (`OneConnection`, `Owned`); `IInv` of `BridgeCommand` and of
`IlPublisher` are `TypeOK` with `WaitersAreCallers` and with `TimersAreDriven`.

**Why the bounds are enough.** Two devices in pages of one already give a list of
two pages, so every race between pages, changes and other answers exists. Every
action takes part in some race with at most one or two events of each kind; the
proofs of section 5 cover any number of devices, pages, clients and events for
each module they are about. Two clients are enough for the presence, since a check concerns one
producer and one other, and for the manager session, since a lock concerns its
holder and one that waits. Commands meet only under one key, so two callers and
a foreign client give every collision. A close needs two handlers (the one that
closes, one that is cancelled) and three callers (one cancelled, one that began
it, the one that connects). In `entry`, once a restart has crossed a setup or an
unload (`crossed`), properties but `Answered` claim nothing, and the instance
follows only five smaller budgets from there (`CrossedWithin`), which still cover
each failure after a crossing. Device ids, callers and clients are symmetric;
symmetry is used in the runs without liveness properties only.

**Fairness.** Weak fairness is assumed of: callbacks that are ready (the asyncio
loop runs them); timers (they run out); paho's thread and its reconnection (it
retries for ever); the broker taking and delivering messages, wills included; the
bridge answering what reaches it and announcing what it changed; worker threads
coming back; and, in Home Assistant, the listener and the reload that were
scheduled. In `ManagerSession` it is on the steps of the integration's own
coroutines and their timeouts: each wait has one, but for `manager.__aenter__()`
while the session is opened, which is rustuya-manager's and assumed to end. Nothing is
assumed of the user, who may leave a
flow open for ever, of a login that is never answered, of another producer, of
crashes or of commands. `Converges` and `Ends` also rely on budgets: a
connection that drops for ever never settles.

**Conditions written into properties.** What a property leaves out is a history
variable or a budget it names, so that everything else is claimed.

* `CheckFinds` holds while answers are not slower than the two seconds the check
  waits, `StoppedIsOffline` while the flush is not, and not of a stop that is
  half of a restart; `RunningIsOnline` excludes a purge that overlaps, which
  removes the presence (`_on_presence` answers an `offline`, not an empty one), and
  a move to another source, which clears it like a purge;
  `PurgedIsGone` holds over lost connections and a silent broker, and leaves out
  only the devices that a reading which ended in silence did not see (`blind`):
  it still claims that the presence is gone, and that any other reading cleared all.
* `ReadyIsCurrent` speaks until the client stops. A registry that a task run after
  `stop` makes ready is followed by no configuration, and may go stale.
* `RefreshSeesAcked` leaves out a refresh beside which the bridge removed
  something (`shrunk`), see section 4.
* `NoOrphan` and `PurgeClears` leave out the values in `stale`: no driver has
  them, so nothing clears them. `HeardIsKnown` is claimed, and checked, where the
  rules refuse no record: a record that is refused at first and driven by a later
  `reload` gets no seed. `Mirrors` takes
  a device that is refused at the first reconcile and leaves in the same run to
  keep its topics until the next run's.
* `OwnAnswer` leaves out keys that are `doubtful`: an earlier command under the
  key was given up on or delivered twice, or another client sends the same one.
  Replies carry no request id, so nothing could tell them apart.
* `SeedsFresh` leaves out sub-devices, which a snapshot never forgets as they
  have no link (`bridge_client.py:463`), and a removal acknowledged before the
  first snapshot, which is ignored (`:396`). `Seeds` leaves out `passed`, see
  section 4. A stay that begins and ends while
  the client is disconnected cannot be noticed.
* `Remembered` leaves out the topics in `gap`, see section 4.
* `InForce` leaves out overrides the Hub refused (`refused`): they are not tried
  again before a file changes, also when the device that refused them has gone.
  `ListFollowed` leaves out `missed`, see section 4. `SaveSpares` leaves out an
  edit of the settings file between a save's read and its replace (`edited`),
  which is lost.
* `UsersOwn` leaves out a file written between being looked at and replaced
  (`raced`), and `NeverOrphaned` the files of a sync cut by a crash (`orphans`),
  which a newer manifest takes for the user's. A file of the user's that equals
  the pack's is adopted (`pack.py:195`). `CheckTells` leaves out bundled files,
  which `sync` copies and `check` takes for installed.
* `OneService` and `Settled` leave out `crossed`, which `entry_stray` is about;
  `Settled` leaves out a file that a starting service overwrites with its own
  `sync_devices` (`service.py:214`) or that is handed over after a newer one
  (`overtaken`); after a reload that Home Assistant refused (`refused`, see section
  4) a loaded entry may be without a service or with the file it had; after a
  rollback that could not unload (`unrestored`, see section 4) it may run other
  settings than the stored ones, with exactly one service all the same. It allows
  a bridge whose stop timed out after a failed setup to be lost sight of.
* `OneConnection` leaves out a session whose close was given up on (`slow`),
  `Owned` and `Answered` a flow closed while it opens its session (`left`, see
  section 4), `HandedOver` a login that is done in the moment its fetch is
  cancelled or its flow closed (`missed`, `config_flow.py:362`, `panel.py:409`).

## 4. What disagrees with the documentation

A run shows it:

* `entry_stray`: "a running entry's options change restarts the service alone"
  (`HA/panel.py:328`). The restart takes any entry that has a runtime, also
  one in the middle of its setup or unload; its service then runs beside
  another, or beside an entry that is unloaded.

Found while modelling, with a history variable where a property leaves it out:

* "Share this service's complete snapshot" (`registry`'s docstring): pages are
  told apart by their offset alone. A removal between two pages moves the rest of
  the list up, and a device is on neither; the total tells only while no `add`
  makes up for it, and nothing does without totals. A refresh can then lack a
  device whose `add` was acknowledged before the call. `RefreshSeesAcked` leaves
  out a removal since the call (`shrunk`) and nothing else.
* The same mix, or a device that comes into a page already read as another leaves
  it, forgets what was heard of a device that is there (`bridge_client.py:463`),
  against "the latest thing heard per device, replayed when a device becomes
  driven" (`:185`). `Seeds` leaves those out (`passed`). Both are repaired when
  the configuration the bridge then publishes has been handled: `ReadyIsCurrent`
  says so, and is proved.
* The same comment: a record that was refused and is driven by `Runner.reload`
  gets no seed, and asks for nothing until the bridge speaks again.
  `HeardIsKnown` is checked with rules that refuse nothing.
* "every retained topic it left is cleared" (`purge_il`): a property of an earlier
  run that the driver of a later one does not have (rules, overrides or the
  record changed while no service ran) is in no later descriptor; its topic is
  never found (`stale`).
* The same words: `_retained` ends after half a second without a message
  (`service.py:423-445`). With the connection down, or a broker that slow,
  `purge_il` takes the broker for empty, clears the presence alone and returns
  without an error (`blind`). A silence in the middle of the replay, which could
  leave values without their descriptor, is not modelled in `IlPublisher`.
* `purge_il` "refuses while a producer still answers": its check and its clearing
  are at least half a second apart, and a service that started between them is
  cleared. Two services that start within the same moments both find no presence
  and both run.
* "Subscriptions are remembered and made again after a reconnect"
  (`mqtt.py:23`): one made after paho's thread went through `_subs` and before
  `_connected` is set on the loop, or skipped because another was removed during
  the pass, is lost until the next reconnect (`mqtt.py:101`, `:125`).
* "Seconds between checks for edited files" (`docs/DAEMON.md:40`): a device file
  written while the service starts, after the configuration was read and before
  `DeviceWatcher.start`, is taken for read (`devices.py:65`) and not applied
  before it changes again.
* "close a Manager left open by an abandoned wizard so its MQTT connection does not
  leak" (`config_flow.py:330`): a flow closed while `_async_manager` awaits the session gets it afterwards, and
  nothing closes it; the lock then stays held. In the panel, a fetch still being started
  when the entry is removed is missed the same way (`panel.py:91`).
* The update check says nothing new of bundled files that `sync` would copy, and
  a file of the user's that equals the pack's becomes the pack's
  (`pack.py:195`, against `:15`).
* "the previous options again if it cannot start" (`HA/panel.py:354`): a save whose
  restart failed with the new options and again with the old ones leaves the
  service to a reload that it schedules. If Home Assistant refuses that reload
  (a platform does not unload), nothing tries again: the entry stays loaded
  without a service. "start it now, with the file as it is" (`HA/__init__.py:263`)
  is left to a reload too, so a device file written between a setup's read and its
  store may not be read (`refused`).
* "the previous configuration was restored" (`HA/panel.py:317`, of a settings
  restart that failed): a save that moves the embedded bridge's root clears the
  old topics in the middle, and a reload may begin to set the entry up meanwhile.
  Home Assistant then refuses the save's own setup, and the rollback's unload
  too (`panel.py:337-344`). That refusal is raised instead of `RestartFailed`; the new
  settings stay stored while the service was made with the old, or with the new
  and the rollback puts the old ones back after an unload that was refused.
  `Settled` leaves both out (`unrestored`) and keeps the rest: one service, and
  all parts.
* `ws_subscribe_links`: a websocket that goes away while `connect` is awaited
  leaves its transport open (`panel.py:676`). Seen in the code, not modelled.

## 5. The proofs

TLAPS proves, for every value of the constants that satisfies the assumptions,
every invariant and every action property of the passing runs, and both
implementations of an abstract specification.

| Module | Theorem | States |
|---|---|---|
| `BridgeRegistry` | `TypeCorrect` | `Spec => []TypeOK` |
| | `InvariantHolds`, `RefreshInvariant` | the inductive invariants `IInv`, `RefreshInv` |
| | `RegistryCurrent`, `RegistryClosed` | `[]ReadyIsCurrent`, `[]ReadyWhenClosed` |
| | `DrivenCorrect` | `[]DrivenIsWanted` |
| | `RefreshShows` | `[]RefreshSeesAcked` |
| | `Refinement` | `RefinesCache`: the protocol implements `RegistryCache` |
| `BridgeCommand` | `AnswerInvariant`, `SeedInvariant` | the inductive invariants |
| | `WaitersKept`, `AnswersTheirOwn`, `SeedsOfStay` | `[]IInv`, `[]Answers`, `[]Seeds` |
| `IlPublisher` | `PublisherInvariant` | the inductive invariant |
| | `PublisherTypes`, `NothingOrphaned`, `BrokerMirrors`, `PurgeComplete` | `[]IInv`, `[]NoOrphan`, `[]Mirrors`, `[]PurgeClears` |
| | `HeardKnown` | `[]HeardIsKnown`, where no record is refused |
| `Producer` | `ProducerInvariant` | the inductive invariant |
| | `ProducerTypes`, `ChecksFind`, `GapNever` | `[]TypeOK`, `CheckFinds`, `NoGap` |
| | `PurgeLeavesNothing`, `PresenceIsTold` | `[]PurgedIsGone`, `[]PresenceTells` |
| `MqttTransport` | `TransportInvariant` | the inductive invariant |
| | `TransportTypes`, `LoopInStep`, `ClosedIsClosed` | `[]TypeOK`, `[]InStep`, `ClosedForGood` |
| `PackSync` | `PackInvariant` | the inductive invariant |
| | `PackKept`, `PackSparesUsers`, `PackTells` | `[]Kept`, `UsersOwn`, `CheckTells` |
| `FollowedFiles` | `PackWithin` | `FollowedSpec => Spec`: the directory implements `PackSync` |
| | `FollowedInvariant` | the inductive invariant |
| | `FollowedTypes`, `FilesFollowed`, `SavesSpare`, `FollowedPack` | `[]FollowedTypeOK`, `[]Followed`, `SaveSpares`, and `PackSync`'s properties |
| `EntryLifecycle` | `Inductive`, `Resting` | the inductive invariants `IInv`, and `IInv` with `SInv` |
| | `Typed`, `One`, `Settles` | `[]TypeOK`, `[]OneService`, `[]Settled` |
| `ManagerSession` | `SessionInvariant` | the inductive invariant |
| | `SessionTypes`, `SessionsExclusive`, `FilesHandedOver`, `ServedAlone` | `[]TypeOK`, `[]Exclusive`, `[]HandedOver`, `StartsAlone` |

**The assumptions** are those each module names beside its constants, and TLC
evaluates them in every run: budgets are natural numbers; a page has a positive
size; the device set of `BridgeCommand` is finite, so that its totals count;
what stands for "none" is none of the values it stands beside; tasks, callers,
topics and names that share a variable are told apart; `Shape` is a function of
record and overrides, whatever tuya-interpreter makes of them. `HeardKnown` alone
has a hypothesis of its own, `NothingRefused`: `Shape` refuses nothing, as in the
run that checks `HeardIsKnown`. Budgets may be any set of any bounds, so that no
theorem depends on how often something happens.

### The arguments

No property is inductive as it stands. What each proof adds:

**BridgeRegistry, what is ready.** Committing the last page needs to know where
the other pages came from. `IInv` adds

* `QueueInv`: a page waiting in the queue either is what the bridge would answer
  now, or a configuration follows it (waiting behind it, or about to be
  published). Acknowledgements are always followed by one. This rests on the
  bridge publishing its configuration after each change, and on the queue's
  order; it is what makes an old page harmless.
* `CycleInv`: what an open request has taken is exactly the first `offset`
  devices of the bridge's list, unless news is pending or the request will be
  made again (`rerun`).
* `PhaseInv` and `ReadyWhenClosed`: which variables are set in which phase, and
  that a registry is never offered while a request is open.

A page is then taken in one of two cases. If it is current, it extends the prefix
(`PageTaken`), and the last one completes it to the whole list. If it is not, news
is pending, and every property that speaks of a ready registry is silent until
the configuration is handled, which opens a request or marks the open one for a
rerun (`RequestInv`). A loss makes `connected` false; the reconnection appends
the retained configuration. A client that stopped is not `Listening`, so all this
is silent about it, also where it still takes pages (`late`). `Refinement` maps `truth`
to the devices held, `view`
to `registered` and `fresh` to "ready, connected, started, and nothing pending", and follows
from `ReadyIsCurrent` and two facts of each step: only the bridge changes
`truth`, and only a committed snapshot or an acknowledgement changes `view`.

**BridgeRegistry, a refresh.** Here pages that are not current count too, as they
are what a refresh may return. `RefreshInv` says that while nothing is removed
the lists that pages were cut from only grow, in the queue's order (`Growing`);
that as many devices were taken as the offset says (`Counted`); and that they are
within the list of every page still to come (`TakenGrows`). A last page leaves at
most `offset` devices of its list out, and that many of them were taken
already: by counting, what was taken is the whole of that list, which has what
was acknowledged before the call (`Newer`).

**BridgeCommand, answers.** Commands on their way and replies that come back are
tokens under a key: `KeyedAll` and `AwaitedAll` say that a key which is not in
doubt has one token, in one place at a time, and that it is the number of the
caller that waits under it (`Awaited`, `Alone`). `OwnAnswer` and `AnswerReaches` read that off.

**BridgeCommand, seeds.** For each device the queue holds news of its stays in
their order (`Ordered`), all of stays that were begun (`Past`, `Coming`), and
the message that ends a stay for the client, the acknowledged removal or a page
of a list without the device, lies between the news of that stay and of the next
(`Ended`). So when the client takes news of a stay, it has forgotten every
earlier one, and what it has heard last is the last there was (`Latest`). A link
comes before the values of its stay (`LinkFirst`), which is why a driver with a
state has a link to go with it.

**IlPublisher.** `Sound` is about a device's queue and what the broker holds of
it, and holds after *any* prefix of the queue is delivered, since a crash or a
lost queue stops there: each value that is or will be retained has a descriptor
then that names it, or a clearing to come. `QueuesEnd` says what the whole queue
leaves: what the driver is, or nothing. Whatever the Hub does appends to
the queue: lemmas say of values, descriptors and clearings that appending them
(`AddValues`, `AddDescriptor`, `AddClear`, ...) and delivering from the head
(`DropOne`) keeps both. `Found` ties what the next run will find by to what the last
one left. The Hub's half (`HubInv`: `Made`, `Followed`, `Idle`) is an invariant
alone.

**Producer.** `ProbeInv`, `ListenInv` and `CountInv` follow one check: as long as
its time is not over, the question, the answer, or the producer who will give it
is there, in this order along the queues. `GapInv` says that while services only
start and restart, nothing but `online` is under way. `PurgeInv` follows a purge
that nobody is beside step by step, over any loss of its connection: what it said
last is the clearing of the presence, in its queue or taken, with no `online`
behind it; and, unless it read in silence (`blind`), what it read is what is shown,
and then the clearing of that is in its queue too, ahead of the flush. `purged` goes
back to `no` where a close gives up on the flush, since what is queued then goes too. `OnlineInv` and
`OfflineInv` say who has the last word: behind every `offline` of another there
is an `online` to come from the one that runs, and behind every `online` an
`offline`, or a will, of the one that stopped. The nonce of a probe matters
for the first: it makes an answer to an earlier question no answer.

**MqttTransport.** `Telling` ties what is scheduled for the loop to what the
thread knows (`WillBe`: what the loop will take the connection to be once it has
heard all of it), `Subscribed` says of each remembered topic that it is
subscribed, or that the pass of the thread has found it, or comes to it. `Ending`
is what each step of a close leaves behind for the next.

**PackSync and FollowedFiles.** `Accounted`, `Done` and `Progress` say what a sync
has made of the names it has gone through, and `AtHand` what it knows of the file
it is at; a crash keeps the first of them, which speaks of the ledger. `Foretold`
carries an answer of `check` to the sync after it. `PackWithin` shows that the
directory that is followed implements `PackSync`, so none of this is proved
twice. `Snapshot` and `UpToDate` say that what was read under a stamp that is
still the files' is what they say: writing moves the stamp, and it never
comes back.

**EntryLifecycle, at most one service.** `Deep` and `Placed` say which labels a
stack of calls may have: a start within a restart or a setup, and that within
the request or task it belongs to, never more. `Counted` says that a service is
started at most once by the restart that made it and once by its entry's setup,
and gives the types also where a restart has crossed a setup or an unload. Where
none has, `LockInv` ties both locks to the labels of those who hold them, and
the entry's state to how far that holder is; `Mine` and `Only` say that a
restart, and the service it makes, are the only ones and belong to the runtime
in `hass.data`. So whoever starts a service has seen the one before it stopped.

**EntryLifecycle, at rest.** `PartsInv` says which parts there are at each stage
of a setup and an unload. The rest of `SInv` names, for each way in which a
loaded entry may differ from what it should have, who makes up for it: for
options that are not the stored ones a restart that has yet to read them, or a
save that failed and is about to unload the entry (`WithInv`; `Mends`, `Undoes`,
`Idling`), for a service that does not run its restart, the request behind it that
starts it again, or a reload (`LiveInv`; `Redo`, `Anew`), for a file that is not
the last one a task that is yet to read it, or has read the last one and is yet to
hand it over (`Latest`), a restart yet to make its service, or a reload (`FileInv`;
`Handing`, `Held`, `Storing`, `Anew`). `SeenInv` bounds what a task has read by what
was written. A rollback whose unload is refused has nobody to make up for it, which
is why `WithInv` is silent once `unrestored` is set, until the next setup. When nothing
goes on and nothing is scheduled there is none of them, and
what is left is `Settled`.

**ManagerSession.** `LockKept`: the lock belongs to one that connects or to the
one session that is to release it; `HoldersClose`: whoever holds a session is on
its way to close it, or left it. `Delivered` says of every file that is owed who
is about to hand it over, and `ClosedFirst` that this is never while its session
is open.

### What the proofs found

An invariant that is not inductive although TLC found no violation is either too
weak or wrong beyond the instance. Six were wrong, and are now stated with what
they leave out (section 3):

* `RefreshSeesAcked`: false as soon as something is removed between pages, with
  three devices where totals are reported (`shrunk`);
* `Seeds`: false with a device that comes into a page already read while another
  leaves it (`passed`);
* `NoOrphan` and `PurgeClears`: false for a value that no later driver has, by a
  changed record as well as by changed rules (`stale`);
* `RunningIsOnline`: false after a move, whose clearing a second producer of the
  same source does not answer;
* `Settled`: false where Home Assistant refuses a reload on which an entry relies,
  after two starts that failed, or for a file written in the middle of a setup
  (`refused`); the run now has budgets for both;
* the types of `BridgeCommand`'s open request, and two overlapping cases of a
  flow's removal in `ManagerSession`, of which TLC had taken the first.

`Producer`'s probes had to carry nonces: with one token for all, an old answer
could answer a new question, which the code excludes.

### Only model-checked

* The liveness properties `Converges`, `StopEnds`, `Ends`, `CloseReturns` and both
  `Answered`: liveness under fairness and ENABLED are outside the prover's reach.
* `NoStray`, which is violated.

No module needs a RECURSIVE operator or induction over data.

## 6. Not modelled, and the plan

`PROJECT.json` says of each component what its model leaves out. In short:

* *Other modules would add little*: `LinkWatcher` (one transport, one message),
  the plugin's run loop (sequential; its stop and its saves are steps of
  `Producer` and `PackSync`), the count of Hubs per rule pack (every use is a
  `with`), Home Assistant's delayed save of the retained store (`Store` is Home
  Assistant's).
* *Abstracted*: stamps of files never repeat, and `stat` does not fail; the Hub's
  and the retained store's stops do not raise; a task that waits in
  `MqttTransport.close` is cancelled once; a handler does not wait for another
  task that closes; what `bridge_sync.apply` does within a session is one step; a
  rollback that gives back a panel switch changed meanwhile (`panel.py:365`) is
  what the code does and no property forbids it.
* *Left out for good*: the platform files and `www/` of the integration and the
  plugin's page (forwarding and rendering), the forms of the config flow,
  configuration and validation, the command line, packaging. External:
  tuya-interpreter, pyrustuyabridge, rustuya-bridge, ildevice_ha,
  rustuya-manager, Home Assistant, paho and the broker.

Every module with state has its proofs, and every hazard in `PROJECT.json` a
property. What could still be added is in the first list: a session of
`LinkWatcher` beside the service's transport is the only one there with two actors.
