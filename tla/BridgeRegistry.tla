--------------------------- MODULE BridgeRegistry ---------------------------
(***************************************************************************)
(* BridgeClient's view of the devices a rustuya-bridge holds               *)
(* (src/rustuya_local/bridge_client.py): the paged `status` request, the   *)
(* acknowledgements and `bridge/config` republishes that keep the view     *)
(* current, and the set of devices it hands to the Hub.                    *)
(*                                                                         *)
(* The event loop runs one callback at a time, so one callback is one      *)
(* action.  A message waits in `inbound` until paho's callback dispatches  *)
(* it.  `_on_config` is a coroutine: `deliver` only makes a task of it, so *)
(* messages behind the config may be handled before it (`configTasks`).    *)
(*                                                                         *)
(* The bridge is external: it lists its devices in an order of its own,    *)
(* serves a page of that order, and follows every change with an           *)
(* acknowledgement and, later, a retained config.                          *)
(***************************************************************************)
EXTENDS Integers, Sequences, FiniteSets, SequencesExt, Functions

CONSTANTS
    Device,         \* device ids
    Layout,         \* topic layouts a bridge config can announce
    DefaultLayout,  \* the one `templates_from_config({})` gives
    PageSize,       \* devices in one status page
    Files,          \* device files there can be: sets of ids
    Totals,         \* does the bridge send `device_count`?
    Budgets,        \* a set of bounds on what the environment does, by kind
    NULL            \* Python's None

Kind == {"add", "remove", "reconfigure", "foreign", "loss", "slow", "sync", "refresh", "stop"}

ASSUME ConstantsAssumption ==
    /\ DefaultLayout \in Layout
    /\ PageSize \in Nat \ {0}
    /\ Files \subseteq SUBSET Device
    /\ Totals \in BOOLEAN
    /\ Budgets \subseteq [Kind -> Nat]
    /\ NULL \notin Nat /\ NULL \notin Layout /\ \A ids \in SUBSET Device : ids # NULL

VARIABLES
    held, layout, announce, retained,            \* the bridge; its config on the broker
    connected, requests, inbound,                \* the connection; both directions
    phase, templates, records, registered,       \* the client: _templates, _records, _registered,
    registry, ready, driven,                     \*   _registry, _registry_ready, the Hub's devices
    since, rerun, accum, offset, total,          \*   the open request: _status_since, ... _status_total
    configTasks,                                 \*   `_on_config` tasks not yet run
    caller,                                      \* a coroutine in `registry()`
    acked, known, shrunk,                        \* history: see CallRegistry
    spent                                        \* how much of a budget is used

bridgeVars == <<held, layout, announce, retained>>
cycleVars  == <<since, rerun, accum, offset, total>>
viewVars   == <<registered, registry, driven>>
history    == <<acked, known, shrunk>>
vars == <<bridgeVars, connected, requests, inbound, phase, templates, records,
          viewVars, ready, cycleVars, configTasks, caller, history, spent>>

(***************************************************************************)
(* Messages                                                                *)
(***************************************************************************)
\* `whole` is history: the devices of the list the page was cut from.
PageMsg == [kind : {"page"}, layout : Layout, offset : Nat, devices : Seq(Device),
            total : {NULL} \cup Nat, more : BOOLEAN, whole : SUBSET Device]
AckMsg == [kind : {"ack"}, layout : Layout, action : {"add", "remove"}, ids : SUBSET Device]
ConfigMsg == [kind : {"config"}, layout : Layout]
Message == PageMsg \cup AckMsg \cup ConfigMsg
Request == [layout : Layout, offset : Nat]

\* The page of the bridge's list that starts at `off`.
Page(off) ==
    LET last == IF off + PageSize < Len(held) THEN off + PageSize ELSE Len(held)
    IN  [kind |-> "page", layout |-> layout, offset |-> off,
         devices |-> SubSeq(held, off + 1, last),
         total |-> IF Totals THEN Len(held) ELSE NULL,
         more |-> off + PageSize < Len(held), whole |-> ToSet(held)]

\* `add` and `remove` name one device; a `clear` is a removal of all.
Ack(action, ids) == [kind |-> "ack", layout |-> layout, action |-> action, ids |-> ids]

Config == [kind |-> "config", layout |-> layout]

\* The config is subscribed from `start` to `stop`, the message topic also by a
\* config task that runs later.
Listening == connected /\ phase = "started"
Hears == connected /\ phase \in {"started", "late"}

\* What the bridge publishes on its message topic, heard only where subscribed.
Heard(msg) == IF Hears /\ templates = layout THEN Append(inbound, msg) ELSE inbound

\* News of a change is still on its way: the bridge has yet to publish its
\* config, or the config waits to be dispatched, or its task to be run.
Pending ==
    \/ announce
    \/ \E i \in DOMAIN inbound : inbound[i].kind = "config"
    \/ configTasks # <<>>

Spend(kind) ==
    /\ spent' = [spent EXCEPT ![kind] = @ + 1]
    /\ \E b \in Budgets : \A k \in Kind : spent'[k] <= b[k]

TypeOK ==
    /\ held \in Seq(Device) /\ layout \in Layout
    /\ announce \in BOOLEAN /\ retained \in BOOLEAN
    /\ connected \in BOOLEAN
    /\ requests \in Seq(Request)
    /\ inbound \in Seq(Message)
    /\ phase \in {"new", "started", "stopped", "late"}
    /\ templates \in {NULL} \cup Layout
    /\ records \in {NULL} \cup SUBSET Device
    /\ registered \in {NULL} \cup SUBSET Device
    /\ registry \in {NULL} \cup SUBSET Device
    /\ ready \in BOOLEAN
    /\ driven \in SUBSET Device
    /\ since \in {"none", "fresh", "expired"}
    /\ rerun \in BOOLEAN
    /\ accum \in {NULL} \cup SUBSET Device
    /\ offset \in Nat
    /\ total \in {NULL} \cup Nat
    /\ configTasks \in Seq(Layout)
    /\ caller \in {"idle", "waiting", "released"}
    /\ acked \in SUBSET Device /\ known \in SUBSET Device /\ shrunk \in BOOLEAN
    /\ spent \in [Kind -> Nat]

Init ==
    /\ \E n \in 0..Cardinality(Device) : held \in [1..n -> Device]
    /\ IsInjective(held)
    /\ layout \in Layout
    /\ announce \in BOOLEAN /\ retained = ~announce
    /\ connected = TRUE /\ requests = <<>> /\ inbound = <<>>
    /\ phase = "new" /\ templates = NULL /\ records = NULL
    /\ registered = NULL /\ registry = NULL /\ ready = FALSE /\ driven = {}
    /\ since = "none" /\ rerun = FALSE /\ accum = NULL /\ offset = 0 /\ total = NULL
    /\ configTasks = <<>> /\ caller = "idle" /\ acked = {} /\ known = {} /\ shrunk = FALSE
    /\ spent = [k \in Kind |-> 0]

(***************************************************************************)
(* The parts of the client's handlers                                      *)
(***************************************************************************)
\* A request is rendered for the layout the client knows by then.
Ask(off) == requests' = Append(requests, [layout |-> templates', offset |-> off])

\* Mutant: the two counters are reset the wrong way round.
OpenCycleSwapped(again) ==
    /\ since' = "fresh" /\ rerun' = again /\ accum' = NULL /\ offset' = NULL /\ total' = 0
    /\ Ask(0)

OpenCycle(again) ==
    /\ since' = "fresh" /\ rerun' = again /\ accum' = NULL /\ offset' = 0 /\ total' = NULL
    /\ Ask(0)

\* Mutant: the registry stays on offer while a request is open.
RequestStatusKeepsReady(twice) ==
    IF templates' = NULL \/ records' = NULL
    THEN UNCHANGED <<cycleVars, ready, requests>>
    ELSE /\ UNCHANGED ready
         /\ \/ /\ since = "fresh"
               /\ rerun' = TRUE
               /\ UNCHANGED <<since, accum, offset, total, requests>>
            \/ since # "fresh" /\ OpenCycle(twice)

\* Mutant: an open request is taken to answer this one too.
RequestStatusNoRerun(twice) ==
    IF templates' = NULL \/ records' = NULL
    THEN UNCHANGED <<cycleVars, ready, requests>>
    ELSE /\ ready' = FALSE
         /\ \/ since = "fresh" /\ UNCHANGED <<cycleVars, requests>>
            \/ since # "fresh" /\ OpenCycle(twice)

\* `_request_status`, on the templates and records the handler has set by then.
\* `twice`: called twice in a row, which an open request remembers as a rerun.
RequestStatus(twice) ==
    IF templates' = NULL \/ records' = NULL
    THEN UNCHANGED <<cycleVars, ready, requests>>
    ELSE /\ ready' = FALSE
         /\ \/ /\ since = "fresh"
               /\ rerun' = TRUE
               /\ UNCHANGED <<since, accum, offset, total, requests>>
            \/ since # "fresh" /\ OpenCycle(twice)

\* Mutant: the device file is not consulted.
ReconcileForgetsFile ==
    driven' = IF records' = NULL \/ registered' = NULL THEN driven ELSE registered'

\* `_reconcile`: the Hub drives the recorded devices that are registered.
Reconcile ==
    driven' = IF records' = NULL \/ registered' = NULL THEN driven
              ELSE records' \cap registered'

(***************************************************************************)
(* Starting, stopping and the configuration                                *)
(***************************************************************************)
\* `start`: the config is subscribed, and the broker replays the retained one.
Start ==
    /\ phase = "new" /\ phase' = "started"
    /\ inbound' = IF retained THEN <<Config>> ELSE <<>>
    /\ UNCHANGED <<bridgeVars, connected, requests, templates, records, viewVars, ready,
                   cycleVars, configTasks, caller, history, spent>>

\* `start` heard no config for three seconds: the default layout.
StartTimeout ==
    /\ phase = "started" /\ templates = NULL
    /\ templates' = DefaultLayout
    /\ UNCHANGED <<bridgeVars, connected, requests, inbound, phase, records, viewVars, ready,
                   cycleVars, configTasks, caller, history, spent>>

\* `stop`.  The exit stack may call it a second time; a config task already
\* made still runs afterwards.
Stop ==
    /\ phase # "new" /\ phase' = "stopped"
    /\ Spend("stop")
    /\ ready' = FALSE /\ since' = "none"
    /\ inbound' = <<>>
    /\ UNCHANGED <<bridgeVars, connected, requests, templates, records, viewVars,
                   rerun, accum, offset, total, configTasks, caller, history>>

Dispatch(kind) ==
    inbound # <<>> /\ Head(inbound).kind = kind /\ inbound' = Tail(inbound)

\* `_on_config` is called: a task is made of it.
DispatchConfig ==
    /\ Dispatch("config")
    /\ configTasks' = Append(configTasks, Head(inbound).layout)
    /\ UNCHANGED <<bridgeVars, connected, requests, phase, templates, records, viewVars, ready,
                   cycleVars, caller, history, spent>>

\* `_apply_templates`, then `_config_applied`: each asks for the status when
\* the layout moved, the second one alone when it did not.  One that runs after
\* `stop` does all that, and subscribes the message topic if the layout moved.
RunConfigTask ==
    /\ configTasks # <<>> /\ configTasks' = Tail(configTasks)
    /\ templates' = Head(configTasks)
    /\ UNCHANGED records
    /\ phase' = IF phase = "stopped" /\ templates' # templates THEN "late" ELSE phase
    /\ RequestStatus(templates' # templates)
    /\ UNCHANGED <<bridgeVars, connected, inbound, viewVars, caller, history, spent>>

\* `sync_devices`, called once the client has started and whenever the device
\* file changes.
SyncDevices(rs) ==
    /\ phase = "started" /\ templates # NULL
    /\ Spend("sync")
    /\ records' = rs
    /\ UNCHANGED <<templates, registered, registry>>
    /\ IF records = NULL THEN RequestStatus(FALSE) ELSE UNCHANGED <<cycleVars, ready, requests>>
    /\ Reconcile
    /\ UNCHANGED <<bridgeVars, connected, inbound, phase, configTasks, caller, history>>

(***************************************************************************)
(* Acknowledgements                                                        *)
(***************************************************************************)
\* An acknowledged device is `acked` (history) while the bridge still holds it
\* and says nothing newer of it: whoever waited for the command knows of it.
Acknowledged(m) ==
    IF m.action = "add"
    THEN acked \cup {d \in m.ids : /\ d \in ToSet(held)
                                   /\ \A i \in DOMAIN Tail(inbound) :
                                        Tail(inbound)[i].kind = "ack" => d \notin Tail(inbound)[i].ids}
    ELSE acked

\* `_on_reply`, then `_on_ack`: what the bridge holds changed.
DispatchAck ==
    /\ Dispatch("ack")
    /\ LET m == Head(inbound) IN
       /\ acked' = Acknowledged(m)
       /\ registered' = IF m.layout # templates \/ records = NULL \/ registered = NULL THEN registered
                        ELSE IF m.action = "add" THEN registered \cup m.ids
                        ELSE registered \ m.ids
    /\ UNCHANGED <<records, registry>>
    /\ Reconcile
    /\ UNCHANGED <<bridgeVars, connected, requests, phase, templates, ready, cycleVars,
                   configTasks, caller, known, shrunk, spent>>

(***************************************************************************)
(* Status pages (`_on_status_page`)                                        *)
(***************************************************************************)
\* Mutant: a page of any offset is taken for the answer.
ExpectedAnyOffset(m) ==
    /\ m.layout = templates /\ records # NULL
    /\ since = "fresh"
    /\ m.more => m.devices # <<>>
    /\ m.total # NULL => m.total >= m.offset + Len(m.devices)

\* The page answers this client's open request, as far as it can tell.
Expected(m) ==
    /\ m.layout = templates /\ records # NULL
    /\ since = "fresh"
    /\ m.offset = offset
    /\ m.more => m.devices # <<>>
    /\ m.total # NULL => m.total >= m.offset + Len(m.devices)

Taken      == IF accum = NULL THEN {} ELSE accum
TakenOf(m) == IF accum = NULL THEN m.total ELSE total

\* It continues the pages taken so far.
Consistent(m) ==
    /\ m.total = TakenOf(m)
    /\ Taken \cap ToSet(m.devices) = {}
    /\ m.total # NULL => m.more = (m.offset + Len(m.devices) < m.total)

IgnorePage ==
    /\ Dispatch("page") /\ ~Expected(Head(inbound))
    /\ UNCHANGED <<bridgeVars, connected, requests, phase, templates, records, viewVars, ready,
                   cycleVars, configTasks, caller, history, spent>>

RefusePage ==
    /\ Dispatch("page") /\ Expected(Head(inbound)) /\ ~Consistent(Head(inbound))
    /\ accum' = Taken /\ total' = TakenOf(Head(inbound))
    /\ UNCHANGED <<bridgeVars, connected, requests, phase, templates, records, viewVars, ready,
                   since, rerun, offset, configTasks, caller, history, spent>>

\* A page with more to come: the next one is asked for, and the timer rearmed.
TakePage ==
    /\ Dispatch("page")
    /\ LET m == Head(inbound) IN
       /\ Expected(m) /\ Consistent(m) /\ m.more
       /\ accum' = Taken \cup ToSet(m.devices) /\ total' = TakenOf(m)
       /\ offset' = offset + Len(m.devices)
       /\ UNCHANGED templates
       /\ Ask(offset')
    /\ UNCHANGED <<bridgeVars, connected, phase, records, viewVars, ready,
                   since, rerun, configTasks, caller, history, spent>>

\* The last page: the snapshot is committed, and asked for again when someone
\* wanted it meanwhile.  Setting the event releases whoever waits for it.
CommitPage ==
    /\ Dispatch("page")
    /\ UNCHANGED <<templates, records>>
    /\ LET m == Head(inbound) IN
       /\ Expected(m) /\ Consistent(m) /\ ~m.more
       /\ registry' = Taken \cup ToSet(m.devices)
       /\ registered' = registry'
       /\ IF rerun
          THEN OpenCycle(FALSE) /\ ready' = FALSE /\ UNCHANGED caller
          ELSE /\ since' = "none" /\ accum' = NULL /\ ready' = TRUE
               /\ offset' = offset + Len(m.devices) /\ total' = TakenOf(m)
               /\ caller' = IF caller = "waiting" THEN "released" ELSE caller
               /\ UNCHANGED <<rerun, requests>>
    /\ Reconcile
    /\ UNCHANGED <<bridgeVars, connected, phase, configTasks, history, spent>>

(***************************************************************************)
(* Time                                                                    *)
(***************************************************************************)
\* STATUS_CYCLE_TIMEOUT after the last page: nothing more is coming, or (a
\* bounded number of times) the answer is only slow.
Expire ==
    /\ since = "fresh" /\ since' = "expired"
    /\ \/ /\ connected /\ requests = <<>>
          /\ \A i \in DOMAIN inbound : inbound[i].kind # "page"
          /\ UNCHANGED spent
       \/ Spend("slow")
    /\ UNCHANGED <<bridgeVars, connected, requests, inbound, phase, templates, records, viewVars,
                   ready, rerun, accum, offset, total, configTasks, caller, history>>

\* The timer's callback, `_retry_status`.
RetryStatus ==
    /\ since = "expired"
    /\ UNCHANGED <<templates, records>>
    /\ RequestStatus(FALSE)
    /\ UNCHANGED <<bridgeVars, connected, inbound, phase, viewVars, configTasks, caller,
                   history, spent>>

(***************************************************************************)
(* A caller of `registry(refresh=...)`                                     *)
(***************************************************************************)
\* A refresh is asked for by someone who saw the bridge take a command:
\* `known` is what was acknowledged by then; `shrunk`, that the bridge removed
\* a device since, or before with the news of it still to come.
CallRegistry(refresh) ==
    /\ caller = "idle" /\ phase = "started"
    /\ Spend("refresh")
    /\ known' = IF refresh THEN acked ELSE {}
    /\ shrunk' = (shrunk /\ (Pending \/ ~connected))
    /\ UNCHANGED <<templates, records>>
    /\ IF refresh THEN RequestStatus(FALSE) ELSE UNCHANGED <<cycleVars, ready, requests>>
    /\ caller' = IF ready' THEN "released" ELSE "waiting"
    /\ UNCHANGED <<bridgeVars, connected, inbound, phase, viewVars, configTasks, acked>>

\* It copies `_registry` when it runs again; or gives up after its timeout.
ReturnRegistry ==
    /\ caller # "idle" /\ caller' = "idle"
    /\ UNCHANGED <<bridgeVars, connected, requests, inbound, phase, templates, records, viewVars,
                   ready, cycleVars, configTasks, history, spent>>

(***************************************************************************)
(* The bridge (external) and the connection to it                          *)
(***************************************************************************)
clientVars == <<connected, phase, templates, records, viewVars, ready, cycleVars, configTasks,
                caller>>

\* The next status request reaches the bridge, if it was rendered for the
\* layout the bridge listens on, and is answered with one page.
BridgeServe ==
    /\ connected /\ requests # <<>>
    /\ requests' = Tail(requests)
    /\ inbound' = IF Head(requests).layout = layout THEN Heard(Page(Head(requests).offset))
                  ELSE inbound
    /\ UNCHANGED <<bridgeVars, clientVars, history, spent>>

\* A command (anyone's) changes what the bridge holds.
BridgeChange(newHeld, ack) ==
    /\ held' = newHeld /\ announce' = TRUE
    /\ inbound' = Heard(ack)
    /\ acked' = acked \cap ToSet(newHeld) /\ known' = known \cap ToSet(newHeld)
    /\ shrunk' = (shrunk \/ ~(ToSet(held) \subseteq ToSet(newHeld)))
    /\ UNCHANGED <<layout, retained, requests, clientVars>>

BridgeAdd(d, i) ==
    Spend("add") /\ d \notin ToSet(held) /\ BridgeChange(InsertAt(held, i, d), Ack("add", {d}))
BridgeRemove(i) ==
    Spend("remove") /\ BridgeChange(RemoveAt(held, i), Ack("remove", {held[i]}))
BridgeClear ==
    Spend("remove") /\ held # <<>> /\ BridgeChange(<<>>, Ack("remove", Device))

\* The bridge is reconfigured: its topics move.
BridgeReconfigure(l) ==
    /\ Spend("reconfigure")
    /\ l # layout /\ layout' = l /\ announce' = TRUE
    /\ UNCHANGED <<held, retained, requests, inbound, clientVars, history>>

\* The bridge (re)publishes its retained config after a change.
PublishConfig ==
    /\ announce /\ announce' = FALSE /\ retained' = TRUE
    /\ inbound' = IF Listening THEN Append(inbound, Config) ELSE inbound
    /\ UNCHANGED <<held, layout, requests, clientVars, history, spent>>

\* Another client's request: its page goes to everyone.
ForeignPage(off) ==
    /\ Spend("foreign")
    /\ inbound' = Heard(Page(off))
    /\ UNCHANGED <<bridgeVars, requests, clientVars, history>>

\* A request is lost (the bridge was away).
LoseRequest ==
    /\ Spend("loss")
    /\ requests # <<>> /\ requests' = Tail(requests)
    /\ UNCHANGED <<bridgeVars, inbound, clientVars, history>>

\* The connection drops: the last messages under way are lost.
Disconnect(n) ==
    /\ Spend("loss")
    /\ connected /\ connected' = FALSE
    /\ inbound' = SubSeq(inbound, 1, n)
    /\ UNCHANGED <<bridgeVars, requests, phase, templates, records, viewVars, ready, cycleVars,
                   configTasks, caller, history>>

\* paho subscribes again, so the broker replays the retained config.
Reconnect ==
    /\ ~connected /\ connected' = TRUE
    /\ inbound' = IF phase = "started" /\ retained THEN Append(inbound, Config) ELSE inbound
    /\ UNCHANGED <<bridgeVars, requests, phase, templates, records, viewVars, ready, cycleVars,
                   configTasks, caller, history, spent>>

(***************************************************************************)
(* The specification                                                       *)
(***************************************************************************)
Client ==
    \/ Start \/ StartTimeout \/ Stop
    \/ DispatchConfig \/ RunConfigTask \/ DispatchAck
    \/ IgnorePage \/ RefusePage \/ TakePage \/ CommitPage
    \/ Expire \/ RetryStatus
    \/ ReturnRegistry
    \/ \E rs \in Files : SyncDevices(rs)
    \/ \E refresh \in BOOLEAN : CallRegistry(refresh)

Bridge ==
    \/ BridgeServe \/ BridgeClear \/ PublishConfig
    \/ \E i \in 1..Len(held) : BridgeRemove(i)
    \/ \E d \in Device, i \in 1..(Len(held) + 1) : BridgeAdd(d, i)
    \/ \E l \in Layout : BridgeReconfigure(l)
    \/ \E off \in 0..Len(held) : ForeignPage(off)

Connection ==
    \/ LoseRequest \/ Reconnect
    \/ \E n \in 0..Len(inbound) : Disconnect(n)

Next == Client \/ Bridge \/ Connection

Spec == Init /\ [][Next]_vars

\* The event loop runs what is ready, the bridge answers and announces, paho
\* reconnects, and the service reads the device file once.
Fairness ==
    /\ WF_vars(Start)
    /\ WF_vars(DispatchConfig) /\ WF_vars(DispatchAck) /\ WF_vars(RunConfigTask)
    /\ WF_vars(IgnorePage \/ RefusePage \/ TakePage \/ CommitPage)
    /\ WF_vars(Expire) /\ WF_vars(RetryStatus)
    /\ WF_vars(records = NULL /\ \E rs \in Files : SyncDevices(rs))
    /\ WF_vars(BridgeServe) /\ WF_vars(PublishConfig) /\ WF_vars(Reconnect)

FairSpec == Spec /\ Fairness

(***************************************************************************)
(* Properties                                                              *)
(***************************************************************************)
\* Whenever the registry is offered as ready by a client that has not stopped,
\* and no config is on its way, it is exactly what the bridge holds, whatever
\* pages of other clients, slow or repeated answers and changes between two
\* pages went before (_on_status_page, _request_status).
ReadyIsCurrent ==
    ready /\ Listening /\ ~Pending => registered = ToSet(held)

\* Every handler that changes the device file's records or the bridge's devices
\* leaves the Hub driving exactly their intersection (_reconcile).
DrivenIsWanted ==
    driven = IF records = NULL \/ registered = NULL THEN {} ELSE records \cap registered

\* A refresh that returns shows every device whose `add` had been acknowledged
\* before it was asked for and that the bridge still holds (registry, as
\* PanelBridge uses it after a command), unless a removal between its pages moved
\* the rest of the list up: pages say where they begin, not what went before.
RefreshSeesAcked == caller = "released" /\ ~shrunk => known \subseteq registry

\* A registry is ready only while no request for a newer one is open, so a
\* waiting refresh is never released by a snapshot begun before it.
ReadyWhenClosed == ready => since = "none" /\ phase \in {"started", "late"}

\* When the bridge and the device file stop changing, the client settles on
\* what they say, unless it was stopped.
Converges ==
    <>[](phase \in {"stopped", "late"} \/ (ready /\ registered = ToSet(held)
                                 /\ driven = records \cap registered))

\* The registry is the cache RegistryCache describes: fresh while it is ready
\* and listens, and nothing is pending, and settled only by a whole, current snapshot.
Cache == INSTANCE RegistryCache WITH
    truth <- ToSet(held), view <- registered, fresh <- ready /\ Listening /\ ~Pending

RefinesCache == Cache!Spec

(***************************************************************************)
(* The inductive invariant behind ReadyIsCurrent                           *)
(***************************************************************************)
\* A config follows message i, or will.
NewsAfter(i) ==
    announce \/ \E j \in DOMAIN inbound : j > i /\ inbound[j].kind = "config"

\* The page is what the bridge would answer now.
Current(m) == m.devices = Page(m.offset).devices /\ m.more = Page(m.offset).more

\* An old page, and every acknowledgement, is followed by news of the change
\* that made it old.
QueueInv ==
    Listening => \A i \in DOMAIN inbound :
        /\ inbound[i].kind = "page" => NewsAfter(i) \/ Current(inbound[i])
        /\ inbound[i].kind = "ack" => NewsAfter(i)

\* The pages an open request has taken are a prefix of the bridge's list,
\* unless news is pending or the request is to be made again.
CycleInv ==
    since = "fresh" =>
        /\ accum = NULL => offset = 0
        /\ Listening /\ ~rerun /\ accum # NULL =>
             Pending \/ (offset <= Len(held) /\ accum = {held[i] : i \in 1..offset})

PhaseInv ==
    /\ phase \in {"new", "stopped"} => inbound = <<>>
    /\ phase = "new" => templates = NULL /\ configTasks = <<>>
    /\ retained \/ announce
    /\ since # "none" \/ ready => records # NULL
    /\ records # NULL => templates # NULL

IInv ==
    /\ QueueInv /\ CycleInv /\ PhaseInv /\ ReadyWhenClosed /\ ReadyIsCurrent
=============================================================================
