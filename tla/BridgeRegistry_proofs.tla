----------------------- MODULE BridgeRegistry_proofs ------------------------
(***************************************************************************)
(* Proofs about BridgeRegistry, for any set of devices, page size, layouts *)
(* and bounds: its types, that a registry offered as ready is what the     *)
(* bridge holds, that a refresh shows what was acknowledged before it, and *)
(* that the client implements RegistryCache.                               *)
(***************************************************************************)
EXTENDS BridgeRegistry, FiniteSetTheorems, FunctionTheorems, SequenceTheorems, TLAPS

(***************************************************************************)
(* What the bridge sends                                                   *)
(***************************************************************************)
\* A page is a message, its devices are a stretch of the bridge's list.
LEMMA PageType ==
    ASSUME TypeOK, NEW off \in Nat
    PROVE  Page(off) \in Message
<1> DEFINE last == IF off + PageSize < Len(held) THEN off + PageSize ELSE Len(held)
<1>1. last \in Int /\ last <= Len(held) /\ \A i \in off + 1 .. last : held[i] \in Device
  <2>1. Len(held) \in Nat /\ PageSize \in Nat
    BY ConstantsAssumption DEF TypeOK
  <2>2. last \in Int /\ last <= Len(held)
    BY <2>1
  <2>3. ASSUME NEW i \in off + 1 .. last PROVE held[i] \in Device
    BY <2>1, <2>2, <2>3, ElementOfSeq DEF TypeOK
  <2> QED BY <2>2, <2>3
<1>2. SubSeq(held, off + 1, last) \in Seq(Device)
  BY <1>1, SubSeqProperties
<1>3. (IF Totals THEN Len(held) ELSE NULL) \in {NULL} \cup Nat
  BY DEF TypeOK
<1>4. (off + PageSize < Len(held)) \in BOOLEAN
  OBVIOUS
<1>5. ToSet(held) \in SUBSET Device
  BY ElementOfSeq, LenProperties DEF ToSet, TypeOK
<1>6. Page(off) \in PageMsg
  BY <1>2, <1>3, <1>4, <1>5 DEF Page, PageMsg, TypeOK
<1> QED BY <1>6 DEF Message

\* Acknowledgements and configs are messages.
LEMMA OtherTypes ==
    ASSUME TypeOK
    PROVE  /\ Config \in Message
           /\ \A action \in {"add", "remove"}, ids \in SUBSET Device : Ack(action, ids) \in Message
BY DEF TypeOK, Config, Ack, Message, ConfigMsg, AckMsg

\* What is heard is a queue of messages.
LEMMA HeardType ==
    ASSUME TypeOK, NEW m \in Message
    PROVE  Heard(m) \in Seq(Message)
BY DEF TypeOK, Heard, Hears

(***************************************************************************)
(* Types                                                                   *)
(***************************************************************************)
\* A request asked for is rendered for a layout.
LEMMA AskType ==
    ASSUME TypeOK, templates' \in Layout, NEW off \in Nat, Ask(off)
    PROVE  requests' \in Seq(Request)
<1>1. [layout |-> templates', offset |-> off] \in Request
  BY DEF Request
<1> QED BY <1>1, AppendProperties DEF Ask, TypeOK

\* The next request has an offset, and the rest are requests.
LEMMA HeadRequest ==
    ASSUME TypeOK, requests # <<>>
    PROVE  Head(requests).offset \in Nat /\ Tail(requests) \in Seq(Request)
<1>1. requests \in Seq(Request)
  BY Zenon DEF TypeOK
<1>2. Head(requests) \in Request /\ Tail(requests) \in Seq(Request)
  BY <1>1, HeadTailProperties
<1> QED BY <1>2 DEF Request

\* What RequestStatus leaves of the request's variables has their types.
LEMMA RequestType ==
    ASSUME TypeOK, NEW twice \in BOOLEAN, RequestStatus(twice),
           templates' \in {NULL} \cup Layout
    PROVE  /\ ready' \in BOOLEAN /\ since' \in {"none", "fresh", "expired"} /\ rerun' \in BOOLEAN
           /\ accum' \in {NULL} \cup SUBSET Device /\ offset' \in Nat /\ total' \in {NULL} \cup Nat
           /\ requests' \in Seq(Request)
<1>1. CASE templates' = NULL \/ records' = NULL
  BY <1>1 DEF TypeOK, RequestStatus, cycleVars
<1>2. CASE ~(templates' = NULL \/ records' = NULL) /\ since = "fresh"
  BY <1>2 DEF TypeOK, RequestStatus, OpenCycle
<1>3. CASE ~(templates' = NULL \/ records' = NULL) /\ since # "fresh"
  <2>1. OpenCycle(twice) /\ ready' = FALSE
    BY <1>3 DEF RequestStatus
  <2>2. rerun' \in BOOLEAN
    BY <2>1, Zenon DEF OpenCycle
  <2>3. ready' \in BOOLEAN
    BY <2>1
  <2>4. requests' \in Seq(Request)
    BY <1>3, <2>1, AskType DEF OpenCycle
  <2>5. since' = "fresh" /\ accum' = NULL /\ offset' = 0 /\ total' = NULL
    BY <2>1 DEF OpenCycle
  <2> QED BY <2>2, <2>3, <2>4, <2>5
<1> QED BY <1>1, <1>2, <1>3

\* An environment's step stays within the counters' type.
LEMMA SpendType ==
    ASSUME TypeOK, NEW kind \in Kind, Spend(kind)
    PROVE  spent' \in [Kind -> Nat]
BY DEF TypeOK, Spend

\* Reconcile hands the Hub a set of devices.
LEMMA ReconcileType ==
    ASSUME TypeOK, Reconcile, records' \in {NULL} \cup SUBSET Device
    PROVE  driven' \in SUBSET Device
BY DEF TypeOK, Reconcile

\* The message dispatched is a message, and the rest a queue of them.
LEMMA DispatchType ==
    ASSUME TypeOK, NEW kind, Dispatch(kind)
    PROVE  /\ inbound # <<>> /\ inbound' = Tail(inbound)
           /\ Head(inbound) \in Message /\ Head(inbound).kind = kind
           /\ inbound' \in Seq(Message)
BY HeadTailProperties DEF TypeOK, Dispatch

\* The fields of a page.
LEMMA PageFields ==
    ASSUME NEW m \in Message, m.kind = "page"
    PROVE  /\ m.layout \in Layout /\ m.offset \in Nat /\ m.devices \in Seq(Device)
           /\ m.total \in {NULL} \cup Nat /\ m.more \in BOOLEAN /\ m.whole \in SUBSET Device
           /\ Len(m.devices) \in Nat /\ ToSet(m.devices) \in SUBSET Device
<1>1. m \in PageMsg
  BY DEF Message, PageMsg, AckMsg, ConfigMsg
<1>2. m.devices \in Seq(Device)
  BY <1>1 DEF PageMsg
<1>3. Len(m.devices) \in Nat /\ ToSet(m.devices) \in SUBSET Device
  BY <1>2, LenProperties, ElementOfSeq DEF ToSet
<1> QED BY <1>1, <1>2, <1>3 DEF PageMsg

\* The devices an acknowledgement names.
LEMMA AckFields ==
    ASSUME NEW m \in Message, m.kind = "ack"
    PROVE  m.ids \in SUBSET Device
BY DEF Message, PageMsg, AckMsg, ConfigMsg

\* The layout a config announces.
LEMMA ConfigFields ==
    ASSUME NEW m \in Message, m.kind = "config"
    PROVE  m.layout \in Layout
BY DEF Message, PageMsg, AckMsg, ConfigMsg

\* The initial state is well typed.
LEMMA InitType == Init => TypeOK
<1> SUFFICES ASSUME Init PROVE TypeOK
  OBVIOUS
<1>1. held \in Seq(Device)
  <2>1. PICK n \in 0..Cardinality(Device) : held \in [1..n -> Device]
    BY DEF Init
  <2>2. n \in Nat
    BY <2>1
  <2> QED BY <2>1, <2>2, SeqDef
<1>2. announce \in BOOLEAN /\ retained \in BOOLEAN
  BY Zenon DEF Init
<1>3. /\ layout \in Layout /\ connected = TRUE /\ requests = <<>> /\ inbound = <<>>
      /\ phase = "new" /\ templates = NULL /\ records = NULL
      /\ registered = NULL /\ registry = NULL /\ ready = FALSE /\ driven = {}
      /\ since = "none" /\ rerun = FALSE /\ accum = NULL /\ offset = 0 /\ total = NULL
      /\ configTasks = <<>> /\ caller = "idle" /\ acked = {} /\ known = {} /\ shrunk = FALSE
      /\ spent = [k \in Kind |-> 0]
  BY DEF Init
<1>4. connected \in BOOLEAN /\ ready \in BOOLEAN /\ rerun \in BOOLEAN /\ shrunk \in BOOLEAN
  BY <1>3
<1>5. requests \in Seq(Request) /\ inbound \in Seq(Message) /\ configTasks \in Seq(Layout)
  BY <1>3
<1> QED BY <1>1, <1>2, <1>3, <1>4, <1>5 DEF TypeOK

\* Each step of the client keeps the types.
LEMMA ClientType ==
    ASSUME TypeOK, Client
    PROVE  TypeOK'
<1> USE DEF bridgeVars, cycleVars, viewVars, history
<1>1. CASE Start
  BY <1>1, OtherTypes DEF Start, TypeOK
<1>2. CASE StartTimeout
  BY <1>2, ConstantsAssumption DEF StartTimeout, TypeOK
<1>3. CASE Stop
  <2>1. spent' \in [Kind -> Nat]
    BY <1>3, SpendType DEF Stop, Kind
  <2>2. since' \in {"none", "fresh", "expired"} /\ phase' \in {"new", "started", "stopped", "late"}
    BY <1>3 DEF Stop
  <2>3. inbound' \in Seq(Message)
    BY <1>3 DEF Stop
  <2>4. ready' \in BOOLEAN
    BY <1>3 DEF Stop
  <2>5. UNCHANGED <<held, layout, announce, retained, connected, requests, templates, records,
                    registered, registry, driven, rerun, accum, offset, total, configTasks,
                    caller, acked, known, shrunk>>
    BY <1>3 DEF Stop
  <2> QED BY <2>1, <2>2, <2>3, <2>4, <2>5 DEF TypeOK
<1>4. CASE DispatchConfig
  <2>1. Head(inbound).layout \in Layout /\ inbound' \in Seq(Message)
    BY <1>4, DispatchType, ConfigFields DEF DispatchConfig
  <2>2. configTasks' \in Seq(Layout)
    BY <1>4, <2>1 DEF DispatchConfig, TypeOK
  <2> QED BY <1>4, <2>1, <2>2 DEF DispatchConfig, TypeOK
<1>5. CASE RunConfigTask
  <2>1. templates' \in Layout /\ configTasks' \in Seq(Layout)
    BY <1>5, HeadTailProperties DEF RunConfigTask, TypeOK
  <2>2. (templates' # templates) \in BOOLEAN
    OBVIOUS
  <2>3. RequestStatus(templates' # templates)
    BY <1>5 DEF RunConfigTask
  <2>4. /\ ready' \in BOOLEAN /\ since' \in {"none", "fresh", "expired"} /\ rerun' \in BOOLEAN
        /\ accum' \in {NULL} \cup SUBSET Device /\ offset' \in Nat /\ total' \in {NULL} \cup Nat
        /\ requests' \in Seq(Request)
    BY <2>1, <2>2, <2>3, RequestType
  <2>5. phase' \in {"new", "started", "stopped", "late"}
    BY <1>5 DEF RunConfigTask, TypeOK
  <2> QED BY <1>5, <2>1, <2>4, <2>5 DEF RunConfigTask, TypeOK
<1>6. CASE DispatchAck
  <2>1. Head(inbound).ids \in SUBSET Device /\ inbound' \in Seq(Message)
    BY <1>6, DispatchType, AckFields DEF DispatchAck
  <2>2. acked' \in SUBSET Device
    BY <1>6, <2>1 DEF DispatchAck, Acknowledged, TypeOK
  <2>3. registered' \in {NULL} \cup SUBSET Device
    BY <1>6, <2>1 DEF DispatchAck, TypeOK
  <2>4. driven' \in SUBSET Device
    BY <1>6, ReconcileType DEF DispatchAck, TypeOK
  <2> QED BY <1>6, <2>1, <2>2, <2>3, <2>4 DEF DispatchAck, TypeOK
<1>7. CASE IgnorePage
  <2>1. inbound' \in Seq(Message)
    BY <1>7, DispatchType DEF IgnorePage
  <2> QED BY <1>7, <2>1 DEF IgnorePage, TypeOK
<1>8. CASE RefusePage
  <2>1. Head(inbound).total \in {NULL} \cup Nat /\ inbound' \in Seq(Message)
    BY <1>8, DispatchType, PageFields DEF RefusePage
  <2> QED BY <1>8, <2>1 DEF RefusePage, Taken, TakenOf, TypeOK
<1>9. CASE TakePage
  <2> DEFINE m == Head(inbound)
  <2>1. /\ m.total \in {NULL} \cup Nat /\ Len(m.devices) \in Nat
        /\ ToSet(m.devices) \in SUBSET Device /\ inbound' \in Seq(Message)
    BY <1>9, DispatchType, PageFields DEF TakePage
  <2>2. /\ accum' = Taken \cup ToSet(m.devices) /\ total' = TakenOf(m)
        /\ offset' = offset + Len(m.devices) /\ Ask(offset') /\ UNCHANGED templates
    BY <1>9 DEF TakePage
  <2>3. offset' \in Nat /\ requests' \in Seq(Request)
    <3>1. templates' \in Layout
      BY <1>9, <2>2, DispatchType, PageFields DEF TakePage, Expected
    <3>2. offset' \in Nat
      BY <2>1, <2>2 DEF TypeOK
    <3> QED BY <2>2, <3>1, <3>2, AskType
  <2>4. accum' \in SUBSET Device /\ total' \in {NULL} \cup Nat
    BY <2>1, <2>2 DEF Taken, TakenOf, TypeOK
  <2> QED BY <1>9, <2>1, <2>3, <2>4 DEF TakePage, TypeOK
<1>10. CASE CommitPage
  <2> DEFINE m == Head(inbound)
  <2>1. /\ m.total \in {NULL} \cup Nat /\ Len(m.devices) \in Nat
        /\ ToSet(m.devices) \in SUBSET Device /\ inbound' \in Seq(Message)
    BY <1>10, DispatchType, PageFields DEF CommitPage
  <2>2. registry' \in SUBSET Device /\ registered' \in SUBSET Device
    BY <1>10, <2>1 DEF CommitPage, Taken, TypeOK
  <2>3. driven' \in SUBSET Device
    BY <1>10, ReconcileType DEF CommitPage, TypeOK
  <2>4. CASE rerun
    <3>1. OpenCycle(FALSE) /\ ready' = FALSE /\ UNCHANGED caller
      BY <1>10, <2>4 DEF CommitPage
    <3>2. since' = "fresh" /\ accum' = NULL /\ offset' = 0 /\ total' = NULL
      BY <3>1 DEF OpenCycle
    <3>3. requests' \in Seq(Request)
      <4>1. templates' \in Layout
        BY <1>10, DispatchType, PageFields DEF CommitPage, Expected
      <4> QED BY <3>1, <4>1, AskType DEF OpenCycle
    <3>4. rerun' \in BOOLEAN
      BY <3>1 DEF OpenCycle
    <3>5. ready' \in BOOLEAN
      BY <3>1
    <3> QED BY <1>10, <2>1, <2>2, <2>3, <3>1, <3>2, <3>3, <3>4, <3>5 DEF CommitPage, TypeOK
  <2>5. CASE ~rerun
    BY <1>10, <2>1, <2>2, <2>3, <2>5 DEF CommitPage, TakenOf, TypeOK
  <2> QED BY <2>4, <2>5
<1>11. CASE Expire
  <2>1. spent' \in [Kind -> Nat]
    BY <1>11, SpendType DEF Expire, Kind, TypeOK
  <2> QED BY <1>11, <2>1 DEF Expire, TypeOK
<1>12. CASE RetryStatus
  <2>1. RequestStatus(FALSE) /\ templates' \in {NULL} \cup Layout
    BY <1>12 DEF RetryStatus, TypeOK
  <2>2. /\ ready' \in BOOLEAN /\ since' \in {"none", "fresh", "expired"} /\ rerun' \in BOOLEAN
        /\ accum' \in {NULL} \cup SUBSET Device /\ offset' \in Nat /\ total' \in {NULL} \cup Nat
        /\ requests' \in Seq(Request)
    BY <2>1, RequestType
  <2> QED BY <1>12, <2>2 DEF RetryStatus, TypeOK
<1>13. CASE ReturnRegistry
  BY <1>13 DEF ReturnRegistry, TypeOK
<1>14. ASSUME NEW rs \in Files, SyncDevices(rs) PROVE TypeOK'
  <2>1. rs \in SUBSET Device
    BY ConstantsAssumption
  <2>2. spent' \in [Kind -> Nat]
    BY <1>14, SpendType DEF SyncDevices, Kind
  <2>3. driven' \in SUBSET Device
    BY <1>14, <2>1, ReconcileType DEF SyncDevices
  <2>4. CASE records = NULL
    <3>1. RequestStatus(FALSE) /\ templates' \in {NULL} \cup Layout
      BY <1>14, <2>4 DEF SyncDevices, TypeOK
    <3>2. /\ ready' \in BOOLEAN /\ since' \in {"none", "fresh", "expired"} /\ rerun' \in BOOLEAN
          /\ accum' \in {NULL} \cup SUBSET Device /\ offset' \in Nat /\ total' \in {NULL} \cup Nat
          /\ requests' \in Seq(Request)
      BY <3>1, RequestType
    <3> QED BY <1>14, <2>1, <2>2, <2>3, <3>2 DEF SyncDevices, TypeOK
  <2>5. CASE records # NULL
    BY <1>14, <2>1, <2>2, <2>3, <2>5 DEF SyncDevices, TypeOK
  <2> QED BY <2>4, <2>5
<1>15. ASSUME NEW refresh \in BOOLEAN, CallRegistry(refresh) PROVE TypeOK'
  <2>1. spent' \in [Kind -> Nat]
    BY <1>15, SpendType DEF CallRegistry, Kind
  <2>2. CASE refresh
    <3>1. RequestStatus(FALSE) /\ templates' \in {NULL} \cup Layout
      BY <1>15, <2>2 DEF CallRegistry, TypeOK
    <3>2. /\ ready' \in BOOLEAN /\ since' \in {"none", "fresh", "expired"} /\ rerun' \in BOOLEAN
          /\ accum' \in {NULL} \cup SUBSET Device /\ offset' \in Nat /\ total' \in {NULL} \cup Nat
          /\ requests' \in Seq(Request)
      BY <3>1, RequestType
    <3> QED BY <1>15, <2>1, <2>2, <3>2 DEF CallRegistry, TypeOK
  <2>3. CASE ~refresh
    BY <1>15, <2>1, <2>3 DEF CallRegistry, TypeOK
  <2> QED BY <2>2, <2>3
<1> QED BY <1>1, <1>2, <1>3, <1>4, <1>5, <1>6, <1>7, <1>8, <1>9, <1>10, <1>11, <1>12, <1>13,
           <1>14, <1>15 DEF Client

\* A device inserted into the bridge's list, or taken out of it, leaves a list.
LEMMA HeldType ==
    ASSUME TypeOK
    PROVE  /\ \A d \in Device, i \in 1..(Len(held) + 1) : InsertAt(held, i, d) \in Seq(Device)
           /\ \A i \in 1..Len(held) : RemoveAt(held, i) \in Seq(Device)
<1> held \in Seq(Device) /\ Len(held) \in Nat
  BY DEF TypeOK
<1>1. \A m \in 1..(Len(held) + 1), n \in 0..Len(held) : SubSeq(held, m, n) \in Seq(Device)
  BY SubSeqProperties, ElementOfSeq
<1>2. ASSUME NEW d \in Device, NEW i \in 1..(Len(held) + 1)
      PROVE  InsertAt(held, i, d) \in Seq(Device)
  <2>1. SubSeq(held, 1, i - 1) \in Seq(Device) /\ SubSeq(held, i, Len(held)) \in Seq(Device)
    BY <1>1
  <2> QED BY <2>1, ConcatProperties DEF InsertAt
<1>3. ASSUME NEW i \in 1..Len(held) PROVE RemoveAt(held, i) \in Seq(Device)
  <2>1. SubSeq(held, 1, i - 1) \in Seq(Device) /\ SubSeq(held, i + 1, Len(held)) \in Seq(Device)
    BY <1>1
  <2> QED BY <2>1, ConcatProperties DEF RemoveAt
<1> QED BY <1>2, <1>3

\* A change of the bridge's list keeps the types.
LEMMA ChangeType ==
    ASSUME TypeOK, spent' \in [Kind -> Nat],
           NEW newHeld \in Seq(Device), NEW ack \in Message, BridgeChange(newHeld, ack)
    PROVE  TypeOK'
<1>1. inbound' \in Seq(Message)
  BY HeardType DEF BridgeChange
<1>2. acked' \in SUBSET Device /\ known' \in SUBSET Device
  BY DEF BridgeChange, TypeOK
<1>3. announce' \in BOOLEAN
  BY DEF BridgeChange
<1> QED BY <1>1, <1>2, <1>3 DEF BridgeChange, TypeOK, clientVars, cycleVars, viewVars

\* Each step of the bridge keeps the types.
LEMMA BridgeType ==
    ASSUME TypeOK, Bridge
    PROVE  TypeOK'
<1> USE DEF bridgeVars, clientVars, cycleVars, viewVars, history
<1>1. CASE BridgeServe
  <2>1. Head(requests).offset \in Nat /\ requests' \in Seq(Request)
    BY <1>1, HeadRequest DEF BridgeServe
  <2>2. inbound' \in Seq(Message)
    BY <1>1, <2>1, PageType, HeardType DEF BridgeServe, TypeOK
  <2> QED BY <1>1, <2>1, <2>2 DEF BridgeServe, TypeOK
<1>2. CASE BridgeClear
  <2>1. Ack("remove", Device) \in Message
    BY OtherTypes
  <2>2. spent' \in [Kind -> Nat]
    BY <1>2, SpendType DEF BridgeClear, Kind
  <2>3. <<>> \in Seq(Device)
    OBVIOUS
  <2>4. BridgeChange(<<>>, Ack("remove", Device))
    BY <1>2 DEF BridgeClear
  <2> QED BY <2>1, <2>2, <2>3, <2>4, ChangeType
<1>3. CASE PublishConfig
  <2>1. inbound' \in Seq(Message)
    BY <1>3, OtherTypes DEF PublishConfig, TypeOK
  <2>2. announce' \in BOOLEAN
    BY <1>3 DEF PublishConfig
  <2>3. retained' \in BOOLEAN
    BY <1>3 DEF PublishConfig
  <2> QED BY <1>3, <2>1, <2>2, <2>3 DEF PublishConfig, TypeOK
<1>4. ASSUME NEW i \in 1..Len(held), BridgeRemove(i) PROVE TypeOK'
  <2>1. Ack("remove", {held[i]}) \in Message
    BY OtherTypes, ElementOfSeq, SMTT(30) DEF TypeOK
  <2>2. spent' \in [Kind -> Nat]
    BY <1>4, SpendType DEF BridgeRemove, Kind
  <2> QED BY <1>4, <2>1, <2>2, ChangeType, HeldType DEF BridgeRemove
<1>5. ASSUME NEW d \in Device, NEW i \in 1..(Len(held) + 1), BridgeAdd(d, i) PROVE TypeOK'
  <2>1. Ack("add", {d}) \in Message
    BY OtherTypes
  <2>2. spent' \in [Kind -> Nat]
    BY <1>5, SpendType DEF BridgeAdd, Kind
  <2> QED BY <1>5, <2>1, <2>2, ChangeType, HeldType DEF BridgeAdd
<1>6. ASSUME NEW l \in Layout, BridgeReconfigure(l) PROVE TypeOK'
  <2>1. spent' \in [Kind -> Nat]
    BY <1>6, SpendType DEF BridgeReconfigure, Kind
  <2>2. announce' \in BOOLEAN
    BY <1>6 DEF BridgeReconfigure
  <2> QED BY <1>6, <2>1, <2>2 DEF BridgeReconfigure, TypeOK
<1>7. ASSUME NEW off \in 0..Len(held), ForeignPage(off) PROVE TypeOK'
  <2>1. spent' \in [Kind -> Nat]
    BY <1>7, SpendType DEF ForeignPage, Kind
  <2>2. inbound' \in Seq(Message)
    BY <1>7, PageType, HeardType DEF ForeignPage
  <2> QED BY <1>7, <2>1, <2>2 DEF ForeignPage, TypeOK
<1> QED BY <1>1, <1>2, <1>3, <1>4, <1>5, <1>6, <1>7 DEF Bridge

\* Each step of the connection keeps the types.
LEMMA ConnectionType ==
    ASSUME TypeOK, Connection
    PROVE  TypeOK'
<1> USE DEF bridgeVars, clientVars, cycleVars, viewVars, history
<1>1. CASE LoseRequest
  <2>1. spent' \in [Kind -> Nat]
    BY <1>1, SpendType DEF LoseRequest, Kind
  <2>2. requests' \in Seq(Request)
    BY <1>1, HeadTailProperties DEF LoseRequest, TypeOK
  <2> QED BY <1>1, <2>1, <2>2 DEF LoseRequest, TypeOK
<1>2. CASE Reconnect
  <2>1. inbound' \in Seq(Message)
    BY <1>2, OtherTypes DEF Reconnect, TypeOK
  <2>2. connected' \in BOOLEAN
    BY <1>2 DEF Reconnect
  <2> QED BY <1>2, <2>1, <2>2 DEF Reconnect, TypeOK
<1>3. ASSUME NEW n \in 0..Len(inbound), Disconnect(n) PROVE TypeOK'
  <2>1. spent' \in [Kind -> Nat]
    BY <1>3, SpendType DEF Disconnect, Kind
  <2>2. inbound' \in Seq(Message)
    BY <1>3, SubSeqProperties, ElementOfSeq DEF Disconnect, TypeOK
  <2>3. connected' \in BOOLEAN
    BY <1>3 DEF Disconnect
  <2> QED BY <1>3, <2>1, <2>2, <2>3 DEF Disconnect, TypeOK
<1> QED BY <1>1, <1>2, <1>3 DEF Connection

\* Every step keeps the types.
LEMMA NextType == TypeOK /\ [Next]_vars => TypeOK'
<1> SUFFICES ASSUME TypeOK, [Next]_vars PROVE TypeOK'
  OBVIOUS
<1>1. CASE UNCHANGED vars
  BY <1>1 DEF vars, bridgeVars, viewVars, cycleVars, history, TypeOK
<1> QED BY <1>1, ClientType, BridgeType, ConnectionType DEF Next

\* Every variable keeps its type, whatever the bridge, the network and the
\* device file do.
THEOREM TypeCorrect == Spec => []TypeOK
BY InitType, NextType, PTL DEF Spec

(***************************************************************************)
(* The queue: what is old in it is followed by news                        *)
(***************************************************************************)
\* Dispatching a message that is no config loses no news.
LEMMA DispatchQueue ==
    ASSUME TypeOK, QueueInv, NEW kind, Dispatch(kind),
           UNCHANGED <<held, announce, connected, phase>>
    PROVE  QueueInv'
<1>1. /\ inbound' = Tail(inbound) /\ Len(inbound) \in Nat
      /\ DOMAIN inbound' = 1..(Len(inbound) - 1) /\ DOMAIN inbound = 1..Len(inbound)
      /\ \A i \in DOMAIN inbound' : i + 1 \in DOMAIN inbound /\ inbound'[i] = inbound[i + 1]
  BY HeadTailProperties, LenProperties DEF TypeOK, Dispatch
<1>2. ASSUME NEW i \in DOMAIN inbound', NewsAfter(i + 1) PROVE NewsAfter(i)'
  <2>1. CASE announce
    BY <2>1 DEF NewsAfter
  <2>2. ASSUME NEW j \in DOMAIN inbound, j > i + 1, inbound[j].kind = "config"
        PROVE  NewsAfter(i)'
    <3>1. j - 1 \in DOMAIN inbound' /\ j - 1 > i /\ inbound'[j - 1] = inbound[j]
      BY <1>1, <2>2
    <3> QED BY <3>1, <2>2 DEF NewsAfter
  <2> QED BY <1>2, <2>1, <2>2 DEF NewsAfter
<1>4. ASSUME Listening', NEW i \in DOMAIN inbound'
      PROVE  /\ inbound'[i].kind = "page" => NewsAfter(i)' \/ Current(inbound[i])'
             /\ inbound'[i].kind = "ack" => NewsAfter(i)'
  <2>1. i + 1 \in DOMAIN inbound /\ inbound'[i] = inbound[i + 1]
    BY <1>1
  <2>2. /\ inbound[i + 1].kind = "page" => NewsAfter(i + 1) \/ Current(inbound[i + 1])
        /\ inbound[i + 1].kind = "ack" => NewsAfter(i + 1)
    BY <2>1, <1>4 DEF QueueInv, Listening
  <2>3. NewsAfter(i + 1) => NewsAfter(i)'
    BY <1>2
  <2>4. Current(inbound[i + 1]) => Current(inbound[i])'
    BY <2>1 DEF Current, Page
  <2> QED BY <2>1, <2>2, <2>3, <2>4
<1> QED BY <1>4 DEF QueueInv, Listening

\* News behind the message dispatched, or other news, is still pending then.
LEMMA DispatchPending ==
    ASSUME TypeOK, NEW kind, kind # "config", Dispatch(kind), UNCHANGED <<announce, configTasks>>
    PROVE  /\ Pending => Pending'
           /\ NewsAfter(1) => Pending'
<1>1. /\ DOMAIN inbound' = 1..(Len(inbound) - 1) /\ DOMAIN inbound = 1..Len(inbound)
      /\ Len(inbound) \in Nat /\ inbound[1].kind = kind
      /\ \A i \in DOMAIN inbound' : inbound'[i] = inbound[i + 1]
  BY HeadTailProperties, LenProperties DEF TypeOK, Dispatch
<1>2. ASSUME NEW j \in DOMAIN inbound, inbound[j].kind = "config" PROVE Pending'
  <2>1. j # 1
    BY <1>1, <1>2
  <2>2. j - 1 \in DOMAIN inbound' /\ inbound'[j - 1] = inbound[j]
    BY <1>1, <2>1
  <2> QED BY <1>2, <2>2 DEF Pending
<1>3. announce \/ configTasks # <<>> => Pending'
  BY DEF Pending
<1>4. Pending => Pending'
  BY <1>2, <1>3 DEF Pending
<1>5. NewsAfter(1) => Pending'
  BY <1>2, <1>3 DEF NewsAfter
<1> QED BY <1>4, <1>5

\* A page is current when the bridge sends it.
LEMMA PageQueue ==
    ASSUME TypeOK, QueueInv, NEW off \in Nat, inbound' = Heard(Page(off)),
           UNCHANGED <<held, announce, connected, phase>>
    PROVE  QueueInv'
<1>1. CASE inbound' = inbound
  <2>1. \A i \in DOMAIN inbound : Current(inbound[i]) => Current(inbound[i])'
    BY <1>1 DEF Current, Page
  <2>2. \A i \in DOMAIN inbound : NewsAfter(i) => NewsAfter(i)'
    BY <1>1 DEF NewsAfter
  <2> QED BY <1>1, <2>1, <2>2 DEF QueueInv, Listening
<1>2. CASE inbound' = Append(inbound, Page(off))
  <2>1. /\ Len(inbound) \in Nat /\ DOMAIN inbound = 1..Len(inbound)
        /\ DOMAIN inbound' = 1..(Len(inbound) + 1)
        /\ \A i \in DOMAIN inbound : inbound'[i] = inbound[i]
        /\ inbound'[Len(inbound) + 1] = Page(off)
    BY <1>2, PageType, AppendProperties DEF TypeOK
  <2>2. ASSUME NEW i \in DOMAIN inbound', i = Len(inbound) + 1
        PROVE  inbound'[i].kind = "page" /\ Current(inbound[i])'
    <3>1. inbound'[i] = Page(off)
      BY <2>1, <2>2
    <3>2. inbound'[i].kind = "page" /\ inbound'[i].offset = off
      BY <3>1 DEF Page
    <3>3. Page(off)'.devices = Page(off).devices
      BY DEF Page
    <3>4. Page(off)'.more = Page(off).more
      BY Zenon DEF Page
    <3>5. Current(inbound[i])'
      BY <3>1, <3>2, <3>3, <3>4 DEF Current
    <3> QED BY <3>2, <3>5
  <2>3. ASSUME NEW i \in DOMAIN inbound, NewsAfter(i) PROVE NewsAfter(i)'
    BY <2>1, <2>3 DEF NewsAfter
  <2>4. ASSUME NEW i \in DOMAIN inbound, Current(inbound[i])
        PROVE  Current(inbound[i])'
    <3>1. inbound'[i] = inbound[i]
      BY <2>1
    <3>2. PICK o : o = inbound[i].offset
      OBVIOUS
    <3>3. Page(o)'.devices = Page(o).devices /\ Page(o)'.more = Page(o).more
      BY Zenon DEF Page
    <3> QED BY <2>4, <3>1, <3>2, <3>3 DEF Current
  <2>5. ASSUME Listening', NEW i \in DOMAIN inbound'
        PROVE  /\ inbound'[i].kind = "page" => NewsAfter(i)' \/ Current(inbound[i])'
               /\ inbound'[i].kind = "ack" => NewsAfter(i)'
    <3>1. CASE i = Len(inbound) + 1
      BY <3>1, <2>1, <2>2
    <3>2. CASE i \in DOMAIN inbound
      <4>1. /\ inbound[i].kind = "page" => NewsAfter(i) \/ Current(inbound[i])
            /\ inbound[i].kind = "ack" => NewsAfter(i)
        BY <2>5, <3>2 DEF QueueInv, Listening
      <4>2. NewsAfter(i) => NewsAfter(i)'
        BY <2>3, <3>2
      <4>3. Current(inbound[i]) => Current(inbound[i])'
        BY <2>4, <3>2
      <4> QED BY <2>1, <3>2, <4>1, <4>2, <4>3
    <3> QED BY <2>1, <3>1, <3>2
  <2> QED BY <2>5 DEF QueueInv, Listening
<1> QED BY <1>1, <1>2 DEF Heard, Hears

\* A config at the end of the queue is news of all that is before it.
LEMMA ConfigQueue ==
    ASSUME TypeOK, inbound' = Append(inbound, Config)
    PROVE  QueueInv' /\ Pending'
<1>1. /\ Len(inbound) \in Nat /\ DOMAIN inbound' = 1..(Len(inbound) + 1)
      /\ inbound'[Len(inbound) + 1] = Config
  BY OtherTypes, AppendProperties DEF TypeOK
<1>2. Config.kind = "config"
  BY DEF Config
<1>3. ASSUME NEW i \in DOMAIN inbound', inbound'[i].kind # "config" PROVE NewsAfter(i)'
  BY <1>1, <1>2, <1>3 DEF NewsAfter
<1>4. Pending'
  BY <1>1, <1>2 DEF Pending
<1> QED BY <1>3, <1>4 DEF QueueInv, Listening

\* A change to be announced is news.
LEMMA AnnounceQueue ==
    ASSUME announce'
    PROVE  QueueInv' /\ Pending'
BY DEF QueueInv, NewsAfter, Pending, Listening

(***************************************************************************)
(* The request                                                             *)
(***************************************************************************)
\* Asking for the status withdraws the registry, and leaves the request either
\* empty, or to be made again.
LEMMA RequestInv ==
    ASSUME TypeOK, CycleInv, PhaseInv, NEW twice \in BOOLEAN, RequestStatus(twice),
           records' = NULL => records = NULL, templates' = NULL => templates = NULL
    PROVE  /\ ready' = FALSE /\ CycleInv'
           /\ since' # "none" => records' # NULL
<1>1. CASE templates' = NULL \/ records' = NULL
  <2>1. since = "none" /\ ~ready
    BY <1>1 DEF PhaseInv
  <2>2. since' = "none" /\ ~ready'
    BY <1>1, <2>1 DEF RequestStatus, cycleVars
  <2>3. CycleInv'
    BY <2>2 DEF CycleInv, Listening
  <2> QED BY <1>1, <2>2, <2>3
<1>2. CASE ~(templates' = NULL \/ records' = NULL) /\ since = "fresh"
  <2>1. ready' = FALSE /\ rerun' = TRUE /\ accum' = accum /\ offset' = offset
    BY <1>2 DEF RequestStatus, OpenCycle
  <2>2. accum = NULL => offset = 0
    BY <1>2 DEF CycleInv, Listening
  <2> QED BY <1>2, <2>1, <2>2 DEF CycleInv, Listening
<1>3. CASE ~(templates' = NULL \/ records' = NULL) /\ since # "fresh"
  <2>1. ready' = FALSE /\ accum' = NULL /\ offset' = 0
    BY <1>3 DEF RequestStatus, OpenCycle
  <2> QED BY <1>3, <2>1 DEF CycleInv, Listening
<1> QED BY <1>1, <1>2, <1>3

\* A page this request takes continues what it has taken, unless news is
\* behind the page.
LEMMA PageTaken ==
    ASSUME TypeOK, IInv, Dispatch("page"), Expected(Head(inbound)), Listening, ~rerun,
           ~NewsAfter(1), ~Pending
    PROVE  /\ Head(inbound).more =>
                /\ offset + Len(Head(inbound).devices) <= Len(held)
                /\ Taken \cup ToSet(Head(inbound).devices)
                     = {held[i] : i \in 1..(offset + Len(Head(inbound).devices))}
           /\ ~Head(inbound).more =>
                Taken \cup ToSet(Head(inbound).devices) = ToSet(held)
<1> DEFINE m == Head(inbound)
           last == IF offset + PageSize < Len(held) THEN offset + PageSize ELSE Len(held)
<1>1. m \in Message /\ m.kind = "page" /\ inbound[1] = m /\ 1 \in DOMAIN inbound
  BY DispatchType, LenProperties DEF TypeOK, Dispatch
<1>2. Current(m)
  BY <1>1 DEF IInv, QueueInv, Listening
<1>3. m.offset = offset /\ since = "fresh" /\ inbound # <<>>
  BY DEF Expected, Dispatch
<1>5. /\ offset \in Nat /\ PageSize \in Nat \ {0} /\ Len(held) \in Nat
      /\ DOMAIN held = 1..Len(held) /\ held \in Seq(Device)
  BY ConstantsAssumption, LenProperties DEF TypeOK
<1>6. /\ m.devices = SubSeq(held, offset + 1, last)
      /\ m.more <=> offset + PageSize < Len(held)
  BY <1>2, <1>3 DEF Current, Page
<1>7. offset <= Len(held) /\ Taken = {held[i] : i \in 1..offset}
  <2>1. CASE accum = NULL
    BY <1>3, <1>5, <2>1 DEF IInv, CycleInv, Taken, Listening
  <2>2. CASE accum # NULL
    BY <1>3, <2>2 DEF IInv, CycleInv, Taken, Listening
  <2> QED BY <2>1, <2>2
<1>8. last \in Nat /\ offset <= last /\ last <= Len(held)
  BY <1>5, <1>7
<1>9. /\ Len(m.devices) = last - offset
      /\ \A i \in 1..(last - offset) : m.devices[i] = held[offset + i]
  <2>1. \A i \in offset + 1 .. last : held[i] \in Device
    BY <1>5, <1>8, ElementOfSeq
  <2>2. /\ Len(SubSeq(held, offset + 1, last)) =
             IF offset + 1 <= last THEN last - (offset + 1) + 1 ELSE 0
        /\ \A i \in 1 .. last - (offset + 1) + 1 :
             SubSeq(held, offset + 1, last)[i] = held[offset + 1 + i - 1]
    BY <1>5, <1>8, <2>1, SubSeqProperties
  <2>3. last - (offset + 1) + 1 = last - offset
    BY <1>5, <1>8
  <2>4. \A i \in 1..(last - offset) : offset + 1 + i - 1 = offset + i
    BY <1>5, <1>8
  <2>5. m.devices = SubSeq(held, offset + 1, last)
    BY <1>6
  <2>6. Len(m.devices) = last - offset
    <3>1. offset \in Nat /\ last \in Nat /\ offset <= last
      BY <1>5, <1>8
    <3>2. Len(m.devices) = IF offset + 1 <= last THEN last - (offset + 1) + 1 ELSE 0
      BY <2>2, <2>5
    <3> HIDE DEF last, m
    <3> QED BY <3>1, <3>2
  <2>7. \A i \in 1..(last - offset) : m.devices[i] = held[offset + i]
    BY <2>2, <2>3, <2>4, <2>5
  <2> HIDE DEF last
  <2> QED BY <2>6, <2>7
<1>10. ToSet(m.devices) = {held[i] : i \in offset + 1 .. last}
  <2>1. DOMAIN m.devices = 1..(last - offset)
    BY <1>1, <1>9, PageFields, LenProperties
  <2>2. ASSUME NEW d \in ToSet(m.devices) PROVE d \in {held[i] : i \in offset + 1 .. last}
    <3>1. PICK i \in 1..(last - offset) : d = m.devices[i]
      BY <2>1 DEF ToSet
    <3> QED BY <3>1, <1>5, <1>8, <1>9
  <2>3. ASSUME NEW i \in offset + 1 .. last PROVE held[i] \in ToSet(m.devices)
    <3>1. i - offset \in 1..(last - offset) /\ offset + (i - offset) = i
      BY <1>5, <1>8
    <3>2. m.devices[i - offset] = held[i]
      BY <3>1, <1>9
    <3> QED BY <2>1, <3>1, <3>2 DEF ToSet
  <2> QED BY <2>2, <2>3
<1>11. Taken \cup ToSet(m.devices) = {held[i] : i \in 1..last}
  <2>1. 1..last = 1..offset \cup (offset + 1 .. last)
    BY <1>5, <1>8
  <2> QED BY <1>7, <1>10, <2>1
<1>12. offset + Len(m.devices) = last
  BY <1>5, <1>8, <1>9
<1>13. CASE m.more
  BY <1>8, <1>11, <1>12, <1>13
<1>14. CASE ~m.more
  <2>1. last = Len(held)
    BY <1>5, <1>6, <1>14
  <2>2. ToSet(held) = {held[i] : i \in 1..Len(held)}
    BY <1>5 DEF ToSet
  <2> QED BY <1>11, <1>14, <2>1, <2>2
<1> QED BY <1>13, <1>14

(***************************************************************************)
(* Every step keeps IInv                                                   *)
(***************************************************************************)
\* A step that touches nothing IInv speaks of.
LEMMA Frame ==
    ASSUME IInv,
           UNCHANGED <<held, announce, retained, connected, inbound, phase, templates, records,
                       registered, ready, since, rerun, accum, offset, configTasks>>
    PROVE  IInv'
<1>1. QueueInv'
  BY DEF IInv, QueueInv, NewsAfter, Current, Page, Listening
<1>2. Pending' = Pending
  BY DEF Pending
<1>3. CycleInv'
  BY <1>2 DEF IInv, CycleInv, Listening
<1>4. PhaseInv' /\ ReadyWhenClosed' /\ ReadyIsCurrent'
  BY <1>2 DEF IInv, PhaseInv, ReadyWhenClosed, ReadyIsCurrent, Listening
<1> QED BY <1>1, <1>3, <1>4 DEF IInv

\* A step that asks for the status and leaves the queue alone.
LEMMA RequestStep ==
    ASSUME TypeOK, IInv, NEW twice \in BOOLEAN, RequestStatus(twice),
           records' = NULL => records = NULL, templates' = NULL => templates = NULL,
           records' # NULL => templates' # NULL, phase # "new",
           UNCHANGED <<held, announce, retained, connected, inbound>>,
           phase' = phase \/ (phase = "stopped" /\ phase' = "late")
    PROVE  IInv'
<1>1. ready' = FALSE /\ CycleInv' /\ (since' # "none" => records' # NULL)
  BY RequestInv DEF IInv
<1>2. QueueInv'
  BY DEF IInv, QueueInv, NewsAfter, Current, Page, Listening
<1>3. PhaseInv'
  BY <1>1 DEF IInv, PhaseInv
<1>4. ReadyWhenClosed' /\ ReadyIsCurrent'
  BY <1>1 DEF ReadyWhenClosed, ReadyIsCurrent, Listening
<1> QED BY <1>1, <1>2, <1>3, <1>4 DEF IInv

\* A message dispatched without touching the request.
LEMMA DispatchStep ==
    ASSUME TypeOK, IInv, NEW kind, kind # "config", Dispatch(kind),
           UNCHANGED <<held, announce, retained, connected, phase, templates, records, ready,
                       since, rerun, offset, configTasks>>,
           accum' = accum \/ (since = "fresh" /\ accum' = Taken),
           registered' = registered \/ (Listening => NewsAfter(1))
    PROVE  IInv'
<1>1. QueueInv'
  BY DispatchQueue DEF IInv
<1>2. (Pending => Pending') /\ (NewsAfter(1) => Pending')
  BY DispatchPending
<1>3. CycleInv'
  <2>1. CASE accum' = accum
    BY <1>2, <2>1 DEF IInv, CycleInv, Listening
  <2>2. CASE accum = NULL /\ accum' = {} /\ since = "fresh"
    <3>1. {held[i] : i \in 1..0} = {} /\ Len(held) \in Nat
      BY DEF TypeOK
    <3>2. offset = 0
      BY <2>2 DEF IInv, CycleInv, Listening
    <3> QED BY <2>2, <3>1, <3>2 DEF CycleInv, Listening
  <2> QED BY <2>1, <2>2 DEF Taken
<1>4. PhaseInv'
  BY DEF IInv, PhaseInv, Dispatch
<1>5. ReadyWhenClosed'
  BY DEF IInv, ReadyWhenClosed
<1>6. ReadyIsCurrent'
  BY <1>2 DEF IInv, ReadyIsCurrent, Listening
<1> QED BY <1>1, <1>3, <1>4, <1>5, <1>6 DEF IInv

\* A page with more to come keeps IInv.
LEMMA TakePageInv ==
    ASSUME TypeOK, IInv, TakePage
    PROVE  IInv'
<1> DEFINE m == Head(inbound)
<1> USE DEF bridgeVars, viewVars
<1>1. /\ Dispatch("page") /\ Expected(m) /\ m.more /\ accum' = Taken \cup ToSet(m.devices)
      /\ offset' = offset + Len(m.devices)
  BY DEF TakePage
<1>2. UNCHANGED <<held, announce, retained, connected, phase, templates, records, registered,
                  ready, since, rerun, configTasks>>
  BY DEF TakePage
<1>3. QueueInv'
  BY <1>1, <1>2, DispatchQueue DEF IInv
<1>4. (Pending => Pending') /\ (NewsAfter(1) => Pending')
  BY <1>1, <1>2, DispatchPending
<1>5. accum' # NULL
  <2>1. ToSet(m.devices) \in SUBSET Device
    BY <1>1, DispatchType, PageFields
  <2>2. accum' \in SUBSET Device
    BY <1>1, <2>1 DEF Taken, TypeOK
  <2> QED BY <2>2, ConstantsAssumption
<1>6. ASSUME Listening', ~rerun', ~Pending'
      PROVE  offset' <= Len(held') /\ accum' = {held'[i] : i \in 1..offset'}
  BY <1>1, <1>2, <1>4, <1>6, PageTaken DEF Listening
<1>7. CycleInv'
  BY <1>5, <1>6 DEF CycleInv, Listening
<1>8. PhaseInv' /\ ReadyWhenClosed'
  BY <1>1, <1>2 DEF IInv, PhaseInv, ReadyWhenClosed, Dispatch
<1>9. ReadyIsCurrent'
  BY <1>2, <1>4 DEF IInv, ReadyIsCurrent, Listening
<1> QED BY <1>3, <1>7, <1>8, <1>9 DEF IInv

\* The last page keeps IInv.
LEMMA CommitPageInv ==
    ASSUME TypeOK, IInv, CommitPage
    PROVE  IInv'
<1> DEFINE m == Head(inbound)
<1> USE DEF bridgeVars
<1>1. /\ Dispatch("page") /\ Expected(m) /\ ~m.more
      /\ registered' = Taken \cup ToSet(m.devices)
  BY DEF CommitPage
<1>2. UNCHANGED <<held, announce, retained, connected, phase, templates, records, configTasks>>
  BY DEF CommitPage
<1>3. phase \in {"started", "late"} /\ records # NULL
  BY <1>1 DEF IInv, PhaseInv, Dispatch, Expected, TypeOK
<1>4. QueueInv'
  BY <1>1, <1>2, DispatchQueue DEF IInv
<1>5. (Pending => Pending') /\ (NewsAfter(1) => Pending')
  BY <1>1, <1>2, DispatchPending
<1>6. PhaseInv'
  BY <1>2, <1>3 DEF IInv, PhaseInv
<1>7. CASE rerun
  <2>1. since' = "fresh" /\ accum' = NULL /\ offset' = 0 /\ ready' = FALSE
    BY <1>7 DEF CommitPage, OpenCycle
  <2>2. CycleInv' /\ ReadyWhenClosed' /\ ReadyIsCurrent'
    BY <2>1 DEF CycleInv, ReadyWhenClosed, ReadyIsCurrent, Listening
  <2> QED BY <1>4, <1>6, <2>2 DEF IInv
<1>8. CASE ~rerun
  <2>1. since' = "none" /\ ready' = TRUE
    BY <1>8 DEF CommitPage
  <2>2. Listening' /\ ~Pending' => registered' = ToSet(held')
    BY <1>1, <1>2, <1>5, <1>8, PageTaken DEF Listening
  <2>3. CycleInv' /\ ReadyWhenClosed' /\ ReadyIsCurrent'
    BY <1>2, <1>3, <2>1, <2>2 DEF CycleInv, ReadyWhenClosed, ReadyIsCurrent, Listening
  <2> QED BY <1>4, <1>6, <2>3 DEF IInv
<1> QED BY <1>7, <1>8

\* Each step of the client keeps IInv.
LEMMA ClientInv ==
    ASSUME TypeOK, IInv, Client
    PROVE  IInv'
<1> USE DEF bridgeVars, cycleVars, viewVars, history
<1>1. CASE Start
  <2>1. phase = "new" /\ since = "none" /\ ~ready
    BY <1>1 DEF Start, IInv, PhaseInv
  <2>2. since' = "none" /\ ~ready' /\ phase' = "started"
    BY <1>1, <2>1 DEF Start
  <2>3. QueueInv'
    <3>1. CASE retained
      <4>1. inbound' = <<Config>> /\ Config.kind = "config"
        BY <1>1, <3>1 DEF Start, Config
      <4> QED BY <4>1 DEF QueueInv, Listening
    <3>2. CASE ~retained
      BY <1>1, <3>2 DEF Start, QueueInv, Listening
    <3> QED BY <3>1, <3>2
  <2>4. PhaseInv'
    BY <1>1, <2>2 DEF Start, IInv, PhaseInv
  <2> QED BY <2>2, <2>3, <2>4 DEF IInv, CycleInv, ReadyWhenClosed, ReadyIsCurrent, Listening
<1>2. CASE StartTimeout
  <2>1. /\ since = "none" /\ ~ready /\ phase = "started"
        /\ UNCHANGED <<held, announce, retained, connected, inbound, phase, records, since, ready>>
    BY <1>2 DEF StartTimeout, IInv, PhaseInv
  <2>2. templates' # NULL
    BY <1>2, ConstantsAssumption DEF StartTimeout
  <2>3. QueueInv'
    BY <2>1 DEF IInv, QueueInv, NewsAfter, Current, Page, Listening
  <2> QED BY <2>1, <2>2, <2>3 DEF IInv, PhaseInv, CycleInv, ReadyWhenClosed, ReadyIsCurrent, Listening
<1>3. CASE Stop
  <2>1. /\ inbound' = <<>> /\ since' = "none" /\ ~ready' /\ phase' = "stopped"
        /\ UNCHANGED <<announce, retained, templates, records>>
    BY <1>3 DEF Stop
  <2>2. QueueInv'
    BY <2>1 DEF QueueInv, Listening
  <2> QED BY <2>1, <2>2 DEF IInv, PhaseInv, CycleInv, ReadyWhenClosed, ReadyIsCurrent, Listening
<1>4. CASE DispatchConfig
  <2>1. QueueInv'
    BY <1>4, DispatchQueue DEF DispatchConfig, IInv
  <2>2. Pending'
    <3>1. Head(inbound).layout \in Layout
      BY <1>4, DispatchType, ConfigFields DEF DispatchConfig
    <3>2. configTasks' # <<>>
      BY <1>4, <3>1, AppendProperties DEF DispatchConfig, TypeOK
    <3> QED BY <3>2 DEF Pending
  <2>3. phase \in {"started", "late"}
    BY <1>4 DEF DispatchConfig, Dispatch, IInv, PhaseInv, TypeOK
  <2> QED BY <1>4, <2>1, <2>2, <2>3 DEF DispatchConfig, IInv, CycleInv, PhaseInv, ReadyWhenClosed,
                                        ReadyIsCurrent, Listening
<1>5. CASE RunConfigTask
  <2>1. templates' \in Layout /\ phase # "new"
    BY <1>5, HeadTailProperties DEF RunConfigTask, TypeOK, IInv, PhaseInv
  <2>2. templates' # NULL /\ (templates' # templates) \in BOOLEAN
    BY <2>1, ConstantsAssumption
  <2>3. phase' = phase \/ (phase = "stopped" /\ phase' = "late")
    BY <1>5 DEF RunConfigTask
  <2> QED BY <1>5, <2>1, <2>2, <2>3, RequestStep DEF RunConfigTask
<1>6. CASE DispatchAck
  <2>1. Dispatch("ack") /\ inbound[1].kind = "ack" /\ 1 \in DOMAIN inbound
    BY <1>6, LenProperties DEF DispatchAck, Dispatch, TypeOK
  <2>2. Listening => NewsAfter(1)
    BY <2>1 DEF IInv, QueueInv, Listening
  <2> QED BY <1>6, <2>1, <2>2, DispatchStep DEF DispatchAck
<1>7. CASE IgnorePage
  BY <1>7, DispatchStep DEF IgnorePage
<1>8. CASE RefusePage
  <2>1. since = "fresh"
    BY <1>8 DEF RefusePage, Expected
  <2> QED BY <1>8, <2>1, DispatchStep DEF RefusePage
<1>9. CASE TakePage
  BY <1>9, TakePageInv
<1>10. CASE CommitPage
  BY <1>10, CommitPageInv
<1>11. CASE Expire
  <2>1. /\ since = "fresh" /\ since' = "expired"
        /\ UNCHANGED <<held, announce, retained, connected, inbound, phase, templates, records,
                       registered, ready, configTasks>>
    BY <1>11 DEF Expire
  <2>2. QueueInv'
    BY <2>1 DEF IInv, QueueInv, NewsAfter, Current, Page, Listening
  <2> QED BY <2>1, <2>2 DEF IInv, PhaseInv, CycleInv, ReadyWhenClosed, ReadyIsCurrent, Listening
<1>12. CASE RetryStatus
  <2>1. phase # "new"
    BY <1>12 DEF RetryStatus, IInv, PhaseInv
  <2>2. records # NULL => templates # NULL
    BY DEF IInv, PhaseInv
  <2> QED BY <1>12, <2>1, <2>2, RequestStep DEF RetryStatus
<1>13. CASE ReturnRegistry
  BY <1>13, Frame DEF ReturnRegistry
<1>14. ASSUME NEW rs \in Files, SyncDevices(rs) PROVE IInv'
  <2>1. rs # NULL
    BY ConstantsAssumption
  <2>2. CASE records = NULL
    BY <1>14, <2>1, <2>2, RequestStep DEF SyncDevices
  <2>3. CASE records # NULL
    <3>1. /\ records' # NULL
          /\ UNCHANGED <<held, announce, retained, connected, inbound, phase, templates,
                         registered, ready, since, rerun, accum, offset, configTasks>>
      BY <1>14, <2>1, <2>3 DEF SyncDevices
    <3>2. QueueInv'
      BY <3>1 DEF IInv, QueueInv, NewsAfter, Current, Page, Listening
    <3>3. Pending' = Pending
      BY <3>1 DEF Pending
    <3> QED BY <2>3, <3>1, <3>2, <3>3 DEF IInv, PhaseInv, CycleInv, ReadyWhenClosed, ReadyIsCurrent, Listening
  <2> QED BY <2>2, <2>3
<1>15. ASSUME NEW refresh \in BOOLEAN, CallRegistry(refresh) PROVE IInv'
  <2>1. CASE refresh
    <3>1. records # NULL => templates # NULL
      BY DEF IInv, PhaseInv
    <3> QED BY <1>15, <2>1, <3>1, RequestStep DEF CallRegistry
  <2>2. CASE ~refresh
    BY <1>15, <2>2, Frame DEF CallRegistry
  <2> QED BY <2>1, <2>2
<1> QED BY <1>1, <1>2, <1>3, <1>4, <1>5, <1>6, <1>7, <1>8, <1>9, <1>10, <1>11, <1>12, <1>13,
           <1>14, <1>15 DEF Client

\* A step of the bridge with a change still to be announced, or of a queue that
\* keeps its invariant and all its news.
LEMMA BridgeStep ==
    ASSUME IInv, QueueInv', Pending => Pending', retained' \/ announce',
           held' = held \/ Pending', phase \in {"new", "stopped"} => inbound' = <<>>,
           UNCHANGED <<connected, phase, templates, records, registered, ready, since, rerun,
                       accum, offset, configTasks>>
    PROVE  IInv'
<1>1. CycleInv'
  BY DEF IInv, CycleInv, Listening
<1>2. PhaseInv'
  BY DEF IInv, PhaseInv
<1>3. ReadyWhenClosed' /\ ReadyIsCurrent'
  BY DEF IInv, ReadyWhenClosed, ReadyIsCurrent, Listening
<1> QED BY <1>1, <1>2, <1>3 DEF IInv

\* Appending to the queue loses no news.
LEMMA AppendPending ==
    ASSUME TypeOK, NEW m \in Message, inbound' = inbound \/ inbound' = Append(inbound, m),
           UNCHANGED <<announce, configTasks>>
    PROVE  Pending => Pending'
<1>1. CASE inbound' = inbound
  BY <1>1 DEF Pending
<1>2. CASE inbound' = Append(inbound, m)
  <2>1. \A i \in DOMAIN inbound : i \in DOMAIN inbound' /\ inbound'[i] = inbound[i]
    BY <1>2, AppendProperties, LenProperties DEF TypeOK
  <2> QED BY <2>1 DEF Pending
<1> QED BY <1>1, <1>2

\* Each step of the bridge keeps IInv.
LEMMA BridgeInv ==
    ASSUME TypeOK, IInv, Bridge
    PROVE  IInv'
<1> USE DEF bridgeVars, clientVars, cycleVars, viewVars, history
<1>1. \A msg : phase \in {"new", "stopped"} => Heard(msg) = <<>>
  BY DEF Heard, Listening, IInv, PhaseInv, Hears
<1>2. ASSUME NEW newHeld, NEW ack, BridgeChange(newHeld, ack) PROVE IInv'
  <2>1. QueueInv' /\ Pending' /\ announce'
    BY <1>2, AnnounceQueue DEF BridgeChange
  <2> QED BY <1>1, <1>2, <2>1, BridgeStep DEF BridgeChange
<1>3. ASSUME NEW off \in Nat, inbound' = Heard(Page(off)),
             UNCHANGED <<bridgeVars, clientVars>>
      PROVE  IInv'
  <2>1. QueueInv'
    BY <1>3, PageQueue DEF IInv
  <2>2. Pending => Pending'
    BY <1>3, PageType, AppendPending DEF Heard, Hears
  <2> QED BY <1>1, <1>3, <2>1, <2>2, BridgeStep DEF IInv, PhaseInv
<1>4. CASE BridgeServe
  <2>1. Head(requests).offset \in Nat
    BY <1>4, HeadRequest DEF BridgeServe
  <2>2. CASE inbound' = Heard(Page(Head(requests).offset))
    BY <1>3, <1>4, <2>1, <2>2 DEF BridgeServe
  <2>3. CASE inbound' = inbound
    <3>1. UNCHANGED <<held, layout, announce, retained, clientVars, inbound>>
      BY <1>4, <2>3 DEF BridgeServe
    <3>2. QueueInv'
      BY <3>1 DEF IInv, QueueInv, NewsAfter, Current, Page, Listening
    <3>3. Pending => Pending'
      BY <3>1 DEF Pending
    <3>4. phase \in {"new", "stopped"} => inbound = <<>>
      BY DEF IInv, PhaseInv
    <3> QED BY <3>1, <3>2, <3>3, <3>4, BridgeStep DEF IInv, PhaseInv
  <2> QED BY <1>4, <2>2, <2>3 DEF BridgeServe
<1>5. CASE BridgeClear
  BY <1>2, <1>5 DEF BridgeClear
<1>6. CASE PublishConfig
  <2>1. CASE Listening
    <3>1. QueueInv' /\ Pending'
      BY <1>6, <2>1, ConfigQueue DEF PublishConfig
    <3>2. phase = "started"
      BY <2>1 DEF Listening
    <3> QED BY <1>6, <3>1, <3>2, BridgeStep DEF PublishConfig
  <2>2. CASE ~Listening
    <3>2. UNCHANGED <<held, connected, inbound, phase, templates, records, registered, ready,
                      since, rerun, accum, offset, configTasks>> /\ retained'
      BY <1>6, <2>2 DEF PublishConfig
    <3>3. QueueInv'
      BY <2>2, <3>2 DEF QueueInv, Listening
    <3>4. CycleInv'
      BY <2>2, <3>2 DEF IInv, CycleInv, Listening
    <3>5. PhaseInv'
      BY <3>2 DEF IInv, PhaseInv
    <3>6. ReadyWhenClosed' /\ ReadyIsCurrent'
      BY <2>2, <3>2 DEF IInv, ReadyWhenClosed, ReadyIsCurrent, Listening
    <3> QED BY <3>3, <3>4, <3>5, <3>6 DEF IInv
  <2> QED BY <2>1, <2>2
<1>7. ASSUME NEW i \in 1..Len(held), BridgeRemove(i) PROVE IInv'
  BY <1>2, <1>7 DEF BridgeRemove
<1>8. ASSUME NEW d \in Device, NEW i \in 1..(Len(held) + 1), BridgeAdd(d, i) PROVE IInv'
  BY <1>2, <1>8 DEF BridgeAdd
<1>9. ASSUME NEW l \in Layout, BridgeReconfigure(l) PROVE IInv'
  <2>1. QueueInv' /\ Pending' /\ announce'
    BY <1>9, AnnounceQueue DEF BridgeReconfigure
  <2>2. phase \in {"new", "stopped"} => inbound' = <<>>
    BY <1>9 DEF BridgeReconfigure, IInv, PhaseInv
  <2> QED BY <1>9, <2>1, <2>2, BridgeStep DEF BridgeReconfigure
<1>10. ASSUME NEW off \in 0..Len(held), ForeignPage(off) PROVE IInv'
  <2>1. off \in Nat
    BY <1>10
  <2> QED BY <1>3, <1>10, <2>1 DEF ForeignPage
<1> QED BY <1>4, <1>5, <1>6, <1>7, <1>8, <1>9, <1>10 DEF Bridge

\* Each step of the connection keeps IInv.
LEMMA ConnectionInv ==
    ASSUME TypeOK, IInv, Connection
    PROVE  IInv'
<1> USE DEF bridgeVars, clientVars, cycleVars, viewVars, history
<1>1. CASE LoseRequest
  BY <1>1, Frame DEF LoseRequest
<1>2. CASE Reconnect
  <2>1. UNCHANGED <<held, announce, retained, phase, templates, records, registered, ready,
                    since, rerun, accum, offset, configTasks>>
    BY <1>2 DEF Reconnect
  <2>2. QueueInv' /\ (phase = "started" => Pending')
    <3>1. CASE phase = "started" /\ retained
      BY <1>2, <3>1, ConfigQueue DEF Reconnect
    <3>2. CASE phase = "started" /\ ~retained
      BY <2>1, <3>2, AnnounceQueue DEF IInv, PhaseInv
    <3>3. CASE phase # "started"
      BY <2>1, <3>3 DEF QueueInv, Listening
    <3> QED BY <3>1, <3>2, <3>3
  <2>3. PhaseInv'
    BY <1>2, <2>1 DEF Reconnect, IInv, PhaseInv
  <2>4. CycleInv' /\ ReadyWhenClosed' /\ ReadyIsCurrent'
    BY <2>1, <2>2 DEF IInv, CycleInv, ReadyWhenClosed, ReadyIsCurrent, Listening
  <2> QED BY <2>2, <2>3, <2>4 DEF IInv
<1>3. ASSUME NEW n \in 0..Len(inbound), Disconnect(n) PROVE IInv'
  <2>1. /\ ~connected'
        /\ UNCHANGED <<held, announce, retained, phase, templates, records, registered, ready,
                       since, rerun, accum, offset, configTasks>>
    BY <1>3 DEF Disconnect
  <2>2. inbound = <<>> => inbound' = <<>>
    <3>1. ASSUME inbound = <<>> PROVE inbound' = <<>>
      <4>1. n = 0
        BY <3>1
      <4> QED BY <1>3, <4>1, SubSeqEmpty DEF Disconnect
    <3> QED BY <3>1
  <2> QED BY <2>1, <2>2 DEF IInv, QueueInv, CycleInv, PhaseInv, ReadyWhenClosed, ReadyIsCurrent, Listening
<1> QED BY <1>1, <1>2, <1>3 DEF Connection

\* IInv holds at first.
LEMMA InitInv == Init => IInv
<1> SUFFICES ASSUME Init PROVE IInv
  OBVIOUS
<1>1. retained \/ announce
  BY Zenon DEF Init
<1>2. /\ inbound = <<>> /\ since = "none" /\ ready = FALSE /\ phase = "new"
      /\ templates = NULL /\ records = NULL /\ configTasks = <<>>
  BY DEF Init
<1> QED BY <1>1, <1>2 DEF IInv, QueueInv, CycleInv, PhaseInv, ReadyWhenClosed, ReadyIsCurrent, Listening

\* Every step keeps IInv.
LEMMA NextInv == TypeOK /\ IInv /\ [Next]_vars => IInv'
<1> SUFFICES ASSUME TypeOK, IInv, [Next]_vars PROVE IInv'
  OBVIOUS
<1>1. CASE UNCHANGED vars
  BY <1>1, Frame DEF vars, bridgeVars, viewVars, cycleVars
<1> QED BY <1>1, ClientInv, BridgeInv, ConnectionInv DEF Next

\* The invariant that carries the proofs below.
THEOREM InvariantHolds == Spec => []IInv
BY InitInv, NextInv, TypeCorrect, PTL DEF Spec

\* For every fleet, page size and layout, and however the bridge changes, other
\* clients ask, answers are slow, repeated or lost, and the connection drops: a
\* registry offered as ready, with no config on its way, is what the bridge holds.
THEOREM RegistryCurrent == Spec => []ReadyIsCurrent
BY InvariantHolds, PTL DEF IInv

\* No registry is ready while a request for a newer one is open.
THEOREM RegistryClosed == Spec => []ReadyWhenClosed
BY InvariantHolds, PTL DEF IInv

(***************************************************************************)
(* The devices handed to the Hub                                           *)
(***************************************************************************)
\* A handler either reconciles, or touches neither side of the intersection.
\* Nothing is driven before the device file and the registry are both known.
LEMMA ReconcileDriven ==
    ASSUME TypeOK, DrivenIsWanted, Reconcile,
           records' = NULL => records = NULL, registered' = NULL => registered = NULL
    PROVE  DrivenIsWanted'
BY DEF DrivenIsWanted, Reconcile

\* Every step leaves the Hub driving what is wanted.
LEMMA NextDriven == TypeOK /\ DrivenIsWanted /\ [Next]_vars => DrivenIsWanted'
<1> SUFFICES ASSUME TypeOK, DrivenIsWanted, [Next]_vars PROVE DrivenIsWanted'
  OBVIOUS
<1> USE DEF bridgeVars, clientVars, cycleVars, viewVars, history
<1>1. ASSUME UNCHANGED <<records, registered, driven>> PROVE DrivenIsWanted'
  BY <1>1 DEF DrivenIsWanted
<1>2. CASE UNCHANGED vars
  BY <1>1, <1>2 DEF vars
<1>3. CASE Client
  <2>1. CASE DispatchAck
    <3>1. Head(inbound).ids \in SUBSET Device
      BY <2>1, DispatchType, AckFields DEF DispatchAck
    <3>2. registered' = NULL => registered = NULL
      BY <2>1, <3>1, ConstantsAssumption DEF DispatchAck, TypeOK
    <3> QED BY <2>1, <3>2, ReconcileDriven DEF DispatchAck
  <2>2. CASE CommitPage
    <3>1. ToSet(Head(inbound).devices) \in SUBSET Device
      BY <2>2, DispatchType, PageFields DEF CommitPage
    <3>2. registered' # NULL
      BY <2>2, <3>1, ConstantsAssumption DEF CommitPage, Taken, TypeOK
    <3> QED BY <2>2, <3>2, ReconcileDriven DEF CommitPage
  <2>3. ASSUME NEW rs \in Files, SyncDevices(rs) PROVE DrivenIsWanted'
    <3>1. rs # NULL
      BY ConstantsAssumption
    <3> QED BY <2>3, <3>1, ReconcileDriven DEF SyncDevices
  <2>4. CASE Start \/ StartTimeout \/ Stop \/ DispatchConfig \/ RunConfigTask
    BY <2>4, <1>1 DEF Start, StartTimeout, Stop, DispatchConfig, RunConfigTask
  <2>5. CASE IgnorePage \/ RefusePage \/ TakePage \/ Expire \/ RetryStatus \/ ReturnRegistry
    BY <2>5, <1>1 DEF IgnorePage, RefusePage, TakePage, Expire, RetryStatus, ReturnRegistry
  <2>6. ASSUME NEW refresh \in BOOLEAN, CallRegistry(refresh) PROVE DrivenIsWanted'
    BY <2>6, <1>1 DEF CallRegistry
  <2> QED BY <1>3, <2>1, <2>2, <2>3, <2>4, <2>5, <2>6 DEF Client
<1>4. CASE Bridge
  BY <1>1, <1>4 DEF Bridge, BridgeServe, BridgeClear, PublishConfig, BridgeRemove, BridgeAdd,
                    BridgeReconfigure, ForeignPage, BridgeChange
<1>5. CASE Connection
  BY <1>1, <1>5 DEF Connection, LoseRequest, Reconnect, Disconnect
<1> QED BY <1>2, <1>3, <1>4, <1>5 DEF Next

\* Whatever the order of snapshots, acknowledgements and file changes, the Hub
\* drives exactly the recorded devices the client believes registered.
THEOREM DrivenCorrect == Spec => []DrivenIsWanted
<1>1. Init => DrivenIsWanted
  BY DEF Init, DrivenIsWanted
<1> QED BY <1>1, NextDriven, TypeCorrect, PTL DEF Spec

(***************************************************************************)
(* Refinement                                                              *)
(***************************************************************************)
\* The bridge's list changes only with an announcement to come.
LEMMA HeldStep ==
    ASSUME [Next]_vars
    PROVE  held' = held \/ (Pending' /\ registered' = registered)
<1> USE DEF bridgeVars, clientVars, cycleVars, viewVars, history
<1>1. CASE UNCHANGED vars
  BY <1>1 DEF vars
<1>2. CASE Client
  <2>1. held' = held
    BY <1>2 DEF Client, Start, StartTimeout, Stop, DispatchConfig, RunConfigTask, DispatchAck,
                IgnorePage, RefusePage, TakePage, CommitPage, Expire, RetryStatus, ReturnRegistry,
                SyncDevices, CallRegistry
  <2> QED BY <2>1
<1>3. ASSUME NEW newHeld, NEW ack, BridgeChange(newHeld, ack)
      PROVE  Pending' /\ registered' = registered
  BY <1>3 DEF BridgeChange, Pending
<1>4. CASE Bridge
  BY <1>3, <1>4 DEF Bridge, BridgeServe, BridgeClear, PublishConfig, BridgeRemove, BridgeAdd,
                    BridgeReconfigure, ForeignPage
<1>5. CASE Connection
  BY <1>5 DEF Connection, LoseRequest, Reconnect, Disconnect
<1> QED BY <1>1, <1>2, <1>4, <1>5 DEF Next

\* The client changes its view only while it does not vouch for it.
LEMMA ViewStep ==
    ASSUME TypeOK, IInv, [Next]_vars
    PROVE  \/ registered' = registered
           \/ ~(ready /\ Listening /\ ~Pending) /\ registered' # NULL
<1> USE DEF bridgeVars, clientVars, cycleVars, viewVars, history
<1>1. CASE UNCHANGED vars
  BY <1>1 DEF vars
<1>2. CASE DispatchAck
  <2>1. Dispatch("ack") /\ inbound[1].kind = "ack" /\ 1 \in DOMAIN inbound
    BY <1>2, LenProperties DEF DispatchAck, Dispatch, TypeOK
  <2>2. Listening => NewsAfter(1)
    BY <2>1 DEF IInv, QueueInv, Listening
  <2>3. NewsAfter(1) => Pending
    BY DEF NewsAfter, Pending
  <2>4. Head(inbound).ids \in SUBSET Device
    BY <2>1, DispatchType, AckFields
  <2>5. registered' = registered \/ registered' \in SUBSET Device
    BY <1>2, <2>4 DEF DispatchAck, TypeOK
  <2> QED BY <2>2, <2>3, <2>5, ConstantsAssumption
<1>3. CASE CommitPage
  <2>1. ToSet(Head(inbound).devices) \in SUBSET Device
    BY <1>3, DispatchType, PageFields DEF CommitPage
  <2>2. registered' # NULL
    BY <1>3, <2>1, ConstantsAssumption DEF CommitPage, Taken, TypeOK
  <2>3. ~ready
    BY <1>3 DEF CommitPage, Expected, IInv, ReadyWhenClosed
  <2> QED BY <2>2, <2>3
<1>4. CASE Client /\ ~DispatchAck /\ ~CommitPage
  <2>1. registered' = registered
    BY <1>4 DEF Client, Start, StartTimeout, Stop, DispatchConfig, RunConfigTask, IgnorePage,
                RefusePage, TakePage, Expire, RetryStatus, ReturnRegistry, SyncDevices, CallRegistry
  <2> QED BY <2>1
<1>5. CASE Bridge
  BY <1>5 DEF Bridge, BridgeServe, BridgeClear, PublishConfig, BridgeRemove, BridgeAdd,
              BridgeReconfigure, ForeignPage, BridgeChange
<1>6. CASE Connection
  BY <1>6 DEF Connection, LoseRequest, Reconnect, Disconnect
<1> QED BY <1>1, <1>2, <1>3, <1>4, <1>5, <1>6 DEF Next

\* Every step of the client, the bridge or the connection is a step of the
\* cache, or changes nothing the cache speaks of.
LEMMA CacheStep ==
    ASSUME TypeOK, TypeOK', IInv, IInv', [Next]_vars
    PROVE  [Cache!Next]_(Cache!cacheVars)
<1> DEFINE isFresh == ready /\ Listening /\ ~Pending
<1>1. isFresh => registered = ToSet(held)
  BY DEF IInv, ReadyIsCurrent, Listening
<1>2. isFresh' => registered' = ToSet(held)'
  BY DEF IInv, ReadyIsCurrent, Listening
<1>3. ToSet(held)' \in SUBSET Device /\ registered' \in {NULL} \cup SUBSET Device
  <2>1. held' \in Seq(Device)
    BY DEF TypeOK
  <2> QED BY <2>1, LenProperties, ElementOfSeq DEF ToSet, TypeOK
<1>4. held' = held \/ (~isFresh' /\ registered' = registered)
  BY HeldStep
<1>5. \/ registered' = registered
      \/ ~isFresh /\ registered' # NULL
  BY ViewStep
<1>6. CASE held' # held
  <2>1. ~isFresh' /\ registered' = registered
    BY <1>4, <1>6
  <2>2. Cache!Change
    BY <1>3, <2>1 DEF Cache!Change
  <2> QED BY <2>2 DEF Cache!Next
<1>7. CASE held' = held /\ isFresh /\ isFresh'
  <2>1. UNCHANGED <<ToSet(held), registered>>
    BY <1>1, <1>2, <1>7
  <2>2. (ready /\ Listening /\ ~Pending)' = (ready /\ Listening /\ ~Pending)
    BY <1>7
  <2> QED BY <2>1, <2>2 DEF Cache!cacheVars
<1>8. CASE held' = held /\ ~isFresh /\ isFresh'
  <2>1. ToSet(held)' = ToSet(held)
    BY <1>8
  <2>2. Cache!Settle
    BY <1>2, <1>8, <2>1 DEF Cache!Settle
  <2> QED BY <2>2 DEF Cache!Next
<1>9. CASE held' = held /\ isFresh /\ ~isFresh'
  <2>1. ToSet(held)' = ToSet(held) /\ registered' = registered
    BY <1>5, <1>9
  <2>2. Cache!Doubt
    BY <1>9, <2>1 DEF Cache!Doubt
  <2> QED BY <2>2 DEF Cache!Next
<1>10. CASE held' = held /\ ~isFresh /\ ~isFresh'
  <2>1. ToSet(held)' = ToSet(held)
    BY <1>10
  <2>2. (ready /\ Listening /\ ~Pending)' = (ready /\ Listening /\ ~Pending)
    BY <1>10
  <2>3. CASE registered' = registered
    BY <2>1, <2>2, <2>3 DEF Cache!cacheVars
  <2>4. CASE registered' # NULL
    <3>1. Cache!Learn
      BY <1>3, <1>10, <2>1, <2>4 DEF Cache!Learn
    <3> QED BY <3>1 DEF Cache!Next
  <2> QED BY <1>5, <2>3, <2>4
<1> QED BY <1>6, <1>7, <1>8, <1>9, <1>10

\* The client's registry is a cache that vouches for itself only while it is
\* the bridge's own list.
THEOREM Refinement == Spec => RefinesCache
<1>1. Init => Cache!Init
  <2> SUFFICES ASSUME Init PROVE Cache!Init
    OBVIOUS
  <2>1. held \in Seq(Device) /\ registered = NULL /\ ready = FALSE
    BY InitType DEF Init, TypeOK
  <2>2. ToSet(held) \in SUBSET Device
    BY <2>1, LenProperties, ElementOfSeq DEF ToSet
  <2>3. (ready /\ Listening /\ ~Pending) = FALSE
    BY <2>1
  <2> QED BY <2>1, <2>2, <2>3 DEF Cache!Init
<1>2. TypeOK /\ TypeOK' /\ IInv /\ IInv' /\ [Next]_vars => [Cache!Next]_(Cache!cacheVars)
  BY CacheStep
<1> QED BY <1>1, <1>2, TypeCorrect, InvariantHolds, PTL DEF Spec, RefinesCache, Cache!Spec

(***************************************************************************)
(* What a refresh shows                                                    *)
(***************************************************************************)
PageAt(i) == i \in DOMAIN inbound /\ inbound[i].kind = "page"
AddAt(i)  == i \in DOMAIN inbound /\ inbound[i].kind = "ack" /\ inbound[i].action = "add"

\* A page names devices of its list once, and the last one leaves no more out
\* than come before it.
Cut(m) ==
    /\ ToSet(m.devices) \subseteq m.whole /\ IsFiniteSet(m.whole)
    /\ Cardinality(ToSet(m.devices)) = Len(m.devices)
    /\ ~m.more => Cardinality(m.whole \ ToSet(m.devices)) <= m.offset

PagesCut == IsInjective(held) /\ \A i \in DOMAIN inbound : PageAt(i) => Cut(inbound[i])

\* A page is of the present list, or news of the change comes behind it.
WholeIsHeld ==
    Listening => \A i \in DOMAIN inbound : PageAt(i) => NewsAfter(i) \/ inbound[i].whole = ToSet(held)

\* What was taken is as much as the next page's offset says.
Counted ==
    since = "fresh" /\ accum # NULL => IsFiniteSet(accum) /\ Cardinality(accum) = offset

AckedInv == known \subseteq acked /\ acked \subseteq ToSet(held)

\* While nothing was removed the lists pages are cut from only grow, and have
\* what was acknowledged before them.
Growing ==
    ~shrunk => \A i \in DOMAIN inbound :
      /\ PageAt(i) => acked \subseteq inbound[i].whole /\ inbound[i].whole \subseteq ToSet(held)
      /\ AddAt(i) => inbound[i].ids \subseteq ToSet(held)
      /\ \A j \in (i + 1)..Len(inbound) : PageAt(j) =>
           /\ PageAt(i) => inbound[i].whole \subseteq inbound[j].whole
           /\ AddAt(i) => inbound[i].ids \subseteq inbound[j].whole

\* The open request began after the call that waits, or was released.
Newer == caller = "released" \/ (caller = "waiting" /\ ~rerun)

TakenGrows ==
    ~shrunk /\ known # {} /\ Newer /\ since = "fresh" /\ accum # NULL =>
      /\ accum \subseteq ToSet(held)
      /\ \A i \in DOMAIN inbound : PageAt(i) => accum \subseteq inbound[i].whole

RefreshInv ==
    /\ PagesCut /\ WholeIsHeld /\ Counted /\ AckedInv /\ Growing /\ TakenGrows /\ RefreshSeesAcked

\* A list that names each device once has as many devices as places.
LEMMA OnceCounted ==
    ASSUME NEW S, NEW s \in Seq(S), IsInjective(s)
    PROVE  IsFiniteSet(ToSet(s)) /\ Cardinality(ToSet(s)) = Len(s)
<1> DEFINE n == Len(s)
<1>1. n \in Nat /\ DOMAIN s = 1..n /\ s \in [1..n -> ToSet(s)] /\ \A t \in ToSet(s) : \E i \in 1..n : s[i] = t
  BY LenProperties DEF ToSet
<1>2. \A a, b \in 1..n : s[a] = s[b] => a = b
  BY <1>1 DEF IsInjective
<1> HIDE DEF n
<1>3. s \in Bijection(1..n, ToSet(s))
  BY <1>1, <1>2, Fun_IsBij
<1>4. ExistsBijection(1..n, ToSet(s))
  BY <1>3, Fun_ExistsBij
<1>5. IsFiniteSet(1..n) /\ Cardinality(1..n) = n
  <2>1. 1 \in Int /\ n \in Int
    BY <1>1
  <2>2. IsFiniteSet(1..n) /\ Cardinality(1..n) = (IF 1 > n THEN 0 ELSE n - 1 + 1)
    BY <2>1, FS_Interval, Zenon
  <2> QED BY <1>1, <2>2
<1> QED BY <1>4, <1>5, FS_Bijection DEF n

\* A device inserted into a list of others.
LEMMA InsertOnce ==
    ASSUME TypeOK, IsInjective(held), NEW d \in Device, d \notin ToSet(held), NEW i \in 1..(Len(held) + 1)
    PROVE  IsInjective(InsertAt(held, i, d)) /\ ToSet(InsertAt(held, i, d)) = ToSet(held) \cup {d}
<1> DEFINE n == Len(held)
           a == SubSeq(held, 1, i - 1)
           b == SubSeq(held, i, n)
           r == InsertAt(held, i, d)
<1>1. held \in Seq(Device) /\ n \in Nat /\ DOMAIN held = 1..n /\ \A j \in 1..n : held[j] \in Device
  BY LenProperties, ElementOfSeq DEF TypeOK
<1>2. /\ a \in Seq(Device) /\ Len(a) = i - 1 /\ \A j \in 1..(i - 1) : a[j] = held[j]
      /\ b \in Seq(Device) /\ Len(b) = n - i + 1 /\ \A j \in 1..(n - i + 1) : b[j] = held[i + j - 1]
  BY <1>1, SubSeqProperties
<1> HIDE DEF a, b
<1>3. /\ Len((a \o <<d>>) \o b) = n + 1 /\ (a \o <<d>>) \o b \in Seq(Device)
      /\ \A j \in 1..(n + 1) : ((a \o <<d>>) \o b)[j] = IF j < i THEN held[j] ELSE IF j = i THEN d ELSE held[j - 1]
  <2>1. /\ a \o <<d>> \in Seq(Device) /\ Len(a \o <<d>>) = i
        /\ \A j \in 1..i : (a \o <<d>>)[j] = IF j < i THEN held[j] ELSE d
    BY <1>1, <1>2
  <2> DEFINE c == a \o <<d>>
  <2> HIDE DEF c
  <2>2. c \in Seq(Device) /\ Len(c) = i /\ \A j \in 1..i : c[j] = IF j < i THEN held[j] ELSE d
    BY <2>1 DEF c
  <2>3. /\ Len(c \o b) = n + 1 /\ c \o b \in Seq(Device)
        /\ \A j \in 1..(n + 1) : (c \o b)[j] = IF j <= i THEN c[j] ELSE b[j - i]
    <3>1. /\ c \o b \in Seq(Device) /\ Len(c \o b) = Len(c) + Len(b)
          /\ \A j \in 1..(Len(c) + Len(b)) : (c \o b)[j] = IF j <= Len(c) THEN c[j] ELSE b[j - Len(c)]
      BY <1>2, <2>2, ConcatProperties
    <3>2. Len(c) + Len(b) = n + 1
      BY <1>1, <1>2, <2>2
    <3> QED BY <2>2, <3>1, <3>2
  <2>4. \A j \in 1..(n + 1) : (c \o b)[j] = IF j < i THEN held[j] ELSE IF j = i THEN d ELSE held[j - 1]
    BY <1>1, <1>2, <2>2, <2>3
  <2> QED BY <2>3, <2>4 DEF c
<1>4. r = (a \o <<d>>) \o b
  BY DEF InsertAt, a, b
<1> HIDE DEF r
<1>5. /\ DOMAIN r = 1..(n + 1)
      /\ \A j \in 1..(n + 1) : r[j] = IF j < i THEN held[j] ELSE IF j = i THEN d ELSE held[j - 1]
  BY <1>1, <1>3, <1>4, LenProperties
<1>6. \A j \in 1..n : held[j] # d
  BY <1>1 DEF ToSet
<1> HIDE DEF n
<1>7. IsInjective(r)
  <2> SUFFICES ASSUME NEW j \in 1..(n + 1), NEW k \in 1..(n + 1), r[j] = r[k] PROVE j = k
    BY <1>5 DEF IsInjective
  <2> QED BY <1>1, <1>5, <1>6 DEF IsInjective
<1>8. ToSet(r) = ToSet(held) \cup {d}
  <2>1. ASSUME NEW j \in 1..(n + 1) PROVE r[j] \in ToSet(held) \cup {d}
    BY <1>1, <1>5 DEF ToSet
  <2>2. ASSUME NEW j \in 1..n PROVE held[j] \in ToSet(r)
    <3>1. j < i => r[j] = held[j] /\ j \in 1..(n + 1)
      BY <1>1, <1>5
    <3>2. ~(j < i) => r[j + 1] = held[j] /\ j + 1 \in 1..(n + 1)
      BY <1>1, <1>5
    <3> QED BY <1>5, <3>1, <3>2 DEF ToSet
  <2>3. r[i] = d /\ i \in 1..(n + 1)
    BY <1>1, <1>5 DEF n
  <2> QED BY <1>1, <1>5, <2>1, <2>2, <2>3 DEF ToSet
<1> QED BY <1>7, <1>8 DEF r

\* A device taken out of a list.
LEMMA RemoveOnce ==
    ASSUME TypeOK, IsInjective(held), NEW i \in 1..Len(held)
    PROVE  IsInjective(RemoveAt(held, i)) /\ ~(ToSet(held) \subseteq ToSet(RemoveAt(held, i)))
<1> DEFINE n == Len(held)
           a == SubSeq(held, 1, i - 1)
           b == SubSeq(held, i + 1, n)
           r == RemoveAt(held, i)
<1>1. held \in Seq(Device) /\ n \in Nat /\ DOMAIN held = 1..n /\ \A j \in 1..n : held[j] \in Device
  BY LenProperties, ElementOfSeq DEF TypeOK
<1>2. /\ a \in Seq(Device) /\ Len(a) = i - 1 /\ \A j \in 1..(i - 1) : a[j] = held[j]
      /\ b \in Seq(Device) /\ Len(b) = n - i /\ \A j \in 1..(n - i) : b[j] = held[i + j]
  BY <1>1, SubSeqProperties
<1>3. r = a \o b
  BY DEF RemoveAt
<1> HIDE DEF a, b, r
<1>4. /\ DOMAIN r = 1..(n - 1)
      /\ \A j \in 1..(n - 1) : r[j] = IF j < i THEN held[j] ELSE held[j + 1]
  <2>1. Len(r) = n - 1 /\ r \in Seq(Device) /\ \A j \in 1..(n - 1) : r[j] = IF j <= i - 1 THEN a[j] ELSE b[j - (i - 1)]
    <3>1. /\ a \o b \in Seq(Device) /\ Len(a \o b) = Len(a) + Len(b)
          /\ \A j \in 1..(Len(a) + Len(b)) : (a \o b)[j] = IF j <= Len(a) THEN a[j] ELSE b[j - Len(a)]
      BY <1>2, ConcatProperties
    <3>2. Len(a) + Len(b) = n - 1
      BY <1>1, <1>2
    <3> QED BY <1>2, <1>3, <3>1, <3>2
  <2> QED BY <1>1, <1>2, <2>1, LenProperties
<1>5. IsInjective(r)
  <2> SUFFICES ASSUME NEW j \in 1..(n - 1), NEW k \in 1..(n - 1), r[j] = r[k] PROVE j = k
    BY <1>4 DEF IsInjective
  <2> QED BY <1>1, <1>4 DEF IsInjective
<1>6. held[i] \in ToSet(held) /\ held[i] \notin ToSet(r)
  <2>1. \A j \in 1..(n - 1) : r[j] # held[i]
    BY <1>1, <1>4 DEF IsInjective
  <2> QED BY <1>1, <1>4, <2>1 DEF ToSet
<1> QED BY <1>5, <1>6 DEF r

\* A page is cut from the list as it should be.
LEMMA PageCut ==
    ASSUME TypeOK, IsInjective(held), NEW off \in Nat
    PROVE  Cut(Page(off)) /\ Page(off).whole = ToSet(held) /\ Page(off).kind = "page"
<1> DEFINE n == Len(held)
           last == IF off + PageSize < n THEN off + PageSize ELSE n
           s == SubSeq(held, off + 1, last)
<1>1. held \in Seq(Device) /\ n \in Nat /\ DOMAIN held = 1..n /\ \A j \in 1..n : held[j] \in Device
  BY LenProperties, ElementOfSeq DEF TypeOK
<1>2. last \in Nat /\ last <= n /\ PageSize \in Nat
  BY <1>1, ConstantsAssumption
<1>3. /\ Page(off).devices = s /\ Page(off).whole = ToSet(held) /\ Page(off).kind = "page"
      /\ Page(off).offset = off
  BY DEF Page
<1>4. Page(off).more => last < n
  BY <1>1, <1>2, ConstantsAssumption DEF Page
<1>5. ~Page(off).more => last = n
  BY DEF Page
<1> HIDE DEF last
<1>6. /\ s \in Seq(Device) /\ Len(s) = (IF off < last THEN last - off ELSE 0)
      /\ \A j \in 1..(last - off) : s[j] = held[off + j]
  <2>1. \A j \in (off + 1)..last : held[j] \in Device
    BY <1>1, <1>2
  <2>2. /\ s \in Seq(Device)
        /\ Len(s) = (IF off + 1 <= last THEN last - (off + 1) + 1 ELSE 0)
        /\ \A j \in 1..(last - (off + 1) + 1) : s[j] = held[off + 1 + j - 1]
    BY <1>2, <2>1, SubSeqProperties
  <2> QED BY <1>2, <2>2
<1> HIDE DEF s, n
<1>7. DOMAIN s = 1..Len(s) /\ \A j \in DOMAIN s : j \in 1..(last - off) /\ off + j \in 1..n
  BY <1>1, <1>2, <1>6, LenProperties
<1>8. IsInjective(s)
  <2> SUFFICES ASSUME NEW j \in DOMAIN s, NEW k \in DOMAIN s, s[j] = s[k] PROVE j = k
    BY DEF IsInjective
  <2>1. held[off + j] = held[off + k] /\ off + j \in DOMAIN held /\ off + k \in DOMAIN held
    BY <1>1, <1>6, <1>7
  <2>2. off + j = off + k
    BY <2>1 DEF IsInjective
  <2> QED BY <1>7, <2>2
<1>9. ToSet(s) \subseteq ToSet(held)
  BY <1>1, <1>6, <1>7 DEF ToSet
<1>10. IsFiniteSet(ToSet(s)) /\ Cardinality(ToSet(s)) = Len(s)
  BY <1>6, <1>8, OnceCounted
<1>11. IsFiniteSet(ToSet(held)) /\ Cardinality(ToSet(held)) = n
  BY <1>1, OnceCounted DEF n
<1>12. ASSUME last = n PROVE Cardinality(ToSet(held) \ ToSet(s)) <= off
  <2>1. Cardinality(ToSet(held) \ ToSet(s)) = Cardinality(ToSet(held)) - Cardinality(ToSet(held) \cap ToSet(s))
    BY <1>11, FS_Difference
  <2>2. ToSet(held) \cap ToSet(s) = ToSet(s)
    BY <1>9
  <2>3. Cardinality(ToSet(held) \ ToSet(s)) = n - Len(s)
    BY <1>10, <1>11, <2>1, <2>2
  <2>4. Len(s) = IF off < n THEN n - off ELSE 0
    BY <1>6, <1>12
  <2>5. n - Len(s) <= off
    BY <1>1, <2>4
  <2> QED BY <2>3, <2>5
<1> QED BY <1>3, <1>5, <1>9, <1>10, <1>11, <1>12 DEF Cut

\* What is left of the queue keeps its order.
Rest(k) ==
    /\ \A i \in DOMAIN inbound' : i + k \in DOMAIN inbound /\ inbound'[i] = inbound[i + k]
    /\ \A i \in DOMAIN inbound' : \A j \in (i + 1)..Len(inbound') :
         /\ j \in DOMAIN inbound'
         /\ j + k \in ((i + k) + 1)..Len(inbound)

\* A queue that is left alone.
LEMMA Unmoved ==
    ASSUME TypeOK, inbound' = inbound
    PROVE  Rest(0)
<1>1. Len(inbound) \in Nat /\ DOMAIN inbound = 1..Len(inbound)
  BY LenProperties DEF TypeOK
<1> QED BY <1>1 DEF Rest

\* A queue that is thrown away.
LEMMA Emptied ==
    ASSUME inbound' = <<>>
    PROVE  Rest(0) /\ WholeIsHeld'
<1>1. DOMAIN inbound' = {}
  OBVIOUS
<1> QED BY <1>1 DEF Rest, WholeIsHeld, Listening

\* A queue whose first message was dispatched.
LEMMA Dispatched ==
    ASSUME TypeOK, NEW kind, Dispatch(kind)
    PROVE  /\ Rest(1) /\ Head(inbound) \in Message /\ Head(inbound).kind = kind
           /\ 1 \in DOMAIN inbound /\ inbound[1] = Head(inbound)
           /\ \A i \in DOMAIN inbound' : i + 1 \in 2..Len(inbound)
<1> DEFINE n == Len(inbound)
<1>1. inbound \in Seq(Message) /\ inbound # <<>> /\ inbound' = Tail(inbound) /\ Head(inbound).kind = kind
  BY DEF TypeOK, Dispatch
<1>2. n \in Nat /\ n >= 1 /\ DOMAIN inbound = 1..n /\ Head(inbound) = inbound[1] /\ Head(inbound) \in Message
  BY <1>1, EmptySeq, LenProperties, HeadTailProperties
<1>3. /\ Len(inbound') = n - 1 /\ DOMAIN inbound' = 1..(n - 1)
      /\ \A i \in 1..(n - 1) : inbound'[i] = inbound[i + 1]
  BY <1>1, <1>2, HeadTailProperties, LenProperties
<1> QED BY <1>1, <1>2, <1>3 DEF Rest

\* A queue that lost its end.
LEMMA Prefix ==
    ASSUME TypeOK, NEW n \in 0..Len(inbound), inbound' = SubSeq(inbound, 1, n)
    PROVE  Rest(0)
<1>1. Len(inbound) \in Nat /\ DOMAIN inbound = 1..Len(inbound) /\ \A i \in 1..Len(inbound) : inbound[i] \in Message
  BY LenProperties, ElementOfSeq DEF TypeOK
<1>2. inbound' \in Seq(Message) /\ Len(inbound') = n /\ \A i \in 1..n : inbound'[i] = inbound[i]
  BY <1>1, SubSeqProperties
<1>3. DOMAIN inbound' = 1..n
  BY <1>1, <1>2, LenProperties
<1> QED BY <1>1, <1>2, <1>3 DEF Rest

\* What is left of the queue is as it was.
LEMMA RestKept ==
    ASSUME TypeOK, RefreshInv, NEW k \in {0, 1}, Rest(k), held' = held
    PROVE  /\ PagesCut'
           /\ acked' = acked /\ shrunk' = shrunk => Growing'
<1>1. \A i \in DOMAIN inbound' : (PageAt(i)' <=> PageAt(i + k)) /\ (AddAt(i)' <=> AddAt(i + k))
  BY DEF Rest, PageAt, AddAt
<1>2. PagesCut'
  <2>1. ASSUME NEW i \in DOMAIN inbound', PageAt(i)' PROVE Cut(inbound'[i])
    <3>1. i + k \in DOMAIN inbound /\ inbound'[i] = inbound[i + k] /\ PageAt(i + k)
      BY <1>1, <2>1 DEF Rest
    <3> QED BY <3>1 DEF RefreshInv, PagesCut
  <2> QED BY <2>1 DEF RefreshInv, PagesCut, Cut
<1>3. ASSUME acked' = acked, shrunk' = shrunk, ~shrunk' PROVE Growing'
  <2>1. Growing /\ ~shrunk
    BY <1>3 DEF RefreshInv
  <2>2. ASSUME NEW i \in DOMAIN inbound'
        PROVE  /\ PageAt(i)' => acked' \subseteq inbound'[i].whole /\ inbound'[i].whole \subseteq ToSet(held')
               /\ AddAt(i)' => inbound'[i].ids \subseteq ToSet(held')
    BY <1>1, <1>3, <2>1 DEF Growing, Rest
  <2>3. ASSUME NEW i \in DOMAIN inbound', NEW j \in (i + 1)..Len(inbound'), PageAt(j)'
        PROVE  /\ PageAt(i)' => inbound'[i].whole \subseteq inbound'[j].whole
               /\ AddAt(i)' => inbound'[i].ids \subseteq inbound'[j].whole
    <3>1. /\ j \in DOMAIN inbound' /\ i + k \in DOMAIN inbound /\ inbound'[i] = inbound[i + k]
          /\ inbound'[j] = inbound[j + k] /\ j + k \in ((i + k) + 1)..Len(inbound)
      BY <2>3 DEF Rest
    <3>2. PageAt(j + k)
      BY <1>1, <2>3, <3>1
    <3> QED BY <1>1, <2>1, <3>1, <3>2 DEF Growing
  <2> QED BY <2>2, <2>3 DEF Growing
<1> QED BY <1>2, <1>3 DEF Growing

\* Where news is, or the list is, as it was, so are its pages.
LEMMA WholeKept ==
    ASSUME TypeOK, RefreshInv, UNCHANGED <<held, announce, connected>>,
           phase' = "started" => phase = "started"
    PROVE  /\ inbound' = inbound => WholeIsHeld'
           /\ \A kind : Dispatch(kind) => WholeIsHeld'
<1>1. ASSUME inbound' = inbound PROVE WholeIsHeld'
  BY <1>1 DEF RefreshInv, WholeIsHeld, PageAt, NewsAfter, Listening
<1>2. ASSUME NEW kind, Dispatch(kind) PROVE WholeIsHeld'
  <2> SUFFICES ASSUME Listening', NEW i \in DOMAIN inbound', PageAt(i)', ~NewsAfter(i)'
               PROVE  inbound'[i].whole = ToSet(held)'
    BY DEF WholeIsHeld, Listening
  <2>1. /\ i + 1 \in DOMAIN inbound /\ inbound'[i] = inbound[i + 1] /\ PageAt(i + 1)
    BY <1>2, Dispatched DEF Rest, PageAt
  <2>2. ~NewsAfter(i + 1)
    <3> SUFFICES ASSUME NEW j \in DOMAIN inbound, j > i + 1, inbound[j].kind = "config" PROVE FALSE
      BY DEF NewsAfter
    <3>1. /\ Len(inbound) \in Nat /\ DOMAIN inbound = 1..Len(inbound) /\ inbound \in Seq(Message)
          /\ inbound # <<>> /\ inbound' = Tail(inbound)
      BY <1>2, LenProperties DEF TypeOK, Dispatch
    <3>2. DOMAIN inbound' = 1..(Len(inbound) - 1) /\ \A m \in 1..(Len(inbound) - 1) : inbound'[m] = inbound[m + 1]
      BY <3>1, HeadTailProperties, LenProperties
    <3>3. j - 1 \in DOMAIN inbound' /\ j - 1 > i /\ inbound'[j - 1] = inbound[j]
      BY <3>1, <3>2
    <3> QED BY <3>3 DEF NewsAfter
  <2> QED BY <2>1, <2>2 DEF RefreshInv, WholeIsHeld, Listening
<1> QED BY <1>1, <1>2

\* A step that neither takes a page nor calls, but may open a request anew.
LEMMA Quietly ==
    ASSUME TypeOK, RefreshInv, NEW k \in {0, 1}, Rest(k), WholeIsHeld',
           UNCHANGED <<held, acked, known, shrunk, registry>>,
           since' = "fresh" /\ accum' # NULL =>
             /\ since = "fresh" /\ accum # NULL /\ accum' = accum /\ offset' = offset
             /\ Newer' => Newer,
           caller' = "released" => caller = "released"
    PROVE  RefreshInv'
<1>1. PagesCut' /\ Growing'
  BY RestKept
<1>2. Counted'
  BY DEF RefreshInv, Counted
<1>3. AckedInv'
  BY DEF RefreshInv, AckedInv
<1>4. TakenGrows'
  <2> SUFFICES ASSUME ~shrunk', known' # {}, Newer', since' = "fresh", accum' # NULL
               PROVE  /\ accum' \subseteq ToSet(held')
                      /\ \A i \in DOMAIN inbound' : PageAt(i)' => accum' \subseteq inbound'[i].whole
    BY DEF TakenGrows
  <2>1. /\ accum \subseteq ToSet(held)
        /\ \A i \in DOMAIN inbound : PageAt(i) => accum \subseteq inbound[i].whole
    BY DEF RefreshInv, TakenGrows
  <2>2. \A i \in DOMAIN inbound' : i + k \in DOMAIN inbound /\ inbound'[i] = inbound[i + k]
                                   /\ (PageAt(i)' => PageAt(i + k))
    BY DEF Rest, PageAt
  <2> QED BY <2>1, <2>2
<1>5. RefreshSeesAcked'
  BY DEF RefreshInv, RefreshSeesAcked
<1> QED BY <1>1, <1>2, <1>3, <1>4, <1>5 DEF RefreshInv

\* Asking for the status opens a request, or marks the open one.
LEMMA Asking ==
    ASSUME NEW twice \in BOOLEAN, RequestStatus(twice)
    PROVE  /\ since' = "fresh" /\ accum' # NULL =>
                since = "fresh" /\ accum # NULL /\ accum' = accum /\ offset' = offset /\ (~rerun' => ~rerun)
           /\ since' = "fresh" /\ accum' # NULL /\ templates' # NULL /\ records' # NULL => rerun'
<1>1. CASE templates' = NULL \/ records' = NULL
  BY <1>1 DEF RequestStatus, cycleVars
<1>2. CASE templates' # NULL /\ records' # NULL /\ since = "fresh"
  BY <1>2 DEF RequestStatus, OpenCycle
<1>3. CASE templates' # NULL /\ records' # NULL /\ since # "fresh"
  BY <1>3 DEF RequestStatus, OpenCycle
<1> QED BY <1>1, <1>2, <1>3

\* A message that comes, or a list that changes.
LEMMA Coming ==
    ASSUME TypeOK, RefreshInv, WholeIsHeld', NEW m \in Message,
           inbound' = inbound \/ inbound' = Append(inbound, m),
           m.kind = "page" => Cut(m) /\ m.whole = ToSet(held),
           m.kind = "ack" /\ m.action = "add" => m.ids \subseteq ToSet(held'),
           IsInjective(held'), shrunk' \/ ToSet(held) \subseteq ToSet(held'), shrunk => shrunk',
           acked' \subseteq acked, known' \subseteq known, known' \subseteq acked', acked' \subseteq ToSet(held'),
           UNCHANGED <<registry, caller, since, rerun, accum, offset>>
    PROVE  RefreshInv'
<1> DEFINE n == Len(inbound)
<1>1. n \in Nat /\ DOMAIN inbound = 1..n /\ n + 1 \notin 1..n
  BY LenProperties DEF TypeOK
<1>2. /\ \A i \in DOMAIN inbound' : \/ i \in DOMAIN inbound /\ inbound'[i] = inbound[i]
                                    \/ i = n + 1 /\ inbound'[i] = m
      /\ Len(inbound') \in {n, n + 1} /\ DOMAIN inbound' = 1..Len(inbound')
  <2>1. CASE inbound' = inbound
    BY <1>1, <2>1
  <2>2. CASE inbound' = Append(inbound, m)
    <3>1. /\ Len(inbound') = n + 1 /\ DOMAIN inbound' = 1..(n + 1)
          /\ \A i \in 1..n : inbound'[i] = inbound[i]
          /\ inbound'[n + 1] = m
      BY <2>2, AppendProperties, LenProperties DEF TypeOK
    <3> QED BY <1>1, <3>1
  <2> QED BY <2>1, <2>2
<1> HIDE DEF n
<1>3. \A i \in DOMAIN inbound' :
        /\ i \in DOMAIN inbound => (PageAt(i)' <=> PageAt(i)) /\ (AddAt(i)' <=> AddAt(i))
        /\ i \notin DOMAIN inbound => (PageAt(i)' <=> m.kind = "page")
                                      /\ (AddAt(i)' <=> m.kind = "ack" /\ m.action = "add")
  BY <1>1, <1>2 DEF PageAt, AddAt
<1>4. PagesCut'
  <2>1. ASSUME NEW i \in DOMAIN inbound', PageAt(i)' PROVE Cut(inbound'[i])
    <3>1. CASE i \in DOMAIN inbound
      <4>1. inbound'[i] = inbound[i] /\ PageAt(i)
        BY <1>1, <1>2, <1>3, <2>1, <3>1
      <4> QED BY <3>1, <4>1 DEF RefreshInv, PagesCut
    <3>2. CASE i \notin DOMAIN inbound
      <4>1. inbound'[i] = m /\ m.kind = "page"
        BY <1>2, <1>3, <2>1, <3>2
      <4> QED BY <4>1
    <3> QED BY <3>1, <3>2
  <2> QED BY <2>1 DEF PagesCut, Cut
<1>5. Counted'
  BY DEF RefreshInv, Counted
<1>6. AckedInv'
  BY DEF RefreshInv, AckedInv
<1>7. ASSUME ~shrunk' PROVE Growing'
  <2>1. Growing /\ ~shrunk /\ ToSet(held) \subseteq ToSet(held')
    BY <1>7 DEF RefreshInv
  <2>2. ASSUME NEW i \in DOMAIN inbound'
        PROVE  /\ PageAt(i)' => acked' \subseteq inbound'[i].whole /\ inbound'[i].whole \subseteq ToSet(held')
               /\ AddAt(i)' => inbound'[i].ids \subseteq ToSet(held')
    <3>1. CASE i \in DOMAIN inbound
      BY <1>2, <1>3, <1>1, <2>1, <3>1 DEF Growing
    <3>2. CASE i \notin DOMAIN inbound
      BY <1>2, <1>3, <2>1, <3>2 DEF RefreshInv, AckedInv
    <3> QED BY <3>1, <3>2
  <2>3. ASSUME NEW i \in DOMAIN inbound', NEW j \in (i + 1)..Len(inbound'), PageAt(j)'
        PROVE  /\ PageAt(i)' => inbound'[i].whole \subseteq inbound'[j].whole
               /\ AddAt(i)' => inbound'[i].ids \subseteq inbound'[j].whole
    <3>0. i \in 1..n /\ j \in 1..Len(inbound') /\ j > i /\ (j \in 1..n => j \in (i + 1)..n)
      <4>1. Len(inbound') \in Nat /\ Len(inbound') <= n + 1 /\ i \in 1..Len(inbound')
        <5>1. Len(inbound') = n \/ Len(inbound') = n + 1
          BY <1>2
        <5>2. i \in 1..Len(inbound')
          BY <1>2
        <5> QED BY <1>1, <5>1, <5>2
      <4> QED BY <1>1, <2>3, <4>1
    <3>1. i \in DOMAIN inbound /\ inbound'[i] = inbound[i] /\ j \in DOMAIN inbound'
      BY <1>1, <1>2, <3>0
    <3>2. CASE j \in DOMAIN inbound
      <4>1. j \in (i + 1)..n /\ inbound'[j] = inbound[j] /\ PageAt(j)
        <5>1. j \in (i + 1)..n
          BY <1>1, <3>0, <3>2
        <5>2. inbound'[j] = inbound[j]
          BY <1>1, <1>2, <3>1, <3>2
        <5> QED BY <1>3, <2>3, <3>1, <3>2, <5>1, <5>2
      <4> QED BY <1>3, <2>1, <3>1, <4>1 DEF Growing, n
    <3>3. CASE j \notin DOMAIN inbound
      <4>1. inbound'[j] = m /\ m.kind = "page"
        BY <1>2, <1>3, <2>3, <3>1, <3>3
      <4> QED BY <1>3, <2>1, <3>1, <4>1 DEF Growing
    <3> QED BY <3>2, <3>3
  <2> QED BY <2>2, <2>3 DEF Growing
<1>8. TakenGrows'
  <2> SUFFICES ASSUME ~shrunk', known' # {}, Newer', since' = "fresh", accum' # NULL
               PROVE  /\ accum' \subseteq ToSet(held')
                      /\ \A i \in DOMAIN inbound' : PageAt(i)' => accum' \subseteq inbound'[i].whole
    BY DEF TakenGrows
  <2>1. /\ accum \subseteq ToSet(held) /\ ToSet(held) \subseteq ToSet(held')
        /\ \A i \in DOMAIN inbound : PageAt(i) => accum \subseteq inbound[i].whole
    BY DEF RefreshInv, TakenGrows, Newer
  <2>2. ASSUME NEW i \in DOMAIN inbound', PageAt(i)' PROVE accum \subseteq inbound'[i].whole
    <3>1. CASE i \in DOMAIN inbound
      <4>1. inbound'[i] = inbound[i] /\ PageAt(i)
        BY <1>1, <1>2, <1>3, <2>2, <3>1
      <4> QED BY <2>1, <3>1, <4>1
    <3>2. CASE i \notin DOMAIN inbound
      <4>1. inbound'[i] = m /\ m.kind = "page"
        BY <1>2, <1>3, <2>2, <3>2
      <4> QED BY <2>1, <4>1
    <3> QED BY <3>1, <3>2
  <2> QED BY <2>1, <2>2
<1>9. RefreshSeesAcked'
  BY DEF RefreshInv, RefreshSeesAcked
<1> QED BY <1>4, <1>5, <1>6, <1>7, <1>8, <1>9 DEF RefreshInv, Growing

\* A page with more to come ...
LEMMA TakeKeeps ==
    ASSUME TypeOK, IInv, RefreshInv, TakePage
    PROVE  RefreshInv'
<1> DEFINE m == Head(inbound)
           s == ToSet(m.devices)
<1>0. UNCHANGED <<held, announce, connected, phase, acked, known, shrunk, registry, caller, since, rerun>>
  BY DEF TakePage, bridgeVars, viewVars, history
<1>1. /\ Dispatch("page") /\ Expected(m) /\ Consistent(m)
      /\ accum' = Taken \cup s /\ offset' = offset + Len(m.devices)
  BY DEF TakePage
<1>2. /\ Rest(1) /\ m \in Message /\ m.kind = "page" /\ 1 \in DOMAIN inbound /\ inbound[1] = m
      /\ \A i \in DOMAIN inbound' : i + 1 \in 2..Len(inbound)
  BY <1>1, Dispatched
<1>3. PageAt(1) /\ Cut(m)
  BY <1>2 DEF PageAt, RefreshInv, PagesCut
<1>4. WholeIsHeld' /\ PagesCut' /\ Growing'
  BY <1>0, <1>1, <1>2, WholeKept, RestKept
<1>5. IsFiniteSet(Taken) /\ Cardinality(Taken) = offset /\ since = "fresh"
  <2>1. since = "fresh" /\ (accum = NULL => offset = 0)
    BY <1>1 DEF Expected, IInv, CycleInv, Listening
  <2> QED BY <2>1, FS_EmptySet DEF Taken, RefreshInv, Counted
<1>6. IsFiniteSet(s) /\ Cardinality(s) = Len(m.devices) /\ Taken \cap s = {}
  BY <1>1, <1>3, FS_Subset DEF Cut, Consistent
<1>7. Counted'
  <2>1. IsFiniteSet(Taken \cup s) /\ Cardinality(Taken \cup s) = Cardinality(Taken) + Cardinality(s) - Cardinality({})
    BY <1>5, <1>6, FS_Union
  <2>2. Cardinality({}) = 0 /\ Len(m.devices) \in Nat /\ offset \in Nat
    BY <1>2, FS_EmptySet, PageFields DEF TypeOK
  <2>3. Cardinality(Taken \cup s) = offset + Len(m.devices)
    BY <1>5, <1>6, <2>1, <2>2
  <2> QED BY <1>1, <2>1, <2>3 DEF Counted
<1>8. AckedInv' /\ RefreshSeesAcked'
  BY <1>0 DEF RefreshInv, AckedInv, RefreshSeesAcked
<1>9. TakenGrows'
  <2> SUFFICES ASSUME ~shrunk', known' # {}, Newer'
               PROVE  /\ accum' \subseteq ToSet(held')
                      /\ \A i \in DOMAIN inbound' : PageAt(i)' => accum' \subseteq inbound'[i].whole
    BY DEF TakenGrows
  <2>1. ~shrunk /\ known # {} /\ Newer
    BY <1>0 DEF Newer
  <2>2. Taken \subseteq ToSet(held) /\ \A i \in DOMAIN inbound : PageAt(i) => Taken \subseteq inbound[i].whole
    BY <1>5, <2>1 DEF Taken, RefreshInv, TakenGrows
  <2>3. s \subseteq m.whole /\ m.whole \subseteq ToSet(held)
    BY <1>2, <1>3, <2>1 DEF Cut, RefreshInv, Growing
  <2>4. ASSUME NEW i \in DOMAIN inbound', PageAt(i)' PROVE accum' \subseteq inbound'[i].whole
    <3>1. i + 1 \in DOMAIN inbound /\ inbound'[i] = inbound[i + 1] /\ PageAt(i + 1) /\ i + 1 \in (1 + 1)..Len(inbound)
      BY <1>2, <2>4 DEF Rest, PageAt
    <3>2. m.whole \subseteq inbound[i + 1].whole
      BY <1>2, <1>3, <2>1, <3>1 DEF RefreshInv, Growing
    <3> QED BY <1>1, <2>2, <2>3, <3>1, <3>2
  <2> QED BY <1>0, <1>1, <2>2, <2>3, <2>4
<1> QED BY <1>4, <1>7, <1>8, <1>9 DEF RefreshInv

\* ... and the last one, which with those before it is the list it was cut from.
LEMMA CommitKeeps ==
    ASSUME TypeOK, IInv, RefreshInv, CommitPage
    PROVE  RefreshInv'
<1> DEFINE m == Head(inbound)
           s == ToSet(m.devices)
<1>0. UNCHANGED <<held, announce, connected, phase, acked, known, shrunk>>
  BY DEF CommitPage, bridgeVars, history
<1>1. Dispatch("page") /\ Expected(m) /\ Consistent(m) /\ ~m.more /\ registry' = Taken \cup s
  BY DEF CommitPage
<1>2. Rest(1) /\ m \in Message /\ m.kind = "page" /\ 1 \in DOMAIN inbound /\ inbound[1] = m
  BY <1>1, Dispatched
<1>3. PageAt(1) /\ Cut(m)
  BY <1>2 DEF PageAt, RefreshInv, PagesCut
<1>4. WholeIsHeld' /\ PagesCut' /\ Growing'
  BY <1>0, <1>1, <1>2, WholeKept, RestKept
<1>5. since' # "fresh" \/ accum' = NULL
  BY DEF CommitPage, OpenCycle
<1>6. Counted' /\ TakenGrows'
  BY <1>5 DEF Counted, TakenGrows
<1>7. AckedInv'
  BY <1>0 DEF RefreshInv, AckedInv
<1>8. RefreshSeesAcked'
  <2> SUFFICES ASSUME caller' = "released", ~shrunk', known # {} PROVE known \subseteq registry'
    BY <1>0 DEF RefreshSeesAcked
  <2>1. Newer /\ ~shrunk
    BY <1>0 DEF CommitPage, Newer
  <2>2. since = "fresh" /\ offset = m.offset /\ (accum = NULL => offset = 0)
    BY <1>1 DEF Expected, IInv, CycleInv, Listening
  <2>3. IsFiniteSet(Taken) /\ Cardinality(Taken) = m.offset /\ Taken \cap s = {}
    BY <1>1, <2>2, FS_EmptySet DEF Taken, RefreshInv, Counted, Consistent
  <2>4. known \subseteq m.whole
    BY <1>2, <1>3, <2>1 DEF RefreshInv, AckedInv, Growing
  <2>5. Taken \subseteq m.whole
    BY <1>2, <1>3, <2>1, <2>2 DEF Taken, RefreshInv, TakenGrows
  <2> DEFINE rest == m.whole \ s
  <2>6. IsFiniteSet(rest) /\ Taken \in SUBSET rest /\ Cardinality(rest) <= m.offset
    BY <1>1, <1>3, <2>3, <2>5, FS_Difference DEF Cut
  <2> HIDE DEF rest
  <2>7. Cardinality(rest) = Cardinality(Taken)
    <3>1. Cardinality(Taken) <= Cardinality(rest) /\ Cardinality(rest) \in Nat
      BY <2>6, FS_Subset, FS_CardinalityType
    <3>2. m.offset \in Nat
      BY <1>2, PageFields
    <3> QED BY <2>3, <2>6, <3>1, <3>2
  <2>8. rest = Taken
    BY <2>6, <2>7, FS_Subset
  <2> QED BY <1>1, <2>4, <2>8 DEF rest
<1> QED BY <1>4, <1>6, <1>7, <1>8 DEF RefreshInv

\* An acknowledgement.
LEMMA AckKeeps ==
    ASSUME TypeOK, RefreshInv, DispatchAck
    PROVE  RefreshInv'
<1> DEFINE m == Head(inbound)
<1>0. UNCHANGED <<held, announce, connected, phase, known, shrunk, registry, caller, since, rerun, accum, offset>>
  BY DEF DispatchAck, bridgeVars, cycleVars
<1>1. Dispatch("ack") /\ acked' = Acknowledged(m)
  BY DEF DispatchAck
<1>2. /\ Rest(1) /\ m \in Message /\ m.kind = "ack" /\ 1 \in DOMAIN inbound /\ inbound[1] = m
      /\ \A i \in DOMAIN inbound' : i + 1 \in 2..Len(inbound)
  BY <1>1, Dispatched
<1>3. WholeIsHeld' /\ PagesCut'
  BY <1>0, <1>1, <1>2, WholeKept, RestKept
<1>4. /\ acked \subseteq acked' /\ (m.action # "add" => acked' = acked)
      /\ acked' \subseteq acked \cup m.ids /\ acked' \subseteq acked \cup ToSet(held)
  BY <1>1 DEF Acknowledged
<1>5. AckedInv'
  BY <1>0, <1>4 DEF RefreshInv, AckedInv
<1>6. Counted' /\ RefreshSeesAcked'
  BY <1>0 DEF RefreshInv, Counted, RefreshSeesAcked
<1>7. \A i \in DOMAIN inbound' : /\ i + 1 \in DOMAIN inbound /\ inbound'[i] = inbound[i + 1]
                                 /\ i + 1 \in (1 + 1)..Len(inbound)
                                 /\ (PageAt(i)' <=> PageAt(i + 1)) /\ (AddAt(i)' <=> AddAt(i + 1))
  BY <1>2 DEF Rest, PageAt, AddAt
<1>8. TakenGrows'
  <2> SUFFICES ASSUME ~shrunk', known' # {}, Newer', since' = "fresh", accum' # NULL
               PROVE  /\ accum' \subseteq ToSet(held')
                      /\ \A i \in DOMAIN inbound' : PageAt(i)' => accum' \subseteq inbound'[i].whole
    BY DEF TakenGrows
  <2>1. /\ accum \subseteq ToSet(held)
        /\ \A i \in DOMAIN inbound : PageAt(i) => accum \subseteq inbound[i].whole
    BY <1>0 DEF RefreshInv, TakenGrows, Newer
  <2> QED BY <1>0, <1>7, <2>1
<1>9. ASSUME ~shrunk' PROVE Growing'
  <2>1. Growing /\ ~shrunk
    BY <1>0, <1>9 DEF RefreshInv
  <2>2. ASSUME NEW i \in DOMAIN inbound', PageAt(i)' PROVE acked' \subseteq inbound'[i].whole
    <3>1. acked \subseteq inbound'[i].whole
      BY <1>7, <2>1, <2>2 DEF Growing
    <3>2. m.action = "add" => m.ids \subseteq inbound'[i].whole
      BY <1>2, <1>7, <2>1, <2>2 DEF Growing, AddAt
    <3> QED BY <1>4, <3>1, <3>2
  <2>3. ASSUME NEW i \in DOMAIN inbound'
        PROVE  /\ PageAt(i)' => inbound'[i].whole \subseteq ToSet(held')
               /\ AddAt(i)' => inbound'[i].ids \subseteq ToSet(held')
    BY <1>0, <1>7, <2>1 DEF Growing
  <2>4. ASSUME NEW i \in DOMAIN inbound', NEW j \in (i + 1)..Len(inbound'), PageAt(j)'
        PROVE  /\ PageAt(i)' => inbound'[i].whole \subseteq inbound'[j].whole
               /\ AddAt(i)' => inbound'[i].ids \subseteq inbound'[j].whole
    <3>1. j \in DOMAIN inbound' /\ j + 1 \in ((i + 1) + 1)..Len(inbound)
      BY <1>2, <2>4 DEF Rest
    <3>2. PageAt(j + 1) /\ inbound'[j] = inbound[j + 1]
      BY <1>7, <2>4, <3>1
    <3> QED BY <1>7, <2>1, <3>1, <3>2 DEF Growing
  <2> QED BY <2>2, <2>3, <2>4 DEF Growing
<1> QED BY <1>3, <1>5, <1>6, <1>8, <1>9 DEF RefreshInv, Growing

\* A call: unless a removal is still to be told of, every page that waits is of
\* the present list.
LEMMA CallKeeps ==
    ASSUME TypeOK, IInv, RefreshInv, NEW refresh \in BOOLEAN, CallRegistry(refresh)
    PROVE  RefreshInv'
<1>0. /\ UNCHANGED <<held, announce, connected, phase, inbound, acked, registry, templates, records>>
      /\ shrunk' = (shrunk /\ (Pending \/ ~connected)) /\ known' = (IF refresh THEN acked ELSE {})
      /\ caller' = (IF ready' THEN "released" ELSE "waiting")
      /\ refresh => RequestStatus(FALSE)
      /\ ~refresh => UNCHANGED <<cycleVars, ready>>
      /\ phase = "started"
  BY DEF CallRegistry, bridgeVars, viewVars
<1>1. Rest(0) /\ WholeIsHeld' /\ PagesCut'
  BY <1>0, Unmoved, WholeKept, RestKept
<1>2. AckedInv'
  BY <1>0 DEF RefreshInv, AckedInv
<1>3. Counted'
  <2>1. CASE refresh
    BY <1>0, <2>1, Asking DEF RefreshInv, Counted
  <2>2. CASE ~refresh
    BY <1>0, <2>2 DEF RefreshInv, Counted, cycleVars
  <2> QED BY <2>1, <2>2
<1>4. refresh => ~ready'
  <2> SUFFICES ASSUME refresh PROVE ~ready'
    OBVIOUS
  <2>1. CASE templates = NULL \/ records = NULL
    BY <1>0, <2>1 DEF RequestStatus, IInv, PhaseInv
  <2>2. CASE templates # NULL /\ records # NULL
    BY <1>0, <2>2 DEF RequestStatus
  <2> QED BY <2>1, <2>2
<1>5. RefreshSeesAcked'
  BY <1>0, <1>4 DEF RefreshSeesAcked
<1>6. TakenGrows'
  <2> SUFFICES ASSUME refresh, Newer', since' = "fresh", accum' # NULL PROVE FALSE
    BY <1>0 DEF TakenGrows
  <2>1. caller' = "waiting" /\ ~rerun'
    BY <1>0, <1>4 DEF Newer
  <2>2. CASE templates = NULL \/ records = NULL
    BY <1>0, <2>2 DEF RequestStatus, cycleVars, IInv, PhaseInv
  <2>3. CASE templates # NULL /\ records # NULL
    BY <1>0, <2>1, <2>3, Asking
  <2> QED BY <2>2, <2>3
<1>7. ASSUME ~shrunk' PROVE Growing'
  <2>1. CASE ~shrunk
    <3>1. Growing
      BY DEF RefreshInv
    <3> QED BY <1>0, <2>1, <3>1 DEF Growing, PageAt, AddAt
  <2>2. CASE connected /\ ~Pending
    <3>1. \A i \in DOMAIN inbound : ~NewsAfter(i)
      BY <2>2 DEF NewsAfter, Pending
    <3>2. \A i \in DOMAIN inbound : PageAt(i) => inbound[i].whole = ToSet(held)
      BY <1>0, <2>2, <3>1 DEF RefreshInv, WholeIsHeld, Listening
    <3>3. \A i \in DOMAIN inbound : ~AddAt(i)
      BY <1>0, <2>2, <3>1 DEF IInv, QueueInv, AddAt, Listening
    <3>4. acked \subseteq ToSet(held)
      BY DEF RefreshInv, AckedInv
    <3>5. /\ \A i \in DOMAIN inbound' : /\ ~AddAt(i)'
                                        /\ PageAt(i)' => inbound'[i].whole = ToSet(held')
          /\ acked' \subseteq ToSet(held')
          /\ \A j : PageAt(j)' => j \in DOMAIN inbound'
      BY <1>0, <3>2, <3>3, <3>4 DEF PageAt, AddAt
    <3> QED BY <3>5 DEF Growing
  <2> QED BY <1>0, <1>7, <2>1, <2>2
<1> QED BY <1>1, <1>2, <1>3, <1>5, <1>6, <1>7 DEF RefreshInv, Growing

\* It holds at the start.
LEMMA RefreshInit == Init => RefreshInv
<1> SUFFICES ASSUME Init PROVE RefreshInv
  OBVIOUS
<1>1. /\ IsInjective(held) /\ inbound = <<>> /\ accum = NULL /\ acked = {} /\ known = {} /\ caller = "idle"
      /\ DOMAIN inbound = {}
  BY DEF Init
<1> QED BY <1>1 DEF RefreshInv, PagesCut, WholeIsHeld, Counted, AckedInv, Growing, TakenGrows, RefreshSeesAcked, Listening

\* Each step of the client keeps RefreshInv ...
LEMMA RefreshClient ==
    ASSUME TypeOK, IInv, RefreshInv, Client
    PROVE  RefreshInv'
<1> USE DEF bridgeVars, cycleVars, viewVars, history
<1>1. ASSUME NEW twice \in BOOLEAN, RequestStatus(twice), inbound' = inbound,
             UNCHANGED <<held, announce, connected, acked, known, shrunk, registry, caller>>,
             phase' = "started" => phase = "started"
      PROVE  RefreshInv'
  <2>1. Rest(0) /\ WholeIsHeld'
    BY <1>1, Unmoved, WholeKept
  <2>2. since' = "fresh" /\ accum' # NULL =>
          /\ since = "fresh" /\ accum # NULL /\ accum' = accum /\ offset' = offset
          /\ Newer' => Newer
    BY <1>1, Asking DEF Newer
  <2> QED BY <1>1, <2>1, <2>2, Quietly
<1>2. ASSUME inbound' = inbound, caller' = caller \/ caller' = "idle",
             UNCHANGED <<held, announce, connected, phase, acked, known, shrunk, registry, rerun, accum, offset>>,
             since' = since \/ since' # "fresh"
      PROVE  RefreshInv'
  <2>1. Rest(0) /\ WholeIsHeld'
    BY <1>2, Unmoved, WholeKept
  <2>2. since' = "fresh" /\ accum' # NULL =>
          /\ since = "fresh" /\ accum # NULL /\ accum' = accum /\ offset' = offset
          /\ Newer' => Newer
    BY <1>2 DEF Newer
  <2> QED BY <1>2, <2>1, <2>2, Quietly
<1>3. ASSUME NEW kind, Dispatch(kind),
             UNCHANGED <<held, announce, connected, phase, acked, known, shrunk, registry, caller, since, rerun, accum,
                         offset>>
      PROVE  RefreshInv'
  <2>1. Rest(1) /\ WholeIsHeld'
    BY <1>3, Dispatched, WholeKept
  <2>2. since' = "fresh" /\ accum' # NULL =>
          /\ since = "fresh" /\ accum # NULL /\ accum' = accum /\ offset' = offset
          /\ Newer' => Newer
    BY <1>3 DEF Newer
  <2> QED BY <1>3, <2>1, <2>2, Quietly
<1>4. CASE Start
  <2>1. /\ inbound = <<>> /\ inbound' = (IF retained THEN <<Config>> ELSE <<>>)
        /\ UNCHANGED <<held, announce, acked, known, shrunk, registry, caller, since, rerun, accum, offset>>
    BY <1>4 DEF Start, IInv, PhaseInv
  <2>2. inbound' = inbound \/ inbound' = Append(inbound, Config)
    BY <2>1
  <2>3. Config \in Message /\ Config.kind = "config"
    BY OtherTypes DEF Config
  <2>4. WholeIsHeld'
    <3>1. \A i \in DOMAIN inbound' : ~PageAt(i)'
      BY <2>1, <2>3 DEF PageAt
    <3> QED BY <3>1 DEF WholeIsHeld, Listening
  <2>5. IsInjective(held') /\ known' \subseteq acked' /\ acked' \subseteq ToSet(held')
    BY <2>1 DEF RefreshInv, PagesCut, AckedInv
  <2> QED BY <2>1, <2>2, <2>3, <2>4, <2>5, Coming
<1>5. CASE Stop
  <2>1. /\ inbound' = <<>> /\ since' = "none"
        /\ UNCHANGED <<held, acked, known, shrunk, registry, caller>>
    BY <1>5 DEF Stop
  <2>2. Rest(0) /\ WholeIsHeld'
    BY <2>1, Emptied
  <2> QED BY <2>1, <2>2, Quietly
<1>6. CASE RefusePage
  <2>1. Dispatch("page") /\ accum' = Taken /\ since = "fresh"
        /\ UNCHANGED <<held, announce, connected, phase, acked, known, shrunk, registry, caller, since, rerun, offset>>
    BY <1>6 DEF RefusePage, Expected
  <2>2. CASE accum # NULL
    BY <1>3, <2>1, <2>2 DEF Taken
  <2>3. CASE accum = NULL
    <3>1. accum' = {} /\ offset' = 0
      BY <2>1, <2>3 DEF Taken, IInv, CycleInv, Listening
    <3>2. Rest(1) /\ WholeIsHeld' /\ PagesCut' /\ Growing'
      BY <2>1, Dispatched, WholeKept, RestKept
    <3>3. Counted' /\ TakenGrows'
      BY <3>1, FS_EmptySet DEF Counted, TakenGrows
    <3>4. AckedInv' /\ RefreshSeesAcked'
      BY <2>1 DEF RefreshInv, AckedInv, RefreshSeesAcked
    <3> QED BY <3>2, <3>3, <3>4 DEF RefreshInv
  <2> QED BY <2>2, <2>3
<1>7. CASE RunConfigTask
  BY <1>1, <1>7, (templates' # templates) \in BOOLEAN DEF RunConfigTask
<1>8. ASSUME NEW rs \in Files, SyncDevices(rs) PROVE RefreshInv'
  <2>1. CASE records = NULL
    BY <1>1, <1>8, <2>1 DEF SyncDevices
  <2>2. CASE records # NULL
    BY <1>2, <1>8, <2>2 DEF SyncDevices
  <2> QED BY <2>1, <2>2
<1>9. CASE RetryStatus
  BY <1>1, <1>9 DEF RetryStatus
<1>10. CASE StartTimeout \/ ReturnRegistry
  BY <1>2, <1>10 DEF StartTimeout, ReturnRegistry
<1>11. CASE Expire
  BY <1>2, <1>11 DEF Expire
<1>12. CASE DispatchConfig
  BY <1>3, <1>12 DEF DispatchConfig
<1>13. CASE IgnorePage
  BY <1>3, <1>13 DEF IgnorePage
<1> QED BY <1>4, <1>5, <1>6, <1>7, <1>8, <1>9, <1>10, <1>11, <1>12, <1>13, TakeKeeps, CommitKeeps, AckKeeps,
           CallKeeps DEF Client

\* A config behind every page is news for each.
LEMMA ConfigBehind ==
    ASSUME TypeOK, inbound' = Append(inbound, Config)
    PROVE  WholeIsHeld'
<1>1. /\ Len(inbound) \in Nat /\ DOMAIN inbound' = 1..(Len(inbound) + 1)
      /\ inbound'[Len(inbound) + 1] = Config /\ Config.kind = "config"
  BY OtherTypes, AppendProperties DEF TypeOK, Config
<1>2. ASSUME NEW i \in DOMAIN inbound', PageAt(i)' PROVE NewsAfter(i)'
  BY <1>1, <1>2 DEF NewsAfter, PageAt
<1> QED BY <1>2 DEF WholeIsHeld, Listening

\* ... and of the bridge ...
LEMMA RefreshBridge ==
    ASSUME TypeOK, IInv, RefreshInv, Bridge
    PROVE  RefreshInv'
<1> USE DEF bridgeVars, clientVars, cycleVars, viewVars, history
<1>0. IsInjective(held) /\ known \subseteq acked /\ acked \subseteq ToSet(held)
  BY DEF RefreshInv, PagesCut, AckedInv
<1>1. ASSUME NEW off \in Nat, inbound' = Heard(Page(off)), UNCHANGED <<bridgeVars, clientVars, history>>
      PROVE  RefreshInv'
  <2>1. Page(off) \in Message /\ Cut(Page(off)) /\ Page(off).whole = ToSet(held) /\ Page(off).kind = "page"
    BY <1>0, PageType, PageCut
  <2>2. inbound' = inbound \/ inbound' = Append(inbound, Page(off))
    BY <1>1 DEF Heard, Hears
  <2>3. WholeIsHeld'
    <3>1. CASE inbound' = inbound
      BY <1>1, <3>1, WholeKept
    <3>2. CASE inbound' = Append(inbound, Page(off))
      <4>1. /\ Len(inbound) \in Nat /\ DOMAIN inbound = 1..Len(inbound) /\ DOMAIN inbound' = 1..(Len(inbound) + 1)
            /\ \A i \in 1..Len(inbound) : inbound'[i] = inbound[i]
            /\ inbound'[Len(inbound) + 1] = Page(off)
        BY <2>1, <3>2, AppendProperties, LenProperties DEF TypeOK
      <4> SUFFICES ASSUME Listening', NEW i \in DOMAIN inbound', PageAt(i)', ~NewsAfter(i)'
                   PROVE  inbound'[i].whole = ToSet(held)'
        BY DEF WholeIsHeld, Listening
      <4>2. CASE i \in DOMAIN inbound
        <5>1. inbound'[i] = inbound[i] /\ PageAt(i)
          BY <4>1, <4>2 DEF PageAt
        <5>2. ~NewsAfter(i)
          BY <1>1, <4>1 DEF NewsAfter
        <5> QED BY <1>1, <4>2, <5>1, <5>2 DEF RefreshInv, WholeIsHeld, Listening
      <4>3. CASE i = Len(inbound) + 1
        BY <1>1, <2>1, <4>1, <4>3
      <4> QED BY <4>1, <4>2, <4>3
    <3> QED BY <2>2, <3>1, <3>2
  <2> QED BY <1>0, <1>1, <2>1, <2>2, <2>3, Coming
<1>2. ASSUME NEW newHeld, NEW ack \in Message, BridgeChange(newHeld, ack), IsInjective(newHeld), ack.kind = "ack",
             ack.action = "add" => ack.ids \subseteq ToSet(newHeld)
      PROVE  RefreshInv'
  <2>1. /\ held' = newHeld /\ (inbound' = inbound \/ inbound' = Append(inbound, ack))
        /\ acked' = acked \cap ToSet(newHeld) /\ known' = known \cap ToSet(newHeld)
        /\ shrunk' = (shrunk \/ ~(ToSet(held) \subseteq ToSet(newHeld))) /\ announce'
        /\ UNCHANGED <<registry, caller, since, rerun, accum, offset>>
    BY <1>2 DEF BridgeChange, Heard, Hears
  <2>2. WholeIsHeld'
    BY <2>1 DEF WholeIsHeld, NewsAfter, Listening
  <2>3. /\ (shrunk' \/ ToSet(held) \subseteq ToSet(held')) /\ (shrunk => shrunk')
        /\ acked' \subseteq acked /\ known' \subseteq known /\ known' \subseteq acked' /\ acked' \subseteq ToSet(held')
    BY <1>0, <2>1
  <2> QED BY <1>2, <2>1, <2>2, <2>3, Coming
<1>3. CASE BridgeServe
  <2>1. Head(requests).offset \in Nat
    BY <1>3, HeadRequest DEF BridgeServe
  <2>2. CASE inbound' = Heard(Page(Head(requests).offset))
    BY <1>1, <1>3, <2>1, <2>2 DEF BridgeServe
  <2>3. CASE inbound' = inbound
    <3>1. Rest(0) /\ WholeIsHeld'
      BY <1>3, <2>3, Unmoved, WholeKept DEF BridgeServe
    <3>2. UNCHANGED <<held, acked, known, shrunk, registry, since, accum, offset, caller, rerun>>
      BY <1>3 DEF BridgeServe
    <3> QED BY <3>1, <3>2, Quietly DEF Newer
  <2> QED BY <1>3, <2>2, <2>3 DEF BridgeServe
<1>4. CASE BridgeClear
  <2>1. /\ Ack("remove", Device) \in Message /\ Ack("remove", Device).kind = "ack"
        /\ Ack("remove", Device).action = "remove"
    BY OtherTypes DEF Ack
  <2>2. IsInjective(<<>>)
    BY DEF IsInjective
  <2> QED BY <1>2, <1>4, <2>1, <2>2 DEF BridgeClear
<1>5. CASE PublishConfig
  <2>1. /\ inbound' = inbound \/ inbound' = Append(inbound, Config)
        /\ UNCHANGED <<held, connected, phase, acked, known, shrunk, registry, caller, since, rerun, accum, offset>>
    BY <1>5 DEF PublishConfig
  <2>2. WholeIsHeld'
    <3>1. CASE Listening
      BY <1>5, <3>1, ConfigBehind DEF PublishConfig
    <3>2. CASE ~Listening
      BY <2>1, <3>2 DEF WholeIsHeld, Listening
    <3> QED BY <3>1, <3>2
  <2>3. Config \in Message /\ Config.kind = "config"
    BY OtherTypes DEF Config
  <2> QED BY <1>0, <2>1, <2>2, <2>3, Coming
<1>6. ASSUME NEW i \in 1..Len(held), BridgeRemove(i) PROVE RefreshInv'
  <2>1. held[i] \in Device
    BY ElementOfSeq DEF TypeOK
  <2>2. /\ Ack("remove", {held[i]}) \in Message /\ Ack("remove", {held[i]}).kind = "ack"
        /\ Ack("remove", {held[i]}).action = "remove"
    BY <2>1, OtherTypes DEF Ack
  <2> QED BY <1>0, <1>2, <1>6, <2>2, RemoveOnce DEF BridgeRemove
<1>7. ASSUME NEW d \in Device, NEW i \in 1..(Len(held) + 1), BridgeAdd(d, i) PROVE RefreshInv'
  <2>1. /\ Ack("add", {d}) \in Message /\ Ack("add", {d}).kind = "ack" /\ Ack("add", {d}).ids = {d}
    BY OtherTypes DEF Ack
  <2> QED BY <1>0, <1>2, <1>7, <2>1, InsertOnce DEF BridgeAdd
<1>8. ASSUME NEW l \in Layout, BridgeReconfigure(l) PROVE RefreshInv'
  <2>1. announce' /\ inbound' = inbound
        /\ UNCHANGED <<held, acked, known, shrunk, registry, caller, since, rerun, accum, offset>>
    BY <1>8 DEF BridgeReconfigure
  <2>2. WholeIsHeld' /\ Rest(0)
    BY <2>1, Unmoved DEF WholeIsHeld, NewsAfter, Listening
  <2> QED BY <2>1, <2>2, Quietly DEF Newer
<1>9. ASSUME NEW off \in 0..Len(held), ForeignPage(off) PROVE RefreshInv'
  <2>1. off \in Nat
    OBVIOUS
  <2> QED BY <1>1, <1>9, <2>1 DEF ForeignPage
<1> QED BY <1>3, <1>4, <1>5, <1>6, <1>7, <1>8, <1>9 DEF Bridge

\* ... and of the connection ...
LEMMA RefreshConnection ==
    ASSUME TypeOK, IInv, RefreshInv, Connection
    PROVE  RefreshInv'
<1> USE DEF bridgeVars, clientVars, cycleVars, viewVars, history
<1>1. CASE LoseRequest
  <2>1. /\ inbound' = inbound
        /\ UNCHANGED <<held, announce, connected, phase, acked, known, shrunk, registry, caller, since, rerun, accum, offset>>
    BY <1>1 DEF LoseRequest
  <2>2. WholeIsHeld' /\ Rest(0)
    BY <2>1, Unmoved, WholeKept
  <2> QED BY <2>1, <2>2, Quietly DEF Newer
<1>2. CASE Reconnect
  <2>1. /\ inbound' = inbound \/ inbound' = Append(inbound, Config)
        /\ UNCHANGED <<held, announce, acked, known, shrunk, registry, caller, since, rerun, accum, offset>>
    BY <1>2 DEF Reconnect
  <2>2. WholeIsHeld'
    <3>1. CASE phase = "started" /\ retained
      BY <1>2, <3>1, ConfigBehind DEF Reconnect
    <3>2. CASE phase # "started"
      BY <1>2, <3>2 DEF Reconnect, WholeIsHeld, Listening
    <3>3. CASE ~retained
      <4>1. announce'
        BY <2>1, <3>3 DEF IInv, PhaseInv
      <4> QED BY <4>1 DEF WholeIsHeld, NewsAfter, Listening
    <3> QED BY <3>1, <3>2, <3>3
  <2>3. Config \in Message /\ Config.kind = "config"
    BY OtherTypes DEF Config
  <2>4. IsInjective(held') /\ known' \subseteq acked' /\ acked' \subseteq ToSet(held')
    BY <2>1 DEF RefreshInv, PagesCut, AckedInv
  <2> QED BY <2>1, <2>2, <2>3, <2>4, Coming
<1>3. ASSUME NEW n \in 0..Len(inbound), Disconnect(n) PROVE RefreshInv'
  <2>1. /\ inbound' = SubSeq(inbound, 1, n) /\ ~connected'
        /\ UNCHANGED <<held, acked, known, shrunk, registry, caller, since, rerun, accum, offset>>
    BY <1>3 DEF Disconnect
  <2>2. WholeIsHeld' /\ Rest(0)
    BY <2>1, Prefix DEF WholeIsHeld, Listening
  <2> QED BY <2>1, <2>2, Quietly DEF Newer
<1> QED BY <1>1, <1>2, <1>3 DEF Connection

\* ... and so every step.
LEMMA RefreshNext == TypeOK /\ IInv /\ RefreshInv /\ [Next]_vars => RefreshInv'
<1> SUFFICES ASSUME TypeOK, IInv, RefreshInv, [Next]_vars PROVE RefreshInv'
  OBVIOUS
<1>1. CASE UNCHANGED vars
  <2>1. /\ inbound' = inbound
        /\ UNCHANGED <<held, announce, connected, phase, acked, known, shrunk, registry, caller, since, rerun, accum, offset>>
    BY <1>1 DEF vars, bridgeVars, viewVars, cycleVars, history
  <2>2. WholeIsHeld' /\ Rest(0)
    BY <2>1, Unmoved, WholeKept
  <2> QED BY <2>1, <2>2, Quietly DEF Newer
<1> QED BY <1>1, RefreshClient, RefreshBridge, RefreshConnection DEF Next

\* The strengthening is inductive, given the types and IInv.
THEOREM RefreshInvariant == Spec => []RefreshInv
BY RefreshInit, RefreshNext, TypeCorrect, InvariantHolds, PTL DEF Spec

\* A refresh shows what was acknowledged before it was asked for, whatever is
\* added, answered late, lost or repeated meanwhile.
THEOREM RefreshShows == Spec => []RefreshSeesAcked
<1>1. RefreshInv => RefreshSeesAcked
  BY DEF RefreshInv
<1> QED BY <1>1, RefreshInvariant, PTL
=============================================================================
