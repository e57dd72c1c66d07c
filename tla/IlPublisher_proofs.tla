------------------------ MODULE IlPublisher_proofs ------------------------
(***************************************************************************)
(* Proofs about IlPublisher, for any devices, properties, records and      *)
(* overrides, whatever the rules make of them, and any bounds.             *)
(***************************************************************************)
EXTENDS IlPublisher, SequenceTheorems, TLAPS

(***************************************************************************)
(* The Hub                                                                 *)
(***************************************************************************)
\* Nothing runs between two runs.
Idle ==
    phase = "down" =>
        /\ devices = NoFun /\ failed = NoFun /\ wanted = NoFun /\ previous = NoFun /\ saves = 0
        /\ \A d \in Device : out[d] = <<>>

\* A driver is what the rules make of its record.
Made ==
    \A d \in DOMAIN drivers :
        /\ Shape[<<devices[d], overrides>>] # REFUSED
        /\ drivers[d].shape = Shape[<<devices[d], overrides>>]

\* A record that is wanted is driven, or was refused and is tried again.
Followed ==
    /\ DOMAIN devices \subseteq DOMAIN wanted
    /\ \A d \in DOMAIN failed :
         d \in DOMAIN wanted /\ failed[d] = wanted[d] /\ Shape[<<failed[d], overrides>>] = REFUSED
    /\ \A d \in DOMAIN wanted :
         (d \in DOMAIN devices /\ devices[d] = wanted[d]) \/ (d \in DOMAIN failed /\ failed[d] = wanted[d])

HubInv == TypeOK /\ TimersAreDriven /\ Idle /\ Made /\ Followed

(***************************************************************************)
(* A device's queue, over what the broker holds                            *)
(***************************************************************************)
\* `q[i]` sets the property, takes it back, or says what the descriptor is.
On(q, i, p) == q[i].kind = "values" /\ q[i].on /\ p \in q[i].props
Off(q, i, p) == q[i].kind = "values" /\ ~q[i].on /\ p \in q[i].props
Says(q, i) == q[i].kind = "descriptor"

\* After the first n messages: is the value retained still that of before, or
\* one of the queue's?
Old(v, q, n, p) == p \in v /\ \A i \in 1..n : ~Off(q, i, p)
New(q, n, p) == \E i \in 1..n : On(q, i, p) /\ \A j \in (i + 1)..n : ~Off(q, j, p)

\* After the first n messages, the descriptor is s.
Descr(b, q, n, s) ==
    \/ b = s /\ \A i \in 1..n : ~Says(q, i)
    \/ \E i \in 1..n : Says(q, i) /\ q[i].shape = s /\ \A j \in (i + 1)..n : ~Says(q, j)

\* No value without a descriptor at any time, but for those of `x`.
Sound(v, b, x, q) ==
    \A n \in 0..Len(q), p \in Prop :
        ((Old(v, q, n, p) /\ p \notin x) \/ New(q, n, p)) => ~Descr(b, q, n, NONE)

\* In the end, the values are of the properties `s`, but for those of `x`.
Within(v, x, q, s) ==
    \A p \in Prop : /\ New(q, Len(q), p) => p \in s
                    /\ Old(v, q, Len(q), p) => p \in s \cup x

EndsAs(b, q, s) == Descr(b, q, Len(q), s)

\* The queue of a driven device ends with what its driver describes; that of
\* another with nothing, but for what an earlier run left.
Driven(d) ==
    /\ Within(vals[d], left[d] \cap stale[d], out[d], drivers[d].shape)
    /\ EndsAs(desc[d], out[d], drivers[d].shape)
Undriven(d) ==
    /\ Within(vals[d], left[d], out[d], {})
    /\ EndsAs(desc[d], out[d], NONE) \/ (d \in kept /\ \A i \in 1..Len(out[d]) : ~Says(out[d], i))

\* What the run before left, until the first reconcile.
Found ==
    DOMAIN previous # {} =>
        /\ devices = NoFun /\ failed = NoFun /\ \A d \in Device : out[d] = <<>>
        /\ \A d \in DOMAIN previous : previous[d] = left[d] /\ desc[d] # NONE

QueuesSound == \A d \in Device : Sound(vals[d], desc[d], stale[d], out[d])
QueuesEnd ==
    phase # "down" =>
        \A d \in Own : IF d \in DOMAIN drivers THEN Driven(d) ELSE Undriven(d)
PurgedClean == purged => phase = "down" /\ \A d \in Own : desc[d] = NONE

BrokerInv == HubInv /\ Found /\ QueuesSound /\ QueuesEnd /\ PurgedClean

(***************************************************************************)
(* Messages added to a queue                                               *)
(***************************************************************************)
\* A queue with one message more.
LEMMA AppendIs ==
    ASSUME NEW S, NEW q \in Seq(S), NEW m \in S
    PROVE  /\ Append(q, m) \in Seq(S) /\ Len(Append(q, m)) = Len(q) + 1 /\ Len(q) \in Nat
           /\ \A i \in 1..Len(q) : Append(q, m)[i] = q[i]
           /\ Append(q, m)[Len(q) + 1] = m
OBVIOUS

\* Nothing changes for the messages that were there before.
LEMMA AppendBefore ==
    ASSUME NEW q \in Seq(Msg), NEW m \in Msg, NEW n \in 0..Len(q), NEW v, NEW b, NEW p, NEW s
    PROVE  /\ Old(v, Append(q, m), n, p) <=> Old(v, q, n, p)
           /\ New(Append(q, m), n, p) <=> New(q, n, p)
           /\ Descr(b, Append(q, m), n, s) <=> Descr(b, q, n, s)
<1> DEFINE r == Append(q, m)
<1>1. \A i \in 1..n : r[i] = q[i] /\ i \in 1..Len(q)
  BY AppendIs
<1>2. \A i \in 1..n : (i + 1)..n \subseteq 1..n
  BY AppendIs
<1> HIDE DEF r
<1>3. Old(v, r, n, p) <=> Old(v, q, n, p)
  BY <1>1 DEF Old, Off
<1>4. New(r, n, p) <=> New(q, n, p)
  BY <1>1, <1>2 DEF New, On, Off
<1>5. Descr(b, r, n, s) <=> Descr(b, q, n, s)
  BY SMTT(30), <1>1, <1>2 DEF Descr, Says
<1> QED BY <1>3, <1>4, <1>5 DEF r

\* What the message added makes of the end.
LEMMA AppendAfter ==
    ASSUME NEW q \in Seq(Msg), NEW m \in Msg, NEW v, NEW b, NEW p, NEW s
    PROVE  LET r == Append(q, m)  n == Len(q) + 1
               on == m.kind = "values" /\ m.on /\ p \in m.props
               off == m.kind = "values" /\ ~m.on /\ p \in m.props IN
           /\ Old(v, r, n, p) <=> (Old(v, q, Len(q), p) /\ ~off)
           /\ New(r, n, p) <=> (on \/ (New(q, Len(q), p) /\ ~off))
           /\ Descr(b, r, n, s) <=> (IF m.kind = "descriptor" THEN m.shape = s ELSE Descr(b, q, Len(q), s))
<1> DEFINE r == Append(q, m)
           l == Len(q)
           n == l + 1
           on == m.kind = "values" /\ m.on /\ p \in m.props
           off == m.kind = "values" /\ ~m.on /\ p \in m.props
<1>1. /\ l \in Nat /\ \A i \in 1..l : r[i] = q[i]
      /\ r[n] = m
  BY AppendIs
<1>2. /\ \A i \in 1..n : i \in 1..l \/ i = n
      /\ \A i \in 1..l : i \in 1..n /\ \A j \in (i + 1)..n : j \in (i + 1)..l \/ j = n
      /\ \A i \in 1..l : n \in (i + 1)..n /\ \A j \in (i + 1)..l : j \in (i + 1)..n /\ j \in 1..l
      /\ n \in 1..n /\ (n + 1)..n = {}
  BY <1>1
<1>3. (On(r, n, p) <=> on) /\ (Off(r, n, p) <=> off) /\ (Says(r, n) <=> m.kind = "descriptor") /\ (on => ~off)
  BY <1>1 DEF On, Off, Says
<1>4. \A i \in 1..l : (On(r, i, p) <=> On(q, i, p)) /\ (Off(r, i, p) <=> Off(q, i, p)) /\ (Says(r, i) <=> Says(q, i))
  BY <1>1 DEF On, Off, Says
<1> HIDE DEF r, l, n, on, off
<1>5. Old(v, r, n, p) <=> (Old(v, q, l, p) /\ ~off)
  BY <1>2, <1>3, <1>4 DEF Old
<1>6. New(r, n, p) <=> (on \/ (New(q, l, p) /\ ~off))
  BY <1>2, <1>3, <1>4 DEF New
<1>7. Descr(b, r, n, s) <=> (IF m.kind = "descriptor" THEN m.shape = s ELSE Descr(b, q, l, s))
  <2>1. CASE m.kind = "descriptor"
    BY <1>1, <1>2, <1>3, <2>1 DEF Descr
  <2>2. CASE m.kind # "descriptor"
    BY <1>1, <1>2, <1>3, <1>4, <2>2 DEF Descr
  <2> QED BY <2>1, <2>2
<1> QED BY <1>5, <1>6, <1>7 DEF r, l, n, on, off

\* There is one descriptor at a time.
LEMMA DescrUnique ==
    ASSUME NEW q, NEW n \in Nat, NEW b, NEW s, NEW t, Descr(b, q, n, s), Descr(b, q, n, t)
    PROVE  s = t
<1>1. \A i, j \in 1..n : i = j \/ j \in (i + 1)..n \/ i \in (j + 1)..n
  OBVIOUS
<1> QED BY <1>1 DEF Descr

\* The places in a queue with one message more.
LEMMA AppendSound ==
    ASSUME NEW q \in Seq(Msg), NEW m \in Msg, NEW v, NEW b, NEW x, Sound(v, b, x, q),
           \A p \in Prop : LET r == Append(q, m)  n == Len(q) + 1 IN
             ((Old(v, r, n, p) /\ p \notin x) \/ New(r, n, p)) => ~Descr(b, r, n, NONE)
    PROVE  Sound(v, b, x, Append(q, m))
<1>1. 0..Len(Append(q, m)) = 0..Len(q) \cup {Len(q) + 1}
  BY AppendIs
<1> QED BY <1>1, AppendBefore DEF Sound

\* Values added, or taken back.
LEMMA AddValues ==
    ASSUME NEW q \in Seq(Msg), NEW ps \in SUBSET Prop, NEW on \in BOOLEAN, NEW v, NEW b, NEW x
    PROVE  LET r == q \o Values(ps, on) IN
           /\ r \in Seq(Msg)
           /\ \A s : EndsAs(b, q, s) => EndsAs(b, r, s)
           /\ ~on => /\ Sound(v, b, x, q) => Sound(v, b, x, r)
                     /\ \A y, S : Within(v, y, q, S) => Within(v, y \ ps, r, S \ ps)
           /\ on => /\ \A s : Sound(v, b, x, q) /\ EndsAs(b, q, s) /\ s # NONE => Sound(v, b, x, r)
                    /\ \A y, S : Within(v, y, q, S) => Within(v, y, r, S \cup ps)
<1>1. CASE ps = {}
  <2>1. q \o Values(ps, on) = q
    BY <1>1 DEF Values
  <2> QED BY <1>1, <2>1 DEF Within
<1>2. CASE ps # {}
  <2> DEFINE m == [kind |-> "values", props |-> ps, on |-> on]
             r == Append(q, m)
  <2>1. m \in Msg /\ m.kind = "values" /\ m.props = ps /\ m.on = on
    BY DEF Msg
  <2>2. q \o Values(ps, on) = r
    BY <1>2, <2>1 DEF Values
  <2> HIDE DEF m
  <2>3. r \in Seq(Msg) /\ Len(r) = Len(q) + 1 /\ Len(q) \in Nat
    BY <2>1, AppendIs
  <2>4. \A s : EndsAs(b, q, s) <=> EndsAs(b, r, s)
    BY <2>1, <2>3, AppendAfter DEF EndsAs
  <2>5. \A p : /\ Old(v, r, Len(r), p) <=> (Old(v, q, Len(q), p) /\ ~(~on /\ p \in ps))
               /\ New(r, Len(r), p) <=> ((on /\ p \in ps) \/ (New(q, Len(q), p) /\ ~(~on /\ p \in ps)))
    BY <2>1, <2>3, AppendAfter
  <2>6. Sound(v, b, x, q) => \A p \in Prop :
          ((Old(v, q, Len(q), p) /\ p \notin x) \/ New(q, Len(q), p)) => ~Descr(b, q, Len(q), NONE)
    BY <2>3 DEF Sound
  <2> HIDE DEF r
  <2>7. ASSUME ~on, Sound(v, b, x, q) PROVE Sound(v, b, x, r)
    BY <2>1, <2>3, <2>4, <2>5, <2>6, <2>7, AppendSound DEF EndsAs, r
  <2>8. ASSUME on, Sound(v, b, x, q), NEW s, EndsAs(b, q, s), s # NONE PROVE Sound(v, b, x, r)
    <3>1. ~EndsAs(b, q, NONE)
      BY <2>3, <2>8, DescrUnique DEF EndsAs
    <3> QED BY <2>1, <2>3, <2>4, <2>8, <3>1, AppendSound DEF EndsAs, r
  <2>9. ~on => \A y, S : Within(v, y, q, S) => Within(v, y \ ps, r, S \ ps)
    BY <2>5 DEF Within
  <2>10. on => \A y, S : Within(v, y, q, S) => Within(v, y, r, S \cup ps)
    BY <2>5 DEF Within
  <2> QED BY <2>2, <2>3, <2>4, <2>7, <2>8, <2>9, <2>10
<1> QED BY <1>1, <1>2

\* A descriptor added, or taken back.
LEMMA AddDescriptor ==
    ASSUME NEW q \in Seq(Msg), NEW s \in {NONE} \cup SUBSET Prop, NEW v, NEW b, NEW x, Sound(v, b, x, q),
           s # NONE \/ Within(v, x, q, {})
    PROVE  LET r == q \o Descriptor(s) IN
           /\ r \in Seq(Msg) /\ Sound(v, b, x, r) /\ EndsAs(b, r, s)
           /\ \A y, S : Within(v, y, q, S) => Within(v, y, r, S)
<1> DEFINE m == [kind |-> "descriptor", shape |-> s]
           r == Append(q, m)
<1>1. m \in Msg /\ m.kind = "descriptor" /\ m.kind # "values" /\ m.shape = s
  BY DEF Msg
<1>2. q \o Descriptor(s) = r
  BY <1>1 DEF Descriptor
<1> HIDE DEF m
<1>3. r \in Seq(Msg) /\ Len(r) = Len(q) + 1 /\ Len(q) \in Nat
  BY <1>1, AppendIs
<1>4. \A t : EndsAs(b, r, t) <=> s = t
  BY ZenonT(60), <1>1, <1>3, AppendAfter DEF EndsAs
<1>5. ASSUME NEW p
      PROVE  (Old(v, r, Len(r), p) <=> Old(v, q, Len(q), p)) /\ (New(r, Len(r), p) <=> New(q, Len(q), p))
  <2> DEFINE n == Len(q) + 1
  <2>1. /\ Old(v, r, n, p) <=> (Old(v, q, Len(q), p) /\ ~(m.kind = "values" /\ ~m.on /\ p \in m.props))
        /\ New(r, n, p) <=> ((m.kind = "values" /\ m.on /\ p \in m.props)
                              \/ (New(q, Len(q), p) /\ ~(m.kind = "values" /\ ~m.on /\ p \in m.props)))
    BY <1>1, AppendAfter
  <2> QED BY <1>1, <1>3, <2>1
<1>6. Sound(v, b, x, r)
  <2>1. \A p \in Prop : ((Old(v, r, Len(r), p) /\ p \notin x) \/ New(r, Len(r), p)) => ~EndsAs(b, r, NONE)
    BY <1>4, <1>5 DEF Within
  <2> QED BY <1>1, <1>3, <2>1, AppendSound DEF EndsAs
<1>7. \A y, S : Within(v, y, q, S) => Within(v, y, r, S)
  BY <1>5 DEF Within
<1> QED BY <1>2, <1>3, <1>4, <1>6, <1>7

\* What is published is messages.
LEMMA Published ==
    /\ \A ps \in SUBSET Prop, on \in BOOLEAN : Values(ps, on) \in Seq(Msg)
    /\ \A s \in {NONE} \cup SUBSET Prop : Descriptor(s) \in Seq(Msg)
    /\ \A dr \in Driver : Shown(dr) \in Seq(Msg) /\ Describe(dr) \in Seq(Msg)
    /\ \A dr, nw \in Driver : Adopt(dr, nw) \in Seq(Msg)
    /\ \A ps \in SUBSET Prop : Clear(ps) \in Seq(Msg)
<1>1. ASSUME NEW ps \in SUBSET Prop, NEW on \in BOOLEAN PROVE Values(ps, on) \in Seq(Msg)
  <2> DEFINE m == [kind |-> "values", props |-> ps, on |-> on]
  <2>1. m \in Msg
    BY DEF Msg
  <2>2. Values(ps, on) = IF ps = {} THEN <<>> ELSE <<m>>
    BY DEF Values
  <2> HIDE DEF m
  <2> QED BY <2>1, <2>2
<1>2. ASSUME NEW s \in {NONE} \cup SUBSET Prop PROVE Descriptor(s) \in Seq(Msg)
  BY DEF Descriptor, Msg
<1>3. ASSUME NEW dr \in Driver PROVE Shown(dr) \in Seq(Msg) /\ Describe(dr) \in Seq(Msg)
  <2>1. dr.shape \in SUBSET Prop
    BY DEF Driver
  <2>2. Shown(dr) \in Seq(Msg)
    <3> DEFINE u == Values(dr.shape, TRUE)
    <3>1. u \in Seq(Msg)
      BY <1>1, <2>1
    <3>2. Shown(dr) = IF Available(dr) THEN u ELSE <<>>
      BY DEF Shown
    <3> HIDE DEF u
    <3> QED BY <3>1, <3>2
  <2> QED BY <1>2, <2>1, <2>2, ConcatProperties DEF Describe
<1>4. ASSUME NEW dr \in Driver, NEW nw \in Driver PROVE Adopt(dr, nw) \in Seq(Msg)
  <2>1. (dr.shape \ nw.shape) \cup (dr.shape \cap Motion) \in SUBSET Prop
    BY DEF Driver
  <2> QED BY <1>1, <1>3, <2>1, ConcatProperties DEF Adopt
<1>5. ASSUME NEW ps \in SUBSET Prop PROVE Clear(ps) \in Seq(Msg)
  BY <1>1, <1>2, ConcatProperties DEF Clear
<1> QED BY <1>1, <1>2, <1>3, <1>4, <1>5

\* All that is there is taken back, and the descriptor last.
LEMMA AddClear ==
    ASSUME NEW q \in Seq(Msg), NEW ps \in SUBSET Prop, NEW v, NEW b, NEW x, NEW y, NEW S,
           Sound(v, b, x, q), Within(v, y, q, S), S \subseteq ps, y \ ps \subseteq x
    PROVE  LET r == q \o Clear(ps) IN
           Sound(v, b, x, r) /\ Within(v, y \ ps, r, {}) /\ EndsAs(b, r, NONE)
<1> DEFINE t == q \o Values(ps, FALSE)
<1>1. q \o Clear(ps) = t \o Descriptor(NONE)
  <2> DEFINE u == Values(ps, FALSE)
  <2>1. u \in Seq(Msg) /\ Descriptor(NONE) \in Seq(Msg) /\ Clear(ps) = u \o Descriptor(NONE)
    BY Published DEF Clear
  <2>2. t = q \o u
    OBVIOUS
  <2> HIDE DEF u, t
  <2> QED BY SMTT(30), <2>1, <2>2, ConcatAssociative
<1>2. t \in Seq(Msg) /\ Sound(v, b, x, t) /\ Within(v, y \ ps, t, S \ ps)
  BY AddValues
<1> HIDE DEF t
<1>3. Within(v, y \ ps, t, {}) /\ Within(v, x, t, {})
  BY <1>2 DEF Within
<1> QED BY <1>1, <1>2, <1>3, AddDescriptor

\* The values of a device that is described are shown, or not.
LEMMA AddShown ==
    ASSUME NEW q \in Seq(Msg), NEW dr \in Driver, NEW v, NEW b, NEW x, NEW y,
           Sound(v, b, x, q), Within(v, y, q, dr.shape), EndsAs(b, q, dr.shape)
    PROVE  LET r == q \o Shown(dr) IN
           Sound(v, b, x, r) /\ Within(v, y, r, dr.shape) /\ EndsAs(b, r, dr.shape)
<1>1. dr.shape \in SUBSET Prop /\ dr.shape # NONE
  BY PublisherAssumption DEF Driver
<1>2. CASE Available(dr)
  <2>1. Shown(dr) = Values(dr.shape, TRUE) /\ dr.shape \cup dr.shape = dr.shape
    BY <1>2 DEF Shown
  <2>2. Sound(v, b, x, q \o Values(dr.shape, TRUE)) /\ EndsAs(b, q \o Values(dr.shape, TRUE), dr.shape)
    BY <1>1, AddValues
  <2>3. Within(v, y, q \o Values(dr.shape, TRUE), dr.shape \cup dr.shape)
    BY <1>1, AddValues
  <2> QED BY <2>1, <2>2, <2>3
<1>3. CASE ~Available(dr)
  <2>1. q \o Shown(dr) = q
    BY <1>3 DEF Shown
  <2> QED BY <2>1
<1> QED BY <1>2, <1>3

\* A device is described.
LEMMA AddDescribe ==
    ASSUME NEW q \in Seq(Msg), NEW dr \in Driver, NEW v, NEW b, NEW x, NEW y,
           Sound(v, b, x, q), Within(v, y, q, dr.shape)
    PROVE  LET r == q \o Describe(dr) IN
           Sound(v, b, x, r) /\ Within(v, y, r, dr.shape) /\ EndsAs(b, r, dr.shape)
<1> DEFINE t == q \o Descriptor(dr.shape)
<1>1. dr.shape \in SUBSET Prop /\ dr.shape # NONE
  BY PublisherAssumption DEF Driver
<1>2. q \o Describe(dr) = t \o Shown(dr)
  BY SMTT(30), <1>1, Published, ConcatAssociative DEF Describe
<1>3. t \in Seq(Msg) /\ Sound(v, b, x, t) /\ Within(v, y, t, dr.shape) /\ EndsAs(b, t, dr.shape)
  BY <1>1, AddDescriptor
<1> HIDE DEF t
<1> QED BY <1>2, <1>3, AddShown

\* A driver takes over from another.
LEMMA AddAdopt ==
    ASSUME NEW q \in Seq(Msg), NEW dr \in Driver, NEW nw \in Driver, NEW v, NEW b, NEW x, NEW y,
           Sound(v, b, x, q), Within(v, y, q, dr.shape)
    PROVE  LET r == q \o Adopt(dr, nw) IN
           Sound(v, b, x, r) /\ Within(v, y, r, nw.shape) /\ EndsAs(b, r, nw.shape)
<1> DEFINE ps == (dr.shape \ nw.shape) \cup (dr.shape \cap Motion)
           t == q \o Values(ps, FALSE)
<1>1. ps \in SUBSET Prop /\ dr.shape \ ps \subseteq nw.shape
  BY DEF Driver
<1>2. q \o Adopt(dr, nw) = t \o Describe(nw)
  <2> DEFINE u == Values(ps, FALSE)
  <2>1. u \in Seq(Msg) /\ Describe(nw) \in Seq(Msg)
    BY <1>1, Published
  <2>2. Adopt(dr, nw) = u \o Describe(nw) /\ t = q \o u
    BY DEF Adopt
  <2> HIDE DEF u, t
  <2> QED BY SMTT(30), <2>1, <2>2, ConcatAssociative
<1>3. t \in Seq(Msg) /\ Sound(v, b, x, t) /\ Within(v, y \ ps, t, dr.shape \ ps)
  BY <1>1, AddValues
<1> HIDE DEF t, ps
<1>4. Within(v, y, t, nw.shape)
  BY <1>1, <1>3 DEF Within
<1> QED BY <1>2, <1>3, <1>4, AddDescribe

(***************************************************************************)
(* Messages delivered                                                      *)
(***************************************************************************)
\* A queue without its first message.
LEMMA TailIs ==
    ASSUME NEW S, NEW s \in Seq(S), s # <<>>
    PROVE  /\ Tail(s) \in Seq(S) /\ Len(Tail(s)) = Len(s) - 1 /\ Len(s) \in Nat \ {0}
           /\ Head(s) = s[1] /\ Head(s) \in S
           /\ \A i \in 1..Len(Tail(s)) : Tail(s)[i] = s[i + 1]
OBVIOUS

\* What is left when the first message is the broker's.
LEMMA TailBefore ==
    ASSUME NEW q \in Seq(Msg), q # <<>>, NEW n \in 0..Len(Tail(q)), NEW p
    PROVE  /\ (\A i \in 1..n : ~Off(Tail(q), i, p)) <=> \A i \in 2..(n + 1) : ~Off(q, i, p)
           /\ New(Tail(q), n, p) => New(q, n + 1, p)
           /\ (\A i \in 1..n : ~Says(Tail(q), i)) <=> \A i \in 2..(n + 1) : ~Says(q, i)
           /\ n + 1 \in 1..Len(q)
<1> DEFINE r == Tail(q)
<1>1. \A i \in 1..n : r[i] = q[i + 1]
  BY TailIs
<1>2. /\ \A i \in 1..n : i + 1 \in 2..(n + 1) /\ i + 1 \in 1..(n + 1)
      /\ \A i \in 2..(n + 1) : i - 1 \in 1..n /\ (i - 1) + 1 = i
      /\ \A i \in 1..n : \A j \in (i + 1 + 1)..(n + 1) : j - 1 \in (i + 1)..n /\ j - 1 \in 1..n /\ (j - 1) + 1 = j
      /\ n + 1 \in 1..Len(q)
  BY TailIs
<1> HIDE DEF r
<1>3. \A i \in 1..n : /\ On(r, i, p) <=> On(q, i + 1, p)
                      /\ Off(r, i, p) <=> Off(q, i + 1, p)
                      /\ Says(r, i) <=> Says(q, i + 1)
  BY <1>1 DEF On, Off, Says
<1>4. (\A i \in 1..n : ~Off(r, i, p)) <=> \A i \in 2..(n + 1) : ~Off(q, i, p)
  BY <1>2, <1>3
<1>5. (\A i \in 1..n : ~Says(r, i)) <=> \A i \in 2..(n + 1) : ~Says(q, i)
  BY <1>2, <1>3
<1>6. New(r, n, p) => New(q, n + 1, p)
  <2> SUFFICES ASSUME NEW i \in 1..n, On(r, i, p), \A j \in (i + 1)..n : ~Off(r, j, p) PROVE New(q, n + 1, p)
    BY DEF New
  <2>1. On(q, i + 1, p) /\ i + 1 \in 1..(n + 1)
    BY <1>2, <1>3
  <2>2. \A j \in (i + 1 + 1)..(n + 1) : ~Off(q, j, p)
    <3> SUFFICES ASSUME NEW j \in (i + 1 + 1)..(n + 1) PROVE ~Off(q, j, p)
      OBVIOUS
    <3>1. j - 1 \in (i + 1)..n /\ j - 1 \in 1..n /\ (j - 1) + 1 = j
      BY <1>2
    <3> QED BY <1>3, <3>1
  <2> QED BY <2>1, <2>2 DEF New
<1> QED BY <1>2, <1>4, <1>5, <1>6 DEF r

\* The first message tells the descriptor, or does not.
LEMMA TailDescr ==
    ASSUME NEW q \in Seq(Msg), q # <<>>, NEW n \in 0..Len(Tail(q)), NEW b, NEW s,
           NEW c, c = IF Says(q, 1) THEN q[1].shape ELSE b
    PROVE  Descr(c, Tail(q), n, s) <=> Descr(b, q, n + 1, s)
<1> DEFINE r == Tail(q)
<1>1. Len(r) \in Nat /\ \A i \in 1..Len(r) : r[i] = q[i + 1]
  BY TailIs
<1>2. /\ \A i \in 1..n : i + 1 \in 1..(n + 1) /\ i \in 1..Len(r)
      /\ \A i \in 1..(n + 1) : i = 1 \/ (i - 1 \in 1..n /\ (i - 1) + 1 = i)
      /\ \A i \in 1..n : \A j \in (i + 1 + 1)..(n + 1) : j - 1 \in (i + 1)..n /\ j - 1 \in 1..n /\ (j - 1) + 1 = j
      /\ \A i \in 1..n : \A j \in (i + 1)..n : j + 1 \in (i + 1 + 1)..(n + 1) /\ j \in 1..n
      /\ \A j \in (1 + 1)..(n + 1) : j - 1 \in 1..n /\ (j - 1) + 1 = j
      /\ \A j \in 1..n : j + 1 \in (1 + 1)..(n + 1)
      /\ 1 \in 1..(n + 1)
  BY <1>1
<1>3. \A i \in 1..n : (Says(r, i) <=> Says(q, i + 1)) /\ r[i].shape = q[i + 1].shape
  BY <1>1, <1>2 DEF Says
<1> HIDE DEF r
<1>4. ASSUME Descr(c, r, n, s) PROVE Descr(b, q, n + 1, s)
  <2>1. CASE c = s /\ \A i \in 1..n : ~Says(r, i)
    <3>1. \A j \in (1 + 1)..(n + 1) : ~Says(q, j)
      <4> SUFFICES ASSUME NEW j \in (1 + 1)..(n + 1) PROVE ~Says(q, j)
        OBVIOUS
      <4>1. j - 1 \in 1..n /\ (j - 1) + 1 = j
        BY <1>2
      <4> QED BY <1>3, <2>1, <4>1
    <3>2. CASE Says(q, 1)
      BY <1>2, <2>1, <3>1, <3>2 DEF Descr
    <3>3. CASE ~Says(q, 1)
      <4>1. \A i \in 1..(n + 1) : i = 1 \/ i \in (1 + 1)..(n + 1)
        BY <1>1
      <4>2. \A i \in 1..(n + 1) : ~Says(q, i)
        BY <3>1, <3>3, <4>1
      <4> QED BY <2>1, <3>3, <4>2 DEF Descr
    <3> QED BY <3>2, <3>3
  <2>2. ASSUME NEW i \in 1..n, Says(r, i), r[i].shape = s, \A j \in (i + 1)..n : ~Says(r, j)
        PROVE  Descr(b, q, n + 1, s)
    <3>1. \A j \in (i + 1 + 1)..(n + 1) : ~Says(q, j)
      <4> SUFFICES ASSUME NEW j \in (i + 1 + 1)..(n + 1) PROVE ~Says(q, j)
        OBVIOUS
      <4>1. j - 1 \in (i + 1)..n /\ j - 1 \in 1..n /\ (j - 1) + 1 = j
        BY <1>2
      <4> QED BY <1>3, <2>2, <4>1
    <3> QED BY <1>2, <1>3, <2>2, <3>1 DEF Descr
  <2> QED BY <1>4, <2>1, <2>2 DEF Descr
<1>5. ASSUME Descr(b, q, n + 1, s) PROVE Descr(c, r, n, s)
  <2>1. CASE b = s /\ \A i \in 1..(n + 1) : ~Says(q, i)
    <3>1. ~Says(q, 1) /\ \A i \in 1..n : ~Says(r, i)
      BY <1>2, <1>3, <2>1
    <3> QED BY <2>1, <3>1 DEF Descr
  <2>2. ASSUME NEW i \in 1..(n + 1), Says(q, i), q[i].shape = s, \A j \in (i + 1)..(n + 1) : ~Says(q, j)
        PROVE  Descr(c, r, n, s)
    <3>1. CASE i = 1
      <4>1. \A j \in 1..n : ~Says(r, j)
        BY <1>2, <1>3, <2>2, <3>1
      <4> QED BY <2>2, <3>1, <4>1 DEF Descr
    <3>2. CASE i # 1
      <4> DEFINE k == i - 1
      <4>1. k \in 1..n /\ k + 1 = i
        BY <1>2, <3>2
      <4>2. \A j \in (k + 1)..n : ~Says(r, j)
        BY <1>2, <1>3, <2>2, <4>1
      <4> HIDE DEF k
      <4> QED BY <1>3, <2>2, <4>1, <4>2 DEF Descr
    <3> QED BY <3>1, <3>2
  <2> QED BY <1>5, <2>1, <2>2 DEF Descr
<1> QED BY <1>4, <1>5 DEF r

\* The descriptor that was first is the broker's.
LEMMA DropDescriptor ==
    ASSUME NEW q \in Seq(Msg), q # <<>>, Head(q).kind = "descriptor", NEW v, NEW b, NEW x
    PROVE  LET r == Tail(q)  c == Head(q).shape IN
           /\ Sound(v, b, x, q) => Sound(v, c, x, r)
           /\ \A y, S : Within(v, y, q, S) => Within(v, y, r, S)
           /\ \A s : EndsAs(b, q, s) => EndsAs(c, r, s)
           /\ Says(q, 1) /\ 1 \in 1..Len(q)
<1> DEFINE r == Tail(q)
           c == Head(q).shape
<1>1. /\ r \in Seq(Msg) /\ Len(r) = Len(q) - 1 /\ Len(r) \in Nat /\ q[1] = Head(q) /\ 1 \in 1..Len(q)
      /\ Says(q, 1) /\ q[1].shape = c /\ \A p : ~Off(q, 1, p) /\ ~On(q, 1, p)
  BY TailIs DEF Says, Off, On
<1>2. ASSUME NEW n \in 0..Len(r), NEW p
      PROVE  /\ n + 1 \in 0..Len(q)
             /\ Old(v, r, n, p) => Old(v, q, n + 1, p)
             /\ New(r, n, p) => New(q, n + 1, p)
  <2>1. /\ (\A i \in 1..n : ~Off(r, i, p)) <=> \A i \in 2..(n + 1) : ~Off(q, i, p)
        /\ New(r, n, p) => New(q, n + 1, p)
    BY TailBefore
  <2>2. n + 1 \in 0..Len(q) /\ \A i \in 1..(n + 1) : i = 1 \/ i \in 2..(n + 1)
    BY <1>1
  <2> HIDE DEF r
  <2> QED BY <1>1, <2>1, <2>2 DEF Old
<1>3. ASSUME NEW n \in 0..Len(r), NEW s PROVE Descr(c, r, n, s) <=> Descr(b, q, n + 1, s)
  BY <1>1, TailDescr
<1>4. Len(r) + 1 = Len(q) /\ Len(r) \in 0..Len(r)
  BY <1>1
<1> HIDE DEF r, c
<1>6. Sound(v, b, x, q) => Sound(v, c, x, r)
  BY <1>2, <1>3 DEF Sound
<1>7. \A y, S : Within(v, y, q, S) => Within(v, y, r, S)
  BY <1>2, <1>4 DEF Within
<1>8. \A s : EndsAs(b, q, s) => EndsAs(c, r, s)
  BY <1>3, <1>4 DEF EndsAs
<1> QED BY <1>1, <1>6, <1>7, <1>8 DEF r, c

\* A queue with another first message.
LEMMA HeadIs ==
    ASSUME NEW S, NEW q \in Seq(S), q # <<>>, NEW m \in S
    PROVE  /\ <<m>> \o Tail(q) \in Seq(S) /\ Len(<<m>> \o Tail(q)) = Len(q) /\ Len(q) \in Nat \ {0}
           /\ (<<m>> \o Tail(q))[1] = m
           /\ \A i \in 2..Len(q) : (<<m>> \o Tail(q))[i] = q[i]
           /\ q[1] = Head(q)
OBVIOUS

\* The last value of the message that was first is the broker's ...
LEMMA DropLast ==
    ASSUME NEW q \in Seq(Msg), q # <<>>, Head(q).kind = "values", NEW e, Head(q).props = {e},
           NEW v, NEW b, NEW x, NEW w, w = IF Head(q).on THEN v \cup {e} ELSE v \ {e}
    PROVE  LET r == Tail(q) IN
           /\ Sound(v, b, x, q) => Sound(w, b, x \ {e}, r)
           /\ \A y, S : Within(v, y, q, S) => Within(w, y \ {e}, r, S)
           /\ \A s : EndsAs(b, q, s) => EndsAs(b, r, s)
           /\ (\A i \in 1..Len(q) : ~Says(q, i)) => \A i \in 1..Len(r) : ~Says(r, i)
<1> DEFINE m == Head(q)
           r == Tail(q)
<1>1. r \in Seq(Msg) /\ Len(r) \in Nat /\ Len(r) + 1 = Len(q) /\ q[1] = m /\ Len(r) \in 0..Len(r)
  BY TailIs
<1>2. /\ ~Says(q, 1) /\ (\A p : On(q, 1, p) <=> m.on /\ p = e)
      /\ \A p : Off(q, 1, p) <=> ~m.on /\ p = e
  BY <1>1 DEF Says, On, Off
<1>3. ASSUME NEW n \in 0..Len(r), NEW p
      PROVE  /\ n + 1 \in 0..Len(q)
             /\ Old(w, r, n, p) => IF p = e THEN New(q, n + 1, p) ELSE Old(v, q, n + 1, p)
             /\ New(r, n, p) => New(q, n + 1, p)
  <2>1. /\ (\A i \in 1..n : ~Off(r, i, p)) <=> \A i \in 2..(n + 1) : ~Off(q, i, p)
        /\ New(r, n, p) => New(q, n + 1, p)
    BY TailBefore
  <2>2. /\ n + 1 \in 0..Len(q) /\ \A i \in 1..(n + 1) : i = 1 \/ i \in 2..(n + 1)
        /\ 1 \in 1..(n + 1) /\ (1 + 1)..(n + 1) = 2..(n + 1)
    BY <1>1
  <2> HIDE DEF r, m
  <2>3. ASSUME Old(w, r, n, p), p = e PROVE New(q, n + 1, p)
    <3>1. m.on /\ \A i \in 2..(n + 1) : ~Off(q, i, p)
      BY <2>1, <2>3 DEF Old, m
    <3> QED BY <1>2, <2>2, <2>3, <3>1 DEF New
  <2>4. ASSUME Old(w, r, n, p), p # e PROVE Old(v, q, n + 1, p)
    BY <1>2, <2>1, <2>2, <2>4 DEF Old
  <2> QED BY <2>1, <2>2, <2>3, <2>4
<1>4. ASSUME NEW n \in 0..Len(r), NEW s PROVE Descr(b, r, n, s) <=> Descr(b, q, n + 1, s)
  BY <1>2, TailDescr
<1>5. (\A i \in 1..Len(q) : ~Says(q, i)) => \A i \in 1..Len(r) : ~Says(r, i)
  <2>1. \A i \in 1..Len(r) : r[i] = q[i + 1] /\ i + 1 \in 1..Len(q)
    BY TailIs
  <2> QED BY <2>1 DEF Says
<1> HIDE DEF r, m
<1>6. Sound(v, b, x, q) => Sound(w, b, x \ {e}, r)
  BY <1>3, <1>4 DEF Sound
<1>7. \A y, S : Within(v, y, q, S) => Within(w, y \ {e}, r, S)
  BY <1>1, <1>3 DEF Within
<1>8. \A s : EndsAs(b, q, s) => EndsAs(b, r, s)
  BY <1>1, <1>4 DEF EndsAs
<1> QED BY <1>5, <1>6, <1>7, <1>8 DEF r

\* ... or one of several.
LEMMA DropOne ==
    ASSUME NEW q \in Seq(Msg), q # <<>>, Head(q).kind = "values", NEW e \in Head(q).props,
           NEW v, NEW b, NEW x, NEW w, w = IF Head(q).on THEN v \cup {e} ELSE v \ {e},
           NEW m \in Msg, m = [kind |-> "values", props |-> Head(q).props \ {e}, on |-> Head(q).on]
    PROVE  LET r == <<m>> \o Tail(q) IN
           /\ Sound(v, b, x, q) => Sound(w, b, x \ {e}, r)
           /\ \A y, S : Within(v, y, q, S) => Within(w, y \ {e}, r, S)
           /\ \A s : EndsAs(b, q, s) => EndsAs(b, r, s)
           /\ (\A i \in 1..Len(q) : ~Says(q, i)) => \A i \in 1..Len(r) : ~Says(r, i)
<1> DEFINE h == Head(q)
           r == <<m>> \o Tail(q)
<1>1. /\ r \in Seq(Msg) /\ Len(r) = Len(q) /\ Len(q) \in Nat \ {0} /\ q[1] = h /\ r[1] = m
      /\ \A i \in 2..Len(q) : r[i] = q[i]
  BY HeadIs
<1>2. /\ ~Says(q, 1) /\ (\A p : On(q, 1, p) <=> h.on /\ p \in h.props)
      /\ (\A p : Off(q, 1, p) <=> ~h.on /\ p \in h.props)
      /\ ~Says(r, 1) /\ (\A p : On(r, 1, p) <=> h.on /\ p \in h.props \ {e})
      /\ \A p : Off(r, 1, p) <=> ~h.on /\ p \in h.props \ {e}
  BY <1>1 DEF Says, On, Off
<1>3. \A i \in 2..Len(q) : \A p : /\ On(r, i, p) <=> On(q, i, p)
                                  /\ Off(r, i, p) <=> Off(q, i, p)
                                  /\ Says(r, i) <=> Says(q, i)
  BY <1>1 DEF Says, On, Off
<1>e. e \in h.props
  OBVIOUS
<1> HIDE DEF r
<1>4. ASSUME NEW n \in 1..Len(q), NEW p
      PROVE  /\ Old(w, r, n, p) => IF p = e THEN New(q, n, p) ELSE Old(v, q, n, p)
             /\ New(r, n, p) => New(q, n, p)
  <2>1. /\ \A i \in 1..n : i = 1 \/ i \in 2..Len(q)
        /\ 1 \in 1..n /\ \A i \in 1..n : \A j \in (i + 1)..n : j \in 2..Len(q) /\ j \in 1..n
        /\ (1 + 1)..n \subseteq 1..n
    BY <1>1
  <2> HIDE DEF h
  <2>2. ASSUME Old(w, r, n, p), p = e PROVE New(q, n, p)
    <3>1. h.on /\ \A j \in (1 + 1)..n : ~Off(q, j, p)
      BY <1>3, <2>1, <2>2 DEF Old, h
    <3> QED BY <1>2, <1>e, <2>1, <2>2, <3>1 DEF New
  <2>3. ASSUME Old(w, r, n, p), p # e PROVE Old(v, q, n, p)
    BY <1>2, <1>3, <2>1, <2>3 DEF Old
  <2>4. ASSUME New(r, n, p) PROVE New(q, n, p)
    <3>1. PICK i \in 1..n : On(r, i, p) /\ \A j \in (i + 1)..n : ~Off(r, j, p)
      BY <2>4 DEF New
    <3>2. On(q, i, p)
      BY <1>2, <1>3, <2>1, <3>1
    <3>3. \A j \in (i + 1)..n : ~Off(q, j, p)
      BY <1>3, <2>1, <3>1
    <3> QED BY <3>2, <3>3 DEF New
  <2> QED BY <2>2, <2>3, <2>4
<1>5. ASSUME NEW n \in 0..Len(q), NEW s PROVE Descr(b, r, n, s) <=> Descr(b, q, n, s)
  <2>1. \A i \in 1..n : (Says(r, i) <=> Says(q, i)) /\ (Says(q, i) => r[i].shape = q[i].shape)
    <3>1. \A i \in 1..n : i = 1 \/ i \in 2..Len(q)
      BY <1>1
    <3> QED BY <1>1, <1>2, <1>3, <3>1
  <2>2. \A i \in 1..n : \A j \in (i + 1)..n : j \in 1..n
    OBVIOUS
  <2> QED BY <2>1, <2>2 DEF Descr
<1>6. 0..Len(q) = {0} \cup 1..Len(q) /\ Len(q) \in 1..Len(q) /\ 1 \in 1..Len(q) /\ 0 \in 0..Len(q)
  BY <1>1
<1>7. ASSUME Sound(v, b, x, q) PROVE Sound(w, b, x \ {e}, r)
  <2>1. ASSUME NEW n \in 1..Len(q), NEW p \in Prop, (Old(w, r, n, p) /\ p \notin x \ {e}) \/ New(r, n, p)
        PROVE  ~Descr(b, r, n, NONE)
    BY <1>4, <1>5, <1>6, <1>7, <2>1 DEF Sound
  <2>2. ASSUME NEW p \in Prop, (Old(w, r, 0, p) /\ p \notin x \ {e}) \/ New(r, 0, p)
        PROVE  ~Descr(b, r, 0, NONE)
    <3>1. p \in w /\ p \notin x \ {e}
      BY <2>2 DEF Old, New
    <3>2. Descr(b, q, 0, NONE) <=> b = NONE
      BY DEF Descr
    <3>3. CASE p # e
      <4>1. p \in v /\ p \notin x
        BY <3>1, <3>3
      <4>2. Old(v, q, 0, p)
        BY <4>1 DEF Old
      <4> QED BY <1>5, <1>6, <1>7, <4>1, <4>2 DEF Sound
    <3>4. CASE p = e
      <4>1. h.on
        BY <3>1, <3>4
      <4>2. New(q, 1, p)
        BY <1>2, <1>e, <3>4, <4>1 DEF New
      <4>3. ~Descr(b, q, 1, NONE)
        BY <1>6, <1>7, <4>2 DEF Sound
      <4>4. b # NONE
        BY <1>2, <4>3 DEF Descr
      <4> QED BY <1>5, <1>6, <3>2, <4>4
    <3> QED BY <3>3, <3>4
  <2> QED BY <1>1, <1>6, <2>1, <2>2 DEF Sound
<1>8. \A y, S : Within(v, y, q, S) => Within(w, y \ {e}, r, S)
  BY <1>1, <1>4, <1>6 DEF Within
<1>9. \A s : EndsAs(b, q, s) => EndsAs(b, r, s)
  BY <1>1, <1>5, <1>6 DEF EndsAs
<1>10. (\A i \in 1..Len(q) : ~Says(q, i)) => \A i \in 1..Len(r) : ~Says(r, i)
  BY <1>1, <1>2, <1>3
<1> QED BY <1>7, <1>8, <1>9, <1>10 DEF r

(***************************************************************************)
(* Functions over some of the devices                                      *)
(***************************************************************************)
\* A partial function is what it maps.
LEMMA Partials ==
    ASSUME NEW S, NEW T, NEW f
    PROVE  f \in Partial(S, T) <=> /\ f = [x \in DOMAIN f |-> f[x]] /\ DOMAIN f \subseteq S
                                   /\ \A x \in DOMAIN f : f[x] \in T
<1>1. ASSUME f \in Partial(S, T)
      PROVE  f = [x \in DOMAIN f |-> f[x]] /\ DOMAIN f \subseteq S /\ \A x \in DOMAIN f : f[x] \in T
  <2>1. PICK D \in SUBSET S : f \in [D -> T]
    BY <1>1 DEF Partial
  <2> QED BY <2>1
<1>2. ASSUME f = [x \in DOMAIN f |-> f[x]], DOMAIN f \subseteq S, \A x \in DOMAIN f : f[x] \in T
      PROVE  f \in Partial(S, T)
  <2>1. f \in [DOMAIN f -> T]
    BY <1>2
  <2> QED BY <1>2, <2>1 DEF Partial
<1> QED BY <1>1, <1>2

\* Nothing is driven, known or recorded of a device that is not there.
LEMMA Nothing ==
    /\ DOMAIN NoFun = {}
    /\ \A S, T : NoFun \in Partial(S, T)
    /\ \A f : DOMAIN f = {} /\ f = [x \in DOMAIN f |-> f[x]] => f = NoFun
<1>1. DOMAIN NoFun = {} /\ NoFun = [x \in DOMAIN NoFun |-> NoFun[x]]
  BY DEF NoFun
<1>2. \A S, T : NoFun \in Partial(S, T)
  BY <1>1, Partials
<1>3. \A f : DOMAIN f = {} /\ f = [x \in DOMAIN f |-> f[x]] => f = NoFun
  BY DEF NoFun
<1> QED BY <1>1, <1>2, <1>3

(***************************************************************************)
(* Drivers                                                                 *)
(***************************************************************************)
\* What is known of a device makes a driver.
LEMMA Drivers ==
    /\ \A ps \in SUBSET Prop, k \in Known : Seeded(ps, k) \in Driver /\ Seeded(ps, k).shape = ps
    /\ \A dr \in Driver : Carried(dr) \in Known /\ Unseeded(dr) \in Known
    /\ \A d \in Device : Unheard[d] \in Known /\ Unheard[d] = [link |-> "none", state |-> FALSE]
BY DEF Seeded, Carried, Unseeded, Driver, Known, Unheard

\* What the rules make of a record.
LEMMA Shapes ==
    ASSUME NEW r \in Record, NEW o \in Overrides
    PROVE  Shape[<<r, o>>] # REFUSED => Shape[<<r, o>>] \in SUBSET Prop
BY PublisherAssumption

\* Queues that get more.
LEMMA Queued ==
    ASSUME TypeOK, NEW more, Queue(more),
           \A d \in Device : d \in DOMAIN more => more[d] \in Seq(Msg)
    PROVE  /\ out' \in [Device -> Seq(Msg)]
           /\ \A d \in Device : out'[d] = IF d \in DOMAIN more THEN out[d] \o more[d] ELSE out[d]
<1>1. \A d \in Device : out'[d] = IF d \in DOMAIN more THEN out[d] \o more[d] ELSE out[d]
  BY DEF Queue
<1>2. \A d \in Device : (IF d \in DOMAIN more THEN out[d] \o more[d] ELSE out[d]) \in Seq(Msg)
  BY ConcatProperties DEF TypeOK
<1> QED BY <1>1, <1>2 DEF Queue

\* What a budget bounds is counted.
LEMMA Spent ==
    ASSUME TypeOK, NEW kind \in Kind, Spend(kind)
    PROVE  spent' \in [Kind -> Nat]
BY DEF TypeOK, Spend

(***************************************************************************)
(* sync_devices                                                            *)
(***************************************************************************)
\* The names of `SyncDevices`.
Gone(want) == DOMAIN devices \ DOMAIN want
Todo(want) == {d \in DOMAIN want : d \notin DOMAIN devices \/ devices[d] # want[d]}
Making(want) == {d \in Todo(want) : Shape[<<want[d], overrides>>] # REFUSED}
Newly(want) == [d \in Making(want) |-> Seeded(Shape[<<want[d], overrides>>], Seed(d))]
Former(want) == DOMAIN previous \ DOMAIN want
Said(want, d) ==
    IF d \in Gone(want) THEN Clear(drivers[d].shape)
    ELSE IF d \in DOMAIN drivers THEN Adopt(drivers[d], Newly(want)[d])
    ELSE Describe(Newly(want)[d])

\* The drivers a sync makes, and where.
LEMMA SyncMakes ==
    ASSUME TypeOK, NEW want \in Partial(Own, Record)
    PROVE  /\ DOMAIN Newly(want) = Making(want) /\ Making(want) \subseteq Todo(want)
           /\ Todo(want) \subseteq DOMAIN want /\ DOMAIN want \subseteq Own /\ Own \subseteq Device
           /\ Gone(want) \cap DOMAIN want = {} /\ Gone(want) \subseteq DOMAIN devices
           /\ DOMAIN devices \subseteq Own /\ DOMAIN drivers = DOMAIN devices
           /\ \A d \in DOMAIN want : want[d] \in Record
           /\ \A d \in DOMAIN devices : devices[d] \in Record /\ drivers[d] \in Driver
           /\ \A d \in Making(want) : /\ Newly(want)[d] \in Driver
                                      /\ Newly(want)[d].shape = Shape[<<want[d], overrides>>]
                                      /\ Shape[<<want[d], overrides>>] # REFUSED
<1>1. /\ DOMAIN want \subseteq Own /\ \A d \in DOMAIN want : want[d] \in Record
      /\ DOMAIN devices \subseteq Own /\ \A d \in DOMAIN devices : devices[d] \in Record
      /\ DOMAIN drivers = DOMAIN devices /\ \A d \in DOMAIN drivers : drivers[d] \in Driver
      /\ overrides \in Overrides /\ Own \subseteq Device
  BY Partials DEF TypeOK, Own
<1>2. /\ DOMAIN Newly(want) = Making(want) /\ Making(want) \subseteq Todo(want) /\ Todo(want) \subseteq DOMAIN want
      /\ Gone(want) \cap DOMAIN want = {} /\ Gone(want) \subseteq DOMAIN devices
  BY DEF Newly, Making, Todo, Gone
<1>3. ASSUME NEW d \in Making(want)
      PROVE  /\ Newly(want)[d] \in Driver /\ Newly(want)[d].shape = Shape[<<want[d], overrides>>]
             /\ Shape[<<want[d], overrides>>] # REFUSED
  <2>1. d \in DOMAIN want /\ want[d] \in Record /\ d \in Own /\ d \in Device
    BY <1>1, <1>2
  <2>2. Shape[<<want[d], overrides>>] # REFUSED /\ Shape[<<want[d], overrides>>] \in SUBSET Prop
    BY <1>1, <2>1, Shapes DEF Making
  <2>3. Seed(d) \in Known
    BY <1>1, <2>1, Drivers DEF Seed, TypeOK
  <2>4. Newly(want)[d] = Seeded(Shape[<<want[d], overrides>>], Seed(d))
    BY DEF Newly
  <2> QED BY <2>2, <2>3, <2>4, Drivers
<1> QED BY <1>1, <1>2, <1>3

\* What a sync changes, device by device.
Synced(want, armed) ==
    /\ DOMAIN devices' = Making(want) \cup (DOMAIN devices \ Gone(want))
    /\ \A d \in DOMAIN devices' : devices'[d] = IF d \in Making(want) THEN want[d] ELSE devices[d]
    /\ DOMAIN drivers' = DOMAIN devices'
    /\ \A d \in DOMAIN drivers' : drivers'[d] = IF d \in Making(want) THEN Newly(want)[d] ELSE drivers[d]
    /\ DOMAIN failed' = Todo(want) \ Making(want) /\ \A d \in DOMAIN failed' : failed'[d] = want[d]
    /\ out' \in [Device -> Seq(Msg)]
    /\ \A d \in Device : out'[d] = IF d \in Gone(want) \cup Making(want) THEN out[d] \o Said(want, d)
                                   ELSE IF d \in Former(want) THEN out[d] \o Clear(previous[d]) ELSE out[d]
    /\ wanted' = want /\ overrides' = overrides /\ previous' = NoFun /\ phase = "running" /\ phase' = phase
    /\ timers' = (timers \ (Gone(want) \cup Making(want))) \cup (armed \cap Making(want))
    /\ devices' \in Partial(Own, Record) /\ drivers' \in Partial(Own, Driver)
    /\ failed' \in Partial(Own, Record)
    /\ \A d \in Device : stale'[d] = IF d \in Making(want) \ DOMAIN drivers
                                     THEN stale[d] \cup (left[d] \ Newly(want)[d].shape) ELSE stale[d]
    /\ stale' \in [Device -> SUBSET Prop]
    /\ left' = [d \in Device |-> IF d \in Former(want) THEN {} ELSE left[d]]
    /\ kept' = (kept \ Former(want)) \ (Gone(want) \cup Making(want))
    /\ UNCHANGED <<saves, brokerVars, purged>>

\* It changes nothing else.
LEMMA SyncView ==
    ASSUME TypeOK, NEW want \in Partial(Own, Record), NEW forgotten, NEW armed \in {{}, Own},
           SyncDevices(want, forgotten, armed)
    PROVE  Synced(want, armed)
<1> DEFINE G == Gone(want)
           M == Making(want)
           N == Newly(want)
           said == [d \in G \cup M |-> Said(want, d)]
<1>1. /\ Queue(Merge(said, Tombstones(want)))
      /\ devices' = Merge(Restrict(want, M), Restrict(devices, DOMAIN devices \ G))
      /\ drivers' = Merge(N, Restrict(drivers, DOMAIN devices \ G))
      /\ failed' = Restrict(want, Todo(want) \ M)
      /\ timers' = (timers \ (G \cup M)) \cup (armed \cap M)
      /\ kept' = (kept \ Former(want)) \ (G \cup M)
      /\ left' = [d \in Device |-> IF d \in Former(want) THEN {} ELSE left[d]]
      /\ Overlook(N)
  BY DEF SyncDevices, Gone, Todo, Making, Newly, Former, Said
<1>2. /\ wanted' = want /\ overrides' = overrides /\ previous' = NoFun /\ phase = "running" /\ phase' = phase
      /\ UNCHANGED <<saves, brokerVars, purged>>
  BY DEF SyncDevices
<1>3. /\ DOMAIN devices' = M \cup (DOMAIN devices \ G)
      /\ \A d \in DOMAIN devices' : devices'[d] = IF d \in M THEN want[d] ELSE devices[d]
      /\ devices' = [d \in DOMAIN devices' |-> devices'[d]]
  BY <1>1 DEF Merge, Restrict
<1>4. /\ DOMAIN drivers' = DOMAIN devices'
      /\ \A d \in DOMAIN drivers' : drivers'[d] = IF d \in M THEN N[d] ELSE drivers[d]
      /\ drivers' = [d \in DOMAIN drivers' |-> drivers'[d]]
  BY <1>1, <1>3, SyncMakes DEF Merge, Restrict
<1>5. /\ DOMAIN failed' = Todo(want) \ M /\ \A d \in DOMAIN failed' : failed'[d] = want[d]
      /\ failed' = [d \in DOMAIN failed' |-> failed'[d]]
  BY <1>1 DEF Restrict
<1>6. /\ devices' \in Partial(Own, Record) /\ drivers' \in Partial(Own, Driver)
      /\ failed' \in Partial(Own, Record)
  <2>1. DOMAIN devices' \subseteq Own /\ \A d \in DOMAIN devices' : devices'[d] \in Record
    BY <1>3, SyncMakes
  <2>2. \A d \in DOMAIN drivers' : drivers'[d] \in Driver
    BY <1>3, <1>4, SyncMakes
  <2>3. DOMAIN failed' \subseteq Own /\ \A d \in DOMAIN failed' : failed'[d] \in Record
    BY <1>5, SyncMakes
  <2> QED BY <1>3, <1>4, <1>5, <2>1, <2>2, <2>3, Partials
<1>7. /\ out' \in [Device -> Seq(Msg)]
      /\ \A d \in Device : out'[d] = IF d \in G \cup M THEN out[d] \o Said(want, d)
                                     ELSE IF d \in Former(want) THEN out[d] \o Clear(previous[d]) ELSE out[d]
  <2> DEFINE more == Merge(said, Tombstones(want))
  <2>1. DOMAIN said = G \cup M /\ \A d \in G \cup M : said[d] = Said(want, d)
    OBVIOUS
  <2>2. DOMAIN Tombstones(want) = Former(want) /\ \A d \in Former(want) : Tombstones(want)[d] = Clear(previous[d])
    BY DEF Tombstones, Former
  <2> HIDE DEF said
  <2>3. /\ DOMAIN more = (G \cup M) \cup Former(want)
        /\ \A d \in DOMAIN more : more[d] = IF d \in G \cup M THEN Said(want, d) ELSE Clear(previous[d])
    BY <2>1, <2>2 DEF Merge
  <2>4. \A d \in G \cup M : Said(want, d) \in Seq(Msg)
    <3>1. ASSUME NEW d \in G PROVE Clear(drivers[d].shape) \in Seq(Msg)
      BY SyncMakes, Published DEF Driver
    <3>2. ASSUME NEW d \in M, d \in DOMAIN drivers PROVE Adopt(drivers[d], N[d]) \in Seq(Msg)
      BY <3>2, SyncMakes, Published
    <3>3. ASSUME NEW d \in M PROVE Describe(N[d]) \in Seq(Msg)
      BY SyncMakes, Published
    <3> QED BY <3>1, <3>2, <3>3 DEF Said
  <2>5. \A d \in Former(want) : Clear(previous[d]) \in Seq(Msg)
    <3>1. \A d \in DOMAIN previous : previous[d] \in SUBSET Prop
      BY Partials DEF TypeOK
    <3> QED BY <3>1, Published DEF Former
  <2>6. Queue(more)
    BY <1>1
  <2> HIDE DEF more
  <2>7. \A d \in Device : d \in DOMAIN more => more[d] \in Seq(Msg)
    BY <2>3, <2>4, <2>5
  <2>8. /\ out' \in [Device -> Seq(Msg)]
        /\ \A d \in Device : out'[d] = IF d \in DOMAIN more THEN out[d] \o more[d] ELSE out[d]
    BY <2>6, <2>7, Queued
  <2> QED BY <2>3, <2>8
<1>8. /\ \A d \in Device : stale'[d] = IF d \in M \ DOMAIN drivers
                                       THEN stale[d] \cup (left[d] \ N[d].shape) ELSE stale[d]
      /\ stale' \in [Device -> SUBSET Prop]
  <2>1. \A d \in Device : left[d] \in SUBSET Prop /\ stale[d] \in SUBSET Prop
    BY DEF TypeOK
  <2> QED BY <1>1, <2>1, SyncMakes DEF Overlook
<1> QED BY <1>1, <1>2, <1>3, <1>4, <1>5, <1>6, <1>7, <1>8 DEF Synced

\* A sync keeps the Hub as it should be.
LEMMA SyncHub ==
    ASSUME HubInv, NEW want \in Partial(Own, Record), NEW forgotten \in SUBSET Own, NEW armed \in {{}, Own},
           SyncDevices(want, forgotten, armed)
    PROVE  HubInv'
<1>0. TypeOK /\ TimersAreDriven /\ Idle /\ Made /\ Followed /\ Synced(want, armed)
  BY SyncView DEF HubInv
<1>1. TypeOK'
  <2>1. heard' \in [Device -> Known] /\ gets' \in SUBSET Device
    <3>1. heard' = [d \in Device |-> IF d \in forgotten THEN Unheard[d] ELSE heard[d]]
      BY DEF SyncDevices
    <3>2. heard' \in [Device -> Known]
      BY <1>0, <3>1, Drivers DEF TypeOK
    <3>3. gets' = gets \cup {d \in Making(want) : Newly(want)[d].link = "up" /\ ~Newly(want)[d].synced}
      BY DEF SyncDevices, Todo, Making, Newly
    <3> QED BY <1>0, <3>2, <3>3, SyncMakes DEF TypeOK
  <2>2. spent' \in [Kind -> Nat]
    BY <1>0, Spent DEF SyncDevices, Kind
  <2>3. timers' \in SUBSET Device /\ kept' \in SUBSET Device
    BY <1>0, SyncMakes DEF TypeOK, Synced
  <2>4. left' \in [Device -> SUBSET Prop]
    BY <1>0 DEF TypeOK, Synced
  <2> QED BY <2>1, <2>2, <2>3, <2>4, <1>0, Nothing DEF TypeOK, brokerVars, Synced
<1>2. TimersAreDriven'
  BY <1>0, SyncMakes DEF TimersAreDriven, Synced
<1>3. Idle'
  BY <1>0 DEF Idle, Synced
<1>4. Made'
  <2> SUFFICES ASSUME NEW d \in DOMAIN drivers'
               PROVE  /\ Shape[<<devices'[d], overrides'>>] # REFUSED
                      /\ drivers'[d].shape = Shape[<<devices'[d], overrides'>>]
    BY DEF Made
  <2>1. CASE d \in Making(want)
    BY <2>1, <1>0, SyncMakes DEF Synced
  <2>2. CASE d \notin Making(want)
    <3>1. d \in DOMAIN drivers /\ drivers'[d] = drivers[d] /\ devices'[d] = devices[d] /\ overrides' = overrides
      BY <2>2, <1>0, SyncMakes DEF Synced
    <3> QED BY <1>0, <3>1 DEF Made
  <2> QED BY <2>1, <2>2
<1>5. Followed'
  <2>1. \A d \in DOMAIN devices' : d \in DOMAIN want /\ (d \in Making(want) \/ (d \in DOMAIN devices /\ d \in DOMAIN want))
    BY <1>0, SyncMakes DEF Gone, Synced
  <2>2. \A d \in DOMAIN failed' : /\ d \in DOMAIN want /\ failed'[d] = want[d]
                                  /\ Shape[<<want[d], overrides>>] = REFUSED
    BY <1>0, SyncMakes DEF Making, Synced
  <2>3. ASSUME NEW d \in DOMAIN want
        PROVE  (d \in DOMAIN devices' /\ devices'[d] = want[d]) \/ (d \in DOMAIN failed' /\ failed'[d] = want[d])
    <3>1. CASE d \in Making(want)
      BY <3>1, <1>0 DEF Synced
    <3>2. CASE d \in Todo(want) \ Making(want)
      BY <3>2, <1>0 DEF Synced
    <3>3. CASE d \notin Todo(want)
      <4>1. d \in DOMAIN devices /\ devices[d] = want[d] /\ d \notin Gone(want) /\ d \notin Making(want)
        BY <1>0, <3>3, SyncMakes DEF Todo
      <4> QED BY <4>1, <1>0 DEF Synced
    <3> QED BY <3>1, <3>2, <3>3
  <2> QED BY <2>1, <2>2, <2>3, <1>0 DEF Followed, Synced
<1> QED BY <1>1, <1>2, <1>3, <1>4, <1>5 DEF HubInv

\* Less may be there, and it may be left behind by more.
LEMMA Widened ==
    ASSUME NEW v, NEW b, NEW q, NEW x, NEW y, x \subseteq y
    PROVE  /\ Sound(v, b, x, q) => Sound(v, b, y, q)
           /\ \A s, t : Within(v, x, q, s) /\ s \subseteq t => Within(v, y, q, t)
           /\ \A w, s, t : Within(v, w, q, s) /\ s \subseteq t /\ w \subseteq y \cup t => Within(v, y, q, t)
BY DEF Sound, Within

\* A queue that is empty leaves the broker as it is.
LEMMA Empty ==
    ASSUME NEW v, NEW b, NEW x
    PROVE  /\ Len(<<>>) = 0 /\ <<>> \in Seq(Msg)
           /\ \A p : (Old(v, <<>>, 0, p) <=> p \in v) /\ ~New(<<>>, 0, p)
           /\ \A s : (Descr(b, <<>>, 0, s) <=> b = s) /\ (EndsAs(b, <<>>, s) <=> b = s)
           /\ Sound(v, b, x, <<>>) <=> \A p \in Prop : p \in v /\ p \notin x => b # NONE
           /\ \A s : Within(v, x, <<>>, s) <=> \A p \in Prop : p \in v => p \in s \cup x
<1>1. Len(<<>>) = 0 /\ <<>> \in Seq(Msg) /\ 1..0 = {} /\ 0..0 = {0}
  OBVIOUS
<1>2. /\ \A p : (Old(v, <<>>, 0, p) <=> p \in v) /\ ~New(<<>>, 0, p)
      /\ \A s : Descr(b, <<>>, 0, s) <=> b = s
  BY <1>1 DEF Old, New, Descr
<1>3. \A s : EndsAs(b, <<>>, s) <=> b = s
  BY <1>1, <1>2 DEF EndsAs
<1>4. Sound(v, b, x, <<>>) <=> \A p \in Prop : p \in v /\ p \notin x => b # NONE
  BY <1>1, <1>2 DEF Sound
<1>5. \A s : Within(v, x, <<>>, s) <=> \A p \in Prop : p \in v => p \in s \cup x
  BY <1>1, <1>2 DEF Within
<1> QED BY <1>1, <1>2, <1>3, <1>4, <1>5

\* A sync leaves every queue sound, and ending as it should.
LEMMA SyncBroker ==
    ASSUME BrokerInv, NEW want \in Partial(Own, Record), NEW forgotten \in SUBSET Own, NEW armed \in {{}, Own},
           SyncDevices(want, forgotten, armed)
    PROVE  BrokerInv'
<1>0. /\ TypeOK /\ HubInv' /\ Found /\ QueuesSound /\ QueuesEnd /\ PurgedClean /\ Synced(want, armed)
      /\ DOMAIN drivers = DOMAIN devices /\ Own \subseteq Device /\ DOMAIN devices \subseteq Own
      /\ DOMAIN want \subseteq Own /\ DOMAIN drivers' \subseteq Own /\ Former(want) \subseteq Own
  <2>1. TypeOK
    BY DEF BrokerInv, HubInv
  <2>2. DOMAIN previous \subseteq Own
    BY <2>1, Partials DEF TypeOK
  <2>3. Synced(want, armed)
    BY <2>1, SyncView
  <2>4. DOMAIN drivers' \subseteq Own
    BY <2>3, Partials DEF Synced
  <2>5. HubInv'
    BY SyncHub DEF BrokerInv
  <2> QED BY <2>1, <2>2, <2>3, <2>4, <2>5, SyncMakes DEF BrokerInv, Former
<1>1. ASSUME NEW d \in Device
      PROVE  /\ out[d] \in Seq(Msg) /\ Sound(vals[d], desc[d], stale[d], out[d])
             /\ vals'[d] = vals[d] /\ desc'[d] = desc[d] /\ vals[d] \in SUBSET Prop
             /\ left[d] \in SUBSET Prop /\ stale[d] \in SUBSET Prop
             /\ d \in DOMAIN drivers => drivers[d] \in Driver /\ drivers[d].shape \in SUBSET Prop /\ Driven(d)
             /\ d \in Own /\ d \notin DOMAIN drivers => Undriven(d)
             /\ left'[d] = IF d \in Former(want) THEN {} ELSE left[d]
  <2>1. d \in DOMAIN drivers => drivers[d] \in Driver /\ drivers[d].shape \in SUBSET Prop
    BY <1>0, SyncMakes DEF Driver
  <2>2. phase = "running"
    BY <1>0 DEF Synced
  <2> QED BY <1>0, <2>1, <2>2 DEF TypeOK, QueuesSound, QueuesEnd, Synced, brokerVars
<1>2. ASSUME NEW d \in Gone(want)
      PROVE  /\ Sound(vals'[d], desc'[d], stale'[d], out'[d])
             /\ d \notin DOMAIN drivers' /\ Undriven(d)'
  <2>1. /\ d \in Device /\ d \in DOMAIN drivers /\ d \notin DOMAIN want /\ d \notin Making(want) /\ d \notin DOMAIN drivers'
        /\ out'[d] = out[d] \o Clear(drivers[d].shape) /\ stale'[d] = stale[d]
    BY <1>0, SyncMakes DEF Synced, Gone, Said
  <2>2. d \notin Former(want)
    BY <1>0, <2>1, Nothing DEF Found, Former
  <2> DEFINE S == drivers[d].shape
  <2>3. Sound(vals[d], desc[d], stale[d], out[d]) /\ Within(vals[d], left[d] \cap stale[d], out[d], S)
    BY <1>1, <2>1 DEF Driven
  <2>4. /\ Sound(vals[d], desc[d], stale[d], out'[d]) /\ EndsAs(desc[d], out'[d], NONE)
        /\ Within(vals[d], (left[d] \cap stale[d]) \ S, out'[d], {})
    <3>1. S \in SUBSET Prop /\ S \subseteq S /\ (left[d] \cap stale[d]) \ S \subseteq stale[d] /\ out[d] \in Seq(Msg)
      BY <1>1, <2>1
    <3> HIDE DEF S
    <3> QED BY ZenonT(60), <2>1, <2>3, <3>1, AddClear DEF S
  <2>5. Within(vals[d], left[d], out'[d], {})
    BY <2>4 DEF Within
  <2> QED BY <1>1, <2>1, <2>2, <2>4, <2>5 DEF Undriven
<1>3. ASSUME NEW d \in Making(want)
      PROVE  /\ Sound(vals'[d], desc'[d], stale'[d], out'[d])
             /\ d \in DOMAIN drivers' /\ Driven(d)'
  <2> DEFINE nw == Newly(want)[d]
  <2>1. /\ d \in DOMAIN want /\ d \in Own /\ d \in Device /\ d \in DOMAIN drivers' /\ nw \in Driver /\ nw.shape \in SUBSET Prop
        /\ d \notin Former(want) /\ d \notin Gone(want) /\ drivers'[d] = nw
    BY <1>0, SyncMakes DEF Synced, Former, Driver
  <2>2. left'[d] = left[d] /\ vals'[d] = vals[d] /\ desc'[d] = desc[d] /\ out[d] \in Seq(Msg)
    BY <1>1, <2>1
  <2> HIDE DEF nw
  <2>3. /\ Sound(vals[d], desc[d], stale'[d], out'[d]) /\ EndsAs(desc[d], out'[d], nw.shape)
        /\ Within(vals[d], left[d] \cap stale'[d], out'[d], nw.shape)
    <3>1. CASE d \in DOMAIN drivers
      <4>1. stale'[d] = stale[d] /\ out'[d] = out[d] \o Adopt(drivers[d], nw)
        BY <1>0, <2>1, <3>1 DEF Synced, Said, nw
      <4>2. /\ drivers[d] \in Driver /\ Sound(vals[d], desc[d], stale[d], out[d])
            /\ Within(vals[d], left[d] \cap stale[d], out[d], drivers[d].shape)
        BY <1>1, <2>1, <3>1 DEF Driven
      <4> QED BY <2>1, <2>2, <4>1, <4>2, AddAdopt
    <3>2. CASE d \notin DOMAIN drivers
      <4>1. stale'[d] = stale[d] \cup (left[d] \ nw.shape) /\ out'[d] = out[d] \o Describe(nw)
        BY <1>0, <2>1, <3>2 DEF Synced, Said, nw
      <4>2. Sound(vals[d], desc[d], stale[d], out[d]) /\ Within(vals[d], left[d], out[d], {})
        BY <1>1, <2>1, <3>2 DEF Undriven
      <4>3. Sound(vals[d], desc[d], stale'[d], out[d])
        BY <4>1, <4>2, Widened
      <4>4. Within(vals[d], left[d] \cap stale'[d], out[d], nw.shape)
        BY <4>1, <4>2 DEF Within
      <4> DEFINE x == stale'[d]
                 y == left[d] \cap stale'[d]
                 q == out[d]
      <4>5. q \in Seq(Msg) /\ Sound(vals[d], desc[d], x, q) /\ Within(vals[d], y, q, nw.shape)
        BY <2>2, <4>3, <4>4
      <4> HIDE DEF x, y, q
      <4>6. /\ Sound(vals[d], desc[d], x, q \o Describe(nw)) /\ EndsAs(desc[d], q \o Describe(nw), nw.shape)
            /\ Within(vals[d], y, q \o Describe(nw), nw.shape)
        BY <2>1, <4>5, AddDescribe
      <4> QED BY <4>1, <4>6 DEF x, y, q
    <3> QED BY <3>1, <3>2
  <2> QED BY <2>1, <2>2, <2>3 DEF Driven
<1>4. ASSUME NEW d \in Former(want)
      PROVE  /\ Sound(vals'[d], desc'[d], stale'[d], out'[d])
             /\ d \notin DOMAIN drivers' /\ Undriven(d)'
  <2>1. d \in DOMAIN previous /\ d \notin DOMAIN want /\ d \in Own /\ d \in Device
    BY <1>0 DEF Former
  <2>2. /\ devices = NoFun /\ DOMAIN drivers = {} /\ out[d] = <<>> /\ previous[d] = left[d] /\ desc[d] # NONE
        /\ d \notin Making(want) /\ d \notin Gone(want)
    BY <1>0, <2>1, Nothing, SyncMakes DEF Found
  <2>3. out'[d] = <<>> \o Clear(left[d]) /\ stale'[d] = stale[d] /\ d \notin DOMAIN drivers'
    BY <1>0, <2>1, <2>2, Nothing DEF Synced
  <2>4. Sound(vals[d], desc[d], stale[d], <<>>) /\ Within(vals[d], left[d], <<>>, {})
    BY <1>1, <2>1, <2>2 DEF Undriven
  <2>5. /\ Sound(vals[d], desc[d], stale[d], out'[d]) /\ EndsAs(desc[d], out'[d], NONE)
        /\ Within(vals[d], left[d] \ left[d], out'[d], {})
    <3> DEFINE x == stale[d]
               y == left[d]
    <3>1. y \in SUBSET Prop /\ {} \subseteq y /\ y \ y \subseteq x /\ <<>> \in Seq(Msg)
      BY <1>1, <2>1
    <3>2. Sound(vals[d], desc[d], x, <<>>) /\ Within(vals[d], y, <<>>, {})
      BY <2>4
    <3> HIDE DEF x, y
    <3>3. /\ Sound(vals[d], desc[d], x, <<>> \o Clear(y)) /\ EndsAs(desc[d], <<>> \o Clear(y), NONE)
          /\ Within(vals[d], y \ y, <<>> \o Clear(y), {})
      BY <3>1, <3>2, AddClear
    <3> QED BY <2>3, <3>3 DEF x, y
  <2>6. left'[d] = {} /\ left[d] \ left[d] = {}
    BY <1>1, <2>1
  <2> QED BY <1>1, <2>1, <2>3, <2>5, <2>6 DEF Undriven
<1>5. ASSUME NEW d \in Device, d \notin Gone(want), d \notin Making(want), d \notin Former(want)
      PROVE  /\ Sound(vals'[d], desc'[d], stale'[d], out'[d])
             /\ d \in Own => IF d \in DOMAIN drivers' THEN Driven(d)' ELSE Undriven(d)'
  <2>1. /\ out'[d] = out[d] /\ stale'[d] = stale[d] /\ left'[d] = left[d]
        /\ d \in DOMAIN drivers' <=> d \in DOMAIN drivers
        /\ d \in DOMAIN drivers' => drivers'[d] = drivers[d]
        /\ d \in kept => d \in kept'
    BY <1>0, <1>1, <1>5 DEF Synced
  <2> QED BY <1>1, <2>1 DEF Driven, Undriven
<1>6. QueuesSound'
  BY <1>2, <1>3, <1>4, <1>5 DEF QueuesSound
<1>7. QueuesEnd'
  BY <1>0, <1>2, <1>3, <1>4, <1>5 DEF QueuesEnd
<1>8. Found' /\ PurgedClean'
  BY <1>0, Nothing DEF Found, PurgedClean, Synced
<1> QED BY <1>0, <1>6, <1>7, <1>8 DEF BrokerInv

(***************************************************************************)
(* reload                                                                  *)
(***************************************************************************)
\* The names of `ReloadWith`.
Replaced(o) == {d \in DOMAIN devices : Shape[<<devices[d], o>>] # drivers[d].shape}
Between(o) == [d \in DOMAIN devices |->
    IF d \in Replaced(o) THEN Seeded(Shape[<<devices[d], o>>], Carried(drivers[d])) ELSE drivers[d]]
Again(o) == [d \in Fixed(o) |->
    Seeded(Shape[<<failed[d], o>>], IF d \in DOMAIN devices THEN Unseeded(Between(o)[d]) ELSE Unheard[d])]
First(o, d) == IF d \in Replaced(o) THEN Adopt(drivers[d], Between(o)[d]) ELSE <<>>
Then(o, d) ==
    IF d \notin Fixed(o) THEN <<>>
    ELSE IF d \in DOMAIN devices THEN Adopt(Between(o)[d], Again(o)[d]) ELSE Describe(Again(o)[d])

\* The drivers a reload makes, and where.
LEMMA ReloadMakes ==
    ASSUME TypeOK, NEW o \in Overrides, Accepts(o)
    PROVE  /\ Replaced(o) \subseteq DOMAIN devices /\ DOMAIN devices \subseteq Own /\ DOMAIN drivers = DOMAIN devices
           /\ Fixed(o) \subseteq DOMAIN failed /\ DOMAIN failed \subseteq Own /\ Own \subseteq Device
           /\ \A d \in DOMAIN devices : devices[d] \in Record /\ drivers[d] \in Driver
           /\ \A d \in DOMAIN failed : failed[d] \in Record
           /\ DOMAIN Between(o) = DOMAIN devices /\ DOMAIN Again(o) = Fixed(o)
           /\ \A d \in DOMAIN devices : /\ Between(o)[d] \in Driver /\ Between(o)[d].shape = Shape[<<devices[d], o>>]
                                        /\ d \notin Replaced(o) => Between(o)[d] = drivers[d]
           /\ \A d \in Fixed(o) : /\ Again(o)[d] \in Driver /\ Again(o)[d].shape = Shape[<<failed[d], o>>]
                                  /\ Shape[<<failed[d], o>>] # REFUSED
<1>1. /\ DOMAIN devices \subseteq Own /\ \A d \in DOMAIN devices : devices[d] \in Record
      /\ DOMAIN drivers = DOMAIN devices /\ \A d \in DOMAIN drivers : drivers[d] \in Driver
      /\ DOMAIN failed \subseteq Own /\ \A d \in DOMAIN failed : failed[d] \in Record
      /\ Own \subseteq Device
  BY Partials DEF TypeOK, Own
<1>2. /\ Replaced(o) \subseteq DOMAIN devices /\ Fixed(o) \subseteq DOMAIN failed
      /\ DOMAIN Between(o) = DOMAIN devices /\ DOMAIN Again(o) = Fixed(o)
  BY DEF Replaced, Fixed, Between, Again
<1>3. ASSUME NEW d \in DOMAIN devices
      PROVE  /\ Between(o)[d] \in Driver /\ Between(o)[d].shape = Shape[<<devices[d], o>>]
             /\ d \notin Replaced(o) => Between(o)[d] = drivers[d]
  <2>1. devices[d] \in Record /\ drivers[d] \in Driver
    BY <1>1
  <2>2. Shape[<<devices[d], o>>] \in SUBSET Prop
    BY <2>1, Shapes DEF Accepts
  <2>3. Between(o)[d] = IF d \in Replaced(o) THEN Seeded(Shape[<<devices[d], o>>], Carried(drivers[d])) ELSE drivers[d]
    BY DEF Between
  <2>4. d \notin Replaced(o) => drivers[d].shape = Shape[<<devices[d], o>>]
    BY DEF Replaced
  <2> QED BY <2>1, <2>2, <2>3, <2>4, Drivers
<1>4. ASSUME NEW d \in Fixed(o)
      PROVE  /\ Again(o)[d] \in Driver /\ Again(o)[d].shape = Shape[<<failed[d], o>>]
             /\ Shape[<<failed[d], o>>] # REFUSED
  <2>1. failed[d] \in Record /\ Shape[<<failed[d], o>>] # REFUSED /\ d \in Device
    BY <1>1, <1>2 DEF Fixed
  <2>2. Shape[<<failed[d], o>>] \in SUBSET Prop
    BY <2>1, Shapes
  <2> DEFINE k == IF d \in DOMAIN devices THEN Unseeded(Between(o)[d]) ELSE Unheard[d]
  <2>3. k \in Known
    BY <1>3, <2>1, Drivers
  <2>4. Again(o)[d] = Seeded(Shape[<<failed[d], o>>], k)
    BY DEF Again
  <2> HIDE DEF k
  <2> QED BY <2>1, <2>2, <2>3, <2>4, Drivers
<1> QED BY <1>1, <1>2, <1>3, <1>4

\* What a reload changes, device by device.
Reloaded(o, armed) ==
    /\ DOMAIN devices' = Fixed(o) \cup DOMAIN devices
    /\ \A d \in DOMAIN devices' : devices'[d] = IF d \in Fixed(o) THEN failed[d] ELSE devices[d]
    /\ DOMAIN drivers' = DOMAIN devices'
    /\ \A d \in DOMAIN drivers' : drivers'[d] = IF d \in Fixed(o) THEN Again(o)[d] ELSE Between(o)[d]
    /\ DOMAIN failed' = DOMAIN failed \ Fixed(o) /\ \A d \in DOMAIN failed' : failed'[d] = failed[d]
    /\ out' \in [Device -> Seq(Msg)]
    /\ \A d \in Device : out'[d] = IF d \in Replaced(o) \cup Fixed(o) THEN out[d] \o (First(o, d) \o Then(o, d)) ELSE out[d]
    /\ \A d \in Replaced(o) \cup Fixed(o) : First(o, d) \in Seq(Msg) /\ Then(o, d) \in Seq(Msg)
    /\ overrides' = o /\ timers' = (timers \ (Replaced(o) \cup Fixed(o))) \cup (armed \cap (Replaced(o) \cup Fixed(o)))
    /\ devices' \in Partial(Own, Record) /\ drivers' \in Partial(Own, Driver) /\ failed' \in Partial(Own, Record)
    /\ devices' = [d \in DOMAIN devices' |-> devices'[d]] /\ failed' = [d \in DOMAIN failed' |-> failed'[d]]
    /\ \A d \in Device : stale'[d] = IF d \in Fixed(o) \ DOMAIN drivers
                                     THEN stale[d] \cup (left[d] \ Again(o)[d].shape) ELSE stale[d]
    /\ stale' \in [Device -> SUBSET Prop] /\ kept' = kept \ Fixed(o) /\ gets' \in SUBSET Device

\* It changes nothing else.
LEMMA ReloadView ==
    ASSUME TypeOK, NEW o \in Overrides, NEW armed \in {{}, Own}, Accepts(o), ReloadWith(o, armed)
    PROVE  Reloaded(o, armed)
<1> DEFINE R == Replaced(o)
           F == Fixed(o)
           B == Between(o)
           N == Again(o)
           more == [d \in R \cup F |-> First(o, d) \o Then(o, d)]
<1>1. /\ Queue(more)
      /\ devices' = Merge(Restrict(failed, F), devices)
      /\ drivers' = Merge(N, B)
      /\ failed' = Restrict(failed, DOMAIN failed \ F)
      /\ timers' = (timers \ (R \cup F)) \cup (armed \cap (R \cup F))
      /\ gets' = gets \cup {d \in R : B[d].link = "up" /\ ~B[d].synced} \cup {d \in F : N[d].link = "up"}
      /\ kept' = kept \ F /\ overrides' = o
      /\ Overlook(N)
  BY DEF ReloadWith, Replaced, Between, Again, First, Then
<1>2. /\ DOMAIN devices' = F \cup DOMAIN devices
      /\ \A d \in DOMAIN devices' : devices'[d] = IF d \in F THEN failed[d] ELSE devices[d]
      /\ devices' = [d \in DOMAIN devices' |-> devices'[d]]
  BY <1>1 DEF Merge, Restrict
<1>3. /\ DOMAIN drivers' = DOMAIN devices'
      /\ \A d \in DOMAIN drivers' : drivers'[d] = IF d \in F THEN N[d] ELSE B[d]
      /\ drivers' = [d \in DOMAIN drivers' |-> drivers'[d]]
  BY <1>1, <1>2, ReloadMakes DEF Merge
<1>4. /\ DOMAIN failed' = DOMAIN failed \ F /\ \A d \in DOMAIN failed' : failed'[d] = failed[d]
      /\ failed' = [d \in DOMAIN failed' |-> failed'[d]]
  BY <1>1 DEF Restrict
<1>5. devices' \in Partial(Own, Record) /\ drivers' \in Partial(Own, Driver) /\ failed' \in Partial(Own, Record)
  <2>1. DOMAIN devices' \subseteq Own /\ \A d \in DOMAIN devices' : devices'[d] \in Record
    BY <1>2, ReloadMakes
  <2>2. \A d \in DOMAIN drivers' : drivers'[d] \in Driver
    BY <1>2, <1>3, ReloadMakes
  <2>3. DOMAIN failed' \subseteq Own /\ \A d \in DOMAIN failed' : failed'[d] \in Record
    BY <1>4, ReloadMakes
  <2> QED BY <1>2, <1>3, <1>4, <2>1, <2>2, <2>3, Partials
<1>6. \A d \in R \cup F : First(o, d) \in Seq(Msg) /\ Then(o, d) \in Seq(Msg)
  <2>1. ASSUME NEW d \in R PROVE Adopt(drivers[d], B[d]) \in Seq(Msg)
    BY ReloadMakes, Published
  <2>2. ASSUME NEW d \in F, d \in DOMAIN devices PROVE Adopt(B[d], N[d]) \in Seq(Msg)
    BY <2>2, ReloadMakes, Published
  <2>3. ASSUME NEW d \in F PROVE Describe(N[d]) \in Seq(Msg)
    BY ReloadMakes, Published
  <2> QED BY <2>1, <2>2, <2>3 DEF First, Then
<1>7. /\ out' \in [Device -> Seq(Msg)]
      /\ \A d \in Device : out'[d] = IF d \in R \cup F THEN out[d] \o (First(o, d) \o Then(o, d)) ELSE out[d]
  <2>1. DOMAIN more = R \cup F /\ \A d \in R \cup F : more[d] = First(o, d) \o Then(o, d)
    OBVIOUS
  <2>2. \A d \in R \cup F : First(o, d) \o Then(o, d) \in Seq(Msg)
    BY <1>6, ConcatProperties
  <2>3. Queue(more)
    BY <1>1
  <2> HIDE DEF more
  <2>4. \A d \in Device : d \in DOMAIN more => more[d] \in Seq(Msg)
    BY <2>1, <2>2
  <2>5. /\ out' \in [Device -> Seq(Msg)]
        /\ \A d \in Device : out'[d] = IF d \in DOMAIN more THEN out[d] \o more[d] ELSE out[d]
    BY <2>3, <2>4, Queued
  <2> QED BY <2>1, <2>5
<1>8. /\ \A d \in Device : stale'[d] = IF d \in F \ DOMAIN drivers
                                       THEN stale[d] \cup (left[d] \ N[d].shape) ELSE stale[d]
      /\ stale' \in [Device -> SUBSET Prop]
  <2>1. \A d \in Device : left[d] \in SUBSET Prop /\ stale[d] \in SUBSET Prop
    BY DEF TypeOK
  <2> QED BY <1>1, <2>1, ReloadMakes DEF Overlook
<1>9. gets' \in SUBSET Device
  BY <1>1, ReloadMakes DEF TypeOK
<1> QED BY <1>1, <1>2, <1>3, <1>4, <1>5, <1>6, <1>7, <1>8, <1>9 DEF Reloaded

\* Applied or refused, the overrides keep the Hub as it should be.
LEMMA ApplyHub ==
    ASSUME HubInv, NEW o \in Overrides, NEW armed \in {{}, Own}, Apply(o, armed),
           phase # "down", phase' = phase, saves' \in Nat, spent' \in [Kind -> Nat]
    PROVE  HubInv'
<1>0. TypeOK /\ TimersAreDriven /\ Idle /\ Made /\ Followed
  BY DEF HubInv
<1>1. UNCHANGED <<previous, heard, brokerVars, wanted, left, purged>>
  BY DEF Apply
<1>2. CASE Accepts(o) /\ ReloadWith(o, armed)
  <2>0. Reloaded(o, armed)
    BY <1>0, <1>2, ReloadView
  <2>1. TypeOK'
    <3>1. timers' \in SUBSET Device /\ kept' \in SUBSET Device
      BY <1>0, <1>2, <2>0, ReloadMakes DEF Reloaded, TypeOK
    <3> QED BY <1>0, <1>1, <2>0, <3>1 DEF Reloaded, TypeOK, brokerVars
  <2>2. TimersAreDriven'
    BY <1>0, <1>2, <2>0, ReloadMakes DEF Reloaded, TimersAreDriven
  <2>3. Idle'
    BY DEF Idle
  <2>4. Made'
    <3> SUFFICES ASSUME NEW d \in DOMAIN drivers'
                 PROVE  /\ Shape[<<devices'[d], overrides'>>] # REFUSED
                        /\ drivers'[d].shape = Shape[<<devices'[d], overrides'>>]
      BY DEF Made
    <3>1. CASE d \in Fixed(o)
      BY <1>0, <1>2, <2>0, <3>1, ReloadMakes DEF Reloaded
    <3>2. CASE d \notin Fixed(o)
      BY SMTT(30), <1>0, <1>2, <2>0, <3>2, ReloadMakes DEF Reloaded, Accepts
    <3> QED BY <3>1, <3>2
  <2>5. Followed'
    <3>1. DOMAIN devices' \subseteq DOMAIN wanted
      BY <1>0, <1>2, <2>0, ReloadMakes DEF Reloaded, Followed
    <3>2. \A d \in DOMAIN failed' : d \in DOMAIN wanted /\ failed'[d] = wanted[d] /\ Shape[<<failed'[d], o>>] = REFUSED
      BY <1>0, <2>0 DEF Reloaded, Followed, Fixed
    <3>3. ASSUME NEW d \in DOMAIN wanted
          PROVE  (d \in DOMAIN devices' /\ devices'[d] = wanted[d]) \/ (d \in DOMAIN failed' /\ failed'[d] = wanted[d])
      <4>1. CASE d \in Fixed(o)
        BY <1>0, <1>2, <2>0, <4>1, ReloadMakes DEF Reloaded, Followed
      <4>2. CASE d \notin Fixed(o)
        BY <1>0, <2>0, <4>2 DEF Reloaded, Followed
      <4> QED BY <4>1, <4>2
    <3> QED BY <1>1, <2>0, <3>1, <3>2, <3>3 DEF Reloaded, Followed
  <2> QED BY <2>1, <2>2, <2>3, <2>4, <2>5 DEF HubInv
<1>3. CASE UNCHANGED <<hubVars, failed, timers, gets, out, kept, stale>>
  <2>1. TypeOK'
    BY <1>0, <1>1, <1>3 DEF TypeOK, hubVars, brokerVars
  <2>2. TimersAreDriven' /\ Idle' /\ Made' /\ Followed'
    BY <1>0, <1>1, <1>3 DEF hubVars, TimersAreDriven, Idle, Made, Followed
  <2> QED BY <2>1, <2>2 DEF HubInv
<1> QED BY <1>2, <1>3 DEF Apply

\* Queues and what is on the broker stay, and what drives them: so do their
\* properties.
LEMMA Same ==
    ASSUME UNCHANGED <<drivers, out, brokerVars, kept, left, stale>>, NEW d \in Device
    PROVE  /\ Sound(vals[d], desc[d], stale[d], out[d]) =>
              Sound(vals'[d], desc'[d], stale'[d], out'[d])
           /\ Driven(d) => Driven(d)'
           /\ Undriven(d) => Undriven(d)'
BY DEF brokerVars, Driven, Undriven

\* Applied or refused, the overrides leave every queue sound, and ending as it
\* should.
LEMMA ApplyBroker ==
    ASSUME BrokerInv, NEW o \in Overrides, NEW armed \in {{}, Own}, Apply(o, armed),
           phase # "down", phase' = phase, saves' \in Nat, spent' \in [Kind -> Nat]
    PROVE  BrokerInv'
<1>0. /\ TypeOK /\ HubInv' /\ Found /\ QueuesSound /\ QueuesEnd /\ PurgedClean /\ Own \subseteq Device
      /\ UNCHANGED <<previous, heard, brokerVars, wanted, left, purged>>
  <2>1. HubInv'
    BY ApplyHub DEF BrokerInv
  <2> QED BY <2>1 DEF BrokerInv, HubInv, Apply, Own
<1>1. CASE Accepts(o) /\ ReloadWith(o, armed)
  <2>0. Reloaded(o, armed)
    BY <1>0, <1>1, ReloadView
  <2>1. ASSUME NEW d \in Device
        PROVE  /\ out[d] \in Seq(Msg) /\ Sound(vals[d], desc[d], stale[d], out[d])
               /\ vals'[d] = vals[d] /\ desc'[d] = desc[d] /\ left'[d] = left[d]
               /\ d \in DOMAIN drivers => drivers[d] \in Driver /\ d \in Own /\ Driven(d)
               /\ d \in Own /\ d \notin DOMAIN drivers => Undriven(d)
    <3>1. d \in DOMAIN drivers => drivers[d] \in Driver /\ d \in Own
      BY <1>0, <1>1, ReloadMakes
    <3> QED BY <1>0, <3>1 DEF TypeOK, QueuesSound, QueuesEnd, brokerVars
  <2>2. ASSUME NEW d \in Replaced(o) \cup Fixed(o)
        PROVE  /\ Sound(vals'[d], desc'[d], stale'[d], out'[d])
               /\ d \in DOMAIN drivers' /\ Driven(d)'
    <3> DEFINE a == First(o, d)
               c == Then(o, d)
               q == out[d] \o a
    <3>1. /\ d \in Device /\ d \in DOMAIN drivers' /\ a \in Seq(Msg) /\ c \in Seq(Msg) /\ out[d] \in Seq(Msg)
          /\ out'[d] = q \o c
      <4>1. d \in Device /\ d \in DOMAIN drivers'
        BY <1>0, <1>1, <2>0, ReloadMakes DEF Reloaded
      <4>2. a \in Seq(Msg) /\ c \in Seq(Msg) /\ out[d] \in Seq(Msg) /\ out'[d] = out[d] \o (a \o c)
        BY <2>0, <2>1, <4>1 DEF Reloaded
      <4> HIDE DEF a, c
      <4> DEFINE u == out[d]
      <4>3. u \in Seq(Msg) /\ a \in Seq(Msg) /\ c \in Seq(Msg)
        BY <4>2
      <4> HIDE DEF u
      <4>4. (u \o a) \o c = u \o (a \o c)
        BY <4>3, ConcatAssociative
      <4> QED BY <4>1, <4>2, <4>4 DEF u
    <3>2. CASE d \in DOMAIN drivers
      <4> DEFINE x == stale[d]
                 y == left[d] \cap stale[d]
                 b == Between(o)[d]
      <4>0. stale'[d] = stale[d] /\ b \in Driver /\ d \in DOMAIN devices
        BY <1>0, <1>1, <2>0, <3>1, <3>2, ReloadMakes DEF Reloaded
      <4>1. /\ q \in Seq(Msg) /\ Sound(vals[d], desc[d], x, q) /\ Within(vals[d], y, q, b.shape)
            /\ d \notin Fixed(o) => EndsAs(desc[d], q, b.shape)
        <5>1. CASE d \in Replaced(o)
          <6>1. a = Adopt(drivers[d], b)
            BY <5>1 DEF First
          <6>2. /\ drivers[d] \in Driver /\ Sound(vals[d], desc[d], x, out[d])
                /\ Within(vals[d], y, out[d], drivers[d].shape)
            BY <2>1, <3>1, <3>2 DEF Driven
          <6> HIDE DEF a, x, y, b
          <6>3. q \in Seq(Msg)
            BY <3>1, ConcatProperties
          <6> QED BY <3>1, <4>0, <6>1, <6>2, <6>3, AddAdopt
        <5>2. CASE d \notin Replaced(o)
          <6>1. a = <<>> /\ b = drivers[d]
            BY <1>0, <1>1, <4>0, <5>2, ReloadMakes DEF First
          <6>2. q = out[d]
            BY <3>1, <6>1
          <6> QED BY <2>1, <3>1, <3>2, <6>1, <6>2 DEF Driven
        <5> QED BY <5>1, <5>2
      <4>2. CASE d \in Fixed(o)
        <5> DEFINE nw == Again(o)[d]
        <5>1. drivers'[d] = nw /\ nw \in Driver /\ c = Adopt(b, nw)
          BY <1>0, <1>1, <2>0, <3>1, <4>0, <4>2, ReloadMakes DEF Reloaded, Then
        <5> HIDE DEF a, c, q, x, y, b, nw
        <5>2. /\ Sound(vals[d], desc[d], x, q \o Adopt(b, nw)) /\ Within(vals[d], y, q \o Adopt(b, nw), nw.shape)
              /\ EndsAs(desc[d], q \o Adopt(b, nw), nw.shape)
          <6> DEFINE v == vals[d]
                     e == desc[d]
          <6>1. /\ q \in Seq(Msg) /\ b \in Driver /\ nw \in Driver
                /\ Sound(v, e, x, q) /\ Within(v, y, q, b.shape)
            BY <4>0, <4>1, <5>1
          <6> HIDE DEF v, e
          <6>2. /\ Sound(v, e, x, q \o Adopt(b, nw)) /\ Within(v, y, q \o Adopt(b, nw), nw.shape)
                /\ EndsAs(e, q \o Adopt(b, nw), nw.shape)
            BY <6>1, AddAdopt
          <6> QED BY <6>2 DEF v, e
        <5> QED BY <2>1, <3>1, <4>0, <5>1, <5>2 DEF Driven, x, y
      <4>3. CASE d \notin Fixed(o)
        <5>1. drivers'[d] = b /\ c = <<>>
          BY <2>0, <3>1, <4>3 DEF Reloaded, Then
        <5>2. out'[d] = q
          BY <3>1, <4>1, <5>1
        <5> HIDE DEF a, c, q, x, y, b
        <5> QED BY <2>1, <3>1, <4>0, <4>1, <4>3, <5>1, <5>2 DEF Driven, x, y
      <4> QED BY <4>2, <4>3
    <3>3. CASE d \notin DOMAIN drivers
      <4> DEFINE nw == Again(o)[d]
                 x == stale'[d]
                 y == left[d] \cap stale'[d]
      <4>1. /\ d \in Fixed(o) /\ d \notin Replaced(o) /\ d \notin DOMAIN devices /\ d \in Own
            /\ nw \in Driver /\ drivers'[d] = nw /\ stale'[d] = stale[d] \cup (left[d] \ nw.shape)
            /\ a = <<>> /\ c = Describe(nw)
        BY <1>0, <1>1, <2>0, <3>1, <3>3, ReloadMakes DEF Reloaded, First, Then
      <4>2. q = out[d]
        BY <3>1, <4>1
      <4>3. Sound(vals[d], desc[d], stale[d], q) /\ Within(vals[d], left[d], q, {})
        BY <2>1, <3>1, <3>3, <4>1, <4>2 DEF Undriven
      <4>4. Sound(vals[d], desc[d], x, q)
        BY <4>1, <4>3, Widened
      <4>5. Within(vals[d], y, q, nw.shape)
        BY <4>1, <4>3 DEF Within
      <4>6. out'[d] = q \o Describe(nw) /\ q \in Seq(Msg)
        BY <3>1, <4>1, <4>2
      <4> HIDE DEF x, y, q, nw
      <4>7. /\ Sound(vals[d], desc[d], x, q \o Describe(nw)) /\ EndsAs(desc[d], q \o Describe(nw), nw.shape)
            /\ Within(vals[d], y, q \o Describe(nw), nw.shape)
        BY <4>1, <4>4, <4>5, <4>6, AddDescribe
      <4> QED BY <2>1, <3>1, <4>1, <4>6, <4>7 DEF Driven, x, y
    <3> QED BY <3>2, <3>3
  <2>3. ASSUME NEW d \in Device, d \notin Replaced(o), d \notin Fixed(o)
        PROVE  /\ Sound(vals'[d], desc'[d], stale'[d], out'[d])
               /\ d \in Own => IF d \in DOMAIN drivers' THEN Driven(d)' ELSE Undriven(d)'
    <3>1. /\ out'[d] = out[d] /\ stale'[d] = stale[d] /\ (d \in kept => d \in kept')
          /\ d \in DOMAIN drivers' <=> d \in DOMAIN drivers
          /\ d \in DOMAIN drivers' => drivers'[d] = drivers[d]
      <4>1. out'[d] = out[d] /\ stale'[d] = stale[d] /\ (d \in kept => d \in kept')
        BY <2>0, <2>3 DEF Reloaded
      <4>2. DOMAIN drivers = DOMAIN devices /\ d \in DOMAIN devices => Between(o)[d] = drivers[d]
        BY <1>0, <1>1, <2>3, ReloadMakes
      <4> QED BY <1>0, <1>1, <2>0, <2>3, <4>1, <4>2, ReloadMakes DEF Reloaded
    <3> QED BY <2>1, <3>1 DEF Driven, Undriven
  <2>4. QueuesSound' /\ QueuesEnd'
    BY <1>0, <2>2, <2>3 DEF QueuesSound, QueuesEnd
  <2>5. Found'
    <3> SUFFICES ASSUME DOMAIN previous # {} PROVE Found'
      BY <1>0 DEF Found
    <3>1. Fixed(o) = {} /\ Replaced(o) = {}
      BY <1>0, <1>1, ReloadMakes, Nothing DEF Found
    <3>2. devices' = NoFun /\ failed' = NoFun /\ \A d \in Device : out'[d] = out[d]
      BY <1>0, <2>0, <3>1, Nothing DEF Reloaded, Found
    <3> QED BY <1>0, <3>2 DEF Found, brokerVars
  <2> QED BY <1>0, <2>4, <2>5 DEF BrokerInv, PurgedClean
<1>2. CASE UNCHANGED <<hubVars, failed, timers, gets, out, kept, stale>>
  <2>1. QueuesSound' /\ QueuesEnd'
    BY <1>0, <1>2, Same DEF hubVars, QueuesSound, QueuesEnd
  <2>2. Found' /\ PurgedClean'
    BY <1>0, <1>2 DEF hubVars, brokerVars, Found, PurgedClean
  <2> QED BY <1>0, <2>1, <2>2 DEF BrokerInv
<1> QED BY <1>1, <1>2 DEF Apply

(***************************************************************************)
(* What the bridge says, timers, reconnects and settings                   *)
(***************************************************************************)
\* Which devices are driven by what stays, and a driver publishes its values,
\* or takes them back, or describes itself again.
Told ==
    /\ UNCHANGED <<phase, devices, overrides, failed, previous, brokerVars, history>>
    /\ phase = "down" => saves' = saves
    /\ saves' \in Nat /\ spent' \in [Kind -> Nat] /\ heard' \in [Device -> Known] /\ gets' \in SUBSET Device
    /\ drivers' \in Partial(Own, Driver) /\ DOMAIN drivers' = DOMAIN drivers
    /\ \A d \in DOMAIN drivers : drivers'[d].shape = drivers[d].shape
    /\ timers' \subseteq timers \cup DOMAIN drivers
    /\ out' \in [Device -> Seq(Msg)]
    /\ \A d \in Device : \/ out'[d] = out[d]
                         \/ d \in DOMAIN drivers /\ out'[d] = out[d] \o Shown(drivers'[d])
                         \/ d \in DOMAIN drivers /\ out'[d] = out[d] \o Describe(drivers'[d])
                         \/ d \in DOMAIN drivers /\ out'[d] = out[d] \o Values(drivers[d].shape, FALSE)

\* That keeps the invariant.
LEMMA ToldKeeps ==
    ASSUME BrokerInv, Told
    PROVE  BrokerInv'
<1>0. /\ TypeOK /\ TimersAreDriven /\ Idle /\ Made /\ Followed /\ Found /\ QueuesSound /\ QueuesEnd /\ PurgedClean
      /\ DOMAIN drivers \subseteq Own /\ DOMAIN drivers = DOMAIN devices /\ Own \subseteq Device
      /\ \A d \in DOMAIN drivers : drivers'[d] \in Driver /\ drivers'[d].shape = drivers[d].shape
      /\ UNCHANGED <<phase, devices, overrides, failed, previous, vals, desc, wanted, left, kept, purged, stale>>
  <2>1. TypeOK
    BY DEF BrokerInv, HubInv
  <2> QED BY <2>1, Partials DEF BrokerInv, HubInv, TypeOK, Told, Own, brokerVars, history
<1>1. TypeOK'
  <2>1. timers' \in SUBSET Device
    BY <1>0 DEF Told, TypeOK
  <2> QED BY <1>0, <2>1 DEF Told, TypeOK
<1>2. ASSUME devices = NoFun PROVE \A d \in Device : out'[d] = out[d]
  BY <1>0, <1>2, Nothing DEF Told
<1>3. TimersAreDriven' /\ Made' /\ Followed'
  BY <1>0 DEF Told, TimersAreDriven, Made, Followed
<1>4. Idle' /\ Found' /\ PurgedClean'
  BY <1>0, <1>2 DEF Told, Idle, Found, PurgedClean
<1>5. ASSUME NEW d \in DOMAIN drivers
      PROVE  /\ Sound(vals'[d], desc'[d], stale'[d], out'[d])
             /\ phase # "down" => Driven(d)'
  <2> DEFINE v == vals[d]
             b == desc[d]
             x == stale[d]
             y == left[d] \cap stale[d]
             q == out[d]
             nw == drivers'[d]
             S == nw.shape
  <2>1. /\ q \in Seq(Msg) /\ Sound(v, b, x, q) /\ nw \in Driver /\ S \in SUBSET Prop /\ phase # "down"
        /\ Within(v, y, q, S) /\ EndsAs(b, q, S)
    <3>1. phase # "down" /\ Driven(d)
      BY <1>0, Nothing DEF Idle, QueuesEnd
    <3>2. S = drivers[d].shape /\ nw \in Driver /\ S \in SUBSET Prop
      BY <1>0 DEF Driver
    <3> QED BY <1>0, <3>1, <3>2 DEF TypeOK, QueuesSound, Driven
  <2>2. /\ out'[d] \in {q, q \o Shown(nw), q \o Describe(nw), q \o Values(S, FALSE)}
        /\ vals'[d] = v /\ desc'[d] = b /\ stale'[d] = x /\ left'[d] \cap stale'[d] = y /\ drivers'[d].shape = S
    BY <1>0 DEF Told
  <2> HIDE DEF v, b, x, y, q, nw
  <2>3. Sound(v, b, x, out'[d]) /\ Within(v, y, out'[d], S) /\ EndsAs(b, out'[d], S)
    <3>1. CASE out'[d] = q
      BY <2>1, <3>1
    <3>2. CASE out'[d] = q \o Shown(nw)
      BY <2>1, <3>2, AddShown
    <3>3. CASE out'[d] = q \o Describe(nw)
      BY <2>1, <3>3, AddDescribe
    <3>4. CASE out'[d] = q \o Values(S, FALSE)
      <4> HIDE DEF S
      <4>1. Sound(v, b, x, q \o Values(S, FALSE)) /\ EndsAs(b, q \o Values(S, FALSE), S)
            /\ Within(v, y \ S, q \o Values(S, FALSE), S \ S)
        BY <2>1, AddValues
      <4>2. Within(v, y, q \o Values(S, FALSE), S)
        BY <4>1 DEF Within
      <4> QED BY <3>4, <4>1, <4>2
    <3> QED BY <2>2, <3>1, <3>2, <3>3, <3>4
  <2> QED BY <2>2, <2>3 DEF Driven
<1>6. ASSUME NEW d \in Device, d \notin DOMAIN drivers
      PROVE  /\ Sound(vals'[d], desc'[d], stale'[d], out'[d])
             /\ phase # "down" /\ d \in Own => Undriven(d)'
  <2>1. out'[d] = out[d]
    BY <1>6 DEF Told
  <2> QED BY <1>0, <1>6, <2>1 DEF QueuesSound, QueuesEnd, Undriven
<1>7. QueuesSound' /\ QueuesEnd'
  BY <1>0, <1>5, <1>6 DEF QueuesSound, QueuesEnd, Told
<1> QED BY <1>1, <1>3, <1>4, <1>7 DEF BrokerInv, HubInv

\* A link frame, ...
LEMMA LinkTells ==
    ASSUME HubInv, NEW d \in Own, NEW up \in BOOLEAN, NEW retained \in BOOLEAN, Link(d, up, retained)
    PROVE  Told
<1>0. TypeOK /\ TimersAreDriven /\ d \in Device /\ DOMAIN drivers \subseteq Own
      /\ \A e \in DOMAIN drivers : drivers[e] \in Driver
  BY Partials DEF HubInv, TypeOK, Own
<1>1. spent' \in [Kind -> Nat]
  BY <1>0, Spent DEF Link, Kind
<1>2. heard' \in [Device -> Known]
  <2>1. heard' = [heard EXCEPT ![d].link = IF up THEN "up" ELSE "down"]
    BY DEF Link
  <2>2. heard[d] \in Known
    BY <1>0 DEF TypeOK
  <2>3. [heard[d] EXCEPT !.link = IF up THEN "up" ELSE "down"] \in Known
    BY <2>2 DEF Known
  <2> QED BY <1>0, <2>1, <2>3 DEF TypeOK
<1>3. CASE d \notin DOMAIN drivers /\ UNCHANGED <<drivers, out, timers, gets>>
  BY <1>0, <1>1, <1>2, <1>3 DEF Told, Link, TypeOK
<1>4. ASSUME d \in DOMAIN drivers, up, drivers' = [drivers EXCEPT ![d].link = "up"],
             Queue([e \in {d} |-> Shown(drivers'[d])]), gets' \subseteq gets \cup {d}, timers' = timers
      PROVE  Told
  <2>1. /\ DOMAIN drivers' = DOMAIN drivers /\ drivers' = [e \in DOMAIN drivers' |-> drivers'[e]]
        /\ \A e \in DOMAIN drivers : drivers'[e] \in Driver /\ drivers'[e].shape = drivers[e].shape
    BY <1>0, <1>4 DEF Driver
  <2>2. drivers' \in Partial(Own, Driver)
    BY <1>0, <2>1, Partials
  <2>3. Shown(drivers'[d]) \in Seq(Msg)
    BY <1>4, <2>1, Published
  <2> DEFINE more == [e \in {d} |-> Shown(drivers'[d])]
  <2>4. DOMAIN more = {d} /\ more[d] = Shown(drivers'[d]) /\ Queue(more)
    BY <1>4
  <2> HIDE DEF more
  <2>5. out' \in [Device -> Seq(Msg)] /\ \A e \in Device : out'[e] = IF e = d THEN out[e] \o Shown(drivers'[e]) ELSE out[e]
    BY <1>0, <2>3, <2>4, Queued
  <2> QED BY <1>0, <1>1, <1>2, <1>4, <2>1, <2>2, <2>5 DEF Told, Link, TypeOK
<1>5. ASSUME d \in DOMAIN drivers, drivers' = [drivers EXCEPT ![d].link = "down", ![d].synced = FALSE],
             Queue([e \in {d} |-> Values(drivers[d].shape, FALSE)]), gets' = gets \ {d}, timers' = timers \ {d}
      PROVE  Told
  <2>1. /\ DOMAIN drivers' = DOMAIN drivers /\ drivers' = [e \in DOMAIN drivers' |-> drivers'[e]]
        /\ \A e \in DOMAIN drivers : drivers'[e] \in Driver /\ drivers'[e].shape = drivers[e].shape
    BY <1>0, <1>5 DEF Driver
  <2>2. drivers' \in Partial(Own, Driver)
    BY <1>0, <2>1, Partials
  <2>3. Values(drivers[d].shape, FALSE) \in Seq(Msg)
    BY <1>0, <1>5, Published DEF Driver
  <2> DEFINE u == Values(drivers[d].shape, FALSE)
             more == [e \in {d} |-> u]
  <2>4. DOMAIN more = {d} /\ more[d] = u /\ Queue(more) /\ u \in Seq(Msg)
    BY <1>5, <2>3
  <2> HIDE DEF more, u
  <2>5. out' \in [Device -> Seq(Msg)] /\ \A e \in Device : out'[e] = IF e = d THEN out[e] \o u ELSE out[e]
    BY <1>0, <2>4, Queued
  <2> QED BY <1>0, <1>1, <1>2, <1>5, <2>1, <2>2, <2>5 DEF Told, Link, TypeOK, u
<1> QED
  <2>1. \/ d \notin DOMAIN drivers /\ UNCHANGED <<drivers, out, timers, gets>>
        \/ /\ d \in DOMAIN drivers /\ up
           /\ drivers' = [drivers EXCEPT ![d].link = "up"]
           /\ Queue([e \in {d} |-> Shown(drivers'[d])])
           /\ gets' \subseteq gets \cup {d}
           /\ timers' = timers
        \/ /\ d \in DOMAIN drivers /\ ~up
           /\ drivers' = [drivers EXCEPT ![d].link = "down", ![d].synced = FALSE]
           /\ Queue([e \in {d} |-> Values(drivers[d].shape, FALSE)])
           /\ gets' = gets \ {d} /\ timers' = timers \ {d}
    BY DEF Link
  <2> QED BY <1>3, <1>4, <1>5, <2>1

\* ... a state, ...
LEMMA StateTells ==
    ASSUME HubInv, NEW d \in Own, NEW arms \in BOOLEAN, State(d, arms)
    PROVE  Told
<1>0. TypeOK /\ TimersAreDriven /\ d \in Device /\ DOMAIN drivers \subseteq Own
      /\ \A e \in DOMAIN drivers : drivers[e] \in Driver
  BY Partials DEF HubInv, TypeOK, Own
<1>1. spent' \in [Kind -> Nat]
  BY <1>0, Spent DEF State, Kind, TypeOK
<1>2. heard' \in [Device -> Known] /\ gets' = gets \ {d}
  <2>1. heard' = [heard EXCEPT ![d].state = TRUE] /\ gets' = gets \ {d}
    BY DEF State
  <2>2. heard[d] \in Known
    BY <1>0 DEF TypeOK
  <2>3. [heard[d] EXCEPT !.state = TRUE] \in Known
    BY <2>2 DEF Known
  <2> QED BY <1>0, <2>1, <2>3 DEF TypeOK
<1>3. CASE d \notin DOMAIN drivers /\ UNCHANGED <<drivers, out, timers>>
  BY <1>0, <1>1, <1>2, <1>3 DEF Told, State, TypeOK
<1>4. ASSUME d \in DOMAIN drivers, drivers' = [drivers EXCEPT ![d].synced = TRUE],
             Queue([e \in {d} |-> Shown(drivers'[d])]), timers' \subseteq timers \cup {d}
      PROVE  Told
  <2>1. /\ DOMAIN drivers' = DOMAIN drivers /\ drivers' = [e \in DOMAIN drivers' |-> drivers'[e]]
        /\ \A e \in DOMAIN drivers : drivers'[e] \in Driver /\ drivers'[e].shape = drivers[e].shape
    BY <1>0, <1>4 DEF Driver
  <2>2. drivers' \in Partial(Own, Driver)
    BY <1>0, <2>1, Partials
  <2> DEFINE more == [e \in {d} |-> Shown(drivers'[d])]
  <2>3. DOMAIN more = {d} /\ more[d] = Shown(drivers'[d]) /\ Queue(more) /\ Shown(drivers'[d]) \in Seq(Msg)
    BY <1>4, <2>1, Published
  <2> HIDE DEF more
  <2>4. out' \in [Device -> Seq(Msg)] /\ \A e \in Device : out'[e] = IF e = d THEN out[e] \o Shown(drivers'[e]) ELSE out[e]
    BY <1>0, <2>3, Queued
  <2> QED BY <1>0, <1>1, <1>2, <1>4, <2>1, <2>2, <2>4 DEF Told, State, TypeOK
<1> QED
  <2>1. \/ d \notin DOMAIN drivers /\ UNCHANGED <<drivers, out, timers>>
        \/ /\ d \in DOMAIN drivers
           /\ drivers' = [drivers EXCEPT ![d].synced = TRUE]
           /\ Queue([e \in {d} |-> Shown(drivers'[d])])
           /\ timers' \subseteq timers \cup {d}
    BY DEF State
  <2> QED BY <1>3, <1>4, <2>1

\* ... a timer, ...
LEMMA FireTells ==
    ASSUME HubInv, NEW d \in Device, Fire(d)
    PROVE  Told
<1>0. TypeOK /\ TimersAreDriven /\ \A e \in DOMAIN drivers : drivers[e] \in Driver
  BY Partials DEF HubInv, TypeOK
<1>1. timers' \subseteq timers /\ UNCHANGED <<phase, hubVars, failed, saves, previous, heard, gets, brokerVars, history, spent>>
  BY DEF Fire
<1>2. CASE d \in DOMAIN drivers /\ Queue([e \in {d} |-> Shown(drivers[d])])
  <2> DEFINE more == [e \in {d} |-> Shown(drivers[d])]
  <2>1. DOMAIN more = {d} /\ more[d] = Shown(drivers[d]) /\ Queue(more) /\ Shown(drivers[d]) \in Seq(Msg)
    BY <1>0, <1>2, Published
  <2> HIDE DEF more
  <2>2. out' \in [Device -> Seq(Msg)] /\ \A e \in Device : out'[e] = IF e = d THEN out[e] \o Shown(drivers[e]) ELSE out[e]
    BY <1>0, <2>1, Queued
  <2> QED BY <1>0, <1>1, <1>2, <2>2 DEF Told, TypeOK, hubVars
<1>3. CASE UNCHANGED out
  BY <1>0, <1>1, <1>3 DEF Told, TypeOK, hubVars
<1> QED BY <1>2, <1>3 DEF Fire

\* ... a reconnect ...
LEMMA ReconnectTells ==
    ASSUME HubInv, Reconnected
    PROVE  Told
<1>0. TypeOK /\ \A e \in DOMAIN drivers : drivers[e] \in Driver
  BY Partials DEF HubInv, TypeOK
<1>1. spent' \in [Kind -> Nat]
  BY <1>0, Spent DEF Reconnected, Kind
<1> DEFINE more == [d \in DOMAIN drivers |-> Describe(drivers[d])]
<1>2. /\ DOMAIN more = DOMAIN drivers /\ Queue(more)
      /\ \A d \in DOMAIN drivers : more[d] = Describe(drivers[d]) /\ Describe(drivers[d]) \in Seq(Msg)
  BY <1>0, Published DEF Reconnected
<1> HIDE DEF more
<1>3. /\ out' \in [Device -> Seq(Msg)]
      /\ \A d \in Device : out'[d] = IF d \in DOMAIN drivers THEN out[d] \o Describe(drivers[d]) ELSE out[d]
  BY <1>0, <1>2, Queued
<1> QED BY <1>0, <1>1, <1>3 DEF Told, Reconnected, TypeOK, hubVars

\* ... and settings to be saved, or that were not.
LEMMA SettingsTell ==
    ASSUME HubInv, SaveSettings \/ NotSaved
    PROVE  Told
<1>0. TypeOK /\ Idle
  BY DEF HubInv
<1>1. CASE SaveSettings
  <2>1. spent' \in [Kind -> Nat]
    BY <1>0, <1>1, Spent DEF SaveSettings, Kind
  <2> QED BY <1>0, <1>1, <2>1 DEF SaveSettings, Told, TypeOK, hubVars
<1>2. CASE NotSaved
  <2>1. phase # "down" /\ saves' \in Nat
    BY <1>0, <1>2 DEF NotSaved, Idle, TypeOK
  <2> QED BY <1>0, <1>2, <2>1 DEF NotSaved, Told, TypeOK, hubVars
<1> QED BY <1>1, <1>2

(***************************************************************************)
(* The worker                                                              *)
(***************************************************************************)
\* A publish that reaches the broker keeps the invariant.
LEMMA DeliverKeeps ==
    ASSUME BrokerInv, NEW d \in Device, Deliver(d)
    PROVE  BrokerInv'
<1> DEFINE q == out[d]
           v == vals[d]
           b == desc[d]
           x == stale[d]
           y == left[d] \cap stale[d]
           m == Head(q)
<1>0. /\ TypeOK /\ TimersAreDriven /\ Idle /\ Made /\ Followed /\ Found /\ QueuesSound /\ QueuesEnd /\ PurgedClean
      /\ UNCHANGED <<phase, devices, drivers, overrides, failed, timers, saves, previous, heard, gets, wanted, left, kept,
                     purged, spent>>
      /\ phase # "down" /\ q # <<>> /\ q \in Seq(Msg) /\ v \in SUBSET Prop /\ x \in SUBSET Prop
      /\ Sound(v, b, x, q)
  BY DEF BrokerInv, HubInv, Deliver, TypeOK, hubVars, QueuesSound
<1>1. m \in Msg /\ Tail(q) \in Seq(Msg)
  BY <1>0, TailIs
<1>2. ASSUME m.kind = "descriptor", desc' = [desc EXCEPT ![d] = m.shape], out' = [out EXCEPT ![d] = Tail(@)],
             UNCHANGED <<vals, stale>>
      PROVE  BrokerInv'
  <2>1. TypeOK'
    <3>1. m.shape \in {NONE} \cup SUBSET Prop
      BY <1>1, <1>2 DEF Msg
    <3> QED BY <1>0, <1>1, <1>2, <3>1 DEF TypeOK
  <2>2. /\ Sound(v, m.shape, x, Tail(q)) /\ Says(q, 1) /\ 1 \in 1..Len(q)
        /\ \A z, S : Within(v, z, q, S) => Within(v, z, Tail(q), S)
        /\ \A s : EndsAs(b, q, s) => EndsAs(m.shape, Tail(q), s)
    BY <1>0, <1>2, DropDescriptor
  <2>3. out'[d] = Tail(q) /\ desc'[d] = m.shape /\ vals'[d] = v /\ stale'[d] = x
    BY <1>0, <1>2 DEF TypeOK
  <2>4. \A e \in Device : e # d => out'[e] = out[e] /\ desc'[e] = desc[e] /\ vals'[e] = vals[e] /\ stale'[e] = stale[e]
    BY <1>0, <1>2 DEF TypeOK
  <2> HIDE DEF q, v, b, x, y, m
  <2>5. QueuesSound'
    BY <1>0, <2>2, <2>3, <2>4 DEF QueuesSound
  <2>6. QueuesEnd'
    <3>1. ASSUME NEW e \in Own, e # d PROVE IF e \in DOMAIN drivers' THEN Driven(e)' ELSE Undriven(e)'
      BY <1>0, <2>4, <3>1 DEF QueuesEnd, Driven, Undriven, Own
    <3>2. ASSUME d \in Own PROVE IF d \in DOMAIN drivers' THEN Driven(d)' ELSE Undriven(d)'
      BY <1>0, <2>2, <2>3, <3>2 DEF QueuesEnd, Driven, Undriven, q, v, b, x
    <3> QED BY <3>1, <3>2 DEF QueuesEnd
  <2>7. Found'
    BY <1>0 DEF Found, q
  <2>8. TimersAreDriven' /\ Idle' /\ Made' /\ Followed' /\ PurgedClean'
    BY <1>0 DEF TimersAreDriven, Idle, Made, Followed, PurgedClean
  <2> QED BY <2>1, <2>5, <2>6, <2>7, <2>8 DEF BrokerInv, HubInv
<1>3. ASSUME m.kind = "values", NEW p \in m.props,
             vals' = [vals EXCEPT ![d] = IF m.on THEN @ \cup {p} ELSE @ \ {p}],
             out' = [out EXCEPT ![d] = Values(m.props \ {p}, m.on) \o Tail(@)],
             stale' = [stale EXCEPT ![d] = @ \ {p}], desc' = desc
      PROVE  BrokerInv'
  <2> DEFINE w == IF m.on THEN v \cup {p} ELSE v \ {p}
             r == Values(m.props \ {p}, m.on) \o Tail(q)
  <2>0. m.props \in SUBSET Prop /\ m.on \in BOOLEAN /\ p \in Prop
    BY <1>1, <1>3 DEF Msg
  <2>1. TypeOK'
    <3>1. r \in Seq(Msg)
      BY <1>1, <2>0, Published, ConcatProperties
    <3> QED BY <1>0, <1>3, <2>0, <3>1 DEF TypeOK
  <2>2. /\ Sound(w, b, x \ {p}, r)
        /\ \A z, S : Within(v, z, q, S) => Within(w, z \ {p}, r, S)
        /\ \A s : EndsAs(b, q, s) => EndsAs(b, r, s)
        /\ (\A i \in 1..Len(q) : ~Says(q, i)) => \A i \in 1..Len(r) : ~Says(r, i)
    <3>1. CASE m.props = {p}
      <4>1. r = Tail(q)
        <5> DEFINE u == Values(m.props \ {p}, m.on)
        <5>1. u = <<>>
          BY <3>1 DEF Values
        <5> HIDE DEF u, q
        <5>2. u \o Tail(q) = Tail(q)
          BY <1>1, <5>1
        <5> QED BY <5>2 DEF u
      <4> HIDE DEF r
      <4> QED BY <1>0, <1>3, <3>1, <4>1, DropLast
    <3>2. CASE m.props # {p}
      <4> DEFINE n == [kind |-> "values", props |-> m.props \ {p}, on |-> m.on]
      <4>1. r = <<n>> \o Tail(q) /\ n \in Msg
        BY <1>1, <1>3, <2>0, <3>2 DEF Values, Msg
      <4>2. n = [kind |-> "values", props |-> Head(q).props \ {p}, on |-> Head(q).on]
        OBVIOUS
      <4> HIDE DEF r, n
      <4> QED BY <1>0, <1>3, <4>1, <4>2, DropOne
    <3> QED BY <3>1, <3>2
  <2>3. out'[d] = r /\ desc'[d] = b /\ vals'[d] = w /\ stale'[d] = x \ {p} /\ left'[d] \cap stale'[d] = y \ {p}
    BY <1>0, <1>3 DEF TypeOK
  <2>4. \A e \in Device : e # d => out'[e] = out[e] /\ desc'[e] = desc[e] /\ vals'[e] = vals[e] /\ stale'[e] = stale[e]
    BY <1>0, <1>3 DEF TypeOK
  <2> HIDE DEF q, v, b, x, m, w, r
  <2>5. QueuesSound'
    BY <1>0, <2>2, <2>3, <2>4 DEF QueuesSound
  <2>6. QueuesEnd'
    <3>1. ASSUME NEW e \in Own, e # d PROVE IF e \in DOMAIN drivers' THEN Driven(e)' ELSE Undriven(e)'
      BY <1>0, <2>4, <3>1 DEF QueuesEnd, Driven, Undriven, Own
    <3>2. ASSUME d \in Own PROVE IF d \in DOMAIN drivers' THEN Driven(d)' ELSE Undriven(d)'
      <4>1. CASE d \in DOMAIN drivers
        <5>1. Within(v, y, q, drivers[d].shape) /\ EndsAs(b, q, drivers[d].shape)
          BY <1>0, <3>2, <4>1 DEF QueuesEnd, Driven, q, v, b, x
        <5> QED BY <1>0, <2>2, <2>3, <4>1, <5>1 DEF Driven
      <4>2. CASE d \notin DOMAIN drivers
        <5>1. /\ Within(v, left[d], q, {})
              /\ EndsAs(b, q, NONE) \/ (d \in kept /\ \A i \in 1..Len(q) : ~Says(q, i))
          BY <1>0, <3>2, <4>2 DEF QueuesEnd, Undriven, q, v, b
        <5>2. Within(w, left[d], r, {})
          <6>1. Within(w, left[d] \ {p}, r, {})
            BY <2>2, <5>1
          <6> QED BY <6>1 DEF Within
        <5> QED BY <1>0, <2>2, <2>3, <4>2, <5>1, <5>2 DEF Undriven
      <4> QED BY <4>1, <4>2
    <3> QED BY <3>1, <3>2 DEF QueuesEnd
  <2>7. Found'
    BY <1>0 DEF Found, q
  <2>8. TimersAreDriven' /\ Idle' /\ Made' /\ Followed' /\ PurgedClean'
    BY <1>0 DEF TimersAreDriven, Idle, Made, Followed, PurgedClean
  <2> QED BY <2>1, <2>5, <2>6, <2>7, <2>8 DEF BrokerInv, HubInv
<1> QED
  <2>1. \/ /\ m.kind = "descriptor"
           /\ desc' = [desc EXCEPT ![d] = m.shape]
           /\ out' = [out EXCEPT ![d] = Tail(@)]
           /\ UNCHANGED <<vals, stale>>
        \/ /\ m.kind = "values"
           /\ \E p \in m.props :
                /\ vals' = [vals EXCEPT ![d] = IF m.on THEN @ \cup {p} ELSE @ \ {p}]
                /\ out' = [out EXCEPT ![d] = Values(m.props \ {p}, m.on) \o Tail(@)]
                /\ stale' = [stale EXCEPT ![d] = @ \ {p}]
           /\ desc' = desc
    BY DEF Deliver
  <2> HIDE DEF m
  <2> QED BY <1>2, <1>3, <2>1

(***************************************************************************)
(* Starting, stopping and purging                                          *)
(***************************************************************************)
\* What is lost with a queue leaves the broker as it is.
LEMMA Lost ==
    ASSUME NEW q \in Seq(Msg), NEW v, NEW b, NEW x, Sound(v, b, x, q)
    PROVE  Sound(v, b, x, <<>>) /\ \A p \in Prop : p \in v /\ p \notin x => b # NONE
<1>1. 0 \in 0..Len(q) /\ 1..0 = {}
  OBVIOUS
<1>2. \A p : (Old(v, q, 0, p) <=> p \in v) /\ (Descr(b, q, 0, NONE) <=> b = NONE)
  BY <1>1 DEF Old, Descr
<1>3. \A p \in Prop : p \in v /\ p \notin x => b # NONE
  BY <1>1, <1>2 DEF Sound
<1> QED BY <1>3, Empty

\* The first run finds a broker as it should be.
LEMMA BrokerInit ==
    ASSUME Init
    PROVE  BrokerInv
<1>1. TypeOK
  <2>1. Unheard \in [Device -> Known]
    BY DEF Unheard, Known
  <2>2. phase = "down" /\ devices = NoFun /\ drivers = NoFun /\ failed = NoFun /\ previous = NoFun /\ wanted = NoFun
    BY DEF Init
  <2>3. /\ overrides \in Overrides /\ timers = {} /\ saves = 0 /\ heard = Unheard /\ gets = {} /\ kept = {}
        /\ purged = FALSE /\ left \in [Device -> SUBSET Prop] /\ stale \in [Device -> SUBSET Prop]
        /\ spent \in [Kind -> Nat] /\ vals \in [Device -> SUBSET Prop] /\ desc \in [Device -> {NONE} \cup SUBSET Prop]
    BY DEF Init
  <2>4. out \in [Device -> Seq(Msg)]
    BY Empty DEF Init
  <2> QED BY <2>1, <2>2, <2>3, <2>4, Nothing DEF TypeOK
<1>2. TimersAreDriven /\ Idle /\ Made /\ Followed /\ Found /\ QueuesEnd /\ PurgedClean
  BY Nothing DEF Init, TimersAreDriven, Idle, Made, Followed, Found, QueuesEnd, PurgedClean
<1>3. QueuesSound
  <2> SUFFICES ASSUME NEW d \in Device PROVE Sound(vals[d], desc[d], stale[d], out[d])
    BY DEF QueuesSound
  <2>1. out[d] = <<>> /\ \A p \in Prop : p \in vals[d] => desc[d] # NONE
    BY PublisherAssumption DEF Init
  <2> QED BY <2>1, Empty
<1> QED BY <1>1, <1>2, <1>3 DEF BrokerInv, HubInv

\* A run starts with what the run before left.
LEMMA StartKeeps ==
    ASSUME BrokerInv, NEW o \in Overrides, Start(o)
    PROVE  BrokerInv'
<1>0. /\ TypeOK /\ Idle /\ QueuesSound /\ DOMAIN drivers = {} /\ DOMAIN devices = {} /\ DOMAIN failed = {}
      /\ DOMAIN wanted = {} /\ devices = NoFun /\ failed = NoFun /\ wanted = NoFun /\ TimersAreDriven
      /\ \A d \in Device : out[d] = <<>>
      /\ UNCHANGED <<devices, drivers, failed, timers, saves, out, heard, gets, vals, desc, wanted, stale>>
      /\ phase' = "running" /\ overrides' = o /\ left' = vals /\ kept' = Owned /\ purged' = FALSE
      /\ previous' = [d \in Owned |-> vals[d]]
  BY Nothing DEF BrokerInv, HubInv, Start, Idle, TypeOK, runnerVars, brokerVars
<1>1. TypeOK'
  <2>1. spent' \in [Kind -> Nat]
    BY <1>0, Spent DEF Start, Kind, TypeOK
  <2>2. Owned \subseteq Own /\ Own \subseteq Device /\ DOMAIN previous' = Owned
        /\ previous' = [d \in DOMAIN previous' |-> previous'[d]]
        /\ \A d \in Owned : previous'[d] \in SUBSET Prop
    BY <1>0 DEF Owned, Own, TypeOK
  <2>3. previous' \in Partial(Own, SUBSET Prop)
    BY <2>2, Partials
  <2> QED BY <1>0, <2>1, <2>2, <2>3 DEF TypeOK
<1>2. TimersAreDriven' /\ Idle' /\ Made' /\ Followed' /\ PurgedClean'
  BY <1>0 DEF TimersAreDriven, Idle, Made, Followed, PurgedClean
<1>3. Found'
  BY <1>0 DEF Found, Owned
<1>4. QueuesSound'
  BY <1>0 DEF QueuesSound
<1>5. QueuesEnd'
  <2> SUFFICES ASSUME NEW d \in Own PROVE Undriven(d)'
    BY <1>0 DEF QueuesEnd
  <2>1. /\ out'[d] = <<>> /\ vals'[d] = vals[d] /\ desc'[d] = desc[d] /\ left'[d] = vals[d]
        /\ desc[d] # NONE => d \in kept'
    BY <1>0 DEF Own, Owned
  <2>2. Within(vals[d], vals[d], <<>>, {}) /\ (desc[d] = NONE => EndsAs(desc[d], <<>>, NONE))
    BY ZenonT(60), Empty
  <2>3. \A i \in 1..Len(<<>>) : ~Says(<<>>, i)
    BY Empty
  <2> QED BY <2>1, <2>2, <2>3 DEF Undriven
<1> QED BY <1>1, <1>2, <1>3, <1>4, <1>5 DEF BrokerInv, HubInv

\* A Runner asked to stop has no timers; its queues are what they were.
LEMMA StopKeeps ==
    ASSUME BrokerInv, Stop
    PROVE  BrokerInv'
<1>0. /\ TypeOK /\ TimersAreDriven /\ Idle /\ Made /\ Followed /\ Found /\ QueuesSound /\ QueuesEnd /\ PurgedClean
      /\ UNCHANGED <<devices, drivers, overrides, failed, saves, out, previous, heard, gets, vals, desc, wanted, left, kept,
                     purged, stale>>
      /\ phase = "running" /\ phase' = "stopping" /\ timers' = {}
  BY DEF BrokerInv, HubInv, Stop, hubVars, brokerVars, history
<1>1. TypeOK'
  <2>1. spent' \in [Kind -> Nat]
    BY <1>0, Spent DEF Stop, Kind
  <2> QED BY <1>0, <2>1 DEF TypeOK
<1>2. TimersAreDriven' /\ Idle' /\ Made' /\ Followed' /\ PurgedClean' /\ Found' /\ QueuesSound'
  BY <1>0 DEF TimersAreDriven, Idle, Made, Followed, PurgedClean, Found, QueuesSound
<1>3. QueuesEnd'
  BY <1>0, Same DEF QueuesEnd, brokerVars, Own
<1> QED BY <1>1, <1>2, <1>3 DEF BrokerInv, HubInv

\* A purge takes every topic it can find.
LEMMA PurgeKeeps ==
    ASSUME BrokerInv, Purge
    PROVE  BrokerInv'
<1>0. /\ TypeOK /\ TimersAreDriven /\ Idle /\ Made /\ Followed /\ Found /\ QueuesSound
      /\ UNCHANGED <<phase, devices, drivers, overrides, failed, timers, saves, out, previous, heard, gets, wanted, left, kept,
                     stale, spent>>
      /\ phase = "down" /\ purged' = TRUE /\ \A d \in Device : out[d] = <<>>
      /\ desc' = [d \in Device |-> IF d \in Owned THEN NONE ELSE desc[d]]
      /\ vals' = [d \in Device |-> IF d \in Owned THEN {} ELSE vals[d]]
  BY DEF BrokerInv, HubInv, Purge, hubVars, runnerVars, Idle
<1>1. TypeOK'
  BY <1>0 DEF TypeOK
<1>2. TimersAreDriven' /\ Idle' /\ Made' /\ Followed' /\ QueuesEnd'
  BY <1>0 DEF TimersAreDriven, Idle, Made, Followed, QueuesEnd
<1>3. DOMAIN previous = {}
  BY <1>0, Nothing DEF Idle
<1>4. Found' /\ PurgedClean'
  BY <1>0, <1>3 DEF Found, PurgedClean, Owned, Own
<1>5. QueuesSound'
  <2> SUFFICES ASSUME NEW d \in Device PROVE Sound(vals'[d], desc'[d], stale'[d], out'[d])
    BY DEF QueuesSound
  <2>1. Sound(vals[d], desc[d], stale[d], <<>>) /\ out'[d] = <<>> /\ stale'[d] = stale[d]
    BY <1>0 DEF QueuesSound
  <2>2. CASE d \in Owned
    BY <1>0, <2>1, <2>2, Empty
  <2>3. CASE d \notin Owned
    BY <1>0, <2>1, <2>3
  <2> QED BY <2>2, <2>3
<1> QED BY <1>1, <1>2, <1>4, <1>5 DEF BrokerInv, HubInv

\* The next run finds on the broker what this one published so far.
LEMMA EndKeeps ==
    ASSUME BrokerInv, EndRun, timers' = {}, spent' \in [Kind -> Nat]
    PROVE  BrokerInv'
<1>0. /\ TypeOK /\ QueuesSound /\ PurgedClean
      /\ UNCHANGED <<overrides, vals, desc, purged, stale>>
      /\ phase' = "down" /\ devices' = NoFun /\ drivers' = NoFun /\ failed' = NoFun /\ wanted' = NoFun
      /\ previous' = NoFun /\ saves' = 0 /\ gets' = {} /\ heard' = Unheard /\ kept' = {}
      /\ left' = [d \in Device |-> {}] /\ out' = [d \in Device |-> <<>>]
  BY DEF BrokerInv, HubInv, EndRun, brokerVars
<1>1. TypeOK'
  <2>1. Unheard \in [Device -> Known]
    BY DEF Unheard, Known
  <2> QED BY <1>0, <2>1, Nothing DEF TypeOK
<1>2. TimersAreDriven' /\ Idle' /\ Made' /\ Followed' /\ QueuesEnd' /\ Found' /\ PurgedClean'
  BY <1>0, Nothing DEF TimersAreDriven, Idle, Made, Followed, QueuesEnd, Found, PurgedClean
<1>3. QueuesSound'
  <2> SUFFICES ASSUME NEW d \in Device PROVE Sound(vals'[d], desc'[d], stale'[d], out'[d])
    BY DEF QueuesSound
  <2>1. Sound(vals[d], desc[d], stale[d], <<>>)
    BY <1>0, Lost DEF QueuesSound, TypeOK
  <2> QED BY <1>0, <2>1
<1> QED BY <1>1, <1>2, <1>3 DEF BrokerInv, HubInv

(***************************************************************************)
(* The specification                                                       *)
(***************************************************************************)
\* Where nothing changes, the invariant stays.
LEMMA StutterKeeps ==
    ASSUME BrokerInv, UNCHANGED vars
    PROVE  BrokerInv'
<1>1. UNCHANGED <<phase, devices, drivers, overrides, failed, timers, saves, out, previous, heard, gets, desc, vals,
                  wanted, left, kept, purged, stale, spent>>
  BY DEF vars, hubVars, runnerVars, brokerVars, history
<1>2. HubInv'
  BY <1>1 DEF BrokerInv, HubInv, TypeOK, TimersAreDriven, Idle, Made, Followed
<1>3. Found' /\ QueuesSound' /\ PurgedClean'
  BY <1>1 DEF BrokerInv, Found, QueuesSound, PurgedClean
<1>4. QueuesEnd'
  BY <1>1, Same DEF BrokerInv, QueuesEnd, brokerVars, Own
<1> QED BY <1>2, <1>3, <1>4 DEF BrokerInv

\* A queue says of every device that is driven what its driver is, and clears
\* the others, whatever of it reached the broker when the service ended.
THEOREM PublisherInvariant == Spec => []BrokerInv
<1>1. Init => BrokerInv
  BY BrokerInit
<1>2. BrokerInv /\ [Next]_vars => BrokerInv'
  <2> SUFFICES ASSUME BrokerInv, [Next]_vars PROVE BrokerInv'
    OBVIOUS
  <2>0. HubInv /\ TypeOK /\ Idle
    BY DEF BrokerInv, HubInv
  <2>1. CASE SaveSettings \/ NotSaved
    BY <2>0, <2>1, SettingsTell, ToldKeeps
  <2>2. CASE Reconnected
    BY <2>0, <2>2, ReconnectTells, ToldKeeps
  <2>3. CASE Stop
    BY <2>3, StopKeeps
  <2>4. CASE Closed \/ Crash
    <3>1. EndRun /\ timers' = {}
      BY <2>4 DEF Closed, Crash
    <3>2. spent' \in [Kind -> Nat]
      BY <2>0, <2>4, Spent DEF Closed, Crash, Kind, TypeOK
    <3> QED BY <3>1, <3>2, EndKeeps
  <2>5. CASE Purge
    BY <2>5, PurgeKeeps
  <2>6. ASSUME NEW d \in Device, Fire(d) PROVE BrokerInv'
    BY <2>0, <2>6, FireTells, ToldKeeps
  <2>7. ASSUME NEW d \in Device, Deliver(d) PROVE BrokerInv'
    BY <2>7, DeliverKeeps
  <2>8. ASSUME NEW want \in Partial(Own, Record), NEW forgotten \in SUBSET Own, NEW armed \in {{}, Own},
               SyncDevices(want, forgotten, armed)
        PROVE  BrokerInv'
    BY <2>8, SyncBroker
  <2>9. ASSUME NEW o \in Overrides, NEW armed \in {{}, Own}, Reload(o, armed) PROVE BrokerInv'
    <3>1. phase # "down" /\ phase' = phase /\ Apply(o, armed) /\ saves' \in Nat /\ spent' \in [Kind -> Nat]
      BY <2>0, <2>9, Spent DEF Reload, Kind, TypeOK
    <3> QED BY <3>1, ApplyBroker
  <2>10. ASSUME NEW o \in Overrides, NEW armed \in {{}, Own}, Saved(o, armed) PROVE BrokerInv'
    <3>1. phase # "down" /\ phase' = phase /\ Apply(o, armed) /\ saves' \in Nat /\ spent' \in [Kind -> Nat]
      BY <2>0, <2>10 DEF Saved, TypeOK, Idle
    <3> QED BY <3>1, ApplyBroker
  <2>11. ASSUME NEW o \in Overrides, Start(o) PROVE BrokerInv'
    BY <2>11, StartKeeps
  <2>12. ASSUME NEW d \in Own, NEW up \in BOOLEAN, NEW retained \in BOOLEAN, Link(d, up, retained) PROVE BrokerInv'
    BY <2>0, <2>12, LinkTells, ToldKeeps
  <2>13. ASSUME NEW d \in Own, NEW arms \in BOOLEAN, State(d, arms) PROVE BrokerInv'
    BY <2>0, <2>13, StateTells, ToldKeeps
  <2>14. CASE UNCHANGED vars
    BY <2>14, StutterKeeps
  <2> QED BY <2>1, <2>2, <2>3, <2>4, <2>5, <2>6, <2>7, <2>8, <2>9, <2>10, <2>11, <2>12, <2>13, <2>14
          DEF Next, Work, Inputs
<1> QED BY <1>1, <1>2, PTL DEF Spec

\* Every reachable state is well typed, and no timer outlives its driver
\* (Runner._fire, Runner.stop).
THEOREM PublisherTypes == Spec => []IInv
<1>1. BrokerInv => IInv
  BY DEF BrokerInv, HubInv, IInv
<1> QED BY <1>1, PublisherInvariant, PTL

\* No value is retained without the descriptor a later run, or a purge, finds
\* it by, whenever the service crashes (IlTopics.clear, Hub._adopt).
THEOREM NothingOrphaned == Spec => []NoOrphan
<1>1. BrokerInv => NoOrphan
  <2> SUFFICES ASSUME BrokerInv, NEW d \in Device, vals[d] \ stale[d] # {} PROVE desc[d] # NONE
    BY DEF NoOrphan
  <2>1. vals[d] \in SUBSET Prop /\ out[d] \in Seq(Msg) /\ Sound(vals[d], desc[d], stale[d], out[d])
    BY DEF BrokerInv, HubInv, TypeOK, QueuesSound
  <2> QED BY <2>1, Lost
<1> QED BY <1>1, PublisherInvariant, PTL

\* What the device file, the registry and the overrides ask for is driven, and
\* on the broker once the queue is drained (sync_devices, reload).
THEOREM BrokerMirrors == Spec => []Mirrors
<1>1. BrokerInv => AcceptedIsDriven
  BY DEF BrokerInv, HubInv, Followed, AcceptedIsDriven
<1>2. BrokerInv => OnBroker
  <2> SUFFICES ASSUME BrokerInv, phase = "running", NEW d \in Own, out[d] = <<>>
               PROVE  /\ d \in DOMAIN drivers => /\ desc[d] = drivers[d].shape
                                                 /\ vals[d] \subseteq drivers[d].shape \cup left[d]
                      /\ d \notin DOMAIN drivers => /\ desc[d] # NONE => d \in kept
                                                    /\ vals[d] \subseteq left[d]
    BY DEF OnBroker, Settled
  <2>1. vals[d] \in SUBSET Prop
    BY DEF BrokerInv, HubInv, TypeOK, Own
  <2>2. ASSUME d \in DOMAIN drivers
        PROVE  desc[d] = drivers[d].shape /\ vals[d] \subseteq drivers[d].shape \cup left[d]
    <3>1. /\ Within(vals[d], left[d] \cap stale[d], <<>>, drivers[d].shape)
          /\ EndsAs(desc[d], <<>>, drivers[d].shape)
      BY <2>2 DEF BrokerInv, QueuesEnd, Driven
    <3> DEFINE x == left[d] \cap stale[d]
               s == drivers[d].shape
               b == desc[d]
               v == vals[d]
    <3>2. Within(v, x, <<>>, s) /\ EndsAs(b, <<>>, s)
      BY <3>1
    <3> HIDE DEF x, s, b, v
    <3>3. b = s /\ \A p \in Prop : p \in v => p \in s \cup x
      BY <3>2, Empty
    <3> QED BY <2>1, <3>3 DEF x, s, b, v
  <2>3. ASSUME d \notin DOMAIN drivers
        PROVE  (desc[d] # NONE => d \in kept) /\ vals[d] \subseteq left[d]
    <3>1. Within(vals[d], left[d], <<>>, {}) /\ (EndsAs(desc[d], <<>>, NONE) \/ d \in kept)
      BY <2>3 DEF BrokerInv, QueuesEnd, Undriven
    <3> DEFINE x == left[d]
               b == desc[d]
               v == vals[d]
    <3>2. Within(v, x, <<>>, {}) /\ (EndsAs(b, <<>>, NONE) \/ d \in kept)
      BY <3>1
    <3> HIDE DEF x, b, v
    <3>3. (b # NONE => d \in kept) /\ \A p \in Prop : p \in v => p \in {} \cup x
      BY <3>2, Empty
    <3> QED BY <2>1, <3>3 DEF x, b, v
  <2> QED BY <2>2, <2>3
<1> QED BY <1>1, <1>2, PublisherInvariant, PTL DEF Mirrors

\* A purge leaves no topic of the producer's behind (purge_il).
THEOREM PurgeComplete == Spec => []PurgeClears
<1>1. BrokerInv => PurgeClears
  <2> SUFFICES ASSUME BrokerInv, purged, NEW d \in Own PROVE desc[d] = NONE /\ vals[d] \subseteq stale[d]
    BY DEF PurgeClears
  <2>1. desc[d] = NONE /\ d \in Device
    BY DEF BrokerInv, PurgedClean, Own
  <2>2. vals[d] \in SUBSET Prop /\ out[d] \in Seq(Msg) /\ Sound(vals[d], desc[d], stale[d], out[d])
    BY <2>1 DEF BrokerInv, HubInv, TypeOK, QueuesSound
  <2>3. \A p \in Prop : p \in vals[d] /\ p \notin stale[d] => desc[d] # NONE
    BY <2>2, Lost
  <2> QED BY <2>1, <2>2, <2>3
<1> QED BY <1>1, PublisherInvariant, PTL

(***************************************************************************)
(* What is known of a device, where the rules refuse nothing               *)
(***************************************************************************)
NothingRefused == \A x \in Record \X Overrides : Shape[x] # REFUSED

\* What a driver has to know of its device.
Knows(k, dr, asked) ==
    /\ k.link = "up" => dr.link = "up" /\ (dr.synced \/ asked)
    /\ k.link = "none" /\ k.state => dr.synced

\* A driver made of a seed knows what the seed does, and of a driver what that
\* did, once what is missing is asked for.
LEMMA SeedKnows ==
    ASSUME NEW ps \in SUBSET Prop
    PROVE  /\ \A k \in Known : Knows(k, Seeded(ps, k), Seeded(ps, k).link = "up" /\ ~Seeded(ps, k).synced)
           /\ \A k \in Known, dr \in Driver, asked \in BOOLEAN : LET nw == Seeded(ps, Carried(dr)) IN
                Knows(k, dr, asked) => Knows(k, nw, asked \/ (nw.link = "up" /\ ~nw.synced))
BY DEF Knows, Seeded, Carried, Known, Driver

\* Nothing is left to be tried again.
LEMMA NoneFailed ==
    ASSUME NothingRefused, HubInv
    PROVE  DOMAIN failed = {}
<1>1. \A d \in DOMAIN failed : failed[d] \in Record /\ Shape[<<failed[d], overrides>>] = REFUSED
  BY Partials DEF HubInv, TypeOK, Followed
<1>2. overrides \in Overrides
  BY DEF HubInv, TypeOK
<1> QED BY <1>1, <1>2 DEF NothingRefused

\* A sync hands over what was heard.
LEMMA SyncKnows ==
    ASSUME HubInv, HeardIsKnown, NEW want \in Partial(Own, Record), NEW forgotten \in SUBSET Own,
           NEW armed \in {{}, Own}, forgotten \cap DOMAIN want = {}, SyncDevices(want, forgotten, armed)
    PROVE  HeardIsKnown'
<1>0. TypeOK /\ Synced(want, armed)
  BY SyncView DEF HubInv
<1>1. /\ heard' = [d \in Device |-> IF d \in forgotten THEN Unheard[d] ELSE heard[d]]
      /\ gets' = gets \cup {d \in Making(want) : Newly(want)[d].link = "up" /\ ~Newly(want)[d].synced}
  BY DEF SyncDevices, Todo, Making, Newly
<1> SUFFICES ASSUME NEW d \in DOMAIN drivers' PROVE Knows(heard'[d], drivers'[d], d \in gets')
  BY DEF HeardIsKnown, Knows
<1>2. d \in DOMAIN want /\ d \in Device /\ d \notin forgotten /\ heard'[d] = heard[d] /\ heard[d] \in Known
  <2>1. d \in Making(want) \/ (d \in DOMAIN devices /\ d \in DOMAIN want)
    BY <1>0 DEF Synced, Gone
  <2> QED BY <1>0, <1>1, <2>1, SyncMakes DEF TypeOK
<1>3. CASE d \in Making(want)
  <2> DEFINE ps == Shape[<<want[d], overrides>>]
             nw == Newly(want)[d]
  <2>1. nw = Seeded(ps, Seed(d)) /\ ps \in SUBSET Prop /\ drivers'[d] = nw
        /\ ((nw.link = "up" /\ ~nw.synced) => d \in gets')
    BY <1>0, <1>1, <1>3, SyncMakes DEF Newly, Synced, Driver
  <2>2. CASE Seed(d) = heard[d]
    BY <1>2, <2>1, <2>2, SeedKnows DEF Knows
  <2>3. CASE heard[d] = Unheard[d]
    BY <1>2, <2>3, Drivers DEF Knows
  <2> QED BY <2>2, <2>3 DEF Seed
<1>4. CASE d \notin Making(want)
  <2>1. d \in DOMAIN drivers /\ drivers'[d] = drivers[d] /\ (d \in gets => d \in gets')
    BY <1>0, <1>1, <1>4, SyncMakes DEF Synced
  <2> QED BY <1>2, <2>1 DEF HeardIsKnown, Knows
<1> QED BY <1>3, <1>4

\* A reload carries it over.
LEMMA ApplyKnows ==
    ASSUME NothingRefused, HubInv, HeardIsKnown, NEW o \in Overrides, NEW armed \in {{}, Own}, Apply(o, armed)
    PROVE  HeardIsKnown'
<1>0. TypeOK /\ DOMAIN failed = {} /\ UNCHANGED heard
  BY NoneFailed DEF HubInv, Apply
<1>1. CASE Accepts(o) /\ ReloadWith(o, armed)
  <2>0. Reloaded(o, armed) /\ Fixed(o) = {}
    BY <1>0, <1>1, ReloadView, ReloadMakes
  <2>1. {d \in Replaced(o) : Between(o)[d].link = "up" /\ ~Between(o)[d].synced} \cup gets \subseteq gets'
    BY <1>1 DEF ReloadWith, Replaced, Between
  <2> SUFFICES ASSUME NEW d \in DOMAIN drivers' PROVE Knows(heard'[d], drivers'[d], d \in gets')
    BY DEF HeardIsKnown, Knows
  <2>2. /\ d \in DOMAIN drivers /\ d \in DOMAIN devices /\ drivers'[d] = Between(o)[d] /\ drivers[d] \in Driver
        /\ d \in Device /\ heard'[d] = heard[d] /\ heard[d] \in Known
    BY <1>0, <1>1, <2>0, ReloadMakes DEF Reloaded, TypeOK
  <2>3. Knows(heard[d], drivers[d], d \in gets)
    BY <2>2 DEF HeardIsKnown, Knows
  <2>4. CASE d \in Replaced(o)
    <3> DEFINE ps == Shape[<<devices[d], o>>]
               nw == Between(o)[d]
    <3>1. nw = Seeded(ps, Carried(drivers[d]))
      BY <2>2, <2>4 DEF Between
    <3>2. ps \in SUBSET Prop
      BY <1>0, <1>1, <2>2, ReloadMakes DEF Driver
    <3>3. (nw.link = "up" /\ ~nw.synced) => d \in gets'
      BY <2>1, <2>4
    <3>4. d \in gets => d \in gets'
      BY <2>1
    <3> HIDE DEF ps, nw
    <3>5. Knows(heard[d], nw, d \in gets \/ (nw.link = "up" /\ ~nw.synced))
      BY <2>2, <2>3, <3>1, <3>2, SeedKnows DEF Knows
    <3> QED BY <2>2, <3>3, <3>4, <3>5 DEF Knows, nw
  <2>5. CASE d \notin Replaced(o)
    <3>1. drivers'[d] = drivers[d] /\ (d \in gets => d \in gets')
      BY <1>0, <1>1, <2>1, <2>2, <2>5, ReloadMakes
    <3> QED BY <2>2, <2>3, <3>1 DEF Knows
  <2> QED BY <2>4, <2>5
<1>2. CASE UNCHANGED <<hubVars, failed, timers, gets, out, kept, stale>>
  BY <1>0, <1>2 DEF hubVars, HeardIsKnown
<1> QED BY <1>1, <1>2 DEF Apply

\* A link frame is heard by the client and the driver.
LEMMA LinkKnows ==
    ASSUME HubInv, HeardIsKnown, NEW d \in Own, NEW up \in BOOLEAN, NEW retained \in BOOLEAN,
           Link(d, up, retained)
    PROVE  HeardIsKnown'
<1>0. heard \in [Device -> Known] /\ d \in Device /\ \A e \in DOMAIN drivers : drivers[e] \in Driver /\ e \in Device
  BY Partials DEF HubInv, TypeOK, Own
<1>1. /\ heard' = [heard EXCEPT ![d].link = IF up THEN "up" ELSE "down"]
      /\ \/ d \notin DOMAIN drivers /\ UNCHANGED <<drivers, gets>>
         \/ /\ d \in DOMAIN drivers /\ up
            /\ drivers' = [drivers EXCEPT ![d].link = "up"]
            /\ gets' = IF retained /\ drivers[d].synced THEN gets ELSE gets \cup {d}
         \/ /\ d \in DOMAIN drivers /\ ~up
            /\ drivers' = [drivers EXCEPT ![d].link = "down", ![d].synced = FALSE]
            /\ gets' = gets \ {d}
  BY DEF Link
<1> SUFFICES ASSUME NEW e \in DOMAIN drivers' PROVE Knows(heard'[e], drivers'[e], e \in gets')
  BY DEF HeardIsKnown, Knows
<1>2. e \in DOMAIN drivers /\ e \in Device /\ heard[e] \in Known /\ drivers[e] \in Driver
  BY <1>0, <1>1
<1>3. CASE e # d
  <2>1. heard'[e] = heard[e] /\ drivers'[e] = drivers[e] /\ (e \in gets' <=> e \in gets)
    BY <1>0, <1>1, <1>2, <1>3
  <2> QED BY <1>2, <2>1 DEF HeardIsKnown, Knows
<1>4. CASE e = d /\ up
  <2>1. /\ heard'[d].link = "up" /\ drivers'[d].link = "up" /\ drivers'[d].synced = drivers[d].synced
        /\ drivers[d].synced \/ d \in gets'
    BY <1>0, <1>1, <1>2, <1>4 DEF Known, Driver
  <2> QED BY <1>4, <2>1 DEF Knows
<1>5. CASE e = d /\ ~up
  <2>1. heard'[d].link = "down"
    BY <1>0, <1>1, <1>2, <1>5 DEF Known
  <2> QED BY <1>5, <2>1 DEF Knows
<1> QED BY <1>3, <1>4, <1>5

\* So is a state.
LEMMA StateKnows ==
    ASSUME HubInv, HeardIsKnown, NEW d \in Own, NEW arms \in BOOLEAN, State(d, arms)
    PROVE  HeardIsKnown'
<1>0. heard \in [Device -> Known] /\ d \in Device /\ \A e \in DOMAIN drivers : drivers[e] \in Driver /\ e \in Device
  BY Partials DEF HubInv, TypeOK, Own
<1>1. /\ heard' = [heard EXCEPT ![d].state = TRUE] /\ gets' = gets \ {d}
      /\ \/ d \notin DOMAIN drivers /\ UNCHANGED drivers
         \/ d \in DOMAIN drivers /\ drivers' = [drivers EXCEPT ![d].synced = TRUE]
  BY DEF State
<1> SUFFICES ASSUME NEW e \in DOMAIN drivers' PROVE Knows(heard'[e], drivers'[e], e \in gets')
  BY DEF HeardIsKnown, Knows
<1>2. e \in DOMAIN drivers /\ e \in Device /\ heard[e] \in Known /\ drivers[e] \in Driver
  BY <1>0, <1>1
<1>3. CASE e # d
  <2>1. heard'[e] = heard[e] /\ drivers'[e] = drivers[e] /\ (e \in gets' <=> e \in gets)
    BY <1>0, <1>1, <1>2, <1>3
  <2> QED BY <1>2, <2>1 DEF HeardIsKnown, Knows
<1>4. CASE e = d
  <2>1. heard'[d].link = heard[d].link /\ drivers'[d].link = drivers[d].link /\ drivers'[d].synced = TRUE
    BY <1>0, <1>1, <1>2, <1>4 DEF Known, Driver
  <2>2. heard[d].link = "up" => drivers[d].link = "up"
    BY <1>2, <1>4 DEF HeardIsKnown
  <2> QED BY <1>4, <2>1, <2>2 DEF Knows
<1> QED BY <1>3, <1>4

\* A driver of a device that is up knows it, and has its state or has asked
\* for it, whatever came first (BridgeClient._seed, Hub.set_device, Runner.reload).
THEOREM HeardKnown ==
    ASSUME NothingRefused
    PROVE  Spec => []HeardIsKnown
<1>1. Init => HeardIsKnown
  BY Nothing DEF Init, HeardIsKnown
<1>2. BrokerInv /\ HeardIsKnown /\ [Next]_vars => HeardIsKnown'
  <2> SUFFICES ASSUME BrokerInv, HeardIsKnown, [Next]_vars PROVE HeardIsKnown'
    OBVIOUS
  <2>0. HubInv /\ Idle /\ TypeOK
    BY DEF BrokerInv, HubInv
  <2>1. CASE UNCHANGED <<drivers, heard, gets>>
    BY <2>1 DEF HeardIsKnown
  <2>2. CASE DOMAIN drivers' = {}
    BY <2>2 DEF HeardIsKnown
  <2>3. ASSUME NEW want \in Partial(Own, Record), NEW forgotten \in SUBSET Own, NEW armed \in {{}, Own},
               forgotten \cap DOMAIN want = {}, SyncDevices(want, forgotten, armed)
        PROVE  HeardIsKnown'
    BY <2>0, <2>3, SyncKnows
  <2>4. ASSUME NEW o \in Overrides, NEW armed \in {{}, Own}, Reload(o, armed) \/ Saved(o, armed) PROVE HeardIsKnown'
    <3>1. Apply(o, armed)
      BY <2>4 DEF Reload, Saved
    <3> QED BY <2>0, <3>1, ApplyKnows
  <2>5. ASSUME NEW d \in Own, NEW up \in BOOLEAN, NEW retained \in BOOLEAN, Link(d, up, retained) PROVE HeardIsKnown'
    BY <2>0, <2>5, LinkKnows
  <2>6. ASSUME NEW d \in Own, NEW arms \in BOOLEAN, State(d, arms) PROVE HeardIsKnown'
    BY <2>0, <2>6, StateKnows
  <2>7. SaveSettings \/ NotSaved \/ Reconnected \/ Stop \/ Purge \/ (\E d \in Device : Fire(d) \/ Deliver(d))
           => UNCHANGED <<drivers, heard, gets>>
    BY DEF SaveSettings, NotSaved, Reconnected, Stop, Purge, Fire, Deliver, hubVars
  <2>8. Closed \/ Crash => DOMAIN drivers' = {}
    BY Nothing DEF Closed, Crash, EndRun
  <2>9. ASSUME NEW o \in Overrides, Start(o) PROVE UNCHANGED <<drivers, heard, gets>>
    BY <2>9 DEF Start
  <2>10. UNCHANGED vars => UNCHANGED <<drivers, heard, gets>>
    BY DEF vars, hubVars
  <2> QED BY <2>1, <2>2, <2>3, <2>4, <2>5, <2>6, <2>7, <2>8, <2>9, <2>10 DEF Next, Work, Inputs
<1> QED BY <1>1, <1>2, PublisherInvariant, PTL DEF Spec
=============================================================================
