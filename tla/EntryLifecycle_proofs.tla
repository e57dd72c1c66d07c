----------------------- MODULE EntryLifecycle_proofs ------------------------
(***************************************************************************)
(* Proofs about EntryLifecycle, for any number of tasks and any bounds.    *)
(***************************************************************************)
EXTENDS EntryLifecycle, FiniteSetTheorems, SequenceTheorems, TLAPS

(***************************************************************************)
(* Where a process is: its label, and the calls it goes back to            *)
(***************************************************************************)
RestartAt == {"rlock", "rstop", "rmake", "rdone"}
SetupAt == {"bridge", "read", "store", "platforms", "hub", "sdone", "undo", "undone"}
UnloadAt == {"uplatforms", "ulock", "ustop", "uhub", "ubridge"}
StartAt == {"check", "run"}
AfterRestart == {"saved", "unsaved", "listened"}
AfterSetup == {"changed", "restored", "end"}
AfterUnload == {"change", "rollback", "reloaded"}

\* What it began with goes on there, and a start within it there.
Outer(p) == IF ret[p] = <<>> THEN "idle" ELSE ret[p][Len(ret[p])]
Inner(p) == IF Len(ret[p]) = 2 THEN ret[p][1] ELSE "idle"

\* No more than a call within a call.
Deep(p) ==
    /\ Len(ret[p]) \in 0..2 /\ (ret[p] = <<>> <=> Outer(p) = "idle")
    /\ Len(ret[p]) = 2 <=> Inner(p) # "idle"

Placed(label, outer, inner) ==
    /\ label \in RestartAt => outer \in AfterRestart /\ inner = "idle"
    /\ label \in {"setup"} \cup SetupAt => outer \in AfterSetup /\ inner = "idle"
    /\ label \in {"unload"} \cup UnloadAt => outer \in AfterUnload /\ inner = "idle"
    /\ label \in StartAt => \/ inner = "rdone" /\ outer \in AfterRestart
                            \/ inner = "sdone" /\ outer \in AfterSetup
    /\ label \in {"idle", "fread", "hand"} \cup AfterRestart \cup AfterSetup \cup AfterUnload =>
         outer = "idle" /\ inner = "idle"

Calls(p) == Placed(pc[p], Outer(p), Inner(p))

Control ==
    /\ pc \in [Proc -> Label] /\ ret \in [Proc -> Seq(Label)]
    /\ result \in [Proc -> {"ok", "no", "raised"}]
    /\ \A p \in Proc : Deep(p)

\* A step of `p` to a label, with these calls to go back to and this result.
At(p, label, outer, inner, how) ==
    /\ pc'[p] = label /\ Outer(p)' = outer /\ Inner(p)' = inner /\ result'[p] = how
    /\ \A q \in Proc \ {p} : pc'[q] = pc[q] /\ ret'[q] = ret[q] /\ result'[q] = result[q]

LEMMA Pushed ==
    ASSUME NEW s \in Seq(Label), NEW b \in Label
    PROVE  /\ <<b>> \o s \in Seq(Label) /\ Len(<<b>> \o s) = Len(s) + 1
           /\ (<<b>> \o s)[1] = b
           /\ \A i \in 1..Len(s) : (<<b>> \o s)[i + 1] = s[i]
<1>1. <<b>> \in Seq(Label) /\ Len(<<b>>) = 1 /\ <<b>>[1] = b
  OBVIOUS
<1>2. Len(s) \in Nat
  BY LenProperties
<1>3. /\ <<b>> \o s \in Seq(Label) /\ Len(<<b>> \o s) = 1 + Len(s)
      /\ \A i \in 1 .. 1 + Len(s) : (<<b>> \o s)[i] = IF i <= 1 THEN <<b>>[i] ELSE s[i - 1]
  BY <1>1, ConcatProperties
<1> QED BY <1>1, <1>2, <1>3

LEMMA GotoAt ==
    ASSUME Control, NEW p \in Proc, NEW l \in Label, Goto(p, l)
    PROVE  Control' /\ At(p, l, Outer(p), Inner(p), result[p])
<1>1. pc' \in [Proc -> Label] /\ pc'[p] = l /\ \A q \in Proc \ {p} : pc'[q] = pc[q]
  BY DEF Goto, Control
<1>2. ret' = ret /\ result' = result
  BY DEF Goto
<1> QED BY <1>1, <1>2 DEF Control, At, Deep, Outer, Inner

\* A call from a process that is in none, and one from within a call.
LEMMA CallAt ==
    ASSUME Control, NEW p \in Proc, NEW l \in Label, NEW b \in Label, b # "idle", Call(p, l, b),
           Outer(p) = "idle"
    PROVE  Control' /\ At(p, l, b, "idle", result[p])
<1>1. /\ pc' \in [Proc -> Label] /\ pc'[p] = l /\ result' = result
      /\ ret' = [ret EXCEPT ![p] = <<b>> \o ret[p]]
      /\ \A q \in Proc \ {p} : pc'[q] = pc[q] /\ ret'[q] = ret[q]
  BY DEF Call, Control
<1>2. ret[p] = <<>> /\ ret[p] \in Seq(Label)
  BY DEF Control, Deep
<1>3. <<b>> \o ret[p] \in Seq(Label) /\ Len(<<b>> \o ret[p]) = 1 /\ (<<b>> \o ret[p])[1] = b
  BY <1>2, Pushed, EmptySeq
<1>4. ret' \in [Proc -> Seq(Label)] /\ Len(ret'[p]) = 1 /\ ret'[p][1] = b /\ ret'[p] # <<>>
  BY <1>1, <1>3, EmptySeq DEF Control
<1>5. Outer(p)' = b /\ Inner(p)' = "idle" /\ Deep(p)'
  BY <1>4 DEF Outer, Inner, Deep
<1> QED BY <1>1, <1>4, <1>5 DEF Control, At, Deep, Outer, Inner

LEMMA CallInAt ==
    ASSUME Control, NEW p \in Proc, NEW l \in Label, NEW b \in Label, b # "idle", Call(p, l, b),
           Outer(p) # "idle", Inner(p) = "idle"
    PROVE  Control' /\ At(p, l, Outer(p), b, result[p])
<1>1. /\ pc' \in [Proc -> Label] /\ pc'[p] = l /\ result' = result
      /\ ret' = [ret EXCEPT ![p] = <<b>> \o ret[p]]
      /\ \A q \in Proc \ {p} : pc'[q] = pc[q] /\ ret'[q] = ret[q]
  BY DEF Call, Control
<1>2. ret[p] \in Seq(Label) /\ Len(ret[p]) = 1 /\ ret[p][1] = Outer(p)
  <2>1. ret[p] \in Seq(Label) /\ ret[p] # <<>> /\ Len(ret[p]) \in 0..2 /\ Len(ret[p]) # 2
    BY DEF Control, Deep
  <2>2. Len(ret[p]) # 0
    BY <2>1, EmptySeq
  <2> QED BY <2>1, <2>2 DEF Outer
<1>3. /\ <<b>> \o ret[p] \in Seq(Label) /\ Len(<<b>> \o ret[p]) = 2
      /\ (<<b>> \o ret[p])[1] = b /\ (<<b>> \o ret[p])[2] = Outer(p)
  BY <1>2, Pushed
<1>4. /\ ret' \in [Proc -> Seq(Label)] /\ Len(ret'[p]) = 2
      /\ ret'[p][1] = b /\ ret'[p][2] = Outer(p) /\ ret'[p] # <<>>
  BY <1>1, <1>3, EmptySeq DEF Control
<1>5. Outer(p)' = Outer(p) /\ Inner(p)' = b /\ Deep(p)'
  BY <1>4 DEF Outer, Inner, Deep
<1> QED BY <1>1, <1>4, <1>5 DEF Control, At, Deep, Outer, Inner

\* The return from a call, and from one within a call.
LEMMA ReturnAt ==
    ASSUME Control, NEW p \in Proc, NEW how \in {"ok", "no", "raised"}, Return(p, how),
           Outer(p) # "idle", Inner(p) = "idle"
    PROVE  Control' /\ At(p, Outer(p), "idle", "idle", how)
<1>1. ret[p] \in Seq(Label) /\ Len(ret[p]) = 1 /\ ret[p] # <<>>
  <2>1. ret[p] \in Seq(Label) /\ ret[p] # <<>> /\ Len(ret[p]) \in 0..2 /\ Len(ret[p]) # 2
    BY DEF Control, Deep
  <2> QED BY <2>1, EmptySeq
<1>2. /\ Head(ret[p]) \in Label /\ Head(ret[p]) = Outer(p)
      /\ Tail(ret[p]) \in Seq(Label) /\ Tail(ret[p]) = <<>>
  <2>1. Head(ret[p]) \in Label /\ Tail(ret[p]) \in Seq(Label) /\ Len(Tail(ret[p])) = 0
    BY <1>1, HeadTailProperties
  <2>2. Tail(ret[p]) = <<>>
    BY <2>1, EmptySeq
  <2>3. Head(ret[p]) = Outer(p)
    BY <1>1 DEF Outer
  <2> QED BY <2>1, <2>2, <2>3
<1>3. /\ pc' \in [Proc -> Label] /\ pc'[p] = Outer(p) /\ ret' \in [Proc -> Seq(Label)] /\ ret'[p] = <<>>
      /\ result' \in [Proc -> {"ok", "no", "raised"}] /\ result'[p] = how
      /\ \A q \in Proc \ {p} : pc'[q] = pc[q] /\ ret'[q] = ret[q] /\ result'[q] = result[q]
  BY <1>2 DEF Return, Control
<1>4. Outer(p)' = "idle" /\ Inner(p)' = "idle" /\ Deep(p)'
  BY <1>3 DEF Outer, Inner, Deep
<1> QED BY <1>3, <1>4 DEF Control, At, Deep, Outer, Inner

LEMMA ReturnInAt ==
    ASSUME Control, NEW p \in Proc, NEW how \in {"ok", "no", "raised"}, Return(p, how),
           Outer(p) # "idle", Inner(p) # "idle"
    PROVE  Control' /\ At(p, Inner(p), Outer(p), "idle", how)
<1>1. ret[p] \in Seq(Label) /\ Len(ret[p]) = 2 /\ ret[p] # <<>>
  BY DEF Control, Deep
<1>2. /\ Head(ret[p]) \in Label /\ Head(ret[p]) = Inner(p)
      /\ Tail(ret[p]) \in Seq(Label) /\ Len(Tail(ret[p])) = 1 /\ Tail(ret[p])[1] = Outer(p)
      /\ Tail(ret[p]) # <<>>
  <2>1. /\ Head(ret[p]) \in Label /\ Tail(ret[p]) \in Seq(Label) /\ Len(Tail(ret[p])) = 1
        /\ Tail(ret[p])[1] = ret[p][2]
    BY <1>1, HeadTailProperties
  <2>2. PICK s : s = Tail(ret[p])
    OBVIOUS
  <2>5. s = <<>> => Len(s) = 0
    OBVIOUS
  <2>3. Head(ret[p]) = Inner(p)
    BY <1>1 DEF Inner
  <2>4. ret[p][2] = Outer(p)
    BY <1>1 DEF Outer
  <2> QED BY <2>1, <2>2, <2>3, <2>4, <2>5
<1>3. /\ pc' \in [Proc -> Label] /\ pc'[p] = Inner(p)
      /\ ret' \in [Proc -> Seq(Label)] /\ ret'[p] = Tail(ret[p])
      /\ result' \in [Proc -> {"ok", "no", "raised"}] /\ result'[p] = how
      /\ \A q \in Proc \ {p} : pc'[q] = pc[q] /\ ret'[q] = ret[q] /\ result'[q] = result[q]
  BY <1>2 DEF Return, Control
<1>4. Len(ret'[p]) = 1 /\ ret'[p] # <<>> /\ ret'[p][1] = Outer(p)
  BY <1>2, <1>3
<1>5. Outer(p)' = Outer(p) /\ Inner(p)' = "idle" /\ Deep(p)'
  BY <1>4 DEF Outer, Inner, Deep
<1> QED BY <1>3, <1>5 DEF Control, At, Deep, Outer, Inner

LEMMA RaisedAt ==
    ASSUME Control, NEW p \in Proc, NEW b \in Label, Raised(p, b)
    PROVE  Control' /\ At(p, b, Outer(p), Inner(p), "raised")
<1>1. /\ pc' \in [Proc -> Label] /\ pc'[p] = b /\ ret' = ret
      /\ result' \in [Proc -> {"ok", "no", "raised"}] /\ result'[p] = "raised"
      /\ \A q \in Proc \ {p} : pc'[q] = pc[q] /\ result'[q] = result[q]
  BY DEF Raised, Control
<1> QED BY <1>1 DEF Control, At, Deep, Outer, Inner

LEMMA RestAt ==
    ASSUME Control, NEW p \in Proc, Rest(p)
    PROVE  Control' /\ At(p, "idle", "idle", "idle", "ok")
<1>1. /\ pc' \in [Proc -> Label] /\ pc'[p] = "idle" /\ ret' \in [Proc -> Seq(Label)] /\ ret'[p] = <<>>
      /\ result' \in [Proc -> {"ok", "no", "raised"}] /\ result'[p] = "ok"
      /\ \A q \in Proc \ {p} : pc'[q] = pc[q] /\ ret'[q] = ret[q] /\ result'[q] = result[q]
  BY EmptySeq DEF Rest, Control, Label
<1>2. Outer(p)' = "idle" /\ Inner(p)' = "idle" /\ Deep(p)'
  BY <1>1 DEF Outer, Inner, Deep
<1> QED BY <1>1, <1>2 DEF Control, At, Deep, Outer, Inner

(***************************************************************************)
(* The runtimes and the services                                           *)
(***************************************************************************)
RuntimeT(n) == [service : 1..n, options : Setting, lock : Proc \cup {NONE}]
ServiceT(n) == [gen : 1..n, with : Setting, file : Nat, stack : BOOLEAN, live : 0..2]

Runtimes == Len(runtimes)
Services == Len(services)
Lists ==
    /\ Runtimes \in Nat /\ DOMAIN runtimes = 1..Runtimes /\ runtimes \in [1..Runtimes -> RuntimeT(Services)]
    /\ Services \in Nat /\ DOMAIN services = 1..Services /\ services \in [1..Services -> ServiceT(Runtimes)]
    /\ cur \in 0..Runtimes

LEMMA ListsFrom ==
    ASSUME TypeOK
    PROVE  Lists
<1>1. runtimes \in Seq(RuntimeT(Services)) /\ services \in Seq(ServiceT(Runtimes)) /\ cur \in 0..Runtimes
  BY DEF TypeOK, RuntimeT, ServiceT, Runtimes, Services
<1> QED BY <1>1, LenProperties DEF Lists, Runtimes, Services

LEMMA FunSeq ==
    ASSUME NEW T, NEW n \in Nat, NEW f \in [1..n -> T]
    PROVE  f \in Seq(T) /\ Len(f) = n
<1>1. f \in Seq(T)
  BY SeqDef
<1>2. Len(f) \in Nat /\ DOMAIN f = 1..Len(f) /\ DOMAIN f = 1..n
  BY <1>1, LenProperties
<1> QED BY <1>1, <1>2

\* Lists of known lengths and with the right members are of the right type.
LEMMA ListsTo ==
    ASSUME NEW m \in Nat, NEW n \in Nat, runtimes' \in [1..m -> RuntimeT(n)], services' \in [1..n -> ServiceT(m)],
           cur' \in 0..m
    PROVE  /\ Lists' /\ Runtimes' = m /\ Services' = n
           /\ runtimes' \in Seq(RuntimeT(n)) /\ services' \in Seq(ServiceT(m))
<1>1. runtimes' \in Seq(RuntimeT(n)) /\ Len(runtimes') = m
  BY FunSeq
<1>2. services' \in Seq(ServiceT(m)) /\ Len(services') = n
  BY FunSeq
<1> QED BY <1>1, <1>2, LenProperties DEF Lists, Runtimes, Services, RuntimeT, ServiceT

LEMMA RuntimeIs ==
    ASSUME Lists, NEW g \in 1..Runtimes
    PROVE  /\ runtimes[g].service \in 1..Services /\ runtimes[g].options \in Setting
           /\ runtimes[g].lock \in Proc \cup {NONE}
           /\ runtimes[g] = [service |-> runtimes[g].service, options |-> runtimes[g].options,
                             lock |-> runtimes[g].lock]
BY DEF Lists, RuntimeT

LEMMA ServiceIs ==
    ASSUME Lists, NEW s \in 1..Services
    PROVE  /\ services[s].gen \in 1..Runtimes /\ services[s].with \in Setting /\ services[s].file \in Nat
           /\ services[s].stack \in BOOLEAN /\ services[s].live \in 0..2
BY DEF Lists, ServiceT

\* What a step may do to one runtime, or to one service.
LEMMA LockView ==
    ASSUME Lists, NEW g, NEW x \in Proc \cup {NONE}, runtimes' = [runtimes EXCEPT ![g].lock = x]
    PROVE  /\ runtimes' \in [1..Runtimes -> RuntimeT(Services)]
           /\ \A k \in 1..Runtimes : /\ runtimes'[k].service = runtimes[k].service
                                     /\ runtimes'[k].options = runtimes[k].options
                                     /\ runtimes'[k].lock = IF k = g THEN x ELSE runtimes[k].lock
<1>1. ASSUME NEW k \in 1..Runtimes
      PROVE  runtimes'[k] = IF k = g THEN [runtimes[k] EXCEPT !.lock = x] ELSE runtimes[k]
  BY DEF Lists
<1>2. ASSUME NEW k \in 1..Runtimes
      PROVE  [runtimes[k] EXCEPT !.lock = x] =
                [service |-> runtimes[k].service, options |-> runtimes[k].options, lock |-> x]
  BY DEF Lists, RuntimeT
<1>3. ASSUME NEW k \in 1..Runtimes PROVE runtimes'[k] \in RuntimeT(Services)
  <2>1. runtimes[k] \in RuntimeT(Services)
    BY DEF Lists
  <2> QED BY <1>1, <2>1 DEF RuntimeT
<1>4. runtimes' \in [1..Runtimes -> RuntimeT(Services)]
  BY <1>3 DEF Lists
<1> QED BY <1>1, <1>2, <1>4

LEMMA OptionsView ==
    ASSUME Lists, NEW g, NEW x \in Setting, runtimes' = [runtimes EXCEPT ![g].options = x]
    PROVE  /\ runtimes' \in [1..Runtimes -> RuntimeT(Services)]
           /\ \A k \in 1..Runtimes : /\ runtimes'[k].service = runtimes[k].service
                                     /\ runtimes'[k].options = IF k = g THEN x ELSE runtimes[k].options
                                     /\ runtimes'[k].lock = runtimes[k].lock
<1>1. ASSUME NEW k \in 1..Runtimes
      PROVE  runtimes'[k] = IF k = g THEN [runtimes[k] EXCEPT !.options = x] ELSE runtimes[k]
  BY DEF Lists
<1>2. ASSUME NEW k \in 1..Runtimes
      PROVE  [runtimes[k] EXCEPT !.options = x] =
                [service |-> runtimes[k].service, options |-> x, lock |-> runtimes[k].lock]
  BY DEF Lists, RuntimeT
<1>3. ASSUME NEW k \in 1..Runtimes PROVE runtimes'[k] \in RuntimeT(Services)
  <2>1. runtimes[k] \in RuntimeT(Services)
    BY DEF Lists
  <2> QED BY <1>1, <2>1 DEF RuntimeT
<1>4. runtimes' \in [1..Runtimes -> RuntimeT(Services)]
  BY <1>3 DEF Lists
<1> QED BY <1>1, <1>2, <1>4

\* A list with one more.
LEMMA AppendView ==
    ASSUME NEW n \in Nat, NEW s, NEW e, NEW T, NEW U, s \in [1..n -> T], T \subseteq U, e \in U
    PROVE  /\ Append(s, e) \in [1..(n + 1) -> U] /\ Append(s, e)[n + 1] = e
           /\ \A i \in 1..n : Append(s, e)[i] = s[i]
<1>1. s \in Seq(U) /\ Len(s) = n
  <2>1. s \in [1..n -> U]
    OBVIOUS
  <2> QED BY <2>1, FunSeq
<1>2. /\ Append(s, e) \in Seq(U) /\ Len(Append(s, e)) = n + 1
      /\ \A i \in 1..n : Append(s, e)[i] = s[i]
      /\ Append(s, e)[n + 1] = e
  BY <1>1, AppendProperties
<1>3. Append(s, e) \in [1..(n + 1) -> U]
  BY <1>2, LenProperties
<1> QED BY <1>2, <1>3

LEMMA ServiceMade ==
    ASSUME NEW n, NEW g \in 1..n, NEW with \in Setting, NEW f \in Nat, NEW stack \in BOOLEAN, NEW live \in 0..2
    PROVE  [gen |-> g, with |-> with, file |-> f, stack |-> stack, live |-> live] \in ServiceT(n)
BY DEF ServiceT

Stacked == \A s \in 1..Services : services[s].stack => services[s].live >= 1

LEMMA StopView ==
    ASSUME Lists, Stacked, NEW s, services' = Stopped(s)
    PROVE  /\ services' \in [1..Services -> ServiceT(Runtimes)]
           /\ \A k \in 1..Services : k # s => services'[k] = services[k]
           /\ s \in 1..Services =>
                /\ services'[s].gen = services[s].gen /\ services'[s].with = services[s].with
                /\ services'[s].file = services[s].file /\ ~services'[s].stack
                /\ services'[s].live = IF services[s].stack THEN services[s].live - 1 ELSE services[s].live
<1>1. ASSUME NEW k \in 1..Services, k # s PROVE services'[k] = services[k]
  BY <1>1 DEF Lists, Stopped
<1>2. ASSUME s \in 1..Services
      PROVE  services'[s] = [gen |-> services[s].gen, with |-> services[s].with, file |-> services[s].file,
                             stack |-> FALSE,
                             live |-> IF services[s].stack THEN services[s].live - 1 ELSE services[s].live]
  BY <1>2 DEF Lists, Stopped, ServiceT
<1>3. ASSUME s \in 1..Services PROVE services'[s] \in ServiceT(Runtimes)
  <2>1. /\ services[s].gen \in 1..Runtimes /\ services[s].with \in Setting /\ services[s].file \in Nat
        /\ services[s].live \in 0..2 /\ (services[s].stack => services[s].live >= 1)
    BY <1>3, ServiceIs DEF Stacked
  <2>2. PICK l : l = IF services[s].stack THEN services[s].live - 1 ELSE services[s].live
    OBVIOUS
  <2>3. l \in 0..2
    <3>1. CASE services[s].stack
      BY <3>1, <2>1, <2>2
    <3>2. CASE ~services[s].stack
      BY <3>2, <2>1, <2>2
    <3> QED BY <3>1, <3>2
  <2>4. [gen |-> services[s].gen, with |-> services[s].with, file |-> services[s].file,
         stack |-> FALSE, live |-> l] \in ServiceT(Runtimes)
    BY <2>1, <2>3, ServiceMade
  <2> QED BY <1>2, <1>3, <2>2, <2>4
<1>4. services' \in [1..Services -> ServiceT(Runtimes)]
  BY <1>1, <1>3 DEF Lists, Stopped
<1> QED BY <1>1, <1>2, <1>4

LEMMA RunView ==
    ASSUME Lists, NEW s \in 1..Services, services[s].live <= 1,
           services' = [services EXCEPT ![s].stack = TRUE, ![s].live = @ + 1]
    PROVE  /\ services' \in [1..Services -> ServiceT(Runtimes)]
           /\ \A k \in 1..Services : k # s => services'[k] = services[k]
           /\ services'[s].gen = services[s].gen /\ services'[s].with = services[s].with
           /\ services'[s].file = services[s].file /\ services'[s].stack
           /\ services'[s].live = services[s].live + 1
<1>1. ASSUME NEW k \in 1..Services, k # s PROVE services'[k] = services[k]
  BY <1>1 DEF Lists
<1>2. services'[s] = [gen |-> services[s].gen, with |-> services[s].with, file |-> services[s].file,
                      stack |-> TRUE, live |-> services[s].live + 1]
  BY DEF Lists, ServiceT
<1>3. services'[s] \in ServiceT(Runtimes)
  <2>1. /\ services[s].gen \in 1..Runtimes /\ services[s].with \in Setting /\ services[s].file \in Nat
        /\ services[s].live + 1 \in 0..2
    BY ServiceIs
  <2>2. [gen |-> services[s].gen, with |-> services[s].with, file |-> services[s].file,
         stack |-> TRUE, live |-> services[s].live + 1] \in ServiceT(Runtimes)
    BY <2>1, ServiceMade
  <2> QED BY <1>2, <2>2
<1>4. services' \in [1..Services -> ServiceT(Runtimes)]
  BY <1>1, <1>3 DEF Lists
<1> QED BY <1>1, <1>2, <1>4

LEMMA WithView ==
    ASSUME Lists, NEW s, NEW x \in Setting, services' = [services EXCEPT ![s].with = x]
    PROVE  /\ services' \in [1..Services -> ServiceT(Runtimes)]
           /\ \A k \in 1..Services :
                /\ services'[k].gen = services[k].gen
                /\ services'[k].with = IF k = s THEN x ELSE services[k].with
                /\ services'[k].file = services[k].file /\ services'[k].stack = services[k].stack
                /\ services'[k].live = services[k].live
<1>1. ASSUME NEW k \in 1..Services, k # s PROVE services'[k] = services[k]
  BY <1>1 DEF Lists
<1>2. ASSUME s \in 1..Services
      PROVE  services'[s] = [gen |-> services[s].gen, with |-> x, file |-> services[s].file,
                             stack |-> services[s].stack, live |-> services[s].live]
  BY <1>2 DEF Lists, ServiceT
<1>3. ASSUME NEW k \in 1..Services PROVE services'[k] \in ServiceT(Runtimes)
  <2>1. services[k] \in ServiceT(Runtimes)
    BY DEF Lists
  <2> QED BY <1>1, <1>2, <2>1 DEF ServiceT
<1>4. services' \in [1..Services -> ServiceT(Runtimes)]
  BY <1>3 DEF Lists
<1> QED BY <1>1, <1>2, <1>4

LEMMA FileView ==
    ASSUME Lists, NEW s, NEW x \in Nat, services' = [services EXCEPT ![s].file = IF services[s].stack THEN x ELSE @]
    PROVE  /\ services' \in [1..Services -> ServiceT(Runtimes)]
           /\ \A k \in 1..Services :
                /\ services'[k].gen = services[k].gen /\ services'[k].with = services[k].with
                /\ services'[k].file = IF k = s /\ services[k].stack THEN x ELSE services[k].file
                /\ services'[k].stack = services[k].stack /\ services'[k].live = services[k].live
<1>1. ASSUME NEW k \in 1..Services, k # s PROVE services'[k] = services[k]
  BY <1>1 DEF Lists
<1>2. ASSUME s \in 1..Services
      PROVE  services'[s] = [gen |-> services[s].gen, with |-> services[s].with,
                             file |-> IF services[s].stack THEN x ELSE services[s].file,
                             stack |-> services[s].stack, live |-> services[s].live]
  BY <1>2 DEF Lists, ServiceT
<1>3. ASSUME NEW k \in 1..Services PROVE services'[k] \in ServiceT(Runtimes)
  <2>1. services[k] \in ServiceT(Runtimes)
    BY DEF Lists
  <2> QED BY <1>1, <1>2, <2>1 DEF ServiceT
<1>4. services' \in [1..Services -> ServiceT(Runtimes)]
  BY <1>3 DEF Lists
<1> QED BY ZenonT(30), <1>1, <1>2, <1>4

\* A service that a restart, or a setup, makes.
LEMMA MakeView ==
    ASSUME Lists, stored \in Setting, file \in Nat, NEW g, NEW m \in {Runtimes, Runtimes + 1}, g \in 1..m,
           services' = Append(services, MakeService(g))
    PROVE  /\ services' \in [1..(Services + 1) -> ServiceT(m)] /\ Len(services') = Services + 1
           /\ \A k \in 1..Services : services'[k] = services[k]
           /\ services'[Services + 1] = [gen |-> g, with |-> stored, file |-> file, stack |-> FALSE, live |-> 0]
<1>1. MakeService(g) \in ServiceT(m)
  BY DEF MakeService, ServiceT
<1>2. ServiceT(Runtimes) \subseteq ServiceT(m)
  BY DEF Lists, ServiceT
<1>3. Services \in Nat /\ services \in [1..Services -> ServiceT(Runtimes)]
  BY DEF Lists
<1>4. /\ services' \in [1..(Services + 1) -> ServiceT(m)]
      /\ \A k \in 1..Services : services'[k] = services[k]
      /\ services'[Services + 1] = MakeService(g)
  <2> DEFINE fresh == MakeService(g)  T == ServiceT(Runtimes)  U == ServiceT(m)
  <2>1. /\ services' = Append(services, fresh) /\ fresh \in U /\ T \subseteq U
        /\ Services \in Nat /\ services \in [1..Services -> T]
    BY <1>1, <1>2, <1>3
  <2> HIDE DEF fresh, T, U
  <2>2. /\ Append(services, fresh) \in [1..(Services + 1) -> U]
        /\ Append(services, fresh)[Services + 1] = fresh
        /\ \A k \in 1..Services : Append(services, fresh)[k] = services[k]
    <3>1. services \in [1..Services -> U]
      BY <2>1
    <3>2. services \in Seq(U) /\ Len(services) = Services
      BY <2>1, <3>1, FunSeq
    <3>3. /\ Append(services, fresh) \in Seq(U) /\ Len(Append(services, fresh)) = Services + 1
          /\ \A k \in 1..Services : Append(services, fresh)[k] = services[k]
          /\ Append(services, fresh)[Services + 1] = fresh
      BY <2>1, <3>2, AppendProperties
    <3>4. Append(services, fresh) \in [1..(Services + 1) -> U]
      BY <3>3, LenProperties
    <3> QED BY <3>3, <3>4
  <2>3. fresh = MakeService(g) /\ U = ServiceT(m)
    BY DEF fresh, U
  <2> QED BY <2>1, <2>2, <2>3
<1>5. Len(services') = Services + 1
  BY <1>3, <1>4, FunSeq
<1> QED BY <1>4, <1>5 DEF MakeService

\* The runtime of a setup is one more.
LEMMA RuntimeView ==
    ASSUME Lists, stored \in Setting,
           runtimes' = Append(runtimes, [service |-> Services + 1, options |-> stored, lock |-> NONE])
    PROVE  /\ runtimes' \in [1..(Runtimes + 1) -> RuntimeT(Services + 1)] /\ Len(runtimes') = Runtimes + 1
           /\ \A k \in 1..Runtimes : runtimes'[k] = runtimes[k]
           /\ runtimes'[Runtimes + 1] = [service |-> Services + 1, options |-> stored, lock |-> NONE]
<1> DEFINE more == [service |-> Services + 1, options |-> stored, lock |-> NONE]
           U == RuntimeT(Services + 1)
<1>1. more \in U /\ Services \in Nat /\ Runtimes \in Nat
  BY DEF Lists, RuntimeT
<1>2. ASSUME NEW k \in 1..Runtimes PROVE runtimes[k] \in U
  <2>1. runtimes[k] \in RuntimeT(Services)
    BY DEF Lists
  <2>2. 1..Services \subseteq 1..(Services + 1)
    BY <1>1
  <2> QED BY <2>1, <2>2 DEF RuntimeT
<1>3. runtimes \in [1..Runtimes -> U]
  BY <1>2 DEF Lists
<1> HIDE DEF U, more
<1>4. runtimes \in Seq(U) /\ Len(runtimes) = Runtimes
  BY <1>1, <1>3, FunSeq
<1>5. /\ Append(runtimes, more) \in Seq(U) /\ Len(Append(runtimes, more)) = Runtimes + 1
      /\ \A k \in 1..Runtimes : Append(runtimes, more)[k] = runtimes[k]
      /\ Append(runtimes, more)[Runtimes + 1] = more
  BY <1>1, <1>4, AppendProperties
<1>6. Append(runtimes, more) \in [1..(Runtimes + 1) -> U]
  BY <1>5, LenProperties
<1> QED BY <1>5, <1>6 DEF U, more

(***************************************************************************)
(* The inductive invariant                                                 *)
(***************************************************************************)
\* Nothing but the lists of runtimes and services and the calls.
Plain ==
    /\ entry \in {"off", "setup", "loaded", "unloading", "failed", "stuck"}
    /\ stored \in Setting /\ file \in Nat /\ parts \subseteq Part
    /\ setupLock \in Proc \cup {NONE} /\ settingsLock \in Proc \cup {NONE}
    /\ listening \in Nat /\ reloading \in Nat
    /\ was \in [Proc -> Setting] /\ want \in [Proc -> Setting] /\ seen \in [Proc -> Nat]
    /\ crossed \in BOOLEAN /\ overtaken \in BOOLEAN /\ refused \in BOOLEAN /\ unrestored \in BOOLEAN
    /\ spent \in [Kind -> Nat]

Points == gen \in [Proc -> 0..Runtimes] /\ obj \in [Proc -> 0..Services]
Types == Plain /\ Control /\ Lists /\ Points

\* What a process is in the middle of.
Restarts(p) == pc[p] \in {"rstop", "rmake", "rdone"} \/ Inner(p) = "rdone"
SetsUp(p) == pc[p] \in SetupAt \/ Inner(p) = "sdone"
Unloads(p) == pc[p] \in UnloadAt
Reloads(p) == pc[p] \in {"reloaded", "end"} \/ Outer(p) \in {"reloaded", "end"}
\* A setup that has no runtime stored yet, or no more.
Without(p) == pc[p] \in {"bridge", "read", "store", "undone"}

\* What a process points at is there, and one of the runtime's.
Refers(p) ==
    /\ Restarts(p) \/ pc[p] \in {"rlock", "fread", "hand", "store", "saved"} => gen[p] # 0
    /\ pc[p] \in StartAt => obj[p] # 0 /\ services[obj[p]].gen = gen[p]
    /\ Inner(p) = "rdone" => obj[p] = runtimes[gen[p]].service
Owned == \A g \in 1..Runtimes : services[runtimes[g].service].gen = g

\* A setup, an unload and a reload have Home Assistant's lock; the entry's
\* state tells which of them is under way, and whether it has a runtime.
Bare == cur = 0 \/ unrestored
Locked(p) == SetsUp(p) \/ Unloads(p) \/ Reloads(p) => setupLock = p
Stage(p) ==
    /\ SetsUp(p) => entry = "setup"
    /\ SetsUp(p) /\ Without(p) => Bare
    /\ SetsUp(p) /\ ~Without(p) => cur # 0 /\ gen[p] = cur
    /\ Unloads(p) => entry = "unloading" /\ cur # 0 /\ gen[p] = cur
EntryInv ==
    /\ entry = "setup" => setupLock # NONE /\ SetsUp(setupLock)
    /\ entry = "unloading" => setupLock # NONE /\ Unloads(setupLock)
    /\ entry \in {"off", "failed"} => Bare
    /\ entry \in {"loaded", "stuck"} => cur # 0

\* The lock around a service.
Holds(p) == Restarts(p) \/ pc[p] = "ustop" => runtimes[gen[p]].lock = p

\* A service is started at most by the restart that made it and by a setup.
Remaking(p, s) == Inner(p) = "rdone" /\ obj[p] = s
Pending(p, s) == \/ pc[p] \in {"store", "platforms", "hub"} /\ gen[p] = services[s].gen
                 \/ Inner(p) = "sdone" /\ obj[p] = s
Counted(s) ==
    /\ \A p \in Proc : Remaking(p, s) \/ Pending(p, s) => services[s].live <= 1
    /\ \A p, q \in Proc : Remaking(p, s) /\ Pending(q, s) => services[s].live = 0
CountInv == Stacked /\ \A s \in 1..Services : Counted(s)

\* A restart in a loaded entry, or in one that is not stopped yet, is the only
\* one; the service runs only in an entry that is up, and is the entry's.
Leaving == entry = "unloading" /\ pc[setupLock] \in {"uplatforms", "ulock"}
Serving == \/ entry = "loaded" \/ Leaving
           \/ entry = "unloading" /\ pc[setupLock] = "ustop"
           \/ entry = "setup" /\ pc[setupLock] = "sdone" /\ result[setupLock] = "ok"
Still == \A s \in 1..Services : services[s].live = 0
Mine(p) ==
    /\ Restarts(p) => gen[p] = cur /\ (entry = "loaded" \/ Leaving)
    /\ pc[p] = "rmake" \/ Inner(p) = "rdone" => Still
    /\ Inner(p) = "sdone" => obj[p] = runtimes[cur].service
Only(s) == services[s].live # 0 =>
             /\ cur # 0 /\ s = runtimes[cur].service /\ services[s].live = 1 /\ services[s].stack
             /\ Serving
OneInv == ~crossed => (\A p \in Proc : Mine(p)) /\ \A s \in 1..Services : Only(s)

CallsInv == \A p \in Proc : Calls(p)
RefersInv == (\A p \in Proc : Refers(p)) /\ Owned
LockInv == (\A p \in Proc : Locked(p) /\ Stage(p)) /\ EntryInv
HoldsInv == \A p \in Proc : Holds(p)
IInv == Types /\ CallsInv /\ RefersInv /\ LockInv /\ HoldsInv /\ CountInv /\ OneInv

LEMMA TypesTypeOK ==
    ASSUME Types PROVE TypeOK
<1>1. runtimes \in Seq(RuntimeT(Services)) /\ services \in Seq(ServiceT(Runtimes))
  <2>1. Runtimes \in Nat /\ Services \in Nat
    BY DEF Types, Lists
  <2>2. runtimes \in [1..Runtimes -> RuntimeT(Services)] /\ services \in [1..Services -> ServiceT(Runtimes)]
    BY DEF Types, Lists
  <2>3. runtimes \in Seq(RuntimeT(Services))
    BY <2>1, <2>2, FunSeq
  <2>4. services \in Seq(ServiceT(Runtimes))
    BY <2>1, <2>2, FunSeq
  <2> QED BY <2>3, <2>4
<1>2. cur \in 0..Runtimes
  BY DEF Types, Lists
<1> QED BY <1>1, <1>2 DEF Types, Plain, Control, Points, TypeOK, RuntimeT, ServiceT, Runtimes, Services

(***************************************************************************)
(* What a step leaves alone                                                *)
(***************************************************************************)
\* A step of `p`: the others are where they were.
Aside(p) == \A q \in Proc \ {p} :
    /\ pc'[q] = pc[q] /\ Outer(q)' = Outer(q) /\ Inner(q)' = Inner(q) /\ result'[q] = result[q]
    /\ Restarts(q)' = Restarts(q) /\ SetsUp(q)' = SetsUp(q) /\ Unloads(q)' = Unloads(q)
    /\ Reloads(q)' = Reloads(q) /\ Without(q)' = Without(q)
Apart(p) == \A q \in Proc \ {p} : gen'[q] = gen[q] /\ obj'[q] = obj[q] /\ seen'[q] = seen[q]

LEMMA OthersAt ==
    ASSUME NEW p \in Proc, NEW l, NEW o, NEW i, NEW h, At(p, l, o, i, h)
    PROVE  /\ pc'[p] = l /\ Outer(p)' = o /\ Inner(p)' = i /\ result'[p] = h
           /\ Aside(p)
BY DEF At, Outer, Inner, Restarts, SetsUp, Unloads, Reloads, Without, Aside

LEMMA CallsStep ==
    ASSUME CallsInv, NEW p \in Proc, NEW l, NEW o, NEW i, NEW h, At(p, l, o, i, h), Placed(l, o, i)
    PROVE  CallsInv'
BY OthersAt DEF CallsInv, Calls, Placed, Aside

LEMMA SpendTypes ==
    ASSUME Plain, NEW k \in Kind, Spend(k)
    PROVE  spent' \in [Kind -> Nat]
BY DEF Plain, Spend

LEMMA UpdateTypes ==
    ASSUME Plain, NEW new \in Setting, Update(new)
    PROVE  stored' \in Setting /\ listening' \in Nat
BY DEF Plain, Update

LEMMA SettingMade ==
    ASSUME NEW x \in Setting, NEW y \in Setting
    PROVE  /\ [x EXCEPT !.rest = 1 - @] \in Setting /\ [x EXCEPT !.data = 1 - @] \in Setting
           /\ [x EXCEPT !.data = y.data] \in Setting /\ [x EXCEPT !.panel = ~@] \in Setting
           /\ Defaults \in Setting
<1>1. /\ x.panel \in BOOLEAN /\ x.rest \in 0..1 /\ x.data \in 0..1 /\ y.data \in 0..1
      /\ 1 - x.rest \in 0..1 /\ 1 - x.data \in 0..1
  BY DEF Setting
<1>2. [x EXCEPT !.rest = 1 - @] = [panel |-> x.panel, rest |-> 1 - x.rest, data |-> x.data]
  BY DEF Setting
<1>3. [x EXCEPT !.data = 1 - @] = [panel |-> x.panel, rest |-> x.rest, data |-> 1 - x.data]
  BY DEF Setting
<1>4. [x EXCEPT !.data = y.data] = [panel |-> x.panel, rest |-> x.rest, data |-> y.data]
  BY DEF Setting
<1>5. [x EXCEPT !.panel = ~@] = [panel |-> ~x.panel, rest |-> x.rest, data |-> x.data]
  BY DEF Setting
<1>6. Defaults \in Setting
  BY DEF Defaults, Setting
<1> QED BY <1>1, <1>2, <1>3, <1>4, <1>5, <1>6 DEF Setting

LEMMA RestTypes ==
    ASSUME Points, Plain, NEW p \in Proc, Rest(p), Runtimes \in Nat, Services \in Nat,
           Runtimes' = Runtimes, Services' = Services
    PROVE  /\ Points' /\ Apart(p) /\ was' \in [Proc -> Setting] /\ want' \in [Proc -> Setting] /\ seen' \in [Proc -> Nat]
<1>1. Defaults \in Setting
  BY DEF Defaults, Setting
<1>2. Points' /\ Apart(p)
  BY DEF Points, Rest, Apart
<1>3. was' \in [Proc -> Setting] /\ want' \in [Proc -> Setting] /\ seen' \in [Proc -> Nat]
  BY <1>1 DEF Plain, Rest
<1> QED BY <1>2, <1>3

\* The runtimes and services are the same, the locks are, and what runs is.
SameOwners ==
    /\ Runtimes' = Runtimes /\ Services' = Services
    /\ \A g \in 1..Runtimes : runtimes'[g].service = runtimes[g].service
    /\ \A s \in 1..Services : services'[s].gen = services[s].gen
SameLocks == \A g \in 1..Runtimes : runtimes'[g].lock = runtimes[g].lock
SameRuns == \A s \in 1..Services : services'[s].live = services[s].live
                                   /\ services'[s].stack = services[s].stack
SameLists == SameOwners /\ SameLocks /\ SameRuns

LEMMA SameListsSame ==
    ASSUME runtimes' = runtimes, services' = services
    PROVE  SameLists
BY DEF SameLists, SameOwners, SameLocks, SameRuns, Runtimes, Services

LEMMA OptionsSame ==
    ASSUME Lists, NEW g, NEW x \in Setting, runtimes' = [runtimes EXCEPT ![g].options = x],
           services' = services, cur' = cur
    PROVE  SameLists /\ Lists'
<1>1. /\ runtimes' \in [1..Runtimes -> RuntimeT(Services)]
      /\ \A k \in 1..Runtimes : /\ runtimes'[k].service = runtimes[k].service
                                /\ runtimes'[k].lock = runtimes[k].lock
  BY OptionsView
<1>2. Lists' /\ Runtimes' = Runtimes /\ Services' = Services
  BY <1>1, ListsTo DEF Lists
<1> QED BY <1>1, <1>2 DEF SameLists, SameOwners, SameLocks, SameRuns

\* What holds of the others holds on, as long as the lists are the same.
LEMMA RefersSame ==
    ASSUME IInv, NEW p \in Proc, Aside(p), Apart(p), SameOwners, Refers(p)'
    PROVE  RefersInv'
<1>1. ASSUME NEW q \in Proc \ {p} PROVE Refers(q)'
  <2>1. /\ gen[q] # 0 => gen[q] \in 1..Runtimes
        /\ obj[q] # 0 => obj[q] \in 1..Services
    BY DEF IInv, Types, Points
  <2>2. Refers(q) /\ (Inner(q) = "rdone" => Restarts(q))
    BY DEF IInv, RefersInv, Restarts
  <2>3. /\ pc'[q] = pc[q] /\ Inner(q)' = Inner(q) /\ Restarts(q)' = Restarts(q)
        /\ gen'[q] = gen[q] /\ obj'[q] = obj[q]
    BY DEF Aside, Apart
  <2> QED BY <2>1, <2>2, <2>3 DEF SameOwners, Refers
<1>2. Owned'
  BY DEF SameOwners, IInv, RefersInv, Owned, Types, Lists, RuntimeT
<1> QED BY <1>1, <1>2 DEF RefersInv

\* Who has a service's lock has it for a runtime that is there.
LEMMA Holders ==
    ASSUME IInv, NEW q \in Proc, Restarts(q) \/ pc[q] = "ustop"
    PROVE  gen[q] \in 1..Runtimes /\ runtimes[gen[q]].lock = q
BY DEF IInv, HoldsInv, Holds, RefersInv, Refers, Types, Points, LockInv, Stage, Unloads, UnloadAt, Lists

LEMMA HoldsSame ==
    ASSUME IInv, NEW p \in Proc, Aside(p), Apart(p), SameLocks, Holds(p)'
    PROVE  HoldsInv'
<1>1. ASSUME NEW q \in Proc \ {p} PROVE Holds(q)'
  BY Holders DEF Aside, Apart, SameLocks, Holds
<1> QED BY <1>1 DEF HoldsInv

LEMMA CountSame ==
    ASSUME IInv, NEW p \in Proc, Aside(p), Apart(p), SameOwners, Stacked',
           \A s \in 1..Services : services[s].live = 0 => services'[s].live = 0,
           \A s \in 1..Services : services[s].live <= 1 => services'[s].live <= 1,
           \A s \in 1..Services : Remaking(p, s)' => Remaking(p, s),
           \A s \in 1..Services : Pending(p, s)' => Pending(p, s)
    PROVE  CountInv'
<1>1. ASSUME NEW s \in 1..Services, NEW q \in Proc
      PROVE  (Remaking(q, s)' => Remaking(q, s)) /\ (Pending(q, s)' => Pending(q, s))
  <2>1. CASE q = p
    BY <2>1
  <2>2. CASE q # p
    BY <2>2 DEF Aside, Apart, SameOwners, Remaking, Pending
  <2> QED BY <2>1, <2>2
<1>2. ASSUME NEW s \in 1..Services PROVE Counted(s)'
  BY <1>1 DEF IInv, CountInv, Counted, SameOwners
<1> QED BY <1>2 DEF CountInv, SameOwners

LEMMA LockSame ==
    ASSUME IInv, NEW p \in Proc, Aside(p), gen' = gen, entry' = entry, cur' = cur, setupLock' = setupLock,
           unrestored => unrestored',
           SetsUp(p)' <=> SetsUp(p), Unloads(p)' <=> Unloads(p), Reloads(p)' => Reloads(p),
           Without(p)' <=> Without(p)
    PROVE  LockInv'
<1>1. NONE \notin Proc /\ setupLock \in Proc \cup {NONE}
  BY EntryAssumption DEF IInv, Types, Plain
<1>2. ASSUME NEW q \in Proc
      PROVE  /\ (SetsUp(q)' <=> SetsUp(q)) /\ (Unloads(q)' <=> Unloads(q)) /\ (Without(q)' <=> Without(q))
             /\ Reloads(q)' => Reloads(q)
  <2>1. CASE q = p
    BY <2>1
  <2>2. CASE q # p
    BY <2>2 DEF Aside
  <2> QED BY <2>1, <2>2
<1>3. EntryInv'
  BY <1>1, <1>2 DEF IInv, LockInv, EntryInv, Bare
<1>4. \A q \in Proc : Locked(q)' /\ Stage(q)'
  BY <1>2 DEF IInv, LockInv, Locked, Stage, Bare
<1> QED BY <1>3, <1>4 DEF LockInv

LEMMA Nested ==
    ASSUME IInv, NEW q \in Proc, Inner(q) # "idle"
    PROVE  pc[q] \in StartAt
<1>1. pc[q] \in Label /\ Placed(pc[q], Outer(q), Inner(q))
  BY DEF IInv, CallsInv, Calls, Types, Control
<1>2. Label \subseteq StartAt \cup RestartAt \cup ({"setup"} \cup SetupAt) \cup ({"unload"} \cup UnloadAt)
                   \cup ({"idle", "fread", "hand"} \cup AfterRestart \cup AfterSetup \cup AfterUnload)
  BY DEF Label, StartAt, RestartAt, SetupAt, UnloadAt, AfterRestart, AfterSetup, AfterUnload
<1> QED BY <1>1, <1>2 DEF Placed

\* A setup that starts the service has the entry's runtime.
LEMMA Starter ==
    ASSUME IInv, NEW q \in Proc, Inner(q) = "sdone"
    PROVE  cur # 0 /\ gen[q] = cur /\ entry = "setup" /\ setupLock = q
BY DEF IInv, LockInv, Locked, Stage, SetsUp, Without, CallsInv, Calls, Placed, StartAt, RestartAt, SetupAt,
       UnloadAt, AfterRestart, AfterSetup, AfterUnload

Up == entry = "loaded" \/ Leaving

LEMMA UpSame ==
    ASSUME IInv, NEW p \in Proc, Aside(p), entry' = entry, setupLock' = setupLock
    PROVE  /\ pc[p] \notin {"uplatforms", "ulock"} => (Up => Up')
           /\ pc[p] \notin {"uplatforms", "ulock", "ustop", "sdone"} => (Serving => Serving')
<1>1. entry \in {"setup", "unloading"} => setupLock \in Proc
  BY DEF IInv, Types, Plain, LockInv, EntryInv
<1>2. setupLock # p /\ entry \in {"setup", "unloading"} =>
        pc'[setupLock] = pc[setupLock] /\ result'[setupLock] = result[setupLock]
  BY <1>1 DEF Aside
<1> QED BY <1>2 DEF Up, Serving, Leaving

LEMMA OneSame ==
    ASSUME IInv, NEW p \in Proc, Aside(p), Apart(p), SameLists, cur' = cur, crossed' = crossed,
           Up => Up', Serving => Serving', ~crossed => Mine(p)'
    PROVE  OneInv'
<1> SUFFICES ASSUME ~crossed PROVE (\A q \in Proc : Mine(q)') /\ \A s \in 1..Services : Only(s)'
  BY DEF OneInv, SameLists, SameOwners
<1>1. Still' = Still
  BY DEF Still, SameLists, SameOwners, SameRuns
<1>2. cur # 0 => runtimes'[cur].service = runtimes[cur].service
  BY DEF SameLists, SameOwners, IInv, Types, Lists
<1>3. ASSUME NEW q \in Proc \ {p} PROVE Mine(q)'
  BY <1>1, <1>2, Starter DEF Mine, Aside, Apart, IInv, OneInv, Up
<1>4. ASSUME NEW s \in 1..Services PROVE Only(s)'
  BY <1>2 DEF Only, IInv, OneInv, SameLists, SameOwners, SameRuns
<1> QED BY <1>3, <1>4

\* A step on, at the same depth of calls.
LEMMA GotoStep ==
    ASSUME IInv, NEW p \in Proc, NEW l \in Label, Goto(p, l), Placed(l, Outer(p), Inner(p))
    PROVE  /\ Control' /\ CallsInv' /\ Aside(p) /\ pc'[p] = l /\ Outer(p)' = Outer(p) /\ Inner(p)' = Inner(p)
           /\ result'[p] = result[p]
<1>1. Control' /\ At(p, l, Outer(p), Inner(p), result[p])
  BY GotoAt DEF IInv, Types
<1>2. CallsInv'
  BY <1>1, CallsStep DEF IInv
<1> QED BY <1>1, <1>2, OthersAt

\* The end of a start, and of what a process began with.
LEMMA StartReturn ==
    ASSUME IInv, NEW p \in Proc, pc[p] \in StartAt, NEW how \in {"ok", "no", "raised"}, Return(p, how)
    PROVE  /\ Control' /\ CallsInv' /\ Aside(p) /\ pc'[p] = Inner(p) /\ Outer(p)' = Outer(p)
           /\ Inner(p)' = "idle" /\ result'[p] = how
<1>1. \/ Inner(p) = "rdone" /\ Outer(p) \in AfterRestart
      \/ Inner(p) = "sdone" /\ Outer(p) \in AfterSetup
  BY DEF IInv, CallsInv, Calls, Placed
<1>2. Control' /\ At(p, Inner(p), Outer(p), "idle", how)
  BY <1>1, ReturnInAt DEF IInv, Types, AfterRestart, AfterSetup
<1>3. Placed(Inner(p), Outer(p), "idle")
  BY <1>1 DEF Placed, RestartAt, SetupAt, UnloadAt, StartAt, AfterRestart, AfterSetup, AfterUnload
<1>4. CallsInv'
  BY <1>2, <1>3, CallsStep DEF IInv
<1> QED BY <1>2, <1>4, OthersAt

LEMMA CallReturn ==
    ASSUME IInv, NEW p \in Proc, pc[p] \in RestartAt \cup {"setup", "unload"} \cup SetupAt \cup UnloadAt,
           NEW how \in {"ok", "no", "raised"}, Return(p, how)
    PROVE  /\ Control' /\ CallsInv' /\ Aside(p) /\ pc'[p] = Outer(p) /\ Outer(p)' = "idle"
           /\ Inner(p)' = "idle" /\ result'[p] = how
<1>1. Inner(p) = "idle" /\ Outer(p) \in AfterRestart \cup AfterSetup \cup AfterUnload
  BY DEF IInv, CallsInv, Calls, Placed
<1>2. Outer(p) # "idle"
  BY <1>1 DEF AfterRestart, AfterSetup, AfterUnload
<1>3. Control' /\ At(p, Outer(p), "idle", "idle", how)
  BY <1>1, <1>2, ReturnAt DEF IInv, Types
<1>4. Placed(Outer(p), "idle", "idle")
  BY <1>1 DEF Placed, RestartAt, SetupAt, UnloadAt, StartAt, AfterRestart, AfterSetup, AfterUnload
<1>5. CallsInv'
  BY <1>3, <1>4, CallsStep DEF IInv
<1> QED BY <1>3, <1>5, OthersAt

(***************************************************************************)
(* The steps of the panel, of a reload and of a file handed over           *)
(***************************************************************************)
Outside(p) == /\ pc[p] \in {"idle", "fread", "hand", "rlock", "unload", "setup"}
                             \cup AfterRestart \cup AfterSetup \cup AfterUnload
              /\ Inner(p) = "idle"

LEMMA OutsideIs ==
    ASSUME NEW p \in Proc, Outside(p)
    PROVE  ~Restarts(p) /\ ~SetsUp(p) /\ ~Unloads(p)
BY DEF Outside, Restarts, SetsUp, Unloads, AfterRestart, AfterSetup, AfterUnload, SetupAt, UnloadAt

LEMMA OuterKeeps ==
    ASSUME IInv, NEW p \in Proc, Types', CallsInv', Aside(p), Apart(p), Outside(p), Outside(p)',
           pc'[p] \in {"rlock", "fread", "hand", "saved"} => gen'[p] # 0,
           entry' = entry, cur' = cur, crossed' = crossed, unrestored => unrestored', SameLists,
           \/ setupLock' = setupLock
           \/ setupLock \in {NONE, p} /\ setupLock' \in {NONE, p},
           Reloads(p)' => setupLock' = p
    PROVE  IInv'
<1>1. /\ ~Restarts(p) /\ ~SetsUp(p) /\ ~Unloads(p)
      /\ ~Restarts(p)' /\ ~SetsUp(p)' /\ ~Unloads(p)' /\ Inner(p)' = "idle"
  BY OutsideIs DEF Outside, Restarts, SetsUp, Unloads, AfterRestart, AfterSetup, AfterUnload, SetupAt, UnloadAt
<1>2. /\ NONE \notin Proc /\ setupLock \in Proc \cup {NONE}
      /\ setupLock # setupLock' => entry \notin {"setup", "unloading"}
  BY <1>1, EntryAssumption DEF IInv, Types, Plain, LockInv, EntryInv
<1>3. RefersInv'
  <2>1. Refers(p)'
    BY <1>1 DEF Refers, Outside, StartAt, AfterRestart, AfterSetup, AfterUnload
  <2> QED BY <2>1, RefersSame DEF SameLists
<1>4. LockInv'
  <2>1. Locked(p)' /\ Stage(p)'
    BY <1>1 DEF Locked, Stage
  <2>2. ASSUME NEW q \in Proc \ {p} PROVE Locked(q)' /\ Stage(q)'
    BY <1>2 DEF Aside, Apart, IInv, LockInv, Locked, Stage, Bare
  <2>3. EntryInv'
    BY <1>1, <1>2 DEF Aside, IInv, LockInv, EntryInv, Bare
  <2> QED BY <2>1, <2>2, <2>3 DEF LockInv
<1>5. HoldsInv'
  <2>1. Holds(p)'
    BY <1>1 DEF Holds, Unloads, UnloadAt
  <2> QED BY <2>1, HoldsSame DEF SameLists
<1>6. CountInv'
  <2>1. ASSUME NEW s PROVE ~Remaking(p, s)' /\ ~Pending(p, s)'
    BY <1>1 DEF Remaking, Pending, SetsUp, SetupAt
  <2>2. Stacked'
    BY DEF IInv, CountInv, Stacked, SameLists, SameOwners, SameRuns
  <2> QED BY <2>1, <2>2, CountSame DEF SameLists, SameRuns
<1>7. OneInv'
  <2>1. entry \in {"setup", "unloading"} => setupLock' = setupLock /\ setupLock \in Proc \ {p}
    BY <1>1, <1>2 DEF IInv, LockInv, EntryInv
  <2>2. Leaving' = Leaving /\ Serving' = Serving
    BY <2>1 DEF Leaving, Serving, Aside
  <2>3. Mine(p)'
    BY <1>1 DEF Mine, Restarts, SetsUp
  <2> QED BY <2>2, <2>3, OneSame DEF Up
<1> QED BY <1>3, <1>4, <1>5, <1>6, <1>7 DEF IInv

LEMMA OuterCall ==
    ASSUME IInv, NEW p \in Proc,
           pc[p] \in {"idle"} \cup AfterRestart \cup AfterSetup \cup AfterUnload,
           NEW l, NEW b, Call(p, l, b),
           \/ l = "rlock" /\ b \in AfterRestart
           \/ l = "setup" /\ b \in AfterSetup
           \/ l = "unload" /\ b \in AfterUnload
    PROVE  /\ Control' /\ CallsInv' /\ Aside(p) /\ Outside(p) /\ Outside(p)' /\ pc'[p] = l
           /\ Outer(p)' = b /\ Inner(p)' = "idle" /\ result'[p] = result[p]
           /\ Reloads(p)' => b \in {"reloaded", "end"}
<1>1. Outer(p) = "idle" /\ Inner(p) = "idle"
  BY DEF IInv, CallsInv, Calls, Placed
<1>2. l \in Label /\ b \in Label /\ b # "idle"
  BY DEF Label, AfterRestart, AfterSetup, AfterUnload
<1>3. Control' /\ At(p, l, b, "idle", result[p])
  BY <1>1, <1>2, CallAt DEF IInv, Types
<1>4. CallsInv'
  <2>1. Placed(l, b, "idle")
    BY DEF Placed, RestartAt, SetupAt, UnloadAt, StartAt, AfterRestart, AfterSetup, AfterUnload
  <2> QED BY <1>3, <2>1, CallsStep DEF IInv
<1> QED BY <1>1, <1>3, <1>4, OthersAt DEF Outside, Reloads

LEMMA OuterRaised ==
    ASSUME IInv, NEW p \in Proc,
           pc[p] \in {"idle"} \cup AfterRestart \cup AfterSetup \cup AfterUnload,
           NEW b \in AfterSetup \cup AfterUnload, Raised(p, b)
    PROVE  /\ Control' /\ CallsInv' /\ Aside(p) /\ Outside(p) /\ Outside(p)' /\ pc'[p] = b
           /\ Outer(p)' = "idle" /\ Inner(p)' = "idle" /\ result'[p] = "raised"
           /\ Reloads(p)' => b \in {"reloaded", "end"}
<1>1. Outer(p) = "idle" /\ Inner(p) = "idle"
  BY DEF IInv, CallsInv, Calls, Placed
<1>2. b \in Label
  BY DEF Label, AfterSetup, AfterUnload
<1>3. Control' /\ At(p, b, "idle", "idle", "raised")
  BY <1>1, <1>2, RaisedAt DEF IInv, Types
<1>4. CallsInv'
  <2>1. Placed(b, "idle", "idle")
    BY DEF Placed, RestartAt, SetupAt, UnloadAt, StartAt, AfterRestart, AfterSetup, AfterUnload
  <2> QED BY <1>3, <2>1, CallsStep DEF IInv
<1> QED BY <1>1, <1>3, <1>4, OthersAt DEF Outside, Reloads

\* What Home Assistant is asked: it refuses at once, or the call begins.
LEMMA OuterSetup ==
    ASSUME IInv, NEW p \in Proc,
           pc[p] \in {"idle"} \cup AfterRestart \cup AfterSetup \cup AfterUnload,
           NEW b \in AfterSetup, CallSetup(p, b), b # "end"
    PROVE  /\ Control' /\ CallsInv' /\ Aside(p) /\ Outside(p) /\ Outside(p)' /\ Inner(p)' = "idle"
           /\ ~Reloads(p)' /\ pc'[p] \in {"setup", b}
           /\ entry # "off" => pc'[p] = b /\ result'[p] = "raised"
<1>1. CASE entry = "off"
  <2>1. Call(p, "setup", b)
    BY <1>1 DEF CallSetup
  <2> QED BY <1>1, <2>1, OuterCall DEF AfterSetup
<1>2. CASE entry # "off"
  <2>1. Raised(p, b)
    BY <1>2 DEF CallSetup
  <2> QED BY <1>2, <2>1, OuterRaised DEF AfterSetup
<1> QED BY <1>1, <1>2

LEMMA OuterUnload ==
    ASSUME IInv, NEW p \in Proc,
           pc[p] \in {"idle"} \cup AfterRestart \cup AfterSetup \cup AfterUnload,
           NEW b \in AfterUnload, CallUnload(p, b)
    PROVE  /\ Control' /\ CallsInv' /\ Aside(p) /\ Outside(p) /\ Outside(p)' /\ Inner(p)' = "idle"
           /\ Reloads(p)' => b = "reloaded"
           /\ \/ pc'[p] = "unload" /\ Outer(p)' = b
              \/ pc'[p] = b /\ result'[p] = "raised" /\ entry \in {"setup", "unloading", "stuck"}
<1>1. CASE entry \in {"setup", "unloading", "stuck"}
  <2>1. Raised(p, b)
    BY <1>1 DEF CallUnload
  <2> QED BY <1>1, <2>1, OuterRaised DEF AfterUnload
<1>2. CASE entry \notin {"setup", "unloading", "stuck"}
  <2>1. Call(p, "unload", b)
    BY <1>2 DEF CallUnload
  <2> QED BY <1>2, <2>1, OuterCall DEF AfterUnload
<1> QED BY <1>1, <1>2

LEMMA OuterRest ==
    ASSUME IInv, NEW p \in Proc,
           pc[p] \in {"hand"} \cup AfterRestart \cup AfterSetup \cup AfterUnload,
           Rest(p), Runtimes' = Runtimes, Services' = Services
    PROVE  /\ Control' /\ CallsInv' /\ Aside(p) /\ Outside(p) /\ Outside(p)' /\ pc'[p] = "idle"
           /\ Outer(p)' = "idle" /\ Inner(p)' = "idle" /\ ~Reloads(p)'
           /\ Points' /\ Apart(p) /\ was' \in [Proc -> Setting] /\ want' \in [Proc -> Setting] /\ seen' \in [Proc -> Nat]
<1>1. Outer(p) = "idle" /\ Inner(p) = "idle"
  BY DEF IInv, CallsInv, Calls, Placed
<1>2. Control' /\ At(p, "idle", "idle", "idle", "ok")
  BY RestAt DEF IInv, Types
<1>3. CallsInv'
  <2>1. Placed("idle", "idle", "idle")
    BY DEF Placed, RestartAt, SetupAt, UnloadAt, StartAt, AfterRestart, AfterSetup, AfterUnload
  <2> QED BY <1>2, <2>1, CallsStep DEF IInv
<1>4. Points' /\ Apart(p) /\ was' \in [Proc -> Setting] /\ want' \in [Proc -> Setting] /\ seen' \in [Proc -> Nat]
  BY RestTypes DEF IInv, Types, Lists
<1> QED BY <1>1, <1>2, <1>3, <1>4, OthersAt DEF Outside, Reloads

\* Idle, and what goes on stays as it is.
LEMMA OuterIdle ==
    ASSUME IInv, NEW p \in Proc, pc[p] = "idle", UNCHANGED control
    PROVE  /\ Control' /\ CallsInv' /\ Aside(p) /\ Outside(p) /\ Outside(p)' /\ pc'[p] = "idle"
           /\ ~Reloads(p) /\ ~Reloads(p)'
<1>1. Outer(p) = "idle" /\ Inner(p) = "idle"
  BY DEF IInv, CallsInv, Calls, Placed
<1>2. pc' = pc /\ ret' = ret /\ result' = result
  BY DEF control
<1>3. \A q \in Proc : Outer(q)' = Outer(q) /\ Inner(q)' = Inner(q)
  BY <1>2 DEF Outer, Inner
<1>4. Control' /\ CallsInv'
  BY <1>2, <1>3 DEF IInv, Types, Control, CallsInv, Calls, Deep
<1>5. Aside(p)
  BY <1>2, <1>3 DEF Aside, Restarts, SetsUp, Unloads, Reloads, Without
<1> QED BY <1>1, <1>2, <1>3, <1>4, <1>5 DEF Outside, Reloads

LEMMA PutOptionsKeeps ==
    ASSUME IInv, NEW p \in Proc, PutOptions(p) PROVE IInv'
<1>1. /\ pc[p] = "idle" /\ stored \in Setting /\ want' = [want EXCEPT ![p] = [stored EXCEPT !.rest = 1 - @]]
      /\ was' = [was EXCEPT ![p] = stored]
      /\ entry' = entry /\ cur' = cur /\ services' = services /\ setupLock' = setupLock /\ crossed' = crossed
      /\ obj' = obj /\ seen' = seen /\ unrestored' = unrestored
  BY DEF PutOptions, Asks, Fresh, Idle, IInv, Types, Plain, outside, history
<1>2. want'[p] \in Setting /\ want' \in [Proc -> Setting] /\ was' \in [Proc -> Setting]
  <2>1. PICK new \in Setting : new = [stored EXCEPT !.rest = 1 - @]
    BY <1>1, SettingMade
  <2> QED BY <1>1, <2>1 DEF IInv, Types, Plain
<1>3. /\ Control' /\ CallsInv' /\ Aside(p) /\ Outside(p) /\ Outside(p)' /\ ~Reloads(p)'
      /\ pc'[p] \in IF cur # 0 THEN {"rlock"} ELSE {"unload", "change"}
  <2>1. CASE cur # 0
    BY <1>1, <2>1, OuterCall DEF PutOptions, AfterRestart
  <2>2. CASE cur = 0
    BY <1>1, <2>2, OuterUnload DEF PutOptions, AfterUnload
  <2> QED BY <2>1, <2>2
<1>4. SameLists /\ Lists'
  <2>1. CASE cur # 0
    BY <1>1, <1>2, <2>1, OptionsSame DEF PutOptions, IInv, Types
  <2>2. CASE cur = 0
    <3>1. runtimes' = runtimes
      BY <2>2 DEF PutOptions
    <3> QED BY <1>1, <3>1, SameListsSame DEF IInv, Types, Lists, Runtimes, Services
  <2> QED BY <2>1, <2>2
<1>5. gen' = (IF cur # 0 THEN [gen EXCEPT ![p] = cur] ELSE gen) /\ Points' /\ Apart(p)
  <2>1. gen' = IF cur # 0 THEN [gen EXCEPT ![p] = cur] ELSE gen
    BY DEF PutOptions
  <2> QED BY <1>1, <1>4, <2>1 DEF Points, Apart, SameLists, SameOwners, IInv, Types, Lists
<1>6. Types'
  <2>1. stored' \in Setting /\ listening' \in Nat
    BY <1>2, UpdateTypes DEF PutOptions, IInv, Types, Plain
  <2>2. spent' \in [Kind -> Nat]
    BY SpendTypes DEF PutOptions, Kind, Asked, IInv, Types
  <2>3. Plain'
    BY <1>1, <1>2, <2>1, <2>2 DEF PutOptions, Plain, IInv, Types, outside, history
  <2> QED BY <1>3, <1>4, <1>5, <2>3 DEF Types
<1>7. pc'[p] \in {"rlock", "fread", "hand", "saved"} => gen'[p] # 0
  BY <1>3, <1>5 DEF IInv, Types, Points
<1> QED BY <1>1, <1>3, <1>4, <1>5, <1>6, <1>7, OuterKeeps

LEMMA PutSettingsKeeps ==
    ASSUME IInv, NEW p \in Proc, PutSettings(p) PROVE IInv'
<1>1. /\ pc[p] = "idle" /\ stored \in Setting /\ want' = [want EXCEPT ![p] = [stored EXCEPT !.data = 1 - @]]
      /\ was' = [was EXCEPT ![p] = stored] /\ CallUnload(p, "change")
      /\ UNCHANGED <<ha, made, outside, setupLock, gen, obj, seen, history>>
  BY DEF PutSettings, Asks, Fresh, Idle, IInv, Types, Plain
<1>2. want' \in [Proc -> Setting] /\ was' \in [Proc -> Setting]
  <2>1. PICK new \in Setting : new = [stored EXCEPT !.data = 1 - @]
    BY <1>1, SettingMade
  <2> QED BY <1>1, <2>1 DEF IInv, Types, Plain
<1>3. /\ Control' /\ CallsInv' /\ Aside(p) /\ Outside(p) /\ Outside(p)' /\ ~Reloads(p)'
      /\ pc'[p] \in {"unload", "change"}
  BY <1>1, OuterUnload DEF AfterUnload
<1>4. SameLists /\ Lists'
  BY <1>1, SameListsSame DEF IInv, Types, Lists, Runtimes, Services, made
<1>5. Points' /\ Apart(p)
  BY <1>1, <1>4 DEF Points, Apart, SameLists, SameOwners, IInv, Types
<1>6. Types'
  <2>2. spent' \in [Kind -> Nat] /\ settingsLock' = p
    BY SpendTypes DEF PutSettings, Kind, Asked, IInv, Types
  <2>3. Plain'
    BY <1>1, <1>2, <2>2 DEF Plain, IInv, Types, ha, tasks, outside, history
  <2> QED BY <1>3, <1>4, <1>5, <2>3 DEF Types
<1> QED BY <1>1, <1>3, <1>4, <1>5, <1>6, OuterKeeps DEF ha, made, history

LEMMA SavedKeeps ==
    ASSUME IInv, NEW p \in Proc, Saved(p) PROVE IInv'
<1>1. /\ pc[p] = "saved" /\ was[p] \in Setting /\ stored \in Setting
      /\ entry' = entry /\ cur' = cur /\ services' = services /\ setupLock' = setupLock /\ crossed' = crossed
      /\ UNCHANGED <<outside, reloading, history, spent>>
  BY DEF Saved, IInv, Types, Plain, history
<1>2. CASE result[p] = "ok"
  <2>1. runtimes' = runtimes /\ stored' = stored /\ listening' = listening /\ settingsLock' = NONE /\ Rest(p)
    BY <1>2 DEF Saved, Answer
  <2>2. SameLists /\ Lists'
    BY <1>1, <2>1, SameListsSame DEF IInv, Types, Lists, Runtimes, Services
  <2>3. /\ Control' /\ CallsInv' /\ Aside(p) /\ Outside(p) /\ Outside(p)' /\ pc'[p] = "idle" /\ ~Reloads(p)'
        /\ Points' /\ Apart(p) /\ was' \in [Proc -> Setting] /\ want' \in [Proc -> Setting] /\ seen' \in [Proc -> Nat]
    BY <1>1, <2>1, <2>2, OuterRest DEF AfterRestart, SameLists, SameOwners
  <2>4. Types'
    BY <1>1, <2>1, <2>2, <2>3 DEF IInv, Types, Plain, outside, history
  <2> QED BY <1>1, <2>2, <2>3, <2>4, OuterKeeps DEF history
<1>3. CASE result[p] # "ok"
  <2>1. /\ Call(p, "rlock", "unsaved") /\ Update([was[p] EXCEPT !.data = stored.data])
        /\ runtimes' = [runtimes EXCEPT ![gen[p]].options = was[p]] /\ UNCHANGED <<settingsLock, locals>>
    BY <1>3 DEF Saved
  <2>2. SameLists /\ Lists'
    BY <1>1, <2>1, OptionsSame DEF IInv, Types
  <2>3. /\ Control' /\ CallsInv' /\ Aside(p) /\ Outside(p) /\ Outside(p)' /\ pc'[p] = "rlock" /\ ~Reloads(p)'
    BY <1>1, <2>1, OuterCall DEF AfterRestart
  <2>4. Types'
    <3>1. [was[p] EXCEPT !.data = stored.data] \in Setting
      BY <1>1, SettingMade
    <3>2. stored' \in Setting /\ listening' \in Nat
      BY <2>1, <3>1, UpdateTypes DEF IInv, Types
    <3> QED BY <1>1, <2>1, <2>2, <2>3, <3>2 DEF IInv, Types, Plain, Points, SameLists, SameOwners, outside, history, locals
  <2>5. gen'[p] # 0
    BY <1>1, <2>1 DEF locals, IInv, RefersInv, Refers
  <2>6. Apart(p)
    BY <2>1 DEF Apart, locals
  <2> QED BY <1>1, <2>2, <2>3, <2>4, <2>5, <2>6, OuterKeeps DEF history
<1> QED BY <1>2, <1>3

LEMMA UnsavedKeeps ==
    ASSUME IInv, NEW p \in Proc, Unsaved(p) PROVE IInv'
<1>1. /\ pc[p] = "unsaved" /\ Rest(p) /\ settingsLock' = NONE
      /\ UNCHANGED <<entry, stored, made, outside, setupLock, listening, history, spent>>
  BY DEF Unsaved, Answer
<1>2. SameLists /\ Lists'
  BY <1>1, SameListsSame DEF IInv, Types, Lists, Runtimes, Services, made
<1>3. /\ Control' /\ CallsInv' /\ Aside(p) /\ Outside(p) /\ Outside(p)' /\ pc'[p] = "idle" /\ ~Reloads(p)'
      /\ Points' /\ Apart(p) /\ was' \in [Proc -> Setting] /\ want' \in [Proc -> Setting] /\ seen' \in [Proc -> Nat]
  BY <1>1, <1>2, OuterRest DEF AfterRestart, SameLists, SameOwners
<1>4. Types'
  <2>1. reloading' \in Nat
    BY DEF Unsaved, IInv, Types, Plain
  <2> QED BY <1>1, <1>2, <1>3, <2>1 DEF IInv, Types, Plain, outside, history
<1> QED BY <1>1, <1>2, <1>3, <1>4, OuterKeeps DEF made, history

LEMMA ChangeKeeps ==
    ASSUME IInv, NEW p \in Proc, Change(p) PROVE IInv'
<1>1. /\ pc[p] = "change" /\ was[p] \in Setting /\ want[p] \in Setting /\ stored \in Setting
      /\ CallSetup(p, "changed") /\ UNCHANGED <<entry, made, outside, locks, reloading, locals, history, spent>>
      /\ Update(IF want[p].data = was[p].data THEN [want[p] EXCEPT !.data = stored.data]
                                              ELSE [stored EXCEPT !.data = want[p].data])
  BY DEF Change, IInv, Types, Plain
<1>2. SameLists /\ Lists' /\ Apart(p)
  BY <1>1, SameListsSame DEF IInv, Types, Lists, Runtimes, Services, made, Apart, locals
<1>3. /\ Control' /\ CallsInv' /\ Aside(p) /\ Outside(p) /\ Outside(p)' /\ ~Reloads(p)'
      /\ pc'[p] \in {"setup", "changed"}
  BY <1>1, OuterSetup DEF AfterSetup, AfterUnload
<1>4. stored' \in Setting /\ listening' \in Nat
  <2>1. [want[p] EXCEPT !.data = stored.data] \in Setting /\ [stored EXCEPT !.data = want[p].data] \in Setting
    BY <1>1, SettingMade
  <2> QED BY <1>1, <2>1, UpdateTypes DEF IInv, Types
<1>5. Types'
  BY <1>1, <1>2, <1>3, <1>4 DEF IInv, Types, Plain, Points, SameLists, SameOwners, outside, history, locals, locks
<1> QED BY <1>1, <1>2, <1>3, <1>5, OuterKeeps DEF made, history, locks

LEMMA ChangeFailsKeeps ==
    ASSUME IInv, NEW p \in Proc, ChangeFails(p) PROVE IInv'
<1>1. /\ pc[p] = "change" /\ CallUnload(p, "rollback") /\ spent' \in [Kind -> Nat]
      /\ UNCHANGED <<ha, made, outside, locks, locals, history>>
  BY SpendTypes DEF ChangeFails, Kind, Fault, IInv, Types
<1>2. SameLists /\ Lists' /\ Apart(p)
  BY <1>1, SameListsSame DEF IInv, Types, Lists, Runtimes, Services, made, Apart, locals
<1>3. /\ Control' /\ CallsInv' /\ Aside(p) /\ Outside(p) /\ Outside(p)' /\ ~Reloads(p)'
      /\ pc'[p] \in {"unload", "rollback"}
  BY <1>1, OuterUnload DEF AfterUnload
<1>4. Types'
  BY <1>1, <1>2, <1>3 DEF IInv, Types, Plain, Points, SameLists, SameOwners, ha, tasks, outside, history, locals,
       locks
<1> QED BY <1>1, <1>2, <1>3, <1>4, OuterKeeps DEF ha, made, history, locks

LEMMA UnchangedKeeps ==
    ASSUME IInv, NEW p \in Proc, Unchanged(p) PROVE IInv'
<1>1. /\ pc[p] = "change" /\ Rest(p) /\ settingsLock' = NONE
      /\ UNCHANGED <<ha, made, outside, setupLock, history, spent>>
  BY DEF Unchanged, Answer
<1>2. SameLists /\ Lists'
  BY <1>1, SameListsSame DEF IInv, Types, Lists, Runtimes, Services, made
<1>3. /\ Control' /\ CallsInv' /\ Aside(p) /\ Outside(p) /\ Outside(p)' /\ pc'[p] = "idle" /\ ~Reloads(p)'
      /\ Points' /\ Apart(p) /\ was' \in [Proc -> Setting] /\ want' \in [Proc -> Setting] /\ seen' \in [Proc -> Nat]
  BY <1>1, <1>2, OuterRest DEF AfterUnload, SameLists, SameOwners
<1>4. Types'
  BY <1>1, <1>2, <1>3 DEF IInv, Types, Plain, ha, tasks, outside, history
<1> QED BY <1>1, <1>2, <1>3, <1>4, OuterKeeps DEF ha, made, history

LEMMA ChangedKeeps ==
    ASSUME IInv, NEW p \in Proc, Changed(p) PROVE IInv'
<1>1. pc[p] = "changed" /\ UNCHANGED <<ha, made, outside, setupLock, history, spent>>
  BY DEF Changed
<1>2. SameLists /\ Lists'
  BY <1>1, SameListsSame DEF IInv, Types, Lists, Runtimes, Services, made
<1>3. CASE result[p] = "ok"
  <2>1. settingsLock' = NONE /\ Rest(p)
    BY <1>3 DEF Changed, Answer
  <2>2. /\ Control' /\ CallsInv' /\ Aside(p) /\ Outside(p) /\ Outside(p)' /\ pc'[p] = "idle" /\ ~Reloads(p)'
        /\ Points' /\ Apart(p) /\ was' \in [Proc -> Setting] /\ want' \in [Proc -> Setting] /\ seen' \in [Proc -> Nat]
    BY <1>1, <1>2, <2>1, OuterRest DEF AfterSetup, SameLists, SameOwners
  <2>3. Types'
    BY <1>1, <1>2, <2>1, <2>2 DEF IInv, Types, Plain, ha, tasks, outside, history
  <2> QED BY <1>1, <1>2, <2>2, <2>3, OuterKeeps DEF ha, made, history
<1>4. CASE result[p] # "ok"
  <2>1. CallUnload(p, "rollback") /\ UNCHANGED <<settingsLock, locals>>
    BY <1>4 DEF Changed
  <2>2. /\ Control' /\ CallsInv' /\ Aside(p) /\ Outside(p) /\ Outside(p)' /\ ~Reloads(p)'
        /\ pc'[p] \in {"unload", "rollback"}
    BY <1>1, <2>1, OuterUnload DEF AfterSetup, AfterUnload
  <2>3. Types'
    BY <1>1, <1>2, <2>1, <2>2 DEF IInv, Types, Plain, Points, SameLists, SameOwners, ha, tasks, outside, history, locals
  <2>4. Apart(p)
    BY <2>1 DEF Apart, locals
  <2> QED BY <1>1, <1>2, <2>2, <2>3, <2>4, OuterKeeps DEF ha, made, history
<1> QED BY <1>3, <1>4

LEMMA RollbackKeeps ==
    ASSUME IInv, NEW p \in Proc, Rollback(p) PROVE IInv'
<1>1. /\ pc[p] = "rollback" /\ was[p] \in Setting /\ unrestored' \in BOOLEAN /\ (unrestored => unrestored')
      /\ UNCHANGED <<entry, made, outside, setupLock, reloading, crossed, overtaken, refused, spent>>
  BY DEF Rollback, IInv, Types, Plain
<1>2. SameLists /\ Lists'
  BY <1>1, SameListsSame DEF IInv, Types, Lists, Runtimes, Services, made
<1>3. CASE result[p] # "raised"
  <2>1. CallSetup(p, "restored") /\ Update(was[p]) /\ UNCHANGED <<settingsLock, locals>>
    BY <1>3 DEF Rollback
  <2>2. /\ Control' /\ CallsInv' /\ Aside(p) /\ Outside(p) /\ Outside(p)' /\ ~Reloads(p)'
        /\ pc'[p] \in {"setup", "restored"}
    BY <1>1, <2>1, OuterSetup DEF AfterSetup, AfterUnload
  <2>3. stored' \in Setting /\ listening' \in Nat
    BY <1>1, <2>1, UpdateTypes DEF IInv, Types
  <2>4. Types'
    BY <1>1, <1>2, <2>1, <2>2, <2>3 DEF IInv, Types, Plain, Points, SameLists, SameOwners, outside, locals
  <2>5. Apart(p)
    BY <2>1 DEF Apart, locals
  <2> QED BY <1>1, <1>2, <2>2, <2>4, <2>5, OuterKeeps DEF made
<1>4. CASE result[p] = "raised"
  <2>1. stored' = stored /\ listening' = listening /\ settingsLock' = NONE /\ Rest(p)
    BY <1>4 DEF Rollback, Answer
  <2>2. /\ Control' /\ CallsInv' /\ Aside(p) /\ Outside(p) /\ Outside(p)' /\ pc'[p] = "idle" /\ ~Reloads(p)'
        /\ Points' /\ Apart(p) /\ was' \in [Proc -> Setting] /\ want' \in [Proc -> Setting] /\ seen' \in [Proc -> Nat]
    BY <1>1, <1>2, <2>1, OuterRest DEF AfterUnload, SameLists, SameOwners
  <2>3. Types'
    BY <1>1, <1>2, <2>1, <2>2 DEF IInv, Types, Plain, outside
  <2> QED BY <1>1, <1>2, <2>2, <2>3, OuterKeeps DEF made
<1> QED BY <1>3, <1>4

LEMMA RestoredKeeps ==
    ASSUME IInv, NEW p \in Proc, Restored(p) PROVE IInv'
<1>1. /\ pc[p] = "restored" /\ Rest(p) /\ settingsLock' = NONE
      /\ UNCHANGED <<ha, made, outside, setupLock, history, spent>>
  BY DEF Restored, Answer
<1>2. SameLists /\ Lists'
  BY <1>1, SameListsSame DEF IInv, Types, Lists, Runtimes, Services, made
<1>3. /\ Control' /\ CallsInv' /\ Aside(p) /\ Outside(p) /\ Outside(p)' /\ pc'[p] = "idle" /\ ~Reloads(p)'
      /\ Points' /\ Apart(p) /\ was' \in [Proc -> Setting] /\ want' \in [Proc -> Setting] /\ seen' \in [Proc -> Nat]
  BY <1>1, <1>2, OuterRest DEF AfterSetup, SameLists, SameOwners
<1>4. Types'
  BY <1>1, <1>2, <1>3 DEF IInv, Types, Plain, ha, tasks, outside, history
<1> QED BY <1>1, <1>2, <1>3, <1>4, OuterKeeps DEF ha, made, history

LEMMA ListenedKeeps ==
    ASSUME IInv, NEW p \in Proc, Listened(p) PROVE IInv'
<1>1. /\ pc[p] = "listened" /\ Rest(p)
      /\ UNCHANGED <<entry, stored, made, outside, locks, listening, history, spent>>
  BY DEF Listened
<1>2. SameLists /\ Lists'
  BY <1>1, SameListsSame DEF IInv, Types, Lists, Runtimes, Services, made
<1>3. /\ Control' /\ CallsInv' /\ Aside(p) /\ Outside(p) /\ Outside(p)' /\ pc'[p] = "idle" /\ ~Reloads(p)'
      /\ Points' /\ Apart(p) /\ was' \in [Proc -> Setting] /\ want' \in [Proc -> Setting] /\ seen' \in [Proc -> Nat]
  BY <1>1, <1>2, OuterRest DEF AfterRestart, SameLists, SameOwners
<1>4. Types'
  <2>1. reloading' \in Nat
    BY DEF Listened, IInv, Types, Plain
  <2> QED BY <1>1, <1>2, <1>3, <2>1 DEF IInv, Types, Plain, outside, history, locks
<1> QED BY <1>1, <1>2, <1>3, <1>4, OuterKeeps DEF made, history, locks

LEMMA ListenKeeps ==
    ASSUME IInv, NEW p \in Proc, Listen(p) PROVE IInv'
<1>1. /\ pc[p] = "idle" /\ listening' \in Nat
      /\ UNCHANGED <<entry, stored, cur, services, outside, locks, reloading, obj, was, want, seen, history, spent>>
  BY DEF Listen, Fresh, Idle, IInv, Types, Plain
<1>2. CASE cur # 0 /\ WithoutPanel(runtimes[cur].options) # WithoutPanel(stored)
  <2>1. Call(p, "rlock", "listened") /\ gen' = [gen EXCEPT ![p] = cur] /\ runtimes' = runtimes
    BY <1>2 DEF Listen
  <2>2. SameLists /\ Lists'
    BY <1>1, <2>1, SameListsSame DEF IInv, Types, Lists, Runtimes, Services
  <2>3. /\ Control' /\ CallsInv' /\ Aside(p) /\ Outside(p) /\ Outside(p)' /\ pc'[p] = "rlock" /\ ~Reloads(p)'
    BY <1>1, <2>1, OuterCall DEF AfterRestart
  <2>4. Points' /\ Apart(p) /\ gen'[p] # 0
    BY <1>1, <1>2, <2>1, <2>2 DEF Points, Apart, SameLists, SameOwners, IInv, Types, Lists
  <2>5. Types'
    BY <1>1, <2>2, <2>3, <2>4 DEF IInv, Types, Plain, outside, history, locks
  <2> QED BY <1>1, <2>2, <2>3, <2>4, <2>5, OuterKeeps DEF history, locks
<1>3. CASE ~(cur # 0 /\ WithoutPanel(runtimes[cur].options) # WithoutPanel(stored))
  <2>1. /\ UNCHANGED <<control, gen>>
        /\ runtimes' = [g \in DOMAIN runtimes |->
                           IF g = cur THEN [runtimes[g] EXCEPT !.options = stored] ELSE runtimes[g]]
    BY <1>3 DEF Listen
  <2>2. runtimes' = [runtimes EXCEPT ![cur].options = stored]
    BY <2>1 DEF IInv, Types, Lists
  <2>3. SameLists /\ Lists'
    BY <1>1, <2>2, OptionsSame DEF IInv, Types, Plain
  <2>4. /\ Control' /\ CallsInv' /\ Aside(p) /\ Outside(p) /\ Outside(p)' /\ pc'[p] = "idle" /\ ~Reloads(p)'
    BY <1>1, <2>1, OuterIdle
  <2>5. Points' /\ Apart(p)
    BY <1>1, <2>1, <2>3 DEF Points, Apart, SameLists, SameOwners, IInv, Types
  <2>6. Types'
    BY <1>1, <2>3, <2>4, <2>5 DEF IInv, Types, Plain, outside, history, locks
  <2> QED BY <1>1, <2>3, <2>4, <2>5, <2>6, OuterKeeps DEF history, locks
<1> QED BY <1>2, <1>3

LEMMA TogglePanelKeeps ==
    ASSUME IInv, TogglePanel PROVE IInv'
<1>1. /\ UNCHANGED <<entry, made, outside, locks, reloading, control, locals, history>>
  BY DEF TogglePanel
<1>2. stored' \in Setting /\ listening' \in Nat /\ spent' \in [Kind -> Nat]
  <2>1. [stored EXCEPT !.panel = ~@] \in Setting
    BY SettingMade DEF IInv, Types, Plain
  <2> QED BY <2>1, UpdateTypes, SpendTypes DEF TogglePanel, IInv, Types, Kind, Asked
<1>3. \A q \in Proc : Outer(q)' = Outer(q) /\ Inner(q)' = Inner(q)
  BY <1>1 DEF Outer, Inner, control
<1>4. Types'
  BY <1>1, <1>2 DEF IInv, Types, Plain, Control, Deep, Outer, Inner, Lists, Points, Runtimes, Services,
       made, outside, locks, control, locals, history
<1>5. CallsInv' /\ RefersInv'
  BY <1>1, <1>3 DEF IInv, CallsInv, Calls, RefersInv, Refers, Restarts, Owned, Runtimes, made, control, locals
<1>6. LockInv' /\ HoldsInv'
  <2>1. \A q \in Proc : /\ Restarts(q)' = Restarts(q) /\ SetsUp(q)' = SetsUp(q) /\ Unloads(q)' = Unloads(q)
                       /\ Reloads(q)' = Reloads(q) /\ Without(q)' = Without(q)
    BY <1>1, <1>3 DEF Restarts, SetsUp, Unloads, Reloads, Without, control
  <2>2. EntryInv'
    BY <1>1, <2>1 DEF IInv, Types, Plain, LockInv, EntryInv, Bare, made, locks, history
  <2>3. \A q \in Proc : Locked(q)' /\ Stage(q)' /\ Holds(q)'
    BY <1>1, <2>1 DEF IInv, LockInv, Locked, Stage, Bare, HoldsInv, Holds, made, control, locals, locks, history
  <2> QED BY <2>2, <2>3 DEF LockInv, HoldsInv
<1>7. CountInv'
  BY <1>1, <1>3 DEF IInv, CountInv, Stacked, Counted, Remaking, Pending, Services, made, control, locals
<1>8. OneInv'
  BY <1>1, <1>3 DEF IInv, OneInv, Mine, Only, Still, Serving, Leaving, Restarts, Services, made, control, locals,
       locks, history
<1> QED BY <1>4, <1>5, <1>6, <1>7, <1>8 DEF IInv

LEMMA ReloadKeeps ==
    ASSUME IInv, NEW p \in Proc, Reload(p) PROVE IInv'
<1>1. /\ pc[p] = "idle" /\ reloading' \in Nat /\ spent' \in [Kind -> Nat] /\ CallUnload(p, "reloaded")
      /\ setupLock = NONE /\ setupLock' = p
      /\ UNCHANGED <<entry, stored, made, outside, settingsLock, listening, locals, history>>
  <2>1. spent' \in [Kind -> Nat]
    BY SpendTypes DEF Reload, Kind, Asked, IInv, Types, Plain
  <2> QED BY <2>1 DEF Reload, Fresh, Idle, IInv, Types, Plain
<1>2. SameLists /\ Lists'
  BY <1>1, SameListsSame DEF IInv, Types, Lists, Runtimes, Services, made
<1>3. /\ Control' /\ CallsInv' /\ Aside(p) /\ Outside(p) /\ Outside(p)' /\ pc'[p] \in {"unload", "reloaded"}
  BY <1>1, OuterUnload DEF AfterUnload
<1>4. Types' /\ Apart(p)
  BY <1>1, <1>2, <1>3 DEF IInv, Types, Plain, Points, Apart, SameLists, SameOwners, outside, history, locals
<1> QED BY <1>1, <1>2, <1>3, <1>4, OuterKeeps DEF made, history

LEMMA ReloadedKeeps ==
    ASSUME IInv, NEW p \in Proc, Reloaded(p) PROVE IInv'
<1>1. /\ pc[p] = "reloaded" /\ setupLock = p /\ UNCHANGED <<ha, made, outside, settingsLock, history, spent>>
  BY DEF Reloaded, IInv, LockInv, Locked, Reloads
<1>2. SameLists /\ Lists'
  BY <1>1, SameListsSame DEF IInv, Types, Lists, Runtimes, Services, made
<1>3. CASE result[p] = "ok"
  <2>1. Call(p, "setup", "end") /\ UNCHANGED <<setupLock, locals>>
    BY <1>3 DEF Reloaded
  <2>2. /\ Control' /\ CallsInv' /\ Aside(p) /\ Outside(p) /\ Outside(p)' /\ pc'[p] = "setup"
    BY <1>1, <2>1, OuterCall DEF AfterSetup, AfterUnload
  <2>3. Types' /\ Apart(p)
    BY <1>1, <1>2, <2>1, <2>2 DEF IInv, Types, Plain, Points, Apart, SameLists, SameOwners, ha, tasks, outside, history, locals
  <2> QED BY <1>1, <1>2, <2>1, <2>2, <2>3, OuterKeeps DEF ha, made, history
<1>4. CASE result[p] # "ok"
  <2>1. setupLock' = NONE /\ Rest(p)
    BY <1>4 DEF Reloaded
  <2>2. /\ Control' /\ CallsInv' /\ Aside(p) /\ Outside(p) /\ Outside(p)' /\ pc'[p] = "idle" /\ ~Reloads(p)'
        /\ Points' /\ Apart(p) /\ was' \in [Proc -> Setting] /\ want' \in [Proc -> Setting] /\ seen' \in [Proc -> Nat]
    BY <1>1, <1>2, <2>1, OuterRest DEF AfterUnload, SameLists, SameOwners
  <2>3. Types'
    BY <1>1, <1>2, <2>1, <2>2 DEF IInv, Types, Plain, ha, tasks, outside, history
  <2> QED BY <1>1, <1>2, <2>1, <2>2, <2>3, OuterKeeps DEF ha, made, history
<1> QED BY <1>3, <1>4

LEMMA ReloadEndKeeps ==
    ASSUME IInv, NEW p \in Proc, ReloadEnd(p) PROVE IInv'
<1>1. /\ pc[p] = "end" /\ setupLock = p /\ setupLock' = NONE /\ Rest(p)
      /\ UNCHANGED <<ha, made, outside, settingsLock, history, spent>>
  BY DEF ReloadEnd, IInv, LockInv, Locked, Reloads
<1>2. SameLists /\ Lists'
  BY <1>1, SameListsSame DEF IInv, Types, Lists, Runtimes, Services, made
<1>3. /\ Control' /\ CallsInv' /\ Aside(p) /\ Outside(p) /\ Outside(p)' /\ pc'[p] = "idle" /\ ~Reloads(p)'
      /\ Points' /\ Apart(p) /\ was' \in [Proc -> Setting] /\ want' \in [Proc -> Setting] /\ seen' \in [Proc -> Nat]
  BY <1>1, <1>2, OuterRest DEF AfterSetup, SameLists, SameOwners
<1>4. Types'
  BY <1>1, <1>2, <1>3 DEF IInv, Types, Plain, ha, tasks, outside, history
<1> QED BY <1>1, <1>2, <1>3, <1>4, OuterKeeps DEF ha, made, history

LEMMA RefreshKeeps ==
    ASSUME IInv, NEW p \in Proc, Refresh(p) PROVE IInv'
<1>1. /\ pc[p] = "idle" /\ file' \in Nat /\ spent' \in [Kind -> Nat] /\ reloading' \in Nat
      /\ UNCHANGED <<entry, stored, made, parts, locks, listening, obj, was, want, seen, history>>
  <2>1. spent' \in [Kind -> Nat]
    BY SpendTypes DEF Refresh, Kind, Asked, IInv, Types
  <2> QED BY <2>1 DEF Refresh, Fresh, Idle, IInv, Types, Plain
<1>2. SameLists /\ Lists'
  BY <1>1, SameListsSame DEF IInv, Types, Lists, Runtimes, Services, made
<1>3. CASE cur = 0
  <2>1. UNCHANGED <<control, gen>>
    BY <1>3 DEF Refresh
  <2>2. /\ Control' /\ CallsInv' /\ Aside(p) /\ Outside(p) /\ Outside(p)' /\ pc'[p] = "idle" /\ ~Reloads(p)'
    BY <1>1, <2>1, OuterIdle
  <2>3. Types' /\ Apart(p)
    BY <1>1, <1>2, <2>1, <2>2 DEF IInv, Types, Plain, Points, Apart, SameLists, SameOwners, locks, history
  <2> QED BY <1>1, <1>2, <2>2, <2>3, OuterKeeps DEF made, locks, history
<1>4. CASE cur # 0
  <2>1. Goto(p, "fread") /\ gen' = [gen EXCEPT ![p] = cur]
    BY <1>4 DEF Refresh
  <2>2. Outer(p) = "idle" /\ Inner(p) = "idle"
    BY <1>1 DEF IInv, CallsInv, Calls, Placed
  <2>3. Control' /\ At(p, "fread", "idle", "idle", result[p])
    BY <2>1, <2>2, GotoAt DEF IInv, Types, Label
  <2>4. CallsInv'
    <3>1. Placed("fread", "idle", "idle")
      BY DEF Placed, RestartAt, SetupAt, UnloadAt, StartAt, AfterRestart, AfterSetup, AfterUnload
    <3> QED BY <2>3, <3>1, CallsStep DEF IInv
  <2>5. Aside(p) /\ Outside(p) /\ Outside(p)' /\ ~Reloads(p)' /\ pc'[p] = "fread"
    BY <1>1, <2>2, <2>3, OthersAt DEF Outside, Reloads
  <2>6. Points' /\ Apart(p) /\ gen'[p] # 0
    BY <1>1, <1>2, <1>4, <2>1 DEF Points, Apart, SameLists, SameOwners, IInv, Types, Lists
  <2>7. Types'
    BY <1>1, <1>2, <2>3, <2>6 DEF IInv, Types, Plain, locks, history
  <2> QED BY <1>1, <1>2, <2>4, <2>5, <2>6, <2>7, OuterKeeps DEF made, locks, history
<1> QED BY <1>3, <1>4

LEMMA ReadFileKeeps ==
    ASSUME IInv, NEW p \in Proc, ReadFile(p) PROVE IInv'
<1>1. /\ pc[p] = "fread" /\ Goto(p, "hand") /\ seen' \in [Proc -> Nat] /\ gen[p] # 0
      /\ \A q \in Proc \ {p} : seen'[q] = seen[q]
      /\ UNCHANGED <<ha, made, outside, locks, gen, obj, was, want, history, spent>>
  BY DEF ReadFile, IInv, Types, Plain, RefersInv, Refers
<1>2. SameLists /\ Lists' /\ Apart(p)
  BY <1>1, SameListsSame DEF IInv, Types, Lists, Runtimes, Services, made, Apart
<1>3. Outer(p) = "idle" /\ Inner(p) = "idle"
  BY <1>1 DEF IInv, CallsInv, Calls, Placed
<1>4. Control' /\ At(p, "hand", "idle", "idle", result[p])
  BY <1>1, <1>3, GotoAt DEF IInv, Types, Label
<1>5. CallsInv'
  <2>1. Placed("hand", "idle", "idle")
    BY DEF Placed, RestartAt, SetupAt, UnloadAt, StartAt, AfterRestart, AfterSetup, AfterUnload
  <2> QED BY <1>4, <2>1, CallsStep DEF IInv
<1>6. Aside(p) /\ Outside(p) /\ Outside(p)' /\ ~Reloads(p)' /\ pc'[p] = "hand"
  BY <1>1, <1>3, <1>4, OthersAt DEF Outside, Reloads
<1>7. Types'
  BY <1>1, <1>2, <1>4 DEF IInv, Types, Plain, Points, SameLists, SameOwners, ha, tasks, outside, locks, history
<1> QED BY <1>1, <1>2, <1>5, <1>6, <1>7, OuterKeeps DEF ha, made, locks, history

LEMMA HandKeeps ==
    ASSUME IInv, NEW p \in Proc, Hand(p) PROVE IInv'
<1>1. /\ pc[p] = "hand" /\ Rest(p) /\ overtaken' \in BOOLEAN
      /\ UNCHANGED <<ha, runtimes, cur, outside, locks, crossed, refused, unrestored, spent>>
      /\ seen[p] \in Nat
  BY DEF Hand, IInv, Types, Plain
<1>2. PICK s : services' = [services EXCEPT ![s].file = IF services[s].stack THEN seen[p] ELSE @]
  BY DEF Hand
<1>3. /\ services' \in [1..Services -> ServiceT(Runtimes)]
      /\ \A k \in 1..Services :
            /\ services'[k].gen = services[k].gen
            /\ services'[k].stack = services[k].stack /\ services'[k].live = services[k].live
  <2>1. Lists
    BY DEF IInv, Types
  <2> QED BY <1>1, <1>2, <2>1, FileView
<1>4. SameLists /\ Lists'
  <2>1. Lists' /\ Runtimes' = Runtimes /\ Services' = Services
    BY <1>1, <1>3, ListsTo DEF IInv, Types, Lists
  <2> QED BY <1>1, <1>3, <2>1 DEF SameLists, SameOwners, SameLocks, SameRuns
<1>5. /\ Control' /\ CallsInv' /\ Aside(p) /\ Outside(p) /\ Outside(p)' /\ pc'[p] = "idle" /\ ~Reloads(p)'
      /\ Points' /\ Apart(p) /\ was' \in [Proc -> Setting] /\ want' \in [Proc -> Setting] /\ seen' \in [Proc -> Nat]
  BY <1>1, <1>4, OuterRest DEF SameLists, SameOwners
<1>6. Types'
  BY <1>1, <1>4, <1>5 DEF IInv, Types, Plain, ha, tasks, outside, locks
<1> QED BY <1>1, <1>4, <1>5, <1>6, OuterKeeps DEF ha, locks

(***************************************************************************)
(* A start                                                                 *)
(***************************************************************************)
LEMMA Starts ==
    ASSUME IInv, NEW p \in Proc, pc[p] \in StartAt
    PROVE  /\ \/ Inner(p) = "rdone" /\ Outer(p) \in AfterRestart
              \/ Inner(p) = "sdone" /\ Outer(p) \in AfterSetup
           /\ obj[p] \in 1..Services
           /\ Inner(p) = "rdone" => gen[p] \in 1..Runtimes /\ obj[p] = runtimes[gen[p]].service
BY DEF IInv, CallsInv, Calls, Placed, RefersInv, Refers, Restarts, Types, Points, Lists

LEMMA CheckKeeps ==
    ASSUME IInv, NEW p \in Proc, Check(p) PROVE IInv'
<1>1. /\ pc[p] = "check" /\ pc[p] \in StartAt
      /\ UNCHANGED <<ha, made, outside, locks, locals, history>>
      /\ \/ Inner(p) = "rdone" /\ Outer(p) \in AfterRestart
         \/ Inner(p) = "sdone" /\ Outer(p) \in AfterSetup
  BY Starts DEF Check, StartAt
<1>2. \/ Goto(p, "run") /\ spent' = spent
      \/ Return(p, "raised") /\ spent' \in [Kind -> Nat]
  BY SpendTypes DEF Check, Kind, Fault, IInv, Types, Plain
<1>3. /\ Control' /\ CallsInv' /\ Aside(p) /\ spent' \in [Kind -> Nat] /\ Outer(p)' = Outer(p)
      /\ \/ pc'[p] = "run" /\ Inner(p)' = Inner(p)
         \/ pc'[p] = Inner(p) /\ Inner(p)' = "idle" /\ result'[p] = "raised"
  <2>1. CASE Goto(p, "run") /\ spent' = spent
    <3>1. Placed("run", Outer(p), Inner(p)) /\ "run" \in Label
      BY <1>1 DEF Placed, Label, RestartAt, SetupAt, UnloadAt, StartAt, AfterRestart, AfterSetup, AfterUnload
    <3> QED BY <2>1, <3>1, GotoStep DEF IInv, Types, Plain
  <2>2. CASE Return(p, "raised") /\ spent' \in [Kind -> Nat]
    BY <1>1, <2>2, StartReturn
  <2> QED BY <1>2, <2>1, <2>2
<1>4. SameLists /\ Lists' /\ Apart(p)
  BY <1>1, SameListsSame DEF IInv, Types, Lists, Runtimes, Services, made, Apart, locals
<1>5. Types'
  BY <1>1, <1>3, <1>4 DEF IInv, Types, Plain, Points, SameLists, SameOwners, ha, tasks, made, outside, locks,
       locals, history
<1>6. /\ Restarts(p)' = Restarts(p) /\ SetsUp(p)' = SetsUp(p) /\ Unloads(p)' = Unloads(p)
      /\ Reloads(p)' = Reloads(p) /\ Without(p)' = Without(p)
  BY <1>1, <1>3 DEF Restarts, SetsUp, Unloads, Reloads, Without, SetupAt, UnloadAt
<1>7. RefersInv'
  <2>1. Refers(p)'
    BY <1>1, <1>3, <1>4, <1>6 DEF IInv, RefersInv, Refers, StartAt, made, locals
  <2> QED BY <1>3, <1>4, <2>1, RefersSame DEF SameLists
<1>8. LockInv'
  BY <1>1, <1>3, <1>6, LockSame DEF ha, made, locks, locals, history
<1>9. HoldsInv'
  <2>1. Holds(p)'
    BY <1>1, <1>3, <1>6 DEF IInv, HoldsInv, Holds, made, locals
  <2> QED BY <1>3, <1>4, <2>1, HoldsSame DEF SameLists
<1>10. CountInv'
  <2>1. Stacked'
    BY <1>4 DEF IInv, CountInv, Stacked, SameLists, SameOwners, SameRuns
  <2>2. ASSUME NEW s \in 1..Services
        PROVE  (Remaking(p, s)' => Remaking(p, s)) /\ (Pending(p, s)' => Pending(p, s))
    BY <1>1, <1>3 DEF Remaking, Pending, locals
  <2> QED BY <1>3, <1>4, <2>1, <2>2, CountSame DEF SameLists, SameRuns
<1>11. OneInv'
  <2>1. /\ entry' = entry /\ setupLock' = setupLock /\ runtimes' = runtimes /\ services' = services /\ cur' = cur
        /\ gen' = gen /\ obj' = obj /\ crossed' = crossed
    BY <1>1 DEF ha, made, locks, locals, history
  <2>2. Up => Up'
    BY <1>1, <1>3, <2>1, UpSame
  <2>3. Serving => Serving'
    BY <1>1, <1>3, <2>1, UpSame
  <2>4. ~crossed => Mine(p)'
    BY <1>1, <1>3, <1>6, <2>1, <2>2 DEF IInv, OneInv, Mine, Up, Still, Services
  <2> QED BY <1>3, <1>4, <2>1, <2>2, <2>3, <2>4, OneSame
<1> QED BY <1>3, <1>5, <1>7, <1>8, <1>9, <1>10, <1>11 DEF IInv

LEMMA RunKeeps ==
    ASSUME IInv, NEW p \in Proc, Run(p) PROVE IInv'
<1>1. /\ pc[p] = "run" /\ pc[p] \in StartAt /\ Return(p, "ok")
      /\ UNCHANGED <<ha, runtimes, cur, outside, locks, locals, history, spent>>
      /\ obj[p] \in 1..Services
      /\ \/ Inner(p) = "rdone" /\ Outer(p) \in AfterRestart
         \/ Inner(p) = "sdone" /\ Outer(p) \in AfterSetup
  BY Starts DEF Run, StartAt
<1>2. /\ Control' /\ CallsInv' /\ Aside(p) /\ Outer(p)' = Outer(p)
      /\ pc'[p] = Inner(p) /\ Inner(p)' = "idle" /\ result'[p] = "ok"
  BY <1>1, StartReturn
<1> PICK s \in 1..Services : s = obj[p]
  BY <1>1
<1>3. services[s].live <= 1
  BY <1>1 DEF IInv, CountInv, Counted, Remaking, Pending
<1>4. /\ services' \in [1..Services -> ServiceT(Runtimes)]
      /\ \A k \in 1..Services : k # s => services'[k] = services[k]
      /\ services'[s].gen = services[s].gen /\ services'[s].stack /\ services'[s].live = services[s].live + 1
  <2>1. services' = [services EXCEPT ![s].stack = TRUE, ![s].live = @ + 1] /\ Lists
    BY DEF Run, IInv, Types
  <2> QED BY <1>1, <1>3, <2>1, RunView
<1>5. Lists' /\ SameOwners /\ SameLocks
  <2>1. Lists' /\ Runtimes' = Runtimes /\ Services' = Services
    BY <1>1, <1>4, ListsTo DEF IInv, Types, Lists
  <2> QED BY <1>1, <1>4, <2>1 DEF SameOwners, SameLocks
<1>6. Types' /\ Apart(p)
  BY <1>1, <1>2, <1>5 DEF IInv, Types, Plain, Points, Apart, SameOwners, ha, tasks, outside, locks, locals, history
<1>7. /\ Restarts(p)' = Restarts(p) /\ SetsUp(p)' = SetsUp(p) /\ Unloads(p)' = Unloads(p)
      /\ Reloads(p)' = Reloads(p) /\ Without(p)' = Without(p)
  BY <1>1, <1>2 DEF Restarts, SetsUp, Unloads, Reloads, Without, SetupAt, UnloadAt
<1>8. RefersInv'
  <2>1. Refers(p)'
    BY <1>1, <1>2, <1>7 DEF IInv, RefersInv, Refers, StartAt, locals
  <2> QED BY <1>2, <1>5, <1>6, <2>1, RefersSame
<1>9. LockInv'
  BY <1>1, <1>2, <1>7, LockSame DEF ha, locks, locals, history
<1>10. HoldsInv'
  <2>1. Holds(p)'
    BY <1>1, <1>2, <1>7 DEF IInv, HoldsInv, Holds, locals
  <2> QED BY <1>2, <1>5, <1>6, <2>1, HoldsSame
<1>11. ASSUME NEW q \in Proc, Remaking(p, s), Remaking(q, s) PROVE q = p
  <2>1. Restarts(p) /\ Restarts(q) /\ pc[q] \in StartAt
    BY <1>1, <1>11, Nested DEF Remaking, Restarts
  <2>2. gen[p] = services[s].gen /\ gen[q] = services[s].gen
    BY <1>1, <1>11, <2>1 DEF Remaking, IInv, RefersInv, Refers
  <2> QED BY <2>1, <2>2, Holders
<1>12. ASSUME NEW q \in Proc, Inner(p) = "sdone", Pending(q, s) PROVE q = p
  <2>1. SetsUp(p) /\ SetsUp(q)
    BY <1>12 DEF SetsUp, SetupAt, Pending
  <2> QED BY <2>1 DEF IInv, LockInv, Locked
<1>13. CountInv'
  <2>1. Stacked'
    <3>1. ASSUME NEW k \in 1..Services, k # s PROVE services'[k].stack => services'[k].live >= 1
      BY <1>4, <3>1 DEF IInv, CountInv, Stacked
    <3>2. services'[s].live >= 1
      <4>1. services[s].live \in 0..2
        BY <1>1, ServiceIs DEF IInv, Types
      <4> QED BY <1>4, <4>1
    <3> QED BY <1>5, <3>1, <3>2 DEF Stacked, SameOwners
  <2>2. ASSUME NEW k \in 1..Services, NEW q \in Proc
        PROVE  /\ Remaking(q, k)' => Remaking(q, k) /\ q # p
               /\ Pending(q, k)' => Pending(q, k) /\ q # p
    <3>1. ~Remaking(p, k)' /\ ~Pending(p, k)'
      BY <1>1, <1>2 DEF Remaking, Pending
    <3>2. CASE q # p
      BY <1>2, <1>5, <1>6, <3>2 DEF Aside, Apart, SameOwners, Remaking, Pending
    <3> QED BY <3>1, <3>2
  <2>3. ASSUME NEW k \in 1..Services, k # s PROVE Counted(k)'
    BY <1>4, <2>2, <2>3 DEF IInv, CountInv, Counted
  <2>4. Counted(s)'
    <3>1. services[s].live \in 0..2
      BY <1>1, ServiceIs DEF IInv, Types
    <3>2. CASE Remaking(p, s)
      <4>1. ASSUME NEW q \in Proc PROVE ~Remaking(q, s)' /\ (Pending(q, s)' => services[s].live = 0)
        BY <1>1, <1>11, <2>2, <3>2 DEF IInv, CountInv, Counted
      <4> QED BY <1>4, <3>1, <4>1 DEF Counted
    <3>3. CASE Inner(p) = "sdone"
      <4>1. Pending(p, s)
        BY <3>3 DEF Pending
      <4>2. ASSUME NEW q \in Proc PROVE ~Pending(q, s)' /\ (Remaking(q, s)' => services[s].live = 0)
        BY <1>1, <1>12, <2>2, <3>3, <4>1 DEF IInv, CountInv, Counted
      <4> QED BY <1>4, <3>1, <4>2 DEF Counted
    <3> QED BY <1>1, <3>2, <3>3 DEF Remaking
  <2> QED BY <1>5, <2>1, <2>3, <2>4 DEF CountInv, SameOwners
<1>14. OneInv'
  <2> SUFFICES ASSUME ~crossed PROVE (\A q \in Proc : Mine(q)') /\ \A k \in 1..Services : Only(k)'
    BY <1>1, <1>5 DEF OneInv, SameOwners, history
  <2>1. /\ entry' = entry /\ setupLock' = setupLock /\ runtimes' = runtimes /\ cur' = cur
        /\ gen' = gen /\ obj' = obj
    BY <1>1 DEF ha, locks, locals
  <2>2. Still /\ cur # 0 /\ s = runtimes[cur].service /\ Serving' /\ (Restarts(p) => Up)
        /\ \A q \in Proc \ {p} : ~Restarts(q) /\ Inner(q) # "sdone"
    <3>1. CASE Inner(p) = "rdone"
      <4>1. Restarts(p) /\ Still /\ gen[p] = cur /\ Up /\ cur \in 1..Runtimes
        BY <3>1, Holders DEF Restarts, IInv, OneInv, Mine, Up
      <4>2. s = runtimes[cur].service
        BY <3>1, <4>1 DEF IInv, RefersInv, Refers
      <4>3. ASSUME NEW q \in Proc \ {p} PROVE ~Restarts(q)
        BY <4>1, Holders DEF IInv, OneInv, Mine
      <4>4. ASSUME NEW q \in Proc PROVE Inner(q) # "sdone"
        BY <4>1, Starter DEF Up, Leaving
      <4>5. Serving'
        BY <1>1, <1>2, <2>1, <4>1, UpSame DEF Up, Serving
      <4> QED BY <4>1, <4>2, <4>3, <4>4, <4>5
    <3>2. CASE Inner(p) = "sdone"
      <4>1. cur # 0 /\ entry = "setup" /\ setupLock = p /\ s = runtimes[cur].service
        BY <3>2, Starter DEF IInv, OneInv, Mine
      <4>2. Still
        BY <1>1, <4>1 DEF IInv, OneInv, Only, Still, Serving, Leaving
      <4>3. ASSUME NEW q \in Proc PROVE ~Restarts(q)
        BY <4>1 DEF IInv, OneInv, Mine, Leaving
      <4>4. ASSUME NEW q \in Proc \ {p} PROVE Inner(q) # "sdone"
        BY <4>1, Starter
      <4>5. Serving'
        BY <1>2, <2>1, <3>2, <4>1 DEF Serving
      <4> QED BY <4>1, <4>2, <4>3, <4>4, <4>5
    <3> QED BY <1>1, <3>1, <3>2
  <2>3. ASSUME NEW q \in Proc PROVE Mine(q)'
    <3>1. CASE q = p
      <4>1. Restarts(p)' => gen[p] = cur /\ Up
        BY <1>7, <2>2 DEF IInv, OneInv, Mine
      <4>2. Up => Up'
        BY <1>1, <1>2, <2>1, UpSame
      <4> QED BY <1>1, <1>2, <2>1, <3>1, <4>1, <4>2 DEF Mine, Up
    <3>2. CASE q # p
      BY <1>2, <2>2, <3>2 DEF Mine, Aside, Restarts
    <3> QED BY <3>1, <3>2
  <2>4. ASSUME NEW k \in 1..Services PROVE Only(k)'
    <3>1. CASE k = s
      <4>1. services'[s].live = 1
        BY <1>1, <1>4, <2>2 DEF Still
      <4> QED BY <1>4, <2>1, <2>2, <3>1, <4>1 DEF Only
    <3>2. CASE k # s
      BY <1>4, <2>2, <3>2 DEF Only, Still
    <3> QED BY <3>1, <3>2
  <2> QED BY <2>3, <2>4
<1> QED BY <1>2, <1>6, <1>8, <1>9, <1>10, <1>13, <1>14 DEF IInv

(***************************************************************************)
(* A restart                                                               *)
(***************************************************************************)
LEMMA Restarting ==
    ASSUME IInv, NEW p \in Proc, pc[p] \in RestartAt
    PROVE  /\ gen[p] \in 1..Runtimes /\ Outer(p) \in AfterRestart /\ Inner(p) = "idle"
           /\ runtimes[gen[p]].service \in 1..Services
           /\ ~SetsUp(p) /\ ~Unloads(p) /\ ~Reloads(p)
<1>1. gen[p] \in 1..Runtimes /\ Outer(p) \in AfterRestart /\ Inner(p) = "idle"
  BY DEF IInv, CallsInv, Calls, Placed, RefersInv, Refers, Restarts, RestartAt, Types, Points
<1> QED BY <1>1, RuntimeIs DEF IInv, Types, SetsUp, Unloads, Reloads, RestartAt, SetupAt, UnloadAt, AfterRestart

\* While the entry is up, only one restarts the service.
LEMMA Alone ==
    ASSUME IInv, ~crossed, NEW p \in Proc, Restarts(p)
    PROVE  /\ gen[p] = cur /\ cur \in 1..Runtimes /\ Up /\ \A q \in Proc \ {p} : ~Restarts(q)
           /\ \A q \in Proc : Inner(q) # "sdone"
<1>1. gen[p] = cur /\ cur \in 1..Runtimes /\ Up
  BY Holders DEF IInv, OneInv, Mine, Up
<1>2. ASSUME NEW q \in Proc \ {p} PROVE ~Restarts(q)
  BY <1>1, Holders DEF IInv, OneInv, Mine
<1>3. ASSUME NEW q \in Proc PROVE Inner(q) # "sdone"
  BY <1>1, Starter DEF Up, Leaving
<1> QED BY <1>1, <1>2, <1>3

LEMMA RestartLockKeeps ==
    ASSUME IInv, NEW p \in Proc, RestartLock(p) PROVE IInv'
<1>1. /\ pc[p] = "rlock" /\ gen[p] \in 1..Runtimes /\ Outer(p) \in AfterRestart /\ Inner(p) = "idle"
      /\ ~SetsUp(p) /\ ~Unloads(p) /\ ~Reloads(p) /\ Goto(p, "rstop") /\ crossed' \in BOOLEAN
      /\ runtimes[gen[p]].lock = NONE /\ runtimes' = [runtimes EXCEPT ![gen[p]].lock = p]
      /\ UNCHANGED <<ha, cur, services, outside, locks, locals, overtaken, refused, unrestored, spent>>
  BY Restarting DEF RestartLock, RestartAt, IInv, Types, Plain
<1>2. /\ Control' /\ CallsInv' /\ Aside(p) /\ pc'[p] = "rstop" /\ Outer(p)' = Outer(p) /\ Inner(p)' = "idle"
  <2>1. Placed("rstop", Outer(p), Inner(p)) /\ "rstop" \in Label
    BY <1>1 DEF Placed, Label, RestartAt, SetupAt, UnloadAt, StartAt, AfterRestart, AfterSetup, AfterUnload
  <2> QED BY <1>1, <2>1, GotoStep
<1>3. /\ runtimes' \in [1..Runtimes -> RuntimeT(Services)]
      /\ \A k \in 1..Runtimes : /\ runtimes'[k].service = runtimes[k].service
                                /\ runtimes'[k].lock = IF k = gen[p] THEN p ELSE runtimes[k].lock
  BY ZenonT(30), <1>1, LockView DEF IInv, Types
<1>4. Lists' /\ SameOwners /\ Apart(p)
  <2>1. Lists' /\ Runtimes' = Runtimes /\ Services' = Services
    BY <1>1, <1>3, ListsTo DEF IInv, Types, Lists
  <2> QED BY <1>1, <1>3, <2>1 DEF SameOwners, Apart, locals
<1>5. Types'
  BY <1>1, <1>2, <1>4 DEF IInv, Types, Plain, Points, SameOwners, ha, tasks, outside, locks, locals
<1>6. RefersInv'
  <2>1. Refers(p)'
    BY <1>1, <1>2 DEF Refers, StartAt, locals
  <2> QED BY <1>2, <1>4, <2>1, RefersSame
<1>7. LockInv'
  <2>1. ~SetsUp(p)' /\ ~Unloads(p)' /\ ~Reloads(p)' /\ Without(p)' = Without(p)
    BY <1>1, <1>2 DEF SetsUp, Unloads, Reloads, Without, SetupAt, UnloadAt, AfterRestart
  <2> QED BY <1>1, <1>2, <2>1, LockSame DEF ha, locks, locals
<1>8. HoldsInv'
  <2>1. Holds(p)'
    BY <1>1, <1>2, <1>3 DEF Holds, locals
  <2>2. ASSUME NEW q \in Proc \ {p} PROVE Holds(q)'
    <3>1. Restarts(q) \/ pc[q] = "ustop" => gen[q] # gen[p]
      BY <1>1, Holders, EntryAssumption
    <3> QED BY <1>2, <1>3, <1>4, <3>1, Holders DEF Aside, Apart, Holds
  <2> QED BY <2>1, <2>2 DEF HoldsInv
<1>9. CountInv'
  <2>1. Stacked' /\ services' = services
    BY <1>1, <1>4 DEF IInv, CountInv, Stacked, SameOwners
  <2>2. ASSUME NEW s \in 1..Services PROVE ~Remaking(p, s)' /\ ~Pending(p, s)'
    BY <1>2 DEF Remaking, Pending
  <2> QED BY <1>2, <1>4, <2>1, <2>2, CountSame
<1>10. OneInv'
  <2> SUFFICES ASSUME ~crossed' PROVE (\A q \in Proc : Mine(q)') /\ \A s \in 1..Services : Only(s)'
    BY <1>4 DEF OneInv, SameOwners
  <2>1. /\ ~crossed /\ entry = "loaded" /\ gen[p] = cur /\ services' = services /\ Still' = Still
        /\ entry' = entry /\ cur' = cur /\ gen' = gen /\ obj' = obj
        /\ runtimes'[cur].service = runtimes[cur].service
    BY <1>1, <1>3, <1>4 DEF RestartLock, Still, SameOwners, ha, locals
  <2>2. Mine(p)'
    BY <1>2, <2>1 DEF Mine
  <2>3. ASSUME NEW q \in Proc \ {p} PROVE Mine(q)'
    BY <1>2, <2>1 DEF IInv, OneInv, Mine, Aside, Leaving
  <2>4. ASSUME NEW s \in 1..Services PROVE Only(s)'
    BY <2>1 DEF IInv, OneInv, Only, Serving
  <2> QED BY <2>2, <2>3, <2>4
<1> QED BY <1>2, <1>5, <1>6, <1>7, <1>8, <1>9, <1>10 DEF IInv

\* What a service stopped leaves.
LEMMA StopLeaves ==
    ASSUME IInv, NEW s \in 1..Services, services' = Stopped(s), Services' = Services
    PROVE  /\ services' \in [1..Services -> ServiceT(Runtimes)]
           /\ \A k \in 1..Services : /\ services'[k].gen = services[k].gen
                                     /\ services[k].live = 0 => services'[k].live = 0
                                     /\ services[k].live <= 1 => services'[k].live <= 1
                                     /\ ~crossed /\ s = runtimes[cur].service => services'[k].live = 0
           /\ ~services'[s].stack
<1>1. /\ services' \in [1..Services -> ServiceT(Runtimes)]
      /\ \A k \in 1..Services : k # s => services'[k] = services[k]
      /\ services'[s].gen = services[s].gen /\ ~services'[s].stack
      /\ services'[s].live = IF services[s].stack THEN services[s].live - 1 ELSE services[s].live
  BY StopView DEF IInv, Types, CountInv
<1>2. ASSUME NEW k \in 1..Services PROVE services[k].live \in 0..2 /\ (services[k].stack => services[k].live >= 1)
  BY ServiceIs DEF IInv, Types, CountInv, Stacked
<1>3. ASSUME NEW k \in 1..Services
      PROVE  /\ services'[k].gen = services[k].gen
             /\ services[k].live = 0 => services'[k].live = 0
             /\ services[k].live <= 1 => services'[k].live <= 1
  <2>1. CASE k = s /\ services[s].stack
    BY <1>1, <1>2, <2>1
  <2>2. CASE k = s /\ ~services[s].stack
    BY <1>1, <1>2, <2>2
  <2>3. CASE k # s
    BY <1>1, <2>3
  <2> QED BY <2>1, <2>2, <2>3
<1>4. ASSUME NEW k \in 1..Services, ~crossed, s = runtimes[cur].service
      PROVE  services'[k].live = 0
  <2>1. services[k].live # 0 => k = s /\ services[s].live = 1 /\ services[s].stack
    BY <1>4 DEF IInv, OneInv, Only
  <2>2. CASE services[k].live # 0
    BY <1>1, <2>1, <2>2
  <2>3. CASE services[k].live = 0
    BY <1>3, <2>3
  <2> QED BY <2>2, <2>3
<1> QED BY <1>1, <1>3, <1>4

LEMMA StopStacked ==
    ASSUME IInv, NEW s \in 1..Services, services' = Stopped(s), Services' = Services
    PROVE  Stacked'
<1>1. \A k \in 1..Services : k # s => services'[k] = services[k]
  BY StopView DEF IInv, Types, CountInv
<1> QED BY <1>1, StopLeaves DEF IInv, CountInv, Stacked

LEMMA RestartStopKeeps ==
    ASSUME IInv, NEW p \in Proc, RestartStop(p) PROVE IInv'
<1> PICK g \in 1..Runtimes, s \in 1..Services : g = gen[p] /\ s = runtimes[g].service
  BY Restarting DEF RestartStop, RestartAt
<1>1. /\ pc[p] = "rstop" /\ Outer(p) \in AfterRestart /\ Inner(p) = "idle" /\ Restarts(p)
      /\ ~SetsUp(p) /\ ~Unloads(p) /\ ~Reloads(p) /\ services' = Stopped(s)
      /\ UNCHANGED <<ha, cur, outside, locks, locals, history>>
  BY Restarting DEF RestartStop, RestartAt, Restarts
<1>2. \/ /\ Goto(p, "rmake") /\ spent' = spent /\ runtimes' = [runtimes EXCEPT ![g].options = stored]
      \/ /\ Return(p, "raised") /\ spent' \in [Kind -> Nat] /\ runtimes' = [runtimes EXCEPT ![g].lock = NONE]
  BY SpendTypes DEF RestartStop, Kind, Fault, IInv, Types
<1>3. /\ Control' /\ CallsInv' /\ Aside(p) /\ spent' \in [Kind -> Nat] /\ Inner(p)' = "idle"
      /\ \/ pc'[p] = "rmake" /\ Outer(p)' = Outer(p)
         \/ pc'[p] = Outer(p) /\ Outer(p)' = "idle"
  <2>1. CASE Goto(p, "rmake") /\ spent' = spent
    <3>1. Placed("rmake", Outer(p), Inner(p)) /\ "rmake" \in Label
      BY <1>1 DEF Placed, Label, RestartAt, SetupAt, UnloadAt, StartAt, AfterRestart, AfterSetup, AfterUnload
    <3> QED BY <1>1, <2>1, <3>1, GotoStep DEF IInv, Types, Plain
  <2>2. CASE Return(p, "raised") /\ spent' \in [Kind -> Nat]
    BY <1>1, <2>2, CallReturn DEF RestartAt
  <2> QED BY <1>2, <2>1, <2>2
<1>4. /\ runtimes' \in [1..Runtimes -> RuntimeT(Services)]
      /\ \A k \in 1..Runtimes : /\ runtimes'[k].service = runtimes[k].service
                                /\ k # g => runtimes'[k].lock = runtimes[k].lock
                                /\ pc'[p] = "rmake" => runtimes'[k].lock = runtimes[k].lock
  <2>1. CASE runtimes' = [runtimes EXCEPT ![g].options = stored]
    BY <2>1, OptionsView DEF IInv, Types, Plain
  <2>2. CASE Return(p, "raised") /\ runtimes' = [runtimes EXCEPT ![g].lock = NONE]
    <3>1. pc'[p] # "rmake"
      BY <1>1, <2>2, CallReturn DEF RestartAt, AfterRestart
    <3> QED BY <2>2, <3>1, LockView DEF IInv, Types
  <2> QED BY <1>2, <2>1, <2>2
<1>5. Lists' /\ SameOwners /\ Apart(p)
  <2>1. services' \in [1..Services -> ServiceT(Runtimes)]
    BY <1>1, StopView DEF IInv, Types, CountInv
  <2>2. Lists' /\ Runtimes' = Runtimes /\ Services' = Services
    BY <1>1, <1>4, <2>1, ListsTo DEF IInv, Types, Lists
  <2> QED BY <1>1, <1>4, <2>2, StopLeaves DEF SameOwners, Apart, locals
<1>6. Types'
  BY <1>1, <1>3, <1>5 DEF IInv, Types, Plain, Points, SameOwners, ha, tasks, outside, locks, locals, history
<1>7. RefersInv'
  <2>1. Refers(p)'
    BY <1>1, <1>3 DEF Refers, StartAt, AfterRestart, locals
  <2> QED BY <1>3, <1>5, <2>1, RefersSame
<1>8. LockInv'
  <2>1. ~SetsUp(p)' /\ ~Unloads(p)' /\ ~Reloads(p)' /\ (Without(p)' <=> Without(p))
    BY <1>1, <1>3 DEF SetsUp, Unloads, Reloads, Without, SetupAt, UnloadAt, AfterRestart
  <2> QED BY <1>1, <1>3, <2>1, LockSame DEF ha, locks, locals, history
<1>9. HoldsInv'
  <2>1. Holds(p)'
    BY <1>1, <1>3, <1>4, Holders DEF Holds, Restarts, AfterRestart, locals
  <2>2. ASSUME NEW q \in Proc \ {p} PROVE Holds(q)'
    <3>1. Restarts(q) \/ pc[q] = "ustop" => gen[q] # g
      BY <1>1, Holders
    <3> QED BY <1>3, <1>4, <1>5, <3>1, Holders DEF Aside, Apart, Holds
  <2> QED BY <2>1, <2>2 DEF HoldsInv
<1>10. CountInv'
  <2>1. Stacked'
    BY <1>1, <1>5, StopStacked DEF SameOwners
  <2>2. ASSUME NEW k \in 1..Services PROVE ~Remaking(p, k)' /\ ~Pending(p, k)'
    BY <1>1, <1>3 DEF Remaking, Pending, AfterRestart
  <2> QED BY <1>1, <1>3, <1>5, <2>1, <2>2, CountSame, StopLeaves DEF SameOwners
<1>11. OneInv'
  <2> SUFFICES ASSUME ~crossed PROVE (\A q \in Proc : Mine(q)') /\ \A k \in 1..Services : Only(k)'
    BY <1>1, <1>5 DEF OneInv, SameOwners, history
  <2>1. /\ g = cur /\ Up /\ entry' = entry /\ cur' = cur /\ gen' = gen /\ obj' = obj /\ setupLock' = setupLock
        /\ \A q \in Proc \ {p} : ~Restarts(q) /\ Inner(q) # "sdone"
    BY <1>1, Alone DEF ha, locks, locals
  <2>2. \A k \in 1..Services : services'[k].live = 0
    BY <1>1, <1>5, <2>1, StopLeaves DEF SameOwners
  <2>3. Still'
    BY <1>5, <2>2 DEF Still, SameOwners
  <2>4. Mine(p)'
    BY <1>1, <1>3, <2>1, <2>3, UpSame DEF Mine, Up
  <2>5. ASSUME NEW q \in Proc \ {p} PROVE Mine(q)'
    BY <1>3, <2>1, <2>3 DEF Mine, Aside, Restarts
  <2>6. ASSUME NEW k \in 1..Services PROVE Only(k)'
    BY <2>2 DEF Only
  <2> QED BY <2>4, <2>5, <2>6
<1> QED BY <1>3, <1>6, <1>7, <1>8, <1>9, <1>10, <1>11 DEF IInv

LEMMA RestartReturnKeeps ==
    ASSUME IInv, NEW p \in Proc, RestartDone(p) PROVE IInv'
<1> PICK g \in 1..Runtimes : g = gen[p]
  BY Restarting DEF RestartDone, RestartAt
<1>1. /\ pc[p] = "rdone" /\ Outer(p) \in AfterRestart /\ Inner(p) = "idle" /\ Restarts(p)
      /\ ~SetsUp(p) /\ ~Unloads(p) /\ ~Reloads(p) /\ Return(p, result[p]) /\ result[p] \in {"ok", "no", "raised"}
      /\ runtimes' = [runtimes EXCEPT ![g].lock = NONE]
      /\ UNCHANGED <<ha, cur, services, outside, locks, locals, history, spent>>
  BY Restarting DEF RestartDone, RestartAt, Restarts, IInv, Types, Control
<1>2. /\ Control' /\ CallsInv' /\ Aside(p) /\ Inner(p)' = "idle" /\ pc'[p] = Outer(p) /\ Outer(p)' = "idle"
  BY <1>1, CallReturn DEF RestartAt
<1>3. /\ runtimes' \in [1..Runtimes -> RuntimeT(Services)]
      /\ \A k \in 1..Runtimes : /\ runtimes'[k].service = runtimes[k].service
                                /\ k # g => runtimes'[k].lock = runtimes[k].lock
  BY <1>1, LockView DEF IInv, Types
<1>4. Lists' /\ SameOwners /\ Apart(p)
  <2>1. Lists' /\ Runtimes' = Runtimes /\ Services' = Services
    BY <1>1, <1>3, ListsTo DEF IInv, Types, Lists
  <2> QED BY <1>1, <1>3, <2>1 DEF SameOwners, Apart, locals
<1>5. Types'
  BY <1>1, <1>2, <1>4 DEF IInv, Types, Plain, Points, SameOwners, ha, tasks, outside, locks, locals, history
<1>6. RefersInv'
  <2>1. Refers(p)'
    BY <1>1, <1>2 DEF Refers, Restarts, StartAt, AfterRestart, locals
  <2> QED BY <1>2, <1>4, <2>1, RefersSame
<1>7. LockInv'
  <2>1. ~SetsUp(p)' /\ ~Unloads(p)' /\ ~Reloads(p)' /\ (Without(p)' <=> Without(p))
    BY <1>1, <1>2 DEF SetsUp, Unloads, Reloads, Without, SetupAt, UnloadAt, AfterRestart
  <2> QED BY <1>1, <1>2, <2>1, LockSame DEF ha, locks, locals, history
<1>8. HoldsInv'
  <2>1. Holds(p)'
    BY <1>1, <1>2 DEF Holds, Restarts, AfterRestart
  <2>2. ASSUME NEW q \in Proc \ {p} PROVE Holds(q)'
    <3>1. Restarts(q) \/ pc[q] = "ustop" => gen[q] # g
      BY <1>1, Holders
    <3> QED BY <1>2, <1>3, <1>4, <3>1, Holders DEF Aside, Apart, Holds
  <2> QED BY <2>1, <2>2 DEF HoldsInv
<1>9. CountInv'
  <2>1. Stacked' /\ services' = services
    BY <1>1, <1>4 DEF IInv, CountInv, Stacked, SameOwners
  <2>2. ASSUME NEW k \in 1..Services PROVE ~Remaking(p, k)' /\ ~Pending(p, k)'
    BY <1>1, <1>2 DEF Remaking, Pending, AfterRestart
  <2> QED BY <1>2, <1>4, <2>1, <2>2, CountSame
<1>10. OneInv'
  <2> SUFFICES ASSUME ~crossed PROVE (\A q \in Proc : Mine(q)') /\ \A k \in 1..Services : Only(k)'
    BY <1>1, <1>4 DEF OneInv, SameOwners, history
  <2>1. /\ g = cur /\ entry' = entry /\ cur' = cur /\ gen' = gen /\ obj' = obj /\ setupLock' = setupLock
        /\ services' = services
        /\ \A q \in Proc \ {p} : ~Restarts(q) /\ Inner(q) # "sdone"
    BY <1>1, Alone DEF ha, locks, locals
  <2>2. runtimes'[cur].service = runtimes[cur].service
    BY <1>3, <2>1
  <2>3. Mine(p)'
    BY <1>1, <1>2 DEF Mine, Restarts, AfterRestart
  <2>4. ASSUME NEW q \in Proc \ {p} PROVE Mine(q)'
    BY <1>2, <2>1 DEF Mine, Aside, Restarts
  <2>5. Serving => Serving'
    BY <1>1, <1>2, <2>1, UpSame
  <2>6. ASSUME NEW k \in 1..Services PROVE Only(k)'
    BY <2>1, <2>2, <2>5 DEF IInv, OneInv, Only
  <2> QED BY <2>3, <2>4, <2>6
<1> QED BY <1>2, <1>5, <1>6, <1>7, <1>8, <1>9, <1>10 DEF IInv

LEMMA RestartUnreadKeeps ==
    ASSUME IInv, NEW p \in Proc, RestartUnread(p) PROVE IInv'
<1> PICK g \in 1..Runtimes : g = gen[p]
  BY Restarting DEF RestartUnread, RestartAt
<1>1. /\ pc[p] = "rmake" /\ Outer(p) \in AfterRestart /\ Inner(p) = "idle" /\ Restarts(p)
      /\ ~SetsUp(p) /\ ~Unloads(p) /\ ~Reloads(p) /\ Return(p, "raised") /\ spent' \in [Kind -> Nat]
      /\ runtimes' = [runtimes EXCEPT ![g].lock = NONE]
      /\ UNCHANGED <<ha, cur, services, outside, locks, locals, history>>
  BY Restarting, SpendTypes DEF RestartUnread, RestartAt, Restarts, IInv, Types, Kind, Fault
<1>2. /\ Control' /\ CallsInv' /\ Aside(p) /\ Inner(p)' = "idle" /\ pc'[p] = Outer(p) /\ Outer(p)' = "idle"
  BY <1>1, CallReturn DEF RestartAt
<1>3. /\ runtimes' \in [1..Runtimes -> RuntimeT(Services)]
      /\ \A k \in 1..Runtimes : /\ runtimes'[k].service = runtimes[k].service
                                /\ k # g => runtimes'[k].lock = runtimes[k].lock
  BY <1>1, LockView DEF IInv, Types
<1>4. Lists' /\ SameOwners /\ Apart(p)
  <2>1. Lists' /\ Runtimes' = Runtimes /\ Services' = Services
    BY <1>1, <1>3, ListsTo DEF IInv, Types, Lists
  <2> QED BY <1>1, <1>3, <2>1 DEF SameOwners, Apart, locals
<1>5. Types'
  BY <1>1, <1>2, <1>4 DEF IInv, Types, Plain, Points, SameOwners, ha, tasks, outside, locks, locals, history
<1>6. RefersInv'
  <2>1. Refers(p)'
    BY <1>1, <1>2 DEF Refers, Restarts, StartAt, AfterRestart, locals
  <2> QED BY <1>2, <1>4, <2>1, RefersSame
<1>7. LockInv'
  <2>1. ~SetsUp(p)' /\ ~Unloads(p)' /\ ~Reloads(p)' /\ (Without(p)' <=> Without(p))
    BY <1>1, <1>2 DEF SetsUp, Unloads, Reloads, Without, SetupAt, UnloadAt, AfterRestart
  <2> QED BY <1>1, <1>2, <2>1, LockSame DEF ha, locks, locals, history
<1>8. HoldsInv'
  <2>1. Holds(p)'
    BY <1>1, <1>2 DEF Holds, Restarts, AfterRestart
  <2>2. ASSUME NEW q \in Proc \ {p} PROVE Holds(q)'
    <3>1. Restarts(q) \/ pc[q] = "ustop" => gen[q] # g
      BY <1>1, Holders
    <3> QED BY <1>2, <1>3, <1>4, <3>1, Holders DEF Aside, Apart, Holds
  <2> QED BY <2>1, <2>2 DEF HoldsInv
<1>9. CountInv'
  <2>1. Stacked' /\ services' = services
    BY <1>1, <1>4 DEF IInv, CountInv, Stacked, SameOwners
  <2>2. ASSUME NEW k \in 1..Services PROVE ~Remaking(p, k)' /\ ~Pending(p, k)'
    BY <1>1, <1>2 DEF Remaking, Pending, AfterRestart
  <2> QED BY <1>2, <1>4, <2>1, <2>2, CountSame
<1>10. OneInv'
  <2> SUFFICES ASSUME ~crossed PROVE (\A q \in Proc : Mine(q)') /\ \A k \in 1..Services : Only(k)'
    BY <1>1, <1>4 DEF OneInv, SameOwners, history
  <2>1. /\ g = cur /\ entry' = entry /\ cur' = cur /\ gen' = gen /\ obj' = obj /\ setupLock' = setupLock
        /\ services' = services
        /\ \A q \in Proc \ {p} : ~Restarts(q) /\ Inner(q) # "sdone"
    BY <1>1, Alone DEF ha, locks, locals
  <2>2. runtimes'[cur].service = runtimes[cur].service
    BY <1>3, <2>1
  <2>3. Mine(p)'
    BY <1>1, <1>2 DEF Mine, Restarts, AfterRestart
  <2>4. ASSUME NEW q \in Proc \ {p} PROVE Mine(q)'
    BY <1>2, <2>1 DEF Mine, Aside, Restarts
  <2>5. Serving => Serving'
    BY <1>1, <1>2, <2>1, UpSame
  <2>6. ASSUME NEW k \in 1..Services PROVE Only(k)'
    BY <2>1, <2>2, <2>5 DEF IInv, OneInv, Only
  <2> QED BY <2>3, <2>4, <2>6
<1> QED BY <1>2, <1>5, <1>6, <1>7, <1>8, <1>9, <1>10 DEF IInv

LEMMA RestartMakeKeeps ==
    ASSUME IInv, NEW p \in Proc, RestartMake(p) PROVE IInv'
<1> PICK g \in 1..Runtimes : g = gen[p]
  BY Restarting DEF RestartMake, RestartAt
<1>1. /\ pc[p] = "rmake" /\ Outer(p) \in AfterRestart /\ Inner(p) = "idle" /\ Restarts(p)
      /\ ~SetsUp(p) /\ ~Unloads(p) /\ ~Reloads(p) /\ Call(p, "check", "rdone")
      /\ services' = Append(services, MakeService(g))
      /\ runtimes' = [runtimes EXCEPT ![g].service = Len(services')] /\ obj' = [obj EXCEPT ![p] = Len(services')]
      /\ UNCHANGED <<ha, cur, outside, locks, gen, was, want, seen, history, spent>>
  BY Restarting DEF RestartMake, RestartAt, Restarts
<1>2. /\ Control' /\ CallsInv' /\ Aside(p) /\ Inner(p)' = "rdone" /\ pc'[p] = "check" /\ Outer(p)' = Outer(p)
  <2>1. Control' /\ At(p, "check", Outer(p), "rdone", result[p])
    BY <1>1, CallInAt DEF IInv, Types, Label, AfterRestart
  <2>2. Placed("check", Outer(p), "rdone")
    BY <1>1 DEF Placed, RestartAt, SetupAt, UnloadAt, StartAt, AfterRestart, AfterSetup, AfterUnload
  <2> QED BY <2>1, <2>2, CallsStep, OthersAt DEF IInv
<1> PICK n \in Nat : n = Services + 1 /\ n # 0
  BY DEF IInv, Types, Lists
<1>3. /\ services' \in [1..n -> ServiceT(Runtimes)] /\ Len(services') = n
      /\ \A k \in 1..Services : services'[k] = services[k]
      /\ services'[n] = [gen |-> g, with |-> stored, file |-> file, stack |-> FALSE, live |-> 0]
  <2>1. Lists /\ stored \in Setting /\ file \in Nat /\ Runtimes \in {Runtimes, Runtimes + 1}
    BY DEF IInv, Types, Plain
  <2> QED BY <1>1, <2>1, MakeView
<1>4. /\ runtimes' \in [1..Runtimes -> RuntimeT(n)]
      /\ \A k \in 1..Runtimes : /\ runtimes'[k].service = IF k = g THEN n ELSE runtimes[k].service
                                /\ runtimes'[k].lock = runtimes[k].lock
  <2>1. /\ runtimes' = [runtimes EXCEPT ![g].service = n]
        /\ n \in 1..n /\ 1..Services \subseteq 1..n /\ DOMAIN runtimes = 1..Runtimes
    BY <1>1, <1>3 DEF IInv, Types, Lists
  <2>2. ASSUME NEW k \in 1..Runtimes
        PROVE  runtimes'[k] = IF k = g THEN [runtimes[k] EXCEPT !.service = n] ELSE runtimes[k]
    BY <2>1
  <2>3. ASSUME NEW k \in 1..Runtimes
        PROVE  /\ runtimes[k] \in RuntimeT(Services)
               /\ [runtimes[k] EXCEPT !.service = n] =
                    [service |-> n, options |-> runtimes[k].options, lock |-> runtimes[k].lock]
    BY DEF IInv, Types, Lists, RuntimeT
  <2>4. ASSUME NEW k \in 1..Runtimes PROVE runtimes'[k] \in RuntimeT(n)
    BY ZenonT(30), <2>1, <2>2, <2>3 DEF RuntimeT
  <2>5. runtimes' \in [1..Runtimes -> RuntimeT(n)]
    BY <2>1, <2>4
  <2> QED BY ZenonT(30), <2>2, <2>3, <2>5
<1>5. /\ Lists' /\ Runtimes' = Runtimes /\ Services' = n /\ SameLocks /\ Apart(p)
      /\ n \notin 1..Services /\ 1..Services' = 1..Services \cup {n}
  <2>1. Lists' /\ Runtimes' = Runtimes /\ Services' = n
    BY <1>1, <1>3, <1>4, ListsTo DEF IInv, Types, Lists
  <2>2. n \notin 1..Services /\ 1..n = 1..Services \cup {n}
    BY DEF IInv, Types, Lists
  <2> QED BY <1>1, <1>4, <2>1, <2>2 DEF SameLocks, Apart
<1>6. Types'
  <2>1. obj' \in [Proc -> 0..n] /\ gen' \in [Proc -> 0..Runtimes]
    BY <1>1, <1>3, <1>5 DEF IInv, Types, Points, Lists
  <2> QED BY <1>1, <1>2, <1>5, <2>1 DEF IInv, Types, Plain, Points, ha, tasks, outside, locks, history
<1>7. obj'[p] = n /\ gen'[p] = g
  BY <1>1, <1>3 DEF IInv, Types, Points
<1>8. RefersInv'
  <2>1. Refers(p)'
    <3>1. services'[n].gen = g /\ runtimes'[g].service = n /\ g # 0
      BY <1>3, <1>4
    <3> QED BY <1>2, <1>7, <3>1 DEF Refers
  <2>2. ASSUME NEW q \in Proc \ {p} PROVE Refers(q)'
    <3>1. /\ gen[q] # 0 => gen[q] \in 1..Runtimes
          /\ obj[q] # 0 => obj[q] \in 1..Services
      BY DEF IInv, Types, Points
    <3>2. Refers(q) /\ (Inner(q) = "rdone" => Restarts(q) /\ gen[q] # g)
      BY <1>1, Holders DEF IInv, RefersInv, Restarts
    <3>3. /\ pc'[q] = pc[q] /\ Inner(q)' = Inner(q) /\ Restarts(q)' = Restarts(q)
          /\ gen'[q] = gen[q] /\ obj'[q] = obj[q]
      BY <1>2, <1>5 DEF Aside, Apart
    <3> QED BY <1>3, <1>4, <3>1, <3>2, <3>3 DEF Refers
  <2>3. Owned'
    <3>1. ASSUME NEW k \in 1..Runtimes PROVE services'[runtimes'[k].service].gen = k
      <4>1. runtimes[k].service \in 1..Services /\ services[runtimes[k].service].gen = k
        BY RuntimeIs DEF IInv, Types, RefersInv, Owned
      <4> QED BY <1>3, <1>4, <4>1
    <3> QED BY <1>5, <3>1 DEF Owned
  <2> QED BY <2>1, <2>2, <2>3 DEF RefersInv
<1>9. LockInv'
  <2>1. ~SetsUp(p)' /\ ~Unloads(p)' /\ ~Reloads(p)' /\ (Without(p)' <=> Without(p))
    BY <1>1, <1>2 DEF SetsUp, Unloads, Reloads, Without, SetupAt, UnloadAt, AfterRestart
  <2> QED BY <1>1, <1>2, <2>1, LockSame DEF ha, locks, history
<1>10. HoldsInv'
  <2>1. Holds(p)'
    BY <1>1, <1>4, <1>7, Holders DEF Holds
  <2> QED BY <1>2, <1>5, <2>1, HoldsSame
<1>11. CountInv'
  <2>1. Stacked'
    BY <1>3, <1>5 DEF IInv, CountInv, Stacked
  <2>2. ASSUME NEW k \in 1..Services PROVE Counted(k)'
    <3>1. ASSUME NEW q \in Proc
          PROVE  (Remaking(q, k)' => Remaking(q, k)) /\ (Pending(q, k)' => Pending(q, k))
      <4>1. CASE q = p
        BY <1>1, <1>2, <1>5, <1>7, <4>1 DEF Remaking, Pending
      <4>2. CASE q # p
        BY <1>2, <1>3, <1>5, <4>2 DEF Aside, Apart, Remaking, Pending
      <4> QED BY <4>1, <4>2
    <3> QED BY <1>3, <3>1 DEF IInv, CountInv, Counted
  <2>3. Counted(n)'
    BY <1>3 DEF Counted
  <2> QED BY <1>5, <2>1, <2>2, <2>3 DEF CountInv
<1>12. OneInv'
  <2> SUFFICES ASSUME ~crossed PROVE (\A q \in Proc : Mine(q)') /\ \A k \in 1..Services' : Only(k)'
    BY <1>1 DEF OneInv, history
  <2>1. /\ g = cur /\ Up /\ entry' = entry /\ cur' = cur /\ gen' = gen /\ setupLock' = setupLock
        /\ \A q \in Proc \ {p} : ~Restarts(q) /\ Inner(q) # "sdone"
    BY <1>1, Alone DEF ha, locks
  <2>2. \A k \in 1..Services' : services'[k].live = 0
    BY <1>1, <1>3, <1>5 DEF IInv, OneInv, Mine, Still
  <2>3. Still'
    BY <2>2 DEF Still
  <2>4. Mine(p)'
    BY <1>1, <1>2, <2>1, <2>3, UpSame DEF Mine, Up
  <2>5. ASSUME NEW q \in Proc \ {p} PROVE Mine(q)'
    BY <1>2, <2>1, <2>3 DEF Mine, Aside, Restarts
  <2>6. ASSUME NEW k \in 1..Services' PROVE Only(k)'
    BY <2>2 DEF Only
  <2> QED BY <2>4, <2>5, <2>6
<1> QED BY <1>2, <1>6, <1>8, <1>9, <1>10, <1>11, <1>12 DEF IInv

(***************************************************************************)
(* A setup                                                                 *)
(***************************************************************************)
LEMMA InSetup ==
    ASSUME IInv, NEW p \in Proc, SetsUp(p)
    PROVE  /\ entry = "setup" /\ setupLock = p /\ ~Unloads(p) /\ ~Restarts(p) /\ Outer(p) \in AfterSetup
           /\ pc[p] \in SetupAt => Inner(p) = "idle"
           /\ \A q \in Proc \ {p} : ~SetsUp(q)
           /\ ~crossed => \A q \in Proc : ~Restarts(q)
           /\ ~crossed /\ ~(pc[p] = "sdone" /\ result[p] = "ok") => Still
<1>1. entry = "setup" /\ setupLock = p
  BY DEF IInv, LockInv, Locked, Stage
<1>2. /\ Outer(p) \in AfterSetup
      /\ pc[p] \in SetupAt => Inner(p) = "idle"
      /\ Inner(p) = "sdone" => pc[p] \in StartAt
  <2>1. Placed(pc[p], Outer(p), Inner(p)) /\ (Inner(p) = "sdone" => pc[p] \in StartAt)
    BY Nested DEF IInv, CallsInv, Calls
  <2> QED BY <2>1 DEF Placed, SetsUp, AfterRestart
<1>3. ~Unloads(p) /\ ~Restarts(p)
  BY <1>2 DEF SetsUp, Unloads, Restarts, SetupAt, UnloadAt, StartAt
<1>4. ASSUME NEW q \in Proc \ {p} PROVE ~SetsUp(q)
  BY <1>1 DEF IInv, LockInv, Locked
<1>5. ~crossed => \A q \in Proc : ~Restarts(q)
  BY <1>1 DEF IInv, OneInv, Mine, Leaving
<1>6. ~crossed /\ ~(pc[p] = "sdone" /\ result[p] = "ok") => Still
  BY <1>1 DEF IInv, OneInv, Only, Still, Serving, Leaving
<1> QED BY <1>1, <1>2, <1>3, <1>4, <1>5, <1>6

\* Who has Home Assistant's lock, or takes it, is the only one it matters to.
LEMMA HeldLock ==
    ASSUME IInv, NEW p \in Proc, Aside(p), setupLock \in {p, NONE}, setupLock' \in {p, NONE},
           SetsUp(p)' \/ Unloads(p)' \/ Reloads(p)' => setupLock' = p, Stage(p)',
           entry' = "setup" => SetsUp(p)', entry' = "unloading" => Unloads(p)',
           entry' \in {"off", "failed"} => Bare', entry' \in {"loaded", "stuck"} => cur' # 0
    PROVE  LockInv'
<1>1. p # NONE
  BY EntryAssumption
<1>2. ASSUME NEW q \in Proc \ {p} PROVE Locked(q)' /\ Stage(q)'
  <2>1. ~SetsUp(q) /\ ~Unloads(q) /\ ~Reloads(q)
    BY EntryAssumption DEF IInv, LockInv, Locked
  <2>2. ~SetsUp(q)' /\ ~Unloads(q)' /\ ~Reloads(q)'
    BY <2>1 DEF Aside
  <2> QED BY <2>2 DEF Locked, Stage
<1>3. Locked(p)'
  BY DEF Locked
<1>4. EntryInv'
  BY <1>1 DEF EntryInv
<1> QED BY <1>2, <1>3, <1>4 DEF LockInv

LEMMA Unlocks ==
    ASSUME NEW p \in Proc, SetupUnlock(p), ret[p] \in Seq(Label)
    PROVE  /\ setupLock' \in {p, NONE}
           /\ Outer(p) \in {"reloaded", "end"} => setupLock' = p
<1>1. ASSUME Outer(p) \in {"reloaded", "end"} PROVE Contains(ret[p], "reloaded") \/ Contains(ret[p], "end")
  <2>1. ret[p] # <<>> /\ Outer(p) = ret[p][Len(ret[p])]
    BY <1>1 DEF Outer
  <2>2. Len(ret[p]) \in 1..Len(ret[p])
    BY <2>1, EmptySeq, LenProperties
  <2> QED BY <1>1, <2>1, <2>2 DEF Contains
<1> QED BY <1>1 DEF SetupUnlock

\* Nothing runs, and nothing is restarted.
LEMMA OneQuiet ==
    ASSUME IInv, NEW p \in Proc, Aside(p), crossed' = crossed,
           ~crossed => \A s \in 1..Services' : services'[s].live = 0,
           ~crossed => \A q \in Proc \ {p} : ~Restarts(q) /\ ~SetsUp(q),
           ~Restarts(p)', Inner(p)' = "sdone" => obj'[p] = runtimes'[cur'].service
    PROVE  OneInv'
<1> SUFFICES ASSUME ~crossed PROVE (\A q \in Proc : Mine(q)') /\ \A s \in 1..Services' : Only(s)'
  BY DEF OneInv
<1>1. Mine(p)'
  BY DEF Mine, Restarts
<1>2. ASSUME NEW q \in Proc \ {p} PROVE Mine(q)'
  BY DEF Mine, Aside, Restarts, SetsUp
<1>3. ASSUME NEW s \in 1..Services' PROVE Only(s)'
  BY DEF Only
<1> QED BY <1>1, <1>2, <1>3

LEMMA SetupBeginKeeps ==
    ASSUME IInv, NEW p \in Proc, SetupBegin(p) PROVE IInv'
<1>1. /\ pc[p] = "setup" /\ Outer(p) \in AfterSetup /\ Inner(p) = "idle"
      /\ crossed' = crossed /\ unrestored' \in BOOLEAN /\ refused' \in BOOLEAN
      /\ ~SetsUp(p) /\ ~Unloads(p) /\ ~Restarts(p)
      /\ UNCHANGED <<stored, made, outside, settingsLock, tasks, locals, crossed, overtaken, spent>>
  BY DEF SetupBegin, IInv, Types, Plain, CallsInv, Calls, Placed, SetsUp, Unloads, Restarts, SetupAt, UnloadAt
<1>2. SameLists /\ Lists' /\ Apart(p)
  BY <1>1, SameListsSame DEF IInv, Types, Lists, Runtimes, Services, made, Apart, locals
<1>3. CASE entry = "loaded" /\ Return(p, "raised") /\ UNCHANGED <<entry, setupLock, refused, unrestored>>
  <2>1. /\ Control' /\ CallsInv' /\ Aside(p) /\ Inner(p)' = "idle" /\ pc'[p] = Outer(p) /\ Outer(p)' = "idle"
    BY <1>1, <1>3, CallReturn
  <2>2. /\ ~SetsUp(p)' /\ ~Unloads(p)' /\ ~Restarts(p)' /\ (Reloads(p)' => Reloads(p)) /\ ~Without(p)'
        /\ ~Without(p)
    BY <1>1, <2>1 DEF SetsUp, Unloads, Restarts, Reloads, Without, SetupAt, UnloadAt, AfterSetup
  <2>3. Types'
    BY <1>1, <1>2, <1>3, <2>1 DEF IInv, Types, Plain, Points, SameLists, SameOwners, tasks, outside, locals
  <2>4. RefersInv'
    <3>1. Refers(p)'
      BY <1>1, <2>1, <2>2 DEF Refers, AfterSetup, StartAt
    <3> QED BY <1>2, <2>1, <3>1, RefersSame DEF SameLists
  <2>5. LockInv'
    BY <1>1, <1>3, <2>1, <2>2, LockSame DEF made, locals
  <2>6. HoldsInv'
    <3>1. Holds(p)'
      BY <1>1, <2>1, <2>2 DEF Holds, AfterSetup
    <3> QED BY <1>2, <2>1, <3>1, HoldsSame DEF SameLists
  <2>7. CountInv'
    <3>1. Stacked'
      BY <1>2 DEF IInv, CountInv, Stacked, SameLists, SameOwners, SameRuns
    <3>2. ASSUME NEW k \in 1..Services PROVE ~Remaking(p, k)' /\ ~Pending(p, k)'
      BY <1>1, <2>1 DEF Remaking, Pending, AfterSetup
    <3> QED BY <1>2, <2>1, <3>1, <3>2, CountSame DEF SameLists, SameRuns
  <2>8. OneInv'
    <3>1. Mine(p)'
      BY <1>1, <2>1, <2>2 DEF Mine, AfterSetup
    <3>2. (Up => Up') /\ (Serving => Serving')
      BY <1>1, <1>3, <2>1, UpSame
    <3> QED BY <1>1, <1>2, <2>1, <3>1, <3>2, OneSame DEF made, SameLists
  <2> QED BY <2>1, <2>3, <2>4, <2>5, <2>6, <2>7, <2>8 DEF IInv
<1>4. CASE /\ entry # "loaded" /\ SetupLocked(p) /\ setupLock' = p
           /\ entry' = "setup" /\ Goto(p, "bridge") /\ unrestored' = (cur # 0)
  <2>1. /\ Control' /\ CallsInv' /\ Aside(p) /\ pc'[p] = "bridge" /\ Outer(p)' = Outer(p) /\ Inner(p)' = "idle"
    <3>1. Placed("bridge", Outer(p), Inner(p)) /\ "bridge" \in Label
      BY <1>1 DEF Placed, Label, RestartAt, SetupAt, UnloadAt, StartAt, AfterRestart, AfterSetup, AfterUnload
    <3> QED BY <1>1, <1>4, <3>1, GotoStep
  <2>2. SetsUp(p)' /\ ~Unloads(p)' /\ ~Restarts(p)' /\ Without(p)'
    BY <2>1 DEF SetsUp, Unloads, Restarts, Without, SetupAt, UnloadAt
  <2>3. Types'
    BY <1>1, <1>2, <1>4, <2>1 DEF IInv, Types, Plain, Points, SameLists, SameOwners, tasks, outside, locals
  <2>4. RefersInv'
    <3>1. Refers(p)'
      BY <1>1, <2>1, <2>2 DEF Refers, StartAt
    <3> QED BY <1>2, <2>1, <3>1, RefersSame DEF SameLists
  <2>5. LockInv'
    <3>1. Bare' /\ setupLock \in {p, NONE}
      BY <1>1, <1>4 DEF made, SetupLocked, Bare
    <3>2. Stage(p)'
      BY <1>4, <2>2, <3>1 DEF Stage
    <3> QED BY <1>4, <2>1, <2>2, <3>1, <3>2, HeldLock
  <2>6. HoldsInv'
    <3>1. Holds(p)'
      BY <1>1, <2>1, <2>2 DEF Holds
    <3> QED BY <1>2, <2>1, <3>1, HoldsSame DEF SameLists
  <2>7. CountInv'
    <3>1. Stacked'
      BY <1>2 DEF IInv, CountInv, Stacked, SameLists, SameOwners, SameRuns
    <3>2. ASSUME NEW k \in 1..Services PROVE ~Remaking(p, k)' /\ ~Pending(p, k)'
      BY <1>1, <2>1 DEF Remaking, Pending
    <3> QED BY <1>2, <2>1, <3>1, <3>2, CountSame DEF SameLists, SameRuns
  <2>8. OneInv'
    <3>0. entry \notin {"setup", "unloading", "loaded"}
      BY <1>1, <1>4, EntryAssumption DEF SetupLocked, IInv, LockInv, EntryInv
    <3>1. ~crossed => \A q \in Proc \ {p} : ~Restarts(q) /\ ~SetsUp(q)
      BY <3>0 DEF IInv, OneInv, Mine, Leaving, LockInv, Stage
    <3>2. ~crossed => \A s \in 1..Services' : services'[s].live = 0
      BY <1>2, <3>0 DEF IInv, OneInv, Only, Serving, Leaving, SameLists, SameOwners, SameRuns
    <3> QED BY <1>1, <2>1, <2>2, <3>1, <3>2, OneQuiet
  <2> QED BY <2>1, <2>3, <2>4, <2>5, <2>6, <2>7, <2>8 DEF IInv
<1> QED BY <1>3, <1>4 DEF SetupBegin

\* A step within a setup that leaves the lists alone, with nothing running.
LEMMA SetupKeeps ==
    ASSUME IInv, NEW p \in Proc, SetsUp(p), ~(pc[p] = "sdone" /\ result[p] = "ok"),
           Types', CallsInv', LockInv', Aside(p), Apart(p), SameLists, crossed' = crossed,
           Refers(p)', ~Restarts(p)', pc'[p] # "ustop",
           \A s \in 1..Services : Pending(p, s)' => Pending(p, s),
           Inner(p)' = "sdone" => obj'[p] = runtimes'[cur'].service
    PROVE  IInv'
<1>1. RefersInv' /\ HoldsInv'
  BY RefersSame, HoldsSame DEF SameLists, Holds
<1>2. CountInv'
  <2>1. Stacked'
    BY DEF IInv, CountInv, Stacked, SameLists, SameOwners, SameRuns
  <2>2. ASSUME NEW k \in 1..Services PROVE ~Remaking(p, k)'
    BY DEF Remaking, Restarts
  <2> QED BY <2>1, <2>2, CountSame DEF SameLists, SameRuns
<1>3. OneInv'
  <2>1. ~crossed => \A q \in Proc \ {p} : ~Restarts(q) /\ ~SetsUp(q)
    BY InSetup
  <2>2. ~crossed => \A s \in 1..Services' : services'[s].live = 0
    BY InSetup DEF Still, SameLists, SameOwners, SameRuns
  <2> QED BY <2>1, <2>2, OneQuiet
<1> QED BY <1>1, <1>2, <1>3 DEF IInv

\* The step to the next of a setup.
LEMMA SetupGoto ==
    ASSUME IInv, NEW p \in Proc, pc[p] \in SetupAt, NEW l \in SetupAt, Goto(p, l)
    PROVE  /\ Control' /\ CallsInv' /\ Aside(p) /\ pc'[p] = l /\ Outer(p)' = Outer(p) /\ Inner(p)' = "idle"
           /\ SetsUp(p) /\ SetsUp(p)' /\ ~Unloads(p)' /\ ~Restarts(p)' /\ pc'[p] # "ustop"
<1>1. SetsUp(p) /\ Outer(p) \in AfterSetup /\ Inner(p) = "idle"
  BY InSetup DEF SetsUp
<1>2. Placed(l, Outer(p), Inner(p)) /\ l \in Label
  BY <1>1 DEF Placed, Label, RestartAt, SetupAt, UnloadAt, StartAt, AfterRestart, AfterSetup, AfterUnload
<1>3. /\ Control' /\ CallsInv' /\ Aside(p) /\ pc'[p] = l /\ Outer(p)' = Outer(p) /\ Inner(p)' = "idle"
  BY <1>1, <1>2, GotoStep
<1> QED BY <1>1, <1>3 DEF SetsUp, Unloads, Restarts, SetupAt, UnloadAt

LEMMA StageLock ==
    ASSUME IInv, NEW p \in Proc, SetsUp(p), Aside(p), SetsUp(p)', ~Unloads(p)', entry' = entry,
           setupLock' = setupLock,
           IF Without(p)' THEN Bare' ELSE cur' # 0 /\ gen'[p] = cur'
    PROVE  LockInv'
<1>1. entry = "setup" /\ setupLock = p
  BY InSetup
<1>2. Stage(p)'
  BY <1>1 DEF Stage
<1> QED BY <1>1, <1>2, HeldLock

\* The end of a setup.
LEMMA SetupReturn ==
    ASSUME IInv, NEW p \in Proc, pc[p] \in SetupAt, NEW how \in {"ok", "no"}, Return(p, how), SetupUnlock(p),
           \/ entry' = "failed" /\ Bare'
           \/ entry' = "loaded" /\ cur' # 0
    PROVE  /\ Control' /\ CallsInv' /\ Aside(p) /\ pc'[p] = Outer(p) /\ Outer(p) \in AfterSetup
           /\ Outer(p)' = "idle" /\ Inner(p)' = "idle" /\ result'[p] = how
           /\ SetsUp(p) /\ ~SetsUp(p)' /\ ~Unloads(p)' /\ ~Restarts(p)' /\ pc'[p] # "ustop"
           /\ setupLock' \in Proc \cup {NONE} /\ LockInv'
<1>1. SetsUp(p) /\ setupLock = p /\ Outer(p) \in AfterSetup /\ Inner(p) = "idle"
  BY InSetup DEF SetsUp
<1>2. /\ Control' /\ CallsInv' /\ Aside(p) /\ pc'[p] = Outer(p) /\ Outer(p)' = "idle" /\ Inner(p)' = "idle"
      /\ result'[p] = how
  BY CallReturn
<1>3. ~SetsUp(p)' /\ ~Unloads(p)' /\ ~Restarts(p)' /\ pc'[p] # "ustop"
      /\ (Reloads(p)' => Outer(p) \in {"reloaded", "end"})
  BY <1>1, <1>2 DEF SetsUp, Unloads, Restarts, Reloads, SetupAt, UnloadAt, AfterSetup
<1>4. /\ setupLock' \in {p, NONE}
      /\ Outer(p) \in {"reloaded", "end"} => setupLock' = p
  BY Unlocks DEF IInv, Types, Control
<1>5. Stage(p)'
  BY <1>3 DEF Stage
<1>6. LockInv'
  BY <1>1, <1>2, <1>3, <1>4, <1>5, HeldLock
<1> QED BY <1>1, <1>2, <1>3, <1>4, <1>6

LEMMA SetupBridgeKeeps ==
    ASSUME IInv, NEW p \in Proc, SetupBridge(p) PROVE IInv'
<1>1. /\ pc[p] = "bridge" /\ pc[p] \in SetupAt /\ SetsUp(p) /\ entry = "setup" /\ setupLock = p /\ Bare
      /\ UNCHANGED <<stored, made, file, settingsLock, tasks, locals, history>>
  BY InSetup DEF SetupBridge, SetupAt, SetsUp, Without, IInv, LockInv, Stage
<1>2. SameLists /\ Lists' /\ Apart(p) /\ Bare'
  BY <1>1, SameListsSame DEF IInv, Types, Lists, Runtimes, Services, made, Apart, Bare, locals, history
<1>3. CASE parts' = parts \cup {"bridge"} /\ Goto(p, "read") /\ UNCHANGED <<entry, setupLock, spent>>
  <2>1. /\ Control' /\ CallsInv' /\ Aside(p) /\ pc'[p] = "read" /\ Inner(p)' = "idle"
        /\ SetsUp(p)' /\ ~Unloads(p)' /\ ~Restarts(p)' /\ pc'[p] # "ustop"
    BY <1>1, <1>3, SetupGoto DEF SetupAt
  <2>2. LockInv'
    BY <1>1, <1>2, <1>3, <2>1, StageLock DEF Without
  <2>3. Types'
    BY <1>1, <1>2, <1>3, <2>1 DEF IInv, Types, Plain, Points, SameLists, SameOwners, tasks, locals, history, Part
  <2>4. Refers(p)' /\ \A s \in 1..Services : ~Pending(p, s)'
    BY <2>1 DEF Refers, StartAt, Pending
  <2> QED BY <1>1, <1>2, <2>1, <2>2, <2>3, <2>4, SetupKeeps DEF history
<1>4. CASE Failed(p) /\ spent' \in [Kind -> Nat] /\ parts' \in {parts, parts \cup {"bridge"}}
  <2>1. /\ Control' /\ CallsInv' /\ Aside(p) /\ pc'[p] = Outer(p) /\ Outer(p) \in AfterSetup
        /\ Inner(p)' = "idle" /\ ~Restarts(p)' /\ pc'[p] # "ustop"
        /\ setupLock' \in Proc \cup {NONE} /\ LockInv' /\ entry' = "failed"
    BY <1>1, <1>2, <1>4, SetupReturn DEF Failed
  <2>2. Types'
    BY <1>1, <1>2, <1>4, <2>1 DEF IInv, Types, Plain, Points, SameLists, SameOwners, tasks, locals, history, Part
  <2>3. Refers(p)' /\ \A s \in 1..Services : ~Pending(p, s)'
    BY <2>1 DEF Refers, StartAt, Pending, AfterSetup
  <2> QED BY <1>1, <1>2, <2>1, <2>2, <2>3, SetupKeeps DEF history
<1>5. \/ parts' = parts \cup {"bridge"} /\ Goto(p, "read") /\ UNCHANGED <<entry, setupLock, spent>>
      \/ Failed(p) /\ spent' \in [Kind -> Nat] /\ parts' \in {parts, parts \cup {"bridge"}}
  BY SpendTypes DEF SetupBridge, Kind, Fault, IInv, Types
<1> QED BY <1>3, <1>4, <1>5

LEMMA SetupPlatformsKeeps ==
    ASSUME IInv, NEW p \in Proc, SetupPlatforms(p) PROVE IInv'
<1>1. /\ pc[p] = "platforms" /\ pc[p] \in SetupAt /\ SetsUp(p) /\ cur # 0 /\ gen[p] = cur
      /\ parts' \subseteq Part /\ UNCHANGED <<ha, made, file, locks, locals, history>>
  BY InSetup DEF SetupPlatforms, SetupAt, SetsUp, Without, IInv, Types, Plain, Part, LockInv, Stage
<1>2. SameLists /\ Lists' /\ Apart(p)
  BY <1>1, SameListsSame DEF IInv, Types, Lists, Runtimes, Services, made, Apart, locals
<1>3. \/ Goto(p, "hub") /\ spent' \in [Kind -> Nat]
      \/ Goto(p, "undo") /\ spent' \in [Kind -> Nat]
  BY SpendTypes DEF SetupPlatforms, Kind, Fault, IInv, Types, Plain
<1>4. /\ Control' /\ CallsInv' /\ Aside(p) /\ pc'[p] \in {"hub", "undo"} /\ Inner(p)' = "idle"
      /\ SetsUp(p)' /\ ~Unloads(p)' /\ ~Restarts(p)' /\ pc'[p] # "ustop"
  BY <1>1, <1>3, SetupGoto DEF SetupAt
<1>5. LockInv'
  BY <1>1, <1>4, StageLock DEF Without, ha, made, locks, locals
<1>6. Types'
  BY <1>1, <1>2, <1>3, <1>4 DEF IInv, Types, Plain, Points, SameLists, SameOwners, ha, tasks, locks, locals, history
<1>7. Refers(p)' /\ \A s \in 1..Services : Pending(p, s)' => Pending(p, s)
  BY <1>1, <1>4 DEF Refers, StartAt, Pending, made, locals
<1> QED BY <1>1, <1>2, <1>4, <1>5, <1>6, <1>7, SetupKeeps DEF history

LEMMA SetupHubKeeps ==
    ASSUME IInv, NEW p \in Proc, SetupHub(p) PROVE IInv'
<1>1. /\ pc[p] = "hub" /\ pc[p] \in SetupAt /\ SetsUp(p) /\ cur # 0 /\ gen[p] = cur
      /\ Outer(p) \in AfterSetup /\ Inner(p) = "idle"
      /\ parts' \subseteq Part /\ UNCHANGED <<ha, made, file, locks, gen, was, want, seen, history>>
  BY InSetup DEF SetupHub, SetupAt, SetsUp, Without, IInv, Types, Plain, Part, LockInv, Stage
<1> PICK s \in 1..Services : s = runtimes[gen[p]].service /\ services[s].gen = gen[p]
  BY <1>1, RuntimeIs DEF IInv, Types, Lists, RefersInv, Owned
<1>2. SameLists /\ Lists'
  BY <1>1, SameListsSame DEF IInv, Types, Lists, Runtimes, Services, made
<1>3. CASE Call(p, "check", "sdone") /\ obj' = [obj EXCEPT ![p] = s] /\ spent' = spent
  <2>1. /\ Control' /\ CallsInv' /\ Aside(p) /\ pc'[p] = "check" /\ Inner(p)' = "sdone"
    <3>1. Control' /\ At(p, "check", Outer(p), "sdone", result[p])
      BY <1>1, <1>3, CallInAt DEF IInv, Types, Label, AfterSetup
    <3>2. Placed("check", Outer(p), "sdone")
      BY <1>1 DEF Placed, RestartAt, SetupAt, UnloadAt, StartAt, AfterRestart, AfterSetup, AfterUnload
    <3> QED BY <3>1, <3>2, CallsStep, OthersAt DEF IInv
  <2>2. SetsUp(p)' /\ ~Unloads(p)' /\ ~Restarts(p)' /\ pc'[p] # "ustop" /\ ~Without(p)'
    BY <2>1 DEF SetsUp, Unloads, Restarts, Without, UnloadAt
  <2>3. LockInv'
    BY <1>1, <2>1, <2>2, StageLock DEF ha, made, locks
  <2>4. Types' /\ Apart(p) /\ obj'[p] = s
    BY <1>1, <1>2, <1>3, <2>1 DEF IInv, Types, Plain, Points, SameLists, SameOwners, Apart, ha, tasks, locks, history
  <2>5. Refers(p)' /\ \A k \in 1..Services : Pending(p, k)' => Pending(p, k)
    <3>1. Refers(p)'
      BY <1>1, <2>1, <2>2, <2>4 DEF Refers, made
    <3>2. ASSUME NEW k \in 1..Services, Pending(p, k)' PROVE Pending(p, k)
      BY <1>1, <2>1, <2>4, <3>2 DEF Pending
    <3> QED BY <3>1, <3>2
  <2>6. obj'[p] = runtimes'[cur'].service
    BY <1>1, <2>4 DEF made
  <2> QED BY <1>1, <1>2, <2>1, <2>2, <2>3, <2>4, <2>5, <2>6, SetupKeeps DEF history
<1>4. CASE Goto(p, "undo") /\ obj' = obj /\ spent' \in [Kind -> Nat]
  <2>1. /\ Control' /\ CallsInv' /\ Aside(p) /\ pc'[p] = "undo" /\ Inner(p)' = "idle"
        /\ SetsUp(p)' /\ ~Unloads(p)' /\ ~Restarts(p)' /\ pc'[p] # "ustop"
    BY <1>1, <1>4, SetupGoto DEF SetupAt
  <2>2. LockInv'
    BY <1>1, <2>1, StageLock DEF Without, ha, made, locks
  <2>3. Types' /\ Apart(p)
    BY <1>1, <1>2, <1>4, <2>1 DEF IInv, Types, Plain, Points, SameLists, SameOwners, Apart, ha, tasks, locks, history
  <2>4. Refers(p)' /\ \A k \in 1..Services : ~Pending(p, k)'
    BY <2>1 DEF Refers, StartAt, Pending
  <2> QED BY <1>1, <1>2, <2>1, <2>2, <2>3, <2>4, SetupKeeps DEF history
<1>5. \/ Call(p, "check", "sdone") /\ obj' = [obj EXCEPT ![p] = s] /\ spent' = spent
      \/ Goto(p, "undo") /\ obj' = obj /\ spent' \in [Kind -> Nat]
  BY SpendTypes DEF SetupHub, Kind, Fault, IInv, Types
<1> QED BY <1>3, <1>4, <1>5

LEMMA SetupDoneKeeps ==
    ASSUME IInv, NEW p \in Proc, SetupDone(p) PROVE IInv'
<1>1. /\ pc[p] = "sdone" /\ pc[p] \in SetupAt /\ SetsUp(p) /\ cur # 0 /\ gen[p] = cur /\ entry = "setup"
      /\ setupLock = p
      /\ UNCHANGED <<stored, made, outside, settingsLock, tasks, locals, history, spent>>
  BY InSetup DEF SetupDone, SetupAt, SetsUp, Without, IInv, LockInv, Stage
<1>2. SameLists /\ Lists' /\ Apart(p)
  BY <1>1, SameListsSame DEF IInv, Types, Lists, Runtimes, Services, made, Apart, locals
<1>3. CASE result[p] = "ok"
  <2>1. entry' = "loaded" /\ SetupUnlock(p) /\ Return(p, "ok") /\ cur' = cur
    BY <1>1, <1>3 DEF SetupDone, made
  <2>2. /\ Control' /\ CallsInv' /\ Aside(p) /\ pc'[p] = Outer(p) /\ Outer(p) \in AfterSetup
        /\ Inner(p)' = "idle" /\ ~Restarts(p)' /\ pc'[p] # "ustop"
        /\ setupLock' \in Proc \cup {NONE} /\ LockInv'
    BY <1>1, <2>1, SetupReturn
  <2>3. Types'
    BY <1>1, <1>2, <2>1, <2>2 DEF IInv, Types, Plain, Points, SameLists, SameOwners, tasks, locals, history, outside
  <2>4. RefersInv' /\ HoldsInv'
    <3>1. Refers(p)' /\ Holds(p)'
      BY <2>2 DEF Refers, Holds, StartAt, AfterSetup
    <3> QED BY <1>2, <2>2, <3>1, RefersSame, HoldsSame DEF SameLists
  <2>5. CountInv'
    <3>1. Stacked'
      BY <1>2 DEF IInv, CountInv, Stacked, SameLists, SameOwners, SameRuns
    <3>2. ASSUME NEW k \in 1..Services PROVE ~Remaking(p, k)' /\ ~Pending(p, k)'
      BY <2>2 DEF Remaking, Pending, AfterSetup
    <3> QED BY <1>2, <2>2, <3>1, <3>2, CountSame DEF SameLists, SameRuns
  <2>6. OneInv'
    <3>1. Up' /\ Serving'
      BY <2>1 DEF Up, Serving
    <3>2. Mine(p)'
      BY <2>2 DEF Mine, Restarts, AfterSetup
    <3> QED BY <1>1, <1>2, <2>1, <2>2, <3>1, <3>2, OneSame DEF history
  <2> QED BY <2>2, <2>3, <2>4, <2>5, <2>6 DEF IInv
<1>4. CASE result[p] # "ok"
  <2>1. Goto(p, "undo") /\ entry' = entry /\ setupLock' = setupLock
    BY <1>4 DEF SetupDone
  <2>2. /\ Control' /\ CallsInv' /\ Aside(p) /\ pc'[p] = "undo" /\ Inner(p)' = "idle"
        /\ SetsUp(p)' /\ ~Unloads(p)' /\ ~Restarts(p)' /\ pc'[p] # "ustop"
    BY <1>1, <2>1, SetupGoto DEF SetupAt
  <2>3. LockInv'
    BY <1>1, <2>1, <2>2, StageLock DEF Without, made, locals
  <2>4. Types'
    BY <1>1, <1>2, <2>1, <2>2 DEF IInv, Types, Plain, Points, SameLists, SameOwners, tasks, locals, history, outside
  <2>5. Refers(p)' /\ \A k \in 1..Services : ~Pending(p, k)'
    BY <2>2 DEF Refers, StartAt, Pending
  <2> QED BY <1>1, <1>2, <1>4, <2>2, <2>3, <2>4, <2>5, SetupKeeps DEF history
<1> QED BY <1>3, <1>4

LEMMA SetupUndoKeeps ==
    ASSUME IInv, NEW p \in Proc, SetupUndo(p) PROVE IInv'
<1>1. /\ pc[p] = "undo" /\ pc[p] \in SetupAt /\ SetsUp(p) /\ Goto(p, "undone") /\ cur' = 0
      /\ parts' \subseteq Part
      /\ UNCHANGED <<ha, runtimes, services, file, locks, locals, history, spent>>
  BY DEF SetupUndo, SetupAt, SetsUp, IInv, Types, Plain
<1>2. SameLists /\ Lists' /\ Apart(p)
  BY <1>1, SameListsSame DEF IInv, Types, Lists, Runtimes, Services, Apart, locals
<1>3. /\ Control' /\ CallsInv' /\ Aside(p) /\ pc'[p] = "undone" /\ Inner(p)' = "idle"
      /\ SetsUp(p)' /\ ~Unloads(p)' /\ ~Restarts(p)' /\ pc'[p] # "ustop"
  BY <1>1, SetupGoto DEF SetupAt
<1>4. LockInv'
  BY <1>1, <1>3, StageLock DEF Without, Bare, ha, locks
<1>5. Types'
  BY <1>1, <1>2, <1>3 DEF IInv, Types, Plain, Points, SameLists, SameOwners, ha, tasks, locks, locals, history
<1>6. Refers(p)' /\ \A k \in 1..Services : ~Pending(p, k)'
  BY <1>3 DEF Refers, StartAt, Pending
<1> QED BY <1>1, <1>2, <1>3, <1>4, <1>5, <1>6, SetupKeeps DEF history

LEMMA SetupUndoneKeeps ==
    ASSUME IInv, NEW p \in Proc, SetupUndone(p) PROVE IInv'
<1>1. /\ pc[p] = "undone" /\ pc[p] \in SetupAt /\ SetsUp(p) /\ Bare /\ Failed(p)
      /\ parts' \subseteq Part /\ spent' \in [Kind -> Nat]
      /\ UNCHANGED <<stored, made, file, settingsLock, tasks, locals, history>>
  <2>1. pc[p] = "undone" /\ Bare /\ SetsUp(p)
    BY DEF SetupUndone, SetupAt, SetsUp, Without, IInv, LockInv, Stage
  <2>2. parts' \subseteq Part /\ spent' \in [Kind -> Nat]
    BY SpendTypes DEF SetupUndone, StopBridge, Kind, Fault, IInv, Types, Plain
  <2> QED BY <2>1, <2>2 DEF SetupUndone, SetupAt
<1>2. SameLists /\ Lists' /\ Apart(p) /\ Bare'
  BY <1>1, SameListsSame DEF IInv, Types, Lists, Runtimes, Services, made, Apart, Bare, locals, history
<1>3. /\ Control' /\ CallsInv' /\ Aside(p) /\ pc'[p] = Outer(p) /\ Outer(p) \in AfterSetup
      /\ Inner(p)' = "idle" /\ ~Restarts(p)' /\ pc'[p] # "ustop"
      /\ setupLock' \in Proc \cup {NONE} /\ LockInv' /\ entry' = "failed"
  BY <1>1, <1>2, SetupReturn DEF Failed
<1>4. Types'
  BY <1>1, <1>2, <1>3 DEF IInv, Types, Plain, Points, SameLists, SameOwners, tasks, locals, history
<1>5. Refers(p)' /\ \A k \in 1..Services : ~Pending(p, k)'
  BY <1>3 DEF Refers, StartAt, Pending, AfterSetup
<1> QED BY <1>1, <1>2, <1>3, <1>4, <1>5, SetupKeeps DEF history

LEMMA SetupFailsKeeps ==
    ASSUME IInv, NEW p \in Proc, pc[p] \in {"read", "store"}, Goto(p, "undone"), spent' \in [Kind -> Nat],
           UNCHANGED <<ha, made, outside, locks, locals, history>>
    PROVE  IInv'
<1>1. pc[p] \in SetupAt /\ SetsUp(p) /\ Bare
  BY DEF SetupAt, SetsUp, Without, IInv, LockInv, Stage
<1>2. SameLists /\ Lists' /\ Apart(p) /\ Bare'
  BY <1>1, SameListsSame DEF IInv, Types, Lists, Runtimes, Services, made, Apart, Bare, locals, history
<1>3. /\ Control' /\ CallsInv' /\ Aside(p) /\ pc'[p] = "undone" /\ Inner(p)' = "idle"
      /\ SetsUp(p)' /\ ~Unloads(p)' /\ ~Restarts(p)' /\ pc'[p] # "ustop"
  BY <1>1, SetupGoto DEF SetupAt
<1>4. LockInv'
  BY <1>1, <1>2, <1>3, StageLock DEF Without, ha, locks
<1>5. Types'
  BY <1>1, <1>2, <1>3 DEF IInv, Types, Plain, Points, SameLists, SameOwners, ha, tasks, outside, locks, locals, history
<1>6. Refers(p)' /\ \A k \in 1..Services : ~Pending(p, k)'
  BY <1>3 DEF Refers, StartAt, Pending
<1> QED BY <1>1, <1>2, <1>3, <1>4, <1>5, <1>6, SetupKeeps DEF history

Stores(p) ==
    /\ pc[p] = "store" /\ cur' = gen[p] /\ Goto(p, "platforms")
    /\ services' = [services EXCEPT ![runtimes[gen[p]].service].with = stored]
    /\ runtimes' = [runtimes EXCEPT ![gen[p]].options = stored]
    /\ UNCHANGED <<ha, outside, locks, locals, history, spent>>

LEMMA StoreOr ==
    ASSUME IInv, NEW p \in Proc, SetupStore(p)
    PROVE  \/ Stores(p)
           \/ /\ pc[p] = "store" /\ Goto(p, "undone") /\ spent' \in [Kind -> Nat]
              /\ UNCHANGED <<ha, made, outside, locks, locals, history>>
BY SpendTypes DEF SetupStore, Stores, Kind, Fault, IInv, Types

LEMMA StoresKeeps ==
    ASSUME IInv, NEW p \in Proc, Stores(p) PROVE IInv'
<1>1. /\ pc[p] = "store" /\ pc[p] \in SetupAt /\ SetsUp(p) /\ cur' = gen[p] /\ Goto(p, "platforms")
      /\ gen[p] \in 1..Runtimes /\ UNCHANGED <<ha, outside, locks, locals, history, spent>>
  BY DEF Stores, SetupAt, SetsUp, IInv, RefersInv, Refers, Types, Points
<1>2. /\ services' \in [1..Services -> ServiceT(Runtimes)]
      /\ \A k \in 1..Services : /\ services'[k].gen = services[k].gen
                                /\ services'[k].stack = services[k].stack /\ services'[k].live = services[k].live
  <2>1. PICK s : services' = [services EXCEPT ![s].with = stored]
    BY DEF Stores
  <2> QED BY <2>1, WithView DEF IInv, Types, Plain
<1>3. /\ runtimes' \in [1..Runtimes -> RuntimeT(Services)]
      /\ \A k \in 1..Runtimes : /\ runtimes'[k].service = runtimes[k].service
                                /\ runtimes'[k].lock = runtimes[k].lock
  <2>1. runtimes' = [runtimes EXCEPT ![gen[p]].options = stored]
    BY DEF Stores
  <2> QED BY <2>1, OptionsView DEF IInv, Types, Plain
<1>4. SameLists /\ Lists' /\ Apart(p)
  <2>1. Lists' /\ Runtimes' = Runtimes /\ Services' = Services
    BY <1>1, <1>2, <1>3, ListsTo DEF IInv, Types, Lists
  <2> QED BY <1>1, <1>2, <1>3, <2>1 DEF SameLists, SameOwners, SameLocks, SameRuns, Apart, locals
<1>5. /\ Control' /\ CallsInv' /\ Aside(p) /\ pc'[p] = "platforms" /\ Inner(p)' = "idle"
      /\ SetsUp(p)' /\ ~Unloads(p)' /\ ~Restarts(p)' /\ pc'[p] # "ustop"
  BY <1>1, SetupGoto DEF SetupAt
<1>6. LockInv'
  BY <1>1, <1>5, StageLock DEF Without, ha, locks, locals
<1>7. Types'
  BY <1>1, <1>4, <1>5 DEF IInv, Types, Plain, Points, SameLists, SameOwners, ha, tasks, outside, locks, locals, history
<1>8. Refers(p)' /\ \A s \in 1..Services : Pending(p, s)' => Pending(p, s)
  <2>1. Refers(p)'
    BY <1>5 DEF Refers, StartAt
  <2>2. ASSUME NEW s \in 1..Services, Pending(p, s)' PROVE Pending(p, s)
    BY <1>1, <1>2, <1>5, <2>2 DEF Pending, locals
  <2> QED BY <2>1, <2>2
<1> QED BY <1>1, <1>4, <1>5, <1>6, <1>7, <1>8, SetupKeeps DEF history

LEMMA SetupStoreKeeps ==
    ASSUME IInv, NEW p \in Proc, SetupStore(p) PROVE IInv'
BY StoreOr, StoresKeeps, SetupFailsKeeps

Reads(p) ==
    /\ pc[p] = "read" /\ Goto(p, "store")
    /\ services' = Append(services, MakeService(Len(runtimes) + 1))
    /\ runtimes' = Append(runtimes, [service |-> Len(services'), options |-> stored, lock |-> NONE])
    /\ gen' = [gen EXCEPT ![p] = Len(runtimes')]
    /\ UNCHANGED <<ha, cur, outside, locks, obj, was, want, seen, history, spent>>

LEMMA ReadOr ==
    ASSUME IInv, NEW p \in Proc, SetupRead(p)
    PROVE  \/ Reads(p)
           \/ /\ pc[p] = "read" /\ Goto(p, "undone") /\ spent' \in [Kind -> Nat]
              /\ UNCHANGED <<ha, made, outside, locks, locals, history>>
BY SpendTypes DEF SetupRead, Reads, Kind, Fault, IInv, Types, made, locals

LEMMA ReadsKeeps ==
    ASSUME IInv, NEW p \in Proc, Reads(p) PROVE IInv'
<1> PICK m \in Nat, n \in Nat : m = Runtimes + 1 /\ n = Services + 1 /\ m # 0 /\ n # 0
  BY DEF IInv, Types, Lists
<1>1. /\ pc[p] = "read" /\ pc[p] \in SetupAt /\ SetsUp(p) /\ Goto(p, "store") /\ Bare
      /\ services' = Append(services, MakeService(m))
      /\ runtimes' = Append(runtimes, [service |-> Len(services'), options |-> stored, lock |-> NONE])
      /\ gen' = [gen EXCEPT ![p] = Len(runtimes')]
      /\ UNCHANGED <<ha, cur, outside, locks, obj, was, want, seen, history, spent>>
  BY DEF Reads, SetupAt, SetsUp, Without, IInv, LockInv, Stage, Runtimes
<1>2. /\ services' \in [1..n -> ServiceT(m)] /\ Len(services') = n
      /\ \A k \in 1..Services : services'[k] = services[k]
      /\ services'[n] = [gen |-> m, with |-> stored, file |-> file, stack |-> FALSE, live |-> 0]
  <2>1. Lists /\ stored \in Setting /\ file \in Nat /\ m \in {Runtimes, Runtimes + 1} /\ m \in 1..m
    BY DEF IInv, Types, Plain, Lists
  <2> QED BY <1>1, <2>1, MakeView
<1>3. /\ runtimes' \in [1..m -> RuntimeT(n)] /\ Len(runtimes') = m
      /\ \A k \in 1..Runtimes : runtimes'[k] = runtimes[k]
      /\ runtimes'[m] = [service |-> n, options |-> stored, lock |-> NONE]
  <2>1. runtimes' = Append(runtimes, [service |-> Services + 1, options |-> stored, lock |-> NONE])
    BY <1>1, <1>2
  <2>2. Lists /\ stored \in Setting
    BY DEF IInv, Types, Plain
  <2> QED BY <2>1, <2>2, RuntimeView
<1>4. /\ Lists' /\ Runtimes' = m /\ Services' = n /\ Apart(p)
      /\ n \notin 1..Services /\ 1..Services' = 1..Services \cup {n}
      /\ m \notin 1..Runtimes /\ 1..Runtimes' = 1..Runtimes \cup {m}
  <2>1. Lists' /\ Runtimes' = m /\ Services' = n
    BY <1>1, <1>2, <1>3, ListsTo DEF IInv, Types, Lists
  <2>2. n \notin 1..Services /\ 1..n = 1..Services \cup {n}
    BY DEF IInv, Types, Lists
  <2>3. m \notin 1..Runtimes /\ 1..m = 1..Runtimes \cup {m}
    BY DEF IInv, Types, Lists
  <2> QED BY <1>1, <2>1, <2>2, <2>3 DEF Apart
<1>5. /\ Control' /\ CallsInv' /\ Aside(p) /\ pc'[p] = "store" /\ Inner(p)' = "idle"
      /\ SetsUp(p)' /\ ~Unloads(p)' /\ ~Restarts(p)' /\ pc'[p] # "ustop"
  BY <1>1, SetupGoto DEF SetupAt
<1>6. LockInv'
  BY <1>1, <1>5, StageLock DEF Without, Bare, ha, locks, history
<1>7. Types' /\ gen'[p] = m
  <2>1. gen' \in [Proc -> 0..m] /\ obj' \in [Proc -> 0..n] /\ gen'[p] = m
    BY <1>1, <1>3, <1>4 DEF IInv, Types, Points, Lists
  <2> QED BY <1>1, <1>4, <1>5, <2>1 DEF IInv, Types, Plain, Points, ha, tasks, outside, locks, history
<1>8. RefersInv'
  <2>1. Refers(p)'
    BY <1>5, <1>7 DEF Refers, StartAt
  <2>2. ASSUME NEW q \in Proc \ {p} PROVE Refers(q)'
    <3>1. /\ gen[q] # 0 => gen[q] \in 1..Runtimes
          /\ obj[q] # 0 => obj[q] \in 1..Services
      BY DEF IInv, Types, Points
    <3>2. Refers(q) /\ (Inner(q) = "rdone" => Restarts(q))
      BY DEF IInv, RefersInv, Restarts
    <3>3. /\ pc'[q] = pc[q] /\ Inner(q)' = Inner(q) /\ Restarts(q)' = Restarts(q)
          /\ gen'[q] = gen[q] /\ obj'[q] = obj[q]
      BY <1>4, <1>5 DEF Aside, Apart
    <3> QED BY <1>2, <1>3, <3>1, <3>2, <3>3 DEF Refers
  <2>3. Owned'
    <3>1. ASSUME NEW k \in 1..Runtimes PROVE services'[runtimes'[k].service].gen = k
      <4>1. runtimes[k].service \in 1..Services /\ services[runtimes[k].service].gen = k
        BY RuntimeIs DEF IInv, Types, RefersInv, Owned
      <4> QED BY <1>2, <1>3, <4>1
    <3>2. services'[runtimes'[m].service].gen = m
      BY <1>2, <1>3
    <3> QED BY <1>4, <3>1, <3>2 DEF Owned
  <2> QED BY <2>1, <2>2, <2>3 DEF RefersInv
<1>9. HoldsInv'
  <2>1. Holds(p)'
    BY <1>5 DEF Holds
  <2>2. ASSUME NEW q \in Proc \ {p} PROVE Holds(q)'
    BY <1>3, <1>4, <1>5, Holders DEF Aside, Apart, Holds
  <2> QED BY <2>1, <2>2 DEF HoldsInv
<1>10. CountInv'
  <2>1. Stacked'
    BY <1>2, <1>4 DEF IInv, CountInv, Stacked
  <2>2. ASSUME NEW k \in 1..Services PROVE Counted(k)'
    <3>1. services[k].gen # m
      BY <1>4, ServiceIs DEF IInv, Types
    <3>2. ASSUME NEW q \in Proc
          PROVE  (Remaking(q, k)' => Remaking(q, k)) /\ (Pending(q, k)' => Pending(q, k))
      <4>1. CASE q = p
        BY <1>2, <1>5, <1>7, <3>1, <4>1 DEF Remaking, Pending
      <4>2. CASE q # p
        BY <1>2, <1>4, <1>5, <4>2 DEF Aside, Apart, Remaking, Pending
      <4> QED BY <4>1, <4>2
    <3> QED BY <1>2, <3>2 DEF IInv, CountInv, Counted
  <2>3. Counted(n)'
    BY <1>2 DEF Counted
  <2> QED BY <1>4, <2>1, <2>2, <2>3 DEF CountInv
<1>11. OneInv'
  <2>1. ~crossed => \A q \in Proc \ {p} : ~Restarts(q) /\ ~SetsUp(q)
    BY <1>1, InSetup
  <2>2. ~crossed => \A s \in 1..Services' : services'[s].live = 0
    BY <1>1, <1>2, <1>4, InSetup DEF Still
  <2> QED BY <1>1, <1>5, <2>1, <2>2, OneQuiet DEF history
<1> QED BY <1>5, <1>6, <1>7, <1>8, <1>9, <1>10, <1>11 DEF IInv

LEMMA SetupReadKeeps ==
    ASSUME IInv, NEW p \in Proc, SetupRead(p) PROVE IInv'
BY ReadOr, ReadsKeeps, SetupFailsKeeps

(***************************************************************************)
(* An unload                                                               *)
(***************************************************************************)
LEMMA InUnload ==
    ASSUME IInv, NEW p \in Proc, Unloads(p)
    PROVE  /\ entry = "unloading" /\ setupLock = p /\ cur \in 1..Runtimes /\ cur # 0 /\ gen[p] = cur
           /\ runtimes[cur].service \in 1..Services
           /\ Outer(p) \in AfterUnload /\ Inner(p) = "idle" /\ ~SetsUp(p) /\ ~Restarts(p)
           /\ \A q \in Proc : ~SetsUp(q)
           /\ \A q \in Proc \ {p} : ~Unloads(q)
           /\ ~crossed /\ pc[p] \notin {"uplatforms", "ulock"} => \A q \in Proc : ~Restarts(q)
           /\ ~crossed /\ pc[p] \in {"uhub", "ubridge"} => Still
<1>1. entry = "unloading" /\ setupLock = p /\ cur \in 1..Runtimes /\ cur # 0 /\ gen[p] = cur
  BY DEF IInv, LockInv, Locked, Stage, Types, Lists
<1>2. runtimes[cur].service \in 1..Services
  BY <1>1, RuntimeIs DEF IInv, Types
<1>3. Outer(p) \in AfterUnload /\ Inner(p) = "idle"
  BY DEF IInv, CallsInv, Calls, Placed, Unloads
<1>4. ~SetsUp(p) /\ ~Restarts(p)
  BY <1>3 DEF Unloads, SetsUp, Restarts, UnloadAt, SetupAt
<1>5. ASSUME NEW q \in Proc PROVE ~SetsUp(q)
  BY <1>1 DEF IInv, LockInv, Stage
<1>6. ASSUME NEW q \in Proc \ {p} PROVE ~Unloads(q)
  BY <1>1 DEF IInv, LockInv, Locked
<1>7. ~crossed /\ pc[p] \notin {"uplatforms", "ulock"} => \A q \in Proc : ~Restarts(q)
  BY <1>1 DEF IInv, OneInv, Mine, Leaving
<1>8. ~crossed /\ pc[p] \in {"uhub", "ubridge"} => Still
  BY <1>1 DEF IInv, OneInv, Only, Still, Serving, Leaving
<1> QED BY <1>1, <1>2, <1>3, <1>4, <1>5, <1>6, <1>7, <1>8

\* A step within an unload that leaves the lists alone.
LEMMA UnloadKeeps ==
    ASSUME IInv, NEW p \in Proc, Types', CallsInv', LockInv', OneInv', Aside(p), Apart(p), SameLists,
           pc'[p] \in (UnloadAt \ {"ustop"}) \cup AfterUnload, Inner(p)' = "idle"
    PROVE  IInv'
<1>1. ~Restarts(p)' /\ Refers(p)' /\ Holds(p)'
  BY DEF Restarts, Refers, Holds, StartAt, UnloadAt, AfterUnload
<1>2. RefersInv' /\ HoldsInv'
  BY <1>1, RefersSame, HoldsSame DEF SameLists
<1>3. CountInv'
  <2>1. Stacked'
    BY DEF IInv, CountInv, Stacked, SameLists, SameOwners, SameRuns
  <2>2. ASSUME NEW k \in 1..Services PROVE ~Remaking(p, k)' /\ ~Pending(p, k)'
    BY DEF Remaking, Pending, UnloadAt, AfterUnload
  <2> QED BY <2>1, <2>2, CountSame DEF SameLists, SameRuns
<1> QED BY <1>2, <1>3 DEF IInv

\* The step to the next of an unload.
LEMMA UnloadGoto ==
    ASSUME IInv, NEW p \in Proc, Unloads(p), NEW l \in UnloadAt, Goto(p, l),
           entry' = entry, cur' = cur, setupLock' = setupLock, gen' = gen,
           unrestored' = unrestored
    PROVE  /\ Control' /\ CallsInv' /\ Aside(p) /\ pc'[p] = l /\ Outer(p)' = Outer(p) /\ Inner(p)' = "idle"
           /\ ~Restarts(p)' /\ LockInv'
<1>1. Outer(p) \in AfterUnload /\ Inner(p) = "idle" /\ ~SetsUp(p)
  BY InUnload
<1>2. Placed(l, Outer(p), Inner(p)) /\ l \in Label
  BY <1>1 DEF Placed, Label, RestartAt, SetupAt, UnloadAt, StartAt, AfterRestart, AfterSetup, AfterUnload
<1>3. /\ Control' /\ CallsInv' /\ Aside(p) /\ pc'[p] = l /\ Outer(p)' = Outer(p) /\ Inner(p)' = "idle"
  BY <1>1, <1>2, GotoStep
<1>4. /\ Unloads(p)' /\ ~SetsUp(p)' /\ ~Restarts(p)' /\ ~Without(p) /\ ~Without(p)'
      /\ Reloads(p)' => Reloads(p)
  BY <1>1, <1>3 DEF Unloads, SetsUp, Restarts, Without, Reloads, UnloadAt, SetupAt
<1>5. LockInv'
  BY <1>1, <1>3, <1>4, LockSame
<1> QED BY <1>1, <1>3, <1>4, <1>5

\* The end of an unload.
LEMMA UnloadReturn ==
    ASSUME IInv, NEW p \in Proc, Unloads(p), NEW how \in {"ok", "no", "raised"}, Return(p, how), SetupUnlock(p),
           \/ entry' = "off" /\ cur' = 0
           \/ entry' \in {"loaded", "stuck"} /\ cur' # 0
    PROVE  /\ Control' /\ CallsInv' /\ Aside(p) /\ pc'[p] \in AfterUnload /\ Inner(p)' = "idle"
           /\ pc'[p] = Outer(p) /\ ~Restarts(p)' /\ setupLock' \in Proc \cup {NONE} /\ LockInv'
<1>1. Outer(p) \in AfterUnload /\ setupLock = p
  BY InUnload
<1>2. /\ Control' /\ CallsInv' /\ Aside(p) /\ pc'[p] = Outer(p) /\ Outer(p)' = "idle" /\ Inner(p)' = "idle"
  BY CallReturn DEF Unloads
<1>3. ~SetsUp(p)' /\ ~Unloads(p)' /\ ~Restarts(p)' /\ (Reloads(p)' => Outer(p) \in {"reloaded", "end"})
  BY <1>1, <1>2 DEF SetsUp, Unloads, Restarts, Reloads, SetupAt, UnloadAt, AfterUnload
<1>4. /\ setupLock' \in {p, NONE}
      /\ Outer(p) \in {"reloaded", "end"} => setupLock' = p
  BY Unlocks DEF IInv, Types, Control
<1>5. Stage(p)'
  BY <1>3 DEF Stage
<1>6. LockInv'
  BY <1>1, <1>2, <1>3, <1>4, <1>5, HeldLock DEF Bare
<1> QED BY <1>1, <1>2, <1>3, <1>4, <1>6

LEMMA UnloadPlatformsKeeps ==
    ASSUME IInv, NEW p \in Proc, UnloadPlatforms(p) PROVE IInv'
<1>1. /\ pc[p] = "uplatforms" /\ Unloads(p) /\ cur # 0 /\ entry = "unloading" /\ setupLock = p
      /\ parts' \subseteq Part /\ refused' \in BOOLEAN
      /\ UNCHANGED <<stored, made, file, settingsLock, tasks, locals, crossed, overtaken, unrestored>>
  BY InUnload DEF UnloadPlatforms, Unloads, UnloadAt, IInv, Types, Plain
<1>2. SameLists /\ Lists' /\ Apart(p) /\ cur' = cur /\ gen' = gen /\ crossed' = crossed
  BY <1>1, SameListsSame DEF IInv, Types, Lists, Runtimes, Services, made, Apart, locals
<1>3. CASE Goto(p, "ulock") /\ UNCHANGED <<entry, setupLock, spent>>
  <2>1. /\ Control' /\ CallsInv' /\ Aside(p) /\ pc'[p] = "ulock" /\ Inner(p)' = "idle" /\ ~Restarts(p)' /\ LockInv'
    BY <1>1, <1>2, <1>3, UnloadGoto DEF UnloadAt
  <2>2. Types'
    BY <1>1, <1>2, <1>3, <2>1 DEF IInv, Types, Plain, Points, SameLists, SameOwners, tasks, locals
  <2>3. Up' /\ Serving' /\ Mine(p)'
    BY <1>1, <1>3, <2>1 DEF Up, Serving, Leaving, Mine
  <2>4. OneInv'
    BY <1>2, <2>1, <2>3, OneSame
  <2> QED BY <1>2, <2>1, <2>2, <2>4, UnloadKeeps DEF UnloadAt
<1>4. CASE entry' = "loaded" /\ SetupUnlock(p) /\ Return(p, "no") /\ spent' \in [Kind -> Nat]
  <2>1. /\ Control' /\ CallsInv' /\ Aside(p) /\ pc'[p] \in AfterUnload /\ Inner(p)' = "idle"
        /\ ~Restarts(p)' /\ setupLock' \in Proc \cup {NONE} /\ LockInv'
    BY <1>1, <1>2, <1>4, UnloadReturn
  <2>2. Types'
    BY <1>1, <1>2, <1>4, <2>1 DEF IInv, Types, Plain, Points, SameLists, SameOwners, tasks, locals
  <2>3. Up' /\ Serving' /\ Mine(p)'
    BY <1>4, <2>1 DEF Up, Serving, Mine, AfterUnload
  <2>4. OneInv'
    BY <1>2, <2>1, <2>3, OneSame
  <2> QED BY <1>2, <2>1, <2>2, <2>4, UnloadKeeps
<1>5. \/ Goto(p, "ulock") /\ UNCHANGED <<entry, setupLock, spent>>
      \/ entry' = "loaded" /\ SetupUnlock(p) /\ Return(p, "no") /\ spent' \in [Kind -> Nat]
  BY SpendTypes DEF UnloadPlatforms, Kind, Fault, IInv, Types
<1> QED BY <1>3, <1>4, <1>5

LEMMA UnloadHubKeeps ==
    ASSUME IInv, NEW p \in Proc, UnloadHub(p) PROVE IInv'
<1>1. /\ pc[p] = "uhub" /\ Unloads(p) /\ Goto(p, "ubridge") /\ parts' \subseteq Part
      /\ UNCHANGED <<ha, made, file, locks, locals, history, spent>>
  BY DEF UnloadHub, Unloads, UnloadAt, IInv, Types, Plain
<1>2. SameLists /\ Lists' /\ Apart(p)
  BY <1>1, SameListsSame DEF IInv, Types, Lists, Runtimes, Services, made, Apart, locals
<1>3. /\ Control' /\ CallsInv' /\ Aside(p) /\ pc'[p] = "ubridge" /\ Inner(p)' = "idle" /\ ~Restarts(p)' /\ LockInv'
  BY <1>1, UnloadGoto DEF UnloadAt, ha, made, locks, locals, history
<1>4. Types'
  BY <1>1, <1>2, <1>3 DEF IInv, Types, Plain, Points, SameLists, SameOwners, ha, tasks, locks, locals, history
<1>5. OneInv'
  <2>1. ~crossed => \A q \in Proc \ {p} : ~Restarts(q) /\ ~SetsUp(q)
    BY <1>1, InUnload
  <2>2. ~crossed => \A s \in 1..Services' : services'[s].live = 0
    BY <1>1, <1>2, InUnload DEF Still, SameLists, SameOwners, SameRuns
  <2> QED BY <1>1, <1>3, <2>1, <2>2, OneQuiet DEF history
<1> QED BY <1>2, <1>3, <1>4, <1>5, UnloadKeeps DEF UnloadAt

LEMMA UnloadBridgeKeeps ==
    ASSUME IInv, NEW p \in Proc, UnloadBridge(p) PROVE IInv'
<1>1. /\ pc[p] = "ubridge" /\ Unloads(p) /\ cur # 0 /\ parts' \subseteq Part /\ spent' \in [Kind -> Nat]
      /\ SetupUnlock(p)
      /\ UNCHANGED <<stored, runtimes, services, file, settingsLock, tasks, locals, history>>
  <2>1. pc[p] = "ubridge" /\ Unloads(p) /\ cur # 0
    BY InUnload DEF UnloadBridge, Unloads, UnloadAt
  <2>2. parts' \subseteq Part /\ spent' \in [Kind -> Nat]
    BY SpendTypes DEF UnloadBridge, StopBridge, Kind, Fault, IInv, Types, Plain
  <2> QED BY <2>1, <2>2 DEF UnloadBridge
<1>2. \/ entry' = "stuck" /\ Return(p, "no") /\ cur' = cur
      \/ entry' = "off" /\ Return(p, "ok") /\ cur' = 0
  BY DEF UnloadBridge
<1>3. SameLists /\ Lists' /\ Apart(p)
  <2>1. cur' \in 0..Runtimes
    BY <1>2 DEF IInv, Types, Lists
  <2> QED BY <1>1, <2>1, SameListsSame DEF IInv, Types, Lists, Runtimes, Services, Apart, locals
<1>4. /\ Control' /\ CallsInv' /\ Aside(p) /\ pc'[p] \in AfterUnload /\ Inner(p)' = "idle"
      /\ ~Restarts(p)' /\ setupLock' \in Proc \cup {NONE} /\ LockInv'
  BY <1>1, <1>2, UnloadReturn
<1>5. Types'
  BY <1>1, <1>2, <1>3, <1>4 DEF IInv, Types, Plain, Points, SameLists, SameOwners, tasks, locals, history
<1>6. OneInv'
  <2>1. ~crossed => \A q \in Proc \ {p} : ~Restarts(q) /\ ~SetsUp(q)
    BY <1>1, InUnload
  <2>2. ~crossed => \A s \in 1..Services' : services'[s].live = 0
    BY <1>1, <1>3, InUnload DEF Still, SameLists, SameOwners, SameRuns
  <2> QED BY <1>1, <1>4, <2>1, <2>2, OneQuiet DEF history
<1> QED BY <1>3, <1>4, <1>5, <1>6, UnloadKeeps

LEMMA UnloadBeginKeeps ==
    ASSUME IInv, NEW p \in Proc, UnloadBegin(p) PROVE IInv'
<1>1. /\ pc[p] = "unload" /\ Outer(p) \in AfterUnload /\ Inner(p) = "idle" /\ Outside(p)
      /\ ~SetsUp(p) /\ ~Unloads(p) /\ ~Restarts(p)
      /\ UNCHANGED <<stored, made, outside, settingsLock, tasks, obj, was, want, seen, history, spent>>
  BY DEF UnloadBegin, IInv, CallsInv, Calls, Placed, SetsUp, Unloads, Restarts, SetupAt, UnloadAt, Outside
<1>2. SameLists /\ Lists' /\ cur' = cur /\ crossed' = crossed /\ unrestored' = unrestored
  BY <1>1, SameListsSame DEF IInv, Types, Lists, Runtimes, Services, made, history
<1>3. CASE /\ \/ Return(p, "no") /\ entry' = entry
              \/ Return(p, "ok") /\ entry \in {"off", "failed"} /\ entry' = "off" /\ SetupLocked(p)
           /\ setupLock' = setupLock /\ gen' = gen
  <2>1. /\ Control' /\ CallsInv' /\ Aside(p) /\ pc'[p] = Outer(p) /\ Outer(p)' = "idle" /\ Inner(p)' = "idle"
    BY <1>1, <1>3, CallReturn
  <2>2. /\ Outside(p)' /\ ~SetsUp(p)' /\ ~Unloads(p)' /\ ~Restarts(p)' /\ Apart(p)
        /\ pc'[p] \notin {"rlock", "fread", "hand", "saved"}
        /\ Reloads(p)' => Reloads(p)
    BY <1>1, <1>3, <2>1 DEF Outside, SetsUp, Unloads, Restarts, Reloads, Apart, SetupAt, UnloadAt, AfterUnload
  <2>3. Types'
    BY <1>1, <1>2, <1>3, <2>1 DEF IInv, Types, Plain, Points, SameLists, SameOwners, tasks, outside, history
  <2>4. Reloads(p)' => setupLock' = p
    BY <1>3, <2>2 DEF IInv, LockInv, Locked
  <2>5. CASE entry' = entry
    BY <1>1, <1>2, <1>3, <2>1, <2>2, <2>3, <2>4, <2>5, OuterKeeps
  <2>6. CASE entry \in {"off", "failed"} /\ entry' = "off" /\ SetupLocked(p)
    <3>1. LockInv'
      <4>1. Bare' /\ setupLock \in {p, NONE} /\ Stage(p)'
        BY <1>2, <2>2, <2>6 DEF IInv, LockInv, EntryInv, Bare, SetupLocked, Stage
      <4> QED BY <1>3, <2>1, <2>2, <2>4, <2>6, <4>1, HeldLock
    <3>2. OneInv'
      <4>1. ~crossed => \A q \in Proc \ {p} : ~Restarts(q) /\ ~SetsUp(q)
        BY <2>6 DEF IInv, OneInv, Mine, Leaving, LockInv, Stage
      <4>2. ~crossed => \A s \in 1..Services' : services'[s].live = 0
        BY <1>2, <2>6 DEF IInv, OneInv, Only, Serving, Leaving, SameLists, SameOwners, SameRuns
      <4> QED BY <1>2, <2>1, <2>2, <4>1, <4>2, OneQuiet
    <3> QED BY <1>1, <1>2, <2>1, <2>2, <2>3, <3>1, <3>2, UnloadKeeps
  <2> QED BY <1>3, <2>5, <2>6
<1>4. CASE /\ entry = "loaded" /\ SetupLocked(p) /\ setupLock' = p /\ entry' = "unloading"
           /\ Goto(p, "uplatforms") /\ gen' = [gen EXCEPT ![p] = cur]
  <2>1. /\ Control' /\ CallsInv' /\ Aside(p) /\ pc'[p] = "uplatforms" /\ Outer(p)' = Outer(p) /\ Inner(p)' = "idle"
    <3>1. Placed("uplatforms", Outer(p), Inner(p)) /\ "uplatforms" \in Label
      BY <1>1 DEF Placed, Label, RestartAt, SetupAt, UnloadAt, StartAt, AfterRestart, AfterSetup, AfterUnload
    <3> QED BY <1>1, <1>4, <3>1, GotoStep
  <2>2. Unloads(p)' /\ ~SetsUp(p)' /\ ~Restarts(p)'
    BY <2>1 DEF SetsUp, Unloads, Restarts, SetupAt, UnloadAt
  <2>3. gen' \in [Proc -> 0..Runtimes] /\ gen'[p] = cur /\ Apart(p)
    BY <1>1, <1>4 DEF IInv, Types, Points, Lists, Apart
  <2>4. Types'
    BY <1>1, <1>2, <1>4, <2>1, <2>3 DEF IInv, Types, Plain, Points, SameLists, SameOwners, tasks, outside, history
  <2>5. LockInv'
    <3>1. cur # 0 /\ setupLock \in {p, NONE}
      BY <1>4 DEF IInv, LockInv, EntryInv, SetupLocked
    <3>2. Stage(p)'
      BY <1>2, <1>4, <2>2, <2>3, <3>1 DEF Stage
    <3> QED BY <1>4, <2>1, <2>2, <3>1, <3>2, HeldLock
  <2>6. OneInv'
    <3>1. Up' /\ Serving' /\ Mine(p)'
      BY <1>4, <2>1, <2>2 DEF Up, Serving, Leaving, Mine
    <3> QED BY <1>2, <2>1, <2>3, <3>1, OneSame
  <2> QED BY <1>2, <2>1, <2>3, <2>4, <2>5, <2>6, UnloadKeeps DEF UnloadAt
<1> QED BY <1>3, <1>4 DEF UnloadBegin

LEMMA UnloadLockKeeps ==
    ASSUME IInv, NEW p \in Proc, UnloadLock(p) PROVE IInv'
<1> PICK g \in 1..Runtimes : g = gen[p] /\ g = cur
  BY InUnload DEF UnloadLock, Unloads, UnloadAt
<1>1. /\ pc[p] = "ulock" /\ Unloads(p) /\ entry = "unloading" /\ setupLock = p /\ Goto(p, "ustop")
      /\ runtimes[g].lock = NONE /\ runtimes' = [runtimes EXCEPT ![g].lock = p]
      /\ UNCHANGED <<ha, cur, services, outside, locks, locals, history, spent>>
  BY InUnload DEF UnloadLock, Unloads, UnloadAt
<1>2. /\ Control' /\ CallsInv' /\ Aside(p) /\ pc'[p] = "ustop" /\ Inner(p)' = "idle" /\ ~Restarts(p)' /\ LockInv'
  BY <1>1, UnloadGoto DEF UnloadAt, ha, locks, locals, history
<1>3. /\ runtimes' \in [1..Runtimes -> RuntimeT(Services)]
      /\ \A k \in 1..Runtimes : /\ runtimes'[k].service = runtimes[k].service
                                /\ runtimes'[k].lock = IF k = g THEN p ELSE runtimes[k].lock
  <2>1. Lists /\ p \in Proc \cup {NONE} /\ runtimes' = [runtimes EXCEPT ![g].lock = p]
    BY <1>1 DEF IInv, Types
  <2> QED BY ZenonT(30), <2>1, LockView
<1>4. Lists' /\ SameOwners /\ Apart(p)
  <2>1. Lists' /\ Runtimes' = Runtimes /\ Services' = Services
    BY <1>1, <1>3, ListsTo DEF IInv, Types, Lists
  <2> QED BY <1>1, <1>3, <2>1 DEF SameOwners, Apart, locals
<1>5. Types'
  BY <1>1, <1>2, <1>4 DEF IInv, Types, Plain, Points, SameOwners, ha, tasks, outside, locks, locals, history
<1>6. RefersInv'
  <2>1. Refers(p)'
    BY <1>2 DEF Refers, StartAt
  <2> QED BY <1>2, <1>4, <2>1, RefersSame
<1>7. HoldsInv'
  <2>1. Holds(p)'
    BY <1>1, <1>3 DEF Holds, locals
  <2>2. ASSUME NEW q \in Proc \ {p} PROVE Holds(q)'
    <3>1. Restarts(q) \/ pc[q] = "ustop" => gen[q] # g
      BY <1>1, Holders, EntryAssumption
    <3> QED BY <1>2, <1>3, <1>4, <3>1, Holders DEF Aside, Apart, Holds
  <2> QED BY <2>1, <2>2 DEF HoldsInv
<1>8. CountInv'
  <2>1. Stacked' /\ services' = services
    BY <1>1, <1>4 DEF IInv, CountInv, Stacked, SameOwners
  <2>2. ASSUME NEW s \in 1..Services PROVE ~Remaking(p, s)' /\ ~Pending(p, s)'
    BY <1>2 DEF Remaking, Pending
  <2> QED BY <1>2, <1>4, <2>1, <2>2, CountSame
<1>9. OneInv'
  <2> SUFFICES ASSUME ~crossed PROVE (\A q \in Proc : Mine(q)') /\ \A s \in 1..Services : Only(s)'
    BY <1>1, <1>4 DEF OneInv, SameOwners, history
  <2>1. /\ services' = services /\ cur' = cur /\ runtimes'[cur].service = runtimes[cur].service
        /\ entry' = entry /\ setupLock' = setupLock
    BY <1>1, <1>3 DEF ha, locks
  <2>2. ASSUME NEW q \in Proc PROVE ~Restarts(q) /\ ~SetsUp(q)
    BY <1>1, Alone, Holders, InUnload, EntryAssumption
  <2>3. ASSUME NEW q \in Proc PROVE Mine(q)'
    <3>1. CASE q = p
      BY <1>2, <3>1 DEF Mine
    <3>2. CASE q # p
      BY <1>2, <2>2, <3>2 DEF Mine, Aside, Restarts, SetsUp
    <3> QED BY <3>1, <3>2
  <2>4. Serving'
    BY <1>1, <1>2, <2>1 DEF Serving
  <2>5. ASSUME NEW s \in 1..Services PROVE Only(s)'
    BY <2>1, <2>4 DEF IInv, OneInv, Only
  <2> QED BY <2>3, <2>5
<1> QED BY <1>2, <1>5, <1>6, <1>7, <1>8, <1>9 DEF IInv

LEMMA UnloadStopKeeps ==
    ASSUME IInv, NEW p \in Proc, UnloadStop(p) PROVE IInv'
<1> PICK g \in 1..Runtimes, s \in 1..Services : g = gen[p] /\ g = cur /\ s = runtimes[g].service
  BY InUnload DEF UnloadStop, Unloads, UnloadAt
<1>1. /\ pc[p] = "ustop" /\ Unloads(p) /\ entry = "unloading" /\ setupLock = p /\ Goto(p, "uhub")
      /\ services' = Stopped(s) /\ runtimes' = [runtimes EXCEPT ![g].lock = NONE]
      /\ UNCHANGED <<ha, cur, outside, locks, locals, history, spent>>
  BY InUnload DEF UnloadStop, Unloads, UnloadAt
<1>2. /\ Control' /\ CallsInv' /\ Aside(p) /\ pc'[p] = "uhub" /\ Inner(p)' = "idle" /\ ~Restarts(p)' /\ LockInv'
  BY <1>1, UnloadGoto DEF UnloadAt, ha, locks, locals, history
<1>3. /\ runtimes' \in [1..Runtimes -> RuntimeT(Services)]
      /\ \A k \in 1..Runtimes : /\ runtimes'[k].service = runtimes[k].service
                                /\ k # g => runtimes'[k].lock = runtimes[k].lock
  BY <1>1, LockView DEF IInv, Types
<1>4. Lists' /\ SameOwners /\ Apart(p)
  <2>1. services' \in [1..Services -> ServiceT(Runtimes)]
    BY <1>1, StopView DEF IInv, Types, CountInv
  <2>2. Lists' /\ Runtimes' = Runtimes /\ Services' = Services
    BY <1>1, <1>3, <2>1, ListsTo DEF IInv, Types, Lists
  <2> QED BY <1>1, <1>3, <2>2, StopLeaves DEF SameOwners, Apart, locals
<1>5. Types'
  BY <1>1, <1>2, <1>4 DEF IInv, Types, Plain, Points, SameOwners, ha, tasks, outside, locks, locals, history
<1>6. RefersInv'
  <2>1. Refers(p)'
    BY <1>2 DEF Refers, StartAt
  <2> QED BY <1>2, <1>4, <2>1, RefersSame
<1>7. HoldsInv'
  <2>1. Holds(p)'
    BY <1>2 DEF Holds
  <2>2. ASSUME NEW q \in Proc \ {p} PROVE Holds(q)'
    <3>1. Restarts(q) \/ pc[q] = "ustop" => gen[q] # g
      BY <1>1, Holders
    <3> QED BY <1>2, <1>3, <1>4, <3>1, Holders DEF Aside, Apart, Holds
  <2> QED BY <2>1, <2>2 DEF HoldsInv
<1>8. CountInv'
  <2>1. Stacked'
    BY <1>1, <1>4, StopStacked DEF SameOwners
  <2>2. ASSUME NEW k \in 1..Services PROVE ~Remaking(p, k)' /\ ~Pending(p, k)'
    BY <1>2 DEF Remaking, Pending
  <2> QED BY <1>1, <1>2, <1>4, <2>1, <2>2, CountSame, StopLeaves DEF SameOwners
<1>9. OneInv'
  <2>1. ~crossed => \A q \in Proc \ {p} : ~Restarts(q) /\ ~SetsUp(q)
    BY <1>1, InUnload
  <2>2. ~crossed => \A k \in 1..Services' : services'[k].live = 0
    BY <1>1, <1>4, StopLeaves DEF SameOwners
  <2> QED BY <1>1, <1>2, <2>1, <2>2, OneQuiet DEF history
<1> QED BY <1>2, <1>5, <1>6, <1>7, <1>8, <1>9 DEF IInv

(***************************************************************************)
(* The theorems                                                            *)
(***************************************************************************)
LEMMA InitKeeps == Init => IInv
<1> SUFFICES ASSUME Init PROVE IInv
  OBVIOUS
<1>1. /\ runtimes = <<>> /\ services = <<>> /\ cur = 0 /\ entry = "off" /\ crossed = FALSE
      /\ pc = [p \in Proc |-> "idle"] /\ ret = [p \in Proc |-> <<>>]
  BY DEF Init
<1>2. ASSUME NEW p \in Proc
      PROVE  pc[p] = "idle" /\ ret[p] = <<>> /\ Outer(p) = "idle" /\ Inner(p) = "idle"
  BY <1>1 DEF Outer, Inner
<1>3. Runtimes = 0 /\ Services = 0 /\ 1..0 = {} /\ DOMAIN runtimes = {} /\ DOMAIN services = {}
  BY <1>1, EmptySeq, LenProperties DEF Runtimes, Services
<1>4. Lists
  <2>1. runtimes \in Seq(RuntimeT(0)) /\ services \in Seq(ServiceT(0))
    BY <1>1, EmptySeq
  <2>2. runtimes \in [1..0 -> RuntimeT(0)] /\ services \in [1..0 -> ServiceT(0)]
    BY <1>3, <2>1, LenProperties DEF Runtimes, Services
  <2> QED BY <1>1, <1>3, <2>2 DEF Lists
<1>5. Types
  <2>1. Plain
    <3>1. Defaults \in Setting
      BY DEF Defaults, Setting
    <3>2. was \in [Proc -> Setting] /\ want \in [Proc -> Setting] /\ seen \in [Proc -> Nat] /\ spent \in [Kind -> Nat]
      BY <3>1 DEF Init
    <3> QED BY <3>1, <3>2 DEF Init, Plain
  <2>2. Control
    <3>1. <<>> \in Seq(Label) /\ "idle" \in Label /\ Len(<<>>) = 0
      BY EmptySeq DEF Label
    <3>2. pc \in [Proc -> Label] /\ ret \in [Proc -> Seq(Label)] /\ result \in [Proc -> {"ok", "no", "raised"}]
      BY <1>1, <3>1 DEF Init
    <3>3. ASSUME NEW p \in Proc PROVE Deep(p)
      BY <1>2, <3>1 DEF Deep
    <3> QED BY <3>2, <3>3 DEF Control
  <2>3. Points
    BY <1>3 DEF Init, Points
  <2> QED BY <1>4, <2>1, <2>2, <2>3 DEF Types
<1>6. ASSUME NEW p \in Proc
      PROVE  ~Restarts(p) /\ ~SetsUp(p) /\ ~Unloads(p) /\ ~Reloads(p)
  BY <1>2 DEF Restarts, SetsUp, Unloads, Reloads, SetupAt, UnloadAt
<1>7. CallsInv
  BY <1>2 DEF CallsInv, Calls, Placed, RestartAt, SetupAt, UnloadAt, StartAt, AfterRestart, AfterSetup, AfterUnload
<1>8. RefersInv /\ HoldsInv
  BY <1>2, <1>3, <1>6 DEF RefersInv, Refers, Owned, HoldsInv, Holds, StartAt
<1>9. LockInv
  BY <1>1, <1>6 DEF LockInv, Locked, Stage, EntryInv, Bare
<1>10. CountInv
  BY <1>3 DEF CountInv, Stacked
<1>11. OneInv
  BY <1>2, <1>3, <1>6 DEF OneInv, Mine
<1> QED BY <1>5, <1>7, <1>8, <1>9, <1>10, <1>11 DEF IInv

LEMMA NextKeeps == IInv /\ [Next]_vars => IInv'
<1> SUFFICES ASSUME IInv, [Next]_vars PROVE IInv'
  OBVIOUS
<1>1. CASE UNCHANGED vars
  BY <1>1 DEF vars, ha, made, outside, locks, control, locals, history, tasks, IInv, Types, Plain, Control, Deep,
       Lists, Points, Runtimes, Services, Outer, Inner, CallsInv, Calls, Placed, RefersInv, Refers, Owned,
       LockInv, Locked, Stage, EntryInv, Bare, HoldsInv, Holds, CountInv, Stacked, Counted, Remaking, Pending, OneInv,
       Mine, Only, Still, Leaving, Serving, Restarts, SetsUp, Unloads, Reloads, Without
<1>2. CASE TogglePanel
  BY <1>2, TogglePanelKeeps
<1>3. ASSUME NEW p \in Proc, Begin(p) PROVE IInv'
  BY <1>3, PutOptionsKeeps, PutSettingsKeeps, ListenKeeps, ReloadKeeps, RefreshKeeps DEF Begin
<1>4. ASSUME NEW p \in Proc, Go(p) PROVE IInv'
  <2>1. CASE Check(p) \/ Run(p) \/ Reloaded(p) \/ ReloadEnd(p) \/ ReadFile(p) \/ Hand(p)
    BY <2>1, CheckKeeps, RunKeeps, ReloadedKeeps, ReloadEndKeeps, ReadFileKeeps, HandKeeps
  <2>2. CASE Restart(p)
    BY <2>2, RestartLockKeeps, RestartStopKeeps, RestartMakeKeeps, RestartUnreadKeeps, RestartReturnKeeps DEF Restart
  <2>3. CASE Setup(p)
    BY <2>3, SetupBeginKeeps, SetupBridgeKeeps, SetupReadKeeps, SetupStoreKeeps, SetupPlatformsKeeps, SetupHubKeeps,
       SetupDoneKeeps, SetupUndoKeeps, SetupUndoneKeeps DEF Setup
  <2>4. CASE Unload(p)
    BY <2>4, UnloadBeginKeeps, UnloadPlatformsKeeps, UnloadLockKeeps, UnloadStopKeeps, UnloadHubKeeps,
       UnloadBridgeKeeps DEF Unload
  <2>5. CASE Panel(p)
    BY <2>5, SavedKeeps, UnsavedKeeps, ChangeKeeps, ChangeFailsKeeps, UnchangedKeeps, ChangedKeeps,
       RollbackKeeps, RestoredKeeps, ListenedKeeps DEF Panel
  <2> QED BY <1>4, <2>1, <2>2, <2>3, <2>4, <2>5 DEF Go
<1> QED BY <1>1, <1>2, <1>3, <1>4 DEF Next

\* What the lists, the locks and the processes under way agree on, whoever
\* restarts, sets up, unloads or reloads the entry (__init__.py): the inductive
\* invariant that OneService rests on.
THEOREM Inductive == Spec => []IInv
<1>1. Init => IInv
  BY InitKeeps
<1>2. IInv /\ [Next]_vars => IInv'
  BY NextKeeps
<1> QED BY <1>1, <1>2, PTL DEF Spec

\* Whatever is under way, the entry's state, what it has made and where each
\* process goes on are what the code can make them: a call is never more than
\* two deep, and a service is never started a third time.
THEOREM Typed == Spec => []TypeOK
<1>1. IInv => TypeOK
  BY TypesTypeOK DEF IInv
<1> QED BY <1>1, Inductive, PTL

LEMMA OneServiceHolds ==
    ASSUME IInv PROVE OneService
<1> SUFFICES ASSUME ~crossed
             PROVE  Cardinality(Live) <= 1 /\ \A s \in Live : services[s].live = 1 /\ services[s].stack
  BY DEF OneService
<1>1. ASSUME NEW s \in Live
      PROVE  s = runtimes[cur].service /\ services[s].live = 1 /\ services[s].stack
  BY <1>1 DEF Live, IInv, Types, Lists, OneInv, Only
<1>2. Cardinality(Live) <= 1
  <2>1. CASE Live = {}
    BY <2>1, FS_EmptySet
  <2>2. CASE Live # {}
    <3>1. PICK s : Live = {s}
      BY <1>1, <2>2
    <3> QED BY <3>1, FS_Singleton
  <2> QED BY <2>1, <2>2
<1> QED BY <1>1, <1>2

\* As long as no restart crosses a setup or an unload, one service runs at the
\* most, and one start of it, however restarts, saves, reloads and failures of
\* any number of tasks come between each other (__init__.py:141-330).
THEOREM One == Spec => []OneService
<1>1. IInv => OneService
  BY OneServiceHolds
<1> QED BY <1>1, Inductive, PTL

(***************************************************************************)
(* What an entry at rest has                                               *)
(***************************************************************************)
\* What is started beside the service, by how far a setup or an unload is.
EntryParts ==
    /\ entry \in {"off", "failed"} => parts \subseteq {"bridge"}
    /\ entry = "loaded" => parts = Part
    /\ entry = "stuck" => parts = {"bridge"}
PartsAt(p) ==
    /\ pc[p] = "bridge" => parts \subseteq {"bridge"}
    /\ pc[p] \in {"read", "store", "platforms"} => parts = {"bridge"}
    /\ pc[p] = "hub" => parts = Part \ {"hub"}
    /\ pc[p] = "sdone" \/ Inner(p) = "sdone" => parts = Part
    /\ pc[p] = "undone" => "platforms" \notin parts
    /\ pc[p] = "uplatforms" => parts = Part
    /\ pc[p] \in {"ulock", "ustop", "uhub"} => parts = Part \ {"platforms"}
    /\ pc[p] = "ubridge" => parts = {"bridge"}
PartsInv == EntryParts /\ \A p \in Proc : PartsAt(p)

\* The entry's service has the options that are stored, or is about to be made
\* again, or was stopped and is not to be started; or a save is about to put
\* the old options back.
Service == runtimes[cur].service
Like(s) == services[s].with.rest = stored.rest /\ services[s].with.data = stored.data
Undoes(p) == (pc[p] = "changed" /\ result[p] # "ok") \/ pc[p] = "rollback" \/ Outer(p) = "rollback"
Mends(p) == pc[p] \in {"rlock", "rstop", "rmake"} \/ Undoes(p)
Idling == ~services[Service].stack /\ entry # "setup" /\ \A p \in Proc : pc[p] \notin StartAt
WithInv == ~crossed /\ ~unrestored /\ cur # 0 =>
               Like(Service) \/ Idling \/ \E p \in Proc : Mends(p)

\* A reload is under way, or scheduled.
Coming(p) == pc[p] \in {"unload", "uplatforms"} /\ Outer(p) = "reloaded"
Anew == reloading > 0 \/ \E p \in Proc : Coming(p)

\* An entry that is loaded, and not unloaded yet, has a service that runs; or
\* it is being started, was not, or a reload starts one.
Kept == entry = "loaded" \/ \E p \in Proc : pc[p] = "uplatforms"
Redo(p) == pc[p] = "rlock" \/ Restarts(p) \/ (pc[p] \in AfterRestart /\ result[p] # "ok")
Started(p) == pc[p] \in {"rdone", "sdone"} /\ result[p] = "ok"
LiveInv ==
    ~crossed /\ ~refused =>
       /\ Kept => ~Still \/ Anew \/ \E p \in Proc : Redo(p)
       /\ \A p \in Proc : Started(p) => ~Still

\* Its service has what the device file has, from when a setup stores it; or it
\* is about to be handed that, or a reload reads it.  What was read and not
\* handed over yet may be old.
Stored(p) == SetsUp(p) /\ ~Without(p)
Held == Kept \/ \E p \in Proc : Stored(p)
Latest(p) == pc[p] = "fread" \/ (pc[p] = "hand" /\ seen[p] = file)
Handing(p) == Latest(p) \/ (pc[p] = "hand" /\ gen[p] # cur)
Storing(p) ==
    pc[p] = "store" => \/ services[runtimes[gen[p]].service].file = file \/ reloading > 0
                       \/ \E q \in Proc : Latest(q)
FileInv ==
    ~crossed /\ ~refused /\ ~overtaken =>
       /\ Held => services[Service].file = file \/ Anew \/ \E p \in Proc : Handing(p)
       /\ \A p \in Proc : Storing(p)
SeenInv == \A p \in Proc : pc[p] = "hand" => seen[p] <= file

RestInv == WithInv /\ LiveInv /\ FileInv /\ SeenInv
SInv == PartsInv /\ RestInv

LEMMA PartsStep ==
    ASSUME IInv, PartsInv, NEW p \in Proc, Aside(p), EntryParts', PartsAt(p)',
           parts' = parts \/ SetsUp(p) \/ Unloads(p)
    PROVE  PartsInv'
<1>1. ASSUME NEW q \in Proc \ {p} PROVE PartsAt(q)'
  <2>1. CASE parts' = parts
    BY <2>1 DEF PartsInv, PartsAt, Aside
  <2>2. CASE SetsUp(p) \/ Unloads(p)
    <3>1. ~SetsUp(q) /\ ~Unloads(q)
      BY <2>2, InSetup, InUnload DEF IInv, LockInv, Locked
    <3>2. ~SetsUp(q)' /\ ~Unloads(q)'
      BY <3>1 DEF Aside
    <3> QED BY <3>2 DEF PartsAt, SetsUp, Unloads, SetupAt, UnloadAt
  <2> QED BY <2>1, <2>2
<1> QED BY <1>1 DEF PartsInv

\* A step outside of any setup or unload.
LEMMA PartsSame ==
    ASSUME IInv, PartsInv, NEW p \in Proc, Aside(p), entry' = entry, parts' = parts,
           SetsUp(p)' \/ Unloads(p)' => PartsAt(p)'
    PROVE  PartsInv'
<1>1. EntryParts'
  BY DEF PartsInv, EntryParts
<1>2. PartsAt(p)'
  BY DEF PartsAt, SetsUp, Unloads, SetupAt, UnloadAt
<1> QED BY <1>1, <1>2, PartsStep

\* The services are as they were.
Alike ==
    /\ cur' = cur /\ SameOwners /\ SameRuns
    /\ \A s \in 1..Services : services'[s].with = services[s].with /\ services'[s].file = services[s].file

LEMMA AlikeSame ==
    ASSUME runtimes' = runtimes, services' = services, cur' = cur
    PROVE  Alike
BY SameListsSame DEF Alike, SameLists

LEMMA AlikeOf ==
    ASSUME SameOwners, services' = services, cur' = cur
    PROVE  Alike
BY DEF Alike, SameRuns

LEMMA HeldCur ==
    ASSUME IInv, Held PROVE cur # 0
BY DEF Held, Kept, Stored, IInv, LockInv, EntryInv, Stage, Unloads, UnloadAt

\* What a step that does nothing to the services has to see to.
LEMMA Calm ==
    ASSUME IInv, RestInv, NEW p \in Proc, Aside(p), Apart(p), Alike, file' = file,
           entry' = "setup" => entry = "setup", Stored(p)' => Stored(p),
           entry' = "loaded" => Kept \/ (Stored(p) /\ (~crossed /\ ~refused => ~Still)),
           pc'[p] = "uplatforms" => Kept, pc'[p] = "hand" => seen'[p] <= file,
           ~crossed' => ~crossed, ~refused' => ~refused, ~overtaken' => ~overtaken,
           ~crossed' /\ ~unrestored' /\ cur # 0 =>
              /\ ~unrestored
              /\ (stored'.rest = stored.rest /\ stored'.data = stored.data) \/ Mends(p)'
              /\ Mends(p) => Mends(p)'
              /\ pc'[p] \in StartAt => pc[p] \in StartAt \/ entry = "setup",
           ~crossed' /\ ~refused' =>
              /\ Redo(p) => Redo(p)' \/ reloading' > 0 \/ ~Still
              /\ reloading > 0 => \/ reloading' > 0
                                  \/ setupLock = NONE /\ (Coming(p)' \/ entry' # "loaded") /\ pc'[p] # "uplatforms"
              /\ Coming(p) => \/ Coming(p)' \/ reloading' > 0
                              \/ entry' # "loaded" /\ pc'[p] # "uplatforms"
              /\ Started(p)' => ~Still,
           Handing(p) => Latest(p)', pc'[p] # "store"
    PROVE  RestInv'
<1>1. /\ cur' = cur /\ cur \in 0..Runtimes /\ Services' = Services /\ Still' = Still
      /\ cur # 0 => Service' = Service /\ Service \in 1..Services
  <2>1. cur' = cur /\ cur \in 0..Runtimes /\ Services' = Services
    BY DEF Alike, SameOwners, IInv, Types, Lists
  <2>2. Still' = Still
    BY DEF Alike, SameOwners, SameRuns, Still
  <2>3. ASSUME cur # 0 PROVE Service' = Service /\ Service \in 1..Services
    <3>1. cur \in 1..Runtimes
      BY <2>1, <2>3 DEF IInv, Types, Lists
    <3> QED BY <2>1, <3>1, RuntimeIs DEF Alike, SameOwners, Service, IInv, Types
  <2> QED BY <2>1, <2>2, <2>3
<1>2. ASSUME NEW q \in Proc \ {p}
      PROVE  /\ Mends(q)' = Mends(q) /\ (pc'[q] \in StartAt <=> pc[q] \in StartAt)
             /\ Coming(q)' = Coming(q) /\ Redo(q)' = Redo(q) /\ Started(q)' = Started(q)
             /\ Handing(q)' = Handing(q) /\ Latest(q)' = Latest(q) /\ Stored(q)' = Stored(q)
             /\ pc'[q] = pc[q] /\ seen'[q] = seen[q]
  BY <1>1 DEF Aside, Apart, Mends, Undoes, Coming, Redo, Started, Handing, Latest, Stored
<1>3. /\ Kept' => Kept \/ (Stored(p) /\ (~crossed /\ ~refused => ~Still))
      /\ Held' => Held
  BY <1>2 DEF Kept, Held
<1>4. WithInv'
  <2> SUFFICES ASSUME ~crossed', ~unrestored', cur' # 0
               PROVE  Like(Service)' \/ Idling' \/ \E q \in Proc : Mends(q)'
    BY DEF WithInv
  <2>1. CASE Like(Service)
    BY <1>1, <2>1 DEF Like, Alike
  <2>2. CASE Idling
    <3>1. ~services'[Service'].stack
      BY <1>1, <2>2 DEF Idling, Alike, SameRuns
    <3>2. \A q \in Proc : pc'[q] \notin StartAt
      BY <1>1, <1>2, <2>2 DEF Idling
    <3> QED BY <2>2, <3>1, <3>2 DEF Idling
  <2>3. CASE \E q \in Proc : Mends(q)
    BY <1>1, <1>2, <2>3
  <2> QED BY <1>1, <2>1, <2>2, <2>3 DEF RestInv, WithInv
<1>5. ASSUME Anew, ~crossed', ~refused'
      PROVE  Anew' \/ ~Held'
  <2>1. CASE reloading > 0
    <3>1. CASE reloading' > 0 \/ Coming(p)'
      BY <3>1 DEF Anew
    <3>2. CASE setupLock = NONE /\ entry' # "loaded" /\ pc'[p] # "uplatforms"
      <4>1. ASSUME NEW q \in Proc PROVE ~SetsUp(q) /\ ~Unloads(q)
        BY <3>2, EntryAssumption DEF IInv, LockInv, Locked
      <4>2. ASSUME NEW q \in Proc PROVE ~Stored(q)' /\ pc'[q] # "uplatforms"
        BY <1>2, <3>2, <4>1 DEF Stored, Unloads, UnloadAt
      <4> QED BY <3>2, <4>2 DEF Held, Kept
    <3> QED BY <1>5, <2>1, <3>1, <3>2
  <2>2. ASSUME NEW q \in Proc \ {p}, Coming(q) PROVE Anew'
    BY <1>2, <2>2 DEF Anew
  <2>3. CASE Coming(p)
    <3>1. Coming(p)' \/ reloading' > 0 \/ (entry' # "loaded" /\ pc'[p] # "uplatforms")
      BY <1>5, <2>3
    <3>2. setupLock = p /\ ~SetsUp(p)
      <4>1. setupLock = p
        BY <2>3 DEF Coming, Reloads, IInv, LockInv, Locked
      <4>2. Inner(p) = "idle"
        BY <2>3 DEF Coming, IInv, CallsInv, Calls, Placed, UnloadAt
      <4> QED BY <2>3, <4>1, <4>2 DEF Coming, SetsUp, SetupAt
    <3>3. ASSUME NEW q \in Proc \ {p} PROVE pc'[q] # "uplatforms" /\ ~Stored(q)'
      <4>1. ~Unloads(q) /\ ~SetsUp(q)
        BY <3>2 DEF IInv, LockInv, Locked
      <4> QED BY <1>2, <4>1 DEF Unloads, UnloadAt, Stored
    <3> QED BY <3>1, <3>2, <3>3 DEF Anew, Kept, Held, Stored
  <2> QED BY <1>5, <2>1, <2>2, <2>3 DEF Anew
<1>6. LiveInv'
  <2> SUFFICES ASSUME ~crossed', ~refused'
               PROVE  /\ Kept' => ~Still' \/ Anew' \/ \E q \in Proc : Redo(q)'
                      /\ \A q \in Proc : Started(q)' => ~Still'
    BY DEF LiveInv
  <2>1. ASSUME Kept' PROVE ~Still' \/ Anew' \/ \E q \in Proc : Redo(q)'
    <3>1. Kept => ~Still \/ Anew \/ \E q \in Proc : Redo(q)
      BY DEF RestInv, LiveInv
    <3>2. CASE Anew
      BY <1>5, <2>1, <3>2 DEF Held
    <3>3. ASSUME NEW q \in Proc, Redo(q) PROVE ~Still' \/ Anew' \/ Redo(q)'
      BY <1>1, <1>2, <3>3 DEF Anew
    <3> QED BY <1>1, <1>3, <2>1, <3>1, <3>2, <3>3
  <2>2. ASSUME NEW q \in Proc, Started(q)' PROVE ~Still'
    BY <1>1, <1>2, <2>2 DEF RestInv, LiveInv
  <2> QED BY <2>1, <2>2
<1>7. FileInv'
  <2> SUFFICES ASSUME ~crossed', ~refused', ~overtaken'
               PROVE  /\ Held' => services'[Service'].file = file' \/ Anew' \/ \E q \in Proc : Handing(q)'
                      /\ \A q \in Proc : Storing(q)'
    BY DEF FileInv
  <2>1. ASSUME Held'
        PROVE  services'[Service'].file = file' \/ Anew' \/ \E q \in Proc : Handing(q)'
    <3>1. Held
      BY <1>3, <2>1
    <3>2. cur # 0
      BY <3>1, HeldCur
    <3>3. CASE services[Service].file = file
      BY <1>1, <3>2, <3>3 DEF Alike
    <3>4. CASE Anew
      BY <1>5, <2>1, <3>4
    <3>5. ASSUME NEW q \in Proc, Handing(q) PROVE Handing(q)'
      BY <1>2, <3>5 DEF Handing
    <3> QED BY <3>1, <3>3, <3>4, <3>5 DEF RestInv, FileInv
  <2>2. ASSUME NEW q \in Proc, pc'[q] = "store"
        PROVE  \/ services'[runtimes'[gen'[q]].service].file = file' \/ reloading' > 0
               \/ \E r \in Proc : Latest(r)'
    <3>1. q # p /\ pc[q] = "store" /\ gen'[q] = gen[q]
      BY <1>2, <2>2 DEF Apart
    <3>2. gen[q] \in 1..Runtimes /\ runtimes[gen[q]].service \in 1..Services /\ setupLock # NONE
      <4>1. gen[q] \in 1..Runtimes /\ SetsUp(q)
        BY <3>1 DEF IInv, RefersInv, Refers, Types, Points, Lists, SetsUp, SetupAt
      <4> QED BY <4>1, RuntimeIs, InSetup, EntryAssumption DEF IInv, Types
    <3>3. \/ services[runtimes[gen[q]].service].file = file \/ reloading > 0
          \/ \E r \in Proc : Latest(r)
      BY <3>1 DEF RestInv, FileInv, Storing
    <3>4. ASSUME NEW r \in Proc, Latest(r) PROVE Latest(r)'
      BY <1>2, <3>4 DEF Handing
    <3> QED BY <3>1, <3>2, <3>3, <3>4 DEF Alike, SameOwners
  <2> QED BY <2>1, <2>2 DEF Storing
<1>8. SeenInv'
  BY <1>2 DEF RestInv, SeenInv
<1> QED BY <1>4, <1>6, <1>7, <1>8 DEF RestInv

\* A step of the panel, the listener or a reload, between the calls it makes.
LEMMA OuterRests ==
    ASSUME IInv, SInv, NEW p \in Proc,
           pc[p] \in {"idle"} \cup AfterRestart \cup AfterSetup \cup AfterUnload,
           Aside(p), Apart(p), Alike, UNCHANGED <<entry, outside, crossed, overtaken, refused>>,
           Outside(p)', pc'[p] # "hand", unrestored => unrestored',
           ~unrestored' /\ cur # 0 =>
              /\ stored' = stored \/ Mends(p)'
              /\ Mends(p) /\ pc[p] \in {"changed", "rollback"} => Mends(p)',
           pc[p] \in AfterRestart /\ result[p] # "ok" => pc'[p] = "rlock" \/ reloading' > 0,
           reloading > 0 => reloading' > 0 \/ (setupLock = NONE /\ (Coming(p)' \/ entry # "loaded"))
    PROVE  SInv'
<1>1. entry' = entry /\ parts' = parts /\ file' = file
  BY DEF outside
<1>2. /\ Inner(p) = "idle" /\ ~Coming(p) /\ ~Handing(p)
      /\ Mends(p) => pc[p] \in {"changed", "rollback"}
      /\ Redo(p) => pc[p] \in AfterRestart /\ result[p] # "ok"
  <2>1. Inner(p) = "idle" /\ Outer(p) = "idle"
    BY DEF IInv, CallsInv, Calls, Placed
  <2> QED BY <2>1 DEF Mends, Undoes, Coming, Handing, Latest, Redo, Restarts, AfterRestart, AfterSetup, AfterUnload
<1>3. /\ ~SetsUp(p)' /\ ~Unloads(p)' /\ pc'[p] \notin StartAt /\ pc'[p] \notin {"uplatforms", "store"}
      /\ ~Started(p)' /\ ~Stored(p)'
  BY DEF Outside, Stored, SetsUp, Unloads, StartAt, SetupAt, UnloadAt, Started, AfterRestart, AfterSetup, AfterUnload
<1>4. PartsInv'
  BY <1>1, <1>3, PartsSame DEF SInv
<1>5. pc'[p] = "rlock" => Redo(p)'
  BY DEF Redo
<1>6. RestInv'
  <2>1. entry' = "loaded" => Kept
    BY <1>1 DEF Kept
  <2>2. Redo(p) => Redo(p)' \/ reloading' > 0
    BY <1>2, <1>5
  <2>3. ~unrestored' /\ cur # 0 =>
           ~unrestored /\ ((stored'.rest = stored.rest /\ stored'.data = stored.data) \/ Mends(p)')
    OBVIOUS
  <2> QED BY <1>1, <1>2, <1>3, <2>1, <2>2, <2>3, Calm DEF SInv
<1> QED BY <1>4, <1>6 DEF SInv

LEMMA PutOptionsRests ==
    ASSUME IInv, SInv, NEW p \in Proc, PutOptions(p) PROVE SInv'
<1>1. /\ pc[p] = "idle" /\ services' = services /\ cur' = cur /\ seen' = seen
      /\ UNCHANGED <<entry, outside, reloading, history>> /\ Lists
      /\ want' = [want EXCEPT ![p] = [stored EXCEPT !.rest = 1 - @]]
  BY DEF PutOptions, Asks, Fresh, Idle, IInv, Types
<1>2. CASE cur # 0
  <2>1. /\ Call(p, "rlock", "saved") /\ gen' = [gen EXCEPT ![p] = cur] /\ obj' = obj
        /\ runtimes' = [runtimes EXCEPT ![cur].options = want'[p]]
    BY <1>2 DEF PutOptions
  <2>2. Aside(p) /\ Outside(p)' /\ pc'[p] = "rlock" /\ Apart(p)
    <3>1. Apart(p)
      BY <1>1, <2>1 DEF Apart, IInv, Types, Points
    <3> QED BY <1>1, <2>1, <3>1, OuterCall DEF AfterRestart
  <2>3. Alike
    <3>1. want'[p] \in Setting
      <4>1. PICK new \in Setting : new = [stored EXCEPT !.rest = 1 - @]
        BY SettingMade DEF IInv, Types, Plain
      <4> QED BY <1>1, <4>1 DEF IInv, Types, Plain
    <3> QED BY <1>1, <2>1, <3>1, OptionsSame, AlikeOf DEF SameLists
  <2>4. Mends(p)'
    BY <2>2 DEF Mends, Undoes
  <2> QED BY <1>1, <2>2, <2>3, <2>4, OuterRests DEF history, AfterRestart
<1>3. CASE cur = 0
  <2>1. CallUnload(p, "change") /\ gen' = gen /\ obj' = obj /\ runtimes' = runtimes
    BY <1>3 DEF PutOptions
  <2>2. Aside(p) /\ Outside(p)' /\ pc'[p] # "hand" /\ Apart(p)
    BY <1>1, <2>1, OuterUnload DEF AfterUnload, Apart
  <2>3. Alike
    BY <1>1, <2>1, AlikeSame
  <2> QED BY <1>1, <1>3, <2>2, <2>3, OuterRests DEF history, AfterRestart
<1> QED BY <1>2, <1>3

LEMMA PutSettingsRests ==
    ASSUME IInv, SInv, NEW p \in Proc, PutSettings(p) PROVE SInv'
<1>1. /\ pc[p] = "idle" /\ UNCHANGED <<ha, made, outside, gen, obj, seen, history>> /\ CallUnload(p, "change")
  BY DEF PutSettings, Asks, Fresh, Idle
<1>2. Aside(p) /\ Outside(p)' /\ pc'[p] # "hand" /\ Apart(p)
  BY <1>1, OuterUnload DEF AfterUnload, Apart
<1>3. Alike
  BY <1>1, AlikeSame DEF made
<1> QED BY <1>1, <1>2, <1>3, OuterRests DEF history, ha, tasks, AfterRestart

LEMMA SavedRests ==
    ASSUME IInv, SInv, NEW p \in Proc, Saved(p) PROVE SInv'
<1>1. /\ pc[p] = "saved" /\ services' = services /\ cur' = cur /\ UNCHANGED <<entry, outside, reloading, history>>
  BY DEF Saved
<1>2. CASE result[p] = "ok"
  <2>1. runtimes' = runtimes /\ stored' = stored /\ Rest(p)
    BY <1>2 DEF Saved, Answer
  <2>2. Aside(p) /\ Outside(p)' /\ pc'[p] = "idle" /\ Apart(p)
    BY <1>1, <2>1, OuterRest DEF AfterRestart, Runtimes, Services
  <2>3. Alike
    BY <1>1, <2>1, AlikeSame
  <2> QED BY <1>1, <1>2, <2>1, <2>2, <2>3, OuterRests DEF history, AfterRestart
<1>3. CASE result[p] # "ok"
  <2>1. /\ Call(p, "rlock", "unsaved") /\ UNCHANGED locals
        /\ runtimes' = [runtimes EXCEPT ![gen[p]].options = was[p]] /\ was[p] \in Setting
    BY <1>3 DEF Saved, IInv, Types, Plain
  <2>2. Aside(p) /\ Outside(p)' /\ pc'[p] = "rlock" /\ Apart(p)
    BY <1>1, <2>1, OuterCall DEF AfterRestart, Apart, locals
  <2>3. Alike
    BY <1>1, <2>1, OptionsSame, AlikeOf DEF SameLists, IInv, Types
  <2>4. Mends(p)'
    BY <2>2 DEF Mends, Undoes
  <2> QED BY <1>1, <2>2, <2>3, <2>4, OuterRests DEF history, AfterRestart
<1> QED BY <1>2, <1>3

LEMMA UnsavedRests ==
    ASSUME IInv, SInv, NEW p \in Proc, Unsaved(p) PROVE SInv'
<1>1. /\ pc[p] = "unsaved" /\ Rest(p) /\ UNCHANGED <<entry, stored, made, outside, history>>
      /\ reloading \in Nat /\ reloading' = IF result[p] = "ok" THEN reloading ELSE reloading + 1
  BY DEF Unsaved, Answer, IInv, Types, Plain
<1>2. Aside(p) /\ Outside(p)' /\ pc'[p] = "idle" /\ Apart(p)
  BY <1>1, OuterRest DEF AfterRestart, Runtimes, Services, made
<1>3. Alike
  BY <1>1, AlikeSame DEF made
<1>4. (result[p] # "ok" => reloading' > 0) /\ (reloading > 0 => reloading' > 0)
  BY <1>1
<1> QED BY <1>1, <1>2, <1>3, <1>4, OuterRests DEF history, AfterRestart

LEMMA ListenedRests ==
    ASSUME IInv, SInv, NEW p \in Proc, Listened(p) PROVE SInv'
<1>1. /\ pc[p] = "listened" /\ Rest(p) /\ UNCHANGED <<entry, stored, made, outside, history>>
      /\ reloading \in Nat /\ reloading' = IF result[p] = "ok" THEN reloading ELSE reloading + 1
  BY DEF Listened, IInv, Types, Plain
<1>2. Aside(p) /\ Outside(p)' /\ pc'[p] = "idle" /\ Apart(p)
  BY <1>1, OuterRest DEF AfterRestart, Runtimes, Services, made
<1>3. Alike
  BY <1>1, AlikeSame DEF made
<1>4. (result[p] # "ok" => reloading' > 0) /\ (reloading > 0 => reloading' > 0)
  BY <1>1
<1> QED BY <1>1, <1>2, <1>3, <1>4, OuterRests DEF history, AfterRestart

LEMMA ChangeRests ==
    ASSUME IInv, SInv, NEW p \in Proc, Change(p) PROVE SInv'
<1>1. pc[p] = "change" /\ CallSetup(p, "changed") /\ UNCHANGED <<entry, made, outside, reloading, locals, history>>
  BY DEF Change
<1>2. Alike
  BY <1>1, AlikeSame DEF made
<1>3. Aside(p) /\ Outside(p)' /\ pc'[p] # "hand" /\ Apart(p)
  BY <1>1, OuterSetup DEF AfterSetup, AfterUnload, Apart, locals
<1>4. ~unrestored' /\ cur # 0 => Mends(p)'
  <2>1. CASE entry = "off"
    BY <1>1, <2>1 DEF IInv, LockInv, EntryInv, Bare, history
  <2>2. CASE entry # "off"
    <3>1. pc'[p] = "changed" /\ result'[p] = "raised"
      BY <1>1, <2>2, OuterSetup DEF AfterSetup, AfterUnload
    <3> QED BY <3>1 DEF Mends, Undoes
  <2> QED BY <2>1, <2>2
<1> QED BY <1>1, <1>2, <1>3, <1>4, OuterRests DEF history, AfterRestart, AfterUnload

LEMMA ChangeFailsRests ==
    ASSUME IInv, SInv, NEW p \in Proc, ChangeFails(p) PROVE SInv'
<1>1. pc[p] = "change" /\ CallUnload(p, "rollback") /\ UNCHANGED <<ha, made, outside, locals, history>>
  BY DEF ChangeFails
<1>2. Alike
  BY <1>1, AlikeSame DEF made
<1>3. Aside(p) /\ Outside(p)' /\ pc'[p] # "hand" /\ Apart(p)
  BY <1>1, OuterUnload DEF AfterUnload, Apart, locals
<1> QED BY <1>1, <1>2, <1>3, OuterRests DEF history, AfterRestart, AfterUnload, ha, tasks

LEMMA UnchangedRests ==
    ASSUME IInv, SInv, NEW p \in Proc, Unchanged(p) PROVE SInv'
<1>1. pc[p] = "change" /\ Rest(p) /\ UNCHANGED <<ha, made, outside, history>>
  BY DEF Unchanged, Answer
<1>2. Alike
  BY <1>1, AlikeSame DEF made
<1>3. Aside(p) /\ Outside(p)' /\ pc'[p] # "hand" /\ Apart(p)
  BY <1>1, OuterRest DEF AfterUnload, Runtimes, Services, made
<1> QED BY <1>1, <1>2, <1>3, OuterRests DEF history, AfterRestart, AfterUnload, ha, tasks

\* Put back, the old options are those in use or the entry was not stopped.
LEMMA RollbackRests ==
    ASSUME IInv, SInv, NEW p \in Proc, Rollback(p) PROVE SInv'
<1>1. /\ pc[p] = "rollback" /\ unrestored' = (unrestored \/ entry # "off")
      /\ UNCHANGED <<entry, made, outside, reloading, crossed, overtaken, refused>>
  BY DEF Rollback
<1>2. Alike
  BY <1>1, AlikeSame DEF made
<1>3. Aside(p) /\ Outside(p)' /\ pc'[p] # "hand" /\ Apart(p)
  <2>1. CASE result[p] = "raised"
    <3>1. Rest(p)
      BY <2>1 DEF Rollback, Answer
    <3> QED BY <1>1, <3>1, OuterRest DEF AfterUnload, Runtimes, Services, made
  <2>2. CASE result[p] # "raised"
    <3>1. CallSetup(p, "restored") /\ UNCHANGED locals
      BY <2>2 DEF Rollback
    <3> QED BY <1>1, <3>1, OuterSetup DEF AfterSetup, AfterUnload, Apart, locals
  <2> QED BY <2>1, <2>2
<1>4. unrestored' \/ cur = 0
  BY <1>1 DEF IInv, LockInv, EntryInv, Bare
<1> QED BY <1>1, <1>2, <1>3, <1>4, OuterRests DEF history, AfterRestart, AfterUnload

LEMMA ChangedRests ==
    ASSUME IInv, SInv, NEW p \in Proc, Changed(p) PROVE SInv'
<1>1. pc[p] = "changed" /\ UNCHANGED <<ha, made, outside, history>>
  BY DEF Changed
<1>2. Alike
  BY <1>1, AlikeSame DEF made
<1>3. Aside(p) /\ Outside(p)' /\ pc'[p] # "hand" /\ Apart(p) /\ (Mends(p) => Mends(p)')
  <2>1. CASE result[p] = "ok"
    <3>1. Rest(p)
      BY <2>1 DEF Changed, Answer
    <3>2. ~Mends(p)
      BY <1>1, <2>1 DEF Mends, Undoes, IInv, CallsInv, Calls, Placed, AfterSetup
    <3> QED BY <1>1, <3>1, <3>2, OuterRest DEF AfterSetup, Runtimes, Services, made
  <2>2. CASE result[p] # "ok"
    <3>1. CallUnload(p, "rollback") /\ UNCHANGED locals
      BY <2>2 DEF Changed
    <3>2. Aside(p) /\ Outside(p)' /\ pc'[p] # "hand" /\ "rollback" \in {pc'[p], Outer(p)'}
      BY <1>1, <3>1, OuterUnload DEF AfterSetup, AfterUnload
    <3> QED BY <3>1, <3>2 DEF Mends, Undoes, Apart, locals
  <2> QED BY <2>1, <2>2
<1> QED BY <1>1, <1>2, <1>3, OuterRests DEF history, AfterRestart, AfterSetup, ha, tasks

LEMMA RestoredRests ==
    ASSUME IInv, SInv, NEW p \in Proc, Restored(p) PROVE SInv'
<1>1. pc[p] = "restored" /\ Rest(p) /\ UNCHANGED <<ha, made, outside, history>>
  BY DEF Restored, Answer
<1>2. Alike
  BY <1>1, AlikeSame DEF made
<1>3. Aside(p) /\ Outside(p)' /\ pc'[p] = "idle" /\ Apart(p)
  BY <1>1, OuterRest DEF AfterSetup, Runtimes, Services, made
<1> QED BY <1>1, <1>2, <1>3, OuterRests DEF history, AfterRestart, AfterSetup, ha, tasks

LEMMA ListenRests ==
    ASSUME IInv, SInv, NEW p \in Proc, Listen(p) PROVE SInv'
<1>1. /\ pc[p] = "idle" /\ UNCHANGED <<entry, stored, cur, services, outside, reloading, obj, seen, history>>
  BY DEF Listen, Fresh, Idle
<1>2. CASE cur # 0 /\ WithoutPanel(runtimes[cur].options) # WithoutPanel(stored)
  <2>1. Call(p, "rlock", "listened") /\ gen' = [gen EXCEPT ![p] = cur] /\ runtimes' = runtimes
    BY <1>2 DEF Listen
  <2>2. Aside(p) /\ Outside(p)' /\ pc'[p] = "rlock" /\ Apart(p)
    <3>1. Apart(p)
      BY <1>1, <2>1 DEF Apart, IInv, Types, Points
    <3> QED BY <1>1, <2>1, <3>1, OuterCall DEF AfterRestart
  <2>3. Alike
    BY <1>1, <2>1, AlikeSame
  <2> QED BY <1>1, <2>2, <2>3, OuterRests DEF history, AfterRestart
<1>3. CASE ~(cur # 0 /\ WithoutPanel(runtimes[cur].options) # WithoutPanel(stored))
  <2>1. /\ UNCHANGED <<control, gen>>
        /\ runtimes' = [g \in DOMAIN runtimes |->
                           IF g = cur THEN [runtimes[g] EXCEPT !.options = stored] ELSE runtimes[g]]
    BY <1>3 DEF Listen
  <2>2. runtimes' = [runtimes EXCEPT ![cur].options = stored]
    BY <2>1 DEF IInv, Types, Lists
  <2>3. Alike
    BY <1>1, <2>2, OptionsSame, AlikeOf DEF SameLists, IInv, Types, Plain
  <2>4. Aside(p) /\ Outside(p)' /\ pc'[p] = "idle" /\ Apart(p)
    BY <1>1, <2>1, OuterIdle DEF Apart
  <2> QED BY <1>1, <2>3, <2>4, OuterRests DEF history, AfterRestart
<1> QED BY <1>2, <1>3

LEMMA ReloadRests ==
    ASSUME IInv, SInv, NEW p \in Proc, Reload(p) PROVE SInv'
<1>1. /\ pc[p] = "idle" /\ CallUnload(p, "reloaded") /\ setupLock = NONE
      /\ UNCHANGED <<entry, stored, made, outside, locals, history>>
  BY DEF Reload, Fresh, Idle
<1>2. /\ Aside(p) /\ Outside(p)' /\ pc'[p] # "hand" /\ Apart(p)
      /\ Coming(p)' \/ entry # "loaded"
  <2>1. Aside(p) /\ Outside(p)' /\ pc'[p] # "hand" /\ Apart(p)
    BY <1>1, OuterUnload DEF AfterUnload, Apart, locals
  <2>2. (pc'[p] = "unload" /\ Outer(p)' = "reloaded") \/ entry # "loaded"
    BY <1>1, OuterUnload DEF AfterUnload
  <2> QED BY <2>1, <2>2 DEF Coming
<1>3. Alike
  BY <1>1, AlikeSame DEF made
<1> QED BY <1>1, <1>2, <1>3, OuterRests DEF history, AfterRestart

LEMMA ReloadedRests ==
    ASSUME IInv, SInv, NEW p \in Proc, Reloaded(p) PROVE SInv'
<1>1. pc[p] = "reloaded" /\ UNCHANGED <<ha, made, outside, history>>
  BY DEF Reloaded
<1>2. Alike
  BY <1>1, AlikeSame DEF made
<1>3. Aside(p) /\ Outside(p)' /\ pc'[p] # "hand" /\ Apart(p)
  <2>1. CASE Rest(p)
    BY <1>1, <2>1, OuterRest DEF AfterUnload, Runtimes, Services, made
  <2>2. CASE Call(p, "setup", "end") /\ UNCHANGED locals
    BY <1>1, <2>2, OuterCall DEF AfterSetup, AfterUnload, Apart, locals
  <2> QED BY <2>1, <2>2 DEF Reloaded
<1> QED BY <1>1, <1>2, <1>3, OuterRests DEF history, AfterRestart, AfterUnload, ha, tasks

LEMMA ReloadEndRests ==
    ASSUME IInv, SInv, NEW p \in Proc, ReloadEnd(p) PROVE SInv'
<1>1. pc[p] = "end" /\ Rest(p) /\ UNCHANGED <<ha, made, outside, history>>
  BY DEF ReloadEnd
<1>2. Alike
  BY <1>1, AlikeSame DEF made
<1>3. Aside(p) /\ Outside(p)' /\ pc'[p] = "idle" /\ Apart(p)
  BY <1>1, OuterRest DEF AfterSetup, Runtimes, Services, made
<1> QED BY <1>1, <1>2, <1>3, OuterRests DEF history, AfterRestart, AfterSetup, ha, tasks

LEMMA CheckRests ==
    ASSUME IInv, SInv, NEW p \in Proc, Check(p) PROVE SInv'
<1>1. /\ pc[p] = "check" /\ pc[p] \in StartAt
      /\ UNCHANGED <<ha, made, outside, locks, locals, history>>
      /\ \/ Inner(p) = "rdone" /\ Outer(p) \in AfterRestart
         \/ Inner(p) = "sdone" /\ Outer(p) \in AfterSetup
  BY Starts DEF Check, StartAt
<1>2. /\ Aside(p) /\ Outer(p)' = Outer(p)
      /\ \/ pc'[p] = "run" /\ Inner(p)' = Inner(p)
         \/ pc'[p] = Inner(p) /\ Inner(p)' = "idle" /\ result'[p] = "raised"
  <2>1. CASE Goto(p, "run")
    <3>1. Placed("run", Outer(p), Inner(p)) /\ "run" \in Label
      BY <1>1 DEF Placed, Label, RestartAt, SetupAt, UnloadAt, StartAt, AfterRestart, AfterSetup, AfterUnload
    <3> QED BY <2>1, <3>1, GotoStep
  <2>2. CASE Return(p, "raised")
    BY <1>1, <2>2, StartReturn
  <2> QED BY <2>1, <2>2 DEF Check
<1>3. Alike /\ Apart(p)
  BY <1>1, AlikeSame DEF made, Apart, locals
<1>4. /\ UNCHANGED <<entry, stored, reloading, parts, file, cur, crossed, overtaken, refused, unrestored, setupLock>>
  BY <1>1 DEF ha, tasks, made, outside, locks, history
<1>5. PartsInv'
  <2>1. PartsAt(p)'
    BY <1>1, <1>2, <1>4 DEF SInv, PartsInv, PartsAt
  <2> QED BY <1>2, <1>4, <2>1, PartsSame DEF SInv
<1>6. /\ ~Mends(p) /\ ~Coming(p) /\ ~Handing(p) /\ ~Started(p)' /\ (Redo(p) => Redo(p)') /\ pc'[p] # "store"
      /\ pc'[p] \notin {"uplatforms", "hand"} /\ (Stored(p)' => Stored(p))
  BY <1>1, <1>2 DEF Mends, Undoes, Coming, Handing, Latest, Started, Redo, Restarts, Stored, SetsUp, Without, SetupAt,
     AfterRestart, AfterSetup
<1>7. entry' = "loaded" => Kept
  BY <1>4 DEF Kept
<1>8. RestInv'
  BY <1>1, <1>2, <1>3, <1>4, <1>6, <1>7, Calm DEF SInv
<1> QED BY <1>5, <1>8 DEF SInv

LEMMA RestartLockRests ==
    ASSUME IInv, SInv, NEW p \in Proc, RestartLock(p) PROVE SInv'
<1>1. /\ pc[p] = "rlock" /\ gen[p] \in 1..Runtimes /\ Outer(p) \in AfterRestart /\ Inner(p) = "idle"
      /\ Goto(p, "rstop") /\ runtimes' = [runtimes EXCEPT ![gen[p]].lock = p]
      /\ (~crossed' => ~crossed)
      /\ UNCHANGED <<ha, cur, services, outside, locks, locals, overtaken, refused, unrestored, spent>>
  BY Restarting DEF RestartLock, RestartAt
<1>2. /\ Aside(p) /\ pc'[p] = "rstop" /\ Inner(p)' = "idle"
  <2>1. Placed("rstop", Outer(p), Inner(p)) /\ "rstop" \in Label
    BY <1>1 DEF Placed, Label, RestartAt, SetupAt, UnloadAt, StartAt, AfterRestart, AfterSetup, AfterUnload
  <2> QED BY <1>1, <2>1, GotoStep
<1>3. Alike /\ Apart(p)
  <2>1. /\ runtimes' \in [1..Runtimes -> RuntimeT(Services)]
        /\ \A k \in 1..Runtimes : runtimes'[k].service = runtimes[k].service
    BY <1>1, LockView DEF IInv, Types
  <2>2. Runtimes' = Runtimes /\ Services' = Services
    BY <1>1, <2>1, ListsTo DEF IInv, Types, Lists
  <2>3. SameOwners
    BY <1>1, <2>1, <2>2 DEF SameOwners
  <2> QED BY <1>1, <2>3, AlikeOf DEF Apart, locals
<1>4. /\ UNCHANGED <<entry, stored, reloading, parts, file, cur, overtaken, refused, unrestored, setupLock>>
  BY <1>1 DEF ha, tasks, outside, locks
<1>5. PartsInv'
  <2>1. ~SetsUp(p)' /\ ~Unloads(p)'
    BY <1>2 DEF SetsUp, Unloads, SetupAt, UnloadAt
  <2> QED BY <1>2, <1>4, <2>1, PartsSame DEF SInv
<1>6. /\ Mends(p)' /\ ~Coming(p) /\ ~Handing(p) /\ ~Started(p)' /\ Redo(p)' /\ pc'[p] \notin StartAt
      /\ ~Stored(p)'
  BY <1>1, <1>2 DEF Mends, Undoes, Coming, Handing, Latest, Started, Redo, Restarts, StartAt, Stored, SetsUp, SetupAt
<1>7. entry' = "loaded" => Kept
  BY <1>4 DEF Kept
<1>8. RestInv'
  BY <1>1, <1>2, <1>3, <1>4, <1>6, <1>7, Calm DEF SInv
<1> QED BY <1>5, <1>8 DEF SInv

LEMMA RestartDoneRests ==
    ASSUME IInv, SInv, NEW p \in Proc, RestartDone(p) PROVE SInv'
<1>1. /\ pc[p] = "rdone" /\ gen[p] \in 1..Runtimes /\ Outer(p) \in AfterRestart /\ Inner(p) = "idle"
      /\ Return(p, result[p]) /\ result[p] \in {"ok", "no", "raised"}
      /\ runtimes' = [runtimes EXCEPT ![gen[p]].lock = NONE]
      /\ UNCHANGED <<ha, cur, services, outside, locks, locals, history, spent>>
  BY Restarting DEF RestartDone, RestartAt, IInv, Types, Control
<1>2. /\ Aside(p) /\ pc'[p] = Outer(p) /\ Inner(p)' = "idle" /\ result'[p] = result[p]
  BY <1>1, CallReturn DEF RestartAt
<1>3. Alike /\ Apart(p)
  <2>1. /\ runtimes' \in [1..Runtimes -> RuntimeT(Services)]
        /\ \A k \in 1..Runtimes : runtimes'[k].service = runtimes[k].service
    BY <1>1, LockView DEF IInv, Types
  <2>2. Runtimes' = Runtimes /\ Services' = Services
    BY <1>1, <2>1, ListsTo DEF IInv, Types, Lists
  <2>3. SameOwners
    BY <1>1, <2>1, <2>2 DEF SameOwners
  <2> QED BY <1>1, <2>3, AlikeOf DEF Apart, locals
<1>4. /\ UNCHANGED <<entry, stored, reloading, parts, file, cur, crossed, overtaken, refused, unrestored, setupLock>>
  BY <1>1 DEF ha, tasks, outside, locks, history
<1>5. PartsInv'
  <2>1. ~SetsUp(p)' /\ ~Unloads(p)'
    BY <1>1, <1>2 DEF SetsUp, Unloads, SetupAt, UnloadAt, AfterRestart
  <2> QED BY <1>2, <1>4, <2>1, PartsSame DEF SInv
<1>6. /\ ~Mends(p) /\ ~Coming(p) /\ ~Handing(p) /\ ~Started(p)' /\ pc'[p] \notin StartAt
      /\ pc'[p] \notin {"store", "uplatforms", "hand"} /\ ~Stored(p)'
  BY <1>1, <1>2 DEF Mends, Undoes, Coming, Handing, Latest, Started, StartAt, Stored, SetsUp, SetupAt, AfterRestart
<1>7. ~crossed /\ ~refused => Redo(p)' \/ ~Still
  <2>1. CASE result[p] = "ok"
    <3>1. Started(p)
      BY <1>1, <2>1 DEF Started
    <3> QED BY <3>1 DEF SInv, RestInv, LiveInv
  <2>2. CASE result[p] # "ok"
    BY <1>1, <1>2, <2>2 DEF Redo
  <2> QED BY <2>1, <2>2
<1>8. entry' = "loaded" => Kept
  BY <1>4 DEF Kept
<1>9. RestInv'
  BY <1>1, <1>2, <1>3, <1>4, <1>6, <1>7, <1>8, Calm DEF SInv
<1> QED BY <1>5, <1>9 DEF SInv

\* A step of a setup or an unload that leaves the services alone.
LEMMA StageRests ==
    ASSUME IInv, SInv, PartsInv', NEW p \in Proc, pc[p] \in SetupAt \cup UnloadAt, Aside(p), Apart(p), Alike,
           UNCHANGED <<file, stored, tasks, crossed, overtaken, unrestored>>, ~refused' => ~refused,
           entry' = "setup" => entry = "setup",
           entry' = "loaded" => Kept \/ (Stored(p) /\ (~crossed /\ ~refused => ~Still)),
           Stored(p) \/ (Inner(p)' = "idle" /\ pc'[p] \in {"read", "undone"} \cup UnloadAt \cup AfterSetup \cup AfterUnload),
           SetsUp(p) \/ Outer(p)' = Outer(p) \/ pc'[p] = Outer(p),
           pc'[p] \in (SetupAt \cup UnloadAt \cup StartAt \cup AfterSetup \cup AfterUnload)
                         \ {"store", "sdone", "uplatforms"},
           pc'[p] \in StartAt => entry = "setup",
           Coming(p) /\ ~refused' => entry' \notin {"loaded", "setup"}
    PROVE  SInv'
<1>1. /\ UNCHANGED <<file, stored, reloading, crossed, overtaken, unrestored>> /\ Inner(p) = "idle"
      /\ SetsUp(p) => Outer(p) \in AfterSetup
  BY InSetup, InUnload DEF tasks, SetsUp, Unloads
<1>2. ~Redo(p) /\ ~Handing(p) /\ (Mends(p) => Outer(p) = "rollback")
  BY <1>1 DEF Mends, Undoes, Redo, Restarts, Handing, Latest, SetupAt, UnloadAt, AfterRestart
<1>3. ~Started(p)' /\ pc'[p] \notin {"store", "uplatforms", "hand"}
  BY DEF Started, SetupAt, UnloadAt, StartAt, AfterSetup, AfterUnload
<1>4. Mends(p) => Mends(p)'
  BY <1>1, <1>2 DEF Mends, Undoes, AfterSetup
<1>5. Stored(p)' => Stored(p)
  BY DEF Stored, SetsUp, Without, SetupAt, UnloadAt, AfterSetup, AfterUnload
<1>6. RestInv'
  BY <1>1, <1>2, <1>3, <1>4, <1>5, Calm DEF SInv
<1> QED BY <1>6 DEF SInv

LEMMA SetupBeginRests ==
    ASSUME IInv, SInv, NEW p \in Proc, SetupBegin(p) PROVE SInv'
<1>1. /\ pc[p] = "setup" /\ Outer(p) \in AfterSetup /\ Inner(p) = "idle" /\ SetupLocked(p)
      /\ UNCHANGED <<stored, made, outside, settingsLock, tasks, locals, crossed, overtaken, spent>>
  BY DEF SetupBegin, IInv, CallsInv, Calls, Placed
<1>2. /\ UNCHANGED <<parts, file, cur, stored, reloading>> /\ Apart(p) /\ Alike
  BY <1>1, AlikeSame DEF outside, made, tasks, Apart, locals
<1>3. CASE entry = "loaded" /\ Return(p, "raised") /\ UNCHANGED <<entry, setupLock, refused, unrestored>>
  <2>1. Aside(p) /\ Inner(p)' = "idle" /\ pc'[p] = Outer(p)
    BY <1>1, <1>3, CallReturn
  <2>2. /\ ~SetsUp(p)' /\ ~Unloads(p)' /\ ~Stored(p)' /\ ~Started(p)'
        /\ pc'[p] \notin StartAt \cup {"store", "uplatforms", "hand"}
    BY <1>1, <2>1 DEF SetsUp, Unloads, Stored, Started, SetupAt, UnloadAt, StartAt, AfterSetup
  <2>3. PartsInv'
    BY <1>2, <1>3, <2>1, <2>2, PartsSame DEF SInv
  <2>4. Kept /\ ~Mends(p) /\ ~Redo(p) /\ ~Coming(p) /\ ~Handing(p)
    BY <1>1, <1>3 DEF Kept, Mends, Undoes, Redo, Restarts, Coming, Handing, Latest, AfterRestart, AfterSetup
  <2>5. RestInv'
    BY <1>1, <1>2, <1>3, <2>1, <2>2, <2>4, Calm DEF SInv
  <2> QED BY <2>3, <2>5 DEF SInv
<1>4. CASE /\ entry # "loaded" /\ setupLock' = p /\ entry' = "setup" /\ Goto(p, "bridge")
           /\ unrestored' = (cur # 0)
  <2>1. Aside(p) /\ pc'[p] = "bridge" /\ Inner(p)' = "idle"
    <3>1. Placed("bridge", Outer(p), Inner(p)) /\ "bridge" \in Label
      BY <1>1 DEF Placed, Label, RestartAt, SetupAt, UnloadAt, StartAt, AfterRestart, AfterSetup, AfterUnload
    <3> QED BY <1>1, <1>4, <3>1, GotoStep
  <2>2. entry \in {"off", "failed", "stuck"}
    <3>1. ~SetsUp(p) /\ ~Unloads(p)
      BY <1>1 DEF SetsUp, Unloads, SetupAt, UnloadAt
    <3> QED BY <1>1, <1>4, <3>1 DEF SetupLocked, IInv, Types, Plain, LockInv, EntryInv
  <2>3. ASSUME NEW q \in Proc
        PROVE  /\ ~SetsUp(q) /\ ~Unloads(q) /\ (~crossed => ~Restarts(q))
               /\ pc'[q] # "uplatforms" /\ pc'[q] # "store" /\ ~Unloads(q)'
               /\ q # p => ~SetsUp(q)'
               /\ ~crossed => pc'[q] # "rdone"
               /\ pc'[q] # "sdone"
    <3>1. ~SetsUp(q) /\ ~Unloads(q) /\ (~crossed => ~Restarts(q))
      BY <2>2 DEF IInv, OneInv, Mine, Leaving, LockInv, Stage
    <3>2. CASE q = p
      BY <2>1, <3>1, <3>2 DEF Unloads, UnloadAt
    <3>3. CASE q # p
      BY <2>1, <3>1, <3>3 DEF Aside, SetsUp, Unloads, Restarts, SetupAt, UnloadAt
    <3> QED BY <3>1, <3>2, <3>3
  <2>4. PartsInv'
    <3>1. PartsAt(p)'
      BY <1>2, <2>1, <2>2 DEF SInv, PartsInv, EntryParts, PartsAt
    <3>2. EntryParts'
      BY <1>4 DEF EntryParts
    <3> QED BY <1>2, <2>1, <3>1, <3>2, PartsStep DEF SInv
  <2>5. ~Held'
    BY <1>4, <2>1, <2>3 DEF Held, Kept, Stored, Without
  <2>6. ~crossed' => \A q \in Proc : ~Started(q)' /\ Storing(q)'
    BY <1>1, <2>3 DEF Started, Storing
  <2>7. SeenInv'
    BY <1>2, <2>1 DEF SInv, RestInv, SeenInv, Aside, Apart
  <2>8. RestInv'
    BY <1>2, <1>4, <2>5, <2>6, <2>7 DEF RestInv, WithInv, LiveInv, FileInv, Held
  <2> QED BY <2>4, <2>8 DEF SInv
<1> QED BY <1>3, <1>4 DEF SetupBegin

LEMMA SetupBridgeRests ==
    ASSUME IInv, SInv, NEW p \in Proc, SetupBridge(p) PROVE SInv'
<1>1. /\ pc[p] = "bridge" /\ pc[p] \in SetupAt /\ SetsUp(p) /\ entry = "setup" /\ setupLock = p /\ Bare
      /\ UNCHANGED <<stored, made, file, settingsLock, tasks, locals, history>>
  BY InSetup DEF SetupBridge, SetupAt, SetsUp, Without, IInv, LockInv, Stage
<1>2. /\ Alike /\ Apart(p) /\ ~Coming(p) /\ UNCHANGED <<cur, crossed, overtaken, refused, unrestored>>
      /\ parts \subseteq {"bridge"} /\ Bare'
  BY <1>1, AlikeSame DEF made, Apart, locals, Coming, Bare, history, SInv, PartsInv, PartsAt
<1>3. CASE parts' = parts \cup {"bridge"} /\ Goto(p, "read") /\ entry' = entry
  <2>1. Aside(p) /\ pc'[p] = "read" /\ Inner(p)' = "idle"
    BY <1>1, <1>3, SetupGoto DEF SetupAt
  <2>2. PartsInv'
    <3>1. PartsAt(p)'
      BY <1>2, <1>3, <2>1 DEF PartsAt
    <3>2. EntryParts'
      BY <1>1, <1>3 DEF EntryParts
    <3> QED BY <1>1, <2>1, <3>1, <3>2, PartsStep DEF SInv
  <2> QED BY <1>1, <1>2, <1>3, <2>1, <2>2, StageRests DEF SetupAt, StartAt
<1>4. CASE Failed(p) /\ parts' \subseteq {"bridge"}
  <2>1. Aside(p) /\ pc'[p] = Outer(p) /\ Outer(p) \in AfterSetup /\ Inner(p)' = "idle" /\ entry' = "failed"
    BY <1>1, <1>2, <1>4, SetupReturn DEF Failed
  <2>2. PartsInv'
    <3>1. PartsAt(p)'
      BY <2>1 DEF PartsAt, AfterSetup
    <3>2. EntryParts'
      BY <1>4, <2>1 DEF EntryParts
    <3> QED BY <1>1, <2>1, <3>1, <3>2, PartsStep DEF SInv
  <2> QED BY <1>1, <1>2, <2>1, <2>2, StageRests DEF AfterSetup, StartAt
<1> QED BY <1>2, <1>3, <1>4 DEF SetupBridge

LEMMA SetupPlatformsRests ==
    ASSUME IInv, SInv, NEW p \in Proc, SetupPlatforms(p) PROVE SInv'
<1>1. /\ pc[p] = "platforms" /\ pc[p] \in SetupAt /\ SetsUp(p) /\ entry = "setup" /\ Stored(p)
      /\ UNCHANGED <<ha, made, file, locks, locals, history>>
  BY InSetup DEF SetupPlatforms, SetupAt, SetsUp, Stored, Without
<1>2. Alike /\ Apart(p) /\ ~Coming(p) /\ UNCHANGED <<entry, stored, tasks, crossed, overtaken, refused, unrestored>>
  BY <1>1, AlikeSame DEF ha, made, Apart, locals, Coming, history
<1>3. \/ Goto(p, "hub") /\ parts' = parts \cup {"retained", "platforms"}
      \/ Goto(p, "undo")
  BY DEF SetupPlatforms
<1>4. /\ Aside(p) /\ Inner(p)' = "idle"
      /\ \/ pc'[p] = "hub" /\ parts' = parts \cup {"retained", "platforms"}
         \/ pc'[p] = "undo"
  BY <1>1, <1>3, SetupGoto DEF SetupAt
<1>5. PartsInv'
  <2>1. PartsAt(p)'
    <3>1. parts = {"bridge"}
      BY <1>1 DEF SInv, PartsInv, PartsAt
    <3> QED BY <1>4, <3>1 DEF PartsAt, Part
  <2>2. EntryParts'
    BY <1>1, <1>2 DEF EntryParts
  <2> QED BY <1>1, <1>4, <2>1, <2>2, PartsStep DEF SInv
<1> QED BY <1>1, <1>2, <1>4, <1>5, StageRests DEF SetupAt, StartAt

LEMMA SetupHubRests ==
    ASSUME IInv, SInv, NEW p \in Proc, SetupHub(p) PROVE SInv'
<1>1. /\ pc[p] = "hub" /\ pc[p] \in SetupAt /\ SetsUp(p) /\ entry = "setup" /\ Stored(p)
      /\ Outer(p) \in AfterSetup /\ Inner(p) = "idle"
      /\ UNCHANGED <<ha, made, file, locks, gen, was, want, seen, history>>
  BY InSetup DEF SetupHub, SetupAt, SetsUp, Stored, Without
<1>2. /\ Alike /\ ~Coming(p) /\ UNCHANGED <<entry, stored, tasks, crossed, overtaken, refused, unrestored>>
      /\ parts = Part \ {"hub"}
  BY <1>1, AlikeSame DEF ha, made, Coming, history, SInv, PartsInv, PartsAt
<1>3. Apart(p)
  BY <1>1 DEF SetupHub, Apart, IInv, Types, Points
<1>4. CASE Call(p, "check", "sdone") /\ parts' = parts \cup {"hub"}
  <2>1. Aside(p) /\ pc'[p] = "check" /\ Inner(p)' = "sdone"
    BY <1>1, <1>4, CallInAt, OthersAt DEF IInv, Types, Label, AfterSetup
  <2>2. PartsInv'
    <3>1. PartsAt(p)'
      BY <1>2, <1>4, <2>1 DEF PartsAt, Part
    <3>2. EntryParts'
      BY <1>1, <1>2 DEF EntryParts
    <3> QED BY <1>1, <2>1, <3>1, <3>2, PartsStep DEF SInv
  <2> QED BY <1>1, <1>2, <1>3, <2>1, <2>2, StageRests DEF StartAt
<1>5. CASE Goto(p, "undo") /\ parts' = parts
  <2>1. Aside(p) /\ pc'[p] = "undo" /\ Inner(p)' = "idle"
    BY <1>1, <1>5, SetupGoto DEF SetupAt
  <2>2. PartsInv'
    <3>1. PartsAt(p)'
      BY <2>1 DEF PartsAt
    <3> QED BY <1>2, <1>5, <2>1, <3>1, PartsSame DEF SInv
  <2> QED BY <1>1, <1>2, <1>3, <2>1, <2>2, StageRests DEF SetupAt, StartAt
<1> QED BY <1>4, <1>5 DEF SetupHub

LEMMA SetupDoneRests ==
    ASSUME IInv, SInv, NEW p \in Proc, SetupDone(p) PROVE SInv'
<1>1. /\ pc[p] = "sdone" /\ pc[p] \in SetupAt /\ SetsUp(p) /\ cur # 0 /\ entry = "setup" /\ parts = Part
      /\ Stored(p) /\ UNCHANGED <<stored, made, outside, settingsLock, tasks, locals, history, spent>>
  BY InSetup DEF SetupDone, SetupAt, SetsUp, Stored, Without, IInv, LockInv, Stage, SInv, PartsInv, PartsAt
<1>2. Alike /\ Apart(p) /\ ~Coming(p) /\ UNCHANGED <<parts, file, cur, crossed, overtaken, refused, unrestored>>
  BY <1>1, AlikeSame DEF made, outside, Apart, locals, Coming, history
<1>3. CASE result[p] = "ok"
  <2>1. entry' = "loaded" /\ SetupUnlock(p) /\ Return(p, "ok")
    BY <1>3 DEF SetupDone
  <2>2. Aside(p) /\ pc'[p] = Outer(p) /\ Outer(p) \in AfterSetup /\ Inner(p)' = "idle"
    BY <1>1, <1>2, <2>1, SetupReturn
  <2>3. PartsInv'
    <3>1. PartsAt(p)'
      BY <2>2 DEF PartsAt, AfterSetup
    <3>2. EntryParts'
      BY <1>1, <1>2, <2>1 DEF EntryParts
    <3> QED BY <1>1, <2>2, <3>1, <3>2, PartsStep DEF SInv
  <2>4. ~crossed /\ ~refused => ~Still
    BY <1>1, <1>3 DEF SInv, RestInv, LiveInv, Started
  <2> QED BY <1>1, <1>2, <2>1, <2>2, <2>3, <2>4, StageRests DEF AfterSetup, StartAt
<1>4. CASE result[p] # "ok"
  <2>1. Goto(p, "undo") /\ entry' = entry
    BY <1>4 DEF SetupDone
  <2>2. Aside(p) /\ pc'[p] = "undo" /\ Inner(p)' = "idle"
    BY <1>1, <2>1, SetupGoto DEF SetupAt
  <2>3. PartsInv'
    <3>1. PartsAt(p)'
      BY <2>2 DEF PartsAt
    <3> QED BY <1>2, <2>1, <2>2, <3>1, PartsSame DEF SInv
  <2> QED BY <1>1, <1>2, <2>1, <2>2, <2>3, StageRests DEF SetupAt, StartAt
<1> QED BY <1>3, <1>4

LEMMA SetupUndoneRests ==
    ASSUME IInv, SInv, NEW p \in Proc, SetupUndone(p) PROVE SInv'
<1>1. /\ pc[p] = "undone" /\ pc[p] \in SetupAt /\ SetsUp(p) /\ Bare /\ Failed(p)
      /\ StopBridge({"hub", "retained"}) /\ "platforms" \notin parts /\ parts \subseteq Part
      /\ UNCHANGED <<stored, made, file, settingsLock, tasks, locals, history>>
  BY DEF SetupUndone, SetupAt, SetsUp, Without, IInv, Types, Plain, LockInv, Stage, SInv, PartsInv, PartsAt
<1>2. Alike /\ Apart(p) /\ ~Coming(p) /\ UNCHANGED <<cur, crossed, overtaken, refused, unrestored>> /\ Bare'
  BY <1>1, AlikeSame DEF made, Apart, locals, Coming, Bare, history
<1>3. Aside(p) /\ pc'[p] = Outer(p) /\ Outer(p) \in AfterSetup /\ Inner(p)' = "idle" /\ entry' = "failed"
  BY <1>1, <1>2, SetupReturn DEF Failed
<1>4. PartsInv'
  <2>1. PartsAt(p)'
    BY <1>3 DEF PartsAt, AfterSetup
  <2>2. parts' \subseteq {"bridge"}
    BY <1>1 DEF StopBridge, Part
  <2>3. EntryParts'
    BY <1>3, <2>2 DEF EntryParts
  <2> QED BY <1>1, <1>3, <2>1, <2>3, PartsStep DEF SInv
<1> QED BY <1>1, <1>2, <1>3, <1>4, StageRests DEF AfterSetup, StartAt

LEMMA UnloadBeginRests ==
    ASSUME IInv, SInv, NEW p \in Proc, UnloadBegin(p) PROVE SInv'
<1>1. /\ pc[p] = "unload" /\ Outer(p) \in AfterUnload /\ Inner(p) = "idle"
      /\ UNCHANGED <<stored, made, outside, settingsLock, tasks, obj, was, want, seen, history>>
  BY DEF UnloadBegin, IInv, CallsInv, Calls, Placed
<1>2. /\ Alike /\ UNCHANGED <<stored, parts, file, cur, reloading, crossed, overtaken, refused, unrestored>>
      /\ ~Redo(p) /\ ~Handing(p) /\ (Mends(p) => Outer(p) = "rollback")
  BY <1>1, AlikeSame DEF made, outside, tasks, history, Mends, Undoes, Redo, Restarts, Handing, Latest, AfterRestart
<1>3. CASE /\ \/ Return(p, "no") /\ entry = "stuck" /\ entry' = entry
              \/ Return(p, "ok") /\ entry \in {"off", "failed"} /\ entry' = "off"
           /\ gen' = gen
  <2>1. Aside(p) /\ pc'[p] = Outer(p) /\ Inner(p)' = "idle"
    BY <1>1, <1>3, CallReturn
  <2>2. /\ ~SetsUp(p)' /\ ~Unloads(p)' /\ ~Started(p)' /\ ~Stored(p)' /\ (Mends(p) => Mends(p)')
        /\ pc'[p] \notin StartAt \cup {"store", "uplatforms", "hand"}
    BY <1>1, <1>2, <2>1 DEF SetsUp, Unloads, Started, Stored, Mends, Undoes, StartAt, SetupAt, UnloadAt, AfterUnload
  <2>3. PartsInv'
    <3>1. PartsAt(p)'
      BY <2>2 DEF PartsAt, SetsUp, Unloads, SetupAt, UnloadAt
    <3>2. EntryParts'
      BY <1>2, <1>3 DEF SInv, PartsInv, EntryParts
    <3> QED BY <1>2, <2>1, <3>1, <3>2, PartsStep DEF SInv
  <2>4. entry' \notin {"loaded", "setup"}
    BY <1>3
  <2>5. Apart(p)
    BY <1>1, <1>3 DEF Apart
  <2>6. RestInv'
    BY <1>2, <1>3, <2>1, <2>2, <2>4, <2>5, Calm DEF SInv
  <2> QED BY <2>3, <2>6 DEF SInv
<1>4. CASE /\ entry = "loaded" /\ entry' = "unloading" /\ Goto(p, "uplatforms") /\ gen' = [gen EXCEPT ![p] = cur]
  <2>1. Aside(p) /\ pc'[p] = "uplatforms" /\ Outer(p)' = Outer(p) /\ Inner(p)' = "idle"
    <3>1. Placed("uplatforms", Outer(p), Inner(p)) /\ "uplatforms" \in Label
      BY <1>1 DEF Placed, Label, RestartAt, SetupAt, UnloadAt, StartAt, AfterRestart, AfterSetup, AfterUnload
    <3> QED BY <1>1, <1>4, <3>1, GotoStep
  <2>2. PartsInv'
    <3>1. PartsAt(p)'
      BY <1>2, <1>4, <2>1 DEF PartsAt, SInv, PartsInv, EntryParts
    <3>2. EntryParts'
      BY <1>4 DEF EntryParts
    <3> QED BY <1>2, <2>1, <3>1, <3>2, PartsStep DEF SInv
  <2>3. /\ Kept /\ (Coming(p) => Coming(p)') /\ (Mends(p) => Mends(p)') /\ ~Started(p)' /\ ~Stored(p)'
        /\ pc'[p] \notin StartAt \cup {"store", "hand"}
    BY <1>2, <1>4, <2>1 DEF Kept, Coming, Mends, Undoes, Started, Stored, SetsUp, SetupAt, StartAt
  <2>4. Apart(p)
    BY <1>1, <1>4 DEF Apart, IInv, Types, Points
  <2>5. RestInv'
    BY <1>2, <1>4, <2>1, <2>3, <2>4, Calm DEF SInv
  <2> QED BY <2>2, <2>5 DEF SInv
<1> QED BY <1>3, <1>4 DEF UnloadBegin

\* The call for a reload is in what a process goes back to.
LEMMA Reloading ==
    ASSUME NEW p \in Proc, ret[p] \in Seq(Label), Outer(p) = "reloaded"
    PROVE  Contains(ret[p], "reloaded")
<1>1. ret[p] # <<>> /\ Outer(p) = ret[p][Len(ret[p])]
  BY DEF Outer
<1>2. Len(ret[p]) \in 1..Len(ret[p])
  BY <1>1, EmptySeq, LenProperties
<1> QED BY <1>1, <1>2 DEF Contains

LEMMA UnloadPlatformsRests ==
    ASSUME IInv, SInv, NEW p \in Proc, UnloadPlatforms(p) PROVE SInv'
<1>1. /\ pc[p] = "uplatforms" /\ Unloads(p) /\ cur # 0 /\ entry = "unloading" /\ parts = Part
      /\ pc[p] \in UnloadAt
      /\ UNCHANGED <<stored, made, file, settingsLock, tasks, locals, crossed, overtaken, unrestored>>
  BY InUnload DEF UnloadPlatforms, Unloads, UnloadAt, SInv, PartsInv, PartsAt
<1>2. Alike /\ Apart(p) /\ cur' = cur /\ gen' = gen
  BY <1>1, AlikeSame DEF made, Apart, locals
<1>3. CASE Goto(p, "ulock") /\ parts' = parts \ {"platforms"} /\ UNCHANGED <<entry, setupLock, refused>>
  <2>1. Aside(p) /\ pc'[p] = "ulock" /\ Outer(p)' = Outer(p) /\ Inner(p)' = "idle"
    BY <1>1, <1>2, <1>3, UnloadGoto DEF UnloadAt
  <2>2. PartsInv'
    <3>1. PartsAt(p)'
      BY <1>1, <1>3, <2>1 DEF PartsAt
    <3>2. EntryParts'
      BY <1>1, <1>3 DEF EntryParts
    <3> QED BY <1>1, <2>1, <3>1, <3>2, PartsStep DEF SInv
  <2> QED BY <1>1, <1>2, <1>3, <2>1, <2>2, StageRests DEF UnloadAt, StartAt
<1>4. CASE /\ entry' = "loaded" /\ SetupUnlock(p) /\ Return(p, "no") /\ parts' = parts
           /\ refused' = (refused \/ Contains(ret[p], "reloaded"))
  <2>1. Aside(p) /\ pc'[p] = Outer(p) /\ pc'[p] \in AfterUnload /\ Inner(p)' = "idle"
    BY <1>1, <1>2, <1>4, UnloadReturn
  <2>2. PartsInv'
    <3>1. PartsAt(p)'
      BY <2>1 DEF PartsAt, AfterUnload
    <3>2. EntryParts'
      BY <1>1, <1>4 DEF EntryParts
    <3> QED BY <1>4, <2>1, <3>1, <3>2, PartsStep DEF SInv
  <2>3. Kept
    BY <1>1 DEF Kept
  <2>4. ~refused' => ~refused /\ ~Coming(p)
    BY <1>4, Reloading DEF Coming, IInv, Types, Control
  <2> QED BY <1>1, <1>2, <1>4, <2>1, <2>2, <2>3, <2>4, StageRests DEF AfterUnload, StartAt
<1> QED BY <1>3, <1>4 DEF UnloadPlatforms

LEMMA UnloadLockRests ==
    ASSUME IInv, SInv, NEW p \in Proc, UnloadLock(p) PROVE SInv'
<1>1. /\ pc[p] = "ulock" /\ pc[p] \in UnloadAt /\ Unloads(p) /\ entry = "unloading" /\ Goto(p, "ustop")
      /\ runtimes' = [runtimes EXCEPT ![gen[p]].lock = p]
      /\ UNCHANGED <<ha, cur, services, outside, locks, locals, history>>
  BY InUnload DEF UnloadLock, Unloads, UnloadAt
<1>2. UNCHANGED <<entry, stored, tasks, parts, file, crossed, overtaken, refused, unrestored>> /\ ~Coming(p) /\ Apart(p)
  BY <1>1 DEF ha, outside, history, Coming, Apart, locals
<1>3. Alike
  <2>1. /\ runtimes' \in [1..Runtimes -> RuntimeT(Services)]
        /\ \A k \in 1..Runtimes : runtimes'[k].service = runtimes[k].service
    <3>1. Lists /\ p \in Proc \cup {NONE}
      BY DEF IInv, Types
    <3> QED BY <1>1, <3>1, LockView
  <2>2. Runtimes' = Runtimes /\ Services' = Services
    BY <1>1, <2>1, ListsTo DEF IInv, Types, Lists
  <2>3. SameOwners
    BY <1>1, <2>1, <2>2 DEF SameOwners
  <2> QED BY <1>1, <2>3, AlikeOf
<1>4. Aside(p) /\ pc'[p] = "ustop" /\ Outer(p)' = Outer(p) /\ Inner(p)' = "idle"
  BY <1>1, UnloadGoto DEF UnloadAt, ha, locks, locals, history
<1>5. PartsInv'
  <2>1. PartsAt(p)'
    BY <1>1, <1>2, <1>4 DEF PartsAt, SInv, PartsInv
  <2> QED BY <1>2, <1>4, <2>1, PartsSame DEF SInv
<1> QED BY <1>1, <1>2, <1>3, <1>4, <1>5, StageRests DEF UnloadAt, StartAt

LEMMA UnloadHubRests ==
    ASSUME IInv, SInv, NEW p \in Proc, UnloadHub(p) PROVE SInv'
<1>1. /\ pc[p] = "uhub" /\ pc[p] \in UnloadAt /\ Unloads(p) /\ entry = "unloading" /\ Goto(p, "ubridge")
      /\ parts' = parts \ {"hub", "retained"} /\ parts = Part \ {"platforms"}
      /\ UNCHANGED <<ha, made, file, locks, locals, history, spent>>
  BY InUnload DEF UnloadHub, Unloads, UnloadAt, SInv, PartsInv, PartsAt
<1>2. /\ UNCHANGED <<entry, stored, tasks, crossed, overtaken, refused, unrestored>> /\ ~Coming(p)
      /\ Apart(p) /\ Alike
  BY <1>1, AlikeSame DEF ha, made, history, Coming, Apart, locals
<1>3. Aside(p) /\ pc'[p] = "ubridge" /\ Outer(p)' = Outer(p) /\ Inner(p)' = "idle"
  BY <1>1, UnloadGoto DEF UnloadAt, ha, made, locks, locals, history
<1>4. PartsInv'
  <2>1. PartsAt(p)'
    BY <1>1, <1>3 DEF PartsAt, Part
  <2>2. EntryParts'
    BY <1>1, <1>2 DEF EntryParts
  <2> QED BY <1>1, <1>3, <2>1, <2>2, PartsStep DEF SInv
<1> QED BY <1>1, <1>2, <1>3, <1>4, StageRests DEF UnloadAt, StartAt

\* What the others are in the middle of stays.
LEMMA OthersRest ==
    ASSUME NEW p \in Proc, NEW q \in Proc \ {p}, Aside(p), Apart(p)
    PROVE  /\ Mends(q)' <=> Mends(q)
           /\ Coming(q)' <=> Coming(q)
           /\ Redo(q)' <=> Redo(q)
           /\ Started(q)' <=> Started(q)
           /\ Stored(q)' <=> Stored(q)
           /\ file' = file => (Latest(q)' <=> Latest(q)) /\ (cur' = cur => (Handing(q)' <=> Handing(q)))
           /\ pc'[q] = pc[q] /\ gen'[q] = gen[q] /\ seen'[q] = seen[q]
BY DEF Aside, Apart, Mends, Undoes, Coming, Redo, Started, Stored, Handing, Latest

\* Within a setup, or an unload that stops the service, nobody else starts it.
LEMMA NoneElse ==
    ASSUME IInv, NEW p \in Proc,
           SetsUp(p) \/ (Unloads(p) /\ pc[p] \notin {"uplatforms", "ulock"}),
           NEW q \in Proc \ {p}
    PROVE  /\ pc[q] \notin {"uplatforms", "store", "sdone"}
           /\ ~crossed => pc[q] # "rdone" /\ pc[q] \notin StartAt
<1>1. ~SetsUp(q) /\ ~Unloads(q) /\ (~crossed => ~Restarts(q))
  BY InSetup, InUnload DEF IInv, LockInv, Locked
<1>2. pc[q] \in StartAt => Restarts(q) \/ SetsUp(q)
  BY Starts DEF Restarts, SetsUp
<1> QED BY <1>1, <1>2 DEF SetsUp, Unloads, Restarts, SetupAt, UnloadAt

LEMMA QuietRests ==
    ASSUME IInv, RestInv, NEW p \in Proc, Aside(p), Apart(p), PartsInv', file' = file,
           SetsUp(p) \/ (Unloads(p) /\ pc[p] \notin {"uplatforms", "ulock"}),
           pc'[p] \notin {"uplatforms", "sdone", "rdone", "hand"}, entry' # "loaded", crossed' = crossed,
           ~crossed => WithInv',
           ~crossed /\ Stored(p)' /\ ~refused' /\ ~overtaken' =>
              services'[Service'].file = file' \/ reloading' > 0 \/ \E q \in Proc : Handing(q)',
           ~crossed => Storing(p)'
    PROVE  SInv'
<1>1. ASSUME NEW q \in Proc \ {p} PROVE pc'[q] = pc[q]
  BY DEF Aside
<1>2. ~Kept' /\ \A q \in Proc \ {p} : ~Stored(q)'
  <2>1. ~Kept'
    BY <1>1, NoneElse DEF Kept
  <2>2. ASSUME NEW q \in Proc \ {p} PROVE ~Stored(q)'
    <3>1. ~SetsUp(q)
      BY InSetup, InUnload
    <3> QED BY <3>1 DEF Stored, Aside
  <2> QED BY <2>1, <2>2
<1>3. ASSUME ~crossed PROVE \A q \in Proc : ~Started(q)' /\ Storing(q)'
  BY <1>1, <1>3, NoneElse DEF Started, Storing
<1>4. LiveInv'
  BY <1>2, <1>3 DEF LiveInv
<1>5. FileInv'
  BY <1>2, <1>3 DEF FileInv, Held, Anew
<1>6. WithInv'
  BY DEF WithInv
<1>7. SeenInv'
  BY OthersRest DEF RestInv, SeenInv
<1> QED BY <1>4, <1>5, <1>6, <1>7 DEF SInv, RestInv

\* Nothing to read or to restore from: only the bridge is there to be stopped.
LEMMA SetupFailsRests ==
    ASSUME IInv, SInv, NEW p \in Proc, pc[p] \in {"read", "store"}, Goto(p, "undone"),
           UNCHANGED <<ha, made, outside, locks, locals, history>>
    PROVE  SInv'
<1>1. pc[p] \in SetupAt /\ SetsUp(p) /\ entry = "setup" /\ parts = {"bridge"}
  BY InSetup DEF SetupAt, SetsUp, SInv, PartsInv, PartsAt
<1>2. /\ Alike /\ Apart(p) /\ ~Coming(p)
      /\ UNCHANGED <<entry, parts, file, stored, tasks, cur, crossed, overtaken, refused, unrestored>>
  BY AlikeSame DEF ha, made, outside, Apart, locals, Coming, history
<1>3. Aside(p) /\ pc'[p] = "undone" /\ Inner(p)' = "idle"
  BY <1>1, SetupGoto DEF SetupAt
<1>4. PartsInv'
  <2>1. PartsAt(p)'
    BY <1>1, <1>2, <1>3 DEF PartsAt
  <2> QED BY <1>2, <1>3, <2>1, PartsSame DEF SInv
<1> QED BY <1>1, <1>2, <1>3, <1>4, StageRests DEF SetupAt, StartAt

LEMMA ReadsRests ==
    ASSUME IInv, SInv, NEW p \in Proc, Reads(p) PROVE SInv'
<1> PICK m \in Nat, n \in Nat : m = Runtimes + 1 /\ n = Services + 1 /\ m # 0 /\ n # 0
  BY DEF IInv, Types, Lists
<1>1. /\ pc[p] = "read" /\ pc[p] \in SetupAt /\ SetsUp(p) /\ Goto(p, "store") /\ Bare /\ entry = "setup"
      /\ services' = Append(services, MakeService(m))
      /\ runtimes' = Append(runtimes, [service |-> Len(services'), options |-> stored, lock |-> NONE])
      /\ gen' = [gen EXCEPT ![p] = Len(runtimes')]
      /\ UNCHANGED <<ha, cur, outside, locks, obj, was, want, seen, history, spent>>
  BY DEF Reads, SetupAt, SetsUp, Without, IInv, LockInv, Stage, Runtimes
<1>2. /\ Len(services') = n
      /\ services'[n] = [gen |-> m, with |-> stored, file |-> file, stack |-> FALSE, live |-> 0]
  <2>1. Lists /\ stored \in Setting /\ file \in Nat /\ m \in {Runtimes, Runtimes + 1} /\ m \in 1..m
    BY DEF IInv, Types, Plain, Lists
  <2> QED BY <1>1, <2>1, MakeView
<1>3. /\ Len(runtimes') = m
      /\ runtimes'[m] = [service |-> n, options |-> stored, lock |-> NONE]
  <2>1. runtimes' = Append(runtimes, [service |-> Services + 1, options |-> stored, lock |-> NONE])
    BY <1>1, <1>2
  <2>2. Lists /\ stored \in Setting
    BY DEF IInv, Types, Plain
  <2> QED BY <2>1, <2>2, RuntimeView
<1>4. Aside(p) /\ pc'[p] = "store" /\ Inner(p)' = "idle"
  BY <1>1, SetupGoto DEF SetupAt
<1>5. UNCHANGED <<entry, cur, parts, file, crossed, unrestored>> /\ Apart(p)
  BY <1>1 DEF ha, outside, history, Apart, IInv, Types, Points
<1>6. PartsInv'
  <2>1. PartsAt(p)'
    BY <1>1, <1>4, <1>5 DEF PartsAt, SInv, PartsInv
  <2> QED BY <1>4, <1>5, <2>1, PartsSame DEF SInv
<1>7. WithInv' /\ ~Stored(p)'
  BY <1>1, <1>4, <1>5 DEF WithInv, Bare, Stored, Without
<1>8. Storing(p)'
  <2>1. gen'[p] = m
    BY <1>1, <1>3 DEF IInv, Types, Points
  <2> QED BY <1>2, <1>3, <1>5, <2>1 DEF Storing
<1> QED BY <1>1, <1>4, <1>5, <1>6, <1>7, <1>8, QuietRests DEF SInv

LEMMA SetupReadRests ==
    ASSUME IInv, SInv, NEW p \in Proc, SetupRead(p) PROVE SInv'
BY ReadOr, ReadsRests, SetupFailsRests

\* The options a service is given before it starts.
LEMMA WithSet ==
    ASSUME Lists, NEW s \in 1..Services, NEW x, services' = [services EXCEPT ![s].with = x]
    PROVE  services'[s].with = x /\ services'[s].file = services[s].file
<1>1. services'[s] = [gen |-> services[s].gen, with |-> x, file |-> services[s].file,
                      stack |-> services[s].stack, live |-> services[s].live]
  BY DEF Lists, ServiceT
<1> QED BY <1>1

LEMMA StoresRests ==
    ASSUME IInv, SInv, NEW p \in Proc, Stores(p) PROVE SInv'
<1> PICK g \in 1..Runtimes, s \in 1..Services : g = gen[p] /\ s = runtimes[g].service
  <2>1. gen[p] \in 1..Runtimes
    BY DEF Stores, IInv, RefersInv, Refers, Types, Points
  <2> QED BY <2>1, RuntimeIs DEF IInv, Types
<1>1. /\ pc[p] = "store" /\ pc[p] \in SetupAt /\ SetsUp(p) /\ cur' = g /\ Goto(p, "platforms") /\ entry = "setup"
      /\ services' = [services EXCEPT ![s].with = stored]
      /\ runtimes' = [runtimes EXCEPT ![g].options = stored]
      /\ UNCHANGED <<ha, outside, locks, locals, history, spent>>
  BY InSetup DEF Stores, SetupAt, SetsUp
<1>2. Service' = s
  BY <1>1, OptionsView DEF IInv, Types, Plain, Service
<1>3. services'[s].with = stored /\ services'[s].file = services[s].file
  <2>1. Lists /\ stored \in Setting
    BY DEF IInv, Types, Plain
  <2>2. services' = [services EXCEPT ![s].with = stored]
    BY <1>1
  <2> QED BY <2>1, <2>2, WithSet
<1>4. Aside(p) /\ pc'[p] = "platforms" /\ Inner(p)' = "idle"
  BY <1>1, SetupGoto DEF SetupAt
<1>5. UNCHANGED <<entry, stored, parts, file, reloading, crossed, refused, overtaken, unrestored>> /\ Apart(p)
  BY <1>1 DEF ha, tasks, outside, history, locals, Apart
<1>6. PartsInv'
  <2>1. PartsAt(p)'
    BY <1>1, <1>4, <1>5 DEF PartsAt, SInv, PartsInv
  <2> QED BY <1>4, <1>5, <2>1, PartsSame DEF SInv
<1>7. WithInv'
  BY <1>2, <1>3, <1>5 DEF WithInv, Like
<1>8. ASSUME ~crossed, ~refused, ~overtaken
      PROVE  services'[Service'].file = file' \/ reloading' > 0 \/ \E q \in Proc : Handing(q)'
  <2>1. services[s].file = file \/ reloading > 0 \/ \E q \in Proc : Latest(q)
    BY <1>1, <1>8 DEF SInv, RestInv, FileInv, Storing
  <2>2. ASSUME NEW q \in Proc, Latest(q) PROVE Handing(q)'
    <3>1. q # p
      BY <1>1, <2>2 DEF Latest
    <3> QED BY <1>4, <1>5, <2>2, <3>1, OthersRest DEF Handing
  <2> QED BY <1>2, <1>3, <1>5, <2>1, <2>2
<1>9. Storing(p)'
  BY <1>4 DEF Storing
<1> QED BY <1>1, <1>4, <1>5, <1>6, <1>7, <1>8, <1>9, QuietRests DEF SInv

LEMMA SetupStoreRests ==
    ASSUME IInv, SInv, NEW p \in Proc, SetupStore(p) PROVE SInv'
BY StoreOr, StoresRests, SetupFailsRests

LEMMA SetupUndoRests ==
    ASSUME IInv, SInv, NEW p \in Proc, SetupUndo(p) PROVE SInv'
<1>1. /\ pc[p] = "undo" /\ pc[p] \in SetupAt /\ SetsUp(p) /\ Goto(p, "undone") /\ cur' = 0 /\ entry = "setup"
      /\ parts' = parts \ {"platforms"}
      /\ UNCHANGED <<ha, runtimes, services, file, locks, locals, history, spent>>
  BY InSetup DEF SetupUndo, SetupAt, SetsUp
<1>2. Aside(p) /\ pc'[p] = "undone" /\ Inner(p)' = "idle"
  BY <1>1, SetupGoto DEF SetupAt
<1>3. UNCHANGED <<entry, crossed, file>> /\ Apart(p)
  BY <1>1 DEF ha, history, locals, Apart
<1>4. PartsInv'
  <2>1. PartsAt(p)'
    BY <1>1, <1>2 DEF PartsAt
  <2>2. EntryParts'
    BY <1>1, <1>3 DEF EntryParts
  <2> QED BY <1>1, <1>2, <2>1, <2>2, PartsStep DEF SInv
<1>5. WithInv' /\ Storing(p)' /\ ~Stored(p)'
  BY <1>1, <1>2 DEF WithInv, Storing, Stored, Without
<1> QED BY <1>1, <1>2, <1>3, <1>4, <1>5, QuietRests DEF SInv

LEMMA UnloadStopRests ==
    ASSUME IInv, SInv, NEW p \in Proc, UnloadStop(p) PROVE SInv'
<1> PICK g \in 1..Runtimes, s \in 1..Services : g = gen[p] /\ g = cur /\ s = runtimes[g].service
  BY InUnload DEF UnloadStop, Unloads, UnloadAt
<1>1. /\ pc[p] = "ustop" /\ Unloads(p) /\ entry = "unloading" /\ Goto(p, "uhub")
      /\ services' = Stopped(s) /\ runtimes' = [runtimes EXCEPT ![g].lock = NONE]
      /\ UNCHANGED <<ha, cur, outside, locks, locals, history, spent>>
  BY InUnload DEF UnloadStop, Unloads, UnloadAt
<1>2. Aside(p) /\ pc'[p] = "uhub" /\ Inner(p)' = "idle"
  BY <1>1, UnloadGoto DEF UnloadAt, ha, locks, locals, history
<1>3. UNCHANGED <<entry, parts, file, crossed>> /\ Apart(p)
  BY <1>1 DEF ha, outside, history, locals, Apart
<1>4. PartsInv'
  <2>1. PartsAt(p)'
    BY <1>1, <1>2, <1>3 DEF PartsAt, SInv, PartsInv
  <2> QED BY <1>2, <1>3, <2>1, PartsSame DEF SInv
<1>5. ~crossed => WithInv'
  <2>1. Service' = s
    BY <1>1, LockView DEF IInv, Types, Service
  <2>2. ~services'[s].stack
    BY <1>1, StopView DEF IInv, Types, CountInv
  <2>3. ASSUME ~crossed, NEW q \in Proc PROVE pc'[q] \notin StartAt
    <3>1. CASE q = p
      BY <1>2, <3>1 DEF StartAt
    <3>2. CASE q # p
      BY <1>1, <1>2, <2>3, <3>2, NoneElse DEF Aside
    <3> QED BY <3>1, <3>2
  <2> QED BY <1>1, <1>3, <2>1, <2>2, <2>3 DEF WithInv, Idling
<1>6. Storing(p)' /\ ~Stored(p)'
  BY <1>2 DEF Storing, Stored, SetsUp, SetupAt
<1> QED BY <1>1, <1>2, <1>3, <1>4, <1>5, <1>6, QuietRests DEF SInv

LEMMA UnloadBridgeRests ==
    ASSUME IInv, SInv, NEW p \in Proc, UnloadBridge(p) PROVE SInv'
<1>1. /\ pc[p] = "ubridge" /\ Unloads(p) /\ cur # 0 /\ SetupUnlock(p) /\ StopBridge({}) /\ parts = {"bridge"}
      /\ UNCHANGED <<stored, runtimes, services, file, settingsLock, tasks, locals, history>>
  BY InUnload DEF UnloadBridge, Unloads, UnloadAt, SInv, PartsInv, PartsAt
<1>2. \/ entry' = "stuck" /\ Return(p, "no") /\ cur' = cur /\ "bridge" \in parts'
      \/ entry' = "off" /\ Return(p, "ok") /\ cur' = 0 /\ "bridge" \notin parts'
  BY DEF UnloadBridge
<1>3. /\ Aside(p) /\ pc'[p] = Outer(p) /\ pc'[p] \in AfterUnload /\ Inner(p)' = "idle" /\ Apart(p)
      /\ crossed' = crossed /\ unrestored' = unrestored
  BY <1>1, <1>2, UnloadReturn DEF Apart, locals, history
<1>4. PartsInv'
  <2>1. PartsAt(p)'
    BY <1>3 DEF PartsAt, AfterUnload
  <2>2. EntryParts'
    BY <1>1, <1>2 DEF EntryParts, StopBridge
  <2> QED BY <1>1, <1>3, <2>1, <2>2, PartsStep DEF SInv
<1>5. ~crossed => WithInv'
  <2>1. CASE cur' = 0
    BY <2>1 DEF WithInv
  <2>2. CASE cur' = cur /\ entry' = "stuck"
    <3>1. Service' = Service /\ Like(Service)' = Like(Service)
      BY <1>1, <2>2 DEF Service, Like
    <3>2. Mends(p) => Mends(p)'
      BY <1>1, <1>3 DEF Mends, Undoes
    <3>3. Idling => Idling'
      <4>1. \A q \in Proc : pc[q] \notin StartAt => pc'[q] \notin StartAt
        BY <1>3 DEF Aside, StartAt, AfterUnload
      <4> QED BY <1>1, <2>2, <3>1, <4>1 DEF Idling
    <3>4. ASSUME NEW q \in Proc, Mends(q) PROVE Mends(q)'
      BY <1>3, <3>2, <3>4, OthersRest
    <3> QED BY <1>1, <1>3, <2>2, <3>1, <3>3, <3>4 DEF WithInv, SInv, RestInv
  <2> QED BY <1>2, <2>1, <2>2
<1>6. Storing(p)' /\ ~Stored(p)' /\ pc'[p] \notin {"uplatforms", "sdone", "rdone", "hand"}
  BY <1>3 DEF Storing, Stored, SetsUp, SetupAt, AfterUnload
<1> QED BY <1>1, <1>2, <1>3, <1>4, <1>5, <1>6, QuietRests DEF SInv

\* A step that leaves the entry as it is, and its service's devices.
LEMMA FileKept ==
    ASSUME IInv, RestInv, NEW p \in Proc, Aside(p), Apart(p),
           UNCHANGED <<entry, cur, file, reloading, crossed, refused, overtaken, unrestored>>,
           ~Coming(p), ~Handing(p), pc'[p] \notin {"uplatforms", "store"}, Stored(p)' => Stored(p),
           ~crossed /\ cur # 0 => services'[Service'].file \in {services[Service].file, file},
           \A q \in Proc : ~crossed /\ pc[q] = "store" =>
              services'[runtimes'[gen[q]].service].file = services[runtimes[gen[q]].service].file
    PROVE  FileInv'
<1> SUFFICES ASSUME ~crossed, ~refused, ~overtaken
             PROVE  /\ Held' => services'[Service'].file = file' \/ Anew' \/ \E q \in Proc : Handing(q)'
                    /\ \A q \in Proc : Storing(q)'
  BY DEF FileInv
<1>1. ASSUME Held'
      PROVE  services'[Service'].file = file' \/ Anew' \/ \E q \in Proc : Handing(q)'
  <2>1. Held
    BY <1>1, OthersRest DEF Kept, Held
  <2>2. cur # 0
    BY <2>1, HeldCur
  <2>3. CASE services[Service].file = file
    BY <2>2, <2>3
  <2>4. CASE Anew
    BY <2>4, OthersRest DEF Anew
  <2>5. ASSUME NEW q \in Proc, Handing(q) PROVE Handing(q)'
    BY <2>5, OthersRest
  <2> QED BY <2>1, <2>3, <2>4, <2>5 DEF RestInv, FileInv
<1>2. ASSUME NEW q \in Proc PROVE Storing(q)'
  <2>1. pc'[q] = "store" => q # p /\ pc[q] = "store" /\ gen'[q] = gen[q]
    BY OthersRest
  <2>2. Storing(q)
    BY DEF RestInv, FileInv
  <2>3. ASSUME NEW r \in Proc, Latest(r) PROVE Latest(r)'
    <3>1. r # p
      BY <2>3 DEF Handing
    <3> QED BY <2>3, <3>1, OthersRest
  <2> QED BY <2>1, <2>2, <2>3 DEF Storing
<1> QED BY <1>1, <1>2

LEMMA SeenKept ==
    ASSUME RestInv, NEW p \in Proc, Aside(p), Apart(p), file' = file, pc'[p] # "hand"
    PROVE  SeenInv'
BY OthersRest DEF RestInv, SeenInv

\* In the middle of a restart that crosses nothing, nobody else starts the
\* service, nor is a setup under way.
LEMMA RestartAlone ==
    ASSUME IInv, ~crossed, NEW p \in Proc, Restarts(p), NEW q \in Proc \ {p}
    PROVE  pc[q] \notin {"rdone", "sdone", "store"} \cup StartAt /\ entry # "setup"
<1>1. entry # "setup" /\ ~Restarts(q) /\ Inner(q) # "sdone"
  BY Alone DEF Up, Leaving
<1>2. ~SetsUp(q)
  BY <1>1 DEF IInv, LockInv, Stage
<1>3. pc[q] \in StartAt => Restarts(q) \/ SetsUp(q)
  BY Starts DEF Restarts, SetsUp
<1> QED BY <1>1, <1>2, <1>3 DEF SetsUp, Restarts, SetupAt

LEMMA RestartStopRests ==
    ASSUME IInv, SInv, NEW p \in Proc, RestartStop(p) PROVE SInv'
<1> PICK g \in 1..Runtimes, s \in 1..Services : g = gen[p] /\ s = runtimes[g].service
  BY Restarting DEF RestartStop, RestartAt
<1>1. /\ pc[p] = "rstop" /\ Outer(p) \in AfterRestart /\ Inner(p) = "idle" /\ Restarts(p)
      /\ services' = Stopped(s) /\ UNCHANGED <<ha, cur, outside, locks, locals, history>>
  BY Restarting DEF RestartStop, RestartAt, Restarts
<1>2. /\ Aside(p) /\ Inner(p)' = "idle"
      /\ \/ pc'[p] = "rmake"
         \/ pc'[p] \in AfterRestart /\ result'[p] = "raised"
      /\ \A k \in 1..Runtimes : runtimes'[k].service = runtimes[k].service
  <2>1. CASE Goto(p, "rmake") /\ runtimes' = [runtimes EXCEPT ![g].options = stored]
    <3>1. Placed("rmake", Outer(p), Inner(p)) /\ "rmake" \in Label
      BY <1>1 DEF Placed, Label, RestartAt, SetupAt, UnloadAt, StartAt, AfterRestart, AfterSetup, AfterUnload
    <3>2. Aside(p) /\ Inner(p)' = "idle" /\ pc'[p] = "rmake"
      BY <1>1, <2>1, <3>1, GotoStep
    <3> QED BY <2>1, <3>2, OptionsView DEF IInv, Types, Plain
  <2>2. CASE Return(p, "raised") /\ runtimes' = [runtimes EXCEPT ![g].lock = NONE]
    <3>1. Aside(p) /\ Inner(p)' = "idle" /\ pc'[p] = Outer(p) /\ result'[p] = "raised"
      BY <1>1, <2>2, CallReturn DEF RestartAt
    <3> QED BY <1>1, <2>2, <3>1, LockView DEF IInv, Types
  <2> QED BY <2>1, <2>2 DEF RestartStop
<1>3. /\ UNCHANGED <<entry, stored, reloading, parts, file, cur, crossed, refused, overtaken, unrestored>> /\ Apart(p)
      /\ ~Coming(p) /\ ~Handing(p) /\ ~Stored(p)'
  BY <1>1, <1>2 DEF ha, tasks, outside, history, locals, Apart, Coming, Handing, Latest, Stored, SetsUp, SetupAt,
     AfterRestart
<1>4. PartsInv'
  <2>1. ~SetsUp(p)' /\ ~Unloads(p)'
    BY <1>2 DEF SetsUp, Unloads, SetupAt, UnloadAt, AfterRestart
  <2> QED BY <1>2, <1>3, <2>1, PartsSame DEF SInv
<1>5. ~crossed => /\ g = cur /\ Service = s /\ Service' = s
                  /\ ~services'[s].stack /\ services'[s].file = services[s].file
  <2>1. ~crossed => g = cur
    BY <1>1, Alone
  <2>2. ~services'[s].stack /\ services'[s].file = services[s].file
    BY <1>1, StopView DEF IInv, Types, CountInv
  <2> QED BY <1>2, <1>3, <2>1, <2>2 DEF Service
<1>6. ASSUME ~crossed, NEW q \in Proc
      PROVE  /\ pc'[q] \notin {"rdone", "sdone", "store"} \cup StartAt /\ pc[q] # "store"
             /\ entry' # "setup"
  <2>1. CASE q = p
    <3>1. entry # "setup"
      BY <1>1, <1>6, Alone DEF Up, Leaving
    <3> QED BY <1>1, <1>2, <1>3, <2>1, <3>1 DEF AfterRestart, StartAt
  <2>2. CASE q # p
    BY <1>1, <1>2, <1>3, <1>6, <2>2, RestartAlone DEF Aside
  <2> QED BY <2>1, <2>2
<1>7. WithInv'
  <2>1. CASE pc'[p] = "rmake"
    BY <2>1 DEF WithInv, Mends, Undoes
  <2>2. CASE pc'[p] \in AfterRestart
    <3>1. ~crossed => Idling'
      BY <1>5, <1>6 DEF Idling
    <3> QED BY <1>3, <3>1 DEF WithInv
  <2> QED BY <1>2, <2>1, <2>2
<1>8. LiveInv'
  <2>1. Redo(p)'
    BY <1>2 DEF Redo, Restarts
  <2> QED BY <1>3, <1>6, <2>1 DEF LiveInv, Started
<1>9. FileInv'
  <2>1. pc'[p] \notin {"uplatforms", "store"}
    BY <1>2 DEF AfterRestart
  <2>2. ~crossed /\ cur # 0 => services'[Service'].file = services[Service].file
    BY <1>5
  <2> QED BY <1>2, <1>3, <1>6, <2>1, <2>2, FileKept DEF SInv
<1>10. SeenInv'
  BY <1>2, <1>3, SeenKept DEF SInv, AfterRestart
<1> QED BY <1>4, <1>7, <1>8, <1>9, <1>10 DEF SInv, RestInv

LEMMA RestartMakeRests ==
    ASSUME IInv, SInv, NEW p \in Proc, RestartMake(p) PROVE SInv'
<1> PICK g \in 1..Runtimes, n \in Nat : g = gen[p] /\ n = Services + 1
  BY Restarting DEF RestartMake, RestartAt, IInv, Types, Lists
<1>1. /\ pc[p] = "rmake" /\ Outer(p) \in AfterRestart /\ Inner(p) = "idle" /\ Restarts(p)
      /\ Call(p, "check", "rdone") /\ services' = Append(services, MakeService(g))
      /\ runtimes' = [runtimes EXCEPT ![g].service = Len(services')]
      /\ obj' = [obj EXCEPT ![p] = Len(services')]
      /\ UNCHANGED <<ha, cur, outside, locks, gen, was, want, seen, history>>
  BY Restarting DEF RestartMake, RestartAt, Restarts
<1>2. Aside(p) /\ Inner(p)' = "rdone" /\ pc'[p] = "check"
  BY SMTT(30), <1>1, CallInAt, OthersAt DEF IInv, Types, Label, AfterRestart
<1>3. /\ Len(services') = n
      /\ services'[n] = [gen |-> g, with |-> stored, file |-> file, stack |-> FALSE, live |-> 0]
  <2>1. Lists /\ stored \in Setting /\ file \in Nat /\ Runtimes \in {Runtimes, Runtimes + 1}
    BY DEF IInv, Types, Plain
  <2> QED BY <1>1, <2>1, MakeView
<1>4. runtimes'[g].service = n
  BY <1>1, <1>3 DEF IInv, Types, Lists, RuntimeT
<1>5. /\ UNCHANGED <<entry, stored, reloading, parts, file, cur, crossed, refused, overtaken, unrestored>>
      /\ ~Coming(p) /\ ~Handing(p) /\ ~Stored(p)'
  BY <1>1, <1>2 DEF ha, tasks, outside, history, Coming, Handing, Latest, Stored, SetsUp, SetupAt
<1>6. Apart(p)
  BY <1>1 DEF Apart, IInv, Types, Points
<1>7. PartsInv'
  <2>1. ~SetsUp(p)' /\ ~Unloads(p)'
    BY <1>2 DEF SetsUp, Unloads, SetupAt, UnloadAt
  <2> QED BY <1>2, <1>5, <2>1, PartsSame DEF SInv
<1>8. ~crossed => services'[Service'].with = stored' /\ services'[Service'].file = file
  <2>1. ~crossed => g = cur
    BY <1>1, Alone
  <2>2. ~crossed => Service' = n
    BY <1>4, <1>5, <2>1 DEF Service
  <2> QED BY <1>3, <1>5, <2>2
<1>9. ASSUME ~crossed, NEW q \in Proc
      PROVE  pc'[q] \notin {"rdone", "sdone"} /\ pc[q] # "store"
  <2>1. CASE q = p
    BY <1>1, <1>2, <2>1
  <2>2. CASE q # p
    BY <1>1, <1>2, <1>9, <2>2, RestartAlone DEF Aside
  <2> QED BY <2>1, <2>2
<1>10. WithInv'
  BY <1>5, <1>8 DEF WithInv, Like
<1>11. LiveInv'
  <2>1. Redo(p)'
    BY <1>2 DEF Redo, Restarts
  <2> QED BY <1>5, <1>9, <2>1 DEF LiveInv, Started
<1>12. FileInv'
  BY <1>2, <1>5, <1>6, <1>8, <1>9, FileKept DEF SInv
<1>13. SeenInv'
  BY <1>2, <1>5, <1>6, SeenKept DEF SInv
<1> QED BY <1>7, <1>10, <1>11, <1>12, <1>13 DEF SInv, RestInv

LEMMA RestartUnreadRests ==
    ASSUME IInv, SInv, NEW p \in Proc, RestartUnread(p) PROVE SInv'
<1> PICK g \in 1..Runtimes, s \in 1..Services : g = gen[p] /\ s = runtimes[g].service
  BY Restarting DEF RestartUnread, RestartAt
<1>1. /\ pc[p] = "rmake" /\ Outer(p) \in AfterRestart /\ Inner(p) = "idle" /\ Restarts(p)
      /\ Return(p, "raised") /\ runtimes' = [runtimes EXCEPT ![g].lock = NONE]
      /\ UNCHANGED <<ha, cur, services, outside, locks, locals, history>>
  BY Restarting DEF RestartUnread, RestartAt, Restarts
<1>2. Aside(p) /\ Inner(p)' = "idle" /\ pc'[p] = Outer(p) /\ result'[p] = "raised"
  BY <1>1, CallReturn DEF RestartAt
<1>3. \A k \in 1..Runtimes : runtimes'[k].service = runtimes[k].service
  BY <1>1, LockView DEF IInv, Types
<1>4. /\ UNCHANGED <<entry, stored, reloading, parts, file, cur, crossed, refused, overtaken, unrestored>> /\ Apart(p)
      /\ ~Coming(p) /\ ~Handing(p) /\ ~Stored(p)'
  BY <1>1, <1>2 DEF ha, tasks, outside, history, locals, Apart, Coming, Handing, Latest, Stored, SetsUp, SetupAt,
     AfterRestart
<1>5. PartsInv'
  <2>1. ~SetsUp(p)' /\ ~Unloads(p)'
    BY <1>1, <1>2 DEF SetsUp, Unloads, SetupAt, UnloadAt, AfterRestart
  <2> QED BY <1>2, <1>4, <2>1, PartsSame DEF SInv
<1>6. ~crossed => Service' = Service /\ ~services'[Service'].stack
  <2>1. ~crossed => g = cur /\ Still
    BY <1>1, Alone DEF IInv, OneInv, Mine
  <2>2. Still => ~services[s].stack
    BY DEF Still, IInv, CountInv, Stacked
  <2> QED BY <1>1, <1>3, <2>1, <2>2 DEF Service
<1>7. ASSUME ~crossed, NEW q \in Proc
      PROVE  pc'[q] \notin {"rdone", "sdone", "store"} \cup StartAt /\ pc[q] # "store" /\ entry' # "setup"
  <2>1. CASE q = p
    <3>1. entry # "setup"
      BY <1>1, <1>7, Alone DEF Up, Leaving
    <3> QED BY <1>1, <1>2, <1>4, <2>1, <3>1 DEF AfterRestart, StartAt
  <2>2. CASE q # p
    BY <1>1, <1>2, <1>4, <1>7, <2>2, RestartAlone DEF Aside
  <2> QED BY <2>1, <2>2
<1>8. WithInv'
  <2>1. ~crossed => Idling'
    BY <1>6, <1>7 DEF Idling
  <2> QED BY <1>4, <2>1 DEF WithInv
<1>9. LiveInv'
  <2>1. Redo(p)'
    BY <1>1, <1>2 DEF Redo
  <2> QED BY <1>4, <1>7, <2>1 DEF LiveInv, Started
<1>10. FileInv'
  <2>1. pc'[p] \notin {"uplatforms", "store"}
    BY <1>1, <1>2 DEF AfterRestart
  <2>2. ~crossed => services'[Service'].file = services[Service].file
    BY <1>1, <1>6
  <2> QED BY <1>2, <1>4, <1>7, <2>1, <2>2, FileKept DEF SInv
<1>11. SeenInv'
  BY <1>1, <1>2, <1>4, SeenKept DEF SInv, AfterRestart
<1> QED BY <1>5, <1>8, <1>9, <1>10, <1>11 DEF SInv, RestInv

LEMMA RunRests ==
    ASSUME IInv, SInv, NEW p \in Proc, Run(p) PROVE SInv'
<1>1. /\ pc[p] = "run" /\ pc[p] \in StartAt /\ Return(p, "ok")
      /\ UNCHANGED <<ha, runtimes, cur, outside, locks, locals, history>>
      /\ obj[p] \in 1..Services
      /\ \/ Inner(p) = "rdone" /\ Outer(p) \in AfterRestart
         \/ Inner(p) = "sdone" /\ Outer(p) \in AfterSetup
  BY Starts DEF Run, StartAt
<1> PICK s \in 1..Services : s = obj[p]
  BY <1>1
<1>2. Aside(p) /\ pc'[p] = Inner(p) /\ Inner(p)' = "idle"
  BY <1>1, StartReturn
<1>3. /\ \A k \in 1..Services : services'[k].with = services[k].with /\ services'[k].file = services[k].file
      /\ services'[s].live # 0 /\ Services' = Services
  <2>1. services' = [services EXCEPT ![s].stack = TRUE, ![s].live = @ + 1] /\ Lists
    BY DEF Run, IInv, Types
  <2>2. services[s].live <= 1 /\ services[s].live \in 0..2
    BY <1>1, <2>1, ServiceIs DEF IInv, CountInv, Counted, Remaking, Pending
  <2>3. /\ \A k \in 1..Services : k # s => services'[k] = services[k]
        /\ services'[s].with = services[s].with /\ services'[s].file = services[s].file
        /\ services'[s].live = services[s].live + 1 /\ services' \in [1..Services -> ServiceT(Runtimes)]
    BY <1>1, <2>1, <2>2, RunView
  <2>4. Services' = Services
    BY <2>1, <2>3, FunSeq DEF Lists, Services
  <2> QED BY <2>2, <2>3, <2>4
<1>4. /\ UNCHANGED <<entry, stored, reloading, parts, file, cur, crossed, refused, overtaken, unrestored>> /\ Apart(p)
      /\ ~Coming(p) /\ ~Handing(p) /\ ~Mends(p)
      /\ pc'[p] \notin {"uplatforms", "store", "hand"} \cup StartAt /\ (Stored(p)' => Stored(p))
  BY <1>1, <1>2 DEF ha, tasks, outside, history, locals, Apart, Coming, Handing, Latest, Mends, Undoes, StartAt, Stored,
     SetsUp, Without, SetupAt, AfterRestart, AfterSetup
<1>5. PartsInv'
  <2>1. SetsUp(p)' \/ Unloads(p)' => PartsAt(p)'
    BY <1>1, <1>2, <1>4 DEF SetsUp, Unloads, SetupAt, UnloadAt, PartsAt, SInv, PartsInv
  <2> QED BY <1>2, <1>4, <2>1, PartsSame DEF SInv
<1>6. cur # 0 => Service' = Service /\ Service \in 1..Services
  <2>1. cur # 0 => cur \in 1..Runtimes
    BY DEF IInv, Types, Lists
  <2> QED BY <1>1, <2>1, RuntimeIs DEF Service, IInv, Types
<1>7. WithInv'
  <2>1. ~Idling
    BY <1>1 DEF Idling
  <2>2. cur # 0 /\ Like(Service) => Like(Service)'
    BY <1>3, <1>4, <1>6 DEF Like
  <2>3. ASSUME NEW q \in Proc, Mends(q) PROVE Mends(q)'
    BY <1>2, <1>4, <2>3, OthersRest
  <2> QED BY <1>4, <2>1, <2>2, <2>3 DEF WithInv, SInv, RestInv
<1>8. LiveInv'
  <2>1. ~Still'
    BY <1>3 DEF Still
  <2> QED BY <2>1 DEF LiveInv
<1>9. FileInv'
  <2>1. ASSUME NEW q \in Proc, pc[q] = "store"
        PROVE  services'[runtimes'[gen[q]].service].file = services[runtimes[gen[q]].service].file
    <3>1. gen[q] \in 1..Runtimes
      BY <2>1 DEF IInv, RefersInv, Refers, Types, Points, Lists
    <3>2. runtimes[gen[q]].service \in 1..Services
      BY <3>1, RuntimeIs DEF IInv, Types
    <3> QED BY <1>1, <1>3, <3>2
  <2> QED BY <1>2, <1>3, <1>4, <1>6, <2>1, FileKept DEF SInv
<1>10. SeenInv'
  BY <1>2, <1>4, SeenKept DEF SInv
<1> QED BY <1>5, <1>7, <1>8, <1>9, <1>10 DEF SInv, RestInv

LEMMA HandRests ==
    ASSUME IInv, SInv, NEW p \in Proc, Hand(p) PROVE SInv'
<1>1. /\ pc[p] = "hand" /\ Rest(p) /\ Inner(p) = "idle"
      /\ UNCHANGED <<ha, runtimes, cur, outside, locks, crossed, refused, unrestored>>
      /\ gen[p] \in 1..Runtimes /\ seen[p] \in Nat /\ file \in Nat /\ seen[p] <= file
  BY DEF Hand, IInv, CallsInv, Calls, Placed, RefersInv, Refers, Types, Points, Lists, Plain, SInv, RestInv, SeenInv
<1> PICK s \in 1..Services : s = runtimes[gen[p]].service
  BY <1>1, RuntimeIs DEF IInv, Types
<1>2. /\ \A k \in 1..Services :
            /\ services'[k].gen = services[k].gen /\ services'[k].with = services[k].with
            /\ services'[k].file = IF k = s /\ services[k].stack THEN seen[p] ELSE services[k].file
            /\ services'[k].stack = services[k].stack /\ services'[k].live = services[k].live
      /\ Services' = Services /\ Runtimes' = Runtimes
      /\ ~overtaken' => ~overtaken /\ services[s].stack /\ ~(seen[p] < services[s].file)
  <2>1. /\ services' = [services EXCEPT ![s].file = IF services[s].stack THEN seen[p] ELSE @]
        /\ overtaken' = (overtaken \/ ~services[s].stack \/ seen[p] < services[s].file)
    BY DEF Hand
  <2>2. Lists /\ seen[p] \in Nat
    BY <1>1 DEF IInv, Types
  <2>3. /\ services' \in [1..Services -> ServiceT(Runtimes)]
        /\ \A k \in 1..Services :
             /\ services'[k].gen = services[k].gen
             /\ services'[k].stack = services[k].stack /\ services'[k].live = services[k].live
    <3>1. services' = [services EXCEPT ![s].file = IF services[s].stack THEN seen[p] ELSE @]
      BY <2>1
    <3> QED BY <2>2, <3>1, FileView
  <2>5. \A k \in 1..Services \ {s} : services'[k] = services[k]
    BY <2>1, <2>2 DEF Lists
  <2>6. services'[s] = [gen |-> services[s].gen, with |-> services[s].with,
                        file |-> IF services[s].stack THEN seen[p] ELSE services[s].file,
                        stack |-> services[s].stack, live |-> services[s].live]
    BY <2>1, <2>2 DEF Lists, ServiceT
  <2>4. Services' = Services
    BY <2>2, <2>3, FunSeq DEF Lists, Services
  <2>7. ASSUME NEW k \in 1..Services
        PROVE  /\ services'[k].with = services[k].with
               /\ services'[k].file = IF k = s /\ services[k].stack THEN seen[p] ELSE services[k].file
    <3>1. CASE k = s
      BY <2>6, <3>1
    <3>2. CASE k # s
      BY <2>5, <3>2
    <3> QED BY <3>1, <3>2
  <2>8. /\ Runtimes' = Runtimes
        /\ ~overtaken' => ~overtaken /\ services[s].stack /\ ~(seen[p] < services[s].file)
    BY <1>1, <2>1 DEF Runtimes
  <2> QED BY <2>3, <2>4, <2>7, <2>8
<1>3. Aside(p) /\ Outside(p)' /\ pc'[p] = "idle" /\ Apart(p)
  BY <1>1, <1>2, OuterRest
<1>4. /\ UNCHANGED <<entry, stored, reloading, parts, file, cur, runtimes, crossed, refused, unrestored>>
      /\ ~Coming(p) /\ ~Mends(p) /\ ~Redo(p) /\ ~Started(p)' /\ ~SetsUp(p)' /\ ~Stored(p)' /\ ~Stored(p)
  <2>1. Outer(p) = "idle"
    BY <1>1 DEF IInv, CallsInv, Calls, Placed
  <2>2. ~SetsUp(p)' /\ ~Unloads(p)'
    BY <1>3, OutsideIs DEF Outside, SetsUp, Unloads, SetupAt, UnloadAt
  <2> QED BY <1>1, <1>3, <2>1, <2>2 DEF ha, tasks, outside, Coming, Mends, Undoes, Redo, Restarts, AfterRestart, Started,
             Stored, SetsUp, SetupAt
<1>5. PartsInv'
  <2>1. ~SetsUp(p)' /\ ~Unloads(p)'
    BY <1>3, OutsideIs DEF Outside, SetsUp, Unloads, SetupAt, UnloadAt
  <2> QED BY <1>3, <1>4, <2>1, PartsSame DEF SInv
<1>6. /\ Still' = Still /\ (Kept' <=> Kept) /\ (Held' <=> Held) /\ (Anew' <=> Anew)
      /\ cur # 0 => Service' = Service /\ Service \in 1..Services
  <2>1. Still' = Still
    BY <1>2 DEF Still
  <2>2. cur # 0 => Service' = Service /\ Service \in 1..Services
    <3>1. cur # 0 => cur \in 1..Runtimes
      BY DEF IInv, Types, Lists
    <3> QED BY <1>4, <3>1, RuntimeIs DEF Service, IInv, Types
  <2>3. (Kept' <=> Kept) /\ (Held' <=> Held) /\ (Anew' <=> Anew)
    BY <1>1, <1>3, <1>4, OthersRest DEF Kept, Held, Anew, Coming
  <2> QED BY <2>1, <2>2, <2>3
<1>7. WithInv'
  <2>1. cur # 0 /\ Idling => Idling'
    <3>1. \A q \in Proc : pc[q] \notin StartAt => pc'[q] \notin StartAt
      BY <1>3 DEF Aside, StartAt
    <3> QED BY <1>2, <1>4, <1>6, <3>1 DEF Idling
  <2>2. cur # 0 /\ Like(Service) => Like(Service)'
    BY <1>2, <1>4, <1>6 DEF Like
  <2>3. ASSUME NEW q \in Proc, Mends(q) PROVE Mends(q)'
    BY <1>3, <1>4, <2>3, OthersRest
  <2> QED BY <1>4, <2>1, <2>2, <2>3 DEF WithInv, SInv, RestInv
<1>8. LiveInv'
  <2>1. ASSUME NEW q \in Proc PROVE (Redo(q) => Redo(q)') /\ (Started(q)' => Started(q))
    BY <1>3, <1>4, OthersRest
  <2> QED BY <1>4, <1>6, <2>1 DEF LiveInv, SInv, RestInv
<1>9. FileInv'
  <2> SUFFICES ASSUME ~crossed, ~refused, ~overtaken, services[s].stack, ~(seen[p] < services[s].file)
               PROVE  /\ Held' => services'[Service'].file = file' \/ Anew' \/ \E q \in Proc : Handing(q)'
                      /\ \A q \in Proc : Storing(q)'
    BY <1>2, <1>4 DEF FileInv
  \* What runs is the service of the entry, which no setup is about to store.
  <2>1. gen[p] = cur /\ cur # 0 /\ s = Service /\ Serving
    <3>1. services[s].live # 0
      BY DEF IInv, CountInv, Stacked
    <3>2. cur # 0 /\ s = Service /\ Serving
      BY <3>1 DEF IInv, OneInv, Only, Service
    <3>3. services[s].gen = gen[p]
      BY <1>1 DEF IInv, RefersInv, Owned
    <3>4. cur \in 1..Runtimes
      BY <3>2 DEF IInv, Types, Lists
    <3>5. services[s].gen = cur
      BY <3>2, <3>4 DEF IInv, RefersInv, Owned, Service
    <3> QED BY <3>2, <3>3, <3>5
  <2>2. ASSUME NEW q \in Proc PROVE pc[q] # "store" /\ pc'[q] # "store"
    <3>1. SetsUp(q) => entry = "setup" /\ setupLock = q
      BY DEF IInv, LockInv, Locked, Stage
    <3>2. pc[q] # "store"
      BY <2>1, <3>1 DEF Serving, Leaving, SetsUp, SetupAt
    <3> QED BY <1>3, <3>2 DEF Aside
  <2>3. ASSUME services[s].file = file \/ seen[p] = file PROVE services'[Service'].file = file'
    <3>1. services'[s].file = seen[p] /\ Service' = s /\ file' = file
      BY <1>2, <1>4, <1>6, <2>1
    <3>2. seen[p] = file
      BY <1>1, <2>3
    <3> QED BY <3>1, <3>2
  <2>4. ASSUME Held' PROVE services'[Service'].file = file' \/ Anew' \/ \E q \in Proc : Handing(q)'
    <3>1. Held
      BY <1>6, <2>4
    <3>2. ASSUME NEW q \in Proc, Handing(q), q # p PROVE Handing(q)'
      BY <1>3, <1>4, <3>2, OthersRest
    <3>3. Handing(p) => seen[p] = file
      BY <1>1, <2>1 DEF Handing, Latest
    <3> QED BY <1>6, <2>1, <2>3, <3>1, <3>2, <3>3 DEF SInv, RestInv, FileInv
  <2> QED BY <2>2, <2>4 DEF Storing
<1>10. SeenInv'
  BY <1>3, <1>4, SeenKept DEF SInv
<1> QED BY <1>5, <1>7, <1>8, <1>9, <1>10 DEF SInv, RestInv

LEMMA RefreshRests ==
    ASSUME IInv, SInv, NEW p \in Proc, Refresh(p) PROVE SInv'
<1>1. /\ pc[p] = "idle" /\ Inner(p) = "idle"
      /\ UNCHANGED <<entry, stored, made, parts, locks, listening, obj, was, want, seen, history>>
  BY DEF Refresh, Fresh, Idle, IInv, CallsInv, Calls, Placed
<1>2. /\ UNCHANGED <<entry, stored, parts, cur, runtimes, services, crossed, refused, overtaken, unrestored>>
      /\ ~Coming(p) /\ ~Mends(p) /\ ~Redo(p)
  <2>1. Outer(p) = "idle"
    BY <1>1 DEF IInv, CallsInv, Calls, Placed
  <2> QED BY <1>1, <2>1 DEF made, history, Coming, Mends, Undoes, Redo, Restarts, AfterRestart
<1>3. Still' = Still /\ Service' = Service
  BY <1>2 DEF Still, Services, Service
<1>9. ASSUME NEW q \in Proc, pc[q] = "hand", pc'[q] = "hand" PROVE seen'[q] <= file'
  <2>1. seen[q] \in Nat /\ file \in Nat /\ seen[q] <= file /\ seen' = seen /\ file' = file + 1
    BY <1>1, <1>9 DEF Refresh, IInv, Types, Points, Plain, SInv, RestInv, SeenInv
  <2> QED BY <2>1
<1>4. CASE cur = 0
  <2>1. UNCHANGED <<control, gen>> /\ entry # "loaded" /\ reloading' > 0
    BY <1>4 DEF Refresh, IInv, Types, Plain, LockInv, EntryInv
  <2>2. Aside(p) /\ pc'[p] = "idle" /\ Inner(p)' = "idle" /\ \A q \in Proc : result'[q] = result[q]
    BY <1>1, <2>1, OuterIdle DEF control, Outside
  <2>3. PartsInv'
    <3>1. ~SetsUp(p)' /\ ~Unloads(p)'
      BY <2>2 DEF SetsUp, Unloads, SetupAt, UnloadAt
    <3> QED BY <1>2, <2>2, <3>1, PartsSame DEF SInv
  <2>4. WithInv'
    BY <1>2, <1>4 DEF WithInv
  <2>5. Anew' /\ \A q \in Proc : Storing(q)' /\ (Started(q)' => Started(q))
    BY <2>1, <2>2 DEF Anew, Storing, Started, control
  <2>6. LiveInv' /\ FileInv'
    BY <1>2, <1>3, <2>5 DEF LiveInv, FileInv, SInv, RestInv
  <2>7. SeenInv'
    BY <1>9, <2>1 DEF SeenInv, control
  <2> QED BY <2>3, <2>4, <2>6, <2>7 DEF SInv, RestInv
<1>5. CASE cur # 0
  <2>1. Goto(p, "fread") /\ gen' = [gen EXCEPT ![p] = cur] /\ reloading' = reloading
    BY <1>5 DEF Refresh
  <2>2. Aside(p) /\ pc'[p] = "fread" /\ Inner(p)' = "idle"
    <3>1. Outer(p) = "idle"
      BY <1>1 DEF IInv, CallsInv, Calls, Placed
    <3>2. Placed("fread", Outer(p), Inner(p)) /\ "fread" \in Label
      BY <1>1, <3>1 DEF Placed, Label, RestartAt, SetupAt, UnloadAt, StartAt, AfterRestart, AfterSetup, AfterUnload
    <3> QED BY <1>1, <2>1, <3>2, GotoStep
  <2>3. Apart(p) /\ Latest(p)'
    BY <1>1, <1>2, <2>1, <2>2 DEF Apart, Latest, IInv, Types, Points
  <2>4. PartsInv'
    <3>1. ~SetsUp(p)' /\ ~Unloads(p)'
      BY <2>2 DEF SetsUp, Unloads, SetupAt, UnloadAt
    <3> QED BY <1>2, <2>2, <3>1, PartsSame DEF SInv
  <2>5. WithInv'
    <3>1. Idling => Idling'
      <4>1. \A q \in Proc : pc[q] \notin StartAt => pc'[q] \notin StartAt
        BY <2>2 DEF Aside, StartAt
      <4> QED BY <1>2, <1>3, <4>1 DEF Idling
    <3>2. Like(Service) => Like(Service)'
      BY <1>2, <1>3 DEF Like
    <3>3. ASSUME NEW q \in Proc, Mends(q) PROVE Mends(q)'
      BY <1>2, <2>2, <2>3, <3>3, OthersRest
    <3> QED BY <1>2, <3>1, <3>2, <3>3 DEF WithInv, SInv, RestInv
  <2>6. LiveInv'
    <3>1. ASSUME NEW q \in Proc PROVE (Redo(q) => Redo(q)') /\ (Started(q)' => Started(q))
      BY <1>2, <2>2, <2>3, OthersRest DEF Started
    <3>2. (Kept' <=> Kept) /\ (Anew' <=> Anew)
      BY <1>1, <1>2, <2>1, <2>2, <2>3, OthersRest DEF Kept, Anew, Coming
    <3> QED BY <1>2, <1>3, <3>1, <3>2 DEF LiveInv, SInv, RestInv
  <2>7. FileInv'
    BY <2>3 DEF FileInv, Storing, Handing
  <2>8. SeenInv'
    <3>1. ASSUME NEW q \in Proc, pc'[q] = "hand" PROVE pc[q] = "hand"
      BY <2>2, <3>1 DEF Aside
    <3> QED BY <1>9, <3>1 DEF SeenInv
  <2> QED BY <2>4, <2>5, <2>6, <2>7, <2>8 DEF SInv, RestInv
<1> QED BY <1>4, <1>5

LEMMA ReadFileRests ==
    ASSUME IInv, SInv, NEW p \in Proc, ReadFile(p) PROVE SInv'
<1>1. /\ pc[p] = "fread" /\ Goto(p, "hand") /\ seen' = [seen EXCEPT ![p] = file]
      /\ UNCHANGED <<ha, made, outside, locks, gen, obj, was, want, history, spent>>
  BY DEF ReadFile
<1>2. Outer(p) = "idle" /\ Inner(p) = "idle" /\ file \in Nat /\ seen \in [Proc -> Nat]
  BY <1>1 DEF IInv, CallsInv, Calls, Placed, Types, Points, Plain
<1>3. Aside(p) /\ pc'[p] = "hand" /\ Inner(p)' = "idle"
  <2>1. Placed("hand", Outer(p), Inner(p)) /\ "hand" \in Label
    BY <1>2 DEF Placed, Label, RestartAt, SetupAt, UnloadAt, StartAt, AfterRestart, AfterSetup, AfterUnload
  <2> QED BY <1>1, <1>2, <2>1, GotoStep
<1>4. /\ UNCHANGED <<entry, stored, reloading, parts, file, cur, crossed, refused, overtaken, unrestored>>
      /\ Alike /\ Apart(p) /\ Latest(p)' /\ seen'[p] <= file
      /\ ~Mends(p) /\ ~Coming(p) /\ ~Redo(p) /\ ~Started(p)' /\ ~Stored(p)' /\ pc'[p] \notin StartAt
  <2>1. UNCHANGED <<entry, stored, reloading, parts, file, cur, crossed, refused, overtaken, unrestored>> /\ Alike
    BY <1>1, AlikeSame DEF ha, made, tasks, outside, history
  <2>2. Apart(p) /\ Latest(p)' /\ seen'[p] <= file
    BY <1>1, <1>2, <1>3, <2>1 DEF Apart, Latest
  <2>3. ~Mends(p) /\ ~Coming(p) /\ ~Redo(p)
    BY <1>1, <1>2 DEF Mends, Undoes, Coming, Redo, Restarts, AfterRestart
  <2>4. ~Started(p)' /\ ~Stored(p)' /\ pc'[p] \notin StartAt
    BY <1>3 DEF Started, Stored, SetsUp, SetupAt, StartAt
  <2> QED BY <2>1, <2>2, <2>3, <2>4
<1>5. PartsInv'
  <2>1. ~SetsUp(p)' /\ ~Unloads(p)'
    BY <1>3 DEF SetsUp, Unloads, SetupAt, UnloadAt
  <2> QED BY <1>3, <1>4, <2>1, PartsSame DEF SInv
<1>6. entry' = "loaded" => Kept
  BY <1>4 DEF Kept
<1> QED BY <1>3, <1>4, <1>5, <1>6, Calm DEF SInv

LEMMA TogglePanelRests ==
    ASSUME IInv, SInv, TogglePanel PROVE SInv'
<1>1. UNCHANGED <<entry, made, outside, locks, reloading, control, locals, history>>
  BY DEF TogglePanel
<1>2. stored'.rest = stored.rest /\ stored'.data = stored.data
  BY DEF TogglePanel, Update, IInv, Types, Plain, Setting
<1>3. \A q \in Proc : Outer(q)' = Outer(q) /\ Inner(q)' = Inner(q) /\ pc'[q] = pc[q]
  BY <1>1 DEF Outer, Inner, control
<1>4. PartsInv'
  BY <1>1, <1>3 DEF SInv, PartsInv, EntryParts, PartsAt, outside
<1>5. WithInv'
  BY <1>1, <1>2, <1>3 DEF SInv, RestInv, WithInv, Like, Idling, Mends, Undoes, Service, made, control,
     history
<1>6. LiveInv'
  BY <1>1, <1>3 DEF SInv, RestInv, LiveInv, Kept, Still, Services, Anew, Coming, Redo, Restarts, Started, made, control,
     history
<1>7. FileInv'
  BY <1>1, <1>3 DEF SInv, RestInv, FileInv, Held, Stored, SetsUp, Without, Kept, Anew, Coming, Handing, Latest, Storing,
     Service, made, outside, locals, history
<1>8. SeenInv'
  BY <1>1, <1>3 DEF SInv, RestInv, SeenInv, outside, locals
<1> QED BY <1>4, <1>5, <1>6, <1>7, <1>8 DEF SInv, RestInv

LEMMA InitRests == Init => SInv
<1> SUFFICES ASSUME Init PROVE SInv
  OBVIOUS
<1>1. /\ entry = "off" /\ cur = 0 /\ parts = {} /\ reloading = 1
      /\ pc = [p \in Proc |-> "idle"] /\ ret = [p \in Proc |-> <<>>]
  BY DEF Init
<1>2. ASSUME NEW p \in Proc PROVE pc[p] = "idle" /\ Inner(p) = "idle"
  BY <1>1, EmptySeq DEF Inner
<1>3. PartsInv
  BY <1>1, <1>2 DEF PartsInv, EntryParts, PartsAt
<1>4. RestInv
  BY <1>1, <1>2 DEF RestInv, WithInv, LiveInv, FileInv, SeenInv, Held, Stored, SetsUp, SetupAt, Kept, Started, Storing
<1> QED BY <1>3, <1>4 DEF SInv

LEMMA NextRests == IInv /\ SInv /\ [Next]_vars => SInv'
<1> SUFFICES ASSUME IInv, SInv, [Next]_vars PROVE SInv'
  OBVIOUS
<1>1. CASE UNCHANGED vars
  <2>1. UNCHANGED <<entry, stored, cur, runtimes, services, parts, file, reloading, pc, ret, result, gen,
                    seen, crossed, overtaken, refused, unrestored>>
    BY <1>1 DEF vars, ha, made, outside, control, locals, history, tasks
  <2>2. PartsInv'
    BY <2>1 DEF SInv, PartsInv, EntryParts, PartsAt, Inner
  <2>3. WithInv'
    BY <2>1 DEF SInv, RestInv, WithInv, Like, Idling, Mends, Undoes, Outer, Service
  <2>4. LiveInv'
    BY <2>1 DEF SInv, RestInv, LiveInv, Kept, Still, Services, Anew, Coming, Outer, Inner, Redo, Restarts, Started
  <2>5. FileInv'
    BY <2>1 DEF SInv, RestInv, FileInv, Held, Stored, SetsUp, Without, Kept, Anew, Coming, Outer, Inner, Handing, Latest,
       Storing, Service
  <2>6. SeenInv'
    BY <2>1 DEF SInv, RestInv, SeenInv
  <2> QED BY <2>2, <2>3, <2>4, <2>5, <2>6 DEF SInv, RestInv
<1>2. CASE TogglePanel
  BY <1>2, TogglePanelRests
<1>3. ASSUME NEW p \in Proc, Begin(p) PROVE SInv'
  BY <1>3, PutOptionsRests, PutSettingsRests, ListenRests, ReloadRests, RefreshRests DEF Begin
<1>4. ASSUME NEW p \in Proc, Go(p) PROVE SInv'
  <2>1. CASE Check(p) \/ Run(p) \/ Reloaded(p) \/ ReloadEnd(p) \/ ReadFile(p) \/ Hand(p)
    BY <2>1, CheckRests, RunRests, ReloadedRests, ReloadEndRests, ReadFileRests, HandRests
  <2>2. CASE Restart(p)
    BY <2>2, RestartLockRests, RestartStopRests, RestartMakeRests, RestartUnreadRests, RestartDoneRests DEF Restart
  <2>3. CASE Setup(p)
    BY <2>3, SetupBeginRests, SetupBridgeRests, SetupReadRests, SetupStoreRests, SetupPlatformsRests, SetupHubRests,
       SetupDoneRests, SetupUndoRests, SetupUndoneRests DEF Setup
  <2>4. CASE Unload(p)
    BY <2>4, UnloadBeginRests, UnloadPlatformsRests, UnloadLockRests, UnloadStopRests, UnloadHubRests,
       UnloadBridgeRests DEF Unload
  <2>5. CASE Panel(p)
    BY <2>5, SavedRests, UnsavedRests, ChangeRests, ChangeFailsRests, UnchangedRests, ChangedRests, RollbackRests,
       RestoredRests, ListenedRests DEF Panel
  <2> QED BY <1>4, <2>1, <2>2, <2>3, <2>4, <2>5 DEF Go
<1> QED BY <1>1, <1>2, <1>3, <1>4 DEF Next

\* Once nothing goes on, nothing is still to come.
LEMMA SettledHolds ==
    ASSUME IInv, SInv PROVE Settled
<1> SUFFICES ASSUME Quiet, ~crossed
             PROVE  \/ /\ entry = "loaded" /\ cur # 0 /\ parts = Part
                       /\ \/ Live = {} /\ refused
                          \/ /\ Live = {Service} /\ (Like(Service) \/ unrestored)
                             /\ services[Service].file = file \/ overtaken \/ refused
                    \/ entry \in {"off", "failed"} /\ Bare /\ Live = {} /\ parts \subseteq {"bridge"}
                    \/ entry = "stuck" /\ Live = {} /\ parts = {"bridge"}
  BY DEF Settled, Service, Like, Bare, WithoutPanel
<1>1. reloading = 0 /\ \A p \in Proc : pc[p] = "idle" /\ Inner(p) = "idle"
  BY DEF Quiet, Idle, IInv, CallsInv, Calls, Placed
<1>2. /\ \A p \in Proc : ~SetsUp(p) /\ ~Unloads(p) /\ ~Coming(p) /\ ~Mends(p) /\ ~Redo(p) /\ ~Handing(p)
      /\ ~Anew
  <2>1. \A p \in Proc : Outer(p) = "idle"
    BY <1>1 DEF IInv, CallsInv, Calls, Placed
  <2> QED BY <1>1, <2>1 DEF SetsUp, Unloads, SetupAt, UnloadAt, Coming, Mends, Undoes, Redo, Restarts, AfterRestart,
             Handing, Latest, Anew
<1>3. entry \in {"off", "failed", "loaded", "stuck"}
  BY <1>2 DEF IInv, Types, Plain, LockInv, EntryInv
<1>4. ASSUME NEW s \in Live PROVE s = Service /\ services[s].live # 0 /\ services[s].stack /\ entry = "loaded"
  <2>1. s \in 1..Services /\ services[s].live > 0
    BY DEF Live, IInv, Types, Lists
  <2> QED BY <1>3, <2>1 DEF IInv, OneInv, Only, Serving, Leaving, Service
<1>5. CASE entry = "loaded"
  <2>1. cur # 0 /\ parts = Part
    BY <1>5 DEF IInv, LockInv, EntryInv, SInv, PartsInv, EntryParts
  <2>2. CASE Live = {}
    <3>1. Still
      BY SMTT(30), <2>2, ServiceIs DEF Live, Still, IInv, Types, Lists
    <3>2. refused
      BY <1>2, <1>5, <3>1 DEF SInv, RestInv, LiveInv, Kept
    <3> QED BY <1>5, <2>1, <2>2, <3>2
  <2>3. CASE Live # {}
    <3>1. Live = {Service} /\ services[Service].stack
      BY <1>4, <2>3
    <3>2. Like(Service) \/ unrestored
      BY <1>2, <2>1, <3>1 DEF SInv, RestInv, WithInv, Idling
    <3>3. services[Service].file = file \/ overtaken \/ refused
      BY <1>2, <1>5 DEF SInv, RestInv, FileInv, Held, Kept
    <3> QED BY <1>5, <2>1, <3>1, <3>2, <3>3
  <2> QED BY <2>2, <2>3
<1>6. CASE entry # "loaded"
  <2>1. Live = {}
    BY <1>4, <1>6
  <2> QED BY <1>3, <1>6, <2>1 DEF IInv, LockInv, EntryInv, SInv, PartsInv, EntryParts
<1> QED BY <1>5, <1>6

\* How far a setup or an unload has come tells what else of the entry is
\* started; a service that has not the stored options or the file last written
\* has a restart, a reload or a hand-over still to come (__init__.py:141-330,
\* panel.py).  The inductive invariant that Settled rests on.
THEOREM Resting == Spec => [](IInv /\ SInv)
<1>1. Init => IInv /\ SInv
  BY InitKeeps, InitRests
<1>2. IInv /\ SInv /\ [Next]_vars => (IInv /\ SInv)'
  BY NextKeeps, NextRests
<1> QED BY <1>1, <1>2, PTL DEF Spec

\* However saves, restarts, reloads, setups, unloads and files handed over come
\* between each other and fail, once nothing goes on a loaded entry has all its
\* parts and one service, with the stored options and the device file last
\* written, and any other entry has nothing that runs (__init__.py, panel.py).
THEOREM Settles == Spec => []Settled
<1>1. IInv /\ SInv => Settled
  BY SettledHolds
<1> QED BY <1>1, Resting, PTL
=============================================================================
