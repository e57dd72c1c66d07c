--------------------------- MODULE MCIlPublisher ----------------------------
(***************************************************************************)
(* Small instances of IlPublisher for TLC.                                 *)
(***************************************************************************)
EXTENDS IlPublisher

CONSTANTS d1, d2, f, p, q, r1, r2, o1, o2

None == [k \in Kind |-> 0]

\* Overrides o2 hide a property; nothing is refused.
HideShape == [x \in Record \X Overrides |-> IF x[2] = o1 THEN {p, q} ELSE {p}]

\* r2 is refused under o1 only.
PickyShape == [x \in Record \X Overrides |->
    IF x = <<r2, o1>> THEN REFUSED ELSE IF x[2] = o1 THEN {p, q} ELSE {p}]

\* A service whose devices and rules change, and which crashes or stops without
\* its broker; and one whose rules are edited between two runs of several syncs.
CrashBudgets ==
    {[None EXCEPT !.sync = 2, !.reload = 1, !.state = 1, !.crash = 1, !.stop = 1, !.lose = 1],
     [None EXCEPT !.sync = 3, !.state = 1, !.stop = 2, !.edit = 1]}

\* Links, states and reconnects of a device whose rules change, by the
\* watcher or a setting being saved, while the Runner runs and stops.
RulesBudgets ==
    {[None EXCEPT !.sync = 2, !.reload = 1, !.save = 1, !.link = 1, !.state = 1,
                  !.reconnect = 1, !.stop = 1]}
=============================================================================
