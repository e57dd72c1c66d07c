-------------------------- MODULE MCBridgeRegistry --------------------------
(***************************************************************************)
(* Small instances of BridgeRegistry for TLC: what happens in a run is any *)
(* one of a set of budgets; the device files it sees and the symmetry of   *)
(* the device ids.                                                         *)
(***************************************************************************)
EXTENDS BridgeRegistry, TLC

DeviceSymmetry == Permutations(Device)

AllDevices == {Device}
AllOrNone  == {Device, {}}

None == [k \in Kind |-> 0]

\* Changes, another client's page, a lost answer or connection and a client that
\* stops; and callers of registry() beside the changes, a slow answer, or topics
\* that move as the client stops.
PagesBudgets ==
    {[None EXCEPT !.add = 1, !.remove = 1, !.foreign = 1, !.sync = 1, !.stop = 1],
     [None EXCEPT !.add = 1, !.remove = 1, !.loss = 1, !.sync = 1],
     [None EXCEPT !.add = 1, !.foreign = 1, !.loss = 1, !.sync = 1],
     [None EXCEPT !.add = 1, !.reconfigure = 1, !.sync = 1, !.refresh = 1, !.stop = 1],
     [None EXCEPT !.add = 1, !.foreign = 1, !.slow = 1, !.sync = 1, !.refresh = 1],
     [None EXCEPT !.add = 1, !.remove = 1, !.sync = 1, !.refresh = 1]}

\* A request or the connection lost around a removal that no total betrays, or
\* a move of the topics.
LiveBudgets ==
    {[None EXCEPT !.remove = 1, !.foreign = 1, !.loss = 1, !.reconfigure = 1, !.sync = 1]}
=============================================================================
