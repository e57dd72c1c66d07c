-------------------------- MODULE MCBridgeCommand --------------------------
(***************************************************************************)
(* Small instances of BridgeCommand for TLC.                               *)
(***************************************************************************)
EXTENDS BridgeCommand, TLC

Nothing == [k \in Kind |-> 0]

CallerSymmetry == Permutations(Caller)

CommandBudgets ==
    {[Nothing EXCEPT !.foreign = 2, !.link = 1, !.config = 1],
     [Nothing EXCEPT !.foreign = 2, !.link = 1, !.loss = 1],
     [Nothing EXCEPT !.ask = 1, !.foreign = 1, !.config = 1],
     [Nothing EXCEPT !.ask = 2, !.loss = 1],
     [Nothing EXCEPT !.ask = 2, !.expire = 1, !.error = 1],
     [Nothing EXCEPT !.ask = 2, !.twice = 1],
     [Nothing EXCEPT !.ask = 2, !.link = 1, !.state = 1, !.stop = 1],
     [Nothing EXCEPT !.ask = 2, !.link = 1, !.state = 1, !.loss = 1]}
=============================================================================
