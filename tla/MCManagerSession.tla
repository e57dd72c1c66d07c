------------------------- MODULE MCManagerSession --------------------------
(***************************************************************************)
(* Small instances of ManagerSession for TLC.                              *)
(***************************************************************************)
EXTENDS ManagerSession, TLC

None == [k \in Kind |-> 0]

\* Two users of the session at a time, every pair of kinds; and a third request.
SafeBudgets ==
    {[None EXCEPT !.setup = 1, !.configure = 1, !.fetch = 1, !.fail = 1],
     [None EXCEPT !.fetch = 2, !.list = 1, !.fail = 1, !.slow = 1],
     [None EXCEPT !.setup = 1, !.list = 1, !.fail = 1, !.retry = 1, !.slow = 1],
     [None EXCEPT !.configure = 2, !.slow = 1]}
=============================================================================
