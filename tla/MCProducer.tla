----------------------------- MODULE MCProducer -----------------------------
(***************************************************************************)
(* Small instances of Producer for TLC: two clients, and what happens to   *)
(* them in each run, any one of a set of budgets.                          *)
(***************************************************************************)
EXTENDS Producer, TLC

ClientSymmetry == Permutations(Client)

None == [k \in Kind |-> 0]

\* Services that start and restart, one of them refused, beside a purge, and a
\* timeout that comes too early; and producers that stop, die or lose their
\* connection, with wills that come late.
SharedBudgets ==
    {[None EXCEPT !.start = 3, !.purge = 1, !.restart = 1, !.slow = 1],
     [None EXCEPT !.start = 2, !.stop = 1, !.crash = 1, !.drop = 1]}

\* A start that fails, a stop and a move to another source; and a purge, after
\* a service or beside one: with a broker that is away or slow.
EndsBudgets ==
    {[None EXCEPT !.start = 1, !.stop = 1, !.retire = 1, !.fail = 1, !.drop = 1,
                  !.slow = 1, !.silent = 1, !.late = 1],
     [None EXCEPT !.start = 1, !.stop = 1, !.purge = 1, !.silent = 1, !.late = 1],
     [None EXCEPT !.start = 1, !.purge = 1, !.drop = 1, !.silent = 1],
     [None EXCEPT !.purge = 1, !.drop = 2, !.silent = 1]}
=============================================================================
