-------------------------- MODULE MCEntryLifecycle --------------------------
(***************************************************************************)
(* Small instances of EntryLifecycle for TLC: what is asked of the entry   *)
(* in one run is any one of a set of budgets.                              *)
(***************************************************************************)
EXTENDS EntryLifecycle

None == [k \in Kind |-> 0]

\* A save beside a reload, each with what can fail in it.
EntryBudgets ==
    {[None EXCEPT !.options = 1, !.reload = 1, !.start = 2, !.panel = 1],
     [None EXCEPT !.options = 1, !.file = 1, !.start = 1, !.stop = 1],
     [None EXCEPT !.options = 1, !.file = 1, !.start = 1, !.part = 1],
     [None EXCEPT !.settings = 1, !.reload = 1, !.start = 1, !.part = 1, !.stuck = 1],
     [None EXCEPT !.settings = 1, !.reload = 2, !.refuse = 1],
     [None EXCEPT !.settings = 1, !.options = 1, !.refuse = 1, !.start = 1],
     [None EXCEPT !.settings = 1, !.file = 2, !.start = 1],
     [None EXCEPT !.options = 2, !.reload = 1],
     [None EXCEPT !.options = 1, !.refuse = 1, !.start = 2],
     [None EXCEPT !.file = 1, !.refuse = 1]}

\* What is asked and fails where a restart crosses a setup or an unload: the
\* properties but for Answered claim nothing past that.
CrossedBudgets ==
    {[None EXCEPT !.options = 1, !.reload = 1, !.start = 1],
     [None EXCEPT !.options = 1, !.start = 1, !.stop = 1],
     [None EXCEPT !.options = 1, !.part = 1],
     [None EXCEPT !.settings = 1, !.start = 1, !.part = 1],
     [None EXCEPT !.settings = 1, !.refuse = 1, !.stuck = 1]}

CrossedWithin == crossed => \E b \in CrossedBudgets : \A k \in Kind : spent[k] <= b[k]

\* An option saved at any time, and nothing that fails.
StrayBudgets == {[None EXCEPT !.options = 1, !.reload = 1]}
=============================================================================
