--------------------------- MODULE RegistryCache ----------------------------
(***************************************************************************)
(* What BridgeClient promises of its registry: it may be out of date, but  *)
(* when it is `fresh` it is the truth, it becomes fresh only by taking the *)
(* whole truth at once, and a change of the truth makes it stale in the    *)
(* same step.                                                              *)
(***************************************************************************)
CONSTANTS Device, NULL

VARIABLES
    truth,      \* the devices the bridge holds
    view,       \* the client's idea of them; NULL: none yet
    fresh       \* the client vouches for its view

cacheVars == <<truth, view, fresh>>

Init == truth \in SUBSET Device /\ view = NULL /\ fresh = FALSE

\* The bridge takes a command.
Change == truth' \in SUBSET Device /\ fresh' = FALSE /\ UNCHANGED view

\* News of a change, or the loss of the connection.
Doubt == fresh' = FALSE /\ UNCHANGED <<truth, view>>

\* Partial news: the view moves, without a claim that it is right.
Learn == ~fresh /\ fresh' = FALSE /\ view' \in SUBSET Device /\ UNCHANGED truth

\* The whole truth is read.
Settle == ~fresh /\ fresh' = TRUE /\ view' = truth /\ UNCHANGED truth

Next == Change \/ Doubt \/ Learn \/ Settle

Spec == Init /\ [][Next]_cacheVars
=============================================================================
