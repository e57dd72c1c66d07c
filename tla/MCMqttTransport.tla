-------------------------- MODULE MCMqttTransport --------------------------
(***************************************************************************)
(* Small instances of MqttTransport for TLC.                               *)
(***************************************************************************)
EXTENDS MqttTransport

None == [k \in Kind |-> 0]

\* Drops and reconnects while the subscriptions change; and messages that are
\* handled while it is closed from two sides.
TransportBudgets ==
    {[None EXCEPT !.sub = 3, !.unsub = 2, !.drop = 2],
     [None EXCEPT !.sub = 2, !.unsub = 1, !.drop = 1, !.msg = 2, !.close = 2],
     [None EXCEPT !.sub = 1, !.msg = 3, !.drop = 1, !.close = 4, !.cancel = 2]}
=============================================================================
