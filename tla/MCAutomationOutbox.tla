------------------------ MODULE MCAutomationOutbox ------------------------
(***************************************************************************)
(* The one consumer that the documentation asks for, on small instances of *)
(* which one runs at a time: its queue of events of every topic, where     *)
(* what an execution does is left open, and the way of one outbound        *)
(* message through queue and dispatch.                                     *)
(***************************************************************************)
EXTENDS OutboundDelivery, TLC

VARIABLE part           \* what runs

AllKinds == {<<"inbound", "none">>, <<"inbound", "open">>,
             <<"inbound", "closing">>, <<"notification", "none">>,
             <<"collection", "none">>, <<"outbound", "none">>}

consumerVars == <<part, deliveryVars>>

ConsumerInit == part \in {"queue", "message"} /\ DInit

\* One message, of four executions.
OneMessage == Cardinality(Rows) <= 1 /\ Cardinality(DOMAIN execution) <= 4

ConsumerNext ==
    /\ UNCHANGED part
    /\ \/ part = "queue" /\ Next /\ UNCHANGED dispatchVars
       \/ part = "message" /\ DNext /\ OneMessage'

ConsumerSpec == ConsumerInit /\ [][ConsumerNext]_consumerVars

Symmetry == Permutations(Execution) \cup Permutations(Event)
=============================================================================
