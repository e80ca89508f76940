------------------------- MODULE MCInboundAutomation -------------------------
(* The answers to a conversation on a small instance. *)
EXTENDS InboundAutomation, FiniteSets

\* With messages of media one thing more is followed: an operation of people, a return of
\* the conversation, or a retry.
TextsFirst ==
    LET operated == version - 1 - Cardinality(DOMAIN transition)
        retried == {e \in Received : event[e].attempts > 1}
    IN  (\E e \in Received : event[e].kind = "media") => operated + Cardinality(retried) <= 1
=============================================================================
