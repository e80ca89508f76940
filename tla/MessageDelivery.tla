-------------------------- MODULE MessageDelivery --------------------------
(***************************************************************************)
(* What the delivery of outbound messages promises, whatever claims,       *)
(* leases, retries and reconciliations implement it: a message reaches the *)
(* customer at most once, it is shown as sent only when it did, and a sent *)
(* message never goes back.  A message shown as failed may be reopened, or *)
(* turn out to have been sent.                                             *)
(***************************************************************************)
CONSTANTS Message, Token

VARIABLES
    shown,   \* message |-> the delivery status the panel shows
    inbox    \* <<message, token>>: the copies on the customer's phone

deliveryVars == <<shown, inbox>>

Reached(m) == \E t \in Token : <<m, t>> \in inbox

Init == shown = << >> /\ inbox = {}

Request(m) ==
    /\ m \notin DOMAIN shown
    /\ shown' = [n \in DOMAIN shown \cup {m} |->
                   IF n = m THEN "pending" ELSE shown[n]]
    /\ UNCHANGED inbox

Reach(m, t) ==
    /\ ~Reached(m)
    /\ inbox' = inbox \cup {<<m, t>>}
    /\ UNCHANGED shown

Show(m, status) ==
    /\ shown[m] # "sent"
    /\ status = "sent" => Reached(m)
    /\ shown' = [shown EXCEPT ![m] = status]
    /\ UNCHANGED inbox

Next ==
    \/ \E m \in Message : Request(m)
    \/ \E m \in DOMAIN shown :
          \/ \E t \in Token : Reach(m, t)
          \/ \E status \in {"pending", "sent", "failed"} : Show(m, status)

Spec == Init /\ [][Next]_deliveryVars

=============================================================================
