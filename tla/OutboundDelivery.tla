-------------------------- MODULE OutboundDelivery --------------------------
(***************************************************************************)
(* The outbox and the dispatch together: every outbound event carries one  *)
(* message, the execution of the event delivers it through the provider,   *)
(* and the completion of the event depends on, and changes, the rows of    *)
(* the message (processRequestedOutbound and deliverPersistedMessage of    *)
(* the API provider, completeOutboxExecution, reconcileAutomationOutbox).  *)
(*                                                                         *)
(* An outbound event and its message have the same name; the caller of the *)
(* dispatch is the execution.  Generation g of an event names attempt g+1. *)
(***************************************************************************)
EXTENDS AutomationOutbox

\* Outbound events are among those that producers enqueue.
ASSUME OutboundArrives == <<"outbound", "none">> \in Arrival

VARIABLES message, attempt, claims, results, external, call

D == INSTANCE EvolutionDispatch WITH
        Message <- Event, Caller <- Execution, NoId <- NoExecution,
        MaxGeneration <- MaxGenerations + 1

dispatchVars == <<message, attempt, claims, results, external, call>>
deliveryVars == <<outboxVars, dispatchVars>>

-----------------------------------------------------------------------------

\* The attempt named by the payload execution x was handed.
AttemptOf(x) == <<EventOf(x), task[x].generation + 1>>

DInit == Init /\ D!Init

\* The message, its first attempt and the event are created in one transaction.
Request(e, c, n) ==
    /\ Enqueue(e, c, n, <<"outbound", "none">>)
    /\ D!Create(e)

StartDelivery(x) ==
    /\ task[x].at = "executing"
    /\ D!Begin(x, AttemptOf(x))
    /\ UNCHANGED outboxVars

\* Nothing but its own crash interrupts a call.
ContinueDelivery(x) == D!Deliver(x) /\ UNCHANGED outboxVars

\* execute() completes with success when the call returns.
ReturnDelivered(x) ==
    /\ call[x].at = "delivered"
    /\ Succeed(x)
    /\ UNCHANGED dispatchVars

\* The call throws; before it, reading the media may (retryable), and a kind that
\* cannot be sent does (terminal).
Throw(x, outcome) ==
    /\ x \in DOMAIN call => call[x].at = outcome
    /\ Fail(x, outcome)
    /\ UNCHANGED dispatchVars

\* Both rows carry the same final result.
Persisted(k) ==
    \/ /\ message[k[1]].delivery = "sent"
       /\ attempt[k].status = "succeeded" /\ attempt[k].dispatch = "succeeded"
    \/ /\ message[k[1]].delivery = "failed"
       /\ attempt[k].status = "failed" /\ attempt[k].dispatch = "failed"

\* A success is refused until the result of the provider is persisted.
Check(x) ==
    /\ CheckCompletion(x)
    /\ task[x].at = "completing" => Persisted(AttemptOf(x))
    /\ UNCHANGED dispatchVars

RefuseUnpersisted(x) ==
    /\ task[x].at = "completing"
    /\ ~task[x].checked
    /\ Holds(x)
    /\ ~Persisted(AttemptOf(x))
    /\ CompletionFails(x)
    /\ UNCHANGED <<outbox, execution, absorbed, checkpoint, dispatchVars>>

\* An event that dies before its attempt was claimed fails the message with it.
Write(x) ==
    LET k == AttemptOf(x)
    IN  /\ WriteCompletion(x)
        /\ IF Completed(outbox[EventOf(x)], x).status = "dead" /\ D!Undispatched(k)
           THEN D!FailUndispatched(k)
           ELSE UNCHANGED dispatchVars

Settle(e) ==
    \/ ReconcileSent(e) /\ \E id \in DOMAIN call : D!ConfirmSent(e, id)
    \/ ReconcileNotSent(e) /\ D!ConfirmNotSent(e)

\* The steps of the outbox that leave the message alone.
Housekeeping ==
    /\ \/ \E w \in Worker : Claim(w)
       \/ \E e \in Rows : TimePasses(e)
       \/ \E x \in Live : \/ Accept(x) \/ AcceptLate(x) \/ AcceptRefused(x)
                          \/ AcceptFails(x) \/ Reject(x) \/ RejectThrows(x)
                          \/ CompletionRefused(x) \/ CompletionFaults(x)
    /\ UNCHANGED dispatchVars

Surroundings ==
    /\ \/ \E x \in DOMAIN call : D!Transmit(x) \/ D!Echo(x)
       \/ \E k \in DOMAIN attempt : D!Lapse(k)
    /\ UNCHANGED outboxVars

\* The process dies with the calls of its executions.
Die(w) ==
    LET C == {x \in Live \cap DOMAIN call :
                task[x].worker = w /\ call[x].at \in D!Running}
    IN  /\ Crash(w)
        /\ IF C = {} THEN UNCHANGED dispatchVars ELSE D!Crash(C)

Execute(x) ==
    \/ StartDelivery(x)
    \/ x \in DOMAIN call /\ (ContinueDelivery(x) \/ ReturnDelivered(x))
    \/ \E o \in {"retryable", "terminal"} : Throw(x, o)
    \/ Check(x) \/ RefuseUnpersisted(x) \/ Write(x)

DNext ==
    \/ \E e \in Event, c \in Conversation, n \in 1..MaxSequence : Request(e, c, n)
    \/ \E x \in Live : Execute(x)
    \/ \E e \in Rows : Settle(e)
    \/ \E w \in Worker : Die(w)
    \/ Housekeeping
    \/ Surroundings

DSpec == DInit /\ [][DNext]_deliveryVars

-----------------------------------------------------------------------------
(* Correctness *)

DTypeOK ==
    /\ TypeOK
    /\ D!TypeOK
    /\ DOMAIN message = Rows
    /\ \A e \in Rows : message[e].current = outbox[e].generation + 1
    /\ \A x \in DOMAIN call : EventOf(x) = D!MessageOf(x)

\* Over the whole pipeline (retries of the event, lapsed leases, crashes, operator
\* decisions) the customer gets each message at most once.
CustomerGetsOneCopy == D!NoDuplicate

\* An event leaves the queue as delivered only when its message is shown as sent
\* and was received.
DeliveredWasReceived ==
    \A e \in Rows : outbox[e].status = "delivered" =>
        message[e].delivery = "sent" /\ D!Copies(e) # {}

\* A dead event whose provider outcome nobody knows can be settled by an operator who
\* tells the truth, once the request has landed: a copy the customer received can be
\* confirmed, or what was not sent can be reopened.  The exception is a copy whose echo
\* overtook the result and became a message of its own: the unique provider id refuses
\* the confirmation (reconcileAutomationOutbox), and what was sent is not unsent.  This is
\* of one process, whose ticks await what they claimed; MaxGeneration is left aside.
OutcomeCanBeSettled ==
    \A e \in DOMAIN message :
        LET k == D!Current(e)
        IN  Reconcilable(e) /\ D!Awaiting(k) /\ D!Landed(k)
              => /\ D!Unlocked(k)
                 /\ \/ \E id \in D!Copies(e) : D!Confirmable(e, id)
                    \/ D!NeverSent(k) /\ D!Reopenable(k)
                    \/ D!Copies(e) # {} /\ D!Copies(e) \subseteq external

\* Seen through the panel's rows and the customer's phone, the pipeline is the
\* abstract delivery.
PipelineKeepsPromise == D!KeepsPromise

=============================================================================
