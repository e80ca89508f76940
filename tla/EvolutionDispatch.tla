------------------------- MODULE EvolutionDispatch -------------------------
(***************************************************************************)
(* How one persisted WhatsApp message reaches the customer through the     *)
(* Evolution provider: deliverPersistedMessage of the API provider against *)
(* claimEvolutionDispatch, recordEvolutionResult, markEvolutionDispatch-   *)
(* Unknown, the "failed before dispatch" clause of completeOutboxExecution *)
(* and the message half of reconcileAutomationOutbox.                      *)
(*                                                                         *)
(* Transactions are atomic steps, with one exception: the claim reads the  *)
(* attempt and later writes it by id, and completeOutboxExecution, which   *)
(* does not take the attempt's advisory lock, can come in between.         *)
(* A caller is one call of deliverPersistedMessage.  It makes at most one  *)
(* HTTP request, so it also stands for that request's providerMessageId.   *)
(***************************************************************************)
EXTENDS Naturals, FiniteSets

CONSTANTS
    Message,        \* outbound messages
    Caller,         \* calls of deliverPersistedMessage
    NoId,           \* the NULL of the provider_message_id columns
    MaxGeneration   \* bound: attempts one message may have

ASSUME DispatchAssumption ==
    /\ NoId \notin Caller
    /\ MaxGeneration \in Nat \ {0}

VARIABLES
    message,   \* whatsapp_messages: delivery status, provider id, attempt in use
    attempt,   \* whatsapp_message_attempts: <<message, number>> |-> row
    claims,    \* inbox api.evolution-claim: the attempts with a processed claim
    results,   \* inbox api.evolution-result: attempt |-> the result recorded
    external,  \* provider ids persisted as messages typed by a person
    call       \* caller |-> where its call and its HTTP request stand

dispatchVars == <<message, attempt, claims, results, external, call>>

-----------------------------------------------------------------------------

Generation == 1..MaxGeneration
Key == Message \X Generation
Id == Caller \cup {NoId}

DeliveryStatus == {"pending", "sent", "failed"}  \* sent: also delivered and read
AttemptStatus == {"pending", "succeeded", "failed"}
DispatchState == {"ready", "leased", "unknown", "succeeded", "failed"}

MessageRow == [delivery : DeliveryStatus, provider : Id, current : Generation]
AttemptRow == [status : AttemptStatus, dispatch : DispatchState,
               lapsed : BOOLEAN, config : BOOLEAN, provider : Id]

Running == {"claiming", "reserving", "sending", "waiting", "ambiguous",
            "refused", "misconfigured", "recording", "repeating", "giving up"}
Ended == {"delivered", "retryable", "terminal", "crashed"}
Request == {"none", "flying", "arrived", "lost"}
Call == [key : Key, at : Running \cup Ended, request : Request]

Calls == DOMAIN call
KeyOf(c) == call[c].key
MessageOf(c) == call[c].key[1]
Current(m) == <<m, message[m].current>>

\* Requests for message m that reached the customer's phone.
Copies(m) == {c \in Calls : MessageOf(c) = m /\ call[c].request = "arrived"}

\* The advisory lock 'evolution-attempt' of k: a claim holds it from read to write.
Unlocked(k) == \A c \in Calls : KeyOf(c) = k => call[c].at # "reserving"

Goto(c, step) == call' = [call EXCEPT ![c].at = step]
SetAttempt(k, row) == attempt' = [attempt EXCEPT ![k] = row]

NewAttempt == [status |-> "pending", dispatch |-> "ready", lapsed |-> FALSE,
               config |-> FALSE, provider |-> NoId]

Init ==
    /\ message = << >>
    /\ attempt = << >>
    /\ claims = {}
    /\ results = << >>
    /\ external = {}
    /\ call = << >>

\* createOutbound, createHumanOutbound: message and attempt precede any request.
Create(m) ==
    /\ m \notin DOMAIN message
    /\ message' = [n \in DOMAIN message \cup {m} |->
         IF n = m THEN [delivery |-> "pending", provider |-> NoId, current |-> 1]
         ELSE message[n]]
    /\ attempt' = [k \in DOMAIN attempt \cup {<<m, 1>>} |->
         IF k = <<m, 1>> THEN NewAttempt ELSE attempt[k]]
    /\ UNCHANGED <<claims, results, external, call>>

\* A caller works on the attempt its event named when the event was claimed.
Begin(c, k) ==
    /\ c \notin Calls
    /\ k \in DOMAIN attempt
    /\ call' = [d \in Calls \cup {c} |->
         IF d = c THEN [key |-> k, at |-> "claiming", request |-> "none"]
         ELSE call[d]]
    /\ UNCHANGED <<message, attempt, claims, results, external>>

-----------------------------------------------------------------------------
(* claimEvolutionDispatch *)

\* No claim was processed, and neither the attempt nor the message has a result.
Unclaimed(k) == /\ k \notin claims
                /\ attempt[k].status = "pending"
                /\ message[k[1]].delivery = "pending"

\* Mutant: whatever has no live lease and no success may be sent again.
BadClaimable(k) == attempt[k].dispatch \in {"ready", "unknown", "failed"}

Claimable(k) == Unclaimed(k) /\ attempt[k].dispatch = "ready"

\* A claim finds the lease of an earlier one lapsed: nobody knows what was sent.
Abandoned(k) == /\ k \in claims \/ Unclaimed(k)
                /\ attempt[k].dispatch = "leased" /\ attempt[k].lapsed

Unknown(row) == [row EXCEPT !.dispatch = "unknown", !.lapsed = FALSE]

\* What deliverPersistedMessage makes of a claim that does not let it send.
Answer(dispatch) ==
    CASE dispatch = "succeeded" -> "delivered"
      [] dispatch \in {"failed", "unknown"} -> "terminal"
      [] OTHER -> "retryable"

ClaimRead(c) ==
    LET k == KeyOf(c)
        row == IF Abandoned(k) THEN Unknown(attempt[k]) ELSE attempt[k]
    IN  /\ call[c].at = "claiming"
        /\ Unlocked(k)
        /\ IF Claimable(k)
           THEN Goto(c, "reserving") /\ UNCHANGED <<attempt, claims>>
           ELSE /\ SetAttempt(k, row)
                /\ claims' = claims \cup {k}
                /\ Goto(c, Answer(row.dispatch))
        /\ UNCHANGED <<message, results, external>>

\* The write goes by id: it does not look at the row again.  A lost reply is a
\* database error to the caller.
ClaimWrite(c) ==
    LET k == KeyOf(c)
    IN  /\ call[c].at = "reserving"
        /\ SetAttempt(k, [attempt[k] EXCEPT !.dispatch = "leased",
                                            !.lapsed = FALSE, !.config = FALSE])
        /\ claims' = claims \cup {k}
        /\ \E step \in {"sending", "retryable"} : Goto(c, step)
        /\ UNCHANGED <<message, results, external>>

\* A gate of the session refuses the message, or the database fails.
ClaimFails(c) ==
    /\ call[c].at \in {"claiming", "reserving"}
    /\ Goto(c, "retryable")
    /\ UNCHANGED <<message, attempt, claims, results, external>>

-----------------------------------------------------------------------------
(* evolution.send *)

\* Configuration and input are validated before any request is made.
RefuseToSend(c) ==
    /\ call[c].at = "sending"
    /\ \E step \in {"refused", "misconfigured"} : Goto(c, step)
    /\ UNCHANGED <<message, attempt, claims, results, external>>

Post(c) ==
    /\ call[c].at = "sending"
    /\ call' = [call EXCEPT ![c].at = "waiting", ![c].request = "flying"]
    /\ UNCHANGED <<message, attempt, claims, results, external>>

\* The provider transmits the message, or never does: whatever the caller does.
Transmit(c) ==
    /\ call[c].request = "flying"
    /\ \E fate \in {"arrived", "lost"} : call' = [call EXCEPT ![c].request = fate]
    /\ UNCHANGED <<message, attempt, claims, results, external>>

\* 2xx with a provider id.
Confirmed(c) ==
    /\ call[c].at = "waiting"
    /\ call[c].request = "arrived"
    /\ Goto(c, "recording")
    /\ UNCHANGED <<message, attempt, claims, results, external>>

\* Timeout, network error, other status, body without an id.
Ambiguous(c) ==
    /\ call[c].at = "waiting"
    /\ Goto(c, "ambiguous")
    /\ UNCHANGED <<message, attempt, claims, results, external>>

-----------------------------------------------------------------------------
(* markEvolutionDispatchUnknown *)

\* All the callers of an event have the same owner id.
Markable(k) == attempt[k].dispatch \in {"leased", "unknown"}

MarkUnknown(c) ==
    LET k == KeyOf(c)
    IN  /\ call[c].at = "ambiguous"
        /\ Unlocked(k)
        /\ Markable(k)
        /\ SetAttempt(k, Unknown(attempt[k]))
        /\ \E step \in {"terminal", "retryable"} : Goto(c, step)
        /\ UNCHANGED <<message, claims, results, external>>

\* It throws: the database fails, or the attempt has a result meanwhile.
MarkFails(c) ==
    /\ call[c].at = "ambiguous"
    /\ Goto(c, "retryable")
    /\ UNCHANGED <<message, attempt, claims, results, external>>

-----------------------------------------------------------------------------
(* recordEvolutionResult *)

\* A failure never replaces a result, and nothing ranks below failed.
FinalStatus(m, requested) ==
    IF message[m].delivery # "pending" /\ requested = "failed"
    THEN message[m].delivery ELSE requested

\* The first processing of a result command; id is NoId for a refusal.
WriteResult(k, requested, id, config) ==
    LET m == k[1]
        final == FinalStatus(m, requested)
    IN  /\ results' = [l \in DOMAIN results \cup {k} |->
                         IF l = k THEN id ELSE results[l]]
        /\ SetAttempt(k, [attempt[k] EXCEPT
             !.status = IF final = "failed" THEN "failed" ELSE "succeeded",
             !.dispatch = IF final = "failed" THEN "failed" ELSE "succeeded",
             !.lapsed = FALSE, !.config = config /\ final = "failed",
             !.provider = IF id = NoId THEN @ ELSE id])
        /\ message' = [message EXCEPT ![m].delivery = final,
                                      ![m].provider = IF id = NoId THEN @ ELSE id]

Refusing == {"refused", "misconfigured"}
Recording == {"recording", "repeating"}

\* The result command of k replays, or is processed for the first time.  A second
\* message row with the same provider id violates the unique index.
RecordResult(c, requested, id) ==
    LET k == KeyOf(c)
    IN  /\ Unlocked(k)
        /\ IF k \in DOMAIN results
           THEN results[k] = id /\ UNCHANGED <<message, attempt, results>>
           ELSE /\ attempt[k].dispatch # "ready"
                /\ id \notin external
                /\ WriteResult(k, requested, id, call[c].at = "misconfigured")
        /\ UNCHANGED <<claims, external>>

\* The persisted refusal ends the call; a thrown or lost reply is retryable.
RecordRefusal(c) ==
    /\ call[c].at \in Refusing
    /\ \/ RecordResult(c, "failed", NoId) /\ \E s \in {"terminal", "retryable"} : Goto(c, s)
       \/ Goto(c, "retryable") /\ UNCHANGED <<message, attempt, claims, results, external>>

AfterThrow(c) == IF call[c].at = "recording" THEN "repeating" ELSE "giving up"

\* A confirmed send is recorded with two tries.
RecordSent(c) ==
    /\ call[c].at \in Recording
    /\ RecordResult(c, "sent", c)
    /\ \E step \in {"delivered", AfterThrow(c)} : Goto(c, step)

RecordThrows(c) ==
    /\ call[c].at \in Recording
    /\ Goto(c, AfterThrow(c))
    /\ UNCHANGED <<message, attempt, claims, results, external>>

\* Best effort: whether or not the attempt can be marked, the failure is terminal.
GiveUp(c) ==
    LET k == KeyOf(c)
    IN  /\ call[c].at = "giving up"
        /\ \/ Unlocked(k) /\ Markable(k) /\ SetAttempt(k, Unknown(attempt[k]))
           \/ UNCHANGED attempt
        /\ Goto(c, "terminal")
        /\ UNCHANGED <<message, claims, results, external>>

-----------------------------------------------------------------------------
(* completeOutboxExecution, for an outbound event that dies *)

\* Mutant: any attempt that has not failed yet is failed.
BadUndispatched(k) == attempt[k].status # "failed"

Undispatched(k) ==
    LET m == k[1]
    IN  /\ attempt[k].status = "pending" /\ attempt[k].dispatch = "ready"
        /\ attempt[k].provider = NoId /\ message[m].provider = NoId
        /\ message[m].delivery = "pending"
        /\ \A l \in DOMAIN attempt :
              l[1] = m => attempt[l].dispatch \notin {"leased", "unknown", "succeeded"}

Fail(k) ==
    /\ SetAttempt(k, [attempt[k] EXCEPT !.status = "failed", !.dispatch = "failed"])
    /\ message' = [message EXCEPT ![k[1]].delivery = "failed"]

FailUndispatched(k) ==
    /\ Undispatched(k)
    /\ Fail(k)
    /\ UNCHANGED <<claims, results, external, call>>

-----------------------------------------------------------------------------
(* reconcileAutomationOutbox, the message half *)

\* An attempt whose outcome only an operator can tell.
Awaiting(k) == \/ attempt[k].dispatch = "unknown"
               \/ attempt[k].dispatch = "leased" /\ attempt[k].lapsed

\* Both rows already carry the confirmed result id.
PersistedSent(k, id) ==
    /\ attempt[k].status = "succeeded" /\ attempt[k].dispatch = "succeeded"
    /\ message[k[1]].delivery = "sent"
    /\ attempt[k].provider = id /\ message[k[1]].provider = id

\* Mutant: only the attempt is updated.
BadMarkSent(k, id) ==
    /\ SetAttempt(k, [attempt[k] EXCEPT !.status = "succeeded", !.lapsed = FALSE,
                        !.dispatch = "succeeded", !.provider = id])
    /\ UNCHANGED message

MarkSent(k, id) ==
    /\ SetAttempt(k, [attempt[k] EXCEPT !.status = "succeeded", !.lapsed = FALSE,
                        !.dispatch = "succeeded", !.config = FALSE, !.provider = id])
    /\ message' = [message EXCEPT ![k[1]].delivery = "sent", ![k[1]].provider = id]

\* The rows wait for this id, and no message typed by a person carries it.
Confirmable(m, id) ==
    LET k == Current(m)
    IN  /\ Awaiting(k)
        /\ attempt[k].status = "pending"
        /\ message[m].delivery \in {"pending", "sent"}
        /\ {attempt[k].provider, message[m].provider} \subseteq {NoId, id}
        /\ id \notin external

\* confirmed-sent: the operator names a message the customer did receive.
ConfirmSent(m, id) ==
    LET k == Current(m)
    IN  /\ id \in Copies(m)
        /\ Unlocked(k)
        /\ \/ PersistedSent(k, id) /\ UNCHANGED <<message, attempt>>
           \/ Confirmable(m, id) /\ MarkSent(k, id)
        /\ UNCHANGED <<claims, results, external, call>>

\* What confirmed-not-sent asserts of attempt k: no request of it left or will.
NeverSent(k) ==
    \A c \in Calls : KeyOf(c) = k =>
        call[c].at # "sending" /\ call[c].request \in {"none", "lost"}

\* No request of attempt k is under way any more.
Landed(k) == \A c \in Calls : KeyOf(c) = k => call[c].request # "flying"

\* A refusal for configuration can be reopened too.
ConfigFailure(k) ==
    /\ attempt[k].status = "failed" /\ attempt[k].dispatch = "failed"
    /\ attempt[k].config /\ message[k[1]].delivery = "failed"

Reopenable(k) ==
    /\ \/ Awaiting(k) /\ attempt[k].status = "pending" /\ message[k[1]].delivery = "pending"
       \/ ConfigFailure(k)
    /\ attempt[k].provider = NoId /\ message[k[1]].provider = NoId

Successor(m) == <<m, message[m].current + 1>>
ReopenedKeys(m) == DOMAIN attempt \cup {Successor(m)}

\* confirmed-not-sent closes the attempt and opens the next one.
ConfirmNotSent(m) ==
    LET k == Current(m)
    IN  /\ message[m].current < MaxGeneration
        /\ NeverSent(k)
        /\ Unlocked(k)
        /\ Reopenable(k)
        /\ attempt' = [l \in ReopenedKeys(m) |->
             IF l = Successor(m) THEN NewAttempt
             ELSE IF l = k THEN [attempt[k] EXCEPT !.status = "failed",
                     !.dispatch = "failed", !.lapsed = FALSE, !.config = FALSE]
             ELSE attempt[l]]
        /\ message' = [message EXCEPT ![m].delivery = "pending", ![m].current = @ + 1]
        /\ UNCHANGED <<claims, results, external, call>>

-----------------------------------------------------------------------------
(* The environment *)

Lapse(k) ==
    /\ attempt[k].dispatch = "leased" /\ ~attempt[k].lapsed
    /\ SetAttempt(k, [attempt[k] EXCEPT !.lapsed = TRUE])
    /\ UNCHANGED <<message, claims, results, external, call>>

\* persistWebhookMessage: the provider echoes what it sent.  An echo whose id no
\* message carries becomes a message of its own, typed by an external person.
Echo(c) ==
    /\ call[c].request = "arrived"
    /\ c \notin external
    /\ \A m \in DOMAIN message : message[m].provider # c
    /\ external' = external \cup {c}
    /\ UNCHANGED <<message, attempt, claims, results, call>>

\* The process that makes the calls C dies: transactions roll back, requests fly on.
Crash(C) ==
    /\ C # {}
    /\ \A c \in C : call[c].at \in Running
    /\ call' = [c \in Calls |->
         IF c \in C THEN [call[c] EXCEPT !.at = "crashed"] ELSE call[c]]
    /\ UNCHANGED <<message, attempt, claims, results, external>>

-----------------------------------------------------------------------------

Deliver(c) ==
    \/ ClaimRead(c) \/ ClaimWrite(c) \/ ClaimFails(c)
    \/ RefuseToSend(c) \/ Post(c) \/ Confirmed(c) \/ Ambiguous(c)
    \/ MarkUnknown(c) \/ MarkFails(c)
    \/ RecordRefusal(c) \/ RecordSent(c) \/ RecordThrows(c) \/ GiveUp(c)

Reconcile(m) == ConfirmNotSent(m) \/ \E id \in Calls : ConfirmSent(m, id)

Next ==
    \/ \E m \in Message : Create(m)
    \/ \E c \in Caller, k \in DOMAIN attempt : Begin(c, k)
    \/ \E c \in Calls : Deliver(c) \/ Transmit(c) \/ Echo(c)
    \/ \E C \in SUBSET Calls : Crash(C)
    \/ \E k \in DOMAIN attempt : FailUndispatched(k) \/ Lapse(k)
    \/ \E m \in DOMAIN message : Reconcile(m)

Spec == Init /\ [][Next]_dispatchVars

-----------------------------------------------------------------------------
(* Correctness *)

TypeOK ==
    /\ message \in [DOMAIN message -> MessageRow] /\ DOMAIN message \subseteq Message
    /\ attempt \in [DOMAIN attempt -> AttemptRow] /\ DOMAIN attempt \subseteq Key
    /\ claims \subseteq DOMAIN attempt
    /\ results \in [DOMAIN results -> Id] /\ DOMAIN results \subseteq DOMAIN attempt
    /\ external \subseteq Calls
    /\ call \in [Calls -> Call] /\ Calls \subseteq Caller
    /\ \A k \in DOMAIN attempt : k[1] \in DOMAIN message
    /\ \A m \in DOMAIN message : Current(m) \in DOMAIN attempt
    /\ \A c \in Calls : KeyOf(c) \in DOMAIN attempt

\* For one attempt at most one caller ever gets as far as calling the provider,
\* over retries, lapsed leases, crashes and lost replies.
Posted(c) == call[c].at = "sending" \/ call[c].request # "none"
AtMostOneRequest ==
    \A c, d \in Calls : KeyOf(c) = KeyOf(d) /\ Posted(c) /\ Posted(d) => c = d

\* The customer never receives a message twice, reopened attempts included, as
\* long as operators declare unsent only what was not sent.
NoDuplicate ==
    \A c, d \in Calls :
        MessageOf(c) = MessageOf(d)
          /\ {call[c].request, call[d].request} = {"arrived"} => c = d

\* What is reported as sent was received: a message shown as sent, an attempt that
\* succeeded and a call that ended well all have a copy behind them.
SentIsTrue ==
    /\ \A m \in DOMAIN message : message[m].delivery = "sent" => Copies(m) # {}
    /\ \A k \in DOMAIN attempt : attempt[k].dispatch = "succeeded" => Copies(k[1]) # {}
    /\ \A c \in Calls : call[c].at = "delivered" => Copies(MessageOf(c)) # {}

\* A message that is sent stays sent, whatever late results come in.
SentIsFinal ==
    [][\A m \in DOMAIN message :
          message[m].delivery = "sent" => message'[m].delivery = "sent"]_dispatchVars

\* An attempt whose outcome is unknown is never offered for sending again; only a
\* late result of its own caller or an operator settles it.
UnknownIsNotResent ==
    [][\A k \in DOMAIN attempt :
          attempt[k].dispatch = "unknown"
            => attempt'[k].dispatch \notin {"ready", "leased"}]_dispatchVars

\* production.md: the echo of a message sent by the panel makes no second message.
EchoMakesNoMessage == external = {}

\* The abstract promise, seen through the rows the panel shows and the copies the
\* provider transmitted.
Promise == INSTANCE MessageDelivery WITH
    Token <- Caller,
    shown <- [m \in DOMAIN message |-> message[m].delivery],
    inbox <- {<<MessageOf(c), c>> : c \in {d \in Calls : call[d].request = "arrived"}}

KeepsPromise == Promise!Spec

=============================================================================
