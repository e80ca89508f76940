-------------------------- MODULE AutomationOutbox --------------------------
(***************************************************************************)
(* The outbox of the WhatsApp automation and the dispatcher that drains it *)
(* (whatsapp-automation-event.store.ts, whatsapp-automation.dispatcher.ts  *)
(* and completeOutboxExecution of prisma-whatsapp.repository.ts).          *)
(*                                                                         *)
(* Time is abstracted to what the queries compare: a row whose lock or     *)
(* lease deadline has passed is "lapsed", one whose available_at has been  *)
(* reached is "due", and its age is 0 (inside the debounce window), 1      *)
(* (past it) or 2 (past the department collection window).  Time may pass  *)
(* at any moment.  The execution id plays both the executionId and the     *)
(* lockId of a row: claim() always writes the same uuid to the two columns.*)
(***************************************************************************)
EXTENDS Naturals, FiniteSets

CONSTANTS
    Event,          \* outbox rows that may ever be written
    Conversation,   \* aggregates (WhatsApp conversations)
    Worker,         \* API processes running a dispatcher
    Execution,      \* execution uuids
    NoExecution,    \* the NULL of the execution_id column
    Arrival,        \* the <<topic, collection>> pairs producers may enqueue
    MaxSequence,    \* bound: rows one conversation may have
    MaxAttempts,    \* max_attempts of a row
    BatchSize,      \* WHATSAPP_API_DISPATCH_BATCH_SIZE
    MaxGenerations  \* bound: how often an operator may reopen one row

Topic == {"inbound", "notification", "collection", "outbound"}

\* departmentContactOption of the payload: unset, set, or set on a message
\* whose text is one of the completion words ('fim', 'pode encaminhar', ...).
Collection == {"none", "open", "closing"}

ASSUME OutboxAssumption ==
    /\ NoExecution \notin Execution
    /\ Arrival \subseteq Topic \X Collection
    /\ MaxAttempts \in Nat \ {0}
    /\ BatchSize \in Nat \ {0}
    /\ MaxGenerations \in Nat
    /\ MaxSequence \in Nat

VARIABLES
    outbox,      \* integration_outbox: event |-> row
    execution,   \* whatsapp_automation_executions: execution |-> audit row
    absorbed,    \* audit rows of events delivered inside another one's batch
    checkpoint,  \* automation checkpoints: event |-> its batch of events
    tick,        \* per process: executions the current dispatcher tick awaits
    task         \* per live execution: where its dispatch() call stands

outboxVars == <<outbox, execution, absorbed, checkpoint, tick, task>>

-----------------------------------------------------------------------------
(* Rows *)

InboundTopic == {"inbound", "notification"}
EventStatus == {"pending", "processing", "delivered", "dead"}
ExecutionStatus ==
    {"claimed", "accepted", "expired", "retryable", "terminal", "succeeded"}
Outcome == {"succeeded", "retryable", "terminal"}

Row == [conversation : Conversation, seq : Nat, topic : Topic,
        collection : Collection, status : EventStatus, attempts : Nat,
        execution : Execution \cup {NoExecution}, locked : BOOLEAN,
        lapsed : BOOLEAN, due : BOOLEAN, age : 0..2, generation : Nat]

AuditRow == [event : Event, attempt : Nat, status : ExecutionStatus]

Step == {"claimed", "rejecting", "executing", "completing", "failing"}
Task == [worker : Worker, at : Step, outcome : Outcome, batch : SUBSET Event,
         checked : BOOLEAN, generation : Nat]  \* of the payload it was handed

Rows == DOMAIN outbox
Live == DOMAIN task
EventOf(x) == execution[x].event

SameConversation(e, f) == outbox[e].conversation = outbox[f].conversation
Earlier(e, f) == SameConversation(e, f) /\ outbox[e].seq < outbox[f].seq

\* Mutant: a predecessor that is being processed is forgotten.
BadOpen(e) == outbox[e].status = "pending"

Open(e) == outbox[e].status \in {"pending", "processing"}

\* Mutant: the status of the row is not compared.
BadHolds(x) == outbox[EventOf(x)].execution = x

\* Execution x is the one its row names, and the row is still being processed.
Holds(x) == /\ outbox[EventOf(x)].status = "processing"
            /\ outbox[EventOf(x)].execution = x

\* The compare-and-swap of markAccepted and rejectBeforeAcceptance.
HoldsLock(x) == Holds(x) /\ outbox[EventOf(x)].locked

SetRow(e, row) == outbox' = [outbox EXCEPT ![e] = row]
SetStatus(x, s) == execution' = [execution EXCEPT ![x].status = s]
Goto(x, step) == task' = [task EXCEPT ![x].at = step]

\* dispatch() returns: the tick no longer waits for x.
Finish(x) ==
    /\ task' = [y \in Live \ {x} |-> task[y]]
    /\ tick' = [tick EXCEPT ![task[x].worker] = @ \ {x}]

Init ==
    /\ outbox = << >>
    /\ execution = << >>
    /\ absorbed = {}
    /\ checkpoint = << >>
    /\ tick = [w \in Worker |-> {}]
    /\ task = << >>

-----------------------------------------------------------------------------
(* Producers *)

\* n is one more than the largest sequence of the aggregate, 1 if it has none.
NextSequence(c, n) ==
    LET used == {outbox[e].seq : e \in {f \in Rows : outbox[f].conversation = c}}
    IN  n - 1 \in used \cup {0} /\ \A u \in used : u < n

\* createOrderedOutbox: the aggregate's advisory lock makes max + 1 atomic.
Enqueue(e, c, n, kind) ==
    /\ e \notin Rows
    /\ NextSequence(c, n)
    /\ outbox' = [f \in Rows \cup {e} |->
         IF f # e THEN outbox[f] ELSE
           [conversation |-> c, seq |-> n, topic |-> kind[1],
            collection |-> kind[2], status |-> "pending", attempts |-> 0,
            execution |-> NoExecution, locked |-> FALSE, lapsed |-> FALSE,
            due |-> TRUE, age |-> 0, generation |-> 0]]
    /\ UNCHANGED <<execution, absorbed, checkpoint, tick, task>>

-----------------------------------------------------------------------------
(* claim(): one transaction that sweeps, buries and claims *)

\* Mutant: only locks expire, the lease of an accepted execution never does.
BadExpired(e) == /\ outbox[e].status = "processing"
                 /\ outbox[e].locked /\ outbox[e].lapsed

Expired(e) == outbox[e].status = "processing" /\ outbox[e].lapsed

AttemptsLeft(e) == outbox[e].attempts < MaxAttempts

Exhausted(e) == /\ ~AttemptsLeft(e)
                /\ (outbox[e].status = "pending" \/ Expired(e))

\* Inbound events wait for their debounce or collection window.
Collected(e) ==
    \/ outbox[e].topic \notin InboundTopic
    \/ outbox[e].collection = "open" /\ outbox[e].age = 2
    \/ outbox[e].collection = "closing"
    \/ /\ outbox[e].collection = "none"
       /\ outbox[e].age >= 1
       /\ \A f \in Rows : Earlier(e, f) /\ outbox[f].topic \in InboundTopic
                            => outbox[f].age >= 1

\* An exhausted predecessor is buried by the same transaction: it blocks nothing.
Blocked(e) == \E f \in Rows : Earlier(f, e) /\ Open(f) /\ ~Exhausted(f)

Candidate ==
    {e \in Rows : /\ outbox[e].due
                  /\ Collected(e)
                  /\ (outbox[e].status = "pending" \/ Expired(e))
                  /\ AttemptsLeft(e)
                  /\ ~Blocked(e)}

OpenAudit(x) == execution[x].status \in {"claimed", "accepted"}

\* What the sweep leaves in the audit row of execution x.
SweptStatus(x) ==
    LET e == EventOf(x)
        s == execution[x].status
        stale == s = "expired" \/ (OpenAudit(x) /\ Expired(e))
    IN  IF ~stale THEN s
        ELSE IF outbox[e].status = "dead" \/ Exhausted(e)
             THEN "terminal" ELSE "expired"

Bury(row) == [row EXCEPT !.status = "dead", !.execution = NoExecution,
                         !.locked = FALSE, !.lapsed = FALSE]

\* SKIP LOCKED and LIMIT let a claim take any part of the candidates.  A tick
\* with nothing to do ends at once, so its process stays idle.
ClaimBatch(w, id) ==
    LET S == DOMAIN id
        new == {id[e] : e \in S}
        eventFor(x) == CHOOSE e \in S : id[e] = x
    IN  /\ tick[w] = {}
        /\ outbox' = [e \in Rows |->
             IF e \in S
             THEN [outbox[e] EXCEPT !.status = "processing", !.locked = TRUE,
                                    !.lapsed = FALSE, !.execution = id[e],
                                    !.attempts = @ + 1]
             ELSE IF Exhausted(e) THEN Bury(outbox[e]) ELSE outbox[e]]
        /\ execution' = [x \in DOMAIN execution \cup new |->
             IF x \in new
             THEN [event |-> eventFor(x), status |-> "claimed",
                   attempt |-> outbox[eventFor(x)].attempts + 1]
             ELSE [execution[x] EXCEPT !.status = SweptStatus(x)]]
        /\ task' = [x \in Live \cup new |->
             IF x \in new
             THEN [worker |-> w, at |-> "claimed", outcome |-> "succeeded",
                   batch |-> {}, checked |-> FALSE,
                   generation |-> outbox[eventFor(x)].generation]
             ELSE task[x]]
        /\ tick' = [tick EXCEPT ![w] = new]
        /\ UNCHANGED <<absorbed, checkpoint>>

Claim(w) ==
    \E S \in SUBSET Candidate :
        /\ Cardinality(S) <= BatchSize
        /\ \E id \in [S -> Execution \ DOMAIN execution] :
              /\ \A e, f \in S : id[e] = id[f] => e = f
              /\ ClaimBatch(w, id)

-----------------------------------------------------------------------------
(* dispatch(): accept, or give the row back *)

\* Mutant: acceptance renews the deadline but keeps the lock.
BadAcceptRow(x) == SetRow(EventOf(x), [outbox[EventOf(x)] EXCEPT !.lapsed = FALSE])

\* markAccepted, the compare-and-swap hits: the lock becomes a lease.
AcceptRow(x) == SetRow(EventOf(x), [outbox[EventOf(x)] EXCEPT
                                      !.locked = FALSE, !.lapsed = FALSE])

Accept(x) ==
    /\ task[x].at = "claimed"
    /\ HoldsLock(x)
    /\ AcceptRow(x)
    /\ SetStatus(x, "accepted")
    /\ Goto(x, "executing")
    /\ UNCHANGED <<absorbed, checkpoint, tick>>

\* The compare-and-swap misses, but the audit row is no longer CLAIMED: the code
\* takes the execution for accepted and goes on.
AcceptLate(x) ==
    /\ task[x].at = "claimed"
    /\ ~HoldsLock(x)
    /\ execution[x].status # "claimed"
    /\ Goto(x, "executing")
    /\ UNCHANGED <<outbox, execution, absorbed, checkpoint, tick>>

AcceptRefused(x) ==
    /\ task[x].at = "claimed"
    /\ ~HoldsLock(x)
    /\ execution[x].status = "claimed"
    /\ Goto(x, "rejecting")
    /\ UNCHANGED <<outbox, execution, absorbed, checkpoint, tick>>

\* markAccepted throws on a database error, before or after its commit.
AcceptFails(x) ==
    /\ task[x].at = "claimed"
    /\ \/ UNCHANGED <<outbox, execution>>
       \/ HoldsLock(x) /\ AcceptRow(x) /\ SetStatus(x, "accepted")
    /\ Goto(x, "rejecting")
    /\ UNCHANGED <<absorbed, checkpoint, tick>>

GiveBack(row) == [row EXCEPT !.status = "pending", !.execution = NoExecution,
                             !.locked = FALSE, !.lapsed = FALSE, !.due = FALSE]

\* rejectBeforeAcceptance: two guarded updates in one transaction.
Reject(x) ==
    LET e == EventOf(x)
        dead == execution[x].attempt >= MaxAttempts
    IN  /\ task[x].at = "rejecting"
        /\ IF HoldsLock(x)
           THEN SetRow(e, IF dead THEN Bury(outbox[e]) ELSE GiveBack(outbox[e]))
           ELSE UNCHANGED outbox
        /\ IF execution[x].status = "claimed"
           THEN SetStatus(x, IF dead THEN "terminal" ELSE "retryable")
           ELSE UNCHANGED execution
        /\ Finish(x)
        /\ UNCHANGED <<absorbed, checkpoint>>

\* A failing rejectBeforeAcceptance escapes dispatch(): Promise.all rejects and
\* the tick ends at once, with the other conversations still being processed.
RejectThrows(x) ==
    LET w == task[x].worker
    IN  /\ task[x].at = "rejecting"
        /\ task' = [y \in Live \ {x} |-> task[y]]
        /\ tick' = [tick EXCEPT ![w] = IF x \in @ THEN {} ELSE @]
        /\ UNCHANGED <<outbox, execution, absorbed, checkpoint>>

-----------------------------------------------------------------------------
(* execute(): what the outbox sees of the provider *)

\* The first execution of an inbound event fixes its batch; later ones reuse it.
Gather(x) ==
    LET e == EventOf(x)
    IN  /\ task[x].at = "executing"
        /\ outbox[e].topic \in InboundTopic
        /\ e \notin DOMAIN checkpoint
        /\ \E B \in SUBSET {f \in Rows : Earlier(e, f)
                                          /\ outbox[f].topic \in InboundTopic} :
              checkpoint' = [f \in DOMAIN checkpoint \cup {e} |->
                               IF f = e THEN B ELSE checkpoint[f]]
        /\ UNCHANGED <<outbox, execution, absorbed, tick, task>>

\* execute() ends with complete('succeeded').  Only an inbound.persisted event
\* names other events, those of its checkpoint; it names none when the agents of
\* the channel are off.
Succeed(x) ==
    LET e == EventOf(x)
    IN  /\ task[x].at = "executing"
        /\ \E B \in {{}} \cup {checkpoint[f] : f \in DOMAIN checkpoint \cap {e}} :
              /\ outbox[e].topic # "inbound" => B = {}
              /\ task' = [task EXCEPT ![x].at = "completing", ![x].batch = B]
        /\ UNCHANGED <<outbox, execution, absorbed, checkpoint, tick>>

\* execute() throws; dispatch() completes the execution with the error's outcome.
Fail(x, outcome) ==
    /\ task[x].at = "executing"
    /\ task' = [task EXCEPT ![x].at = "failing", ![x].outcome = outcome]
    /\ UNCHANGED <<outbox, execution, absorbed, checkpoint, tick>>

-----------------------------------------------------------------------------
(* completeOutboxExecution *)

\* The transaction reads the row without locking it and later writes it by id
\* alone.  Its advisory lock excludes other completions of the same event, but
\* claim() does not take that lock: read and write are separate steps.
CheckCompletion(x) ==
    /\ task[x].at \in {"completing", "failing"}
    /\ ~task[x].checked
    /\ \A y \in Live : task[y].checked => EventOf(y) # EventOf(x)
    /\ Holds(x)
    /\ task' = [task EXCEPT ![x].checked = TRUE]
    /\ UNCHANGED <<outbox, execution, absorbed, checkpoint, tick>>

\* What execute()'s completion throws, dispatch() reports as a retryable failure
\* under a second command; what that one throws is only logged.
CompletionFails(x) ==
    \/ /\ task[x].at = "completing"
       /\ task' = [task EXCEPT ![x].at = "failing", ![x].outcome = "retryable",
                               ![x].batch = {}, ![x].checked = FALSE]
       /\ UNCHANGED tick
    \/ task[x].at = "failing" /\ Finish(x)

CompletionRefused(x) ==
    /\ task[x].at \in {"completing", "failing"}
    /\ ~task[x].checked
    /\ ~Holds(x)
    /\ CompletionFails(x)
    /\ UNCHANGED <<outbox, execution, absorbed, checkpoint>>

\* The database fails and the transaction rolls back.
CompletionFaults(x) ==
    /\ task[x].at \in {"completing", "failing"}
    /\ CompletionFails(x)
    /\ UNCHANGED <<outbox, execution, absorbed, checkpoint>>

\* The attempts written back are those read by the check, which are x's own.
Completed(row, x) ==
    LET o == task[x].outcome
        exhausted == o = "retryable" /\ execution[x].attempt >= MaxAttempts
        closed == [row EXCEPT !.attempts = execution[x].attempt,
                              !.locked = FALSE, !.lapsed = FALSE]
    IN  CASE o = "succeeded" -> [closed EXCEPT !.status = "delivered"]
          [] o = "terminal" -> [closed EXCEPT !.status = "dead"]
          [] exhausted -> Bury(closed)
          [] OTHER -> GiveBack(closed)

\* The rest of the batch, when it is still PENDING, is delivered with the event.
Absorbable(x) ==
    {f \in Rows \cap task[x].batch : outbox[f].topic = "inbound"
                                   /\ outbox[f].status = "pending"}

\* Mutant: the audit rows of the absorbed events are not written.
BadAuditOfBatch(x) == {}

AuditOfBatch(x) == {<<x, f>> : f \in Absorbable(x)}

\* The commit may be followed by a lost reply, which the caller takes for a failure.
WriteCompletion(x) ==
    LET e == EventOf(x)
        after == Completed(outbox[e], x)
    IN  /\ task[x].checked
        /\ outbox' = [f \in Rows |->
             IF f = e THEN after
             ELSE IF f \in Absorbable(x)
             THEN [outbox[f] EXCEPT !.status = "delivered",
                     !.execution = NoExecution, !.locked = FALSE, !.lapsed = FALSE]
             ELSE outbox[f]]
        /\ SetStatus(x, CASE after.status = "delivered" -> "succeeded"
                          [] after.status = "pending" -> "retryable"
                          [] OTHER -> "terminal")
        /\ absorbed' = absorbed \cup AuditOfBatch(x)
        /\ Finish(x) \/ CompletionFails(x)
        /\ UNCHANGED checkpoint

-----------------------------------------------------------------------------
(* reconcileAutomationOutbox: the outbox half of an operator's decision *)

\* Only a dead outbound event can be settled by hand.
Reconcilable(e) == outbox[e].status = "dead" /\ outbox[e].topic = "outbound"

ReconcileSent(e) ==
    /\ Reconcilable(e)
    /\ SetRow(e, [outbox[e] EXCEPT !.status = "delivered", !.locked = FALSE,
                                   !.lapsed = FALSE])
    /\ UNCHANGED <<execution, absorbed, checkpoint, tick, task>>

\* confirmed-not-sent reopens the row with fresh attempts and a new generation.
ReconcileNotSent(e) ==
    /\ Reconcilable(e)
    /\ outbox[e].generation < MaxGenerations
    /\ SetRow(e, [GiveBack(outbox[e]) EXCEPT !.due = TRUE, !.attempts = 0,
                                             !.generation = @ + 1])
    /\ UNCHANGED <<execution, absorbed, checkpoint, tick, task>>

-----------------------------------------------------------------------------
(* The environment: time and crashes *)

Lapse(e) == /\ outbox[e].status = "processing" /\ ~outbox[e].lapsed
            /\ SetRow(e, [outbox[e] EXCEPT !.lapsed = TRUE])

BecomeDue(e) == ~outbox[e].due /\ SetRow(e, [outbox[e] EXCEPT !.due = TRUE])

GrowOld(e) ==
    /\ outbox[e].topic \in InboundTopic
    /\ outbox[e].age < IF outbox[e].collection = "none" THEN 1 ELSE 2
    /\ SetRow(e, [outbox[e] EXCEPT !.age = @ + 1])

TimePasses(e) ==
    /\ Lapse(e) \/ BecomeDue(e) \/ GrowOld(e)
    /\ UNCHANGED <<execution, absorbed, checkpoint, tick, task>>

\* The process dies and restarts: its dispatches are gone, its rows stay.
Crash(w) ==
    /\ \E x \in Live : task[x].worker = w
    /\ task' = [x \in {y \in Live : task[y].worker # w} |-> task[x]]
    /\ tick' = [tick EXCEPT ![w] = {}]
    /\ UNCHANGED <<outbox, execution, absorbed, checkpoint>>

-----------------------------------------------------------------------------

Dispatch(x) ==
    \/ Accept(x) \/ AcceptLate(x) \/ AcceptRefused(x) \/ AcceptFails(x)
    \/ Reject(x) \/ RejectThrows(x)
    \/ Gather(x) \/ Succeed(x)
    \/ \E o \in {"retryable", "terminal"} : Fail(x, o)
    \/ CheckCompletion(x) \/ CompletionRefused(x) \/ CompletionFaults(x)
    \/ WriteCompletion(x)

Next ==
    \/ \E e \in Event, c \in Conversation, n \in 1..MaxSequence, kind \in Arrival :
          Enqueue(e, c, n, kind)
    \/ \E w \in Worker : Claim(w) \/ Crash(w)
    \/ \E x \in Live : Dispatch(x)
    \/ \E e \in Rows : ReconcileSent(e) \/ ReconcileNotSent(e) \/ TimePasses(e)

Spec == Init /\ [][Next]_outboxVars

-----------------------------------------------------------------------------
(* Correctness *)

TypeOK ==
    /\ outbox \in [Rows -> Row] /\ Rows \subseteq Event
    /\ execution \in [DOMAIN execution -> AuditRow]
    /\ DOMAIN execution \subseteq Execution
    /\ absorbed \subseteq Execution \X Event
    /\ checkpoint \in [DOMAIN checkpoint -> SUBSET Event]
    /\ DOMAIN checkpoint \subseteq Event
    /\ task \in [Live -> Task] /\ Live \subseteq DOMAIN execution
    /\ tick \in [Worker -> SUBSET Live]

\* A row in PROCESSING names an execution of its own whose audit row is still
\* open and carries the same attempt number; the lock is held only before
\* acceptance.  Rows and audit rows are written by different statements of claim,
\* markAccepted, rejectBeforeAcceptance and completeOutboxExecution.
ProcessingIsAudited ==
    \A e \in Rows : outbox[e].status = "processing" =>
        LET x == outbox[e].execution
        IN  /\ x \in DOMAIN execution
            /\ EventOf(x) = e
            /\ execution[x].attempt = outbox[e].attempts
            /\ execution[x].status \in {"claimed", "accepted", "expired"}
            /\ outbox[e].locked => execution[x].status # "accepted"

\* The events of a conversation are executed in sequence order: while one is in
\* processing, no earlier one is open, unless an operator reopened it.
ConversationOrder ==
    \A e, f \in Rows :
        Earlier(e, f) /\ outbox[f].status = "processing"
          /\ outbox[e].status \in {"pending", "processing"}
            => outbox[e].generation > 0

\* Execution x answered event e: as its own, or as one of its batch.
Succeeded(x) == x \in DOMAIN execution /\ execution[x].status = "succeeded"
Answered(x, e) == <<x, e>> \in absorbed \/ (Succeeded(x) /\ EventOf(x) = e)

\* An event is answered at most once, by an execution of its own or with the batch of
\* another one, and an event of the customer that is delivered was answered: of one
\* process, whose ticks await what they claimed.
ProcessedOnce ==
    \A e \in Rows :
        /\ \A x, y \in Execution : Answered(x, e) /\ Answered(y, e) => x = y
        /\ outbox[e].status = "delivered" /\ outbox[e].topic # "outbound"
              => \E x \in Execution : Answered(x, e)

\* An event succeeds in one execution of its own at most, however many processes claim,
\* accept late, and complete it.
ExecutedOnce ==
    \A x, y \in DOMAIN execution :
        Succeeded(x) /\ Succeeded(y) /\ EventOf(x) = EventOf(y) => x = y

\* Every delivered event was executed with success or absorbed in the batch of
\* such an event; only outbound events can also be settled by an operator.
DeliveryIsAudited ==
    \A e \in Rows : outbox[e].status = "delivered" =>
        \/ \E x \in DOMAIN execution : EventOf(x) = e /\ execution[x].status = "succeeded"
        \/ \E x \in DOMAIN execution : <<x, e>> \in absorbed
        \/ outbox[e].topic = "outbound"

\* docs/whatsapp-api.md: only one active execution may treat an event.
Executing(x) == task[x].at \in {"executing", "completing"}
SingleActiveExecution ==
    \A x, y \in Live : Executing(x) /\ Executing(y) /\ EventOf(x) = EventOf(y) => x = y

\* A delivered event stays delivered.
DeliveredIsFinal ==
    [][\A e \in Rows : outbox[e].status = "delivered"
                          => outbox'[e].status = "delivered"]_outboxVars

\* Every event is eventually delivered or isolated.
Settled(e) == e \in Rows /\ outbox[e].status \in {"delivered", "dead"}
EventuallySettled == \A e \in Event : e \in Rows ~> Settled(e)

ClaimOf(w, e) ==
    \E S \in SUBSET Candidate :
        /\ e \in S
        /\ Cardinality(S) <= BatchSize
        /\ \E id \in [S -> Execution \ DOMAIN execution] :
              /\ \A f, g \in S : id[f] = id[g] => f = g
              /\ ClaimBatch(w, id)

Progress(x) ==
    \/ Accept(x) \/ AcceptLate(x) \/ AcceptRefused(x) \/ Reject(x)
    \/ Succeed(x) \/ Fail(x, "retryable")
    \/ CheckCompletion(x) \/ CompletionRefused(x) \/ WriteCompletion(x)

Fairness ==
    /\ \A w \in Worker : WF_outboxVars(Claim(w))
    /\ \A w \in Worker, e \in Event : SF_outboxVars(e \in Rows /\ ClaimOf(w, e))
    /\ \A x \in Execution : WF_outboxVars(x \in Live /\ Progress(x))
    /\ \A e \in Event : WF_outboxVars(e \in Rows /\ TimePasses(e))

FairSpec == Spec /\ Fairness
=============================================================================
