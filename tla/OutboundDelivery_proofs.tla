----------------------- MODULE OutboundDelivery_proofs -----------------------
(* Theorems about the way of a message out: first about the outbox alone, then *)
(* about the pipeline of outbox and dispatch.  For any number of events,       *)
(* conversations, processes, executions, attempts and generations.             *)
EXTENDS OutboundDelivery, FiniteSetTheorems, TLAPS

-----------------------------------------------------------------------------
(* The inductive invariant *)

\* The process that awaits an execution is the one that runs it.
TickIsOwn == \A w \in Worker : \A x \in tick[w] : task[x].worker = w

ExecutedRowExists == \A x \in DOMAIN execution : EventOf(x) \in Rows

\* The audit statuses a row in processing allows.
OpenStatus(row) == IF row.locked THEN {"claimed", "expired"} ELSE {"accepted", "expired"}

\* Execution x, audited by row a, is the one that row r of event e names.
Audits(x, e, r) ==
    /\ x \in DOMAIN execution
    /\ execution[x].event = e
    /\ execution[x].attempt = r.attempts
    /\ execution[x].status \in OpenStatus(r)

\* ProcessingIsAudited, and the lock of a row tells its audit row's status: what
\* makes it inductive, for rejectBeforeAcceptance guards its two updates apart.
LockIsAudited ==
    \A e \in Rows : outbox[e].status = "processing" =>
        Audits(outbox[e].execution, e, outbox[e])

TypeData == /\ outbox \in [Rows -> Row] /\ Rows \subseteq Event
            /\ execution \in [DOMAIN execution -> AuditRow]
            /\ DOMAIN execution \subseteq Execution
            /\ absorbed \subseteq Execution \X Event
            /\ checkpoint \in [DOMAIN checkpoint -> SUBSET Event]
            /\ DOMAIN checkpoint \subseteq Event

TypeTask == /\ task \in [Live -> Task] /\ Live \subseteq DOMAIN execution
            /\ tick \in [Worker -> SUBSET Live]

DataInv == TypeData /\ ExecutedRowExists /\ LockIsAudited /\ DeliveryIsAudited
TaskInv == TypeTask /\ TickIsOwn
OutboxInv == DataInv /\ TaskInv

LEMMA InvImplies == OutboxInv => TypeOK /\ ProcessingIsAudited /\ DeliveryIsAudited
<1> SUFFICES ASSUME OutboxInv PROVE TypeOK /\ ProcessingIsAudited /\ DeliveryIsAudited
  OBVIOUS
<1>1. TypeOK
  BY DEF OutboxInv, DataInv, TaskInv, TypeData, TypeTask, TypeOK
<1>2. ASSUME NEW e \in Rows, outbox[e].status = "processing"
      PROVE  LET x == outbox[e].execution
             IN  /\ x \in DOMAIN execution
                 /\ EventOf(x) = e
                 /\ execution[x].attempt = outbox[e].attempts
                 /\ execution[x].status \in {"claimed", "accepted", "expired"}
                 /\ outbox[e].locked => execution[x].status # "accepted"
  BY <1>2 DEF OutboxInv, DataInv, LockIsAudited, Audits, OpenStatus, EventOf
<1> QED
  BY <1>1, <1>2 DEF OutboxInv, DataInv, ProcessingIsAudited

-----------------------------------------------------------------------------
(* The dispatches: what a step leaves of them *)

\* No dispatch starts, none changes its process, and a tick awaits no other.
TasksKept ==
    /\ task' \in [Live' -> Task] /\ Live' \subseteq Live
    /\ \A y \in Live' : task'[y].worker = task[y].worker
    /\ tick' \in [Worker -> SUBSET Live']
    /\ \A w \in Worker : tick'[w] \subseteq tick[w]

LEMMA KeptTasks ==
    ASSUME TaskInv, TasksKept, DOMAIN execution' = DOMAIN execution
    PROVE  TaskInv'
<1>1. TypeTask'
  BY DEF TaskInv, TypeTask, TasksKept, Live
<1>2. TickIsOwn'
  BY DEF TaskInv, TypeTask, TasksKept, TickIsOwn, Live
<1> QED
  BY <1>1, <1>2 DEF TaskInv

\* A dispatch moves on and no tick changes.
LEMMA MoveKeeps ==
    ASSUME TaskInv, NEW x \in Live, NEW r \in Task, r.worker = task[x].worker,
           task' = [task EXCEPT ![x] = r], UNCHANGED tick
    PROVE  TasksKept
BY DEF TaskInv, TypeTask, TasksKept, Live

\* A dispatch ends, and its own tick forgets it.
LEMMA EndKeeps ==
    ASSUME TaskInv, NEW x \in Live, NEW T, T \subseteq tick[task[x].worker], x \notin T,
           task' = [y \in Live \ {x} |-> task[y]],
           tick' = [tick EXCEPT ![task[x].worker] = T]
    PROVE  TasksKept
<1> DEFINE w == task[x].worker
<1>0. w \in Worker
  BY DEF TaskInv, TypeTask, Task
<1>1. task' \in [Live' -> Task] /\ Live' \subseteq Live /\ Live' = Live \ {x}
  BY DEF TaskInv, TypeTask, Live
<1>2. \A y \in Live' : task'[y].worker = task[y].worker
  BY <1>1 DEF Live
<1>3. \A v \in Worker : tick'[v] \subseteq tick[v] /\ x \notin tick'[v]
  BY <1>0 DEF TaskInv, TypeTask, TickIsOwn
<1>4. DOMAIN tick' = Worker /\ tick' = [v \in Worker |-> tick'[v]]
  BY DEF TaskInv, TypeTask
<1>6. \A v \in Worker : tick'[v] \in SUBSET Live'
  BY <1>1, <1>3 DEF TaskInv, TypeTask
<1>5. tick' \in [Worker -> SUBSET Live']
  BY <1>4, <1>6
<1> QED
  BY <1>1, <1>2, <1>3, <1>5 DEF TasksKept

LEMMA GotoKeeps ==
    ASSUME TaskInv, NEW x \in Live, NEW s \in Step, Goto(x, s), UNCHANGED tick
    PROVE  TasksKept
<1>1. task[x] \in Task
  BY DEF TaskInv, TypeTask
<1>2. [task[x] EXCEPT !.at = s] \in Task /\ [task[x] EXCEPT !.at = s].worker = task[x].worker
  BY <1>1 DEF Task
<1>3. task' = [task EXCEPT ![x] = [task[x] EXCEPT !.at = s]]
  BY DEF Goto
<1> QED
  BY <1>2, <1>3, MoveKeeps

LEMMA FinishKeeps ==
    ASSUME TaskInv, NEW x \in Live, Finish(x)
    PROVE  TasksKept
<1> DEFINE T == tick[task[x].worker] \ {x}
<1>1. T \subseteq tick[task[x].worker] /\ x \notin T
  OBVIOUS
<1>2. tick' = [tick EXCEPT ![task[x].worker] = T]
      /\ task' = [y \in Live \ {x} |-> task[y]]
  BY DEF Finish
<1> HIDE DEF T
<1> QED
  BY <1>1, <1>2, EndKeeps

LEMMA CompletionFailsKeeps ==
    ASSUME TaskInv, NEW x \in Live, CompletionFails(x)
    PROVE  TasksKept
<1>1. CASE task[x].at = "failing" /\ Finish(x)
  BY <1>1, FinishKeeps
<1>2. CASE /\ task' = [task EXCEPT ![x].at = "failing", ![x].outcome = "retryable",
                                   ![x].batch = {}, ![x].checked = FALSE]
           /\ UNCHANGED tick
  <2> DEFINE r == [task[x] EXCEPT !.at = "failing", !.outcome = "retryable",
                                  !.batch = {}, !.checked = FALSE]
  <2>1. task[x] \in Task
    BY DEF TaskInv, TypeTask
  <2>2. r \in Task /\ r.worker = task[x].worker
    BY <2>1 DEF Task, Step, Outcome
  <2>3. task' = [task EXCEPT ![x] = r]
    BY <1>2 DEF TaskInv, TypeTask
  <2> HIDE DEF r
  <2> QED
    BY <1>2, <2>2, <2>3, MoveKeeps
<1> QED
  BY <1>1, <1>2 DEF CompletionFails

-----------------------------------------------------------------------------
(* The rows: what a step that writes one of them leaves *)

DataKept == UNCHANGED <<outbox, execution, absorbed>>
LogsKept == UNCHANGED <<absorbed, checkpoint>>

LEMMA KeptData ==
    ASSUME DataInv, DataKept, UNCHANGED checkpoint
    PROVE  DataInv' /\ DOMAIN execution' = DOMAIN execution
BY DEF DataInv, DataKept, TypeData, ExecutedRowExists, LockIsAudited, Audits,
       OpenStatus, DeliveryIsAudited, Rows, EventOf

LEMMA SetRowFacts ==
    ASSUME TypeData, NEW e, NEW row, e \in Rows => row \in Row, SetRow(e, row)
    PROVE  /\ outbox' \in [Rows -> Row] /\ Rows' = Rows
           /\ e \in Rows => outbox'[e] = row
           /\ \A f \in Rows \ {e} : outbox'[f] = outbox[f]
BY DEF TypeData, SetRow, Rows

LEMMA SetStatusFacts ==
    ASSUME TypeData, NEW x \in DOMAIN execution, NEW s \in ExecutionStatus,
           SetStatus(x, s)
    PROVE  /\ DOMAIN execution' = DOMAIN execution
           /\ execution' \in [DOMAIN execution -> AuditRow]
           /\ execution'[x].status = s
           /\ \A y \in DOMAIN execution : /\ execution'[y].event = execution[y].event
                                          /\ execution'[y].attempt = execution[y].attempt
           /\ \A y \in DOMAIN execution \ {x} : execution'[y] = execution[y]
<1> DEFINE r == [execution[x] EXCEPT !.status = s]
<1>1. execution[x] \in AuditRow
  BY DEF TypeData
<1>2. r \in AuditRow /\ r.status = s /\ r.event = execution[x].event
      /\ r.attempt = execution[x].attempt
  BY <1>1 DEF AuditRow
<1>3. execution' = [execution EXCEPT ![x] = r]
  BY DEF SetStatus
<1> HIDE DEF r
<1> QED
  BY <1>2, <1>3 DEF TypeData

\* What a step may do to a row whose execution it does not touch: leave the
\* fields that are audited, or take it out of processing.
Unaudited(old, new) ==
    /\ new.topic = old.topic
    /\ new.status = "delivered" => old.status = "delivered" \/ old.topic = "outbound"
    /\ new.status = "processing" =>
         /\ old.status = "processing"
         /\ new.execution = old.execution /\ new.attempts = old.attempts
         /\ new.locked = old.locked

LEMMA RowStep ==
    ASSUME DataInv, NEW e \in Rows, NEW row \in Row, SetRow(e, row),
           Unaudited(outbox[e], row), UNCHANGED execution, LogsKept
    PROVE  DataInv' /\ DOMAIN execution' = DOMAIN execution
<1>1. /\ outbox' \in [Rows -> Row] /\ Rows' = Rows /\ outbox'[e] = row
      /\ \A f \in Rows \ {e} : outbox'[f] = outbox[f]
  BY SetRowFacts DEF DataInv
<1>2. TypeData'
  BY <1>1 DEF DataInv, TypeData, LogsKept
<1>3. ExecutedRowExists'
  BY <1>1 DEF DataInv, ExecutedRowExists, EventOf
<1>4. \A f \in Rows : Unaudited(outbox[f], outbox'[f])
  BY <1>1 DEF Unaudited
<1>5. LockIsAudited'
  BY <1>1, <1>4 DEF DataInv, LockIsAudited, Audits, OpenStatus, Unaudited
<1>6. DeliveryIsAudited'
  BY <1>1, <1>4 DEF DataInv, DeliveryIsAudited, Unaudited, EventOf, LogsKept
<1> QED
  BY <1>2, <1>3, <1>5, <1>6 DEF DataInv

\* A step that closes or moves the audit row of one execution, with its row.
LEMMA AuditStep ==
    ASSUME DataInv, NEW x \in DOMAIN execution, NEW row, NEW s \in ExecutionStatus,
           row \in Row, SetRow(EventOf(x), row), SetStatus(x, s), LogsKept,
           row.topic = outbox[EventOf(x)].topic,
           row.status = "delivered" => outbox[EventOf(x)].status = "delivered",
           row.status = "processing" =>
             \/ row = outbox[EventOf(x)] /\ row.execution # x
             \/ /\ Audits(x, EventOf(x), outbox[EventOf(x)])
                /\ row.execution = x
                /\ row.attempts = outbox[EventOf(x)].attempts
                /\ s \in OpenStatus(row),
           execution[x].status # "succeeded"
    PROVE  DataInv' /\ DOMAIN execution' = DOMAIN execution
<1> DEFINE e == EventOf(x)
<1>0. e \in Rows
  BY DEF DataInv, ExecutedRowExists
<1>1. /\ outbox' \in [Rows -> Row] /\ Rows' = Rows /\ outbox'[e] = row
      /\ \A f \in Rows \ {e} : outbox'[f] = outbox[f]
  BY <1>0, SetRowFacts DEF DataInv
<1>2. /\ DOMAIN execution' = DOMAIN execution
      /\ execution' \in [DOMAIN execution -> AuditRow]
      /\ execution'[x].status = s
      /\ \A y \in DOMAIN execution : /\ execution'[y].event = execution[y].event
                                     /\ execution'[y].attempt = execution[y].attempt
      /\ \A y \in DOMAIN execution \ {x} : execution'[y] = execution[y]
  BY SetStatusFacts DEF DataInv
<1>3. TypeData'
  BY <1>1, <1>2 DEF DataInv, TypeData, LogsKept
<1>4. ExecutedRowExists'
  BY <1>1, <1>2 DEF DataInv, ExecutedRowExists, EventOf
<1>5. ASSUME NEW f \in Rows, outbox'[f].status = "processing"
      PROVE  Audits(outbox[f].execution, f, outbox[f])'
  <2>1. CASE f = e
    <3>1. outbox'[f] = row /\ row.status = "processing"
      BY <1>1, <1>5, <2>1
    <3>2. CASE row = outbox[e] /\ row.execution # x
      BY <1>2, <1>5, <2>1, <3>1, <3>2 DEF DataInv, LockIsAudited, Audits, OpenStatus
    <3>3. CASE Audits(x, e, outbox[e]) /\ row.execution = x
               /\ row.attempts = outbox[e].attempts /\ s \in OpenStatus(row)
      BY <1>2, <2>1, <3>1, <3>3 DEF Audits, OpenStatus
    <3> QED
      BY <3>1, <3>2, <3>3
  <2>2. CASE f # e
    <3>1. outbox'[f] = outbox[f] /\ Audits(outbox[f].execution, f, outbox[f])
      BY <1>1, <1>5, <2>2 DEF DataInv, LockIsAudited
    <3>2. outbox[f].execution # x
      BY <2>2, <3>1 DEF Audits, EventOf
    <3> QED
      BY <1>2, <3>1, <3>2 DEF Audits, OpenStatus
  <2> QED
    BY <2>1, <2>2
<1>6. LockIsAudited'
  BY <1>1, <1>5 DEF LockIsAudited
<1>7. ASSUME NEW f \in Rows, outbox'[f].status = "delivered"
      PROVE  \/ \E y \in DOMAIN execution : execution'[y].event = f
                                            /\ execution'[y].status = "succeeded"
             \/ \E y \in DOMAIN execution : <<y, f>> \in absorbed
             \/ outbox'[f].topic = "outbound"
  <2>1. outbox[f].status = "delivered" /\ outbox'[f].topic = outbox[f].topic
    BY <1>1, <1>7
  <2>2. \/ \E y \in DOMAIN execution : execution[y].event = f
                                       /\ execution[y].status = "succeeded"
        \/ \E y \in DOMAIN execution : <<y, f>> \in absorbed
        \/ outbox[f].topic = "outbound"
    BY <1>7, <2>1 DEF DataInv, DeliveryIsAudited, EventOf
  <2> QED
    BY <1>2, <2>1, <2>2
<1>8. DeliveryIsAudited'
  BY <1>1, <1>2, <1>7 DEF DeliveryIsAudited, EventOf, LogsKept
<1> QED
  BY <1>2, <1>3, <1>4, <1>6, <1>8 DEF DataInv

-----------------------------------------------------------------------------
(* One lemma per operation *)

LEMMA EnqueueKeeps ==
    ASSUME OutboxInv, NEW e \in Event, NEW c \in Conversation,
           NEW n \in 1..MaxSequence, NEW kind \in Arrival, Enqueue(e, c, n, kind)
    PROVE  OutboxInv'
<1> DEFINE row == [conversation |-> c, seq |-> n, topic |-> kind[1],
             collection |-> kind[2], status |-> "pending", attempts |-> 0,
             execution |-> NoExecution, locked |-> FALSE, lapsed |-> FALSE,
             due |-> TRUE, age |-> 0, generation |-> 0]
<1>1. kind \in Topic \X Collection /\ n \in Nat
  BY OutboxAssumption
<1>2. row \in Row
  BY <1>1 DEF Row, EventStatus
<1>3. row.status = "pending"
  OBVIOUS
<1>4. e \notin Rows /\ UNCHANGED <<execution, absorbed, checkpoint, tick, task>>
      /\ outbox' = [f \in Rows \cup {e} |-> IF f # e THEN outbox[f] ELSE row]
  BY DEF Enqueue
<1> HIDE DEF row
<1>5. /\ outbox' \in [Rows \cup {e} -> Row] /\ Rows' = Rows \cup {e}
      /\ outbox'[e] = row /\ \A f \in Rows : outbox'[f] = outbox[f]
  BY <1>2, <1>4 DEF OutboxInv, DataInv, TypeData, Rows
<1>6. TypeData'
  BY <1>4, <1>5 DEF OutboxInv, DataInv, TypeData
<1>7. ExecutedRowExists'
  BY <1>4, <1>5 DEF OutboxInv, DataInv, ExecutedRowExists, EventOf
<1>8. LockIsAudited'
  BY <1>3, <1>4, <1>5 DEF OutboxInv, DataInv, LockIsAudited, Audits, OpenStatus
<1>9. DeliveryIsAudited'
  BY <1>3, <1>4, <1>5 DEF OutboxInv, DataInv, DeliveryIsAudited, EventOf
<1>10. TaskInv'
  BY <1>4 DEF OutboxInv, TaskInv, TypeTask, TickIsOwn, Live
<1> QED
  BY <1>6, <1>7, <1>8, <1>9, <1>10 DEF OutboxInv, DataInv

\* The updates the operations make to a row, and what they keep.
Renewed(r) == [r EXCEPT !.locked = FALSE, !.lapsed = FALSE]
Lapsed(r) == [r EXCEPT !.lapsed = TRUE]
DueNow(r) == [r EXCEPT !.due = TRUE]
Older(r) == [r EXCEPT !.age = @ + 1]
SettledByHand(r) == [r EXCEPT !.status = "delivered", !.locked = FALSE, !.lapsed = FALSE]
Reopened(r) == [GiveBack(r) EXCEPT !.due = TRUE, !.attempts = 0, !.generation = @ + 1]

LEMMA FreshRow ==
    ASSUME NEW g \in Row
    PROVE  LET r == [g EXCEPT !.due = TRUE, !.attempts = 0, !.generation = @ + 1]
           IN  r \in Row /\ r.status = g.status /\ r.topic = g.topic
<1>1. g.generation + 1 \in Nat
  BY DEF Row
<1> QED
  BY <1>1 DEF Row

LEMMA RowUpdates ==
    ASSUME NEW r \in Row
    PROVE  /\ Renewed(r) \in Row /\ Renewed(r).status = r.status
           /\ Renewed(r).topic = r.topic /\ Renewed(r).execution = r.execution
           /\ Renewed(r).attempts = r.attempts /\ Renewed(r).locked = FALSE
           /\ Lapsed(r) \in Row /\ Unaudited(r, Lapsed(r))
           /\ DueNow(r) \in Row /\ Unaudited(r, DueNow(r))
           /\ r.age < 2 => Older(r) \in Row /\ Unaudited(r, Older(r))
           /\ SettledByHand(r) \in Row
           /\ r.topic = "outbound" => Unaudited(r, SettledByHand(r))
           /\ Reopened(r) \in Row /\ Unaudited(r, Reopened(r))
           /\ Bury(r) \in Row /\ Unaudited(r, Bury(r)) /\ Bury(r).status = "dead"
           /\ GiveBack(r) \in Row /\ Unaudited(r, GiveBack(r))
           /\ GiveBack(r).status = "pending"
<1>1. /\ Renewed(r) \in Row /\ Renewed(r).status = r.status
      /\ Renewed(r).topic = r.topic /\ Renewed(r).execution = r.execution
      /\ Renewed(r).attempts = r.attempts /\ Renewed(r).locked = FALSE
  BY DEF Row, Renewed
<1>2. Lapsed(r) \in Row /\ Unaudited(r, Lapsed(r))
      /\ DueNow(r) \in Row /\ Unaudited(r, DueNow(r))
  BY DEF Row, Unaudited, Lapsed, DueNow
<1>3. r.age < 2 => Older(r) \in Row /\ Unaudited(r, Older(r))
  BY DEF Row, Unaudited, Older
<1>4. /\ SettledByHand(r) \in Row
      /\ r.topic = "outbound" => Unaudited(r, SettledByHand(r))
  BY DEF Row, EventStatus, Unaudited, SettledByHand
<1>5. Bury(r) \in Row /\ Unaudited(r, Bury(r)) /\ Bury(r).status = "dead"
  BY DEF Row, EventStatus, Unaudited, Bury
<1>6. GiveBack(r) \in Row /\ Unaudited(r, GiveBack(r)) /\ GiveBack(r).status = "pending"
      /\ GiveBack(r).topic = r.topic /\ GiveBack(r).generation = r.generation
  BY DEF Row, EventStatus, Unaudited, GiveBack
<1>7. Reopened(r) \in Row /\ Unaudited(r, Reopened(r))
  BY <1>6, FreshRow DEF Reopened, Unaudited
<1> QED
  BY <1>1, <1>2, <1>3, <1>4, <1>5, <1>6, <1>7

LEMMA HeldIsAudited ==
    ASSUME DataInv, NEW x \in DOMAIN execution, Holds(x)
    PROVE  Audits(x, EventOf(x), outbox[EventOf(x)])
BY DEF DataInv, ExecutedRowExists, LockIsAudited, Holds

\* markAccepted's two writes, whether or not its caller learns of them.
LEMMA AcceptWrites ==
    ASSUME DataInv, NEW x \in DOMAIN execution, HoldsLock(x), AcceptRow(x),
           SetStatus(x, "accepted"), LogsKept
    PROVE  DataInv' /\ DOMAIN execution' = DOMAIN execution
<1> DEFINE e == EventOf(x)
           row == Renewed(outbox[e])
<1>0. e \in Rows /\ outbox[e] \in Row
  BY DEF DataInv, ExecutedRowExists, TypeData
<1>1. Audits(x, e, outbox[e]) /\ outbox[e].status = "processing"
      /\ outbox[e].execution = x /\ outbox[e].locked
  BY HeldIsAudited DEF HoldsLock, Holds
<1>2. execution[x].status # "succeeded"
  BY <1>1 DEF Audits, OpenStatus
<1>3. SetRow(e, row)
  BY DEF AcceptRow, Renewed
<1>4. row \in Row /\ row.status = "processing" /\ row.topic = outbox[e].topic
      /\ row.execution = x /\ row.attempts = outbox[e].attempts /\ row.locked = FALSE
  BY <1>0, <1>1, RowUpdates
<1>5. "accepted" \in OpenStatus(row) /\ "accepted" \in ExecutionStatus
  BY <1>4 DEF OpenStatus, ExecutionStatus
<1> HIDE DEF row, e
<1> QED
  BY <1>0, <1>1, <1>2, <1>3, <1>4, <1>5, AuditStep DEF e

LEMMA AcceptKeeps ==
    ASSUME OutboxInv, NEW x \in Live, Accept(x)
    PROVE  OutboxInv'
<1>1. x \in DOMAIN execution /\ "executing" \in Step
  BY DEF OutboxInv, TaskInv, TypeTask, Step
<1>2. DataInv' /\ DOMAIN execution' = DOMAIN execution
  BY <1>1, AcceptWrites DEF OutboxInv, Accept, LogsKept
<1>3. TasksKept
  BY <1>1, GotoKeeps DEF OutboxInv, Accept
<1> QED
  BY <1>2, <1>3, KeptTasks DEF OutboxInv

LEMMA AcceptFailsKeeps ==
    ASSUME OutboxInv, NEW x \in Live, AcceptFails(x)
    PROVE  OutboxInv'
<1>1. x \in DOMAIN execution /\ "rejecting" \in Step
  BY DEF OutboxInv, TaskInv, TypeTask, Step
<1>4. DataInv' /\ DOMAIN execution' = DOMAIN execution
  <2>1. UNCHANGED <<outbox, execution>> => DataInv' /\ DOMAIN execution' = DOMAIN execution
    BY KeptData DEF OutboxInv, AcceptFails, DataKept
  <2>2. HoldsLock(x) /\ AcceptRow(x) /\ SetStatus(x, "accepted") =>
          DataInv' /\ DOMAIN execution' = DOMAIN execution
    BY <1>1, AcceptWrites DEF OutboxInv, AcceptFails, LogsKept
  <2> QED
    BY <2>1, <2>2 DEF AcceptFails
<1>5. TasksKept
  BY <1>1, GotoKeeps DEF OutboxInv, AcceptFails
<1> QED
  BY <1>4, <1>5, KeptTasks DEF OutboxInv

\* rejectBeforeAcceptance: either of its guarded updates may miss.
LEMMA RejectKeeps ==
    ASSUME OutboxInv, NEW x \in Live, Reject(x)
    PROVE  OutboxInv'
<1> DEFINE e == EventOf(x)
           dead == execution[x].attempt >= MaxAttempts
           row == IF dead THEN Bury(outbox[e]) ELSE GiveBack(outbox[e])
           s == IF dead THEN "terminal" ELSE "retryable"
<1>0. x \in DOMAIN execution /\ e \in Rows /\ outbox[e] \in Row
  BY DEF OutboxInv, TaskInv, TypeTask, DataInv, ExecutedRowExists, TypeData
<1>1. row \in Row /\ Unaudited(outbox[e], row) /\ row.status \in {"pending", "dead"}
      /\ row.topic = outbox[e].topic /\ s \in ExecutionStatus
  <2>1. s \in ExecutionStatus
    BY DEF ExecutionStatus
  <2>2. row \in {Bury(outbox[e]), GiveBack(outbox[e])}
    OBVIOUS
  <2> HIDE DEF row
  <2>3. row \in Row /\ Unaudited(outbox[e], row) /\ row.status \in {"pending", "dead"}
    BY <1>0, <2>2, RowUpdates
  <2> QED
    BY <2>1, <2>3 DEF Unaudited
<1>2. /\ IF HoldsLock(x) THEN SetRow(e, row) ELSE UNCHANGED outbox
      /\ IF execution[x].status = "claimed" THEN SetStatus(x, s)
         ELSE UNCHANGED execution
      /\ Finish(x) /\ LogsKept
  BY DEF Reject, LogsKept
<1> HIDE DEF e, row, s, dead
<1>3. DataInv' /\ DOMAIN execution' = DOMAIN execution
  <2>1. CASE HoldsLock(x) /\ execution[x].status = "claimed"
    BY <1>0, <1>1, <1>2, <2>1, AuditStep DEF OutboxInv, e
  <2>2. CASE HoldsLock(x) /\ execution[x].status # "claimed"
    BY <1>0, <1>1, <1>2, <2>2, RowStep DEF OutboxInv
  <2>3. CASE ~HoldsLock(x) /\ execution[x].status = "claimed"
    <3>1. SetRow(e, outbox[e])
      BY <1>0, <1>2, <2>3 DEF SetRow, OutboxInv, DataInv, TypeData
    <3>2. outbox[e].status = "processing" => outbox[e].execution # x
      <4> SUFFICES ASSUME outbox[e].status = "processing", outbox[e].execution = x
                   PROVE  FALSE
        OBVIOUS
      <4>1. Audits(x, e, outbox[e])
        BY <1>0, HeldIsAudited DEF OutboxInv, Holds, e
      <4>2. outbox[e].locked
        BY <2>3, <4>1 DEF Audits, OpenStatus
      <4> QED
        BY <2>3, <4>2 DEF HoldsLock, Holds, e
    <3> QED
      BY <1>0, <1>1, <1>2, <2>3, <3>1, <3>2, AuditStep DEF OutboxInv, e
  <2>4. CASE ~HoldsLock(x) /\ execution[x].status # "claimed"
    BY <1>2, <2>4, KeptData DEF OutboxInv, DataKept, LogsKept
  <2> QED
    BY <2>1, <2>2, <2>3, <2>4
<1>4. TasksKept
  BY <1>2, FinishKeeps DEF OutboxInv
<1> QED
  BY <1>3, <1>4, KeptTasks DEF OutboxInv

\* The steps that touch neither rows nor audit rows.
LEMMA FrameKeeps ==
    ASSUME OutboxInv, TasksKept, DataKept, UNCHANGED checkpoint
    PROVE  OutboxInv'
<1>1. DataInv' /\ DOMAIN execution' = DOMAIN execution
  BY KeptData DEF OutboxInv
<1> QED
  BY <1>1, KeptTasks DEF OutboxInv

LEMMA MovesKeep ==
    ASSUME OutboxInv, NEW x \in Live,
           AcceptLate(x) \/ AcceptRefused(x) \/ CheckCompletion(x)
    PROVE  OutboxInv'
<1>1. DataKept /\ UNCHANGED checkpoint
  BY DEF AcceptLate, AcceptRefused, CheckCompletion, DataKept
<1>2. CASE AcceptLate(x)
  <2>1. "executing" \in Step
    BY DEF Step
  <2>2. TasksKept
    BY <1>2, <2>1, GotoKeeps DEF OutboxInv, AcceptLate
  <2> QED
    BY <1>1, <2>2, FrameKeeps
<1>3. CASE AcceptRefused(x)
  <2>1. "rejecting" \in Step
    BY DEF Step
  <2>2. TasksKept
    BY <1>3, <2>1, GotoKeeps DEF OutboxInv, AcceptRefused
  <2> QED
    BY <1>1, <2>2, FrameKeeps
<1>4. CASE CheckCompletion(x)
  <2> DEFINE r == [task[x] EXCEPT !.checked = TRUE]
  <2>1. task[x] \in Task
    BY DEF OutboxInv, TaskInv, TypeTask
  <2>2. r \in Task /\ r.worker = task[x].worker
    BY <2>1 DEF Task
  <2>3. task' = [task EXCEPT ![x] = r] /\ UNCHANGED tick
    BY <1>4 DEF CheckCompletion
  <2> HIDE DEF r
  <2>4. TasksKept
    BY <2>2, <2>3, MoveKeeps DEF OutboxInv
  <2> QED
    BY <1>1, <2>4, FrameKeeps
<1> QED
  BY <1>2, <1>3, <1>4

LEMMA RejectThrowsKeeps ==
    ASSUME OutboxInv, NEW x \in Live, RejectThrows(x)
    PROVE  OutboxInv'
<1> DEFINE w == task[x].worker
           T == IF x \in tick[w] THEN {} ELSE tick[w]
<1>1. T \subseteq tick[w] /\ x \notin T
  OBVIOUS
<1>2. tick' = [tick EXCEPT ![w] = T] /\ task' = [y \in Live \ {x} |-> task[y]]
      /\ DataKept /\ UNCHANGED checkpoint
  BY DEF RejectThrows, DataKept
<1> HIDE DEF T
<1>3. TasksKept
  BY <1>1, <1>2, EndKeeps DEF OutboxInv
<1> QED
  BY <1>2, <1>3, FrameKeeps

\* Gather fixes the batch of an event: a set of earlier rows.
LEMMA GatherKeeps ==
    ASSUME OutboxInv, NEW x \in Live, Gather(x)
    PROVE  OutboxInv'
<1> DEFINE e == EventOf(x)
<1>0. x \in DOMAIN execution /\ e \in Rows /\ Rows \subseteq Event
  BY DEF OutboxInv, TaskInv, TypeTask, DataInv, ExecutedRowExists, TypeData
<1>1. PICK B \in SUBSET Rows : checkpoint' = [f \in DOMAIN checkpoint \cup {e} |->
                                                IF f = e THEN B ELSE checkpoint[f]]
  BY DEF Gather
<1>2. B \in SUBSET Event
  BY <1>0
<1>3. checkpoint' \in [DOMAIN checkpoint' -> SUBSET Event]
      /\ DOMAIN checkpoint' \subseteq Event
  BY <1>0, <1>1, <1>2 DEF OutboxInv, DataInv, TypeData
<1>4. UNCHANGED <<outbox, execution, absorbed, tick, task>>
  BY DEF Gather
<1>5. DataInv'
  BY <1>3, <1>4 DEF OutboxInv, DataInv, TypeData, ExecutedRowExists, LockIsAudited,
     Audits, OpenStatus, DeliveryIsAudited, Rows, EventOf
<1>6. TaskInv'
  BY <1>4 DEF OutboxInv, TaskInv, TypeTask, TickIsOwn, Live
<1> QED
  BY <1>5, <1>6 DEF OutboxInv

LEMMA SucceedKeeps ==
    ASSUME OutboxInv, NEW x \in Live, Succeed(x)
    PROVE  OutboxInv'
<1>1. PICK B \in {{}} \cup {checkpoint[f] : f \in DOMAIN checkpoint \cap {EventOf(x)}} :
        task' = [task EXCEPT ![x].at = "completing", ![x].batch = B]
  BY DEF Succeed
<1>2. B \in SUBSET Event
  BY DEF OutboxInv, DataInv, TypeData
<1> DEFINE r == [task[x] EXCEPT !.at = "completing", !.batch = B]
<1>3. task[x] \in Task
  BY DEF OutboxInv, TaskInv, TypeTask
<1>4. r \in Task /\ r.worker = task[x].worker
  BY <1>2, <1>3 DEF Task, Step
<1>5. task' = [task EXCEPT ![x] = r]
  BY <1>1 DEF OutboxInv, TaskInv, TypeTask
<1>6. DataKept /\ UNCHANGED <<checkpoint, tick>>
  BY DEF Succeed, DataKept
<1> HIDE DEF r
<1>7. TasksKept
  BY <1>4, <1>5, <1>6, MoveKeeps DEF OutboxInv
<1> QED
  BY <1>6, <1>7, FrameKeeps

LEMMA FailKeeps ==
    ASSUME OutboxInv, NEW x \in Live, NEW o \in {"retryable", "terminal"}, Fail(x, o)
    PROVE  OutboxInv'
<1> DEFINE r == [task[x] EXCEPT !.at = "failing", !.outcome = o]
<1>3. task[x] \in Task
  BY DEF OutboxInv, TaskInv, TypeTask
<1>4. r \in Task /\ r.worker = task[x].worker
  BY <1>3 DEF Task, Step, Outcome
<1>5. task' = [task EXCEPT ![x] = r]
  BY DEF Fail, OutboxInv, TaskInv, TypeTask
<1>6. DataKept /\ UNCHANGED <<checkpoint, tick>>
  BY DEF Fail, DataKept
<1> HIDE DEF r
<1>7. TasksKept
  BY <1>4, <1>5, <1>6, MoveKeeps DEF OutboxInv
<1> QED
  BY <1>6, <1>7, FrameKeeps

LEMMA CompletionFailureKeeps ==
    ASSUME OutboxInv, NEW x \in Live, CompletionRefused(x) \/ CompletionFaults(x)
    PROVE  OutboxInv'
<1>1. CompletionFails(x) /\ DataKept /\ UNCHANGED checkpoint
  BY DEF CompletionRefused, CompletionFaults, DataKept
<1>2. TasksKept
  BY <1>1, CompletionFailsKeeps DEF OutboxInv
<1> QED
  BY <1>1, <1>2, FrameKeeps

LEMMA CrashKeeps ==
    ASSUME OutboxInv, NEW w \in Worker, Crash(w)
    PROVE  OutboxInv'
<1>1. task' = [x \in {y \in Live : task[y].worker # w} |-> task[x]]
      /\ tick' = [tick EXCEPT ![w] = {}] /\ DataKept /\ UNCHANGED checkpoint
  BY DEF Crash, DataKept
<1>2. Live' = {y \in Live : task[y].worker # w}
  BY <1>1 DEF Live
<1>3. task' \in [Live' -> Task] /\ Live' \subseteq Live
  BY <1>1, <1>2 DEF OutboxInv, TaskInv, TypeTask
<1>4. \A y \in Live' : task'[y].worker = task[y].worker
  BY <1>1, <1>2
<1>5. tick' = [v \in Worker |-> tick'[v]]
      /\ \A v \in Worker : tick'[v] = IF v = w THEN {} ELSE tick[v]
  BY <1>1 DEF OutboxInv, TaskInv, TypeTask
<1>6. \A v \in Worker : tick'[v] \subseteq tick[v] /\ tick'[v] \in SUBSET Live'
  BY <1>2, <1>5 DEF OutboxInv, TaskInv, TypeTask, TickIsOwn
<1>7. tick' \in [Worker -> SUBSET Live']
  BY <1>5, <1>6
<1>8. TasksKept
  BY <1>3, <1>4, <1>6, <1>7 DEF TasksKept
<1> QED
  BY <1>1, <1>8, FrameKeeps

\* Operators and time write one row each.
LEMMA RowStepKeeps ==
    ASSUME OutboxInv, NEW e \in Rows, NEW row \in Row, SetRow(e, row),
           Unaudited(outbox[e], row),
           UNCHANGED <<execution, absorbed, checkpoint, tick, task>>
    PROVE  OutboxInv'
<1>1. DataInv' /\ DOMAIN execution' = DOMAIN execution
  BY RowStep DEF OutboxInv, LogsKept
<1>2. TaskInv'
  BY DEF OutboxInv, TaskInv, TypeTask, TickIsOwn, Live
<1> QED
  BY <1>1, <1>2 DEF OutboxInv

LEMMA ReconcileKeeps ==
    ASSUME OutboxInv, NEW e \in Rows, ReconcileSent(e) \/ ReconcileNotSent(e)
    PROVE  OutboxInv'
<1>0. outbox[e] \in Row
  BY DEF OutboxInv, DataInv, TypeData
<1>1. CASE ReconcileSent(e)
  <2>1. SetRow(e, SettledByHand(outbox[e])) /\ outbox[e].topic = "outbound"
        /\ UNCHANGED <<execution, absorbed, checkpoint, tick, task>>
    BY <1>1 DEF ReconcileSent, Reconcilable, SettledByHand
  <2>2. SettledByHand(outbox[e]) \in Row
        /\ Unaudited(outbox[e], SettledByHand(outbox[e]))
    BY <1>0, <2>1, RowUpdates
  <2> QED
    BY <2>1, <2>2, RowStepKeeps
<1>2. CASE ReconcileNotSent(e)
  <2>1. SetRow(e, Reopened(outbox[e]))
        /\ UNCHANGED <<execution, absorbed, checkpoint, tick, task>>
    BY <1>2 DEF ReconcileNotSent, Reopened
  <2>2. Reopened(outbox[e]) \in Row /\ Unaudited(outbox[e], Reopened(outbox[e]))
    BY <1>0, RowUpdates
  <2> QED
    BY <2>1, <2>2, RowStepKeeps
<1> QED
  BY <1>1, <1>2

LEMMA TimeKeeps ==
    ASSUME OutboxInv, NEW e \in Rows, TimePasses(e)
    PROVE  OutboxInv'
<1>0. outbox[e] \in Row /\ UNCHANGED <<execution, absorbed, checkpoint, tick, task>>
  BY DEF OutboxInv, DataInv, TypeData, TimePasses
<1>1. CASE Lapse(e)
  <2>1. SetRow(e, Lapsed(outbox[e]))
    BY <1>1 DEF Lapse, Lapsed
  <2> QED
    BY <1>0, <2>1, RowUpdates, RowStepKeeps
<1>2. CASE BecomeDue(e)
  <2>1. SetRow(e, DueNow(outbox[e]))
    BY <1>2 DEF BecomeDue, DueNow
  <2> QED
    BY <1>0, <2>1, RowUpdates, RowStepKeeps
<1>3. CASE GrowOld(e)
  <2>1. SetRow(e, Older(outbox[e])) /\ outbox[e].age < 2
    BY <1>0, <1>3 DEF GrowOld, Older, Row
  <2> QED
    BY <1>0, <2>1, RowUpdates, RowStepKeeps
<1> QED
  BY <1>1, <1>2, <1>3 DEF TimePasses

\* completeOutboxExecution leaves no row of its own in processing.
LEMMA CompletedFacts ==
    ASSUME NEW r \in Row, NEW x \in DOMAIN execution, execution[x] \in AuditRow
    PROVE  /\ Completed(r, x) \in Row /\ Completed(r, x).topic = r.topic
           /\ Completed(r, x).status \in {"delivered", "dead", "pending"}
<1> DEFINE closed == [r EXCEPT !.attempts = execution[x].attempt,
                               !.locked = FALSE, !.lapsed = FALSE]
           sent == [closed EXCEPT !.status = "delivered"]
           failed == [closed EXCEPT !.status = "dead"]
<1>1. closed \in Row /\ closed.topic = r.topic
  BY DEF Row, AuditRow
<1>2. Completed(r, x) \in {sent, failed, Bury(closed), GiveBack(closed)}
  BY DEF Completed
<1> HIDE DEF closed
<1>3. sent \in Row /\ sent.topic = r.topic /\ sent.status = "delivered"
  BY <1>1 DEF Row, EventStatus
<1>4. failed \in Row /\ failed.topic = r.topic /\ failed.status = "dead"
  BY <1>1 DEF Row, EventStatus
<1>5. Bury(closed) \in Row /\ Bury(closed).topic = r.topic /\ Bury(closed).status = "dead"
  BY <1>1, RowUpdates DEF Unaudited
<1>6. GiveBack(closed) \in Row /\ GiveBack(closed).topic = r.topic
      /\ GiveBack(closed).status = "pending"
  BY <1>1, RowUpdates DEF Unaudited
<1> HIDE DEF sent, failed
<1> QED
  BY <1>2, <1>3, <1>4, <1>5, <1>6

Absorbed(r) == [r EXCEPT !.status = "delivered", !.execution = NoExecution,
                         !.locked = FALSE, !.lapsed = FALSE]

LEMMA AbsorbedFacts ==
    ASSUME NEW r \in Row
    PROVE  Absorbed(r) \in Row /\ Absorbed(r).status = "delivered"
BY DEF Row, EventStatus, Absorbed

LEMMA WriteCompletionKeeps ==
    ASSUME OutboxInv, NEW x \in Live, WriteCompletion(x)
    PROVE  OutboxInv'
<1> DEFINE e == EventOf(x)
           after == Completed(outbox[e], x)
           s == CASE after.status = "delivered" -> "succeeded"
                  [] after.status = "pending" -> "retryable"
                  [] OTHER -> "terminal"
<1>0. /\ x \in DOMAIN execution /\ e \in Rows /\ outbox[e] \in Row
      /\ execution[x] \in AuditRow /\ task[x] \in Task
  BY DEF OutboxInv, TaskInv, TypeTask, DataInv, ExecutedRowExists, TypeData
<1>1. after \in Row /\ after.status \in {"delivered", "dead", "pending"}
  BY <1>0, CompletedFacts
<1>2. s \in ExecutionStatus /\ (after.status = "delivered" => s = "succeeded")
  BY <1>1 DEF ExecutionStatus
<1>3. /\ outbox' = [f \in Rows |-> IF f = e THEN after
                                   ELSE IF f \in Absorbable(x) THEN Absorbed(outbox[f])
                                        ELSE outbox[f]]
      /\ SetStatus(x, s)
      /\ absorbed' = absorbed \cup AuditOfBatch(x)
      /\ Finish(x) \/ CompletionFails(x)
      /\ UNCHANGED checkpoint
  BY DEF WriteCompletion, Absorbed
<1> HIDE DEF after, s, e
<1>4. /\ Rows' = Rows /\ outbox'[e] = after
      /\ \A f \in Rows : f # e /\ f \in Absorbable(x) => outbox'[f] = Absorbed(outbox[f])
      /\ \A f \in Rows : f # e /\ f \notin Absorbable(x) => outbox'[f] = outbox[f]
  BY <1>0, <1>3 DEF Rows
<1>5. \A f \in Rows : outbox'[f] \in Row
  BY <1>1, <1>4, AbsorbedFacts DEF OutboxInv, DataInv, TypeData
<1>6. /\ DOMAIN execution' = DOMAIN execution
      /\ execution' \in [DOMAIN execution -> AuditRow]
      /\ execution'[x].status = s
      /\ \A y \in DOMAIN execution : /\ execution'[y].event = execution[y].event
                                     /\ execution'[y].attempt = execution[y].attempt
      /\ \A y \in DOMAIN execution \ {x} : execution'[y] = execution[y]
  BY <1>0, <1>2, <1>3, SetStatusFacts DEF OutboxInv, DataInv
<1>7. TypeData'
  <2>1. outbox' \in [Rows -> Row]
    BY <1>3, <1>5
  <2>2. AuditOfBatch(x) \subseteq Execution \X Event
    BY <1>0 DEF AuditOfBatch, Absorbable, Task, OutboxInv, DataInv, TypeData
  <2> QED
    BY <1>3, <1>4, <1>6, <2>1, <2>2 DEF OutboxInv, DataInv, TypeData
<1>8. ExecutedRowExists'
  BY <1>4, <1>6 DEF OutboxInv, DataInv, ExecutedRowExists, EventOf
<1>9. ASSUME NEW f \in Rows, outbox'[f].status = "processing"
      PROVE  Audits(outbox[f].execution, f, outbox[f])'
  <2>1. f # e /\ f \notin Absorbable(x) /\ outbox'[f] = outbox[f]
    BY <1>1, <1>4, <1>9, AbsorbedFacts DEF OutboxInv, DataInv, TypeData
  <2>2. Audits(outbox[f].execution, f, outbox[f])
    BY <1>9, <2>1 DEF OutboxInv, DataInv, LockIsAudited
  <2>3. outbox[f].execution # x
    BY <2>1, <2>2 DEF Audits, EventOf, e
  <2> QED
    BY <1>6, <2>1, <2>2, <2>3 DEF Audits, OpenStatus
<1>10. LockIsAudited'
  BY <1>4, <1>9 DEF LockIsAudited
<1>11. ASSUME NEW f \in Rows, outbox'[f].status = "delivered"
       PROVE  \/ \E y \in DOMAIN execution : execution'[y].event = f
                                             /\ execution'[y].status = "succeeded"
              \/ \E y \in DOMAIN execution : <<y, f>> \in absorbed'
              \/ outbox'[f].topic = "outbound"
  <2>1. CASE f = e
    BY <1>0, <1>2, <1>4, <1>6, <1>11, <2>1 DEF EventOf, e
  <2>2. CASE f # e /\ f \in Absorbable(x)
    BY <1>0, <1>3, <2>2 DEF AuditOfBatch
  <2>3. CASE f # e /\ f \notin Absorbable(x)
    <3>1. outbox'[f] = outbox[f]
      BY <1>4, <2>3
    <3>2. \/ \E y \in DOMAIN execution : execution[y].event = f
                                         /\ execution[y].status = "succeeded"
          \/ \E y \in DOMAIN execution : <<y, f>> \in absorbed
          \/ outbox[f].topic = "outbound"
      BY <1>11, <3>1 DEF OutboxInv, DataInv, DeliveryIsAudited, EventOf
    <3>3. execution[x].event # f
      BY <2>3 DEF EventOf, e
    <3> QED
      BY <1>3, <1>6, <3>1, <3>2, <3>3
  <2> QED
    BY <2>1, <2>2, <2>3
<1>12. DeliveryIsAudited'
  BY <1>4, <1>6, <1>11 DEF DeliveryIsAudited, EventOf
<1>13. TasksKept
  BY <1>3, FinishKeeps, CompletionFailsKeeps DEF OutboxInv
<1>14. TaskInv'
  BY <1>6, <1>13, KeptTasks DEF OutboxInv
<1> QED
  BY <1>7, <1>8, <1>10, <1>12, <1>14 DEF OutboxInv, DataInv

-----------------------------------------------------------------------------
(* claim() *)

LEMMA SweptFacts ==
    ASSUME NEW y \in DOMAIN execution, execution[y] \in AuditRow
    PROVE  /\ SweptStatus(y) \in ExecutionStatus
           /\ execution[y].status = "succeeded" => SweptStatus(y) = "succeeded"
           /\ SweptStatus(y) \in {execution[y].status, "expired", "terminal"}
           /\ outbox[EventOf(y)].status = "processing" /\ ~Exhausted(EventOf(y))
                => SweptStatus(y) \in {execution[y].status, "expired"}
BY DEF SweptStatus, OpenAudit, AuditRow, ExecutionStatus

Claimed(r, x) == [r EXCEPT !.status = "processing", !.locked = TRUE, !.lapsed = FALSE,
                           !.execution = x, !.attempts = @ + 1]

LEMMA ClaimedFacts ==
    ASSUME NEW r \in Row, NEW x \in Execution
    PROVE  /\ Claimed(r, x) \in Row /\ Claimed(r, x).status = "processing"
           /\ Claimed(r, x).locked = TRUE /\ Claimed(r, x).execution = x
           /\ Claimed(r, x).attempts = r.attempts + 1
<1>1. r.attempts + 1 \in Nat
  BY DEF Row
<1> QED
  BY <1>1 DEF Row, EventStatus, Claimed

LEMMA ClaimBatchKeeps ==
    ASSUME OutboxInv, NEW w \in Worker, NEW S \in SUBSET Candidate,
           NEW id \in [S -> Execution \ DOMAIN execution],
           \A e, f \in S : id[e] = id[f] => e = f,
           ClaimBatch(w, id)
    PROVE  OutboxInv'
<1> DEFINE new == {id[e] : e \in DOMAIN id}
           eventFor(x) == CHOOSE e \in DOMAIN id : id[e] = x
           audit(x) == [event |-> eventFor(x), status |-> "claimed",
                        attempt |-> outbox[eventFor(x)].attempts + 1]
           start(x) == [worker |-> w, at |-> "claimed", outcome |-> "succeeded",
                        batch |-> {}, checked |-> FALSE,
                        generation |-> outbox[eventFor(x)].generation]
           swept(y) == [execution[y] EXCEPT !.status = SweptStatus(y)]
<1>1. S \subseteq Rows /\ \A e \in S : /\ outbox[e] \in Row /\ id[e] \in Execution
                                       /\ id[e] \notin DOMAIN execution
  BY DEF Candidate, OutboxInv, DataInv, TypeData
<1>4. DOMAIN id = S
  OBVIOUS
<1>2. \A e \in S : id[e] \in new /\ eventFor(id[e]) = e
  BY <1>4
<1>3. \A x \in new : /\ eventFor(x) \in S /\ id[eventFor(x)] = x
                     /\ x \in Execution /\ x \notin DOMAIN execution
  BY <1>1, <1>2, <1>4
<1>5. /\ outbox' = [e \in Rows |-> IF e \in DOMAIN id THEN Claimed(outbox[e], id[e])
                                   ELSE IF Exhausted(e) THEN Bury(outbox[e])
                                   ELSE outbox[e]]
      /\ execution' = [x \in DOMAIN execution \cup new |->
                         IF x \in new THEN audit(x) ELSE swept(x)]
      /\ task' = [x \in Live \cup new |-> IF x \in new THEN start(x) ELSE task[x]]
      /\ tick' = [tick EXCEPT ![w] = new]
      /\ UNCHANGED <<absorbed, checkpoint>> /\ tick[w] = {}
  BY DEF ClaimBatch, Claimed
<1>6. \A x \in new : /\ audit(x) \in AuditRow /\ audit(x).event = eventFor(x)
                     /\ audit(x).status = "claimed"
                     /\ audit(x).attempt = outbox[eventFor(x)].attempts + 1
  BY <1>1, <1>3 DEF AuditRow, Row, ExecutionStatus, OutboxInv, DataInv, TypeData
<1>7. \A x \in new : start(x) \in Task /\ start(x).worker = w
  BY <1>1, <1>3 DEF Task, Row, Step, Outcome
<1>8. \A y \in DOMAIN execution :
        /\ swept(y) \in AuditRow /\ swept(y).event = execution[y].event
        /\ swept(y).attempt = execution[y].attempt /\ swept(y).status = SweptStatus(y)
  BY SweptFacts DEF OutboxInv, DataInv, TypeData, AuditRow
<1> HIDE DEF new, eventFor, audit, start, swept
<1>9. /\ Rows' = Rows
      /\ \A e \in S : outbox'[e] = Claimed(outbox[e], id[e])
      /\ \A e \in Rows \ S : Exhausted(e) => outbox'[e] = Bury(outbox[e])
      /\ \A e \in Rows \ S : ~Exhausted(e) => outbox'[e] = outbox[e]
  BY <1>1, <1>4, <1>5 DEF Rows
<1>18. \A e \in S : LET r == Claimed(outbox[e], id[e])
                  IN  /\ r \in Row /\ r.status = "processing" /\ r.locked = TRUE
                      /\ r.execution = id[e] /\ r.attempts = outbox[e].attempts + 1
  BY <1>1, ClaimedFacts
<1>19. \A e \in Rows : /\ outbox[e] \in Row /\ Bury(outbox[e]) \in Row
                       /\ Bury(outbox[e]).status = "dead"
  BY RowUpdates DEF OutboxInv, DataInv, TypeData
<1>10. /\ DOMAIN execution' = DOMAIN execution \cup new
       /\ \A x \in new : execution'[x] = audit(x)
       /\ \A y \in DOMAIN execution : execution'[y] = swept(y)
  BY <1>3, <1>5
<1>11. TypeData'
  <2>1. \A e \in Rows : outbox'[e] \in Row
    BY <1>9, <1>18, <1>19
  <2>2. outbox' \in [Rows -> Row]
    BY <1>5, <2>1
  <2>3. \A x \in DOMAIN execution \cup new : execution'[x] \in AuditRow
    BY <1>6, <1>8, <1>10
  <2>4. execution' \in [DOMAIN execution' -> AuditRow]
    BY <1>5, <1>10, <2>3
  <2> QED
    BY <1>3, <1>5, <1>9, <1>10, <2>2, <2>4 DEF OutboxInv, DataInv, TypeData
<1>12. ExecutedRowExists'
  BY <1>1, <1>3, <1>6, <1>8, <1>9, <1>10 DEF OutboxInv, DataInv, ExecutedRowExists, EventOf
<1>13. ASSUME NEW e \in Rows, outbox'[e].status = "processing"
       PROVE  Audits(outbox[e].execution, e, outbox[e])'
  <2>1. CASE e \in S
    BY <1>2, <1>6, <1>9, <1>10, <1>18, <2>1 DEF Audits, OpenStatus
  <2>2. CASE e \notin S
    <3>1. ~Exhausted(e) /\ outbox'[e] = outbox[e]
      BY <1>9, <1>13, <1>19, <2>2
    <3>2. Audits(outbox[e].execution, e, outbox[e])
      BY <1>13, <3>1 DEF OutboxInv, DataInv, LockIsAudited
    <3>3. SweptStatus(outbox[e].execution)
            \in {execution[outbox[e].execution].status, "expired"}
      BY <1>13, <3>1, <3>2, SweptFacts DEF Audits, EventOf, OutboxInv, DataInv, TypeData
    <3> QED
      BY <1>8, <1>10, <3>1, <3>2, <3>3 DEF Audits, OpenStatus
  <2> QED
    BY <2>1, <2>2
<1>14. LockIsAudited'
  BY <1>9, <1>13 DEF LockIsAudited
<1>15. ASSUME NEW f \in Rows, outbox'[f].status = "delivered"
       PROVE  \/ \E y \in DOMAIN execution' : execution'[y].event = f
                                              /\ execution'[y].status = "succeeded"
              \/ \E y \in DOMAIN execution' : <<y, f>> \in absorbed
              \/ outbox'[f].topic = "outbound"
  <2>1. outbox'[f] = outbox[f]
    BY <1>9, <1>15, <1>18, <1>19
  <2>2. \/ \E y \in DOMAIN execution : execution[y].event = f
                                       /\ execution[y].status = "succeeded"
        \/ \E y \in DOMAIN execution : <<y, f>> \in absorbed
        \/ outbox[f].topic = "outbound"
    BY <1>15, <2>1 DEF OutboxInv, DataInv, DeliveryIsAudited, EventOf
  <2>3. \A y \in DOMAIN execution : execution[y].status = "succeeded" =>
          execution'[y].status = "succeeded" /\ execution'[y].event = execution[y].event
    BY <1>8, <1>10, SweptFacts DEF OutboxInv, DataInv, TypeData
  <2> QED
    BY <1>10, <2>1, <2>2, <2>3
<1>16. DeliveryIsAudited'
  BY <1>5, <1>9, <1>15 DEF DeliveryIsAudited, EventOf
<1>17. TaskInv'
  <2>1. Live' = Live \cup new /\ Live \cap new = {}
    BY <1>3, <1>5 DEF Live, OutboxInv, TaskInv, TypeTask
  <2>2. /\ \A x \in new : task'[x] \in Task /\ task'[x].worker = w
        /\ \A y \in Live : task'[y] = task[y] /\ task'[y] \in Task
    BY <1>5, <1>7, <2>1 DEF OutboxInv, TaskInv, TypeTask
  <2>3. task' \in [Live' -> Task]
    BY <1>5, <2>1, <2>2
  <2>4. Live' \subseteq DOMAIN execution'
    BY <1>10, <2>1 DEF OutboxInv, TaskInv, TypeTask
  <2>5. tick' = [v \in Worker |-> tick'[v]]
        /\ \A v \in Worker : tick'[v] = IF v = w THEN new ELSE tick[v]
    BY <1>5 DEF OutboxInv, TaskInv, TypeTask
  <2>6. \A v \in Worker : tick'[v] \in SUBSET Live'
    BY <2>1, <2>5 DEF OutboxInv, TaskInv, TypeTask
  <2>7. tick' \in [Worker -> SUBSET Live']
    BY <2>5, <2>6
  <2>8. TickIsOwn'
    BY <2>1, <2>2, <2>5 DEF OutboxInv, TaskInv, TypeTask, TickIsOwn
  <2> QED
    BY <2>3, <2>4, <2>7, <2>8 DEF TaskInv, TypeTask
<1> QED
  BY <1>11, <1>12, <1>14, <1>16, <1>17 DEF OutboxInv, DataInv

-----------------------------------------------------------------------------
(* The specification *)

LEMMA InitEstablishes == Init => OutboxInv
<1> SUFFICES ASSUME Init PROVE OutboxInv
  OBVIOUS
<1>1. DOMAIN outbox = {} /\ DOMAIN execution = {} /\ DOMAIN checkpoint = {}
      /\ DOMAIN task = {}
  BY DEF Init
<1>2. TypeData
  BY <1>1 DEF Init, TypeData, Rows
<1>3. ExecutedRowExists /\ LockIsAudited /\ DeliveryIsAudited
  BY <1>1 DEF ExecutedRowExists, LockIsAudited, DeliveryIsAudited, Rows
<1>4. TaskInv
  BY <1>1 DEF Init, TaskInv, TypeTask, TickIsOwn, Live
<1> QED
  BY <1>2, <1>3, <1>4 DEF OutboxInv, DataInv

LEMMA DispatchKeeps ==
    ASSUME OutboxInv, NEW x \in Live, Dispatch(x)
    PROVE  OutboxInv'
BY AcceptKeeps, MovesKeep, AcceptFailsKeeps, RejectKeeps, RejectThrowsKeeps,
   GatherKeeps, SucceedKeeps, FailKeeps, CompletionFailureKeeps, WriteCompletionKeeps
   DEF Dispatch

LEMMA NextKeeps == OutboxInv /\ [Next]_outboxVars => OutboxInv'
<1> SUFFICES ASSUME OutboxInv, [Next]_outboxVars PROVE OutboxInv'
  OBVIOUS
<1>1. ASSUME NEW e \in Event, NEW c \in Conversation, NEW n \in 1..MaxSequence,
             NEW kind \in Arrival, Enqueue(e, c, n, kind)
      PROVE  OutboxInv'
  BY <1>1, EnqueueKeeps
<1>2. ASSUME NEW w \in Worker, Claim(w) PROVE OutboxInv'
  <2>1. PICK S \in SUBSET Candidate :
          \E id \in [S -> Execution \ DOMAIN execution] :
             (\A e, f \in S : id[e] = id[f] => e = f) /\ ClaimBatch(w, id)
    BY <1>2 DEF Claim
  <2> QED
    BY <2>1, ClaimBatchKeeps
<1>3. ASSUME NEW w \in Worker, Crash(w) PROVE OutboxInv'
  BY <1>3, CrashKeeps
<1>4. ASSUME NEW x \in Live, Dispatch(x) PROVE OutboxInv'
  BY <1>4, DispatchKeeps
<1>5. ASSUME NEW e \in Rows, ReconcileSent(e) \/ ReconcileNotSent(e) PROVE OutboxInv'
  BY <1>5, ReconcileKeeps
<1>6. ASSUME NEW e \in Rows, TimePasses(e) PROVE OutboxInv'
  BY <1>6, TimeKeeps
<1>7. CASE UNCHANGED outboxVars
  BY <1>7 DEF outboxVars, OutboxInv, DataInv, TypeData, ExecutedRowExists,
     LockIsAudited, Audits, OpenStatus, DeliveryIsAudited, TaskInv, TypeTask,
     TickIsOwn, Rows, Live, EventOf
<1> QED
  BY <1>1, <1>2, <1>3, <1>4, <1>5, <1>6, <1>7 DEF Next

\* The inductive invariant holds in every reachable state.
THEOREM OutboxIsAudited == Spec => []OutboxInv
<1>1. Init => OutboxInv
  BY InitEstablishes
<1>2. OutboxInv /\ [Next]_outboxVars => OutboxInv'
  BY NextKeeps
<1> QED
  BY <1>1, <1>2, PTL DEF Spec

\* Rows, audit rows, batches and dispatches keep their types; a tick awaits live
\* executions only, so a dispatch that ends never leaves its process waiting.
THEOREM TypeCorrect == Spec => []TypeOK
<1>1. OutboxInv => TypeOK
  BY InvImplies
<1> QED
  BY <1>1, OutboxIsAudited, PTL

\* A row in processing always names an execution of its own whose audit row is
\* open and carries the same attempt, whatever claims, sweeps and completions of
\* any number of processes do: the next sweep can always find it.
THEOREM ProcessingAudited == Spec => []ProcessingIsAudited
<1>1. OutboxInv => ProcessingIsAudited
  BY InvImplies
<1> QED
  BY <1>1, OutboxIsAudited, PTL

\* No event is marked delivered without a successful execution of its own, the
\* batch of one, or an operator's decision on an outbound event.
THEOREM DeliveryAudited == Spec => []DeliveryIsAudited
<1>1. OutboxInv => DeliveryIsAudited
  BY InvImplies
<1> QED
  BY <1>1, OutboxIsAudited, PTL

-----------------------------------------------------------------------------
(* The order of a conversation *)

\* What one consumer may rely on.  An exception of rejectBeforeAcceptance can end
\* a tick before its executions: then the next claim overlaps with them.
Awaited == \A x \in Live : x \in tick[task[x].worker]

\* completeOutboxExecution writes a row that is still its own.
CheckedHolds == \A x \in Live : task[x].checked => Holds(x)

OrderInv == CheckedHolds /\ ConversationOrder

\* What a step outside claim() may make of a row: it opens none, except by the
\* decision of an operator, and takes none into processing.
Calm(old, new) ==
    /\ new.conversation = old.conversation /\ new.seq = old.seq
    /\ new.generation >= old.generation
    /\ new.status \in {"pending", "processing"} =>
         old.status \in {"pending", "processing"} \/ new.generation > 0
    /\ new.status = "processing" =>
         old.status = "processing" /\ new.execution = old.execution
    /\ old.status = "delivered" => new.status = "delivered"

\* No step moves a row or takes back what was delivered, and at most one row is new:
\* its place in its conversation is its own.
RowsStay ==
    /\ \A e \in Rows :
          /\ e \in Rows'
          /\ outbox'[e].conversation = outbox[e].conversation
          /\ outbox'[e].seq = outbox[e].seq
          /\ outbox[e].status = "delivered" => outbox'[e].status = "delivered"
    /\ \/ Rows' = Rows
       \/ \E e : /\ Rows' = Rows \cup {e}
                 /\ \A f \in Rows : outbox[f].conversation = outbox'[e].conversation
                                      => outbox[f].seq # outbox'[e].seq

CalmRows == Rows' = Rows /\ \A f \in Rows : Calm(outbox[f], outbox'[f])

LEMMA CalmKeepsOrder ==
    ASSUME TypeData, ConversationOrder, CalmRows, TypeData'
    PROVE  ConversationOrder'
<1> SUFFICES ASSUME NEW e \in Rows, NEW f \in Rows, Earlier(e, f)',
                    outbox'[f].status = "processing",
                    outbox'[e].status \in {"pending", "processing"}
             PROVE  outbox'[e].generation > 0
  BY DEF CalmRows, ConversationOrder
<1>1. Calm(outbox[e], outbox'[e]) /\ Calm(outbox[f], outbox'[f])
  BY DEF CalmRows
<1>2. /\ outbox[e].generation \in Nat /\ outbox'[e].generation \in Nat
      /\ outbox'[e].generation >= outbox[e].generation
  BY <1>1 DEF TypeData, Row, CalmRows, Calm
<1>3. CASE outbox'[e].generation > 0
  BY <1>3
<1>4. CASE outbox[e].status \in {"pending", "processing"}
  <2>1. Earlier(e, f) /\ outbox[f].status = "processing"
    BY <1>1 DEF Earlier, SameConversation, Calm
  <2>2. outbox[e].generation > 0
    BY <1>4, <2>1 DEF ConversationOrder
  <2> QED
    BY <1>2, <2>2
<1> QED
  BY <1>1, <1>3, <1>4 DEF Calm

LEMMA CalmUpdates ==
    ASSUME NEW r \in Row
    PROVE  /\ Calm(r, r) /\ Calm(r, Renewed(r)) /\ Calm(r, Lapsed(r))
           /\ Calm(r, DueNow(r)) /\ Calm(r, Older(r))
           /\ r.status = "dead" => Calm(r, SettledByHand(r)) /\ Calm(r, Reopened(r))
           /\ r.status # "delivered" => Calm(r, Bury(r))
           /\ r.status \in {"pending", "processing"} => Calm(r, GiveBack(r))
<1>1. r.generation \in Nat
  BY DEF Row
<1>2. /\ Calm(r, r) /\ Calm(r, Renewed(r)) /\ Calm(r, Lapsed(r))
      /\ Calm(r, DueNow(r)) /\ Calm(r, Older(r))
  BY <1>1 DEF Row, Calm, Renewed, Lapsed, DueNow, Older
<1>3. r.status = "dead" => Calm(r, SettledByHand(r))
  BY <1>1 DEF Row, Calm, SettledByHand
<1>4. r.status = "dead" => Calm(r, Reopened(r))
  <2>1. Reopened(r).generation = r.generation + 1 /\ Reopened(r).status = "pending"
        /\ Reopened(r).conversation = r.conversation /\ Reopened(r).seq = r.seq
    BY DEF Row, Reopened, GiveBack
  <2> QED
    BY <1>1, <2>1 DEF Calm
<1>5. r.status # "delivered" => Calm(r, Bury(r))
  BY <1>1 DEF Row, Calm, Bury
<1>6. r.status \in {"pending", "processing"} => Calm(r, GiveBack(r))
  BY <1>1 DEF Row, Calm, GiveBack
<1> QED
  BY <1>2, <1>3, <1>4, <1>5, <1>6

\* One row is written, and calmly.
LEMMA CalmRow ==
    ASSUME TypeData, NEW e \in Rows, NEW row \in Row, SetRow(e, row),
           Calm(outbox[e], row)
    PROVE  CalmRows
<1>1. /\ Rows' = Rows /\ outbox'[e] = row
      /\ \A f \in Rows \ {e} : outbox'[f] = outbox[f]
  BY SetRowFacts
<1>2. \A f \in Rows : outbox[f] \in Row
  BY DEF TypeData
<1> QED
  BY <1>1, <1>2, CalmUpdates DEF CalmRows

LEMMA CalmUnchanged == ASSUME TypeData, UNCHANGED outbox PROVE CalmRows
<1>1. \A f \in Rows : outbox[f] \in Row
  BY DEF TypeData
<1> QED
  BY <1>1, CalmUpdates DEF CalmRows, Rows

\* A step outside claim() keeps the order, if it leaves every row that a checked
\* completion relies on in processing.
LEMMA CalmStep ==
    ASSUME OutboxInv, OutboxInv', OrderInv, CalmRows,
           DOMAIN execution' = DOMAIN execution,
           \A y \in DOMAIN execution : execution'[y].event = execution[y].event,
           \A y \in Live' : y \in Live /\ (task'[y].checked => task[y].checked \/ Holds(y)),
           \A y \in Live' : task'[y].checked /\ Holds(y)
                              => outbox'[EventOf(y)].status = "processing"
    PROVE  OrderInv' /\ RowsStay
<1>1. ConversationOrder'
  BY CalmKeepsOrder DEF OutboxInv, DataInv, OrderInv
<1>2. ASSUME NEW y \in Live', task'[y].checked PROVE Holds(y)'
  <2>1. Holds(y) /\ y \in DOMAIN execution
    BY <1>2 DEF OrderInv, CheckedHolds, OutboxInv, TaskInv, TypeTask
  <2>2. EventOf(y) \in Rows /\ EventOf(y)' = EventOf(y)
    BY <2>1 DEF OutboxInv, DataInv, ExecutedRowExists, EventOf
  <2>3. Calm(outbox[EventOf(y)], outbox'[EventOf(y)])
        /\ outbox'[EventOf(y)].status = "processing"
    BY <1>2, <2>1, <2>2 DEF CalmRows
  <2> QED
    BY <2>1, <2>2, <2>3 DEF Calm, Holds
<1>3. RowsStay
  BY DEF CalmRows, Calm, RowsStay
<1> QED
  BY <1>1, <1>2, <1>3 DEF OrderInv, CheckedHolds

\* What a step does to the dispatches: none starts, and none is checked by it.
Unchecked == \A y \in Live' : y \in Live /\ (task'[y].checked => task[y].checked)

LEMMA GotoUnchecked ==
    ASSUME TypeTask, NEW x \in Live, NEW s, Goto(x, s)
    PROVE  Unchecked
BY DEF TypeTask, Goto, Unchecked, Live, Task

LEMMA FinishUnchecked ==
    ASSUME TypeTask, NEW x \in Live, Finish(x)
    PROVE  Unchecked /\ x \notin Live'
BY DEF TypeTask, Finish, Unchecked, Live

LEMMA CompletionFailsUnchecked ==
    ASSUME TypeTask, NEW x \in Live, CompletionFails(x)
    PROVE  Unchecked /\ (x \in Live' => ~task'[x].checked)
<1>1. CASE task[x].at = "failing" /\ Finish(x)
  BY <1>1, FinishUnchecked
<1>2. CASE task' = [task EXCEPT ![x].at = "failing", ![x].outcome = "retryable",
                                ![x].batch = {}, ![x].checked = FALSE]
  BY <1>2 DEF TypeTask, Unchecked, Live, Task
<1> QED
  BY <1>1, <1>2 DEF CompletionFails

\* The steps that write no row.
LEMMA IdleRowsKeepOrder ==
    ASSUME OutboxInv, OutboxInv', OrderInv, UNCHANGED <<outbox, execution>>, Unchecked
    PROVE  OrderInv' /\ RowsStay
<1>1. CalmRows
  BY CalmUnchanged DEF OutboxInv, DataInv
<1>2. \A y \in Live' : Holds(y) => outbox'[EventOf(y)].status = "processing"
  BY DEF Holds
<1> QED
  BY <1>1, <1>2, CalmStep DEF Unchecked

LEMMA IdleSteps ==
    ASSUME TypeTask, NEW x \in Live,
           \/ AcceptLate(x) \/ AcceptRefused(x) \/ RejectThrows(x)
           \/ Gather(x) \/ Succeed(x)
           \/ \E o \in {"retryable", "terminal"} : Fail(x, o)
           \/ CompletionRefused(x) \/ CompletionFaults(x)
    PROVE  Unchecked /\ UNCHANGED <<outbox, execution, absorbed>>
<1>1. UNCHANGED <<outbox, execution, absorbed>>
  BY DEF AcceptLate, AcceptRefused, RejectThrows, Gather, Succeed, Fail,
         CompletionRefused, CompletionFaults
<1>2. CASE AcceptLate(x) \/ AcceptRefused(x)
  BY <1>2, GotoUnchecked DEF AcceptLate, AcceptRefused
<1>3. CASE RejectThrows(x)
  BY <1>3 DEF RejectThrows, Unchecked, Live
<1>4. CASE Gather(x)
  BY <1>4 DEF Gather, Unchecked, Live
<1>5. CASE Succeed(x)
  BY <1>5 DEF Succeed, Unchecked, Live, TypeTask, Task
<1>6. CASE \E o \in {"retryable", "terminal"} : Fail(x, o)
  BY <1>6 DEF Fail, Unchecked, Live, TypeTask, Task
<1>7. CASE CompletionRefused(x) \/ CompletionFaults(x)
  BY <1>7, CompletionFailsUnchecked DEF CompletionRefused, CompletionFaults
<1> QED
  BY <1>1, <1>2, <1>3, <1>4, <1>5, <1>6, <1>7

LEMMA IdleStepsKeepOrder ==
    ASSUME OutboxInv, OutboxInv', OrderInv, NEW x \in Live,
           \/ AcceptLate(x) \/ AcceptRefused(x) \/ RejectThrows(x)
           \/ Gather(x) \/ Succeed(x)
           \/ \E o \in {"retryable", "terminal"} : Fail(x, o)
           \/ CompletionRefused(x) \/ CompletionFaults(x)
    PROVE  OrderInv' /\ RowsStay
<1>1. Unchecked /\ UNCHANGED <<outbox, execution>>
  BY IdleSteps DEF OutboxInv, TaskInv
<1> QED
  BY <1>1, IdleRowsKeepOrder

LEMMA CheckKeepsOrder ==
    ASSUME OutboxInv, OutboxInv', OrderInv, NEW x \in Live, CheckCompletion(x)
    PROVE  OrderInv' /\ RowsStay
<1>1. UNCHANGED <<outbox, execution>> /\ Holds(x)
      /\ task' = [task EXCEPT ![x].checked = TRUE]
  BY DEF CheckCompletion
<1>2. \A y \in Live' : y \in Live /\ (task'[y].checked => task[y].checked \/ Holds(y))
  BY <1>1 DEF OutboxInv, TaskInv, TypeTask, Live
<1>3. CalmRows
  BY <1>1, CalmUnchanged DEF OutboxInv, DataInv
<1>4. \A y \in Live' : Holds(y) => outbox'[EventOf(y)].status = "processing"
  BY <1>1 DEF Holds
<1> QED
  BY <1>1, <1>2, <1>3, <1>4, CalmStep

LEMMA CrashKeepsOrder ==
    ASSUME OutboxInv, OutboxInv', OrderInv, NEW w \in Worker, Crash(w)
    PROVE  OrderInv' /\ RowsStay
<1>1. UNCHANGED <<outbox, execution>> /\ Unchecked
  BY DEF Crash, Unchecked, Live
<1> QED
  BY <1>1, IdleRowsKeepOrder

\* markAccepted's writes leave the row in processing.
LEMMA AcceptKeepsOrder ==
    ASSUME OutboxInv, OutboxInv', OrderInv, NEW x \in Live, Accept(x) \/ AcceptFails(x)
    PROVE  OrderInv' /\ RowsStay
<1> DEFINE e == EventOf(x)
<1>0. x \in DOMAIN execution /\ e \in Rows /\ outbox[e] \in Row /\ TypeTask
  BY DEF OutboxInv, TaskInv, TypeTask, DataInv, ExecutedRowExists, TypeData
<1>1. Unchecked
  BY <1>0, GotoUnchecked DEF Accept, AcceptFails
<1>2. CASE UNCHANGED <<outbox, execution>>
  BY <1>1, <1>2, IdleRowsKeepOrder
<1>3. CASE AcceptRow(x) /\ SetStatus(x, "accepted")
  <2>1. SetRow(e, Renewed(outbox[e]))
    BY <1>3 DEF AcceptRow, Renewed
  <2>2. Renewed(outbox[e]) \in Row /\ Renewed(outbox[e]).status = outbox[e].status
    BY <1>0, RowUpdates
  <2>3. CalmRows
    BY <1>0, <2>1, <2>2, CalmUpdates, CalmRow DEF OutboxInv, DataInv
  <2>4. \A f \in Rows : outbox'[f].status = outbox[f].status
    BY <1>0, <2>1, <2>2, SetRowFacts DEF OutboxInv, DataInv
  <2>5. DOMAIN execution' = DOMAIN execution
        /\ \A y \in DOMAIN execution : execution'[y].event = execution[y].event
    BY <1>0, <1>3, SetStatusFacts DEF OutboxInv, DataInv, ExecutionStatus
  <2>6. \A y \in Live : EventOf(y) \in Rows
    BY DEF OutboxInv, TaskInv, TypeTask, DataInv, ExecutedRowExists
  <2>7. \A y \in Live' : Holds(y) => outbox'[EventOf(y)].status = "processing"
    BY <1>1, <2>4, <2>6 DEF Holds, Unchecked
  <2> QED
    BY <1>1, <2>3, <2>5, <2>7, CalmStep DEF Unchecked
<1> QED
  BY <1>2, <1>3 DEF Accept, AcceptFails

\* rejectBeforeAcceptance takes a row out of processing only if its dispatch holds it.
LEMMA RejectKeepsOrder ==
    ASSUME OutboxInv, OutboxInv', OrderInv, NEW x \in Live, Reject(x)
    PROVE  OrderInv' /\ RowsStay
<1> DEFINE e == EventOf(x)
           dead == execution[x].attempt >= MaxAttempts
           row == IF dead THEN Bury(outbox[e]) ELSE GiveBack(outbox[e])
<1>0. x \in DOMAIN execution /\ e \in Rows /\ outbox[e] \in Row /\ TypeTask
  BY DEF OutboxInv, TaskInv, TypeTask, DataInv, ExecutedRowExists, TypeData
<1>1. Unchecked /\ x \notin Live'
  BY <1>0, FinishUnchecked DEF Reject
<1>2. DOMAIN execution' = DOMAIN execution
      /\ \A y \in DOMAIN execution : execution'[y].event = execution[y].event
  <2>1. \A s \in {"terminal", "retryable"} : s \in ExecutionStatus
    BY DEF ExecutionStatus
  <2>2. UNCHANGED execution \/ \E s \in {"terminal", "retryable"} : SetStatus(x, s)
    BY DEF Reject
  <2> QED
    BY <1>0, <2>1, <2>2, SetStatusFacts DEF OutboxInv, DataInv
<1>3. CASE ~HoldsLock(x)
  <2>1. UNCHANGED outbox
    BY <1>3 DEF Reject
  <2>2. CalmRows
    BY <2>1, CalmUnchanged DEF OutboxInv, DataInv
  <2>3. \A y \in Live' : Holds(y) => outbox'[EventOf(y)].status = "processing"
    BY <2>1 DEF Holds
  <2> QED
    BY <1>1, <1>2, <2>2, <2>3, CalmStep DEF Unchecked
<1>4. CASE HoldsLock(x)
  <2>1. SetRow(e, row) /\ outbox[e].status = "processing" /\ outbox[e].execution = x
    BY <1>4 DEF Reject, HoldsLock, Holds
  <2>2. row \in Row /\ Calm(outbox[e], row)
    BY <1>0, <2>1, RowUpdates, CalmUpdates
  <2> HIDE DEF row
  <2>3. CalmRows
    BY <1>0, <2>1, <2>2, CalmRow DEF OutboxInv, DataInv
  <2>4. \A f \in Rows \ {e} : outbox'[f] = outbox[f]
    BY <1>0, <2>1, <2>2, SetRowFacts DEF OutboxInv, DataInv
  <2>5. ASSUME NEW y \in Live', Holds(y) PROVE outbox'[EventOf(y)].status = "processing"
    <3>1. y # x /\ y \in Live
      BY <1>1 DEF Unchecked
    <3>2. EventOf(y) \in Rows \ {e}
      BY <2>1, <2>5, <3>1
         DEF Holds, OutboxInv, TaskInv, TypeTask, DataInv, ExecutedRowExists
    <3> QED
      BY <2>4, <2>5, <3>2 DEF Holds
  <2> QED
    BY <1>1, <1>2, <2>3, <2>5, CalmStep DEF Unchecked
<1> QED
  BY <1>3, <1>4

LEMMA CompletedIsCalm ==
    ASSUME NEW r \in Row, NEW x \in DOMAIN execution, execution[x] \in AuditRow,
           r.status = "processing"
    PROVE  Calm(r, Completed(r, x))
<1> DEFINE closed == [r EXCEPT !.attempts = execution[x].attempt,
                               !.locked = FALSE, !.lapsed = FALSE]
           sent == [closed EXCEPT !.status = "delivered"]
           failed == [closed EXCEPT !.status = "dead"]
<1>1. closed \in Row /\ closed.status = "processing"
  BY DEF Row, AuditRow
<1>2. closed.conversation = r.conversation /\ closed.seq = r.seq
      /\ closed.generation = r.generation
  BY DEF Row
<1>3. Completed(r, x) \in {sent, failed, Bury(closed), GiveBack(closed)}
  BY DEF Completed
<1> HIDE DEF closed
<1>4. Calm(closed, sent)
  BY <1>1 DEF Row, Calm
<1>5. Calm(closed, failed)
  BY <1>1 DEF Row, Calm
<1>6. Calm(closed, Bury(closed)) /\ Calm(closed, GiveBack(closed))
  BY <1>1, CalmUpdates
<1> HIDE DEF sent, failed
<1>7. Calm(closed, Completed(r, x)) /\ Completed(r, x).status # "processing"
  <2>1. Completed(r, x).status # "processing"
    BY CompletedFacts
  <2> QED
    BY <1>3, <1>4, <1>5, <1>6, <2>1
<1> QED
  BY <1>2, <1>7 DEF Calm

LEMMA AbsorbedIsCalm ==
    ASSUME NEW r \in Row PROVE Calm(r, Absorbed(r))
<1>1. r.generation \in Nat
  BY DEF Row
<1> QED
  BY <1>1 DEF Row, Calm, Absorbed

\* A checked completion writes the row of its own execution, and pending rows.
LEMMA WriteKeepsOrder ==
    ASSUME OutboxInv, OutboxInv', OrderInv, NEW x \in Live, WriteCompletion(x)
    PROVE  OrderInv' /\ RowsStay
<1> DEFINE e == EventOf(x)
           after == Completed(outbox[e], x)
<1>0. /\ x \in DOMAIN execution /\ e \in Rows /\ outbox[e] \in Row
      /\ execution[x] \in AuditRow /\ task[x] \in Task /\ TypeTask
  BY DEF OutboxInv, TaskInv, TypeTask, DataInv, ExecutedRowExists, TypeData
<1>1. outbox[e].status = "processing" /\ outbox[e].execution = x
  BY DEF WriteCompletion, OrderInv, CheckedHolds, Holds
<1>2. Calm(outbox[e], after)
  BY <1>0, <1>1, CompletedIsCalm
<1>3. /\ outbox' = [f \in Rows |-> IF f = e THEN after
                                   ELSE IF f \in Absorbable(x) THEN Absorbed(outbox[f])
                                        ELSE outbox[f]]
      /\ Finish(x) \/ CompletionFails(x)
  BY DEF WriteCompletion, Absorbed
<1>4. DOMAIN execution' = DOMAIN execution
      /\ \A y \in DOMAIN execution : execution'[y].event = execution[y].event
  BY <1>0 DEF WriteCompletion, SetStatus, OutboxInv, DataInv, TypeData, AuditRow
<1>5. Unchecked /\ (x \in Live' => ~task'[x].checked)
  BY <1>0, <1>3, FinishUnchecked, CompletionFailsUnchecked
<1> HIDE DEF after
<1>6. CalmRows
  <2>1. Rows' = Rows
    BY <1>3 DEF Rows
  <2>2. ASSUME NEW f \in Rows PROVE Calm(outbox[f], outbox'[f])
    <3>1. outbox[f] \in Row
      BY DEF OutboxInv, DataInv, TypeData
    <3>2. outbox'[f] \in {outbox[f], Absorbed(outbox[f])} \/ (f = e /\ outbox'[f] = after)
      BY <1>3
    <3> QED
      BY <1>2, <3>1, <3>2, CalmUpdates, AbsorbedIsCalm
  <2> QED
    BY <2>1, <2>2 DEF CalmRows
<1>7. ASSUME NEW y \in Live', task'[y].checked, Holds(y)
      PROVE  outbox'[EventOf(y)].status = "processing"
  <2>1. y # x /\ y \in Live
    BY <1>5, <1>7 DEF Unchecked
  <2>2. EventOf(y) \in Rows \ {e} /\ outbox[EventOf(y)].status = "processing"
    BY <1>1, <1>7, <2>1
       DEF Holds, OutboxInv, TaskInv, TypeTask, DataInv, ExecutedRowExists
  <2>3. EventOf(y) \notin Absorbable(x)
    BY <2>2 DEF Absorbable
  <2> QED
    BY <1>3, <2>2, <2>3
<1> QED
  BY <1>4, <1>5, <1>6, <1>7, CalmStep DEF Unchecked

\* Operators write dead rows, and time no status.
LEMMA OutsideKeepsOrder ==
    ASSUME OutboxInv, OutboxInv', OrderInv, NEW e \in Rows,
           ReconcileSent(e) \/ ReconcileNotSent(e) \/ TimePasses(e)
    PROVE  OrderInv' /\ RowsStay
<1>0. outbox[e] \in Row /\ UNCHANGED <<execution, task>>
  BY DEF OutboxInv, DataInv, TypeData, ReconcileSent, ReconcileNotSent, TimePasses
<1>1. \E row \in Row : /\ SetRow(e, row) /\ Calm(outbox[e], row)
                       /\ outbox[e].status = "processing" => row.status = "processing"
  <2>1. CASE ReconcileSent(e)
    BY <1>0, <2>1, RowUpdates, CalmUpdates DEF ReconcileSent, Reconcilable, SettledByHand
  <2>2. CASE ReconcileNotSent(e)
    BY <1>0, <2>2, RowUpdates, CalmUpdates DEF ReconcileNotSent, Reconcilable, Reopened
  <2>3. CASE Lapse(e)
    <3>1. SetRow(e, Lapsed(outbox[e])) /\ Lapsed(outbox[e]).status = outbox[e].status
      BY <1>0, <2>3 DEF Lapse, Lapsed, Row
    <3> QED
      BY <1>0, <3>1, RowUpdates, CalmUpdates
  <2>4. CASE BecomeDue(e)
    <3>1. SetRow(e, DueNow(outbox[e])) /\ DueNow(outbox[e]).status = outbox[e].status
      BY <1>0, <2>4 DEF BecomeDue, DueNow, Row
    <3> QED
      BY <1>0, <3>1, RowUpdates, CalmUpdates
  <2>5. CASE GrowOld(e)
    <3>1. SetRow(e, Older(outbox[e])) /\ outbox[e].age < 2
          /\ Older(outbox[e]).status = outbox[e].status
      BY <1>0, <2>5 DEF GrowOld, Older, Row
    <3> QED
      BY <1>0, <3>1, RowUpdates, CalmUpdates
  <2> QED
    BY <2>1, <2>2, <2>3, <2>4, <2>5 DEF TimePasses
<1>2. PICK row \in Row : /\ SetRow(e, row) /\ Calm(outbox[e], row)
                         /\ outbox[e].status = "processing" => row.status = "processing"
  BY <1>1
<1>3. CalmRows
  BY <1>2, CalmRow DEF OutboxInv, DataInv
<1>4. \A f \in Rows : outbox[f].status = "processing" => outbox'[f].status = "processing"
  BY <1>2, SetRowFacts DEF OutboxInv, DataInv
<1>5. \A y \in Live : EventOf(y) \in Rows
  BY DEF OutboxInv, TaskInv, TypeTask, DataInv, ExecutedRowExists
<1>6. Live' = Live
  BY <1>0 DEF Live
<1>7. \A y \in Live' : Holds(y) => outbox'[EventOf(y)].status = "processing"
  BY <1>4, <1>5, <1>6 DEF Holds
<1> QED
  BY <1>0, <1>3, <1>6, <1>7, CalmStep

\* createOrderedOutbox gives a new row the last place of its conversation.
LEMMA EnqueueKeepsOrder ==
    ASSUME OutboxInv, OutboxInv', OrderInv, NEW e \in Event, NEW c \in Conversation,
           NEW n \in 1..MaxSequence, NEW kind \in Arrival, Enqueue(e, c, n, kind)
    PROVE  OrderInv' /\ RowsStay
<1>1. /\ Rows' = Rows \cup {e} /\ e \notin Rows
      /\ \A f \in Rows : outbox'[f] = outbox[f]
      /\ outbox'[e].conversation = c /\ outbox'[e].seq = n
      /\ outbox'[e].status = "pending"
      /\ UNCHANGED <<execution, task>>
  BY DEF Enqueue, Rows
<1>2. \A f \in Rows : outbox[f].conversation = c => outbox[f].seq < n
  BY DEF Enqueue, NextSequence
<1>3. CheckedHolds'
  <2>1. \A y \in Live : EventOf(y) \in Rows /\ EventOf(y)' = EventOf(y)
    BY <1>1 DEF OutboxInv, TaskInv, TypeTask, DataInv, ExecutedRowExists, EventOf
  <2> QED
    BY <1>1, <2>1 DEF OrderInv, CheckedHolds, Holds, Live
<1>4. ConversationOrder'
  <2> SUFFICES ASSUME NEW f \in Rows', NEW g \in Rows', Earlier(f, g)',
                      outbox'[g].status = "processing",
                      outbox'[f].status \in {"pending", "processing"}
               PROVE  outbox'[f].generation > 0
    BY DEF ConversationOrder
  <2>1. g \in Rows
    BY <1>1
  <2>2. f # e
    <3> SUFFICES ASSUME f = e PROVE FALSE
      OBVIOUS
    <3>1. outbox[g].conversation = c /\ n < outbox[g].seq
      BY <1>1, <2>1 DEF Earlier, SameConversation
    <3>2. outbox[g].seq < n /\ outbox[g].seq \in Nat /\ n \in Nat
      BY <1>2, <2>1, <3>1 DEF OutboxInv, DataInv, TypeData, Row
    <3> QED
      BY <3>1, <3>2
  <2>3. f \in Rows /\ Earlier(f, g)
    BY <1>1, <2>1, <2>2 DEF Earlier, SameConversation
  <2> QED
    BY <1>1, <2>1, <2>3 DEF OrderInv, ConversationOrder
<1>5. RowsStay
  <2>1. \A f \in Rows : outbox[f].seq \in Nat
    BY DEF OutboxInv, DataInv, TypeData, Row
  <2>2. \A f \in Rows : outbox[f].conversation = c => outbox[f].seq # n
    BY <1>2, <2>1
  <2> QED
    BY <1>1, <2>2 DEF RowsStay
<1> QED
  BY <1>3, <1>4, <1>5 DEF OrderInv

\* claim() takes an event only if those before it are closed, or are buried with it.
LEMMA ClaimKeepsOrder ==
    ASSUME OutboxInv, OutboxInv', OrderInv, Live = {},
           NEW w \in Worker, NEW S \in SUBSET Candidate,
           NEW id \in [S -> Execution \ DOMAIN execution],
           \A e, f \in S : id[e] = id[f] => e = f,
           ClaimBatch(w, id)
    PROVE  OrderInv' /\ RowsStay
<1>1. /\ Rows' = Rows /\ S \subseteq Rows
      /\ \A e \in S : outbox'[e] = Claimed(outbox[e], id[e])
      /\ \A e \in Rows \ S : Exhausted(e) => outbox'[e] = Bury(outbox[e])
      /\ \A e \in Rows \ S : ~Exhausted(e) => outbox'[e] = outbox[e]
  BY DEF ClaimBatch, Claimed, Rows, Candidate
<1>2. \A e \in Rows : outbox[e] \in Row
  BY DEF OutboxInv, DataInv, TypeData
<1>3. \A r \in Row : /\ Bury(r).status = "dead" /\ Bury(r).conversation = r.conversation
                     /\ Bury(r).seq = r.seq
  BY DEF Row, Bury
<1>4. \A r \in Row, x \in Execution :
         /\ Claimed(r, x).conversation = r.conversation /\ Claimed(r, x).seq = r.seq
         /\ Claimed(r, x).generation = r.generation
  BY DEF Row, Claimed
<1>5. \A e \in S : /\ Claimed(outbox[e], id[e]).conversation = outbox[e].conversation
                   /\ Claimed(outbox[e], id[e]).seq = outbox[e].seq
                   /\ Claimed(outbox[e], id[e]).generation = outbox[e].generation
  BY <1>1, <1>2, <1>4
<1>6. \A e \in Rows : /\ outbox'[e].conversation = outbox[e].conversation
                      /\ outbox'[e].seq = outbox[e].seq
  BY <1>1, <1>2, <1>3, <1>5
<1>7. \A e \in S : Open(e) /\ ~Exhausted(e) /\ ~Blocked(e)
  BY DEF Candidate, Expired, Open, Exhausted
<1>8. CheckedHolds'
  <2>1. \A y \in Live' : ~task'[y].checked
    BY DEF ClaimBatch, Live
  <2> QED
    BY <2>1 DEF CheckedHolds
<1>9. ConversationOrder'
  <2> SUFFICES ASSUME NEW e \in Rows, NEW f \in Rows, Earlier(e, f)',
                      outbox'[f].status = "processing",
                      outbox'[e].status \in {"pending", "processing"}
               PROVE  outbox'[e].generation > 0
    BY <1>1 DEF ConversationOrder
  <2>1. Earlier(e, f)
    BY <1>6 DEF Earlier, SameConversation
  <2>2. e \in S \/ (e \notin S /\ ~Exhausted(e) /\ outbox'[e] = outbox[e])
    BY <1>1, <1>2, <1>3
  <2>3. Open(e) /\ ~Exhausted(e)
    BY <1>7, <2>2 DEF Open
  <2>4. f \notin S
    BY <1>7, <2>1, <2>3 DEF Blocked
  <2>5. outbox[f].status = "processing"
    BY <1>1, <1>2, <1>3, <2>4
  <2>6. outbox[e].generation > 0
    BY <2>1, <2>3, <2>5 DEF OrderInv, ConversationOrder, Open
  <2> QED
    BY <1>1, <1>5, <2>2, <2>6
<1>10. RowsStay
  <2>1. \A e \in Rows : outbox[e].status = "delivered" => e \notin S /\ ~Exhausted(e)
    BY <1>7 DEF Open, Exhausted, Expired
  <2> QED
    BY <1>1, <1>6, <2>1 DEF RowsStay
<1> QED
  BY SMTT(40), <1>8, <1>9, <1>10 DEF OrderInv

\* Every step of one consumer whose ticks await their executions.
LEMMA NextKeepsOrder ==
    ASSUME OutboxInv, OutboxInv', OrderInv, Awaited, NEW w, Worker = {w},
           [Next]_outboxVars
    PROVE  OrderInv' /\ RowsStay
<1>1. ASSUME NEW e \in Event, NEW c \in Conversation, NEW n \in 1..MaxSequence,
             NEW kind \in Arrival, Enqueue(e, c, n, kind)
      PROVE  OrderInv' /\ RowsStay
  BY <1>1, EnqueueKeepsOrder
<1>2. ASSUME NEW v \in Worker, Claim(v) PROVE OrderInv' /\ RowsStay
  <2>1. PICK S \in SUBSET Candidate :
          \E id \in [S -> Execution \ DOMAIN execution] :
             (\A e, f \in S : id[e] = id[f] => e = f) /\ ClaimBatch(v, id)
    BY <1>2 DEF Claim
  <2>2. PICK id \in [S -> Execution \ DOMAIN execution] :
          (\A e, f \in S : id[e] = id[f] => e = f) /\ ClaimBatch(v, id)
    BY <2>1
  <2>3. Live = {}
    BY <2>2 DEF ClaimBatch, Awaited, OutboxInv, TaskInv, TypeTask, Task
  <2> QED
    BY <2>2, <2>3, ClaimKeepsOrder
<1>3. ASSUME NEW v \in Worker, Crash(v) PROVE OrderInv' /\ RowsStay
  BY <1>3, CrashKeepsOrder
<1>4. ASSUME NEW x \in Live, Dispatch(x) PROVE OrderInv' /\ RowsStay
  BY <1>4, AcceptKeepsOrder, IdleStepsKeepOrder, RejectKeepsOrder, CheckKeepsOrder,
     WriteKeepsOrder DEF Dispatch
<1>5. ASSUME NEW e \in Rows, ReconcileSent(e) \/ ReconcileNotSent(e) \/ TimePasses(e)
      PROVE  OrderInv' /\ RowsStay
  BY <1>5, OutsideKeepsOrder
<1>6. CASE UNCHANGED outboxVars
  <2>1. UNCHANGED <<outbox, execution>> /\ Unchecked
    BY <1>6 DEF outboxVars, Unchecked, Live
  <2> QED
    BY <2>1, IdleRowsKeepOrder
<1> QED
  BY <1>1, <1>2, <1>3, <1>4, <1>5, <1>6 DEF Next

LEMMA InitIsOrdered == Init => OrderInv
BY DEF Init, OrderInv, CheckedHolds, ConversationOrder, Live, Rows

\* With one consumer, no event of a conversation is in processing before an earlier one
\* is closed, unless an operator reopened the earlier one: whatever crashes, lapses of
\* leases, retries and lost replies happen, as long as a tick awaits its executions.
THEOREM OrderIsKept ==
    ASSUME NEW w, Worker = {w}
    PROVE  Spec /\ []Awaited => []ConversationOrder
<1>1. Init => OrderInv
  BY InitIsOrdered
<1>2. OutboxInv /\ OutboxInv' /\ OrderInv /\ Awaited /\ [Next]_outboxVars => OrderInv'
  BY NextKeepsOrder
<1>3. OrderInv => ConversationOrder
  BY DEF OrderInv
<1> QED
  BY <1>1, <1>2, <1>3, OutboxIsAudited, PTL DEF Spec

-----------------------------------------------------------------------------
(* When a tick awaits its executions *)

Distinct ==
    \A e, f \in Rows : SameConversation(e, f) /\ outbox[e].seq = outbox[f].seq => e = f

\* One dispatch at a time, awaited by its tick.
Alone == Awaited /\ \A x, y \in Live : x = y

AloneInv == Alone /\ Distinct /\ IsFiniteSet(Rows)

LEMMA RowsStayFacts ==
    ASSUME Distinct, IsFiniteSet(Rows), RowsStay
    PROVE  Distinct' /\ IsFiniteSet(Rows)'
<1>1. CASE Rows' = Rows
  BY <1>1 DEF RowsStay, Distinct, SameConversation
<1>2. ASSUME NEW e, Rows' = Rows \cup {e},
             \A f \in Rows : outbox[f].conversation = outbox'[e].conversation
                              => outbox[f].seq # outbox'[e].seq
      PROVE  Distinct' /\ IsFiniteSet(Rows)'
  <2>1. IsFiniteSet(Rows)'
    BY <1>2, FS_AddElement
  <2>2. Distinct'
    BY <1>2 DEF RowsStay, Distinct, SameConversation
  <2> QED
    BY <2>1, <2>2
<1> QED
  BY <1>1, <1>2 DEF RowsStay

\* Two events of a conversation are no candidates of one claim.
LEMMA CandidatesAreFirst ==
    ASSUME OutboxInv, Distinct, NEW e \in Candidate, NEW f \in Candidate,
           SameConversation(e, f)
    PROVE  e = f
<1>1. \A g \in Candidate : /\ g \in Rows /\ Open(g) /\ ~Exhausted(g) /\ ~Blocked(g)
                            /\ outbox[g].seq \in Nat
  BY DEF Candidate, Expired, Open, Exhausted, OutboxInv, DataInv, TypeData, Row
<1>2. ~Earlier(e, f) /\ ~Earlier(f, e)
  BY <1>1 DEF Blocked
<1>3. outbox[e].seq = outbox[f].seq
  BY <1>1, <1>2 DEF Earlier, SameConversation
<1> QED
  BY <1>1, <1>3 DEF Distinct

LEMMA ClaimIsAlone ==
    ASSUME OutboxInv, AloneInv, NEW w, Worker = {w}, Claim(w),
           BatchSize = 1 \/ \E c : Conversation = {c}
    PROVE  Alone'
<1>1. PICK S \in SUBSET Candidate :
        /\ Cardinality(S) <= BatchSize
        /\ \E id \in [S -> Execution \ DOMAIN execution] :
             (\A e, f \in S : id[e] = id[f] => e = f) /\ ClaimBatch(w, id)
  BY DEF Claim
<1>2. PICK id \in [S -> Execution \ DOMAIN execution] : ClaimBatch(w, id)
  BY <1>1
<1>3. Live = {}
  BY <1>2 DEF ClaimBatch, AloneInv, Alone, Awaited, OutboxInv, TaskInv, TypeTask, Task
<1>4. \A e, f \in S : e = f
  <2>1. CASE BatchSize = 1
    <3>1. S \subseteq Rows /\ IsFiniteSet(S)
      BY FS_Subset DEF AloneInv, Candidate
    <3> SUFFICES ASSUME NEW e \in S, NEW f \in S, e # f PROVE FALSE
      OBVIOUS
    <3>2. IsFiniteSet({e}) /\ Cardinality({e}) = 1
      BY FS_Singleton
    <3>3. Cardinality({e} \cup {f}) = 2 /\ IsFiniteSet({e} \cup {f})
      <4>1. /\ Cardinality({e} \cup {f}) = Cardinality({e}) + 1
            /\ IsFiniteSet({e} \cup {f})
        <5>1. f \notin {e}
          OBVIOUS
        <5> QED
          BY <3>2, <5>1, FS_AddElement, Zenon
      <4> QED
        BY <3>2, <4>1
    <3>4. Cardinality({e} \cup {f}) <= Cardinality(S) /\ Cardinality(S) \in Nat
      BY <3>1, <3>3, FS_Subset, FS_CardinalityType
    <3> QED
      BY <1>1, <2>1, <3>3, <3>4
  <2>2. CASE \E c : Conversation = {c}
    <3>1. \A e \in Rows : outbox[e].conversation \in Conversation
      BY DEF OutboxInv, DataInv, TypeData, Row
    <3>2. \A e, f \in S : SameConversation(e, f)
      BY <2>2, <3>1 DEF Candidate, SameConversation
    <3> QED
      BY <3>2, CandidatesAreFirst DEF AloneInv
  <2> QED
    BY <2>1, <2>2
<1>5. /\ Live' = {id[e] : e \in S} /\ tick'[w] = {id[e] : e \in S}
      /\ \A x \in Live' : task'[x].worker = w
  BY <1>2, <1>3 DEF ClaimBatch, Live, OutboxInv, TaskInv, TypeTask
<1> QED
  BY <1>4, <1>5 DEF Alone, Awaited

\* Any other step leaves the dispatch and its tick, or ends it.
LEMMA StepIsAlone ==
    ASSUME Alone, Live' \subseteq Live,
           \A y \in Live' : task'[y].worker = task[y].worker,
           UNCHANGED tick \/ Live' = {}
    PROVE  Alone'
BY DEF Alone, Awaited

LEMMA DispatchIsAlone ==
    ASSUME OutboxInv, Alone, NEW x \in Live, Dispatch(x)
    PROVE  Alone'
<1>0. TypeTask /\ Live = {x} /\ task[x] \in Task
  BY DEF OutboxInv, TaskInv, TypeTask, Alone
<1>1. ASSUME NEW s, Goto(x, s), UNCHANGED tick PROVE Alone'
  <2>1. Live' = Live /\ \A y \in Live' : task'[y].worker = task[y].worker
    BY <1>0, <1>1 DEF Goto, Live, TypeTask, Task
  <2> QED
    BY <1>1, <2>1, StepIsAlone
<1>2. ASSUME task' = [y \in Live \ {x} |-> task[y]] PROVE Alone'
  <2>1. Live' = {}
    BY <1>0, <1>2 DEF Live
  <2> QED
    BY <2>1, StepIsAlone
<1>3. ASSUME Live' = Live, task'[x].worker = task[x].worker, UNCHANGED tick PROVE Alone'
  BY <1>0, <1>3, StepIsAlone
<1>4. CASE Accept(x) \/ AcceptLate(x) \/ AcceptRefused(x) \/ AcceptFails(x)
  BY <1>1, <1>4 DEF Accept, AcceptLate, AcceptRefused, AcceptFails
<1>5. CASE Reject(x) \/ RejectThrows(x)
  BY <1>2, <1>5 DEF Reject, RejectThrows, Finish
<1>6. CASE Gather(x)
  BY <1>3, <1>6 DEF Gather, Live
<1>7. CASE Succeed(x) \/ \E o \in {"retryable", "terminal"} : Fail(x, o)
  <2>1. Live' = Live /\ task'[x].worker = task[x].worker /\ UNCHANGED tick
    BY <1>0, <1>7 DEF Succeed, Fail, Live, TypeTask, Task
  <2> QED
    BY <1>3, <2>1
<1>8. CASE CheckCompletion(x)
  <2>1. Live' = Live /\ task'[x].worker = task[x].worker /\ UNCHANGED tick
    BY <1>0, <1>8 DEF CheckCompletion, Live, TypeTask, Task
  <2> QED
    BY <1>3, <2>1
<1>9. ASSUME CompletionFails(x) PROVE Alone'
  <2>1. CASE Finish(x)
    BY <1>2, <2>1 DEF Finish
  <2>2. CASE ~Finish(x)
    <3>1. Live' = Live /\ task'[x].worker = task[x].worker /\ UNCHANGED tick
      BY <1>0, <1>9, <2>2 DEF CompletionFails, Live, TypeTask, Task
    <3> QED
      BY <1>3, <3>1
  <2> QED
    BY <2>1, <2>2
<1>10. CASE CompletionRefused(x) \/ CompletionFaults(x) \/ WriteCompletion(x)
  BY <1>2, <1>9, <1>10 DEF CompletionRefused, CompletionFaults, WriteCompletion, Finish
<1> QED
  BY <1>4, <1>5, <1>6, <1>7, <1>8, <1>10 DEF Dispatch

LEMMA NextIsAlone ==
    ASSUME OutboxInv, OutboxInv', OrderInv, AloneInv, NEW w, Worker = {w},
           BatchSize = 1 \/ \E c : Conversation = {c},
           [Next]_outboxVars
    PROVE  AloneInv'
<1>1. Distinct' /\ IsFiniteSet(Rows)'
  BY NextKeepsOrder, RowsStayFacts DEF AloneInv, Alone
<1> SUFFICES Alone'
  BY <1>1 DEF AloneInv
<1>2. ASSUME UNCHANGED <<task, tick>> PROVE Alone'
  BY <1>2, StepIsAlone DEF AloneInv, Live
<1>3. CASE \E v \in Worker : Claim(v)
  BY <1>3, ClaimIsAlone
<1>4. CASE \E v \in Worker : Crash(v)
  <2>1. Live' = {}
    BY <1>4 DEF Crash, Live, OutboxInv, TaskInv, TypeTask, Task
  <2> QED
    BY <2>1, StepIsAlone DEF AloneInv
<1>5. CASE \E x \in Live : Dispatch(x)
  BY <1>5, DispatchIsAlone DEF AloneInv
<1>6. CASE \/ \E e \in Event, c \in Conversation, n \in 1..MaxSequence, kind \in Arrival :
                Enqueue(e, c, n, kind)
           \/ \E e \in Rows : ReconcileSent(e) \/ ReconcileNotSent(e) \/ TimePasses(e)
           \/ UNCHANGED outboxVars
  <2>1. UNCHANGED <<task, tick>>
    BY <1>6 DEF Enqueue, ReconcileSent, ReconcileNotSent, TimePasses, outboxVars
  <2> QED
    BY <1>2, <2>1
<1> QED
  BY <1>3, <1>4, <1>5, <1>6 DEF Next

LEMMA InitIsAlone == Init => AloneInv
<1> SUFFICES ASSUME Init PROVE AloneInv
  OBVIOUS
<1>1. Rows = {} /\ Live = {}
  BY DEF Init, Rows, Live
<1> QED
  BY <1>1, FS_EmptySet DEF AloneInv, Alone, Awaited, Distinct

\* One consumer that takes one event at a time, or serves one conversation, executes the
\* events of each conversation in their order.
THEOREM ConversationsInOrder ==
    ASSUME NEW w, Worker = {w}, BatchSize = 1 \/ \E c : Conversation = {c}
    PROVE  Spec => []ConversationOrder
<1>1. Init => OrderInv /\ AloneInv
  BY InitIsOrdered, InitIsAlone
<1>2. OutboxInv /\ OutboxInv' /\ OrderInv /\ AloneInv /\ [Next]_outboxVars
        => OrderInv' /\ AloneInv'
  BY NextKeepsOrder, NextIsAlone DEF AloneInv, Alone
<1>3. OrderInv => ConversationOrder
  BY DEF OrderInv
<1> QED
  BY <1>1, <1>2, <1>3, OutboxIsAudited, PTL DEF Spec

\* And what it delivered stays delivered.
THEOREM DeliveredStays ==
    ASSUME NEW w, Worker = {w}
    PROVE  Spec /\ []Awaited => DeliveredIsFinal
<1>1. Init => OrderInv
  BY InitIsOrdered
<1>2. OutboxInv /\ OutboxInv' /\ OrderInv /\ Awaited /\ [Next]_outboxVars => OrderInv'
  BY NextKeepsOrder
<1>3. OutboxInv /\ OutboxInv' /\ OrderInv /\ Awaited /\ [Next]_outboxVars
        => [\A e \in Rows : outbox[e].status = "delivered"
                               => outbox'[e].status = "delivered"]_outboxVars
  BY NextKeepsOrder DEF RowsStay
<1> QED
  BY <1>1, <1>2, <1>3, OutboxIsAudited, PTL DEF Spec, DeliveredIsFinal

-----------------------------------------------------------------------------
(* What a step of the outbox leaves of generations, events and executions *)

GenerationsKept ==
    Rows' = Rows /\ \A e \in Rows : outbox'[e].generation = outbox[e].generation

EventsKept ==
    /\ DOMAIN execution \subseteq DOMAIN execution'
    /\ \A x \in DOMAIN execution : EventOf(x)' = EventOf(x)

\* A dispatch keeps the generation it was handed, that of its row at the claim.
HandedKept ==
    \A x \in Live' :
        \/ x \in Live /\ task'[x].generation = task[x].generation
        \/ EventOf(x)' \in Rows /\ task'[x].generation = outbox[EventOf(x)'].generation

LEMMA RowGenerations ==
    ASSUME NEW r \in Row
    PROVE  /\ Bury(r) \in Row /\ Bury(r).generation = r.generation
           /\ GiveBack(r) \in Row /\ GiveBack(r).generation = r.generation
           /\ [r EXCEPT !.locked = FALSE, !.lapsed = FALSE].generation = r.generation
           /\ [r EXCEPT !.lapsed = TRUE].generation = r.generation
           /\ [r EXCEPT !.due = TRUE].generation = r.generation
           /\ [r EXCEPT !.age = @ + 1].generation = r.generation
           /\ [r EXCEPT !.status = "delivered", !.locked = FALSE,
                        !.lapsed = FALSE].generation = r.generation
           /\ Absorbed(r).generation = r.generation
<1>1. Bury(r) \in Row /\ Bury(r).generation = r.generation
  BY DEF Row, Bury, EventStatus
<1>2. GiveBack(r) \in Row /\ GiveBack(r).generation = r.generation
  BY DEF Row, GiveBack, EventStatus
<1> QED
  BY <1>1, <1>2 DEF Row, Absorbed

LEMMA SetRowKeeps ==
    ASSUME TypeData, NEW e, NEW row, SetRow(e, row),
           e \in Rows => row.generation = outbox[e].generation
    PROVE  GenerationsKept
BY DEF TypeData, SetRow, GenerationsKept, Rows

LEMMA CompletedGeneration ==
    ASSUME NEW r \in Row, NEW x \in DOMAIN execution, execution[x] \in AuditRow
    PROVE  Completed(r, x).generation = r.generation
<1> DEFINE closed == [r EXCEPT !.attempts = execution[x].attempt,
                               !.locked = FALSE, !.lapsed = FALSE]
           sent == [closed EXCEPT !.status = "delivered"]
           failed == [closed EXCEPT !.status = "dead"]
<1>1. closed \in Row /\ closed.generation = r.generation
  BY DEF Row, AuditRow
<1>2. Completed(r, x) \in {sent, failed, Bury(closed), GiveBack(closed)}
  BY DEF Completed
<1> HIDE DEF closed
<1>3. sent.generation = r.generation /\ failed.generation = r.generation
  BY <1>1 DEF Row
<1> HIDE DEF sent, failed
<1> QED
  BY <1>1, <1>2, <1>3, RowGenerations

\* Acceptance, rejection, completion, time and confirmed-sent reopen nothing.
LEMMA DispatchGenerations ==
    ASSUME OutboxInv, NEW x \in Live,
           \/ Accept(x) \/ AcceptLate(x) \/ AcceptRefused(x) \/ AcceptFails(x)
           \/ Reject(x) \/ RejectThrows(x)
    PROVE  GenerationsKept /\ EventsKept
<1> DEFINE e == EventOf(x)
<1>0. /\ x \in DOMAIN execution /\ e \in Rows /\ outbox[e] \in Row
      /\ execution[x] \in AuditRow /\ task[x] \in Task /\ TypeData
  BY DEF OutboxInv, TaskInv, TypeTask, DataInv, ExecutedRowExists, TypeData
<1>1. ASSUME AcceptRow(x) PROVE GenerationsKept
  BY <1>0, <1>1, SetRowKeeps, RowGenerations DEF AcceptRow
<1>2. ASSUME UNCHANGED outbox PROVE GenerationsKept
  BY <1>2 DEF GenerationsKept, Rows
<1>3. GenerationsKept
  <2>1. CASE Reject(x)
    <3>1. \/ UNCHANGED outbox
          \/ SetRow(e, Bury(outbox[e])) \/ SetRow(e, GiveBack(outbox[e]))
      BY <2>1 DEF Reject
    <3> QED
      BY <1>0, <1>2, <3>1, SetRowKeeps, RowGenerations
  <2>2. CASE ~Reject(x)
    BY <1>1, <1>2, <2>2 DEF Accept, AcceptLate, AcceptRefused, AcceptFails, RejectThrows
  <2> QED
    BY <2>1, <2>2
<1>4. ASSUME UNCHANGED execution PROVE EventsKept
  BY <1>4 DEF EventsKept, EventOf
<1>5. ASSUME NEW s, SetStatus(x, s) PROVE EventsKept
  BY <1>0, <1>5 DEF SetStatus, EventsKept, EventOf, TypeData, AuditRow
<1>6. EventsKept
  BY <1>4, <1>5 DEF Accept, AcceptLate, AcceptRefused, AcceptFails, Reject, RejectThrows
<1> QED
  BY <1>3, <1>6

LEMMA WriteGenerations ==
    ASSUME OutboxInv, NEW x \in Live, WriteCompletion(x)
    PROVE  GenerationsKept /\ EventsKept
<1> DEFINE e == EventOf(x)
<1>0. /\ x \in DOMAIN execution /\ e \in Rows /\ outbox[e] \in Row
      /\ execution[x] \in AuditRow /\ task[x] \in Task /\ TypeData
  BY DEF OutboxInv, TaskInv, TypeTask, DataInv, ExecutedRowExists, TypeData
<1>1. outbox' = [f \in Rows |-> IF f = e THEN Completed(outbox[e], x)
                                ELSE IF f \in Absorbable(x) THEN Absorbed(outbox[f])
                                     ELSE outbox[f]]
  BY DEF WriteCompletion, Absorbed
<1>2. \A f \in Rows : Absorbed(outbox[f]).generation = outbox[f].generation
  BY <1>0, RowGenerations DEF TypeData
<1>3. Completed(outbox[e], x).generation = outbox[e].generation
  BY <1>0, CompletedGeneration
<1>4. GenerationsKept
  BY <1>1, <1>2, <1>3 DEF GenerationsKept, Rows
<1>5. PICK s : SetStatus(x, s)
  BY DEF WriteCompletion
<1>6. EventsKept
  BY <1>0, <1>5 DEF SetStatus, EventsKept, EventOf, TypeData, AuditRow
<1> QED
  BY <1>4, <1>6

LEMMA TimeGenerations ==
    ASSUME OutboxInv, NEW e \in Rows, TimePasses(e) \/ ReconcileSent(e)
    PROVE  GenerationsKept /\ EventsKept
<1>0. outbox[e] \in Row /\ TypeData
  BY DEF OutboxInv, DataInv, TypeData
<1>1. \/ SetRow(e, [outbox[e] EXCEPT !.lapsed = TRUE])
      \/ SetRow(e, [outbox[e] EXCEPT !.due = TRUE])
      \/ SetRow(e, [outbox[e] EXCEPT !.age = @ + 1])
      \/ SetRow(e, [outbox[e] EXCEPT !.status = "delivered", !.locked = FALSE,
                                     !.lapsed = FALSE])
  BY DEF TimePasses, ReconcileSent, Lapse, BecomeDue, GrowOld
<1>2. GenerationsKept
  BY <1>0, <1>1, SetRowKeeps, RowGenerations
<1>3. EventsKept
  BY DEF EventsKept, EventOf, TimePasses, ReconcileSent
<1> QED
  BY <1>2, <1>3

LEMMA ClaimGenerations ==
    ASSUME OutboxInv, NEW w \in Worker, Claim(w)
    PROVE  GenerationsKept /\ EventsKept /\ HandedKept
<1>1. PICK S \in SUBSET Candidate :
        \E id \in [S -> Execution \ DOMAIN execution] :
           (\A e, f \in S : id[e] = id[f] => e = f) /\ ClaimBatch(w, id)
  BY DEF Claim
<1>2. PICK id \in [S -> Execution \ DOMAIN execution] : ClaimBatch(w, id)
  BY <1>1
<1> DEFINE new == {id[e] : e \in DOMAIN id}
           eventFor(x) == CHOOSE e \in DOMAIN id : id[e] = x
           audit(x) == [event |-> eventFor(x), status |-> "claimed",
                        attempt |-> outbox[eventFor(x)].attempts + 1]
           start(x) == [worker |-> w, at |-> "claimed", outcome |-> "succeeded",
                        batch |-> {}, checked |-> FALSE,
                        generation |-> outbox[eventFor(x)].generation]
           swept(y) == [execution[y] EXCEPT !.status = SweptStatus(y)]
<1>3. DOMAIN id = S /\ S \subseteq Rows
      /\ \A e \in S : outbox[e] \in Row /\ id[e] \notin DOMAIN execution
  BY DEF Candidate, OutboxInv, DataInv, TypeData
<1>4. \A x \in new : eventFor(x) \in S /\ x \notin DOMAIN execution
  BY <1>3
<1>5. /\ outbox' = [e \in Rows |-> IF e \in DOMAIN id THEN Claimed(outbox[e], id[e])
                                   ELSE IF Exhausted(e) THEN Bury(outbox[e])
                                   ELSE outbox[e]]
      /\ execution' = [x \in DOMAIN execution \cup new |->
                         IF x \in new THEN audit(x) ELSE swept(x)]
      /\ task' = [x \in Live \cup new |-> IF x \in new THEN start(x) ELSE task[x]]
  BY <1>2 DEF ClaimBatch, Claimed
<1>6. \A x : audit(x).event = eventFor(x)
             /\ start(x).generation = outbox[eventFor(x)].generation
  OBVIOUS
<1>7. \A y \in DOMAIN execution : swept(y).event = execution[y].event
  BY DEF OutboxInv, DataInv, TypeData, AuditRow
<1>8. \A e \in Rows : /\ outbox[e] \in Row
                      /\ Bury(outbox[e]).generation = outbox[e].generation
  BY RowGenerations DEF OutboxInv, DataInv, TypeData
<1>9. \A e \in DOMAIN id : Claimed(outbox[e], id[e]).generation = outbox[e].generation
  BY <1>3 DEF Claimed, Row
<1> HIDE DEF new, eventFor, audit, start, swept
<1>10. GenerationsKept
  BY <1>5, <1>8, <1>9 DEF GenerationsKept, Rows
<1>11. EventsKept
  BY <1>4, <1>5, <1>7 DEF EventsKept, EventOf
<1>12. HandedKept
  <2>1. Live' = Live \cup new
    BY <1>5 DEF Live
  <2>2. ASSUME NEW x \in new
        PROVE  EventOf(x)' \in Rows /\ task'[x].generation = outbox[EventOf(x)'].generation
    <3>1. EventOf(x)' = eventFor(x) /\ task'[x].generation = outbox[eventFor(x)].generation
      BY <1>5, <1>6 DEF EventOf
    <3> QED
      BY <1>3, <1>4, <3>1
  <2>3. \A x \in Live \ new : task'[x] = task[x]
    BY <1>5
  <2> QED
    BY <2>1, <2>2, <2>3 DEF HandedKept
<1> QED
  BY <1>10, <1>11, <1>12

\* A step that moves one dispatch, or ends some.
LEMMA EndHanded ==
    ASSUME NEW T \in SUBSET Live, task' = [y \in T |-> task[y]]
    PROVE  HandedKept
BY DEF HandedKept, Live

LEMMA MoveHanded ==
    ASSUME TaskInv, NEW x \in Live, NEW r, r.generation = task[x].generation,
           task' = [task EXCEPT ![x] = r]
    PROVE  HandedKept
BY DEF TaskInv, TypeTask, HandedKept, Live

LEMMA CompletionHanded ==
    ASSUME TaskInv, NEW x \in Live, CompletionFails(x) \/ Finish(x)
    PROVE  HandedKept
<1>1. CASE Finish(x)
  BY <1>1, EndHanded DEF Finish
<1>2. CASE task' = [task EXCEPT ![x].at = "failing", ![x].outcome = "retryable",
                                ![x].batch = {}, ![x].checked = FALSE]
  <2> DEFINE r == [task[x] EXCEPT !.at = "failing", !.outcome = "retryable",
                                  !.batch = {}, !.checked = FALSE]
  <2>1. task[x] \in Task
    BY DEF TaskInv, TypeTask
  <2>2. r.generation = task[x].generation
    BY <2>1 DEF Task
  <2>3. task' = [task EXCEPT ![x] = r]
    BY <1>2 DEF TaskInv, TypeTask
  <2> HIDE DEF r
  <2> QED
    BY <2>2, <2>3, MoveHanded
<1> QED
  BY <1>1, <1>2 DEF CompletionFails

LEMMA DispatchHanded ==
    ASSUME TaskInv, NEW x \in Live,
           \/ Accept(x) \/ AcceptLate(x) \/ AcceptRefused(x) \/ AcceptFails(x)
           \/ Reject(x) \/ RejectThrows(x) \/ Succeed(x) \/ CheckCompletion(x)
           \/ CompletionRefused(x) \/ CompletionFaults(x) \/ WriteCompletion(x)
           \/ \E o \in {"retryable", "terminal"} : Fail(x, o)
    PROVE  HandedKept
<1>1. task[x] \in Task
  BY DEF TaskInv, TypeTask
<1>2. ASSUME NEW s, Goto(x, s) PROVE HandedKept
  <2>1. task' = [task EXCEPT ![x] = [task[x] EXCEPT !.at = s]]
    BY <1>2 DEF Goto
  <2>2. [task[x] EXCEPT !.at = s].generation = task[x].generation
    BY <1>1 DEF Task
  <2> QED
    BY <2>1, <2>2, MoveHanded
<1>3. CASE Accept(x) \/ AcceptLate(x) \/ AcceptRefused(x) \/ AcceptFails(x)
  BY <1>2, <1>3 DEF Accept, AcceptLate, AcceptRefused, AcceptFails
<1>4. CASE Reject(x) \/ CompletionRefused(x) \/ CompletionFaults(x) \/ WriteCompletion(x)
  BY <1>4, CompletionHanded DEF Reject, CompletionRefused, CompletionFaults, WriteCompletion
<1>5. CASE RejectThrows(x)
  BY <1>5, EndHanded DEF RejectThrows
<1>6. CASE CheckCompletion(x)
  <2>1. task' = [task EXCEPT ![x] = [task[x] EXCEPT !.checked = TRUE]]
    BY <1>6 DEF CheckCompletion
  <2>2. [task[x] EXCEPT !.checked = TRUE].generation = task[x].generation
    BY <1>1 DEF Task
  <2> QED
    BY <2>1, <2>2, MoveHanded
<1>7. CASE Succeed(x)
  <2>1. PICK B : task' = [task EXCEPT ![x].at = "completing", ![x].batch = B]
    BY <1>7 DEF Succeed
  <2>2. task' = [task EXCEPT ![x] = [task[x] EXCEPT !.at = "completing", !.batch = B]]
    BY <2>1 DEF TaskInv, TypeTask
  <2>3. [task[x] EXCEPT !.at = "completing", !.batch = B].generation = task[x].generation
    BY <1>1 DEF Task
  <2> QED
    BY <2>2, <2>3, MoveHanded
<1>8. ASSUME NEW o, Fail(x, o) PROVE HandedKept
  <2>1. task' = [task EXCEPT ![x] = [task[x] EXCEPT !.at = "failing", !.outcome = o]]
    BY <1>8 DEF Fail, TaskInv, TypeTask
  <2>2. [task[x] EXCEPT !.at = "failing", !.outcome = o].generation = task[x].generation
    BY <1>1 DEF Task
  <2> QED
    BY <2>1, <2>2, MoveHanded
<1> QED
  BY <1>3, <1>4, <1>5, <1>6, <1>7, <1>8

LEMMA NextEvents == OutboxInv /\ [Next]_outboxVars => EventsKept
<1> SUFFICES ASSUME OutboxInv, [Next]_outboxVars PROVE EventsKept
  OBVIOUS
<1>1. CASE UNCHANGED execution
  BY <1>1 DEF EventsKept, EventOf
<1>2. ASSUME NEW x \in Live, Dispatch(x) PROVE EventsKept
  <2>1. CASE \/ Gather(x) \/ Succeed(x) \/ CheckCompletion(x) \/ CompletionRefused(x)
             \/ CompletionFaults(x) \/ \E o \in {"retryable", "terminal"} : Fail(x, o)
    BY <1>1, <2>1 DEF Gather, Succeed, CheckCompletion, CompletionRefused,
       CompletionFaults, Fail
  <2> QED
    BY <1>2, <2>1, DispatchGenerations, WriteGenerations DEF Dispatch
<1>3. ASSUME NEW w \in Worker, Claim(w) \/ Crash(w) PROVE EventsKept
  <2>1. CASE Crash(w)
    BY <1>1, <2>1 DEF Crash
  <2> QED
    BY <1>3, <2>1, ClaimGenerations
<1>4. ASSUME NEW e \in Rows, ReconcileSent(e) \/ ReconcileNotSent(e) \/ TimePasses(e)
      PROVE  EventsKept
  BY <1>1, <1>4 DEF ReconcileSent, ReconcileNotSent, TimePasses
<1>5. ASSUME NEW e \in Event, NEW c \in Conversation, NEW n \in 1..MaxSequence,
             NEW kind \in Arrival, Enqueue(e, c, n, kind)
      PROVE  EventsKept
  BY <1>1, <1>5 DEF Enqueue
<1>6. CASE UNCHANGED outboxVars
  BY <1>1, <1>6 DEF outboxVars
<1> QED
  BY <1>2, <1>3, <1>4, <1>5, <1>6 DEF Next

-----------------------------------------------------------------------------
(* What a step of the outbox adds to the answers *)

\* What a step outside completeOutboxExecution leaves of the answers, of the deliveries,
\* and of the completions that have the advisory lock of their event.
NoSuccessAdded == \A x \in DOMAIN execution' : Succeeded(x)' => Succeeded(x)

DeliveredKept ==
    \A e \in Rows : outbox[e].status = "delivered" =>
        e \in Rows' /\ outbox'[e].status = "delivered"

CheckedKept == \A y \in Live' : task'[y].checked => y \in Live /\ task[y].checked

Quiet == NoSuccessAdded /\ DeliveredKept /\ CheckedKept /\ UNCHANGED absorbed

LEMMA RowIsDelivered ==
    ASSUME TypeData, NEW e \in Rows, NEW row, SetRow(e, row),
           outbox[e].status = "delivered" => row.status = "delivered"
    PROVE  DeliveredKept
<1>1. Rows' = Rows /\ outbox'[e] = row /\ \A f \in Rows \ {e} : outbox'[f] = outbox[f]
  BY DEF TypeData, SetRow, Rows
<1> QED
  BY <1>1 DEF DeliveredKept

LEMMA StatusSucceeds ==
    ASSUME TypeData, NEW x \in DOMAIN execution, NEW s, SetStatus(x, s),
           s # "succeeded"
    PROVE  NoSuccessAdded
BY DEF TypeData, SetStatus, NoSuccessAdded, Succeeded, AuditRow

LEMMA SameRows == UNCHANGED outbox => DeliveredKept
BY DEF DeliveredKept, Rows

LEMMA SameAudit == UNCHANGED execution => NoSuccessAdded
BY DEF NoSuccessAdded, Succeeded

LEMMA DispatchIsQuiet ==
    ASSUME OutboxInv, NEW x \in Live, Dispatch(x), ~CheckCompletion(x), ~WriteCompletion(x)
    PROVE  Quiet
<1> DEFINE e == EventOf(x)
<1>0. /\ x \in DOMAIN execution /\ e \in Rows /\ outbox[e] \in Row
      /\ TypeTask /\ TypeData
  BY DEF OutboxInv, TaskInv, TypeTask, DataInv, ExecutedRowExists, TypeData
<1>1. ASSUME Unchecked PROVE CheckedKept
  BY <1>1 DEF Unchecked, CheckedKept
<1>2. CASE Accept(x) \/ AcceptFails(x)
  <2>1. CheckedKept /\ UNCHANGED absorbed
    BY <1>0, <1>1, <1>2, GotoUnchecked DEF Accept, AcceptFails
  <2>2. CASE UNCHANGED <<outbox, execution>>
    BY <2>1, <2>2, SameRows, SameAudit DEF Quiet
  <2>3. CASE AcceptRow(x) /\ SetStatus(x, "accepted")
    <3>1. SetRow(e, Renewed(outbox[e])) /\ Renewed(outbox[e]).status = outbox[e].status
      BY <1>0, <2>3, RowUpdates DEF AcceptRow, Renewed
    <3>2. DeliveredKept
      BY <1>0, <3>1, RowIsDelivered
    <3>3. NoSuccessAdded
      BY <1>0, <2>3, StatusSucceeds
    <3> QED
      BY <2>1, <3>2, <3>3 DEF Quiet
  <2> QED
    BY <1>2, <2>2, <2>3 DEF Accept, AcceptFails
<1>3. CASE Reject(x)
  <2>1. CheckedKept /\ UNCHANGED absorbed
    BY <1>0, <1>1, <1>3, FinishUnchecked DEF Reject
  <2>2. DeliveredKept
    <3>1. \/ UNCHANGED outbox
          \/ outbox[e].status = "processing" /\ \E row : SetRow(e, row)
      BY <1>3 DEF Reject, HoldsLock, Holds
    <3> QED
      BY <1>0, <3>1, SameRows, RowIsDelivered
  <2>3. NoSuccessAdded
    <3>1. UNCHANGED execution \/ \E s \in {"terminal", "retryable"} : SetStatus(x, s)
      BY <1>3 DEF Reject
    <3> QED
      BY <1>0, <3>1, SameAudit, StatusSucceeds
  <2> QED
    BY <2>1, <2>2, <2>3 DEF Quiet
<1>4. CASE ~(Accept(x) \/ AcceptFails(x) \/ Reject(x))
  <2>1. Unchecked /\ UNCHANGED <<outbox, execution, absorbed>>
    BY <1>0, <1>4, IdleSteps DEF Dispatch
  <2> QED
    BY <1>1, <2>1, SameRows, SameAudit DEF Quiet
<1> QED
  BY <1>2, <1>3, <1>4

LEMMA ClaimIsQuiet ==
    ASSUME OutboxInv, NEW w \in Worker, Claim(w)
    PROVE  Quiet
<1>1. PICK S \in SUBSET Candidate :
        \E id \in [S -> Execution \ DOMAIN execution] :
           (\A e, f \in S : id[e] = id[f] => e = f) /\ ClaimBatch(w, id)
  BY DEF Claim
<1>2. PICK id \in [S -> Execution \ DOMAIN execution] : ClaimBatch(w, id)
  BY <1>1
<1>3. /\ \A e \in Rows \ S : outbox'[e] \in {outbox[e], Bury(outbox[e])}
      /\ \A e \in Rows \ S : ~Exhausted(e) => outbox'[e] = outbox[e]
      /\ Rows' = Rows /\ UNCHANGED absorbed
  BY <1>2 DEF ClaimBatch, Rows
<1>4. DeliveredKept
  <2>1. \A e \in S : outbox[e].status # "delivered"
    BY DEF Candidate, Expired
  <2>2. \A e \in Rows : outbox[e].status = "delivered" => ~Exhausted(e)
    BY DEF Exhausted, Expired
  <2> QED
    BY <1>3, <2>1, <2>2 DEF DeliveredKept
<1>5. NoSuccessAdded
  <2>1. \A y \in DOMAIN execution' :
          \/ execution'[y].status = "claimed"
          \/ /\ y \in DOMAIN execution
             /\ execution'[y] = [execution[y] EXCEPT !.status = SweptStatus(y)]
    BY <1>2 DEF ClaimBatch
  <2>2. \A y \in DOMAIN execution :
          /\ [execution[y] EXCEPT !.status = SweptStatus(y)].status = SweptStatus(y)
          /\ SweptStatus(y) \in {execution[y].status, "expired", "terminal"}
    BY SweptFacts DEF OutboxInv, DataInv, TypeData, AuditRow
  <2> QED
    BY <2>1, <2>2 DEF NoSuccessAdded, Succeeded
<1>6. CheckedKept
  <2>1. \A y \in Live' : ~task'[y].checked \/ (y \in Live /\ task'[y] = task[y])
    BY <1>2 DEF ClaimBatch, Live
  <2> QED
    BY <2>1 DEF CheckedKept
<1> QED
  BY <1>3, <1>4, <1>5, <1>6 DEF Quiet

LEMMA OutsideIsQuiet ==
    ASSUME OutboxInv, NEW e \in Rows,
           ReconcileSent(e) \/ ReconcileNotSent(e) \/ TimePasses(e)
    PROVE  Quiet
<1>0. outbox[e] \in Row /\ TypeData /\ UNCHANGED <<execution, absorbed, task>>
  BY DEF OutboxInv, DataInv, TypeData, ReconcileSent, ReconcileNotSent, TimePasses
<1>1. CheckedKept /\ NoSuccessAdded
  BY <1>0, SameAudit DEF CheckedKept, Live
<1>2. CASE ReconcileSent(e) \/ ReconcileNotSent(e)
  <2>1. outbox[e].status = "dead" /\ \E row : SetRow(e, row)
    BY <1>2 DEF ReconcileSent, ReconcileNotSent, Reconcilable
  <2> QED
    BY <1>0, <1>1, <2>1, RowIsDelivered DEF Quiet
<1>3. CASE TimePasses(e)
  <2>1. \/ SetRow(e, Lapsed(outbox[e])) \/ SetRow(e, DueNow(outbox[e]))
        \/ SetRow(e, Older(outbox[e]))
    BY <1>3 DEF TimePasses, Lapse, BecomeDue, GrowOld, Lapsed, DueNow, Older
  <2>2. /\ Lapsed(outbox[e]).status = outbox[e].status
        /\ DueNow(outbox[e]).status = outbox[e].status
        /\ Older(outbox[e]).status = outbox[e].status
    BY <1>0 DEF Row, Lapsed, DueNow, Older
  <2> QED
    BY <1>0, <1>1, <2>1, <2>2, RowIsDelivered DEF Quiet
<1> QED
  BY <1>2, <1>3

\* Every step but the two of completeOutboxExecution.
LEMMA QuietSteps ==
    ASSUME OutboxInv, [Next]_outboxVars,
           \A x \in Live : ~CheckCompletion(x) /\ ~WriteCompletion(x)
    PROVE  Quiet
<1>1. ASSUME NEW e \in Event, NEW c \in Conversation, NEW n \in 1..MaxSequence,
             NEW kind \in Arrival, Enqueue(e, c, n, kind)
      PROVE  Quiet
  <2>1. \A f \in Rows : f \in Rows' /\ outbox'[f] = outbox[f]
    BY <1>1 DEF Enqueue, Rows
  <2> QED
    BY <1>1, <2>1, SameAudit DEF Enqueue, Quiet, DeliveredKept, CheckedKept, Live
<1>2. ASSUME NEW w \in Worker, Crash(w) PROVE Quiet
  <2>1. UNCHANGED <<outbox, execution, absorbed>> /\ CheckedKept
    BY <1>2 DEF Crash, CheckedKept, Live
  <2> QED
    BY <2>1, SameRows, SameAudit DEF Quiet
<1>3. CASE UNCHANGED outboxVars
  BY <1>3, SameRows, SameAudit DEF outboxVars, Quiet, CheckedKept, Live
<1> QED
  BY <1>1, <1>2, <1>3, ClaimIsQuiet, DispatchIsQuiet, OutsideIsQuiet DEF Next

\* The writing step: the success of its own event, and the batch it absorbs.
LEMMA WriteAnswers ==
    ASSUME OutboxInv, NEW x \in Live, WriteCompletion(x)
    PROVE  /\ task[x].checked /\ Rows' = Rows /\ x \in DOMAIN execution
           /\ EventOf(x) \in Rows
           /\ \A y \in DOMAIN execution' : Succeeded(y)' =>
                 \/ y # x /\ Succeeded(y)
                 \/ y = x /\ outbox'[EventOf(x)].status = "delivered"
           /\ \A e \in Rows : e # EventOf(x) /\ outbox[e].status = "delivered"
                                => outbox'[e].status = "delivered"
           /\ \A e \in Rows : e # EventOf(x) /\ e \in Absorbable(x)
                                => outbox'[e].status = "delivered"
           /\ absorbed' = absorbed \cup {<<x, f>> : f \in Absorbable(x)}
           /\ Absorbable(x) \subseteq Rows
           /\ \A e \in Absorbable(x) : outbox[e].status = "pending"
           /\ \A y \in Live' : task'[y].checked => y \in Live /\ task[y].checked /\ y # x
<1> DEFINE e == EventOf(x)
           after == Completed(outbox[e], x)
           s == CASE after.status = "delivered" -> "succeeded"
                  [] after.status = "pending" -> "retryable"
                  [] OTHER -> "terminal"
<1>0. /\ x \in DOMAIN execution /\ e \in Rows /\ outbox[e] \in Row
      /\ execution[x] \in AuditRow /\ TypeData /\ TypeTask
  BY DEF OutboxInv, TaskInv, TypeTask, DataInv, ExecutedRowExists, TypeData
<1>1. after.status \in {"delivered", "dead", "pending"}
  BY <1>0, CompletedFacts
<1>2. s = "succeeded" => after.status = "delivered"
  BY <1>1
<1>3. /\ outbox' = [f \in Rows |-> IF f = e THEN after
                                   ELSE IF f \in Absorbable(x) THEN Absorbed(outbox[f])
                                        ELSE outbox[f]]
      /\ SetStatus(x, s)
      /\ absorbed' = absorbed \cup {<<x, f>> : f \in Absorbable(x)}
      /\ Finish(x) \/ CompletionFails(x)
      /\ task[x].checked
  BY DEF WriteCompletion, Absorbed, AuditOfBatch
<1> HIDE DEF after, s
<1>4. /\ Rows' = Rows /\ outbox'[e] = after
      /\ \A f \in Rows : f # e /\ f \in Absorbable(x) => outbox'[f] = Absorbed(outbox[f])
      /\ \A f \in Rows : f # e /\ f \notin Absorbable(x) => outbox'[f] = outbox[f]
  BY <1>0, <1>3 DEF Rows
<1>5. \A f \in Rows : Absorbed(outbox[f]).status = "delivered"
  BY <1>0, AbsorbedFacts DEF TypeData
<1>6. Absorbable(x) \subseteq Rows /\ \A f \in Absorbable(x) : outbox[f].status = "pending"
  BY DEF Absorbable
<1>7. Unchecked /\ (x \in Live' => ~task'[x].checked)
  BY <1>0, <1>3, FinishUnchecked, CompletionFailsUnchecked
<1>8. \A y \in DOMAIN execution' : Succeeded(y)' =>
         (y # x /\ Succeeded(y)) \/ (y = x /\ outbox'[e].status = "delivered")
  <2>1. /\ DOMAIN execution' = DOMAIN execution
        /\ execution'[x].status = s
        /\ \A y \in DOMAIN execution \ {x} : execution'[y] = execution[y]
    BY <1>0, <1>3 DEF SetStatus, TypeData, AuditRow
  <2> QED
    BY <1>2, <1>4, <2>1 DEF Succeeded
<1> QED
  BY <1>0, <1>3, <1>4, <1>5, <1>6, <1>7, <1>8 DEF Unchecked

-----------------------------------------------------------------------------
(* An event succeeds in one execution of its own *)

\* The advisory lock: one checked completion of an event at a time.
OneCompletion ==
    \A x, y \in Live : task[x].checked /\ task[y].checked /\ EventOf(x) = EventOf(y) => x = y

\* The row of an event that succeeded is delivered, and no completion of it is under way
\* that could take the delivery back.
SuccessIsFinal ==
    \A x \in DOMAIN execution : Succeeded(x) =>
        /\ outbox[EventOf(x)].status = "delivered"
        /\ \A y \in Live : task[y].checked => EventOf(y) # EventOf(x)

SuccessInv == OneCompletion /\ SuccessIsFinal /\ ExecutedOnce

LEMMA QuietSuccess ==
    ASSUME OutboxInv, OutboxInv', SuccessInv, EventsKept, NoSuccessAdded, DeliveredKept,
           CheckedKept
    PROVE  SuccessInv'
<1>1. \A x \in DOMAIN execution' : Succeeded(x)' =>
         /\ x \in DOMAIN execution /\ Succeeded(x)
         /\ EventOf(x)' = EventOf(x) /\ EventOf(x) \in Rows
  BY DEF NoSuccessAdded, Succeeded, EventsKept, OutboxInv, DataInv, ExecutedRowExists
<1>2. \A y \in Live' : task'[y].checked =>
         y \in Live /\ task[y].checked /\ EventOf(y)' = EventOf(y)
  BY DEF CheckedKept, EventsKept, OutboxInv, TaskInv, TypeTask
<1>3. OneCompletion'
  BY <1>2 DEF SuccessInv, OneCompletion
<1>4. SuccessIsFinal'
  BY <1>1, <1>2 DEF SuccessInv, SuccessIsFinal, DeliveredKept
<1>5. ExecutedOnce'
  BY <1>1 DEF SuccessInv, ExecutedOnce
<1> QED
  BY <1>3, <1>4, <1>5 DEF SuccessInv

\* The check takes the lock of an event that is in processing: none succeeded for it.
LEMMA CheckSuccess ==
    ASSUME OutboxInv, SuccessInv, NEW x \in Live, CheckCompletion(x)
    PROVE  SuccessInv'
<1>1. /\ \A y \in Live : task[y].checked => EventOf(y) # EventOf(x)
      /\ outbox[EventOf(x)].status = "processing"
      /\ task' = [task EXCEPT ![x].checked = TRUE]
      /\ UNCHANGED <<outbox, execution>>
  BY DEF CheckCompletion, Holds
<1>2. Live' = Live /\ \A y \in Live : task'[y].checked => task[y].checked \/ y = x
  BY <1>1 DEF Live, OutboxInv, TaskInv, TypeTask
<1>3. \A y \in DOMAIN execution : /\ EventOf(y)' = EventOf(y)
                                  /\ Succeeded(y)' <=> Succeeded(y)
  BY <1>1 DEF EventOf, Succeeded
<1>4. Live \subseteq DOMAIN execution
  BY DEF OutboxInv, TaskInv, TypeTask
<1>5. OneCompletion'
  BY <1>1, <1>2, <1>3, <1>4 DEF SuccessInv, OneCompletion
<1>6. SuccessIsFinal'
  BY <1>1, <1>2, <1>3, <1>4 DEF SuccessInv, SuccessIsFinal
<1>7. ExecutedOnce'
  BY <1>1, <1>3 DEF SuccessInv, ExecutedOnce
<1> QED
  BY <1>5, <1>6, <1>7 DEF SuccessInv

\* The write has the lock: no other completion of the event is under way, and none
\* succeeded before.
LEMMA WriteSuccess ==
    ASSUME OutboxInv, OutboxInv', SuccessInv, EventsKept, NEW x \in Live, WriteCompletion(x)
    PROVE  SuccessInv'
<1> DEFINE e == EventOf(x)
<1>1. /\ task[x].checked /\ Rows' = Rows /\ x \in DOMAIN execution
      /\ \A y \in DOMAIN execution' : Succeeded(y)' =>
            (y # x /\ Succeeded(y)) \/ (y = x /\ outbox'[e].status = "delivered")
      /\ \A f \in Rows : f # e /\ outbox[f].status = "delivered"
                           => outbox'[f].status = "delivered"
      /\ \A y \in Live' : task'[y].checked => y \in Live /\ task[y].checked /\ y # x
  BY WriteAnswers
<1>2. \A y \in DOMAIN execution : EventOf(y)' = EventOf(y) /\ EventOf(y) \in Rows
  BY DEF EventsKept, OutboxInv, DataInv, ExecutedRowExists
<1>3. Live \subseteq DOMAIN execution
  BY DEF OutboxInv, TaskInv, TypeTask
<1>4. \A y \in DOMAIN execution : Succeeded(y) =>
         outbox[EventOf(y)].status = "delivered" /\ EventOf(y) # e
  BY <1>1 DEF SuccessInv, SuccessIsFinal
<1>5. \A y \in DOMAIN execution' : Succeeded(y)' =>
         /\ y \in DOMAIN execution
         /\ (y # x /\ Succeeded(y)) \/ (y = x /\ outbox'[e].status = "delivered")
  BY <1>1 DEF Succeeded
<1>6. \A y \in Live' : task'[y].checked => y \in Live /\ task[y].checked /\ EventOf(y) # e
  BY <1>1 DEF SuccessInv, OneCompletion
<1> HIDE DEF e
<1>7. OneCompletion'
  BY <1>2, <1>3, <1>6 DEF SuccessInv, OneCompletion
<1>8. SuccessIsFinal'
  BY <1>1, <1>2, <1>3, <1>4, <1>5, <1>6 DEF SuccessInv, SuccessIsFinal, e
<1>9. ExecutedOnce'
  BY <1>2, <1>4, <1>5 DEF SuccessInv, ExecutedOnce, e
<1> QED
  BY <1>7, <1>8, <1>9 DEF SuccessInv

LEMMA NextSuccess ==
    OutboxInv /\ OutboxInv' /\ SuccessInv /\ [Next]_outboxVars => SuccessInv'
<1> SUFFICES ASSUME OutboxInv, OutboxInv', SuccessInv, [Next]_outboxVars PROVE SuccessInv'
  OBVIOUS
<1>1. EventsKept
  BY NextEvents
<1>2. CASE \E x \in Live : CheckCompletion(x)
  BY <1>2, CheckSuccess
<1>3. CASE \E x \in Live : WriteCompletion(x)
  BY <1>1, <1>3, WriteSuccess
<1>4. CASE \A x \in Live : ~CheckCompletion(x) /\ ~WriteCompletion(x)
  BY <1>1, <1>4, QuietSteps, QuietSuccess DEF Quiet
<1> QED
  BY <1>2, <1>3, <1>4

\* However many processes claim, accept late, lose their leases, crash or complete at the
\* same time, an event succeeds in one execution at most: the advisory lock of
\* completeOutboxExecution and its check of the row, made under it, are enough.
THEOREM SucceedsOnce == Spec => []ExecutedOnce
<1>1. Init => SuccessInv
  BY DEF Init, SuccessInv, OneCompletion, SuccessIsFinal, ExecutedOnce, Live
<1>2. SuccessInv => ExecutedOnce
  BY DEF SuccessInv
<1> QED
  BY <1>1, <1>2, NextSuccess, OutboxIsAudited, PTL DEF Spec

-----------------------------------------------------------------------------
(* One consumer answers an event once *)

AnswersAreDelivered ==
    \A x \in Execution, e \in Event : Answered(x, e) =>
        e \in Rows /\ outbox[e].status = "delivered"

AnswersAreOne ==
    \A e \in Event : \A x, y \in Execution : Answered(x, e) /\ Answered(y, e) => x = y

AnswerInv == AnswersAreDelivered /\ AnswersAreOne

LEMMA QuietAnswers ==
    ASSUME OutboxInv, AnswerInv, EventsKept, NoSuccessAdded, UNCHANGED absorbed, RowsStay
    PROVE  AnswerInv'
<1>1. ASSUME NEW x \in Execution, NEW e \in Event, Answered(x, e)'
      PROVE  Answered(x, e)
  <2>1. CASE <<x, e>> \in absorbed'
    BY <2>1 DEF Answered
  <2>2. CASE Succeeded(x)' /\ EventOf(x)' = e
    BY <2>2 DEF Answered, NoSuccessAdded, Succeeded, EventsKept
  <2> QED
    BY <1>1, <2>1, <2>2 DEF Answered
<1> QED
  BY <1>1 DEF AnswerInv, AnswersAreDelivered, AnswersAreOne, RowsStay

\* The row is in processing and the rows it absorbs are pending: none was answered.
LEMMA WriteIsFirstAnswer ==
    ASSUME OutboxInv, OrderInv, AnswerInv, EventsKept, RowsStay, NEW x \in Live,
           WriteCompletion(x)
    PROVE  AnswerInv'
<1> DEFINE e == EventOf(x)
<1>1. /\ task[x].checked /\ x \in DOMAIN execution /\ e \in Rows
      /\ \A y \in DOMAIN execution' : Succeeded(y)' =>
            (y # x /\ Succeeded(y)) \/ (y = x /\ outbox'[e].status = "delivered")
      /\ \A f \in Rows : f # e /\ f \in Absorbable(x) => outbox'[f].status = "delivered"
      /\ absorbed' = absorbed \cup {<<x, f>> : f \in Absorbable(x)}
      /\ Absorbable(x) \subseteq Rows
      /\ \A f \in Absorbable(x) : outbox[f].status = "pending"
  BY WriteAnswers
<1>2. outbox[e].status = "processing"
  BY <1>1 DEF OrderInv, CheckedHolds, Holds
<1>3. e \notin Absorbable(x)
  BY <1>1, <1>2
<1>4. \A f \in Absorbable(x) \cup {e} : f \in Rows /\ outbox[f].status # "delivered"
  BY <1>1, <1>2
<1>5. ASSUME NEW y \in Execution, NEW f \in Event, Answered(y, f)'
      PROVE  \/ Answered(y, f)
             \/ /\ y = x /\ f \in Absorbable(x) \cup {e}
                /\ outbox'[f].status = "delivered"
  <2>1. CASE <<y, f>> \in absorbed'
    BY <1>1, <1>3, <2>1 DEF Answered
  <2>2. CASE Succeeded(y)' /\ EventOf(y)' = f
    <3>1. (y \in DOMAIN execution /\ EventOf(y)' = EventOf(y)) \/ y = x
      BY <1>1, <2>2 DEF Succeeded, EventsKept
    <3>2. EventOf(x)' = e
      BY <1>1 DEF EventsKept
    <3> QED
      BY <1>1, <2>2, <3>1, <3>2 DEF Answered, Succeeded
  <2> QED
    BY <1>5, <2>1, <2>2 DEF Answered
<1>6. \A y \in Execution, f \in Event : Answered(y, f) =>
         /\ f \in Rows /\ outbox[f].status = "delivered"
         /\ f \notin Absorbable(x) \cup {e}
  BY <1>4 DEF AnswerInv, AnswersAreDelivered
<1> HIDE DEF e
<1>7. AnswersAreDelivered'
  BY <1>4, <1>5, <1>6 DEF AnswersAreDelivered, RowsStay
<1>8. AnswersAreOne'
  BY <1>5, <1>6 DEF AnswersAreOne, AnswerInv
<1> QED
  BY <1>7, <1>8 DEF AnswerInv

LEMMA NextAnswers ==
    ASSUME OutboxInv, OutboxInv', OrderInv, AnswerInv, Awaited, NEW w, Worker = {w},
           [Next]_outboxVars
    PROVE  AnswerInv'
<1>1. EventsKept /\ RowsStay
  BY NextEvents, NextKeepsOrder
<1>2. CASE \E x \in Live : CheckCompletion(x)
  <2>1. UNCHANGED <<execution, absorbed>>
    BY <1>2 DEF CheckCompletion
  <2> QED
    BY <1>1, <2>1, SameAudit, QuietAnswers
<1>3. CASE \E x \in Live : WriteCompletion(x)
  BY <1>1, <1>3, WriteIsFirstAnswer
<1>4. CASE \A x \in Live : ~CheckCompletion(x) /\ ~WriteCompletion(x)
  BY <1>1, <1>4, QuietSteps, QuietAnswers DEF Quiet
<1> QED
  BY <1>2, <1>3, <1>4

LEMMA AnswersAreProcessedOnce == OutboxInv /\ AnswerInv => ProcessedOnce
<1> SUFFICES ASSUME OutboxInv, AnswerInv, NEW e \in Rows
             PROVE  /\ \A x, y \in Execution : Answered(x, e) /\ Answered(y, e) => x = y
                    /\ outbox[e].status = "delivered" /\ outbox[e].topic # "outbound"
                         => \E x \in Execution : Answered(x, e)
  BY DEF ProcessedOnce
<1>1. e \in Event /\ DOMAIN execution \subseteq Execution
  BY DEF OutboxInv, DataInv, TypeData
<1>2. outbox[e].status = "delivered" /\ outbox[e].topic # "outbound"
        => \E x \in DOMAIN execution : Answered(x, e)
  BY DEF OutboxInv, DataInv, DeliveryIsAudited, Answered, Succeeded
<1> QED
  BY <1>1, <1>2 DEF AnswerInv, AnswersAreOne

LEMMA InitAnswers == Init => AnswerInv
BY DEF Init, AnswerInv, AnswersAreDelivered, AnswersAreOne, Answered, Succeeded

\* With one consumer whose ticks await their executions, no event is answered twice, once
\* on its own and once in the batch of a later one, or in two batches; and what is
\* delivered of the customer's was answered.
THEOREM AnsweredByOne ==
    ASSUME NEW w, Worker = {w}
    PROVE  Spec /\ []Awaited => []ProcessedOnce
<1>1. Init => OrderInv /\ AnswerInv
  BY InitIsOrdered, InitAnswers
<1>2. OutboxInv /\ OutboxInv' /\ OrderInv /\ AnswerInv /\ Awaited /\ [Next]_outboxVars
        => OrderInv' /\ AnswerInv'
  BY NextKeepsOrder, NextAnswers
<1>3. OutboxInv /\ AnswerInv => ProcessedOnce
  BY AnswersAreProcessedOnce
<1> QED
  BY <1>1, <1>2, <1>3, OutboxIsAudited, PTL DEF Spec

\* One consumer that takes one event at a time, or serves one conversation, needs no
\* assumption about its ticks.
THEOREM ProcessedByOne ==
    ASSUME NEW w, Worker = {w}, BatchSize = 1 \/ \E c : Conversation = {c}
    PROVE  Spec => []ProcessedOnce
<1>1. Init => OrderInv /\ AloneInv /\ AnswerInv
  BY InitIsOrdered, InitIsAlone, InitAnswers
<1>2. OutboxInv /\ OutboxInv' /\ OrderInv /\ AloneInv /\ AnswerInv /\ [Next]_outboxVars
        => OrderInv' /\ AloneInv' /\ AnswerInv'
  BY NextKeepsOrder, NextIsAlone, NextAnswers DEF AloneInv, Alone
<1>3. OutboxInv /\ AnswerInv => ProcessedOnce
  BY AnswersAreProcessedOnce
<1> QED
  BY <1>1, <1>2, <1>3, OutboxIsAudited, PTL DEF Spec

-----------------------------------------------------------------------------
(* The pipeline: what the queue does to its events and what the dispatch does to *)
(* their messages stay together, so that every step of the pipeline is a step of *)
(* the dispatch, and its theorems carry over.                                    *)

\* The theorems about the dispatch, of the messages of the events.
DP == INSTANCE EvolutionDispatch_proofs WITH
        Message <- Event, Caller <- Execution, NoId <- NoExecution,
        MaxGeneration <- MaxGenerations + 1

-----------------------------------------------------------------------------
(* The two instances of the dispatch are one *)

LEMMA SameProvider ==
    ASSUME NEW x, NEW k, NEW C
    PROVE  /\ D!Transmit(x) <=> DP!Transmit(x)
           /\ D!Echo(x) <=> DP!Echo(x)
           /\ D!Lapse(k) <=> DP!Lapse(k)
           /\ D!Crash(C) <=> DP!Crash(C)
           /\ D!FailUndispatched(k) <=> DP!FailUndispatched(k)
BY DEF D!Running, DP!Running, D!Calls, DP!Calls, D!SetAttempt, DP!SetAttempt,
       D!Transmit, DP!Transmit, D!Undispatched, DP!Undispatched, D!Fail, DP!Fail,
       D!FailUndispatched, DP!FailUndispatched, D!Lapse, DP!Lapse, D!Echo, DP!Echo,
       D!Crash, DP!Crash

LEMMA SameDeliver == ASSUME NEW x PROVE D!Deliver(x) <=> DP!Deliver(x)
BY DEF D!Calls, DP!Calls, D!KeyOf, DP!KeyOf, D!Unlocked, DP!Unlocked, D!Goto,
       DP!Goto, D!SetAttempt, DP!SetAttempt, D!Unclaimed, DP!Unclaimed, D!Claimable,
       DP!Claimable, D!Abandoned, DP!Abandoned, D!Unknown, DP!Unknown, D!Answer,
       DP!Answer, D!ClaimRead, DP!ClaimRead, D!ClaimWrite, DP!ClaimWrite,
       D!ClaimFails, DP!ClaimFails, D!RefuseToSend, DP!RefuseToSend, D!Post,
       DP!Post, D!Confirmed, DP!Confirmed, D!Ambiguous, DP!Ambiguous, D!Markable,
       DP!Markable, D!MarkUnknown, DP!MarkUnknown, D!MarkFails, DP!MarkFails,
       D!FinalStatus, DP!FinalStatus, D!WriteResult, DP!WriteResult, D!Refusing,
       DP!Refusing, D!Recording, DP!Recording, D!RecordResult, DP!RecordResult,
       D!RecordRefusal, DP!RecordRefusal, D!AfterThrow, DP!AfterThrow, D!RecordSent,
       DP!RecordSent, D!RecordThrows, DP!RecordThrows, D!GiveUp, DP!GiveUp,
       D!Deliver, DP!Deliver

LEMMA SameRequest ==
    ASSUME NEW e, NEW x, NEW k
    PROVE  /\ D!Create(e) <=> DP!Create(e)
           /\ D!Begin(x, k) <=> DP!Begin(x, k)
           /\ D!ConfirmSent(e, x) <=> DP!ConfirmSent(e, x)
           /\ D!ConfirmNotSent(e) <=> DP!ConfirmNotSent(e)
BY DEF D!Calls, DP!Calls, D!KeyOf, DP!KeyOf, D!MessageOf, DP!MessageOf, D!Current,
       DP!Current, D!Copies, DP!Copies, D!Unlocked, DP!Unlocked, D!SetAttempt,
       DP!SetAttempt, D!NewAttempt, DP!NewAttempt, D!Create, DP!Create, D!Begin,
       DP!Begin, D!Awaiting, DP!Awaiting, D!PersistedSent, DP!PersistedSent,
       D!MarkSent, DP!MarkSent, D!Confirmable, DP!Confirmable, D!ConfirmSent,
       DP!ConfirmSent, D!NeverSent, DP!NeverSent, D!ConfigFailure, DP!ConfigFailure, D!Reopenable, DP!Reopenable,
       D!Successor, DP!Successor, D!ReopenedKeys, DP!ReopenedKeys, D!ConfirmNotSent,
       DP!ConfirmNotSent

LEMMA SameState ==
    /\ D!Init <=> DP!Init
    /\ D!TypeOK <=> DP!TypeOK
    /\ D!NoDuplicate <=> DP!NoDuplicate
BY DEF D!Generation, DP!Generation, D!Key, DP!Key, D!Id, DP!Id, D!DeliveryStatus,
       DP!DeliveryStatus, D!AttemptStatus, DP!AttemptStatus, D!DispatchState,
       DP!DispatchState, D!MessageRow, DP!MessageRow, D!AttemptRow, DP!AttemptRow,
       D!Running, DP!Running, D!Ended, DP!Ended, D!Request, DP!Request, D!Call,
       DP!Call, D!Calls, DP!Calls, D!KeyOf, DP!KeyOf, D!MessageOf, DP!MessageOf,
       D!Current, DP!Current, D!Init, DP!Init, D!TypeOK, DP!TypeOK, D!NoDuplicate,
       DP!NoDuplicate

LEMMA SamePromise == D!KeepsPromise <=> DP!KeepsPromise
BY DEF D!KeepsPromise, DP!KeepsPromise, D!Calls, DP!Calls, D!MessageOf, DP!MessageOf,
       D!Promise!Spec, DP!Promise!Spec, D!Promise!Init, DP!Promise!Init, D!Promise!Next,
       DP!Promise!Next, D!Promise!deliveryVars, DP!Promise!deliveryVars,
       D!Promise!Request, DP!Promise!Request, D!Promise!Reach, DP!Promise!Reach,
       D!Promise!Reached, DP!Promise!Reached, D!Promise!Show, DP!Promise!Show

-----------------------------------------------------------------------------
(* The queue and the dispatch stay together *)

\* The attempts of an event's message follow the generations of the event, and the
\* generation an execution was handed names an attempt that exists.
Linked ==
    /\ DOMAIN message = Rows
    /\ \A e \in Rows : message[e].current = outbox[e].generation + 1
    /\ \A x \in Live : AttemptOf(x) \in DOMAIN attempt

\* The caller of the dispatch is an execution of the message's event.
CallsLinked ==
    \A x \in DOMAIN call : x \in DOMAIN execution /\ call[x].key[1] = EventOf(x)

PipelineInv ==
    OutboxInv /\ DP!TypeOK /\ DP!ClaimInv /\ DP!DeliveryInv /\ Linked /\ CallsLinked

LEMMA DispatchConstants == DP!DispatchAssumption
BY OutboxAssumption DEF DP!DispatchAssumption

\* A step that keeps generations and attempts.
LEMMA KeepsLinked ==
    ASSUME OutboxInv, DP!TypeOK, Linked, GenerationsKept, EventsKept, HandedKept,
           DOMAIN message' = DOMAIN message, DOMAIN attempt' = DOMAIN attempt,
           \A e \in DOMAIN message : message'[e].current = message[e].current
    PROVE  Linked'
<1>1. ASSUME NEW x \in Live' PROVE AttemptOf(x)' \in DOMAIN attempt'
  <2>1. CASE x \in Live /\ task'[x].generation = task[x].generation
    <3>1. x \in DOMAIN execution /\ EventOf(x)' = EventOf(x)
      BY <2>1 DEF OutboxInv, TaskInv, TypeTask, EventsKept
    <3> QED
      BY <2>1, <3>1 DEF Linked, AttemptOf
  <2>2. CASE /\ EventOf(x)' \in Rows
             /\ task'[x].generation = outbox[EventOf(x)'].generation
    <3>1. PICK e \in Rows : e = EventOf(x)'
      BY <2>2
    <3>2. AttemptOf(x)' = <<e, message[e].current>> /\ e \in DOMAIN message
      BY <2>2, <3>1 DEF Linked, AttemptOf
    <3> QED
      BY <3>2 DEF DP!TypeOK, DP!Current
  <2> QED
    BY <2>1, <2>2 DEF HandedKept
<1>2. DOMAIN message' = Rows'
      /\ \A e \in Rows' : message'[e].current = outbox'[e].generation + 1
  BY DEF Linked, GenerationsKept
<1> QED
  BY <1>1, <1>2 DEF Linked

LEMMA KeepsCallsLinked ==
    ASSUME OutboxInv, CallsLinked, EventsKept,
           \A x \in DOMAIN call' :
              \/ x \in DOMAIN call /\ call'[x].key = call[x].key
              \/ x \in Live /\ call'[x].key = AttemptOf(x)
    PROVE  CallsLinked'
<1> SUFFICES ASSUME NEW x \in DOMAIN call'
             PROVE  x \in DOMAIN execution' /\ call'[x].key[1] = EventOf(x)'
  BY DEF CallsLinked
<1>1. x \in DOMAIN execution
  BY DEF CallsLinked, OutboxInv, TaskInv, TypeTask
<1>2. call'[x].key[1] = EventOf(x)
  BY DEF CallsLinked, AttemptOf
<1> QED
  BY <1>1, <1>2 DEF EventsKept

LEMMA StillOutbox ==
    ASSUME UNCHANGED outboxVars PROVE GenerationsKept /\ EventsKept /\ HandedKept
BY DEF outboxVars, GenerationsKept, EventsKept, HandedKept, Rows, Live, EventOf

\* What the dispatch does alone, or with a step of the outbox that reopens nothing.
LEMMA MovedLinked ==
    ASSUME PipelineInv, GenerationsKept, EventsKept, HandedKept,
           DP!RowsMoved,
           \A x \in DOMAIN call' :
              \/ x \in DOMAIN call /\ call'[x].key = call[x].key
              \/ x \in Live /\ call'[x].key = AttemptOf(x)
    PROVE  Linked' /\ CallsLinked'
BY KeepsLinked, KeepsCallsLinked DEF PipelineInv, DP!RowsMoved

LEMMA StillDispatch ==
    ASSUME PipelineInv, GenerationsKept, EventsKept, HandedKept, UNCHANGED dispatchVars
    PROVE  Linked' /\ CallsLinked'
BY KeepsLinked, KeepsCallsLinked DEF PipelineInv, dispatchVars

\* The steps of the dispatch keep the keys of the calls.
LEMMA KeysKept ==
    ASSUME DP!TypeOK, DP!Next
    PROVE  \A x \in DOMAIN call : x \in DOMAIN call' /\ call'[x].key = call[x].key
<1>1. DP!CallsMoved
  BY DispatchConstants, DP!NextMoved
<1> QED
  BY <1>1 DEF DP!CallsMoved, DP!Calls, DP!Moved

-----------------------------------------------------------------------------
(* Every step of the pipeline is a step of the queue and one of the dispatch *)

Together == [Next]_outboxVars /\ [DP!Next]_(dispatchVars) /\ Linked' /\ CallsLinked'

\* A step of the queue alone.
LEMMA QueueStep ==
    ASSUME PipelineInv, Next, GenerationsKept, EventsKept, HandedKept,
           UNCHANGED dispatchVars
    PROVE  Together
BY StillDispatch DEF Together

\* The rest of a dispatch moves one task, and the rows keep their generation.
LEMMA TaskStep ==
    ASSUME PipelineInv, NEW x \in Live, UNCHANGED dispatchVars,
           \/ Succeed(x) \/ CheckCompletion(x) \/ CompletionRefused(x)
           \/ CompletionFaults(x) \/ \E o \in {"retryable", "terminal"} : Fail(x, o)
    PROVE  Together
<1>1. Next
  BY DEF Next, Dispatch
<1>2. HandedKept
  BY DispatchHanded DEF PipelineInv, OutboxInv
<1>3. UNCHANGED <<outbox, execution>>
  BY DEF Succeed, CheckCompletion, CompletionRefused, CompletionFaults, Fail
<1>4. GenerationsKept /\ EventsKept
  BY <1>3 DEF GenerationsKept, EventsKept, Rows, EventOf
<1> QED
  BY <1>1, <1>2, <1>4, QueueStep

LEMMA HousekeepingStep ==
    ASSUME PipelineInv, Housekeeping PROVE Together
<1>0. OutboxInv /\ TaskInv /\ UNCHANGED dispatchVars
  BY DEF PipelineInv, OutboxInv, Housekeeping
<1>1. ASSUME NEW w \in Worker, Claim(w) PROVE Together
  <2>1. Next
    BY <1>1 DEF Next
  <2> QED
    BY <1>0, <1>1, <2>1, ClaimGenerations, QueueStep
<1>2. ASSUME NEW e \in Rows, TimePasses(e) PROVE Together
  <2>1. Next
    BY <1>2 DEF Next
  <2>2. HandedKept
    BY <1>2 DEF TimePasses, HandedKept, Live
  <2> QED
    BY <1>0, <1>2, <2>1, <2>2, TimeGenerations, QueueStep
<1>3. ASSUME NEW x \in Live,
             \/ Accept(x) \/ AcceptLate(x) \/ AcceptRefused(x) \/ AcceptFails(x)
             \/ Reject(x) \/ RejectThrows(x)
      PROVE  Together
  <2>1. Next
    BY <1>3 DEF Next, Dispatch
  <2> QED
    BY <1>0, <1>3, <2>1, DispatchGenerations, DispatchHanded, QueueStep
<1> QED
  BY <1>0, <1>1, <1>2, <1>3, TaskStep DEF Housekeeping

\* The message, its attempt and the event appear together.
LEMMA RequestStep ==
    ASSUME PipelineInv, NEW e \in Event, NEW c \in Conversation, NEW n \in 1..MaxSequence,
           Request(e, c, n)
    PROVE  Together
<1>1. Enqueue(e, c, n, <<"outbound", "none">>) /\ DP!Create(e)
  BY SameRequest DEF Request
<1>2. Next
  BY <1>1, OutboundArrives DEF Next
<1>3. DP!Next
  BY <1>1 DEF DP!Next
<1>4. /\ Rows' = Rows \cup {e} /\ outbox'[e].generation = 0
      /\ \A f \in Rows : f # e /\ outbox'[f] = outbox[f]
      /\ UNCHANGED <<execution, task>>
  BY <1>1 DEF Enqueue, Rows
<1>5. /\ DOMAIN message' = DOMAIN message \cup {e} /\ message'[e].current = 1
      /\ \A m \in DOMAIN message : m # e /\ message'[m] = message[m]
      /\ DOMAIN attempt \subseteq DOMAIN attempt' /\ UNCHANGED call
  BY <1>1 DEF DP!Create
<1>6. Linked'
  <2>1. DOMAIN message' = Rows'
    BY <1>4, <1>5 DEF PipelineInv, Linked
  <2>2. ASSUME NEW f \in Rows' PROVE message'[f].current = outbox'[f].generation + 1
    BY <1>4, <1>5 DEF PipelineInv, Linked
  <2>3. ASSUME NEW x \in Live' PROVE AttemptOf(x)' \in DOMAIN attempt'
    BY <1>4, <1>5 DEF PipelineInv, Linked, AttemptOf, EventOf, Live
  <2> QED
    BY <2>1, <2>2, <2>3 DEF Linked
<1>7. CallsLinked'
  BY <1>4, <1>5 DEF PipelineInv, CallsLinked, EventOf
<1> QED
  BY <1>2, <1>3, <1>6, <1>7 DEF Together, dispatchVars, DP!dispatchVars

\* A step of the dispatch alone that moves rows and keeps the calls' keys.
LEMMA DispatchStep ==
    ASSUME PipelineInv, DP!Next, DP!RowsMoved, UNCHANGED outboxVars, UNCHANGED DOMAIN call
    PROVE  Together
<1>1. \A x \in DOMAIN call : call'[x].key = call[x].key
  BY KeysKept DEF PipelineInv
<1> QED
  BY <1>1, StillOutbox, MovedLinked DEF Together

LEMMA StartStep ==
    ASSUME PipelineInv, NEW x \in Live, StartDelivery(x) PROVE Together
<1>1. DP!Begin(x, AttemptOf(x)) /\ UNCHANGED outboxVars
  BY SameRequest DEF StartDelivery
<1>2. x \in Execution /\ AttemptOf(x) \in DOMAIN attempt
  BY DEF PipelineInv, OutboxInv, TaskInv, TypeTask, DataInv, TypeData, Linked
<1>3. DP!Next
  BY <1>1, <1>2 DEF DP!Next
<1>4. DP!RowsMoved
  BY <1>1, DispatchConstants, DP!StillRows DEF PipelineInv, DP!Begin
<1>5. \A y \in DOMAIN call' : \/ y \in DOMAIN call /\ call'[y].key = call[y].key
                              \/ y \in Live /\ call'[y].key = AttemptOf(y)
  <2>1. call' = [d \in DOMAIN call \cup {x} |->
                   IF d = x THEN [key |-> AttemptOf(x), at |-> "claiming", request |-> "none"]
                   ELSE call[d]]
    BY <1>1 DEF DP!Begin, DP!Calls
  <2> QED
    BY <2>1
<1> QED
  BY <1>1, <1>3, <1>4, <1>5, StillOutbox, MovedLinked DEF Together

LEMMA ContinueStep ==
    ASSUME PipelineInv, NEW x \in DOMAIN call, ContinueDelivery(x) PROVE Together
<1>1. DP!Deliver(x) /\ UNCHANGED outboxVars
  BY SameDeliver DEF ContinueDelivery
<1>2. DP!Next
  BY <1>1 DEF DP!Next, DP!Calls
<1>3. DP!RowsMoved
  BY <1>1, DispatchConstants, DP!DeliverRows DEF PipelineInv, DP!DeliveryInv, DP!Calls
<1>4. UNCHANGED DOMAIN call
  BY <1>1 DEF DP!Deliver, DP!ClaimRead, DP!ClaimWrite, DP!ClaimFails, DP!RefuseToSend,
       DP!Post, DP!Confirmed, DP!Ambiguous, DP!MarkUnknown, DP!MarkFails,
       DP!RecordRefusal, DP!RecordSent, DP!RecordThrows, DP!GiveUp, DP!Goto
<1> QED
  BY <1>1, <1>2, <1>3, <1>4, DispatchStep

LEMMA SurroundingsStep ==
    ASSUME PipelineInv, Surroundings PROVE Together
<1>0. UNCHANGED outboxVars
  BY DEF Surroundings
<1>1. ASSUME NEW x \in DOMAIN call, D!Transmit(x) \/ D!Echo(x) PROVE Together
  <2>1. DP!Transmit(x) \/ DP!Echo(x)
    BY <1>1, SameProvider
  <2>2. DP!Next
    BY <2>1 DEF DP!Next, DP!Calls
  <2>3. UNCHANGED <<message, attempt>> /\ UNCHANGED DOMAIN call
    BY <2>1 DEF DP!Transmit, DP!Echo
  <2>4. DP!RowsMoved
    BY <2>3, DispatchConstants, DP!StillRows DEF PipelineInv
  <2> QED
    BY <1>0, <2>2, <2>3, <2>4, DispatchStep
<1>2. ASSUME NEW k \in DOMAIN attempt, D!Lapse(k) PROVE Together
  <2>1. DP!Lapse(k)
    BY <1>2, SameProvider
  <2>2. DP!Next
    BY <2>1 DEF DP!Next
  <2>3. DP!RowsMoved
    BY <2>1, DispatchConstants, DP!OutsideRows DEF PipelineInv
  <2>4. UNCHANGED DOMAIN call
    BY <2>1 DEF DP!Lapse
  <2> QED
    BY <1>0, <2>2, <2>3, <2>4, DispatchStep
<1> QED
  BY <1>1, <1>2 DEF Surroundings

\* A dead event fails its undispatched message in the same transaction.
LEMMA WriteStep ==
    ASSUME PipelineInv, NEW x \in Live, Write(x) PROVE Together
<1> DEFINE k == AttemptOf(x)
<1>0. OutboxInv /\ TaskInv /\ k \in DOMAIN attempt
  BY DEF PipelineInv, OutboxInv, Linked
<1>1. WriteCompletion(x)
  BY DEF Write
<1>2. Next
  BY <1>1 DEF Next, Dispatch
<1>3. GenerationsKept /\ EventsKept /\ HandedKept
  BY <1>0, <1>1, WriteGenerations, DispatchHanded
<1>4. CASE UNCHANGED dispatchVars
  BY <1>2, <1>3, <1>4, QueueStep
<1>5. CASE D!FailUndispatched(k)
  <2>1. DP!FailUndispatched(k)
    BY <1>5, SameProvider
  <2>2. DP!Next
    BY <1>0, <2>1 DEF DP!Next
  <2>3. DP!RowsMoved
    BY <1>0, <2>1, DispatchConstants, DP!OutsideRows DEF PipelineInv
  <2>4. UNCHANGED call
    BY <2>1 DEF DP!FailUndispatched
  <2> QED
    BY <1>2, <1>3, <2>2, <2>3, <2>4, MovedLinked DEF Together
<1> QED
  BY <1>4, <1>5 DEF Write

LEMMA SettleSentStep ==
    ASSUME PipelineInv, NEW e \in Rows, NEW id \in DOMAIN call,
           ReconcileSent(e), D!ConfirmSent(e, id)
    PROVE  Together
<1>1. DP!ConfirmSent(e, id) /\ e \in DOMAIN message
  BY SameRequest DEF PipelineInv, Linked
<1>2. Next
  BY DEF Next
<1>3. DP!Next
  BY <1>1 DEF DP!Next, DP!Reconcile, DP!Calls
<1>4. GenerationsKept /\ EventsKept
  BY TimeGenerations DEF PipelineInv
<1>5. HandedKept
  BY DEF ReconcileSent, HandedKept, Live
<1>6. DP!RowsMoved
  BY <1>1, DispatchConstants, DP!ConfirmSentRows DEF PipelineInv, DP!Calls
<1>7. UNCHANGED call
  BY <1>1 DEF DP!ConfirmSent, DP!Confirmable
<1> QED
  BY <1>2, <1>3, <1>4, <1>5, <1>6, <1>7, MovedLinked DEF Together

\* Reopening raises the generation of the event and the attempt of its message.
LEMMA SettleNotSentStep ==
    ASSUME PipelineInv, NEW e \in Rows, ReconcileNotSent(e), D!ConfirmNotSent(e)
    PROVE  Together
<1>1. DP!ConfirmNotSent(e) /\ e \in DOMAIN message
  BY SameRequest DEF PipelineInv, Linked
<1>2. Next
  BY DEF Next
<1>3. DP!Next
  BY <1>1 DEF DP!Next, DP!Reconcile
<1>4. outbox[e] \in Row /\ message[e] \in DP!MessageRow
  BY <1>1 DEF PipelineInv, OutboxInv, DataInv, TypeData, DP!TypeOK
<1>5. /\ Rows' = Rows /\ outbox'[e].generation = outbox[e].generation + 1
      /\ \A f \in Rows \ {e} : outbox'[f] = outbox[f]
      /\ UNCHANGED <<execution, task>>
  BY <1>4 DEF ReconcileNotSent, SetRow, GiveBack, Rows, Row
<1>6. /\ DOMAIN message' = DOMAIN message
      /\ message'[e].current = message[e].current + 1
      /\ \A m \in DOMAIN message \ {e} : message'[m] = message[m]
      /\ DOMAIN attempt \subseteq DOMAIN attempt' /\ UNCHANGED call
  BY <1>1, <1>4 DEF DP!ConfirmNotSent, DP!ReopenedKeys, DP!MessageRow
<1>7. Linked'
  <2>1. DOMAIN message' = Rows'
    BY <1>5, <1>6 DEF PipelineInv, Linked
  <2>2. ASSUME NEW f \in Rows' PROVE message'[f].current = outbox'[f].generation + 1
    BY <1>5, <1>6 DEF PipelineInv, Linked
  <2>3. ASSUME NEW x \in Live' PROVE AttemptOf(x)' \in DOMAIN attempt'
    BY <1>5, <1>6 DEF PipelineInv, Linked, AttemptOf, EventOf, Live
  <2> QED
    BY <2>1, <2>2, <2>3 DEF Linked
<1>8. CallsLinked'
  BY <1>5, <1>6 DEF PipelineInv, CallsLinked, EventOf
<1> QED
  BY <1>2, <1>3, <1>7, <1>8 DEF Together

LEMMA DieStep ==
    ASSUME PipelineInv, NEW w \in Worker, Die(w) PROVE Together
<1> DEFINE C == {x \in Live \cap DOMAIN call :
                   task[x].worker = w /\ call[x].at \in D!Running}
<1>1. Crash(w) /\ (UNCHANGED dispatchVars \/ D!Crash(C))
  BY DEF Die
<1>2. Next
  BY <1>1 DEF Next
<1>3. GenerationsKept /\ EventsKept
  BY <1>1 DEF Crash, GenerationsKept, EventsKept, Rows, EventOf
<1>4. HandedKept
  <2>1. task' = [x \in {y \in Live : task[y].worker # w} |-> task[x]]
    BY <1>1 DEF Crash
  <2> QED
    BY <2>1, EndHanded
<1>5. CASE UNCHANGED dispatchVars
  BY <1>2, <1>3, <1>4, <1>5, QueueStep
<1>6. CASE D!Crash(C)
  <2>1. DP!Crash(C) /\ C \subseteq DOMAIN call
    BY <1>6, SameProvider
  <2>2. DP!Next
    BY <2>1 DEF DP!Next, DP!Calls
  <2>3. UNCHANGED <<message, attempt>> /\ UNCHANGED DOMAIN call
    BY <2>1 DEF DP!Crash, DP!Calls
  <2>4. DP!RowsMoved
    BY <2>3, DispatchConstants, DP!StillRows DEF PipelineInv
  <2>5. \A x \in DOMAIN call : call'[x].key = call[x].key
    BY <2>2, KeysKept DEF PipelineInv
  <2> QED
    BY <1>2, <1>3, <1>4, <2>2, <2>3, <2>4, <2>5, MovedLinked DEF Together
<1> QED
  BY <1>1, <1>5, <1>6

LEMMA PipelineStep ==
    ASSUME PipelineInv, [DNext]_deliveryVars PROVE Together
<1>1. CASE UNCHANGED deliveryVars
  BY <1>1, StillOutbox, StillDispatch DEF deliveryVars, Together
<1>2. ASSUME NEW x \in Live, Execute(x) PROVE Together
  <2>1. CASE x \in DOMAIN call /\ ReturnDelivered(x)
    BY <2>1, TaskStep DEF ReturnDelivered
  <2>2. CASE \E o \in {"retryable", "terminal"} : Throw(x, o)
    BY <2>2, TaskStep DEF Throw
  <2>3. CASE Check(x)
    BY <2>3, TaskStep DEF Check
  <2>4. CASE RefuseUnpersisted(x)
    BY <2>4, TaskStep DEF RefuseUnpersisted, CompletionFaults
  <2> QED
    BY <1>2, <2>1, <2>2, <2>3, <2>4, StartStep, ContinueStep, WriteStep DEF Execute
<1>3. ASSUME NEW e \in Rows, Settle(e) PROVE Together
  BY <1>3, SettleSentStep, SettleNotSentStep DEF Settle
<1> QED
  BY <1>1, <1>2, <1>3, RequestStep, DieStep, HousekeepingStep, SurroundingsStep DEF DNext

LEMMA NextPipelineInv == PipelineInv /\ [DNext]_deliveryVars => PipelineInv'
<1> SUFFICES ASSUME PipelineInv, [DNext]_deliveryVars PROVE PipelineInv'
  OBVIOUS
<1>1. Together
  BY PipelineStep
<1>2. OutboxInv'
  BY <1>1, NextKeeps DEF PipelineInv, Together
<1>3. [DP!Next]_(DP!dispatchVars)
  BY <1>1 DEF Together, dispatchVars, DP!dispatchVars
<1>4. DP!TypeOK' /\ DP!ClaimInv' /\ DP!DeliveryInv'
  BY <1>3, DispatchConstants, DP!NextTypeOK, DP!NextClaimInv, DP!NextDeliveryInv
     DEF PipelineInv
<1> QED
  BY <1>1, <1>2, <1>4 DEF PipelineInv, Together

LEMMA InitPipelineInv == DInit => PipelineInv /\ DP!Init
<1> SUFFICES ASSUME DInit PROVE PipelineInv /\ DP!Init
  OBVIOUS
<1>1. Init /\ DP!Init
  BY SameState DEF DInit
<1>2. OutboxInv
  BY <1>1, InitEstablishes
<1>3. DP!TypeOK /\ DP!ClaimInv /\ DP!DeliveryInv
  BY <1>1, DispatchConstants, DP!InitTypeOK
     DEF DP!Init, DP!ClaimInv, DP!AtMostOneRequest, DP!DeliveryInv, DP!CallInv,
         DP!AttemptInv, DP!SentIsTrue, DP!Calls
<1>4. Linked /\ CallsLinked
  BY <1>1 DEF Init, DP!Init, Linked, CallsLinked, Rows, Live
<1> QED
  BY <1>1, <1>2, <1>3, <1>4 DEF PipelineInv

LEMMA SpecPipeline == DSpec => []PipelineInv /\ Spec /\ DP!Spec
<1>1. PipelineInv /\ [DNext]_deliveryVars => [Next]_outboxVars /\ [DP!Next]_(DP!dispatchVars)
  BY PipelineStep DEF Together, dispatchVars, DP!dispatchVars
<1>2. DInit => Init
  BY DEF DInit
<1> QED
  BY <1>1, <1>2, InitPipelineInv, NextPipelineInv, PTL DEF DSpec, Spec, DP!Spec

\* The queue and the dispatch keep their types, and the rows of an event and of its
\* message name each other.
THEOREM PipelineTypeCorrect == DSpec => []DTypeOK
<1>1. PipelineInv => DTypeOK
  <2> SUFFICES ASSUME PipelineInv PROVE DTypeOK
    OBVIOUS
  <2>1. TypeOK
    BY InvImplies DEF PipelineInv
  <2>2. D!TypeOK
    BY SameState DEF PipelineInv
  <2> QED
    BY <2>1, <2>2 DEF PipelineInv, Linked, CallsLinked, DTypeOK, D!MessageOf
<1> QED
  BY <1>1, SpecPipeline, PTL

\* Retries of the event, lapsed leases, crashes and operators' decisions included, the
\* customer gets each message at most once.
THEOREM OneCopyThroughPipeline == DSpec => []CustomerGetsOneCopy
<1>1. DP!Spec => []DP!NoDuplicate
  BY DispatchConstants, DP!OneCopy
<1>2. DP!NoDuplicate => CustomerGetsOneCopy
  BY SameState DEF CustomerGetsOneCopy
<1> QED
  BY <1>1, <1>2, SpecPipeline, PTL

\* The pipeline implements the promise of the abstract delivery.
THEOREM PipelineDelivers == DSpec => PipelineKeepsPromise
<1>1. DP!Spec => DP!KeepsPromise
  BY DispatchConstants, DP!DispatchKeepsPromise
<1> QED
  BY <1>1, SamePromise, SpecPipeline DEF PipelineKeepsPromise

-----------------------------------------------------------------------------
(* A delivered event: its message was shown as sent before the row was written *)

\* A dispatch of the pipeline: no batch, a completion that was checked is still a
\* completion, and one that reports a failure does not carry a success.
Fit(t) ==
    /\ t.batch = {}
    /\ t.checked => t.at \in {"completing", "failing"}
    /\ t.at = "failing" => t.outcome # "succeeded"

\* execute() returns only after the message is shown as sent, and the row of an event
\* is written as delivered only by such an execution or by an operator.
ReturnInv ==
    /\ DOMAIN checkpoint = {}
    /\ \A x \in Live : Fit(task[x])
    /\ \A x \in Live : task[x].at = "completing" => message[EventOf(x)].delivery = "sent"
    /\ \A e \in Rows : outbox[e].status = "delivered" => message[e].delivery = "sent"

TasksMoved ==
    \A x \in Live' :
        /\ Fit(task'[x])
        /\ task'[x].at = "completing" =>
              /\ x \in Live
              /\ task[x].at = "completing" \/ message[EventOf(x)].delivery = "sent"

QuietRows ==
    \A e \in Rows' : outbox'[e].status = "delivered" =>
        e \in Rows /\ outbox[e].status = "delivered"

\* A dispatch moves on, or some of them end.
LEMMA MovesFit ==
    ASSUME TaskInv, ReturnInv, NEW x \in Live, NEW r, task' = [task EXCEPT ![x] = r], Fit(r),
           r.at = "completing" => \/ task[x].at = "completing"
                                  \/ message[EventOf(x)].delivery = "sent"
    PROVE  TasksMoved
<1>1. Live' = Live /\ task'[x] = r /\ \A y \in Live \ {x} : task'[y] = task[y]
  BY DEF TaskInv, TypeTask, Live
<1> QED
  BY <1>1 DEF ReturnInv, TasksMoved

LEMMA EndsFit ==
    ASSUME ReturnInv, NEW T \in SUBSET Live, task' = [y \in T |-> task[y]]
    PROVE  TasksMoved
<1>1. Live' = T /\ \A y \in T : task'[y] = task[y]
  BY DEF Live
<1> QED
  BY <1>1 DEF ReturnInv, TasksMoved

LEMMA GotoFits ==
    ASSUME TaskInv, ReturnInv, NEW x \in Live, NEW s, Goto(x, s),
           task[x].at \notin {"completing", "failing"}, s \notin {"completing", "failing"}
    PROVE  TasksMoved
<1> DEFINE r == [task[x] EXCEPT !.at = s]
<1>1. task[x] \in Task /\ Fit(task[x])
  BY DEF TaskInv, TypeTask, ReturnInv
<1>2. r.at = s /\ r.batch = task[x].batch /\ r.checked = task[x].checked
  BY <1>1 DEF Task
<1>3. task' = [task EXCEPT ![x] = r]
  BY DEF Goto, TaskInv, TypeTask
<1>4. Fit(r)
  BY <1>1, <1>2 DEF Fit
<1> HIDE DEF r
<1> QED
  BY <1>2, <1>3, <1>4, MovesFit

LEMMA CompletionFits ==
    ASSUME TaskInv, ReturnInv, NEW x \in Live, CompletionFails(x) \/ Finish(x)
    PROVE  TasksMoved
<1>1. CASE Finish(x)
  BY <1>1, EndsFit DEF Finish
<1>2. CASE task' = [task EXCEPT ![x].at = "failing", ![x].outcome = "retryable",
                                ![x].batch = {}, ![x].checked = FALSE]
  <2> DEFINE r == [task[x] EXCEPT !.at = "failing", !.outcome = "retryable",
                                  !.batch = {}, !.checked = FALSE]
  <2>1. task[x] \in Task
    BY DEF TaskInv, TypeTask
  <2>2. r.at = "failing" /\ r.outcome = "retryable" /\ r.batch = {} /\ r.checked = FALSE
    BY <2>1 DEF Task
  <2>3. task' = [task EXCEPT ![x] = r]
    BY <1>2 DEF TaskInv, TypeTask
  <2>4. Fit(r)
    BY <2>2 DEF Fit
  <2> HIDE DEF r
  <2> QED
    BY <2>2, <2>3, <2>4, MovesFit
<1> QED
  BY <1>1, <1>2 DEF CompletionFails

LEMMA DispatchFits ==
    ASSUME TaskInv, ReturnInv, NEW x \in Live
    PROVE  (\/ Accept(x) \/ AcceptLate(x) \/ AcceptRefused(x) \/ AcceptFails(x)
            \/ Reject(x) \/ RejectThrows(x) \/ CheckCompletion(x)
            \/ CompletionRefused(x) \/ CompletionFaults(x) \/ WriteCompletion(x)
            \/ \E o \in {"retryable", "terminal"} : Fail(x, o)) => TasksMoved
<1>0. task[x] \in Task /\ Fit(task[x]) /\ task \in [Live -> Task]
  BY DEF TaskInv, TypeTask, ReturnInv
<1>1. CASE Accept(x) \/ AcceptLate(x) \/ AcceptRefused(x) \/ AcceptFails(x)
  BY <1>1, GotoFits DEF Accept, AcceptLate, AcceptRefused, AcceptFails
<1>2. CASE Reject(x)
  BY <1>2, CompletionFits DEF Reject
<1>3. CASE RejectThrows(x)
  BY <1>3, EndsFit DEF RejectThrows
<1>4. CASE CheckCompletion(x)
  <2> DEFINE r == [task[x] EXCEPT !.checked = TRUE]
  <2>1. /\ task' = [task EXCEPT ![x] = r] /\ task[x].at \in {"completing", "failing"}
    BY <1>0, <1>4 DEF CheckCompletion
  <2>2. r.at = task[x].at /\ r.outcome = task[x].outcome /\ r.batch = task[x].batch
    BY <1>0 DEF Task
  <2>3. Fit(r)
    BY <1>0, <2>1, <2>2 DEF Fit
  <2> HIDE DEF r
  <2> QED
    BY <2>1, <2>2, <2>3, MovesFit
<1>5. CASE CompletionRefused(x) \/ CompletionFaults(x) \/ WriteCompletion(x)
  BY <1>5, CompletionFits DEF CompletionRefused, CompletionFaults, WriteCompletion
<1>6. ASSUME NEW o \in {"retryable", "terminal"}, Fail(x, o) PROVE TasksMoved
  <2> DEFINE r == [task[x] EXCEPT !.at = "failing", !.outcome = o]
  <2>1. task' = [task EXCEPT ![x] = r] /\ task[x].at = "executing"
    BY <1>0, <1>6 DEF Fail
  <2>2. /\ r.at = "failing" /\ r.outcome = o /\ r.batch = task[x].batch
        /\ r.checked = task[x].checked
    BY <1>0 DEF Task
  <2>3. Fit(r)
    BY <1>0, <2>1, <2>2 DEF Fit
  <2> HIDE DEF r
  <2> QED
    BY <2>2, <2>1, <2>3, MovesFit
<1> QED
  BY <1>1, <1>2, <1>3, <1>4, <1>5, <1>6

\* execute() returns when its call did, and the call when the message was sent.
LEMMA ReturnFits ==
    ASSUME PipelineInv, DP!ShownInv, ReturnInv, NEW x \in Live, x \in DOMAIN call,
           ReturnDelivered(x)
    PROVE  TasksMoved
<1> DEFINE r == [task[x] EXCEPT !.at = "completing", !.batch = {}]
<1>0. task[x] \in Task /\ Fit(task[x]) /\ task \in [Live -> Task] /\ TaskInv
  BY DEF PipelineInv, OutboxInv, TaskInv, TypeTask, ReturnInv
<1>1. task' = [task EXCEPT ![x] = r] /\ task[x].at = "executing"
  <2>1. Succeed(x) /\ DOMAIN checkpoint = {}
    BY DEF ReturnDelivered, ReturnInv
  <2>2. task' = [task EXCEPT ![x].at = "completing", ![x].batch = {}]
    BY <2>1 DEF Succeed
  <2> QED
    BY <1>0, <2>1, <2>2 DEF Succeed
<1>2. r.at = "completing" /\ r.batch = {} /\ r.checked = task[x].checked
  BY <1>0 DEF Task
<1>3. Fit(r)
  BY <1>0, <1>1, <1>2 DEF Fit
<1>4. message[EventOf(x)].delivery = "sent"
  BY DEF ReturnDelivered, PipelineInv, CallsLinked, DP!ShownInv, DP!Calls, DP!MessageOf
<1> HIDE DEF r
<1> QED
  BY <1>0, <1>1, <1>3, <1>4, MovesFit

LEMMA ClaimFits ==
    ASSUME OutboxInv, ReturnInv, NEW w \in Worker, Claim(w)
    PROVE  TasksMoved /\ QuietRows /\ UNCHANGED checkpoint
<1>1. PICK S \in SUBSET Candidate :
        \E id \in [S -> Execution \ DOMAIN execution] :
           (\A e, f \in S : id[e] = id[f] => e = f) /\ ClaimBatch(w, id)
  BY DEF Claim
<1>2. PICK id \in [S -> Execution \ DOMAIN execution] : ClaimBatch(w, id)
  BY <1>1
<1> DEFINE new == {id[e] : e \in DOMAIN id}
           eventFor(x) == CHOOSE e \in DOMAIN id : id[e] = x
           audit(x) == [event |-> eventFor(x), status |-> "claimed",
                        attempt |-> outbox[eventFor(x)].attempts + 1]
           swept(y) == [execution[y] EXCEPT !.status = SweptStatus(y)]
           start(x) == [worker |-> w, at |-> "claimed", outcome |-> "succeeded",
                        batch |-> {}, checked |-> FALSE,
                        generation |-> outbox[eventFor(x)].generation]
<1>3. /\ outbox' = [e \in Rows |-> IF e \in DOMAIN id THEN Claimed(outbox[e], id[e])
                                   ELSE IF Exhausted(e) THEN Bury(outbox[e])
                                   ELSE outbox[e]]
      /\ execution' = [x \in DOMAIN execution \cup new |->
                         IF x \in new THEN audit(x) ELSE swept(x)]
      /\ task' = [x \in Live \cup new |-> IF x \in new THEN start(x) ELSE task[x]]
  BY <1>2 DEF ClaimBatch, Claimed
<1>4. \A x : Fit(start(x)) /\ start(x).at = "claimed"
  BY DEF Fit
<1>5. \A e \in Rows : /\ Bury(outbox[e]).status = "dead"
                      /\ \A x : Claimed(outbox[e], x).status = "processing"
  BY DEF OutboxInv, DataInv, TypeData, Row, Bury, Claimed
<1>8. UNCHANGED checkpoint
  BY <1>2 DEF ClaimBatch
<1> HIDE DEF new, start, eventFor, audit, swept
<1>6. TasksMoved
  BY <1>3, <1>4 DEF TasksMoved, ReturnInv, Live
<1>7. QuietRows
  BY <1>3, <1>5 DEF QuietRows, Rows
<1> QED
  BY <1>6, <1>7, <1>8

LEMMA QuietRow ==
    ASSUME TypeData, NEW e \in Rows, NEW row, SetRow(e, row),
           row.status = "delivered" => outbox[e].status = "delivered"
    PROVE  QuietRows
<1>1. Rows' = Rows /\ outbox'[e] = row /\ \A f \in Rows \ {e} : outbox'[f] = outbox[f]
  BY DEF TypeData, SetRow, Rows
<1> QED
  BY <1>1 DEF QuietRows

\* Time and acceptance keep the status of a row; nothing else of these delivers one.
LEMMA StepsAreQuiet ==
    ASSUME OutboxInv
    PROVE  /\ UNCHANGED outbox => QuietRows
           /\ \A e \in Rows : TimePasses(e) \/ ReconcileNotSent(e) => QuietRows
           /\ \A x \in Live : AcceptRow(x) \/ Reject(x) => QuietRows
<1>0. TypeData /\ \A x \in Live : EventOf(x) \in Rows
  BY DEF OutboxInv, DataInv, TaskInv, TypeTask, ExecutedRowExists
<1>1. \A e \in Rows :
         /\ Renewed(outbox[e]).status = outbox[e].status
         /\ Lapsed(outbox[e]).status = outbox[e].status
         /\ DueNow(outbox[e]).status = outbox[e].status
         /\ Older(outbox[e]).status = outbox[e].status
         /\ Bury(outbox[e]).status = "dead" /\ GiveBack(outbox[e]).status = "pending"
  BY <1>0 DEF TypeData, Row, Renewed, Lapsed, DueNow, Older, Bury, GiveBack
<1>2. CASE UNCHANGED outbox
  BY <1>2 DEF QuietRows, Rows
<1>3. ASSUME NEW e \in Rows, TimePasses(e) PROVE QuietRows
  <2>1. \/ SetRow(e, Lapsed(outbox[e])) \/ SetRow(e, DueNow(outbox[e]))
        \/ SetRow(e, Older(outbox[e]))
    BY <1>3 DEF TimePasses, Lapse, BecomeDue, GrowOld, Lapsed, DueNow, Older
  <2> QED
    BY <1>0, <1>1, <2>1, QuietRow
<1>4. ASSUME NEW e \in Rows, ReconcileNotSent(e) PROVE QuietRows
  <2>1. SetRow(e, Reopened(outbox[e])) /\ outbox[e] \in Row
    BY <1>0, <1>4 DEF ReconcileNotSent, Reopened, TypeData
  <2>2. GiveBack(outbox[e]) \in Row /\ GiveBack(outbox[e]).status = "pending"
    BY <2>1, RowUpdates
  <2>3. Reopened(outbox[e]).status = "pending"
    BY <2>2, FreshRow DEF Reopened
  <2> QED
    BY <1>0, <2>1, <2>3, QuietRow
<1>5. ASSUME NEW x \in Live, AcceptRow(x) PROVE QuietRows
  <2>1. SetRow(EventOf(x), Renewed(outbox[EventOf(x)]))
    BY <1>5 DEF AcceptRow, Renewed
  <2> QED
    BY <1>0, <1>1, <2>1, QuietRow
<1>6. ASSUME NEW x \in Live, Reject(x) PROVE QuietRows
  <2>1. \/ UNCHANGED outbox
        \/ SetRow(EventOf(x), Bury(outbox[EventOf(x)]))
        \/ SetRow(EventOf(x), GiveBack(outbox[EventOf(x)]))
    BY <1>6 DEF Reject
  <2> QED
    BY <1>0, <1>1, <1>2, <2>1, QuietRow
<1> QED
  BY <1>2, <1>3, <1>4, <1>5, <1>6

\* The row that a completion delivers is its own, and the completion is a success.
LEMMA WriteDelivers ==
    ASSUME OutboxInv, ReturnInv, NEW x \in Live, WriteCompletion(x)
    PROVE  \A e \in Rows' : outbox'[e].status = "delivered" =>
              /\ e \in Rows
              /\ \/ outbox[e].status = "delivered"
                 \/ e = EventOf(x) /\ task[x].at = "completing"
<1>0. /\ x \in DOMAIN execution /\ EventOf(x) \in Rows /\ outbox[EventOf(x)] \in Row
      /\ execution[x] \in AuditRow /\ task[x] \in Task /\ Fit(task[x]) /\ task[x].checked
  <2>1. task[x].checked
    BY DEF WriteCompletion
  <2>2. x \in DOMAIN execution /\ task[x] \in Task /\ Fit(task[x])
    BY DEF OutboxInv, TaskInv, TypeTask, ReturnInv
  <2> QED
    BY <2>1, <2>2 DEF OutboxInv, DataInv, ExecutedRowExists, TypeData
<1>1. Absorbable(x) = {}
  BY <1>0 DEF Absorbable, Fit
<1>2. outbox' = [f \in Rows |-> IF f = EventOf(x) THEN Completed(outbox[EventOf(x)], x)
                                ELSE outbox[f]]
  BY <1>1 DEF WriteCompletion
<1>3. Completed(outbox[EventOf(x)], x).status = "delivered" => task[x].outcome = "succeeded"
  <2> DEFINE row == outbox[EventOf(x)]
             closed == [row EXCEPT !.attempts = execution[x].attempt,
                                   !.locked = FALSE, !.lapsed = FALSE]
             failed == [closed EXCEPT !.status = "dead"]
  <2>1. closed \in Row
    BY <1>0 DEF Row, AuditRow
  <2>2. task[x].outcome # "succeeded" =>
           Completed(row, x) \in {failed, Bury(closed), GiveBack(closed)}
    BY <1>0 DEF Completed, Task, Outcome
  <2> HIDE DEF closed
  <2>3. failed.status = "dead" /\ Bury(closed).status = "dead"
        /\ GiveBack(closed).status = "pending"
    BY <2>1 DEF Row, Bury, GiveBack
  <2> HIDE DEF failed
  <2> QED
    BY <2>2, <2>3
<1>4. task[x].outcome = "succeeded" => task[x].at = "completing"
  BY <1>0 DEF Fit
<1> QED
  BY <1>2, <1>3, <1>4 DEF Rows

-----------------------------------------------------------------------------

\* A step whose tasks are fit and whose deliveries are of sent messages.
LEMMA ReturnsKept ==
    ASSUME PipelineInv, ReturnInv, DP!SentKept, EventsKept, TasksMoved, UNCHANGED checkpoint,
           \A e \in Rows' : outbox'[e].status = "delivered" =>
              \/ e \in Rows /\ outbox[e].status = "delivered"
              \/ message'[e].delivery = "sent"
    PROVE  ReturnInv'
<1>0. DOMAIN message = Rows
  BY DEF PipelineInv, Linked
<1>1. ASSUME NEW x \in Live', task'[x].at = "completing"
      PROVE  message'[EventOf(x)'].delivery = "sent"
  <2>1. x \in Live /\ message[EventOf(x)].delivery = "sent"
    BY <1>1 DEF TasksMoved, ReturnInv
  <2>2. x \in DOMAIN execution /\ EventOf(x) \in Rows
    BY <2>1 DEF PipelineInv, OutboxInv, TaskInv, TypeTask, DataInv, ExecutedRowExists
  <2>3. EventOf(x)' = EventOf(x)
    BY <2>2 DEF EventsKept
  <2> QED
    BY <1>0, <2>1, <2>2, <2>3 DEF DP!SentKept
<1>2. ASSUME NEW e \in Rows', outbox'[e].status = "delivered"
      PROVE  message'[e].delivery = "sent"
  BY <1>0, <1>2 DEF ReturnInv, DP!SentKept
<1>3. (\A x \in Live : Fit(task[x]))'
  BY DEF TasksMoved
<1>4. (DOMAIN checkpoint = {})'
  BY DEF ReturnInv
<1> QED
  BY <1>1, <1>2, <1>3, <1>4 DEF ReturnInv

LEMMA NextReturns ==
    PipelineInv /\ DP!ShownInv /\ ReturnInv /\ [DNext]_deliveryVars => ReturnInv'
<1> SUFFICES ASSUME PipelineInv, DP!ShownInv, ReturnInv, [DNext]_deliveryVars
             PROVE  ReturnInv'
  OBVIOUS
<1>1. OutboxInv /\ TaskInv /\ Together
  BY PipelineStep DEF PipelineInv, OutboxInv
<1>2. EventsKept /\ DP!SentKept
  <2>1. [DP!Next]_(DP!dispatchVars) /\ [Next]_outboxVars
    BY <1>1 DEF Together, dispatchVars, DP!dispatchVars
  <2> QED
    BY <1>1, <2>1, NextEvents, DispatchConstants, DP!NextKeepsSent
       DEF PipelineInv, DP!DeliveryInv
<1>3. ASSUME TasksMoved, QuietRows, UNCHANGED checkpoint PROVE ReturnInv'
  BY <1>2, <1>3, ReturnsKept DEF QuietRows
<1>4. ASSUME UNCHANGED task PROVE TasksMoved
  BY <1>4 DEF TasksMoved, ReturnInv, Live
<1>5. CASE UNCHANGED <<outbox, task, checkpoint>>
  BY <1>1, <1>3, <1>4, <1>5, StepsAreQuiet
<1>6. ASSUME NEW e \in Event, NEW c \in Conversation, NEW n \in 1..MaxSequence,
             Request(e, c, n)
      PROVE  ReturnInv'
  <2>1. QuietRows
    BY <1>6 DEF Request, Enqueue, QuietRows, Rows
  <2> QED
    BY <1>3, <1>4, <1>6, <2>1 DEF Request, Enqueue
<1>7. ASSUME NEW x \in Live, Execute(x) PROVE ReturnInv'
  <2>1. CASE StartDelivery(x) \/ (x \in DOMAIN call /\ ContinueDelivery(x))
    BY <1>5, <2>1 DEF StartDelivery, ContinueDelivery, outboxVars
  <2>2. CASE x \in DOMAIN call /\ ReturnDelivered(x)
    BY <1>1, <1>3, <2>2, ReturnFits, StepsAreQuiet DEF ReturnDelivered, Succeed
  <2>3. ASSUME NEW o \in {"retryable", "terminal"}, Throw(x, o) PROVE ReturnInv'
    BY <1>1, <1>3, <2>3, DispatchFits, StepsAreQuiet DEF Throw, Fail
  <2>4. CASE Check(x)
    BY <1>1, <1>3, <2>4, DispatchFits, StepsAreQuiet DEF Check, CheckCompletion
  <2>5. CASE RefuseUnpersisted(x)
    BY <1>1, <1>3, <2>5, CompletionFits, StepsAreQuiet DEF RefuseUnpersisted
  <2>6. CASE Write(x)
    <3>0. WriteCompletion(x)
      BY <2>6 DEF Write
    <3>1. WriteCompletion(x) /\ TasksMoved /\ UNCHANGED checkpoint
      <4>1. UNCHANGED checkpoint
        BY <3>0 DEF WriteCompletion
      <4> QED
        BY <1>1, <3>0, <4>1, DispatchFits
    <3>2. ASSUME NEW e \in Rows', outbox'[e].status = "delivered"
          PROVE  \/ e \in Rows /\ outbox[e].status = "delivered"
                 \/ message'[e].delivery = "sent"
      <4>1. /\ e \in Rows
            /\ outbox[e].status = "delivered" \/ message[e].delivery = "sent"
        BY <1>1, <3>1, <3>2, WriteDelivers DEF ReturnInv
      <4> QED
        BY <1>2, <4>1 DEF DP!SentKept, PipelineInv, Linked
    <3> QED
      BY <1>2, <3>1, <3>2, ReturnsKept
  <2> QED
    BY <1>7, <2>1, <2>2, <2>3, <2>4, <2>5, <2>6 DEF Execute
<1>8. ASSUME NEW e \in Rows, Settle(e) PROVE ReturnInv'
  <2>1. CASE ReconcileNotSent(e)
    <3>1. UNCHANGED <<task, checkpoint>>
      BY <2>1 DEF ReconcileNotSent
    <3> QED
      BY <1>1, <1>3, <1>4, <2>1, <3>1, StepsAreQuiet
  <2>2. ASSUME NEW id \in DOMAIN call, ReconcileSent(e), D!ConfirmSent(e, id)
        PROVE  ReturnInv'
    <3>1. DP!ConfirmSent(e, id) /\ message[e] \in DP!MessageRow /\ e \in DOMAIN message
      BY <2>2, SameRequest DEF PipelineInv, Linked, DP!TypeOK
    <3>2. message'[e].delivery = "sent"
      BY <3>1 DEF DP!ConfirmSent, DP!Confirmable, DP!PersistedSent, DP!MarkSent,
                  DP!MessageRow, DP!Current
    <3>3. Rows' = Rows /\ \A f \in Rows \ {e} : outbox'[f] = outbox[f]
      BY <2>2 DEF ReconcileSent, SetRow, Rows
    <3>4. UNCHANGED <<task, checkpoint>>
      BY <2>2 DEF ReconcileSent
    <3> QED
      BY <1>2, <1>4, <3>2, <3>3, <3>4, ReturnsKept
  <2> QED
    BY <1>8, <2>1, <2>2 DEF Settle
<1>9. ASSUME NEW w \in Worker, Die(w) PROVE ReturnInv'
  <2>1. /\ task' = [x \in {y \in Live : task[y].worker # w} |-> task[x]]
        /\ UNCHANGED <<outbox, checkpoint>>
    BY <1>9 DEF Die, Crash
  <2> QED
    BY <1>1, <1>3, <2>1, EndsFit, StepsAreQuiet
<1>10. CASE Housekeeping
  <2>1. ASSUME NEW w \in Worker, Claim(w) PROVE ReturnInv'
    BY <1>1, <1>3, <2>1, ClaimFits
  <2>2. ASSUME NEW e \in Rows, TimePasses(e) PROVE ReturnInv'
    <3>1. UNCHANGED <<task, checkpoint>>
      BY <2>2 DEF TimePasses
    <3> QED
      BY <1>1, <1>3, <1>4, <2>2, <3>1, StepsAreQuiet
  <2>3. ASSUME NEW x \in Live,
               \/ Accept(x) \/ AcceptLate(x) \/ AcceptRefused(x) \/ AcceptFails(x)
               \/ Reject(x) \/ RejectThrows(x) \/ CompletionRefused(x) \/ CompletionFaults(x)
        PROVE  ReturnInv'
    <3>1. TasksMoved
      BY <1>1, <2>3, DispatchFits
    <3>2. UNCHANGED outbox \/ AcceptRow(x) \/ Reject(x)
      BY <2>3 DEF Accept, AcceptLate, AcceptRefused, AcceptFails, RejectThrows,
           CompletionRefused, CompletionFaults
    <3>3. UNCHANGED checkpoint
      BY <2>3 DEF Accept, AcceptLate, AcceptRefused, AcceptFails, Reject, RejectThrows,
           CompletionRefused, CompletionFaults
    <3> QED
      BY <1>1, <1>3, <3>1, <3>2, <3>3, StepsAreQuiet
  <2> QED
    BY <1>10, <2>1, <2>2, <2>3 DEF Housekeeping
<1>11. CASE UNCHANGED outboxVars
  BY <1>5, <1>11 DEF outboxVars
<1> QED
  BY <1>6, <1>7, <1>8, <1>9, <1>10, <1>11 DEF DNext, Surroundings, deliveryVars

\* End to end: an event leaves the queue as delivered only when its message is shown as
\* sent, and was received, whether its execution or an operator delivered it.
THEOREM DeliveredIsReceived == DSpec => []DeliveredWasReceived
<1>1. DInit => ReturnInv
  BY DEF DInit, Init, ReturnInv, Live, Rows
<1>2. DP!Spec => []DP!ShownInv
  BY DispatchConstants, DP!SpecShownInv
<1>3. PipelineInv /\ ReturnInv => DeliveredWasReceived
  <2> SUFFICES ASSUME PipelineInv, ReturnInv, NEW e \in Rows, outbox[e].status = "delivered"
               PROVE  message[e].delivery = "sent" /\ D!Copies(e) # {}
    BY DEF DeliveredWasReceived
  <2>1. message[e].delivery = "sent" /\ e \in DOMAIN message
    BY DEF ReturnInv, PipelineInv, Linked
  <2>2. DP!Copies(e) # {}
    BY <2>1 DEF PipelineInv, DP!DeliveryInv, DP!SentIsTrue
  <2> QED
    BY <2>1, <2>2 DEF D!Copies, DP!Copies, D!Calls, DP!Calls, D!MessageOf, DP!MessageOf
<1> QED
  BY <1>1, <1>2, <1>3, NextReturns, SpecPipeline, PTL DEF DSpec

-----------------------------------------------------------------------------
(* An outcome nobody knows can be settled *)

\* Of one consumer whose tick awaits it, a dispatch holds its event until it failed, and
\* works on the generation that the event has.
LiveHolds ==
    \A x \in Live : task[x].at # "failing" =>
        Holds(x) /\ task[x].generation = outbox[EventOf(x)].generation

\* A call under way is that of a dispatch that executes, on the attempt in use.
RunsLive ==
    \A c \in DOMAIN call : call[c].at \in DP!Running =>
        /\ c \in Live /\ task[c].at = "executing"
        /\ call[c].key = DP!Current(call[c].key[1])

SettleInv == LiveHolds /\ RunsLive /\ DP!OutcomesAreOpen

\* What a step leaves of the row of a dispatch that has not failed.
HeldRow(y) ==
    /\ outbox'[EventOf(y)].status = "processing"
    /\ outbox'[EventOf(y)].execution = y
    /\ outbox'[EventOf(y)].generation = outbox[EventOf(y)].generation

LEMMA LiveKept ==
    ASSUME OutboxInv, LiveHolds, EventsKept, HandedKept,
           \A y \in Live' : task'[y].at # "failing" =>
              y \in Live /\ task[y].at # "failing" /\ HeldRow(y)
    PROVE  LiveHolds'
<1> SUFFICES ASSUME NEW y \in Live', task'[y].at # "failing"
             PROVE  Holds(y)' /\ task'[y].generation = outbox'[EventOf(y)'].generation
  BY DEF LiveHolds
<1>1. y \in Live /\ task[y].at # "failing" /\ HeldRow(y) /\ y \in DOMAIN execution
  BY DEF OutboxInv, TaskInv, TypeTask
<1>2. EventOf(y)' = EventOf(y)
  BY <1>1 DEF EventsKept
<1>3. task'[y].generation = outbox[EventOf(y)].generation
  BY <1>1, <1>2 DEF HandedKept, LiveHolds
<1> QED
  BY <1>1, <1>2, <1>3 DEF HeldRow, Holds

LEMMA RunningFacts ==
    ASSUME PipelineInv, LiveHolds, RunsLive, NEW c \in DOMAIN call, call[c].at \in DP!Running
    PROVE  /\ c \in Live /\ task[c].at = "executing" /\ Holds(c)
           /\ EventOf(c) \in Rows /\ EventOf(c) \in DOMAIN message
           /\ call[c].key[1] = EventOf(c)
<1>1. c \in Live /\ task[c].at = "executing" /\ Holds(c)
  BY DEF RunsLive, LiveHolds
<1>2. c \in DOMAIN execution /\ call[c].key[1] = EventOf(c)
  BY DEF PipelineInv, CallsLinked
<1> QED
  BY <1>1, <1>2 DEF PipelineInv, OutboxInv, DataInv, ExecutedRowExists, Linked

LEMMA RunsKept ==
    ASSUME RunsLive,
           \A c \in DOMAIN call' : call'[c].at \in DP!Running =>
              /\ c \in DOMAIN call /\ call[c].at \in DP!Running /\ call'[c].key = call[c].key
              /\ c \in Live' /\ task'[c].at = "executing"
              /\ message'[call[c].key[1]].current = message[call[c].key[1]].current
    PROVE  RunsLive'
BY DEF RunsLive, DP!Current

\* No two calls of a message run.
LEMMA RunsAlone ==
    ASSUME PipelineInv, LiveHolds, RunsLive, NEW c \in DOMAIN call, call[c].at \in DP!Running
    PROVE  DP!OnlyRunning(c, DP!MessageOf(c))
<1> SUFFICES ASSUME NEW d \in DOMAIN call, call[d].at \in DP!Running,
                    call[d].key[1] = call[c].key[1]
             PROVE  d = c
  BY DEF DP!OnlyRunning, DP!MessageOf, DP!Calls, DP!Running, DP!Running
<1> QED
  BY RunningFacts DEF Holds

\* A step of one dispatch that is not executing, or whose call is over.
LEMMA OneMoves ==
    ASSUME PipelineInv, LiveHolds, RunsLive, NEW x \in Live, UNCHANGED call,
           GenerationsKept, EventsKept, HandedKept,
           Live' \subseteq Live, Live \subseteq Live' \cup {x},
           \A y \in Live' \ {x} : task'[y] = task[y],
           \A f \in Rows \ {EventOf(x)} : outbox'[f] = outbox[f],
           Holds(x) \/ UNCHANGED outbox,
           x \in Live' /\ task'[x].at # "failing" => task[x].at # "failing" /\ HeldRow(x),
           x \in DOMAIN call /\ call[x].at \in DP!Running => task[x].at # "executing",
           \A m \in DOMAIN message : message'[m].current = message[m].current
    PROVE  LiveHolds' /\ RunsLive'
<1>1. ASSUME NEW y \in Live', task'[y].at # "failing", y # x
      PROVE  y \in Live /\ task[y].at # "failing" /\ HeldRow(y)
  <2>1. y \in Live /\ task[y].at # "failing" /\ Holds(y)
    BY <1>1 DEF LiveHolds
  <2>2. EventOf(y) \in Rows
    BY <2>1 DEF PipelineInv, OutboxInv, TaskInv, TypeTask, DataInv, ExecutedRowExists
  <2>3. outbox'[EventOf(y)] = outbox[EventOf(y)]
    BY <1>1, <2>1, <2>2 DEF Holds
  <2> QED
    BY <2>1, <2>3 DEF HeldRow, Holds
<1>2. LiveHolds'
  BY <1>1, LiveKept DEF PipelineInv
<1>3. ASSUME NEW c \in DOMAIN call', call'[c].at \in DP!Running
      PROVE  /\ c \in DOMAIN call /\ call[c].at \in DP!Running /\ call'[c].key = call[c].key
             /\ c \in Live' /\ task'[c].at = "executing"
             /\ message'[call[c].key[1]].current = message[call[c].key[1]].current
  <2>1. /\ c \in DOMAIN call /\ call[c].at \in DP!Running
        /\ c \in Live /\ task[c].at = "executing" /\ call[c].key[1] \in DOMAIN message
    BY <1>3, RunningFacts
  <2>2. c # x
    BY <2>1
  <2> QED
    BY <2>1, <2>2
<1> QED
  BY <1>2, <1>3, RunsKept

\* What acceptance, rejection, failure and completion do to the tasks and to the row.
LEMMA TasksOfStep ==
    ASSUME PipelineInv, ReturnInv, CheckedHolds, NEW x \in Live,
           \/ Accept(x) \/ AcceptLate(x) \/ AcceptRefused(x) \/ AcceptFails(x)
           \/ Reject(x) \/ RejectThrows(x) \/ CheckCompletion(x)
           \/ CompletionRefused(x) \/ CompletionFaults(x) \/ WriteCompletion(x)
           \/ Succeed(x) \/ \E o \in {"retryable", "terminal"} : Fail(x, o)
    PROVE  /\ Live' \subseteq Live /\ Live \subseteq Live' \cup {x}
           /\ \A y \in Live' \ {x} : task'[y] = task[y]
           /\ \A f \in Rows \ {EventOf(x)} : outbox'[f] = outbox[f]
           /\ Holds(x) \/ UNCHANGED outbox
           /\ x \in Live' /\ task'[x].at # "failing" =>
                task[x].at # "failing" /\ (UNCHANGED outbox \/ AcceptRow(x))
<1>0. /\ task[x] \in Task /\ Fit(task[x]) /\ task \in [Live -> Task]
      /\ outbox \in [Rows -> Row] /\ TaskInv
  BY DEF PipelineInv, OutboxInv, DataInv, TypeData, TaskInv, TypeTask, ReturnInv
<1>1. ASSUME NEW s, Goto(x, s)
      PROVE  /\ Live' = Live /\ \A y \in Live' \ {x} : task'[y] = task[y]
  BY <1>0, <1>1 DEF Goto, Live
<1>2. ASSUME AcceptRow(x)
      PROVE  \A f \in Rows \ {EventOf(x)} : outbox'[f] = outbox[f]
  BY <1>2 DEF AcceptRow, SetRow, Rows
<1>3. CASE Accept(x) \/ AcceptLate(x) \/ AcceptRefused(x) \/ AcceptFails(x)
  BY <1>1, <1>2, <1>3 DEF Accept, AcceptLate, AcceptRefused, AcceptFails, HoldsLock
<1>4. ASSUME Finish(x)
      PROVE  Live' = Live \ {x} /\ \A y \in Live' \ {x} : task'[y] = task[y]
  BY <1>4 DEF Finish, Live
<1>5. CASE Reject(x)
  <2>1. Finish(x) /\ (HoldsLock(x) \/ UNCHANGED outbox)
    BY <1>5 DEF Reject
  <2>2. \A f \in Rows \ {EventOf(x)} : outbox'[f] = outbox[f]
    BY <1>5 DEF Reject, SetRow, Rows
  <2> QED
    BY <1>4, <2>1, <2>2 DEF HoldsLock
<1>6. CASE RejectThrows(x)
  BY <1>6 DEF RejectThrows, Live
<1>7. ASSUME CompletionFails(x)
      PROVE  /\ Live' \subseteq Live /\ Live \subseteq Live' \cup {x}
             /\ \A y \in Live' \ {x} : task'[y] = task[y]
             /\ x \in Live' => task'[x].at = "failing"
  <2>1. CASE Finish(x)
    BY <1>4, <2>1
  <2>2. CASE task' = [task EXCEPT ![x].at = "failing", ![x].outcome = "retryable",
                                  ![x].batch = {}, ![x].checked = FALSE]
    BY <1>0, <2>2 DEF Live, Task
  <2> QED
    BY <1>7, <2>1, <2>2 DEF CompletionFails
<1>8. CASE CompletionRefused(x) \/ CompletionFaults(x)
  BY <1>7, <1>8 DEF CompletionRefused, CompletionFaults
<1>9. CASE WriteCompletion(x)
  <2>1. Absorbable(x) = {} /\ Holds(x)
    BY <1>0, <1>9 DEF WriteCompletion, Absorbable, Fit, CheckedHolds
  <2>2. \A f \in Rows \ {EventOf(x)} : outbox'[f] = outbox[f]
    BY <1>9, <2>1 DEF WriteCompletion
  <2>3. Finish(x) \/ CompletionFails(x)
    BY <1>9 DEF WriteCompletion
  <2> QED
    BY <1>4, <1>7, <2>1, <2>2, <2>3
<1>10. CASE \/ CheckCompletion(x) \/ Succeed(x)
            \/ \E o \in {"retryable", "terminal"} : Fail(x, o)
  <2>1. \E r : task' = [task EXCEPT ![x] = r]
    BY <1>0, <1>10 DEF CheckCompletion, Succeed, Fail
  <2>2. CheckCompletion(x) => task'[x].at = task[x].at
    BY <1>0 DEF CheckCompletion, Task
  <2>3. UNCHANGED outbox /\ (task[x].at # "failing" \/ CheckCompletion(x))
    BY <1>10 DEF CheckCompletion, Succeed, Fail
  <2> QED
    BY <1>0, <2>1, <2>2, <2>3 DEF Live
<1> QED
  BY <1>3, <1>5, <1>6, <1>8, <1>9, <1>10

LEMMA StepsHold ==
    ASSUME PipelineInv, ReturnInv, CheckedHolds, LiveHolds, RunsLive, NEW x \in Live,
           UNCHANGED call, \A m \in DOMAIN message : message'[m].current = message[m].current,
           \/ Accept(x) \/ AcceptLate(x) \/ AcceptRefused(x) \/ AcceptFails(x)
           \/ Reject(x) \/ RejectThrows(x) \/ CheckCompletion(x)
           \/ CompletionRefused(x) \/ CompletionFaults(x) \/ WriteCompletion(x)
           \/ /\ Succeed(x) \/ \E o \in {"retryable", "terminal"} : Fail(x, o)
              /\ x \in DOMAIN call => call[x].at \notin DP!Running
    PROVE  LiveHolds' /\ RunsLive'
<1>0. /\ TaskInv /\ OutboxInv /\ EventOf(x) \in Rows /\ outbox[EventOf(x)] \in Row
      /\ outbox \in [Rows -> Row]
  BY DEF PipelineInv, OutboxInv, TaskInv, TypeTask, DataInv, TypeData, ExecutedRowExists
<1>1. GenerationsKept /\ EventsKept
  <2>1. CASE \/ Accept(x) \/ AcceptLate(x) \/ AcceptRefused(x) \/ AcceptFails(x)
             \/ Reject(x) \/ RejectThrows(x)
    BY <1>0, <2>1, DispatchGenerations
  <2>2. CASE WriteCompletion(x)
    BY <1>0, <2>2, WriteGenerations
  <2>3. CASE UNCHANGED <<outbox, execution>>
    BY <2>3 DEF GenerationsKept, EventsKept, Rows, EventOf
  <2> QED
    BY <2>1, <2>2, <2>3 DEF CheckCompletion, CompletionRefused, CompletionFaults, Succeed, Fail
<1>2. HandedKept
  BY <1>0, DispatchHanded
<1>3. x \in Live' /\ task'[x].at # "failing" => task[x].at # "failing" /\ HeldRow(x)
  <2> SUFFICES ASSUME x \in Live', task'[x].at # "failing"
               PROVE  task[x].at # "failing" /\ HeldRow(x)
    OBVIOUS
  <2>1. task[x].at # "failing" /\ Holds(x) /\ (UNCHANGED outbox \/ AcceptRow(x))
    BY TasksOfStep DEF LiveHolds
  <2>2. CASE AcceptRow(x)
    <3>1. outbox'[EventOf(x)] = Renewed(outbox[EventOf(x)])
      BY <1>0, <2>2 DEF AcceptRow, SetRow, Renewed
    <3>2. /\ Renewed(outbox[EventOf(x)]).status = outbox[EventOf(x)].status
          /\ Renewed(outbox[EventOf(x)]).execution = outbox[EventOf(x)].execution
          /\ Renewed(outbox[EventOf(x)]).generation = outbox[EventOf(x)].generation
      BY <1>0 DEF Renewed, Row
    <3> QED
      BY <2>1, <3>1, <3>2 DEF HeldRow, Holds
  <2> QED
    BY <2>1, <2>2 DEF HeldRow, Holds
<1>4. x \in DOMAIN call /\ call[x].at \in DP!Running => task[x].at # "executing"
  BY DEF Accept, AcceptLate, AcceptRefused, AcceptFails, Reject, RejectThrows,
     CheckCompletion, CompletionRefused, CompletionFaults, WriteCompletion, ReturnInv, Fit
<1> QED
  BY <1>1, <1>2, <1>3, <1>4, TasksOfStep, OneMoves

\* The tasks stay, and so do the rows that they hold.
LEMMA TasksStay ==
    ASSUME PipelineInv, LiveHolds, RunsLive, UNCHANGED <<task, execution, call>>,
           \A y \in Live : Holds(y) => HeldRow(y),
           \A m \in DOMAIN message :
              (\E y \in Live : Holds(y) /\ EventOf(y) = m)
                 => message'[m].current = message[m].current
    PROVE  LiveHolds' /\ RunsLive'
<1>1. EventsKept
  BY DEF EventsKept, EventOf
<1>2. HandedKept
  BY DEF HandedKept, Live
<1>3. LiveHolds'
  BY <1>1, <1>2, LiveKept DEF PipelineInv, LiveHolds, Live
<1>4. ASSUME NEW c \in DOMAIN call', call'[c].at \in DP!Running
      PROVE  /\ c \in DOMAIN call /\ call[c].at \in DP!Running /\ call'[c].key = call[c].key
             /\ c \in Live' /\ task'[c].at = "executing"
             /\ message'[call[c].key[1]].current = message[call[c].key[1]].current
  <2>1. /\ c \in DOMAIN call /\ call[c].at \in DP!Running
        /\ c \in Live /\ task[c].at = "executing" /\ Holds(c)
        /\ call[c].key[1] = EventOf(c) /\ EventOf(c) \in DOMAIN message
    BY <1>4, RunningFacts
  <2> QED
    BY <2>1 DEF Live
<1> QED
  BY <1>3, <1>4, RunsKept

LEMMA TimeHolds ==
    ASSUME PipelineInv, LiveHolds, RunsLive, NEW e \in Rows, TimePasses(e),
           UNCHANGED <<message, call>>
    PROVE  LiveHolds' /\ RunsLive'
<1>0. outbox[e] \in Row /\ outbox \in [Rows -> Row] /\ UNCHANGED <<task, execution>>
  BY DEF PipelineInv, OutboxInv, DataInv, TypeData, TimePasses
<1>1. PICK r : /\ outbox' = [outbox EXCEPT ![e] = r] /\ r.status = outbox[e].status
               /\ r.execution = outbox[e].execution /\ r.generation = outbox[e].generation
  <2>1. \/ SetRow(e, Lapsed(outbox[e])) \/ SetRow(e, DueNow(outbox[e]))
        \/ SetRow(e, Older(outbox[e]))
    BY DEF TimePasses, Lapse, BecomeDue, GrowOld, Lapsed, DueNow, Older
  <2>2. \A r \in {Lapsed(outbox[e]), DueNow(outbox[e]), Older(outbox[e])} :
           /\ r.status = outbox[e].status /\ r.execution = outbox[e].execution
           /\ r.generation = outbox[e].generation
    BY <1>0 DEF Lapsed, DueNow, Older, Row
  <2> QED
    BY <2>1, <2>2 DEF SetRow
<1>2. \A f \in Rows : /\ outbox'[f].status = outbox[f].status
                      /\ outbox'[f].execution = outbox[f].execution
                      /\ outbox'[f].generation = outbox[f].generation
  BY <1>0, <1>1
<1>3. \A y \in Live : EventOf(y) \in Rows
  BY DEF PipelineInv, OutboxInv, TaskInv, TypeTask, DataInv, ExecutedRowExists
<1> QED
  BY <1>0, <1>2, <1>3, TasksStay DEF Holds, HeldRow

LEMMA SettleHolds ==
    ASSUME PipelineInv, LiveHolds, RunsLive, NEW e \in Rows, Settle(e)
    PROVE  /\ LiveHolds' /\ RunsLive'
           /\ \A d \in DOMAIN call : call[d].at \in DP!Running => call[d].key[1] # e
<1>1. outbox[e].status = "dead" /\ UNCHANGED <<task, execution, call>>
  <2>1. outbox[e].status = "dead" /\ UNCHANGED <<task, execution>>
    BY DEF Settle, ReconcileSent, ReconcileNotSent, Reconcilable
  <2>2. UNCHANGED call
    BY DEF Settle, D!ConfirmSent, D!Confirmable, D!ConfirmNotSent
  <2> QED
    BY <2>1, <2>2
<1>2. \A f \in Rows \ {e} : outbox'[f] = outbox[f]
  BY DEF Settle, ReconcileSent, ReconcileNotSent, SetRow, Rows
<1>3. \A y \in Live : EventOf(y) \in Rows
  BY DEF PipelineInv, OutboxInv, TaskInv, TypeTask, DataInv, ExecutedRowExists
<1>4. \A y \in Live : Holds(y) => EventOf(y) # e /\ HeldRow(y)
  BY <1>1, <1>2, <1>3 DEF Holds, HeldRow
<1>5. \A m \in DOMAIN message : m # e => message'[m] = message[m]
  <2>1. CASE D!ConfirmNotSent(e)
    BY <2>1 DEF D!ConfirmNotSent
  <2>2. CASE \E id \in DOMAIN call : D!ConfirmSent(e, id)
    BY <2>2 DEF D!ConfirmSent, D!Confirmable, D!MarkSent, D!Current
  <2> QED
    BY <2>1, <2>2 DEF Settle
<1>6. ASSUME NEW d \in DOMAIN call, call[d].at \in DP!Running PROVE call[d].key[1] # e
  BY <1>4, <1>6, RunningFacts
<1> QED
  BY <1>1, <1>4, <1>5, <1>6, TasksStay

\* A tick that has ended leaves nothing running.
LEMMA ClaimHolds ==
    ASSUME PipelineInv, LiveHolds, RunsLive, Awaited, NEW w, Worker = {w}, Claim(w),
           UNCHANGED <<message, call>>
    PROVE  LiveHolds' /\ RunsLive'
<1>1. PICK S \in SUBSET Candidate :
        \E id \in [S -> Execution \ DOMAIN execution] :
           (\A e, f \in S : id[e] = id[f] => e = f) /\ ClaimBatch(w, id)
  BY DEF Claim
<1>2. PICK id \in [S -> Execution \ DOMAIN execution] :
        (\A e, f \in S : id[e] = id[f] => e = f) /\ ClaimBatch(w, id)
  BY <1>1
<1>3. Live = {}
  BY <1>2 DEF ClaimBatch, Awaited, PipelineInv, OutboxInv, TaskInv, TypeTask, Task
<1>4. RunsLive'
  <2>1. \A c \in DOMAIN call : call[c].at \notin DP!Running
    BY <1>3 DEF RunsLive
  <2> QED
    BY <2>1, RunsKept
<1> DEFINE new == {id[e] : e \in DOMAIN id}
           eventFor(x) == CHOOSE e \in DOMAIN id : id[e] = x
           audit(x) == [event |-> eventFor(x), status |-> "claimed",
                        attempt |-> outbox[eventFor(x)].attempts + 1]
           swept(y) == [execution[y] EXCEPT !.status = SweptStatus(y)]
           start(x) == [worker |-> w, at |-> "claimed", outcome |-> "succeeded",
                        batch |-> {}, checked |-> FALSE,
                        generation |-> outbox[eventFor(x)].generation]
<1>5. /\ \A e \in DOMAIN id : e \in Rows /\ outbox'[e] = Claimed(outbox[e], id[e])
      /\ execution' = [x \in DOMAIN execution \cup new |->
                         IF x \in new THEN audit(x) ELSE swept(x)]
      /\ task' = [x \in Live \cup new |-> IF x \in new THEN start(x) ELSE task[x]]
  BY <1>2 DEF ClaimBatch, Claimed, Candidate
<1>6. \A x : audit(x).event = eventFor(x)
             /\ start(x).generation = outbox[eventFor(x)].generation
  OBVIOUS
<1>7. \A x \in new : eventFor(x) \in DOMAIN id /\ id[eventFor(x)] = x
  OBVIOUS
<1>8. \A e \in DOMAIN id : /\ Claimed(outbox[e], id[e]).status = "processing"
                           /\ Claimed(outbox[e], id[e]).execution = id[e]
                           /\ Claimed(outbox[e], id[e]).generation = outbox[e].generation
  <2>1. \A e \in DOMAIN id : outbox[e] \in Row
    BY <1>5 DEF PipelineInv, OutboxInv, DataInv, TypeData
  <2>2. \A r \in Row : \A x : /\ Claimed(r, x).status = "processing"
                             /\ Claimed(r, x).execution = x
                             /\ Claimed(r, x).generation = r.generation
    BY DEF Claimed, Row
  <2> QED
    BY <2>1, <2>2
<1> HIDE DEF new, eventFor, audit, swept, start
<1>9. ASSUME NEW x \in Live'
      PROVE  Holds(x)' /\ task'[x].generation = outbox'[EventOf(x)'].generation
  <2>1. x \in new /\ EventOf(x)' = eventFor(x)
        /\ task'[x].generation = outbox[eventFor(x)].generation
    BY <1>3, <1>5, <1>6 DEF EventOf, Live
  <2> QED
    BY <1>5, <1>7, <1>8, <2>1 DEF Holds
<1> QED
  BY <1>4, <1>9 DEF LiveHolds

LEMMA DieHolds ==
    ASSUME PipelineInv, LiveHolds, RunsLive, NEW w \in Worker, Die(w)
    PROVE  LiveHolds' /\ RunsLive' /\ UNCHANGED <<message, attempt>>
<1> DEFINE C == {x \in Live \cap DOMAIN call :
                   task[x].worker = w /\ call[x].at \in D!Running}
           L == {y \in Live : task[y].worker # w}
<1>1. task' = [x \in L |-> task[x]] /\ UNCHANGED <<outbox, execution>>
  BY DEF Die, Crash
<1>2. Live' = L /\ \A y \in L : task'[y] = task[y]
  BY <1>1 DEF Live
<1>3. DP!Running = D!Running
  BY DEF DP!Running, D!Running
<1>4. /\ UNCHANGED <<message, attempt>> /\ DOMAIN call' = DOMAIN call
      /\ \A c \in DOMAIN call : call'[c] = IF c \in C THEN [call[c] EXCEPT !.at = "crashed"]
                                            ELSE call[c]
  <2>1. CASE C = {} /\ UNCHANGED dispatchVars
    BY <2>1 DEF dispatchVars
  <2>2. CASE D!Crash(C)
    BY <2>2 DEF D!Crash, D!Calls
  <2> HIDE DEF C
  <2> QED
    BY <2>1, <2>2 DEF Die, C
<1>5. \A c \in C : call'[c].at = "crashed"
  <2>1. \A c \in C : call[c] \in DP!Call
    BY DEF PipelineInv, DP!TypeOK, DP!Calls
  <2> QED
    BY <1>4, <2>1 DEF DP!Call
<1>6. LiveHolds'
  <2>1. EventsKept
    BY <1>1 DEF EventsKept, EventOf
  <2>2. HandedKept
    BY <1>1, EndHanded
  <2> QED
    BY <1>1, <1>2, <2>1, <2>2, LiveKept DEF PipelineInv, LiveHolds, Holds, HeldRow
<1>7. ASSUME NEW c \in DOMAIN call', call'[c].at \in DP!Running
      PROVE  /\ c \in DOMAIN call /\ call[c].at \in DP!Running /\ call'[c].key = call[c].key
             /\ c \in Live' /\ task'[c].at = "executing"
             /\ message'[call[c].key[1]].current = message[call[c].key[1]].current
  <2>1. c \in DOMAIN call /\ c \notin C /\ call'[c] = call[c]
    BY <1>4, <1>5, <1>7 DEF DP!Running
  <2>2. c \in Live /\ task[c].at = "executing" /\ c \in L
    BY <1>3, <1>7, <2>1 DEF RunsLive
  <2> QED
    BY <1>2, <1>4, <1>7, <2>1, <2>2
<1> QED
  BY <1>4, <1>6, <1>7, RunsKept

\* The queue stays, and the calls that run are those that ran, of the same attempts.
LEMMA QueueStays ==
    ASSUME PipelineInv, LiveHolds, RunsLive, UNCHANGED outboxVars,
           \A m \in DOMAIN message : message'[m].current = message[m].current,
           \A c \in DOMAIN call' : call'[c].at \in DP!Running =>
              \/ /\ c \in DOMAIN call /\ call[c].at \in DP!Running
                 /\ call'[c].key = call[c].key
              \/ c \in Live /\ task[c].at = "executing" /\ call'[c].key = AttemptOf(c)
    PROVE  LiveHolds' /\ RunsLive'
<1>1. LiveHolds'
  BY DEF LiveHolds, outboxVars, Live, Holds, EventOf
<1>2. ASSUME NEW c \in DOMAIN call', call'[c].at \in DP!Running
      PROVE  /\ c \in Live' /\ task'[c].at = "executing"
             /\ call'[c].key = <<call'[c].key[1], message'[call'[c].key[1]].current>>
  <2>1. CASE /\ c \in DOMAIN call /\ call[c].at \in DP!Running
             /\ call'[c].key = call[c].key
    <3>1. /\ c \in Live /\ task[c].at = "executing" /\ call[c].key[1] \in DOMAIN message
          /\ call[c].key = <<call[c].key[1], message[call[c].key[1]].current>>
      BY <2>1, RunningFacts DEF RunsLive, DP!Current
    <3> QED
      BY <2>1, <3>1 DEF outboxVars, Live
  <2>2. CASE c \in Live /\ task[c].at = "executing" /\ call'[c].key = AttemptOf(c)
    <3>1. EventOf(c) \in Rows
      BY <2>2 DEF PipelineInv, OutboxInv, TaskInv, TypeTask, DataInv, ExecutedRowExists
    <3>2. /\ EventOf(c) \in DOMAIN message
          /\ message[EventOf(c)].current = outbox[EventOf(c)].generation + 1
          /\ task[c].generation = outbox[EventOf(c)].generation
      BY <2>2, <3>1 DEF LiveHolds, PipelineInv, Linked
    <3>3. call'[c].key = <<EventOf(c), message'[EventOf(c)].current>>
      BY <2>2, <3>2 DEF AttemptOf
    <3> QED
      BY <2>2, <3>3 DEF outboxVars, Live
  <2> QED
    BY <1>2, <2>1, <2>2
<1> QED
  BY <1>1, <1>2 DEF RunsLive, DP!Current

LEMMA DeliveryHolds ==
    ASSUME PipelineInv, SettleInv,
           \/ \E x \in Live : StartDelivery(x) \/ (x \in DOMAIN call /\ ContinueDelivery(x))
           \/ Surroundings
    PROVE  SettleInv'
<1>0. /\ UNCHANGED outboxVars /\ DP!TypeOK /\ DP!AttemptInv /\ DP!OutcomesAreOpen
      /\ LiveHolds /\ RunsLive
  BY DEF StartDelivery, ContinueDelivery, Surroundings, SettleInv, PipelineInv, DP!DeliveryInv
<1>1. ASSUME NEW x \in Live, StartDelivery(x) PROVE SettleInv'
  <2>1. DP!Begin(x, AttemptOf(x)) /\ task[x].at = "executing"
    BY <1>1, SameRequest DEF StartDelivery
  <2>2. DP!OutcomesAreOpen'
    <3>1. x \in Execution /\ AttemptOf(x) \in DOMAIN attempt
      BY DEF PipelineInv, OutboxInv, TaskInv, TypeTask, DataInv, TypeData, Linked
    <3> QED
      BY <1>0, <2>1, <3>1, DispatchConstants, DP!OutsideKeepsOpen
  <2>3. /\ UNCHANGED message /\ call'[x].key = AttemptOf(x)
        /\ \A c \in DOMAIN call' \ {x} : c \in DOMAIN call /\ call'[c] = call[c]
    <3>1. call' = [d \in DOMAIN call \cup {x} |->
                     IF d = x THEN [key |-> AttemptOf(x), at |-> "claiming", request |-> "none"]
                     ELSE call[d]]
      BY <2>1 DEF DP!Begin, DP!Calls
    <3>2. UNCHANGED message
      BY <2>1 DEF DP!Begin
    <3> QED
      BY <3>1, <3>2
  <2> QED
    BY <1>0, <2>1, <2>2, <2>3, QueueStays DEF SettleInv
<1>2. ASSUME NEW x \in DOMAIN call, ContinueDelivery(x) PROVE SettleInv'
  <2>1. DP!Deliver(x)
    BY <1>2, SameDeliver DEF ContinueDelivery
  <2>2. call[x].at \in DP!Running
    BY <2>1 DEF DP!Deliver, DP!ClaimRead, DP!ClaimWrite, DP!ClaimFails, DP!RefuseToSend,
       DP!Post, DP!Confirmed, DP!Ambiguous, DP!MarkUnknown, DP!MarkFails, DP!RecordRefusal,
       DP!Refusing, DP!RecordSent, DP!Recording, DP!RecordThrows, DP!GiveUp, DP!Running
  <2>3. DP!OnlyRunning(x, DP!MessageOf(x)) /\ DP!KeyOf(x) = DP!Current(DP!MessageOf(x))
    BY <1>0, <2>2, RunsAlone DEF RunsLive, DP!KeyOf, DP!MessageOf
  <2>4. DP!OutcomesAreOpen'
    BY <1>0, <2>1, <2>3, DispatchConstants, DP!DeliverKeepsOpen DEF DP!Calls
  <2>5. /\ \A m \in DOMAIN message : message'[m].current = message[m].current
        /\ DOMAIN call' = DOMAIN call
    <3>1. DP!RowsMoved
      BY <2>1, DispatchConstants, DP!DeliverRows DEF PipelineInv, DP!DeliveryInv, DP!Calls
    <3>2. DOMAIN call' = DOMAIN call
      BY <2>1 DEF DP!Deliver, DP!ClaimRead, DP!ClaimWrite, DP!ClaimFails, DP!RefuseToSend,
         DP!Post, DP!Confirmed, DP!Ambiguous, DP!MarkUnknown, DP!MarkFails,
         DP!RecordRefusal, DP!RecordSent, DP!RecordThrows, DP!GiveUp, DP!Goto
    <3> QED
      BY <3>1, <3>2 DEF DP!RowsMoved
  <2>6. /\ \A c \in DOMAIN call : call'[c].key = call[c].key
        /\ \A c \in DOMAIN call \ {x} : call'[c] = call[c]
    <3>1. DP!Next
      BY <2>1 DEF DP!Next, DP!Calls
    <3>2. \A c \in DOMAIN call \ {x} : call'[c] = call[c]
      BY <2>1 DEF DP!Deliver, DP!ClaimRead, DP!ClaimWrite, DP!ClaimFails, DP!RefuseToSend,
         DP!Post, DP!Confirmed, DP!Ambiguous, DP!MarkUnknown, DP!MarkFails,
         DP!RecordRefusal, DP!RecordSent, DP!RecordThrows, DP!GiveUp, DP!Goto
    <3> QED
      BY <1>0, <3>1, <3>2, KeysKept
  <2> QED
    BY <1>0, <2>2, <2>4, <2>5, <2>6, QueueStays DEF SettleInv
<1>3. CASE Surroundings
  <2>1. \/ \E c \in DOMAIN call : DP!Transmit(c) \/ DP!Echo(c)
        \/ \E k \in DOMAIN attempt : DP!Lapse(k)
    BY <1>3, SameProvider DEF Surroundings
  <2>2. DP!OutcomesAreOpen'
    BY <1>0, <2>1, DispatchConstants, DP!OutsideKeepsOpen DEF DP!Calls
  <2>3. /\ UNCHANGED message /\ DOMAIN call' = DOMAIN call
        /\ \A c \in DOMAIN call : call'[c].at = call[c].at /\ call'[c].key = call[c].key
    <3>1. CASE \E c \in DOMAIN call : DP!Transmit(c)
      <4>1. PICK c \in DOMAIN call : DP!Transmit(c)
        BY <3>1
      <4>2. call[c] \in DP!Call
        BY <1>0 DEF DP!TypeOK, DP!Calls
      <4> QED
        BY <4>1, <4>2 DEF DP!Transmit, DP!Call
    <3>2. CASE UNCHANGED <<message, call>>
      BY <3>2
    <3> QED
      BY <2>1, <3>1, <3>2 DEF DP!Echo, DP!Lapse
  <2> QED
    BY <1>0, <2>2, <2>3, QueueStays DEF SettleInv
<1> QED
  BY <1>1, <1>2, <1>3 DEF Surroundings

LEMMA RequestHolds ==
    ASSUME PipelineInv, SettleInv, NEW e \in Event, NEW c \in Conversation,
           NEW n \in 1..MaxSequence, Request(e, c, n)
    PROVE  SettleInv'
<1>0. /\ Enqueue(e, c, n, <<"outbound", "none">>) /\ DP!Create(e) /\ DP!TypeOK
      /\ LiveHolds /\ RunsLive /\ DP!OutcomesAreOpen
  BY SameRequest DEF Request, SettleInv, PipelineInv
<1>1. DP!OutcomesAreOpen'
  BY <1>0, DispatchConstants, DP!OutsideKeepsOpen
<1>2. /\ \A f \in Rows : outbox'[f] = outbox[f]
      /\ UNCHANGED <<task, execution, call>>
      /\ \A m \in DOMAIN message : message'[m] = message[m]
  BY <1>0 DEF Enqueue, DP!Create, Rows
<1>3. \A y \in Live : EventOf(y) \in Rows
  BY DEF PipelineInv, OutboxInv, TaskInv, TypeTask, DataInv, ExecutedRowExists
<1> QED
  BY <1>0, <1>1, <1>2, <1>3, TasksStay DEF SettleInv, Holds, HeldRow

\* The event dies, and its undispatched message with it: no call of it runs.
LEMMA WriteHolds ==
    ASSUME PipelineInv, ReturnInv, CheckedHolds, SettleInv, NEW x \in Live, Write(x)
    PROVE  SettleInv'
<1> DEFINE k == AttemptOf(x)
<1>0. /\ WriteCompletion(x) /\ task[x].checked /\ Holds(x) /\ Fit(task[x])
      /\ LiveHolds /\ RunsLive /\ DP!OutcomesAreOpen /\ DP!TypeOK /\ DP!AttemptInv
      /\ k \in DOMAIN attempt /\ k[1] = EventOf(x) /\ k[1] \in DOMAIN message
  BY DEF Write, WriteCompletion, CheckedHolds, ReturnInv, SettleInv, PipelineInv,
     DP!DeliveryInv, DP!TypeOK, Linked, AttemptOf
<1>1. CASE UNCHANGED dispatchVars
  <2>1. DP!OutcomesAreOpen'
    BY <1>0, <1>1 DEF DP!OutcomesAreOpen, dispatchVars, DP!OpenEnded, DP!Calls, DP!KeyOf,
       DP!MessageOf
  <2> QED
    BY <1>0, <1>1, <2>1, StepsHold DEF SettleInv, dispatchVars
<1>2. CASE D!FailUndispatched(k)
  <2>1. DP!FailUndispatched(k)
    BY <1>2, SameProvider
  <2>2. ASSUME NEW d \in DOMAIN call, call[d].at \in DP!Running PROVE call[d].key[1] # k[1]
    BY <1>0, <2>2, RunningFacts DEF Holds, Fit
  <2>3. DP!OutcomesAreOpen'
    BY <1>0, <2>1, <2>2, DispatchConstants, DP!SettleKeepsOpen DEF DP!Calls, DP!MessageOf
  <2>4. UNCHANGED call /\ \A m \in DOMAIN message : message'[m].current = message[m].current
    <3>1. DP!RowsMoved
      BY <1>0, <2>1, DispatchConstants, DP!OutsideRows DEF PipelineInv
    <3> QED
      BY <2>1, <3>1 DEF DP!FailUndispatched, DP!RowsMoved
  <2> QED
    BY <1>0, <2>3, <2>4, StepsHold DEF SettleInv
<1> QED
  BY <1>1, <1>2 DEF Write

LEMMA NextSettles ==
    ASSUME PipelineInv, ReturnInv, CheckedHolds, SettleInv, Awaited, NEW w, Worker = {w},
           [DNext]_deliveryVars
    PROVE  SettleInv'
<1>0. LiveHolds /\ RunsLive /\ DP!OutcomesAreOpen /\ DP!TypeOK /\ DP!AttemptInv
  BY DEF SettleInv, PipelineInv, DP!DeliveryInv
<1>1. ASSUME UNCHANGED dispatchVars
      PROVE  /\ DP!OutcomesAreOpen' /\ UNCHANGED <<message, call>>
             /\ \A m \in DOMAIN message : message'[m].current = message[m].current
  BY <1>0, <1>1 DEF DP!OutcomesAreOpen, dispatchVars, DP!OpenEnded, DP!Calls, DP!KeyOf,
     DP!MessageOf
<1>2. ASSUME NEW x \in Live, Execute(x) PROVE SettleInv'
  <2>1. CASE StartDelivery(x) \/ (x \in DOMAIN call /\ ContinueDelivery(x))
    BY <2>1, DeliveryHolds
  <2>2. CASE x \in DOMAIN call /\ ReturnDelivered(x)
    <3>1. Succeed(x) /\ call[x].at \notin DP!Running /\ UNCHANGED dispatchVars
      BY <2>2 DEF ReturnDelivered, DP!Running
    <3> QED
      BY <1>0, <1>1, <3>1, StepsHold DEF SettleInv
  <2>3. ASSUME NEW o \in {"retryable", "terminal"}, Throw(x, o) PROVE SettleInv'
    <3>1. /\ Fail(x, o) /\ UNCHANGED dispatchVars
          /\ x \in DOMAIN call => call[x].at \notin DP!Running
      BY <2>3 DEF Throw, DP!Running
    <3> QED
      BY <1>0, <1>1, <3>1, StepsHold DEF SettleInv
  <2>4. CASE Check(x)
    BY <1>0, <1>1, <2>4, StepsHold DEF SettleInv, Check
  <2>5. CASE RefuseUnpersisted(x)
    <3>1. CompletionFaults(x) /\ UNCHANGED dispatchVars
      BY <2>5 DEF RefuseUnpersisted, CompletionFaults
    <3> QED
      BY <1>0, <1>1, <3>1, StepsHold DEF SettleInv
  <2> QED
    BY <1>2, <2>1, <2>2, <2>3, <2>4, <2>5, WriteHolds DEF Execute
<1>3. ASSUME NEW e \in Rows, Settle(e) PROVE SettleInv'
  <2>1. /\ LiveHolds' /\ RunsLive'
        /\ \A d \in DOMAIN call : call[d].at \in DP!Running => call[d].key[1] # e
    BY <1>0, <1>3, SettleHolds
  <2>2. \/ \E id \in DOMAIN call : DP!ConfirmSent(e, id)
        \/ DP!ConfirmNotSent(e)
    BY <1>3, SameRequest DEF Settle
  <2>3. e \in DOMAIN message
    BY DEF PipelineInv, Linked
  <2>4. DP!OutcomesAreOpen'
    BY <1>0, <2>1, <2>2, <2>3, DispatchConstants, DP!SettleKeepsOpen DEF DP!Calls, DP!MessageOf
  <2> QED
    BY <2>1, <2>4 DEF SettleInv
<1>4. CASE Housekeeping
  <2>0. UNCHANGED dispatchVars
    BY <1>4 DEF Housekeeping
  <2>1. ASSUME NEW v \in Worker, Claim(v) PROVE SettleInv'
    BY <1>0, <1>1, <2>0, <2>1, ClaimHolds DEF SettleInv
  <2>2. ASSUME NEW e \in Rows, TimePasses(e) PROVE SettleInv'
    BY <1>0, <1>1, <2>0, <2>2, TimeHolds DEF SettleInv
  <2>3. ASSUME NEW x \in Live,
               \/ Accept(x) \/ AcceptLate(x) \/ AcceptRefused(x) \/ AcceptFails(x)
               \/ Reject(x) \/ RejectThrows(x) \/ CompletionRefused(x) \/ CompletionFaults(x)
        PROVE  SettleInv'
    BY <1>0, <1>1, <2>0, <2>3, StepsHold DEF SettleInv
  <2> QED
    BY <1>4, <2>1, <2>2, <2>3 DEF Housekeeping
<1>5. ASSUME NEW v \in Worker, Die(v) PROVE SettleInv'
  <2>1. LiveHolds' /\ RunsLive' /\ UNCHANGED <<message, attempt>>
    BY <1>0, <1>5, DieHolds
  <2>2. [DP!Next]_(DP!dispatchVars)
    BY PipelineStep DEF Together, dispatchVars, DP!dispatchVars
  <2>3. DP!CallsMoved
    BY <1>0, <2>2, DispatchConstants, DP!NextMoved
  <2> QED
    BY <1>0, <2>1, <2>3, DispatchConstants, DP!StillOpen DEF SettleInv
<1>6. CASE UNCHANGED deliveryVars
  <2>1. UNCHANGED outboxVars /\ UNCHANGED dispatchVars
    BY <1>6 DEF deliveryVars
  <2>2. LiveHolds' /\ RunsLive'
    BY <1>0, <2>1, QueueStays DEF dispatchVars
  <2> QED
    BY <1>1, <2>1, <2>2 DEF SettleInv
<1> QED
  BY <1>2, <1>3, <1>4, <1>5, <1>6, RequestHolds, DeliveryHolds DEF DNext

LEMMA InitSettles == DInit => ReturnInv /\ SettleInv
BY DEF DInit, Init, D!Init, ReturnInv, SettleInv, LiveHolds, RunsLive, DP!OutcomesAreOpen,
       DP!Calls, Live, Rows

\* Of a dead event no call runs: none holds the advisory lock, and none is about to make
\* a request.
LEMMA DeadHasNoCall ==
    ASSUME PipelineInv, SettleInv, NEW e \in DOMAIN message, Reconcilable(e)
    PROVE  /\ D!Unlocked(D!Current(e))
           /\ \A c \in DOMAIN call : call[c].key[1] = e => call[c].at # "sending"
<1>1. \A c \in DOMAIN call : call[c].key[1] = e => call[c].at \notin DP!Running
  BY RunningFacts DEF SettleInv, Reconcilable, Holds
<1>2. {"reserving", "sending"} \subseteq DP!Running
  BY DEF DP!Running
<1> QED
  BY <1>1, <1>2 DEF D!Unlocked, D!Calls, D!KeyOf, D!Current

LEMMA SameSettling ==
    ASSUME NEW e, NEW k
    PROVE  /\ D!Copies(e) = DP!Copies(e) /\ D!Current(e) = DP!Current(e)
           /\ D!Awaiting(k) <=> DP!Awaiting(k)
BY DEF D!Copies, DP!Copies, D!Calls, DP!Calls, D!MessageOf, DP!MessageOf, D!Current,
       DP!Current, D!Awaiting, DP!Awaiting

\* The rows that an outcome nobody knows leaves.
LEMMA OpenRows ==
    ASSUME PipelineInv, SettleInv, DP!ProviderInv, NEW e \in DOMAIN message,
           D!Awaiting(D!Current(e))
    PROVE  /\ attempt[D!Current(e)].status = "pending"
           /\ attempt[D!Current(e)].provider = NoExecution
           /\ message[e].delivery \in {"pending", "sent"}
           /\ message[e].provider \in D!Copies(e) \cup {NoExecution}
           /\ message[e].delivery = "sent" => D!Copies(e) # {}
<1> DEFINE k == D!Current(e)
<1>1. k \in DOMAIN attempt /\ k[1] = e
  BY DEF PipelineInv, DP!TypeOK, D!Current, DP!Current
<1>2. attempt[k].dispatch \in {"unknown", "leased"}
  BY DEF D!Awaiting
<1>3. attempt[k].status = "pending" /\ message[e].delivery \in {"pending", "sent"}
  BY <1>1, <1>2 DEF SettleInv, DP!OutcomesAreOpen, DP!OpenEnded
<1>4. attempt[k].provider = NoExecution
  BY <1>1, <1>2 DEF DP!ProviderInv, DP!AttemptsProvided, DP!Provided
<1>5. message[e].provider \in D!Copies(e) \cup {NoExecution}
  BY SameSettling DEF DP!ProviderInv, DP!MessagesProvided
<1>6. message[e].delivery = "sent" => D!Copies(e) # {}
  BY SameSettling DEF PipelineInv, DP!DeliveryInv, DP!SentIsTrue
<1> QED
  BY <1>3, <1>4, <1>5, <1>6

LEMMA OpenCanBeSettled ==
    PipelineInv /\ SettleInv /\ DP!ProviderInv /\ DP!NoDuplicate => OutcomeCanBeSettled
<1> SUFFICES ASSUME PipelineInv, SettleInv, DP!ProviderInv, DP!NoDuplicate,
                    NEW e \in DOMAIN message,
                    Reconcilable(e), D!Awaiting(D!Current(e)), D!Landed(D!Current(e))
             PROVE  /\ D!Unlocked(D!Current(e))
                    /\ \/ \E id \in D!Copies(e) : D!Confirmable(e, id)
                       \/ D!NeverSent(D!Current(e)) /\ D!Reopenable(D!Current(e))
                       \/ D!Copies(e) # {} /\ D!Copies(e) \subseteq external
  BY DEF OutcomeCanBeSettled
<1>1. /\ attempt[D!Current(e)].status = "pending"
      /\ attempt[D!Current(e)].provider = NoExecution
      /\ message[e].delivery \in {"pending", "sent"}
      /\ message[e].provider \in D!Copies(e) \cup {NoExecution}
      /\ message[e].delivery = "sent" => D!Copies(e) # {}
  BY OpenRows
<1>2. D!Current(e)[1] = e /\ D!Current(e) \in DOMAIN attempt
  BY DEF D!Current, PipelineInv, DP!TypeOK, DP!Current
<1>3. CASE D!Copies(e) = {}
  <2>1. message[e].delivery = "pending" /\ message[e].provider = NoExecution
    BY <1>1, <1>3
  <2>2. D!Reopenable(D!Current(e))
    BY <1>1, <1>2, <2>1 DEF D!Reopenable
  <2>3. D!NeverSent(D!Current(e))
    <3> SUFFICES ASSUME NEW c \in DOMAIN call, call[c].key = D!Current(e)
                 PROVE  call[c].at # "sending" /\ call[c].request \in {"none", "lost"}
      BY DEF D!NeverSent, D!Calls, D!KeyOf
    <3>1. call[c].at # "sending"
      BY <1>2, DeadHasNoCall
    <3>2. call[c].request # "flying"
      BY DEF D!Landed, D!Calls, D!KeyOf
    <3>3. call[c].request # "arrived"
      BY <1>2, <1>3 DEF D!Copies, D!Calls, D!MessageOf
    <3>4. call[c].request \in {"none", "flying", "arrived", "lost"}
      BY DEF PipelineInv, DP!TypeOK, DP!Call, DP!Request, DP!Calls
    <3> QED
      BY <3>1, <3>2, <3>3, <3>4
  <2> QED
    BY <2>2, <2>3, DeadHasNoCall
<1>4. CASE D!Copies(e) # {}
  <2>1. \A c, d \in D!Copies(e) : c = d
    BY DEF DP!NoDuplicate, D!Copies, D!Calls, DP!Calls, D!MessageOf, DP!MessageOf
  <2>2. PICK c \in D!Copies(e) : D!Copies(e) = {c}
    BY <1>4, <2>1
  <2>3. c \notin external => D!Confirmable(e, c)
    BY <1>1, <2>2 DEF D!Confirmable
  <2> QED
    BY <2>2, <2>3, DeadHasNoCall
<1> QED
  BY <1>3, <1>4

\* Of one consumer whose ticks await what they claimed: a dead event whose request has
\* landed and whose answer is missing can be settled by the decision that is true of it,
\* unless the echo of its copy became a message of its own.
THEOREM OutcomesCanBeSettled ==
    ASSUME NEW w, Worker = {w}
    PROVE  DSpec /\ []Awaited => []OutcomeCanBeSettled
<1>1. DInit => OrderInv
  BY InitIsOrdered DEF DInit
<1>2. PipelineInv /\ PipelineInv' /\ OrderInv /\ Awaited /\ [DNext]_deliveryVars => OrderInv'
  BY PipelineStep, NextKeepsOrder DEF PipelineInv, Together
<1>3. /\ PipelineInv /\ DP!ShownInv /\ ReturnInv /\ OrderInv /\ SettleInv /\ Awaited
      /\ [DNext]_deliveryVars
      => SettleInv'
  BY NextSettles DEF OrderInv
<1>4. DP!Spec => []DP!ShownInv /\ []DP!ProviderInv /\ []DP!NoDuplicate
  BY DispatchConstants, DP!SpecShownInv, DP!SpecProviderInv, DP!OneCopy
<1> QED
  BY <1>1, <1>2, <1>3, <1>4, InitSettles, NextReturns, OpenCanBeSettled, SpecPipeline, PTL
     DEF DSpec

\* The same of a consumer that takes one event at a time, or serves one conversation.
THEOREM OneConsumerCanSettle ==
    ASSUME NEW w, Worker = {w}, BatchSize = 1 \/ \E c : Conversation = {c}
    PROVE  DSpec => []OutcomeCanBeSettled
<1>1. Init => OrderInv /\ AloneInv
  BY InitIsOrdered, InitIsAlone
<1>2. OutboxInv /\ OutboxInv' /\ OrderInv /\ AloneInv /\ [Next]_outboxVars
        => OrderInv' /\ AloneInv'
  BY NextKeepsOrder, NextIsAlone DEF AloneInv, Alone
<1>3. AloneInv => Awaited
  BY DEF AloneInv, Alone
<1> QED
  BY <1>1, <1>2, <1>3, OutboxIsAudited, SpecPipeline, OutcomesCanBeSettled, PTL DEF Spec
=============================================================================
