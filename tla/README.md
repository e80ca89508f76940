# Verification of the Lume Tenant API

TLA+ models of the part of the Lume Tenant API where a mistake costs most and a
test reaches least: how messages of WhatsApp customers are queued, answered and
sent, and how people, agents and workers change the same rows at the same time,
under retries, crashes, lapsed leases and late answers. TLC checks the models on
small instances; TLAPS checks the theorems for every value of the constants.
Paths of the source are relative to the repository: `src/` is its TypeScript,
`prisma/` its schema, `docs/` its documentation.

The API is a NestJS application with Prisma and PostgreSQL, one process per
tenant (`compose.prod.yml`), with an HTTP interface for the panel, webhooks of
the Evolution provider (WhatsApp) and background workers on timers. Shared state
is always the database; advisory locks, row versions and leases are the only
synchronisation, and what is safe depends on which of them a writer takes. That
is what most of the models are about.

Contents: 1 inventory, 2 modules, 3 how models correspond to the code, 4 runs,
5 properties, 6 disagreements with the documentation, 7 proofs, 8 what is only
model-checked, 9 what is not modelled, 10 running.

## 1. Inventory

Each entry: state, operations, what is hard, what makes it correct, and how far it
is modelled. `PROJECT.json` lists the same components with their files and what
each model leaves out, and under `hazards` the places where they can go wrong.

### Conversation with the customer

**Automation outbox and dispatcher** (modelled) — rows of `integration_outbox`
(status, attempts, execution, lock, lease, due time, sequence in the conversation)
and audit rows of `whatsapp_automation_executions`. Enqueue, claim (which also
sweeps lapsed executions and buries exhausted rows), accept, reject, execute,
complete (with the other events of a batch), reopen or settle by an operator.
Hard: claims and completions interleave, a process dies between any two steps,
the reply to a committed transaction is lost. Correct: order within a
conversation, a row in processing has an open audit, no event is answered twice,
every event ends delivered or dead.

**Evolution dispatch** (partly) — `whatsapp_messages`,
`whatsapp_message_attempts`. Claim a lease, send, record, declare unknown,
reconcile, webhook echo. Hard: an HTTP request cannot be undone and its outcome
may be unknown; the echo may overtake the answer and take the provider id, which is
unique. Correct: one request per attempt, one copy on the phone, true statuses.

**Outbound delivery** (modelled) — the two together, for the events that carry a
message. Correct: what the queue calls delivered was received, and an unknown
outcome can be settled by an operator unless the echo took its id.

**Inbound automation** (partly) — the conversation (version, state, step),
checkpoints, executed commands, replies. Hard: the retry of an event must be
replayed with the ids, plan and version of its first execution, while customers,
people and channel settings change the conversation. Correct: no answer twice,
none lost silently, none for a conversation that has moved on.

**Webhook intake** (partly) — deduplicates, persists, routes to automation or
people, creates the event. It has no module of its own: its echoes are in
`EvolutionDispatch`, its routing in `InboundAutomation`, its reception by a session
in `SessionLifecycle`.

**Service sessions** (partly) — the sessions of one thread, which is in
foreground, the facade the older panel shows, reminders and automatic closing.
Hard: commands, messages and timers write one thread under different locks, and a
message writes what it read; work that is not done keeps a session from closing.
Correct: one session in foreground, the facade agrees with it, a closing gives the
thread back, and nothing is closed under a customer who answered.

**Conversation transitions and human service** (partly) — who conducts a
conversation: the assistant or a person of a department. Hard: panels send the
versions they saw; the assistant asks on behalf of a person. Correct: conversation
and session agree on the conductor; the assistant asks only what was approved.

**Media interpretation** (partly) — a queue of assets with two kinds of writers.
Hard: the worker takes the oldest twenty, and what it cannot handle comes again.
Correct: an asset is interpreted once, and none that was retained is forgotten.

**Agent execution** (partly) — executions, tool calls and their audit. Hard: a
tool with effects repeated after a crash, two workers after a lapsed lease.
Correct: a tool acts once, the audit is true, the event is settled.

**WhatsApp channels** (partly) — channel rows and the instance at the provider,
in an order that differs by operation. Correct: a retired channel never returns.

### Sale and service

**Commercial quotes and proposals** (partly) — quotes, proposal documents sent
in batches, decisions, attestations, confirmed services. Hard: three writers do
not take the lock of the conversation. Correct: one open batch, a decision on
what was shown and sent, final decisions.

**Operational trips** and **Transport catalogue and workers** (partly) — trips
with plan and resources; contracts with four tables of periods; imports of trips
under a lease. Correct: one period in force, none outside its contract; a started
trip keeps its plan; corrections are analysed, imports end.

**Documents** (partly) — dossiers, versions sent, validations and reviews.
Correct: an item says what became of its current version; a decision stands.

### People and records

**Identity and access** (partly) — accounts, update commands, association with a
person. Correct: an administrator remains, a repeat is answered, a person is
associated once.

**Customer context and pre-admission** (partly) — suggestions about a customer,
decisions on them, the summary; links with rotating tokens. Correct: decided once,
memory never goes back, a retired token stays retired.

**Knowledge base** (partly) — documents, versions, publication, gaps. Correct: what
is published is not edited, gaps count what was observed.

**Registrations** and **Imports** (partly) — drafts of conversations, forms,
workbooks and their reconciliation; history backups by blocks; the older import
with its rollback. Hard: jobs, people and the clean-up replace the manifest of a
batch whole, and a lock of the process keeps people apart from each other only.
Correct: written as seen, promoted once, a batch whole or gone.

Not modelled: **Retention** (deletes by age), **Data exchange** (export jobs),
**Route planning and routing** (geometry and tariffs of external providers),
**Tenant, licence, configuration, health** (no state that several steps change).

### Interactions

Webhook → (conversation, session, outbox event: one transaction) → dispatcher →
`execute()` → transitions and a message with its attempt → dispatch → Evolution →
echo and receipts → message. The panel changes the same conversations and creates
messages whose event is `whatsapp.outbound.requested`; people settle unknown
outcomes. Agents read customer profiles, knowledge and media; quotes lead to
confirmed services, contracts and trips.

## 2. Modules

| Module | What it is |
|---|---|
| `AutomationOutbox` | the queue: rows, audit rows, the tick of the dispatcher and its executions |
| `EvolutionDispatch` | one message from creation to a settled outcome, with the HTTP request |
| `MessageDelivery` | abstract: what the delivery of messages promises |
| `OutboundDelivery` | composes queue and dispatch; the refinement of `MessageDelivery` by both |
| `InboundAutomation` | one conversation, its answers and the people who work on it |
| `ServicePriority` | the sessions of one thread and which is in foreground |
| `SessionLifecycle` | the session in foreground, from a question to reminder and closing |
| `AgentTurn` | executions, tool calls and decision of the agents for one event |
| `MediaInterpretation` | assets, the worker and the panel that have them interpreted |
| `AgentsAndMedia` | composes the two |
| `HumanConduct` | who conducts a conversation, silent agents, collections on approval |
| `KnowledgeBase`, `CustomerProfile`, `UserAccounts` | the rest of the work of an office |
| `Office` | composes the four; accounts twice, as people with roles and as users to be associated |
| `CommercialCycle` | quotes, documents, batches, decisions, confirmed services |
| `TransportCatalogue`, `OperationalTrip`, `TransportWorker` | contracts and periods, trips on them (EXTENDS), imports |
| `DocumentDossier`, `HistoryImport` | dossiers; the import of a history |
| `RegistrationRecords`, `ConversationRegistration`, `LegacyImport` | back office, registration in a conversation (EXTENDS), older import |
| `ChannelAdministration`, `PreAdmissionAccess` | channels; links before an admission |
| `..._proofs` | theorems and proofs, section 7 |
| `MC...` | values, symmetry, constraints and the composites that only TLC needs |

A composite whose parts share no row has a variable `part` that is chosen at the
start and never changes: one part runs and the others stay as they were. This says
what the code does (components that share nothing cannot disturb each other)
without multiplying their states, and `part = "x"` in a property restricts it to
one of them. Parts that do share rows are composed action by action
(`OutboundDelivery`) or extend each other (`OperationalTrip`).

Operators named `Bad...` are faulty variants of the operator they stand above, the
way a plausible bug would write it. Nothing uses them; replacing the operator by
its variant breaks the property that `PROJECT.json` pairs with it under `mutants`,
which shows that the property depends on that piece of code.

## 3. Models and code

Each module begins with what it models and leaves out; `PROJECT.json` maps every
definition to its lines. Three choices are common to all. A transaction is one
step where isolation and locks make it one, and is split where it writes what it
read without a lock, or reads before it takes one. A request of a person is a
step that may happen whenever the panel offers it, on what the panel showed last.
Time is what queries compare: a lease that lapsed, a date that is due.

### AutomationOutbox

| Model | Code |
|---|---|
| `outbox[e]` | a row of `integration_outbox`; `locked` and `lapsed` stand for `locked_at` / `execution_lease_until` against the clock, `due` for `available_at`, `age` for the collection window, `generation` for reopenings |
| `execution[x]`, `absorbed` | audit rows; of batch members the derived ones |
| `checkpoint[e]` | the batch decided by the first execution |
| `tick[w]`, `task[x]` | the running `tick()` of a process and where each `dispatch()` stands |
| `Enqueue` | `createOrderedOutbox` |
| `Claim` | `claim`: sweep, burial, choice of candidates and claim in one transaction |
| `Accept`, `AcceptLate`, `AcceptRefused`, `AcceptFails` | `markAccepted` and its early returns |
| `Reject`, `RejectThrows` | `rejectBeforeAcceptance`; its failure ends the tick |
| `Gather`, `Succeed`, `Fail` | the provider's `execute()` as the queue sees it |
| `CheckCompletion`, `WriteCompletion` | `completeOutboxExecution`: two steps, since it reads the row without a lock and writes it later by id |
| `CompletionFails`, `CompletionRefused`, `CompletionFaults` | its errors, and the reply lost after the commit |
| `ReconcileSent`, `ReconcileNotSent` | `reconcileAutomationOutbox` |
| `TimePasses`, `Crash` | the clock; the death of a process |

### EvolutionDispatch and OutboundDelivery

A *caller* is one call of `deliverPersistedMessage`; it makes at most one HTTP
request and stands for the provider id of that request. The claim is two steps
(`ClaimRead`, `ClaimWrite`) because `completeOutboxExecution` may change the
attempt in between. `Post`, `Transmit`, `Confirmed`, `Ambiguous` are the request,
its arrival at the phone and its answer: it may arrive and not be answered, or be
answered after the process died. `Crash(C)` kills any set of calls;
`FailUndispatched` is the clause of `completeOutboxExecution` for attempts never
claimed. An operator declares a message unsent only if it was (`NeverSent`): the
program cannot know better. The webhook may create a message with the provider id of
the call before its result is recorded; the unique key of the id then refuses the
result and the operator's *confirmed sent* alike (`ConfirmSent`).

`OutboundDelivery` identifies an event with its message and an execution with its
call. Each action conjoins one of the queue and one of the dispatch or frames one
of them: `StartDelivery`, `ContinueDelivery`, `ReturnDelivered`, `Throw`, the checks
of `completeOutboxExecution` against the persisted message, `Settle` for the
operator, `Die` for a process with its calls.

### InboundAutomation

The queue is what `AutomationOutbox` shows of it with one consumer, the dispatch
what `EvolutionDispatch` shows of it. `run` is the execution under way: `todo` the
commands its plan still has, `version` the `expectedVersion` of the next one.

| Model | Code |
|---|---|
| `Receive`, `ExternalTakeover` | the inbound and outbound halves of `persistWebhookMessageOnce` |
| `Operate`, `SetAgents` | `panelTransition`; `agentsEnabled` of the channel |
| `Validate`, `CheckChannel`, `Gather` | `assertEnvelopeIdentity`, the channel check and the checkpoint in `execute()` |
| `Authorize`, `Transit`, `CreateReply`, `ClaimReply`, `RecordResult` | the commands of `processInteractivePlan`, each replayed by its derived id |
| `AfterConflict`, `Complete` | `wasSupersededByHumanAction`, `completeOutboxExecution` |
| `Script` | which commands a plan consists of, in order |

`plan` is chosen among those `decideAutomationPlan` allows; texts, departments and
what the agent says are abstracted. Continuity classification precedes the
checkpoint and only raises the version, which an operation of a person covers.

### Sessions and conduct

`ServicePriority` has two panels. `Operate` is a command of the newer one:
`service-session.ts` computes the next row and `mutate()` coordinates priorities,
whose branches are `KeepsForeground`, `YieldsForeground`, `ClosesForeground`,
`TakesFreeForeground`, `InterruptsForeground` and `StaysBackground`. `TakeOver`,
`Forward`, `ReturnToBot`, `HandOff` and their like are the transitions of the older
one, which shows one `conversation` per thread. A received message is three steps,
because it holds locks that commands do not take: it reads the conversation
(`MessageArrives`), may find no session in foreground (`MessageFindsNobody`), and writes
what follows (`CustomerMessage`, `ExternalMessage`) or is stopped by the version of the
conversation or by the partial unique index of the foreground (`MessageRefused`, `Alone`).
`BeginClosing` and `FinishClosing` are the closing by the AI, `NewSubject` the end of a
reopened session whose customer asks for something else.

In `SessionLifecycle`, `Receive` and `Record` (or `Conflict`) are the reception of a
message, `Claim` and `Dispatch` (or `GiveUp`) a message going out: each is two
steps, between which operators, who hold the lock of the thread only, act.
`Begin` and `Finish` are the two timers; `Wait` lets their delays pass. What hinders them
(pending actions, documents of a proposal that are not sent, other sessions that fill the
scan of the worker) comes and goes as `Hinder`.

In `HumanConduct`, `Following` writes the session with the conversation, `view` is
what a panel loaded, `Present`/`Arrives` hold messages, `Watch`/`Observe` the silent
agents and their suggestions, `BeginCollection`/`Ask`/`Retry` the collection an
accepted suggestion starts.

### Agents and media

In `AgentTurn`, `Claim` and `Bury` are those of the outbox; a worker then reads the
row of the execution (`Load`, `Create`), generates, and takes each tool call through
`Begin`, `Check`, `Allow`, `Recheck`, `Apply` and `Audit`, stores the decision and
delivers the reply. Leases may lapse under a worker that is only slow.

In `MediaInterpretation`, `Tick` lists the oldest candidates, `batchSize` of them (twenty
in the code; the runs take one and two), and `TakeNext` takes them one by one;
`Load`, `Claim`, `Call`, `Complete` and `Fail` are the steps of a job, of the worker
or of a request of the panel (`Ask`). `requests` counts what was asked of models.

### Sale, records and the rest

`CommercialCycle` takes the commands under the lock of the conversation as single
steps, except the confirmation of a request and the cancellation of a quote, whose
reads and writes the three unlocked writers (`PatchQuote`, `Attest`, `Confirm`)
interleave with: `held` is the row such a command holds. `seen` is what each panel
shows. `UserAccounts`, `CustomerProfile`, `KnowledgeBase`, `ChannelAdministration`,
`PreAdmissionAccess` and `RegistrationRecords` share a shape: `call[k]` is a
request under way, which read, decides and then writes, and a history holds what
was executed, for the repeats of a command. `TransportCatalogue` compares periods in
force among those of one owner, and of suppliers of a person in one role; in
`TransportWorker` an integration may be disabled (`Configure`) and a tick first lists
imports and then leases one (`List`, `TakeLease`). `HistoryImport` has one row whose
manifest every writer replaces whole, a lock that dies with the process and a lease
that does not. The lock keeps people apart, not the jobs: a cancellation, the removal of
an upload, the expiry, the end of an import and its failure are a read and a write with
other steps between (`Cancel` and `Cancelled`, `CancelUpload` and `UploadCancelled`,
`FindExpired` and `Expire`, `ImportEnds` and `ImportApplied`, `ImportFails` and
`FailureRecorded`), and `MayWrite` is the look for a cancellation that each write of a job makes.
`LegacyImport` records before and after of each conversation.

## 4. Runs

Distinct states are those TLC finds with two workers; each run ends within about a
minute on a desktop machine. The bounds of each instance stand at the head of its
`.cfg`.

| Run | Question | States |
|---|---|---|
| `outbox_one_consumer` | With the one consumer the documentation asks for: is the queue audited, in order, and is each event answered once; can an operator settle what stays unknown? | 752 000 |
| `pipeline` | Queue and dispatch with two processes that overlap during a deploy: one copy, delivered means received, one success per event, the abstract promise? | 517 000 |
| `dispatch_calls` | One message with three calls: one request per attempt, the abstract promise? And do channels and links, once retired, stay retired? | 467 000 |
| `inbound_answers` | Are two messages answered once and never silently concluded, whatever people do and whatever fails? | 3 110 000 |
| `service_priority` | Three sessions, and messages that commands overtake: one foreground, a facade that agrees unless a message was overtaken, a closing that gives back? | 267 000 |
| `session_lifecycle` | Is a session closed only unanswered, and does it close when nothing hinders it; does an event of the queue settle; does an import end, with every correction analysed? | 92 000 |
| `agents_and_media` | Two workers on one event: does a tool act once, and is its audit true? Two assets, worker and panel: none interpreted twice, none forgotten? | 539 000 |
| `office` | Conduct, knowledge, profiles and accounts: who conducts, what was approved, what is kept? | 627 000 |
| `service` | Quotes, contracts, trips, dossiers and the import of a history: does what is recorded agree, does what ended stay, is what was imported whole? | 637 000 |
| `records` | Registrations and the older import: written as seen, promoted once, whole or gone? | 658 000 |
| `confirmed_service` | Violation: does an acceptance stand once its service is confirmed? | stops at the counterexample |
| `import_cancelled` | Violation: does a cancelled import stay cancelled? | stops at the counterexample |

### Bounds and why they are enough

*Queue.* Two events of one conversation are the least with an order and a batch.
Two attempts give a retry and an exhausted row; four executions let one event use
its attempts, be reopened and run again while the other runs. In the part
`message` one outbound event goes through four executions, so that a reopened
attempt meets the answer of the first.

*Dispatch and pipeline.* Three callers and two attempts give the old call, its retry
and the reopened one; two processes give every interleaving of claim, sweep, accept
and complete between two of them.

*Inbound.* Two messages make a batch and its retry. `MaxVersion` limits people only
(the automation is limited by its plans): three allow a takeover, a return and a
reading between them. The plans `summary` and `handoff` use every kind of command.
Texts are the kind that forms batches; `TextsFirst` follows a conversation with media
through one operation of people or one retry.

*Sessions.* Two sessions compete and a third waits. Two urgencies and a queue of its own
weight give a tie, a higher and a lower priority; `FewHazards` follows urgencies, stale
messages and the like in fewer sessions at a time. Three messages make question,
reminder and a message that overtakes them. Two imports, two attempts and two faults let
an import fail for good, or be taken over by a second worker, while the other waits.

*Turn and media.* Two workers and one expired lease are a slow worker and its
successor; two attempts of the event, one fault anywhere. Two assets in a batch of
two show one delaying the other, and in a batch of one the older keeping the younger
waiting, as twenty do in the code.

*Office, service, records.* Two requests at a time are every interleaving of a read,
a decision and a write with another; two administrators, of whom one is left, are
the interesting company; two versions of an article are one published and one draft.
Three periods make an overlap and a gap, in two roles. Two chunks and one stop of the
process leave an import half applied; two blocks leave a file half received. The import
meets one disturbance in each behaviour, and a cancellation in all of them.

*Constraints.* Where two things that may happen do not touch the same rows, an
instance follows them apart instead of multiplying them. A constraint leaves a state
unexplored, not unchecked: invariants are evaluated in it and action properties on the
step that reaches it, and the theorems of section 7 know no constraint.

| Constraint | What is followed | Why that is enough |
|---|---|---|
| `LastRequest` | at version 3 a channel has one request under way | two requests meet at each earlier version |
| `TextsFirst` | with media, one operation or one retry | media stand alone in a batch; batches of texts meet both |
| `OneAttendant` | at its last version a conversation is open before one attendant | attendants meet at the four earlier versions |
| `UpdatesAlone` | two updates of accounts without a suspension or removal | any two of updates, suspensions and removals still meet; three of them do not |
| `WorkAlone` | new work of a customer while account and execution are there | what is shown of work asks for neither, what they decide asks for no work |
| `FewHazards` | different urgencies, and commands that overtake a message, between two sessions each; a third session with neither | what interrupts, overtakes or resumes is a pair of sessions; the third decides only who is resumed |
| `OneDisturbance` | of a stop, an expiry, a removed upload and a late error, one in each behaviour | each meets every step of the jobs and the cancellation, which is where they do harm; two of them in one behaviour are not followed |
| `FaultsFirst`, `SecondWorker` | faults before anything else changes, a second one where it ends an import; the second worker once the first faulted | workers are interchangeable, and what edits do to a run is followed without faults |
| `Followed` | registrations to version 2; an act of people next to one run of an import | what was read becomes stale with one newer version; an act meets every step of a run, and runs meet each other without it |
| `TurnFollowed` | the first attempt at an event is that of `w1`; no fault once a second model was tried | workers are interchangeable; a second model repeats the steps of the first, which meets every fault |
| `MediaFollowed` | faults while nothing was corrected or used; people with the largest batch only | corrections and uses change nothing of how an interpretation is made, nor does the size of a batch what people may do |

Symmetry is used for interchangeable people, processes, commands and executions, in
runs without liveness only. In `session_lifecycle` events and executions instead
come in the order of their names (`InOrder`), which removes renamed copies of the
same behaviour and keeps one of each. `CHECK_DEADLOCK FALSE` stands where people
owe nothing and bounded commands are used up: the system may rest.

## 5. Properties

*Queue and dispatch.* `ProcessingIsAudited`: row and audit agree although four
functions write them separately. `ConversationOrder`: no event is processed before
an earlier one of its conversation is closed, unless that was reopened.
`ProcessedOnce`: an event is not answered by two executions, or by an execution and
a batch. `ExecutedOnce`: it succeeds in one execution, even with several processes.
`AtMostOneRequest`: per attempt. `CustomerGetsOneCopy`: over retries, reopenings and
operators. `DeliveredWasReceived`: end to end. `OutcomeCanBeSettled`: a dead event
with an unknown outcome has rows that an operator's decision applies to, all guards and
the unique key of the provider id included, unless its own echo has taken that id.
`KeepsPromise` and `PipelineKeepsPromise`: dispatch and pipeline implement
`MessageDelivery` under *shown* ← delivery status, *inbox* ← requests that arrived.
`EventuallySettled`: no event of the queue waits forever.

*Answers.* `AnsweredOnce`: no text belongs to the batches of two replies, unless the
event of the first died or met a pause (its batch is open again then).
`ConcludedIsAnswered`: an event delivered without the whole of its plan met people
or a pause, or was taken along by an earlier reply.

*Sessions and conduct.* `OneForeground`: commands and messages share no lock, and the
partial unique index stops the one that comes second. `FacadeAgrees`: conversation and
session agree as long as no command overtook a message. `ClosingResumes`: a command or
the automatic closing that closes the session in foreground gives the thread back to the
best one it had interrupted; the older panel's closing and a new subject do not, and
the property does not ask it of them. `ClosedUnanswered`: what the AI closed was left
unanswered after a reminder or a resolution; `EventuallyCloses`: a session that was asked
and left closes unless people hold it, a dispatch fails, its work or the scan hinders it, or
somebody reads the conversation after the reminder. `OneConductor`, `OffHoursOnce`,
`AssistantAsksAsApproved`: the assistant asks only for the quote and in the session a
person approved, while nobody conducts.

*Agents and media.* `ToolOnce`; `AuditIsTrue`: a call shown as requested or denied did not
act, one shown as succeeded did (one shown as failed may have, as in the code);
`InterpretedOnce`; `EventuallyInterpreted`: an asset is interpreted although older ones
throw or are deferred at every tick, unless these fill the batch.

*Sale and records.* `OneOpenBatch`, `JudgedAsShown`, `DecisionIsFinal`; `RecordsAgree`
(periods, contracts, plans, items of a dossier), `WhatEndedStays` (trips, plans, decisions
on documents), `ImportIsWhole` (a received file is the one that was sent, an applied batch is
in the history with every message), `KnowledgeIsKept`, `RequestsAreHonoured`,
`RetiredStays`, `WrittenAsSeen`, `PromotedOnce`, `LegacyIsWhole`, `RollbackRestores`,
`ChangesAreAnalysed`; `EventuallyImported`: an import of an integration that stays enabled
is completed or fails.

### Fairness

Only timers, calls that return or time out, and passing time are fair; nothing is
owed by people, providers, faults or the choices of a model.

- Queue: `WF` of `Claim` (`setInterval`); `SF` of claiming a given event (candidates
  are ordered by age); `WF` of `Progress`, which contains no crash, rejection or
  infrastructure error; `WF` of time. That faults do not go on forever is bounded
  by the supply of executions, as attempts bound it in the code; an execution may
  always fail.
- Sessions: `WF` of receptions and dispatches that are under way and of the delays;
  `SF` of the timers and claims, whose locks are granted in the order of requests.
- Media: `WF` of the tick, of the next asset and of each job. A `CONSTRAINT` would cut
  behaviours that liveness is about, so `FairModels` in `MCAgentTurn` conjoins
  `TurnFollowed` and `MediaFollowed` to its steps.
- Imports: `WF` of each worker's `Turn` and of the date an import waits for.

In a composite `part` never changes, so the fairness of two steps of different
parts is that of either; `MCSessionLifecycle` joins them to keep TLC's work small.

## 6. Disagreements with the documentation

Two are shown by runs of their own and quoted in `PROJECT.json`. In `confirmed_service`,
`updateProposalStatus` reads whether a confirmed service exists and then cancels the
acceptance, while the confirmation, which does not take the lock of the conversation,
commits between the two; `docs/commercial-confirmed-services.md:54` says that the API
refuses it. In `import_cancelled`, a job looks whether its batch was cancelled before the
cancellation and writes its manifest after it.

Each formula below states a sentence of the repository and is violated as well. No `.cfg`
of the project checks it: to see the counterexample, which TLC finds in less than half a
minute, put it in the place of the properties of the run that is named.

| Formula | The repository says | The code does | Run |
|---|---|---|---|
| `CompletedIsNotCancelled` | "Uma importação concluída não pode ser cancelada." (`whatsapp-history-import.service.ts:4448`) | the job's last write comes between the read and the write of the cancellation | `import_cancelled` |
| `ResumeContinues` | "selecionar novamente o mesmo arquivo continua do último byte armazenado" (`docs/whatsapp-conversation-import.md:63-64`) | after a stop between the bytes of a block and their count no further block is taken | `import_cancelled` |
| `OthersAreInterpreted` | "Um item inválido não pode interromper os demais" (`media-interpretation.worker.ts:64-65`) | items that throw stay among the oldest and, as many as a batch, keep the others out | `agents_and_media` |
| `RetryFinishesAudit` | "A retry will run the deterministic domain command idempotently and can finish the audit" (`server-side-agent-function-tool.executor.ts:938-940`) | the execution fails with the last write and is not run again | `agents_and_media` |
| `EchoMakesNoMessage` | "o eco de uma mensagem enviada pelo painel não cria uma segunda mensagem" (`docs/production.md:197`) | an echo that overtakes the answer becomes a message of its own, and result and operator then meet the unique key | `dispatch_calls` |
| `SingleActiveExecution` | "Apenas uma execução ativa pode tratar cada evento" (`docs/whatsapp-api.md:72-73`) | a `rejectBeforeAcceptance` that throws ends the tick while a sibling executes; the next tick reclaims its event | `outbox_one_consumer` with two conversations of one event (`Conversation = {c1, c2}`, `MaxSequence = 1`) |
| `PausedEventIsConcluded` | "suprime eventos já enfileirados quando os agentes do canal estão desabilitados" (`api-whatsapp-automation.provider.spec.ts:1252`) | a notification is completed with a batch, which is refused for its topic | `inbound_answers` |
| `ProjectionFollows` | "A projeção acompanha a sessão em primeiro plano e usa a versão da conversa para detectar concorrência" (`docs/architecture.md:350-351`) | a message that a command overtook writes what it had read | `service_priority` |
| `AutomaticClosingPromotesNobody` | "até essa integração, o fechamento automático não promove um predecessor" (`docs/whatsapp-service-priority-coordination.md:56-57`) | `finishAiServiceSessionClosing` does resume one (4006-4149): the page is older than the code | `service_priority` |
| `ReadingDoesNotStop` | what ends the wait of a reminder is "novo inbound, resposta humana ou mudança de controle" (`docs/whatsapp-human-assistance.md:28-31`) | `mark-read` ends it too, and the session is not closed | `session_lifecycle` |
| `PendingStaysActive` | "Enquanto aguarda aceite, a conversa continua `human-active`, no departamento de origem e atribuída ao atendente" (`docs/whatsapp-api.md:200-201`) | accepting a department that a silent agent suggested queues the conversation and keeps the transfer | `office` |
| `EditsAreSeen` | "pode ser editado apenas nesse estado, usando `expectedVersion` e `expectedContentHash`" (`docs/knowledge-base.md:13-14`) | the edit compares what it read and writes by id and status only | `office` |
| `PublicationPublishes` | "promove o draft e move a versão publicada anterior para `superseded`" (`docs/knowledge-base.md:17-18`) | a draft archived meanwhile is not promoted, the earlier version is superseded nevertheless | `office` |
| `RefusedByConfirmedIdentity` | "O CPF informado não corresponde à identidade confirmada nesta sessão." (`prisma-conversation-registration.repository.ts:1400`) | any participant of the session counts, one found by the number too | `records` with `Registered = {p2}` |
| `RowsAreSerializable` | "Cada conversa é gravada em uma transação serializável própria." (`docs/whatsapp-conversation-import.md:223`) | rows are written at READ COMMITTED (`whatsapp-import.service.ts:2464-2470`) | `records` |

What else was seen while modelling has no formula, only the actions it follows from. An
outbound event that `claim` or `rejectBeforeAcceptance` buries leaves its message pending,
and with two processes a message shown as failed can be one whose attempt the other
process leases afterwards. A text that arrives while the agents are off is refused as an
inconsistent envelope. The checkpoint fixes the expected version of every retry, so that
a `mark-read` during the first execution makes all of them conflict. A summary can be
confirmed for a quote that was patched since. The tick of a dispatcher does not always
await what it claimed (`Awaited` in section 7, a hypothesis of three theorems).

## 7. Proofs

Every theorem holds for any number of events, processes, messages, callers,
sessions, people, documents, versions and so on. The assumptions are the named
`ASSUME`s of the modules (bounds are positive numbers, sets that the code keeps
apart are disjoint, the accounts of a company are finitely many), and TLC evaluates
them in the runs. Each proof has one lemma per operation and carries over what
several operations share in lemmas about the way rows change.

### OutboundDelivery_proofs

The queue first. `TypeCorrect`, `ProcessingAudited` and `DeliveryAudited` follow from
`OutboxIsAudited`: `OutboxInv` says which statuses the audit of a locked and of an
unlocked row may have (without it `rejectBeforeAcceptance`, whose two updates have
guards of their own, could leave a row behind whose audit it closed), that audits
name existing rows, and that a tick awaits executions of its own process, so that a
crash removes exactly those whose process died. Completion writes a row by id that
it read earlier, so this covers two processes completing the same event.

`SucceedsOnce` needs no assumption about processes: with it, `SuccessInv` says that
at most one completion of an event has passed its check and that a success is final.
The order does need one. `OrderIsKept`,
`DeliveredStays` and `AnsweredByOne` are about one process under `Awaited`, that a
tick awaits what it claimed. This is not an invariant of the code: an exception of
`rejectBeforeAcceptance` ends a tick early. But it is one for a consumer that claims
one event at a time, or serves one conversation (`AloneInv`), for which
`ConversationsInOrder` and `ProcessedByOne` have no hypothesis but that. Without
either, and with overlapping processes, the three properties are false.

Then the pipeline, through `D == INSTANCE EvolutionDispatch`: every step of the
composite is a step of the queue and one of the dispatch or a stutter, so the
invariants of both carry over (`PipelineStep`), with the facts that join their rows
(`Linked`, `CallsLinked`). From there `PipelineTypeCorrect`, `OneCopyThroughPipeline`
and the refinement `PipelineDelivers`. `DeliveredIsReceived` needs `ReturnInv` on top of
`ShownInv`: a succeeded attempt, a recorded provider id and a call that reports
delivery each find their message shown as sent, and so do a completion that passed
its check and a delivered row. `OutcomesCanBeSettled` and `OneConsumerCanSettle` need `SettleInv`:
with one consumer a running call implies that its live execution holds the event,
so neither a completion nor an operator writes its message meanwhile; superseded
attempts are settled, so an open outcome is that of the current attempt. Both theorems
carry the exception of `OutcomeCanBeSettled`: the unique key of the provider id refuses
the confirmation of a message whose echo became a message of its own.

### EvolutionDispatch_proofs

That two callers never both request (`OneRequestPerAttempt`) is not inductive:
`ClaimInv` adds that whoever may still send has a processed claim of its attempt,
that a caller between reading and writing the claim has none, and that there is one
such caller at most (the advisory lock). `OneCopy` adds `AttemptInv`, `CallInv` and
`DeliveryInv`: keys are numbered up to the current one, and an attempt that was
superseded by a reopening never reached the customer and never will. `SentHasCopy`,
`SentStays` and `UnknownIsKept` follow, and `DispatchKeepsPromise` shows the
refinement of `MessageDelivery` step by step: each action maps to a send, a record,
a reopening or a stutter of the abstract one.

### InboundAutomation_proofs

`OneAnswer` and `ConcludedWasAnswered` rest on `InboundInv`: only the next event of a
conversation is open, a batch is of texts and of events up to its own, what a reply
answered is spent, the rest of `run.todo` is a rest of the script of the plan, and
what was finished was done or disturbed by people or a pause. `ReplyIsCurrent` adds
`VersionInv`: the transitions of an event are those its plan has put behind it, and
the version a run expects is the one that its checkpoint or its last transition made.

### Sessions and conduct

`ServicePriority_proofs`: `PriorityInv` says that a thread is closed, or led by
exactly one session, and that a message that found no session in foreground opens one
only if there still is none, which is what the unique index decides; each branch of
`reconcile` keeps it. `ForegroundIsOne` holds whoever overtakes whom. `FacadeFollows` adds
that row and facade agree while no command overtook a message. `ClosingGivesBack` is about
commands and the automatic closing, the writers that coordinate; and `HigherTakesOver`:
two sessions never alternate on a tie.

`SessionLifecycle_proofs`: the danger is a message whose reception reads the session
before it writes. `Receiving` says why it is never written into a closing
(`NotWrittenIntoClosing`), and with it `LifecycleInv` gives `ClosingWaits` and
`ClosedWasUnanswered`.

`HumanConduct_proofs`: `ConductorIsOne`, `HoursAnnouncedOnce`, and `AsksForApproved`,
for which `Pinned` says what the version of a collection stands for: the check just
before asking compares versions and nothing of the quote or of the session.

The same module proves the office around it (`OfficeInvariant`).
`OfficeKeepsKnowledge`: a running command is unrecorded and run once (`CommandsInv`),
so that the count of a gap is the number of recorded observations (`GapInv`); a
document that does not exist has no versions (`VersionsInv`); what a summary shows is
an approved suggestion of its key (`ShowsApproved`), and rows only grow.
`OfficeHonoursRequests`: `Sees` says that an account that did not move since an update
read it is as it was read, and that an unmoved responsible may still do what was
allowed; removing one of several administrators leaves one, by cardinality.

### AgentTurn_proofs and CommercialCycle_proofs

`ToolAppliedOnce`, `AuditTellsTruth` and `DecisionEarned` rest on `TurnInv`: an agent
runs once, its audit says what was applied, and of the workers inside an execution
one is alone. `MediaInterpretedOnce` rests on `MediaInv`: a job that calls has its
asset alone, and an asset that was not claimed, or is only preserved, was never
sent to a model. Nothing is asked of a job whose asset is not known to be one,
because the order in which a tick lists the assets is not reasoned about.

`BatchIsOne`, `JudgedWasShown`, `QueueIsOfLatest` and `DecisionStands` rest on
`CycleInv`: what a screen with the current version still shows (`Screens`), what the
holder of the lock still finds (`HeldFits`) and that open documents of a quote share
a batch (`Batches`), although three writers do not take the lock.

## 8. Only model-checked

- Liveness under fairness: `EventuallySettled`, `EventuallyCloses`,
  `EventuallyInterpreted`, `EventuallyImported`. Neither fairness nor `ENABLED` is in
  reach of the provers.
- What depends on induction over data: the minimum of a well-founded order that
  `CHOOSE` picks, sums and folds over sequences of blocks, pages or chunks. This
  keeps the imports (`ImportIsWhole`, `LegacyIsWhole`, `RollbackRestores`,
  `ChangesAreAnalysed`) with TLC.
- `RecordsAgree`, `WrittenAsSeen`, `PromotedOnce` and `RetiredStays`: their
  composites give their parts the concrete values of an instance, so they are
  statements about that instance.

Two kinds of formulas are in no run. Those of the table of section 6 are violated. The
others are proved in section 7 and stated for the theorems: `DecisionIsEarned`,
`DeliveryIsAudited`, `DeliveredIsFinal`, `QueueFollowsQuote`, `SentIsTrue`, `SentIsFinal`,
`UnknownIsNotResent`, `ReplyAnswersCurrentState`, `OnlyHigherTakesOver` and
`ClosingIsUnanswered`.

## 9. Not modelled

Delivery receipts (they refine *sent*), gates of the claim for handoff and closing
notices, texts, prices, files and their contents, what models answer, passwords and
tokens of sessions, permissions by department, reopening of dead inbound events, and
the components of section 1 that are said to be left out, with their reasons in
`PROJECT.json`. Lease durations are not measured: a lease may lapse at any time
after it was taken. Each module names what it leaves out of its own component.

## 10. Running

    tlasany M.tla                         parse a module
    tlc -config run.cfg MCModule.tla      one of the runs of PROJECT.json
    tlapm OutboundDelivery_proofs.tla     check the proofs of a module

The proofs of one module take from one to twenty minutes from nothing; tlapm
remembers what it has proved.
