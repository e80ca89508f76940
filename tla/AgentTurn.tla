----------------------------- MODULE AgentTurn -----------------------------
(***************************************************************************)
(* The turn of the agents on one event of a conversation: the orchestrator *)
(* classifies, a specialist may advise, the customer service writes the    *)
(* answer, a second routing execution may be needed to hand over.  Each is *)
(* an execution with its model attempts and its audited tool calls; the    *)
(* decision that comes out of them is stored before it is acted upon.      *)
(*                                                                         *)
(* Several workers may hold the event one after the other, and at the same *)
(* time when a lease expires under one that is only slow.  A transaction   *)
(* and a call to the model are one step each; the reads that guard a       *)
(* command are steps apart from it.                                        *)
(***************************************************************************)
EXTENDS Naturals, Sequences, FiniteSets, SequencesExt

CONSTANTS
    Worker,        \* the processes that consume the outbox
    Caller,        \* the agents whose allow-list holds a tool
    Runtimes,      \* number of runtimes of an agent: the primary and its fallbacks
    MaxCalls,      \* bound: tool calls of an answer of the model
    MaxAttempts,   \* attempts of the event before it is buried
    MaxFaults      \* bound: deaths of a worker, and faults of the database

Agent == {"orchestrator", "specialist", "customer", "routing"}

ASSUME TurnAssumption ==
    /\ Caller \subseteq Agent
    /\ Runtimes \in Nat \ {0} /\ MaxAttempts \in Nat \ {0}
    /\ MaxCalls \in Nat /\ MaxFaults \in Nat

VARIABLES
    event,         \* the row of the outbox: status, attempts and the worker that holds it
    control,       \* who holds the session: the agents or people
    execution,     \* the rows of agent_executions, by agent
    call,          \* the rows of agent_tool_calls, by agent and sequence
    commands,      \* domain commands applied, by execution and sequence
    decision,      \* the stored decision of the event: none or one
    reply,         \* the decisions that an outbound message was created from
    task,          \* what each worker is at
    faults         \* faults so far

vars == <<event, control, execution, call, commands, decision, reply, task, faults>>
audit == <<execution, call, commands>>
outcome == <<decision, reply>>

Place == {"idle", "read", "load", "create", "generate", "begin", "check", "allow",
          "recheck", "apply", "audit", "follow", "record", "fail", "complete",
          "output", "store", "reply", "deliver", "abort", "conflict"}
CallStatus == {"none", "requested", "allowed", "denied", "succeeded", "failed"}

\* runs counts the executions created for an agent; log the outcomes of its attempts.
Execution == [status : {"none", "running", "succeeded", "failed"},
              runs : Nat, log : Seq({"failed", "succeeded"})]
Decision == [run : Nat, by : {"orchestrator", "fallback"}]
Task == [at : Place, agent : Agent, runtime : Nat, asked : Nat, seq : Nat,
         by : {"orchestrator", "fallback"}]

Idle == [at |-> "idle", agent |-> "orchestrator", runtime |-> 1, asked |-> 0,
         seq |-> 1, by |-> "fallback"]
NoCalls == [n \in 1..MaxCalls |-> "none"]

At(w, place) == task[w].at = place
Goto(w, place) == task' = [task EXCEPT ![w].at = place]
Running(w) == execution[task[w].agent]
Called(w) == call[task[w].agent][task[w].seq]
Command(w) == <<task[w].agent, Running(w).runs, task[w].seq>>
SetCall(w, status) == call' = [call EXCEPT ![task[w].agent][task[w].seq] = status]

\* A database fault surfaces as an exception; the statement may have committed.
Fault == /\ faults < MaxFaults
         /\ faults' = faults + 1

Init ==
    /\ event = [status |-> "pending", attempts |-> 0, holder |-> {}]
    /\ control = "ai"
    /\ execution = [a \in Agent |-> [status |-> "none", runs |-> 0, log |-> << >>]]
    /\ call = [a \in Agent |-> NoCalls]
    /\ commands = {} /\ decision = {} /\ reply = {}
    /\ task = [w \in Worker |-> Idle]
    /\ faults = 0

-----------------------------------------------------------------------------
(* The event *)

Holds(w) == event.status = "processing" /\ event.holder = {w}

\* A lease may expire under a worker that is dead or only slow.
Claimable == event.status \in {"pending", "processing"}

Claim(w) ==
    /\ At(w, "idle") /\ Claimable /\ event.attempts < MaxAttempts
    /\ event' = [status |-> "processing", holder |-> {w}, attempts |-> event.attempts + 1]
    /\ Goto(w, "read")
    /\ UNCHANGED <<control, audit, outcome, faults>>

\* The sweep of the next claim buries what has no attempts left.
Bury ==
    /\ Claimable /\ event.attempts = MaxAttempts
    /\ event' = [event EXCEPT !.status = "dead", !.holder = {}]
    /\ UNCHANGED <<control, audit, outcome, task, faults>>

Settle(w, status) ==
    /\ event' = IF Holds(w) THEN [event EXCEPT !.status = status, !.holder = {}] ELSE event
    /\ task' = [task EXCEPT ![w] = Idle]

\* completeUnexpectedAcceptedFailure: an AppError is a retryable failure.
Abort(w) ==
    /\ At(w, "abort")
    /\ Settle(w, IF event.attempts = MaxAttempts THEN "dead" ELSE "pending")
    /\ UNCHANGED <<control, audit, outcome, faults>>

\* wasSupersededByHumanAction: a conflict ends the event when people have the session.
Superseded(w) ==
    /\ At(w, "conflict") /\ control = "human"
    /\ Settle(w, "processed")
    /\ UNCHANGED <<control, audit, outcome, faults>>

NotSuperseded(w) ==
    /\ At(w, "conflict") /\ control = "ai"
    /\ Goto(w, "abort")
    /\ UNCHANGED <<event, control, audit, outcome, faults>>

\* assertAutomaticReplyAllowed, then the stored decision or a turn of the agents.
Read(w) ==
    /\ At(w, "read")
    /\ Goto(w, CASE control = "human" -> "conflict"
                 [] decision # {} -> "reply"
                 [] OTHER -> "load")
    /\ UNCHANGED <<event, control, audit, outcome, faults>>

-----------------------------------------------------------------------------
(* An execution and its model attempts *)

\* What an exception of execute() does to the turn: only the customer service and
\* the routing are indispensable.  code is that of the error.
Proceed(w, agent, by) ==
    task' = [task EXCEPT ![w] = [Idle EXCEPT !.at = "load", !.agent = agent, !.by = by]]
Unavailable(w, code) ==
    CASE task[w].agent = "orchestrator" -> Proceed(w, "customer", "fallback")
      [] task[w].agent = "specialist" -> Proceed(w, "customer", task[w].by)
      [] OTHER -> task' = [task EXCEPT ![w] = [Idle EXCEPT !.at = code]]

\* loadActiveForSession: while people have the session only silent agents run.
Load(w) ==
    /\ At(w, "load")
    /\ IF control = "human" /\ task[w].agent \in {"specialist", "customer"}
       THEN Unavailable(w, "abort")
       ELSE Goto(w, "create")
    /\ UNCHANGED <<event, control, audit, outcome, faults>>

\* create(): the command of an agent on an event is deterministic.
\* Mutant: an execution that did not succeed is created again.
BadCreate(w) ==
    LET a == task[w].agent
    IN  /\ At(w, "create")
        /\ IF execution[a].status \in {"none", "failed"}
           THEN /\ execution' = [execution EXCEPT ![a].status = "running",
                                                  ![a].runs = @ + 1, ![a].log = << >>]
                /\ call' = [call EXCEPT ![a] = NoCalls]
                /\ Goto(w, "generate")
           ELSE Unavailable(w, "conflict") /\ UNCHANGED <<execution, call>>
        /\ UNCHANGED <<event, control, commands, outcome, faults>>
Create(w) ==
    LET a == task[w].agent
    IN  /\ At(w, "create")
        /\ IF execution[a].status = "none"
           THEN /\ execution' = [execution EXCEPT ![a].status = "running", ![a].runs = @ + 1]
                /\ Goto(w, "generate")
           ELSE Unavailable(w, "conflict") /\ UNCHANGED execution
        /\ UNCHANGED <<event, control, call, commands, outcome, faults>>

\* The model answers, with or without tool calls.
Generate(w) ==
    /\ At(w, "generate")
    /\ \E n \in 0..(IF task[w].agent \in Caller THEN MaxCalls ELSE 0) :
         task' = [task EXCEPT ![w].at = IF n = 0 THEN "record" ELSE "begin",
                              ![w].asked = n, ![w].seq = 1]
    /\ UNCHANGED <<event, control, audit, outcome, faults>>

NextPlace(w) ==
    IF task[w].runtime < Runtimes /\ task[w].asked = 0 THEN "generate" ELSE "fail"

FailedAttempt(w) ==
    /\ execution' = [execution EXCEPT ![task[w].agent].log = Append(@, "failed")]
    /\ task' = [task EXCEPT ![w].at = NextPlace(w), ![w].runtime = @ + 1]

\* The provider fails, or answers something that is no answer.
ModelFails(w) ==
    /\ task[w].at \in {"generate", "follow"}
    /\ FailedAttempt(w)
    /\ UNCHANGED <<event, control, call, commands, outcome, faults>>

\* The second request, with the results of the tools and no tools.
Follow(w) ==
    /\ At(w, "follow")
    /\ Goto(w, "record")
    /\ UNCHANGED <<event, control, audit, outcome, faults>>

RecordAttempt(w) ==
    /\ At(w, "record")
    /\ execution' = [execution EXCEPT ![task[w].agent].log = Append(@, "succeeded")]
    /\ Goto(w, "complete")
    /\ UNCHANGED <<event, control, call, commands, outcome, faults>>

Complete(w) ==
    /\ At(w, "complete")
    /\ execution' = [execution EXCEPT ![task[w].agent].status = "succeeded"]
    /\ task' = [task EXCEPT ![w] = [Idle EXCEPT !.at = "output", !.agent = task[w].agent,
                                               !.by = task[w].by]]
    /\ UNCHANGED <<event, control, call, commands, outcome, faults>>

FailExecution(w) ==
    /\ At(w, "fail")
    /\ execution' = [execution EXCEPT ![task[w].agent].status = "failed"]
    /\ Unavailable(w, "abort")
    /\ UNCHANGED <<event, control, call, commands, outcome, faults>>

\* What cannot be read or recorded ends the execution; one that exists stays RUNNING.
ExecutionFault(w) ==
    /\ task[w].at \in {"load", "create", "generate", "follow", "record", "complete", "fail"}
    /\ Fault
    /\ Unavailable(w, "abort")
    /\ UNCHANGED <<event, control, audit, outcome>>

-----------------------------------------------------------------------------
(* A tool call *)

ToolError(w) == FailedAttempt(w)

\* An execution that is no longer RUNNING calls nothing; a row that ended is replayed
\* or refused.
Begin(w) ==
    /\ At(w, "begin")
    /\ IF Running(w).status # "running" \/ Called(w) \in {"denied", "failed"}
       THEN ToolError(w) /\ UNCHANGED call
       ELSE /\ SetCall(w, IF Called(w) = "none" THEN "requested" ELSE Called(w))
            /\ Goto(w, IF Called(w) = "succeeded" THEN "audit" ELSE "check")
            /\ UNCHANGED execution
    /\ UNCHANGED <<event, control, commands, outcome, faults>>

\* markDenied: the allow-list, the arguments or the control of the session.
Deny(w) ==
    /\ At(w, "check")
    /\ SetCall(w, "denied")
    /\ ToolError(w)
    /\ UNCHANGED <<event, control, commands, outcome, faults>>

Check(w) ==
    /\ At(w, "check") /\ control = "ai"
    /\ Goto(w, "allow")
    /\ UNCHANGED <<event, control, audit, outcome, faults>>

Allow(w) ==
    /\ At(w, "allow")
    /\ SetCall(w, "allowed")
    /\ Goto(w, "recheck")
    /\ UNCHANGED <<event, control, execution, commands, outcome, faults>>

\* Mutant: the authorisation that could not be recorded is not taken back.
BadAllowFault(w) ==
    /\ At(w, "allow") /\ Fault
    /\ SetCall(w, "denied")
    /\ Goto(w, "recheck")
    /\ UNCHANGED <<event, control, execution, commands, outcome>>
AllowFault(w) ==
    /\ At(w, "allow") /\ Fault
    /\ SetCall(w, "denied")
    /\ ToolError(w)
    /\ UNCHANGED <<event, control, commands, outcome>>

\* The control is read again right before the command, which does not read it.
Recheck(w) ==
    /\ At(w, "recheck")
    /\ IF control = "ai" THEN Goto(w, "apply") /\ UNCHANGED <<execution, call>>
       ELSE SetCall(w, "failed") /\ ToolError(w)
    /\ UNCHANGED <<event, control, commands, outcome, faults>>

Apply(w) ==
    /\ At(w, "apply")
    /\ commands' = commands \cup {Command(w)}
    /\ Goto(w, "audit")
    /\ UNCHANGED <<event, control, execution, call, outcome, faults>>

\* The domain refuses, or commits and its answer is lost: markFailed either way.
ApplyFails(w) ==
    /\ At(w, "apply")
    /\ \/ UNCHANGED <<commands, faults>>
       \/ Fault /\ commands' = commands \cup {Command(w)}
    /\ SetCall(w, "failed")
    /\ ToolError(w)
    /\ UNCHANGED <<event, control, outcome>>

\* markSucceeded, and the next call of the answer or the second request.
Audit(w) ==
    /\ At(w, "audit")
    /\ SetCall(w, "succeeded")
    /\ task' = [task EXCEPT ![w].at = IF task[w].seq = task[w].asked
                                      THEN "follow" ELSE "begin",
                            ![w].seq = IF task[w].seq = task[w].asked THEN @ ELSE @ + 1]
    /\ UNCHANGED <<event, control, execution, commands, outcome, faults>>

\* The row stays REQUESTED or ALLOWED when its next status cannot be written.
AuditFault(w) ==
    /\ task[w].at \in {"begin", "check", "recheck", "audit"} /\ Fault
    /\ ToolError(w)
    /\ UNCHANGED <<event, control, call, commands, outcome>>

-----------------------------------------------------------------------------
(* The decision *)

\* An output that cannot be read is a fallback of the orchestrator, nothing of a
\* specialist and an error of the others.
OutputInvalid(w) ==
    /\ At(w, "output")
    /\ Unavailable(w, "abort")
    /\ UNCHANGED <<event, control, audit, outcome, faults>>

Output(w) ==
    /\ At(w, "output")
    /\ CASE task[w].agent = "orchestrator" ->
              \/ Proceed(w, "specialist", "orchestrator")
              \/ Proceed(w, "customer", "orchestrator")
         [] task[w].agent = "specialist" -> Proceed(w, "customer", task[w].by)
         [] task[w].agent = "customer" ->
              Goto(w, "store") \/ Proceed(w, "routing", task[w].by)
         [] OTHER -> Goto(w, "store")
    /\ UNCHANGED <<event, control, audit, outcome, faults>>

\* upsert with an empty update: the first decision stays.
Store(w) ==
    /\ At(w, "store")
    /\ decision' = IF decision # {} THEN decision
                   ELSE {[run |-> execution["customer"].runs, by |-> task[w].by]}
    /\ Goto(w, "reply")
    /\ UNCHANGED <<event, control, audit, reply, faults>>

\* The commands of the answer are deterministic; they conflict when people took over.
Reply(w) ==
    /\ At(w, "reply") /\ control = "ai"
    /\ reply' = IF reply # {} THEN reply ELSE decision
    /\ Goto(w, "deliver")
    /\ UNCHANGED <<event, control, audit, decision, faults>>

Deliver(w) ==
    /\ At(w, "deliver")
    /\ Settle(w, "processed")
    /\ UNCHANGED <<control, audit, outcome, faults>>

DeliveryFails(w) ==
    /\ At(w, "deliver")
    /\ Goto(w, "abort")
    /\ UNCHANGED <<event, control, audit, outcome, faults>>

ReplyRefused(w) ==
    /\ At(w, "reply") /\ control = "human"
    /\ Goto(w, "conflict")
    /\ UNCHANGED <<event, control, audit, outcome, faults>>

DecisionFault(w) ==
    /\ task[w].at \in {"read", "store", "reply"} /\ Fault
    /\ Goto(w, "abort")
    /\ UNCHANGED <<event, control, audit, outcome>>

-----------------------------------------------------------------------------
(* The others *)

Assume ==
    /\ control = "ai"
    /\ control' = "human"
    /\ UNCHANGED <<event, audit, outcome, task, faults>>

Crash(w) ==
    /\ ~At(w, "idle") /\ Fault
    /\ task' = [task EXCEPT ![w] = Idle]
    /\ UNCHANGED <<event, control, audit, outcome>>
-----------------------------------------------------------------------------
Turn(w) ==
    \/ Claim(w) \/ Abort(w) \/ Superseded(w) \/ NotSuperseded(w) \/ Read(w)
    \/ Load(w) \/ Create(w) \/ Generate(w) \/ ModelFails(w) \/ Follow(w)
    \/ RecordAttempt(w) \/ Complete(w) \/ FailExecution(w)
    \/ Begin(w) \/ Deny(w) \/ Check(w) \/ Allow(w) \/ Recheck(w) \/ Apply(w)
    \/ ApplyFails(w) \/ Audit(w) \/ OutputInvalid(w) \/ Output(w) \/ Store(w)
    \/ Reply(w) \/ Deliver(w) \/ DeliveryFails(w) \/ ReplyRefused(w)

Trouble(w) ==
    ExecutionFault(w) \/ AllowFault(w) \/ AuditFault(w) \/ DecisionFault(w) \/ Crash(w)

Next == Bury \/ Assume \/ \E w \in Worker : Turn(w) \/ Trouble(w)

Spec == Init /\ [][Next]_vars

-----------------------------------------------------------------------------
(* Properties *)

\* The rows of the turn and what the workers are at.
TypeOK ==
    /\ event \in [status : {"pending", "processing", "processed", "dead"},
                  attempts : 0..MaxAttempts, holder : SUBSET Worker]
    /\ control \in {"ai", "human"}
    /\ execution \in [Agent -> [status : {"none", "running", "succeeded", "failed"},
                                runs : 0..MaxAttempts,
                                log : BoundedSeq({"failed", "succeeded"}, Runtimes)]]
    /\ call \in [Agent -> [1..MaxCalls -> CallStatus]]
    /\ commands \subseteq (Agent \X (1..MaxAttempts) \X (1..MaxCalls))
    /\ decision \in {{}} \cup {{d} : d \in [run : 1..MaxAttempts,
                                          by : {"orchestrator", "fallback"}]}
    /\ reply \in {{}, decision}
    /\ \A w \in Worker : /\ task[w].at \in Place /\ task[w].agent \in Agent
                         /\ task[w].runtime \in 1..Runtimes + 1
                         /\ task[w].asked \in 0..MaxCalls /\ task[w].seq \in 1..MaxCalls + 1
    /\ faults \in 0..MaxFaults

\* However often the event is retried, and by however many workers at a time, the
\* command of a tool call of an agent is applied at most once.
ToolOnce == \A c, d \in commands : c[1] = d[1] /\ c[3] = d[3] => c = d

\* A call that the audit shows as denied did not touch the domain, and one that it
\* shows as succeeded did.  (A failed one may have: its answer was lost.)
AuditIsTrue ==
    \A a \in Agent, n \in 1..MaxCalls :
        LET applied == <<a, execution[a].runs, n>> \in commands
        IN  /\ call[a][n] \in {"none", "requested", "denied"} => ~applied
            /\ call[a][n] = "succeeded" => applied

\* What is decided, and so what the customer is told, comes from an execution of the
\* customer service that succeeded on its last attempt, after all that failed, and a
\* worker that lost its lease cannot replace it.
DecisionIsEarned ==
    /\ decision # {} =>
         LET made == execution["customer"]
         IN  /\ made.status = "succeeded"
             /\ \A i \in DOMAIN made.log : made.log[i] = "succeeded" <=> i = Len(made.log)
    /\ reply \subseteq decision

\* "A retry will run the deterministic domain command idempotently and can finish the
\* audit": once the event is settled and nobody works on it, no call whose command was
\* applied is left without its result by a last write that failed and so ended the
\* execution, unless people took the session over.
RetryFinishesAudit ==
    (/\ event.status \in {"processed", "dead"} /\ control = "ai"
     /\ \A w \in Worker : task[w] = Idle) =>
        \A a \in Agent, n \in 1..MaxCalls :
            execution[a].status = "failed" /\ <<a, execution[a].runs, n>> \in commands
                => call[a][n] # "allowed"
=============================================================================
