------------------------- MODULE InboundAutomation -------------------------
(***************************************************************************)
(* How the API answers the messages of one conversation: the inbound half  *)
(* of persistWebhookMessageOnce, the provider's execute() with its         *)
(* checkpoint and its replayed commands, and the people who work on the    *)
(* same conversation meanwhile.                                            *)
(*                                                                         *)
(* The outbox is what AutomationOutbox shows of it with one consumer: the  *)
(* events of a conversation are executed one at a time, in order, at most  *)
(* MaxAttempts times each.  The request to the provider is what            *)
(* EvolutionDispatch shows of it: a claimed message is requested once.     *)
(***************************************************************************)
EXTENDS Naturals, Sequences

CONSTANTS
    Kind,         \* message kinds that customers send
    Plan,         \* interactive plans the automation may decide on
    Operation,    \* what people do on the conversation in the panel
    AgentsMayBe,  \* values the agentsEnabled flag of the channel takes
    Faults,       \* whether steps may fail and processes may crash
    MaxMessages,  \* bound: messages of the customer
    MaxVersion,   \* bound: the version up to which people work on it
    MaxAttempts   \* max_attempts of an outbox event

\* queued: sent-to-human; waiting: a quote summary waits for its confirmation.
State == {"bot", "waiting", "queued", "human", "closed"}

\* What an execution does for each plan, in order.  The commands it repeats on a
\* retry carry ids derived from the event, so that they are replayed.
Script ==
    [observe |-> <<"complete">>,
     suppress |-> <<"complete">>,
     static |-> <<"reply", "claim", "record", "complete">>,
     answer |-> <<"authorize", "reply", "claim", "record", "complete">>,
     renew |-> <<"before", "authorize", "reply", "claim", "record", "complete">>,
     collect |-> <<"authorize", "before", "reply", "claim", "record", "complete">>,
     summary |-> <<"authorize", "reply", "claim", "record", "after", "complete">>,
     handoff |-> <<"authorize", "handoff", "complete">>]

ASSUME InboundAssumption ==
    /\ Kind \subseteq {"text", "media"}
    /\ Plan \subseteq DOMAIN Script \ {"observe", "suppress"}
    /\ Operation \subseteq {"mark-read", "take-over", "return-to-bot", "close"}
    /\ AgentsMayBe \subseteq BOOLEAN /\ AgentsMayBe # {}
    /\ Faults \in BOOLEAN
    /\ MaxMessages \in Nat /\ MaxVersion \in Nat /\ MaxAttempts \in Nat \ {0}

VARIABLES
    version,     \* WhatsAppConversation.version
    state,       \* its conversationState and flowStep
    agents,      \* WhatsAppChannel.agentsEnabled
    event,       \* the inbound events of the conversation, by sequence
    checkpoint,  \* automation checkpoints: event |-> version, batch and plan
    transition,  \* executed transition commands: <<event, step>> |-> version
    reply,       \* messages created by createOutbound, by event
    run,         \* the execution under way
    interrupted  \* history: what the events met before they ended: <<event, what>>

vars == <<version, state, agents, event, checkpoint, transition, reply, run, interrupted>>

NoRun == [event |-> 0, todo |-> << >>, version |-> 0, batch |-> {}]
Received == 1..Len(event)
Topic == {"persisted", "notification"}
Error == {"none", "invalid", "refused", "conflict", "execution", "delivery"}

EventRow == [kind : {"text", "media"}, topic : Topic, allowed : BOOLEAN,
             status : {"open", "delivered", "dead"}, attempts : Nat, error : Error]
Checkpoint == [version : Nat, batch : SUBSET (1..MaxMessages), plan : DOMAIN Script]
Running == run # NoRun
Step == Head(run.todo)
At(step) == Running /\ Step = step
Advance == run' = [run EXCEPT !.todo = Tail(@)]
WithPeople == {"queued", "human"}

\* The history variable looks at the events that are open after the step.
Interrupt ==
    LET met == (IF agents' THEN {} ELSE {"pause"})
               \cup (IF state' \in {"bot", "waiting"} THEN {} ELSE {"people"})
    IN  interrupted' = interrupted \cup
          {e \in 1..Len(event') : event'[e].status = "open"} \X met

Init ==
    /\ version = 1 /\ state = "bot" /\ agents \in AgentsMayBe
    /\ event = << >> /\ checkpoint = << >> /\ transition = << >> /\ reply = << >>
    /\ run = NoRun /\ interrupted = {}

-----------------------------------------------------------------------------
(* Webhook and panel *)

\* persistWebhookMessageOnce, inbound.  A closed conversation reopens and a text
\* resumes a waiting one.  A queued proposal routes the message to people.
Receive(kind, proposalQueued) ==
    LET returns == state = "closed" \/ (state = "waiting" /\ kind = "text")
        next == IF returns THEN "bot" ELSE state
        humanRouted == proposalQueued \/ next \in WithPeople
    IN  /\ Len(event) < MaxMessages
        /\ state' = next /\ version' = IF returns THEN version + 1 ELSE version
        /\ event' = Append(event,
             [kind |-> kind, topic |-> IF humanRouted THEN "notification" ELSE "persisted",
              allowed |-> agents /\ next = "bot" /\ ~humanRouted,
              status |-> "open", attempts |-> 0, error |-> "none"])
        /\ UNCHANGED <<agents, checkpoint, transition, reply, run>>
        /\ Interrupt

\* A message sent from the phone takes the conversation over.
ExternalTakeover ==
    /\ "take-over" \in Operation
    /\ state \notin WithPeople /\ version < MaxVersion
    /\ state' = "queued" /\ version' = version + 1
    /\ UNCHANGED <<agents, event, checkpoint, transition, reply, run>>
    /\ Interrupt

\* panelTransition: every operation, mark-read included, is a new version.
Operate(o) ==
    /\ version < MaxVersion
    /\ o # "take-over" => state # "closed"
    /\ o = "return-to-bot" => state = "human"
    /\ version' = version + 1
    /\ state' = CASE o = "mark-read" -> state
                  [] o = "take-over" -> "human"
                  [] o = "return-to-bot" -> "bot"
                  [] OTHER -> "closed"
    /\ UNCHANGED <<agents, event, checkpoint, transition, reply, run>>
    /\ Interrupt

SetAgents(on) ==
    /\ agents # on /\ agents' = on
    /\ UNCHANGED <<version, state, event, checkpoint, transition, reply, run>>
    /\ Interrupt

-----------------------------------------------------------------------------
(* The queue *)

Close(e, status, error) ==
    event' = [event EXCEPT ![e].status = status, ![e].error = error]

\* A retryable failure leaves the event open until its attempts are used up.
Fail(e, outcome, error) ==
    /\ Close(e, IF outcome = "terminal" \/ event[e].attempts >= MaxAttempts
                THEN "dead" ELSE "open", error)
    /\ run' = NoRun

Start(e) ==
    /\ ~Running
    /\ event[e].status = "open"
    /\ \A f \in 1..e - 1 : event[f].status # "open"
    /\ event' = [event EXCEPT ![e].attempts = @ + 1]
    /\ run' = [event |-> e, todo |-> <<"validate">>, version |-> 0, batch |-> {}]
    /\ UNCHANGED <<version, state, agents, checkpoint, transition, reply>>
    /\ Interrupt

Unchanged == UNCHANGED <<version, state, agents, checkpoint, transition, reply>>

\* What else a step may throw.  A crash is noticed when the lease lapses, and then
\* counts as one more attempt that is to be repeated.
Fault ==
    /\ Faults /\ Running
    /\ \E outcome \in {"retryable", "terminal"} : Fail(run.event, outcome, "execution")
    /\ Unchanged
    /\ Interrupt

-----------------------------------------------------------------------------
(* execute() *)

\* assertEnvelopeIdentity: a text the webhook did not authorise is inconsistent.
Invalid(m) == m.topic = "persisted" /\ m.kind = "text" /\ ~m.allowed

Validate ==
    LET e == run.event
    IN  /\ At("validate")
        /\ IF Invalid(event[e]) THEN Fail(e, "terminal", "invalid")
           ELSE /\ run' = [run EXCEPT !.todo = <<"channel">>]
                /\ UNCHANGED event
        /\ Unchanged
        /\ Interrupt

\* With the agents off the event concludes at once, and names itself its batch.
CheckChannel ==
    /\ At("channel")
    /\ run' = IF agents THEN [run EXCEPT !.todo = <<"gather">>]
              ELSE [run EXCEPT !.todo = <<"complete">>, !.batch = {run.event}]
    /\ UNCHANGED <<version, state, agents, event, checkpoint, transition, reply>>
    /\ Interrupt

\* decideAutomationPlan: what the topic, the flags and the conversation allow.
PlansFor(m) ==
    IF m.topic = "notification" \/ state \in WithPeople THEN {"observe"}
    ELSE IF ~m.allowed \/ state # "bot" THEN {"suppress"}
    ELSE Plan

\* The texts that follow a text inside its window; other kinds stand alone.
Batch(e, last) ==
    {e} \cup {f \in e..last : event[e].kind = "text" /\ event[f].kind = "text"}

SavedOr(e, new) == IF e \in DOMAIN checkpoint THEN checkpoint[e] ELSE new

\* checkpointStore.getOrCreate: the first execution decides for all of them.
Gather ==
    LET e == run.event
    IN  /\ At("gather")
        /\ \E last \in e..Len(event), plan \in PlansFor(event[e]) :
              LET saved == SavedOr(e, [version |-> version, plan |-> plan,
                                       batch |-> Batch(e, last)])
              IN  /\ checkpoint' = [f \in DOMAIN checkpoint \cup {e} |->
                                      IF f = e THEN saved ELSE checkpoint[f]]
                  /\ run' = [run EXCEPT !.todo = Script[saved.plan],
                       !.version = saved.version,
                       !.batch = IF event[e].topic = "persisted" THEN saved.batch ELSE {}]
        /\ UNCHANGED <<version, state, agents, event, transition, reply>>
        /\ Interrupt

Conflict == run' = [run EXCEPT !.todo = <<"superseded">>]

\* assertSessionAllowsAutomaticReply
GateOpen == agents /\ state = "bot"

Authorize ==
    /\ At("authorize")
    /\ IF GateOpen THEN Advance ELSE Conflict
    /\ UNCHANGED event /\ Unchanged
    /\ Interrupt

\* What the conversation becomes; the handoff leaves with its message.
After(step) == CASE step = "before" -> "bot" [] step = "after" -> "waiting"
                 [] step = "handoff" -> "queued"

Current == version = run.version

\* A transition: replayed if it was made before, refused if the conversation
\* changed, made otherwise.  The handoff carries the time of the call, so that a
\* second one is another command under the same id.
Transit(step) ==
    LET e == run.event
        key == <<e, step>>
    IN  /\ At(step)
        /\ \/ /\ key \in DOMAIN transition
              /\ IF step = "handoff" THEN Conflict
                 ELSE run' = [run EXCEPT !.todo = Tail(@), !.version = transition[key]]
              /\ UNCHANGED <<version, state, transition, reply>>
           \/ /\ key \notin DOMAIN transition /\ ~Current
              /\ Conflict
              /\ UNCHANGED <<version, state, transition, reply>>
           \/ /\ key \notin DOMAIN transition /\ Current
              /\ version' = version + 1 /\ state' = After(step)
              /\ transition' = [k \in DOMAIN transition \cup {key} |->
                                  IF k = key THEN version + 1 ELSE transition[k]]
              /\ reply' = IF step # "handoff" THEN reply
                          ELSE [f \in DOMAIN reply \cup {e} |->
                                  IF f = e THEN "handed" ELSE reply[f]]
              /\ run' = [run EXCEPT !.todo = Tail(@), !.version = version + 1]
        /\ UNCHANGED <<agents, event, checkpoint>>
        /\ Interrupt

\* createOutbound
CreateReply ==
    LET e == run.event
    IN  /\ At("reply")
        /\ \/ e \in DOMAIN reply /\ Advance /\ UNCHANGED reply
           \/ /\ e \notin DOMAIN reply /\ ~(Current /\ GateOpen)
              /\ Conflict /\ UNCHANGED reply
           \/ /\ e \notin DOMAIN reply /\ Current /\ GateOpen
              /\ reply' = [f \in DOMAIN reply \cup {e} |->
                             IF f = e THEN "pending" ELSE reply[f]]
              /\ Advance
        /\ UNCHANGED <<version, state, agents, event, checkpoint, transition>>
        /\ Interrupt

SetReply(e, s) == reply' = [reply EXCEPT ![e] = s]

\* claimEvolutionDispatch: the gate is read again even for a message that was sent.
ClaimReply ==
    LET e == run.event
    IN  /\ At("claim")
        /\ \/ ~GateOpen /\ Conflict /\ UNCHANGED <<event, reply>>
           \/ /\ GateOpen /\ reply[e] = "pending"
              /\ SetReply(e, "leased") /\ Advance /\ UNCHANGED event
           \/ /\ GateOpen /\ reply[e] = "sent"
              /\ run' = [run EXCEPT !.todo = Tail(Tail(@))] /\ UNCHANGED <<event, reply>>
           \/ /\ GateOpen /\ reply[e] = "leased"
              /\ \/ Fail(e, "retryable", "delivery") /\ UNCHANGED reply
                 \/ Fail(e, "terminal", "delivery") /\ SetReply(e, "unknown")
           \/ /\ GateOpen /\ reply[e] \in {"unknown", "failed"}
              /\ Fail(e, "terminal", "delivery") /\ UNCHANGED reply
        /\ UNCHANGED <<version, state, agents, checkpoint, transition>>
        /\ Interrupt

\* The answer of the provider; of a failure or of silence nothing is retried.
RecordResult ==
    LET e == run.event
    IN  /\ At("record")
        /\ \/ SetReply(e, "sent") /\ Advance /\ UNCHANGED event
           \/ \E s \in {"unknown", "failed"} :
                 SetReply(e, s) /\ Fail(e, "terminal", "delivery")
        /\ UNCHANGED <<version, state, agents, checkpoint, transition>>
        /\ Interrupt

\* Mutant: every conflict is taken for the work of people.
BadGivesWay == TRUE

GivesWay == ~agents \/ state \in WithPeople \cup {"closed"}

\* wasSupersededByHumanAction reads the conversation after the conflict.
AfterConflict ==
    /\ At("superseded")
    /\ IF GivesWay THEN run' = [run EXCEPT !.todo = <<"complete">>] /\ UNCHANGED event
       ELSE Fail(run.event, "retryable", "conflict")
    /\ UNCHANGED <<version, state, agents, checkpoint, transition, reply>>
    /\ Interrupt

\* Mutant: the rest of the batch stays open.
BadConsumed(f) == f = run.event

\* The open events of the batch are delivered with the one that carries it.
Consumed(f) ==
    \/ f = run.event
    \/ f \in run.batch /\ event[f].status = "open" /\ event[f].topic = "persisted"

\* completeOutboxExecution takes a batch from an inbound.persisted event only.
Complete ==
    LET e == run.event
        refused == run.batch # {} /\ event[e].topic # "persisted"
    IN  /\ At("complete")
        /\ IF refused THEN Fail(e, "retryable", "refused")
           ELSE /\ event' = [f \in Received |->
                     IF Consumed(f) THEN [event[f] EXCEPT !.status = "delivered"]
                     ELSE event[f]]
                /\ run' = NoRun
        /\ Unchanged
        /\ Interrupt

-----------------------------------------------------------------------------

Execute == \/ Validate \/ CheckChannel \/ Gather \/ Authorize
           \/ \E step \in {"before", "after", "handoff"} : Transit(step)
           \/ CreateReply \/ ClaimReply \/ RecordResult
           \/ AfterConflict \/ Complete

Next ==
    \/ \E kind \in Kind, proposalQueued \in BOOLEAN : Receive(kind, proposalQueued)
    \/ ExternalTakeover
    \/ \E o \in Operation : Operate(o)
    \/ \E on \in AgentsMayBe : SetAgents(on)
    \/ \E e \in Received : Start(e)
    \/ Execute
    \/ Fault

Spec == Init /\ [][Next]_vars

-----------------------------------------------------------------------------
(* Correctness *)

TypeOK ==
    /\ version \in Nat \ {0} /\ state \in State /\ agents \in BOOLEAN
    /\ event \in Seq(EventRow) /\ Len(event) <= MaxMessages
    /\ checkpoint \in [DOMAIN checkpoint -> Checkpoint] /\ DOMAIN checkpoint \subseteq Received
    /\ transition \in [DOMAIN transition -> 2..version]
    /\ DOMAIN transition \subseteq Received \X {"before", "after", "handoff"}
    /\ reply \in [DOMAIN reply ->
                    {"pending", "leased", "sent", "unknown", "failed", "handed"}]
    /\ DOMAIN reply \subseteq DOMAIN checkpoint
    /\ Running => run.event \in Received /\ event[run.event].status = "open"
    /\ interrupted \subseteq Received \X {"people", "pause"}

\* No text of the customer is answered by two replies.  Two cases are excepted: the
\* event that carried the first reply died after it was sent, or a retry of it met
\* a pause and concluded it without its batch; the batch is open again in both.
Answered(e, f) == e \in DOMAIN reply /\ reply[e] \in {"sent", "handed"}
                  /\ f \in checkpoint[e].batch
AnsweredOnce ==
    \A e, f, m \in Received :
        e < f /\ Answered(e, m) /\ Answered(f, m)
          => event[e].status = "dead" \/ <<e, "pause">> \in interrupted

\* A delivered event whose plan was to answer did everything the plan says, unless
\* people or a pause of the channel came in between, or an earlier reply took its
\* message with it: no conflict and no retry ends it silently.
Finished(e) ==
    LET p == checkpoint[e].plan
    IN  /\ p \notin {"observe", "suppress"} => e \in DOMAIN reply
        /\ p \in {"static", "answer", "renew", "collect", "summary"} => reply[e] = "sent"
        /\ p = "summary" => <<e, "after">> \in DOMAIN transition
ConcludedIsAnswered ==
    \A e \in DOMAIN checkpoint :
        event[e].status = "delivered" =>
            \/ Finished(e)
           \/ \E what \in {"people", "pause"} : <<e, what>> \in interrupted
            \/ \E d \in DOMAIN checkpoint : d < e /\ e \in checkpoint[d].batch

\* A reply is created from the conversation its plan was made for: every version
\* since the checkpoint was made by the event itself.
OwnTransitions(e) == {k \in DOMAIN transition : k[1] = e}
ReplyAnswersCurrentState ==
    [][\A e \in DOMAIN reply' \ DOMAIN reply :
          /\ OwnTransitions(e) = {} => version = checkpoint[e].version
          /\ \A k \in OwnTransitions(e) : version = transition[k]]_vars

\* The provider's test: events that wait while the agents of the channel are off are
\* concluded.  The queue then refuses none of them.
PausedEventIsConcluded == \A e \in Received : event[e].error # "refused"
=============================================================================
