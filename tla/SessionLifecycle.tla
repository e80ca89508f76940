-------------------------- MODULE SessionLifecycle --------------------------
(***************************************************************************)
(* The session in foreground of one thread, from the first message of the  *)
(* customer to the closing by the AI: the question that is left            *)
(* unanswered, the reminder, the closing and its public code, the return   *)
(* of the customer, and the operators who take part meanwhile.             *)
(*                                                                         *)
(* A transaction of the webhook, of the automation and of the worker holds *)
(* the locks of the conversation and of the lifecycle; a command of an     *)
(* operator holds the lock of the thread only.  The two long transactions  *)
(* that read before they write, the reception of a message and the claim   *)
(* of a dispatch, are therefore two steps, between which operators act.    *)
(***************************************************************************)
EXTENDS Integers, Sequences

CONSTANTS
    MaxMessages,   \* bound: customers, AI and people write while fewer exist
    PanelCommand   \* the transitions of the older panel that people use

ASSUME LifecycleAssumption ==
    /\ MaxMessages \in Nat \ {0}
    /\ PanelCommand \subseteq {"take-over", "return", "close", "mark-read"}

VARIABLES
    session,       \* the row of service_sessions in foreground or, else, closed last
    conversation,  \* conversationState
    messages,      \* whatsapp_messages of the thread in order of creation
    transit,       \* a message of the customer on its way, and what overtook it
    receiving,     \* what a reception read of the session
    claiming,      \* the message whose claim passed its gate
    agents,        \* WhatsAppChannel.agentsEnabled
    hindered       \* work of the session, or other sessions, keep the worker from closing it

vars == <<session, conversation, messages, transit, receiving, claiming, agents, hindered>>
world == <<transit, agents, hindered>>

None == "none"
AutomaticReply == {"request", "resolution", "reply"}
Kind == AutomaticReply \cup {"customer", "people", "reminder", "closure"}

\* first is the place of its first message; undecided, of a message whose continuity
\* no classifier decided yet; formerCode says that the session before it has a code.
Session ==
    [status : {"open", "closing", "closed"}, control : {"ai", "human"},
     resolved : BOOLEAN, closer : {None, "ai", "people"}, code : BOOLEAN,
     formerCode : BOOLEAN, first : Nat, undecided : Nat]

Message == [kind : Kind, status : {"received", "pending", "sent", "failed"}, waited : BOOLEAN]

Busy == receiving # None \/ claiming # 0
Last == Len(messages)
Latest == messages[Last]
HasMessage == session.first <= Last

Outbound(kind) == [kind |-> kind, status |-> "pending", waited |-> FALSE]

-----------------------------------------------------------------------------
(* Reception of a message of the customer *)

CustomerSends ==
    /\ transit = None /\ Last < MaxMessages
    /\ transit' = "fresh"
    /\ UNCHANGED <<session, conversation, messages, receiving, claiming, agents, hindered>>

\* ensureFoundationForConversation with a session in foreground: a message stops the
\* closing and takes the resolution back.  Without, it reopens the session that closed
\* last, or starts one when that was long ago.
Reopened ==
    [session EXCEPT !.status = "open", !.control = "ai", !.resolved = FALSE,
                    !.closer = None, !.code = FALSE]
Foundation ==
    CASE session.status = "closing" ->
           {[session EXCEPT !.status = "open", !.resolved = FALSE]}
      [] session.status = "open" -> {[session EXCEPT !.resolved = FALSE]}
      [] OTHER ->
           {Reopened, [Reopened EXCEPT !.undecided = Last + 1],
            [Reopened EXCEPT !.formerCode = session.code,
                             !.first = Last + 1, !.undecided = 0]}

\* decideServiceContinuity refuses a message that is a second older than the closing.
Refused == session.status = "closed" /\ transit = "overtaken"

Receive ==
    /\ transit # None /\ ~Busy
    /\ \E row \in Foundation :
         /\ session' = row
         /\ receiving' = IF row = session THEN row.control ELSE "wrote"
    /\ UNCHANGED <<conversation, messages, claiming, world>>

Refuse ==
    /\ ~Busy /\ Refused
    /\ transit' = None
    /\ UNCHANGED <<session, conversation, messages, receiving, claiming, agents, hindered>>

\* An operator changed what the reception read.  The session follows the conversation
\* unless people held the session alone: the version it read then conflicts.
Stale == receiving \in {"ai", "human"} /\ (receiving # session.control \/ session.status = "closed")
Synchronizes == receiving = "ai" \/ conversation = "people"

Record ==
    /\ receiving # None /\ ~(Stale /\ Synchronizes)
    /\ messages' = Append(messages, [kind |-> "customer", status |-> "received", waited |-> FALSE])
    /\ conversation' = IF conversation = "closed" /\ receiving = "wrote" THEN "bot" ELSE conversation
    /\ transit' = None /\ receiving' = None
    /\ UNCHANGED <<session, claiming, agents, hindered>>

\* The conflict is answered to the provider; nothing of the message is kept.
Conflict ==
    /\ receiving # None /\ Stale /\ Synchronizes
    /\ transit' = None /\ receiving' = None
    /\ UNCHANGED <<session, conversation, messages, claiming, agents, hindered>>

\* applyContinuityClassification, before the session changes again.  A new subject
\* closes the session that the message reopened and takes the messages since.
Pending == session.undecided \in 1..Last
Undecided == Pending /\ ~Busy /\ session.status = "open" /\ session.control = "ai"
\* The session of the former subject closes, another starts with the message.
Related == [session EXCEPT !.first = session.undecided, !.undecided = 0,
                           !.formerCode = FALSE, !.resolved = FALSE]
NewSubject ==
    /\ Undecided
    /\ session' = Related
    /\ UNCHANGED <<conversation, messages, receiving, claiming, world>>
Continuation ==
    /\ Undecided
    /\ session' = [session EXCEPT !.undecided = 0]
    /\ UNCHANGED <<conversation, messages, receiving, claiming, world>>

-----------------------------------------------------------------------------
(* Automatic messages and their dispatch *)

\* assertSessionAllowsAutomaticReply.
AllowsReply ==
    /\ agents /\ conversation = "bot"
    /\ session.control = "ai" /\ session.status = "open"

\* createOutbound, for the message that the automation answers.
AiWrites(kind) ==
    /\ ~Busy /\ AllowsReply /\ Last < MaxMessages
    /\ HasMessage /\ Latest.kind = "customer"
    /\ messages' = Append(messages, Outbound(kind))
    /\ session' = [session EXCEPT !.resolved = @ \/ kind = "resolution"]
    /\ UNCHANGED <<conversation, receiving, claiming, world>>

\* The gates of claimEvolutionDispatch.
Allowed(i) ==
    CASE messages[i].kind = "closure" ->
           IF i < session.first THEN session.formerCode
           ELSE session.status = "closed" /\ session.code
      [] messages[i].kind = "reminder" ->
           agents /\ session.status = "closing" /\ i >= session.first
      [] OTHER -> AllowsReply /\ i >= session.first

Claim(i) ==
    /\ ~Busy /\ messages[i].status = "pending" /\ Allowed(i)
    /\ claiming' = i
    /\ UNCHANGED <<session, conversation, messages, receiving, world>>

\* The claim commits, and the provider takes the message or refuses it.
Dispatch ==
    /\ claiming # 0
    /\ \E outcome \in {"sent", "failed"} :
         messages' = [messages EXCEPT ![claiming].status = outcome]
    /\ claiming' = 0
    /\ UNCHANGED <<session, conversation, receiving, world>>

\* The gate refuses every attempt.
GiveUp(i) ==
    /\ ~Busy /\ messages[i].status = "pending" /\ ~Allowed(i)
    /\ messages' = [messages EXCEPT ![i].status = "failed"]
    /\ UNCHANGED <<session, conversation, receiving, claiming, world>>

-----------------------------------------------------------------------------
(* The worker of the lifecycle *)

\* The delay after the dispatch of a question, or of its reminder, is over.
Wait ==
    /\ Last > 0 /\ Latest.kind \in {"request", "reminder"}
    /\ Latest.status = "sent" /\ ~Latest.waited
    /\ messages' = [messages EXCEPT ![Last].waited = TRUE]
    /\ UNCHANGED <<session, conversation, receiving, claiming, world>>

Held == ~agents \/ hindered \/ conversation # "bot" \/ session.control = "human"
Settled == HasMessage /\ Latest.kind = "resolution" /\ Latest.status = "sent" /\ session.resolved
\* Mutant: only the question is ever timed.
BadTimedOut(kind) == HasMessage /\ Latest.kind = "request" /\ Latest.waited
TimedOut(kind) == HasMessage /\ Latest.kind = kind /\ Latest.waited

\* beginAiServiceSessionClosing.
Begin ==
    /\ ~Busy /\ session.status = "open" /\ ~Held
    /\ \A i \in session.first .. Last : messages[i].status # "pending"
    /\ Settled \/ TimedOut("request")
    /\ session' = [session EXCEPT !.status = "closing"]
    /\ messages' = IF Settled THEN messages ELSE Append(messages, Outbound("reminder"))
    /\ UNCHANGED <<conversation, receiving, claiming, world>>

\* A message on its way was sent before the session closed.
Overtaken == IF transit = None THEN None ELSE "overtaken"

\* The conversation closes with the session, and the customer is told.
Farewell == conversation' = "closed" /\ messages' = Append(messages, Outbound("closure"))

\* Mutant: the closing does not wait for the reminder.
BadFinish ==
    /\ ~Busy /\ session.status = "closing" /\ ~Held
    /\ session' = [session EXCEPT !.status = "closed", !.closer = "ai", !.code = TRUE]
    /\ Farewell
    /\ transit' = Overtaken
    /\ UNCHANGED <<receiving, claiming, agents, hindered>>
\* finishAiServiceSessionClosing.
Finish ==
    /\ ~Busy /\ session.status = "closing" /\ ~Held
    /\ Settled \/ TimedOut("reminder")
    /\ session' = [session EXCEPT !.status = "closed", !.closer = "ai", !.code = TRUE]
    /\ Farewell
    /\ transit' = Overtaken
    /\ UNCHANGED <<receiving, claiming, agents, hindered>>

-----------------------------------------------------------------------------
(* People *)

\* Commands on sessions; ServicePriority has the coordination of several.
Uncommitted == receiving = "wrote"
Operate(control, status) ==
    /\ ~Uncommitted /\ session.status # "closed"
    /\ session' = [session EXCEPT !.status = status, !.control = control,
                                  !.closer = IF status = "closed" THEN "people" ELSE None,
                                  !.code = status = "closed"]
    /\ conversation' = CASE status = "closed" -> "closed"
                         [] control = "human" -> "people"
                         [] OTHER -> "bot"
    /\ transit' = IF status = "closed" THEN Overtaken ELSE transit
    /\ UNCHANGED <<messages, receiving, claiming, agents, hindered>>

Assume == Operate("human", "open")
ReturnToAi == session.control = "human" /\ Operate("ai", "open")
Close == session.control = "human" /\ Operate("ai", "closed")

\* transition() takes the session in foreground, or starts one that follows.
Synchronized(status, control, newConversation) ==
    /\ ~Busy
    /\ session' = IF session.status = "closed"
                  THEN [Reopened EXCEPT !.status = status, !.control = control,
                                        !.first = Last + 1, !.undecided = 0,
                                        !.formerCode = session.code]
                  ELSE [session EXCEPT !.status = status, !.control = control,
                                       !.closer = IF status = "closed" THEN "people" ELSE None]
    /\ conversation' = newConversation
    /\ transit' = IF status = "closed" THEN Overtaken ELSE transit

Panel(command) ==
    /\ \/ command = "take-over" /\ Synchronized("open", "human", "people")
       \/ /\ command = "return" /\ conversation = "people"
          /\ Synchronized("open", "ai", "bot")
       \/ /\ command = "close" /\ conversation # "closed"
          /\ Synchronized("closed", "ai", "closed")
       \/ /\ command = "mark-read" /\ conversation # "closed"
          /\ Synchronized("open", session.control, conversation)
    /\ UNCHANGED <<messages, receiving, claiming, agents, hindered>>

\* createHumanOutbound, or a message from the phone that takes the session over.
PeopleWrite(fromPhone) ==
    /\ Last < MaxMessages
    /\ fromPhone \/ (conversation = "people" /\ session.control = "human")
    /\ Synchronized("open", "human", "people")
    /\ messages' = Append(messages, [kind |-> "people", status |-> "sent", waited |-> FALSE])
    /\ UNCHANGED <<receiving, claiming, agents, hindered>>

SwitchAgents ==
    /\ agents' = ~agents
    /\ UNCHANGED <<session, conversation, messages, transit, receiving, claiming, hindered>>

\* What keeps the worker from closing comes or goes: a quote under review or approved, a
\* pending action, a document of a proposal that is not sent, and the older sessions of
\* other threads that its scan lists, cannot close and lists again, when they fill the limit.
Hinder ==
    /\ hindered' = ~hindered
    /\ UNCHANGED <<session, conversation, messages, transit, receiving, claiming, agents>>

-----------------------------------------------------------------------------
(* Specification *)

Init ==
    /\ session = [status |-> "closed", control |-> "ai", resolved |-> FALSE,
                  closer |-> "people", code |-> FALSE, formerCode |-> FALSE,
                  first |-> 1, undecided |-> 0]
    /\ conversation = "closed" /\ messages = <<>> /\ transit = None
    /\ receiving = None /\ claiming = 0
    /\ agents = TRUE /\ hindered = FALSE

Next ==
    \/ CustomerSends \/ Receive \/ Refuse \/ Record \/ Conflict
    \/ NewSubject \/ Continuation
    \/ \E kind \in AutomaticReply : AiWrites(kind)
    \/ \E i \in 1 .. Last : Claim(i) \/ GiveUp(i)
    \/ Dispatch \/ Wait \/ Begin \/ Finish
    \/ Assume \/ ReturnToAi \/ Close
    \/ \E command \in PanelCommand : Panel(command)
    \/ \E fromPhone \in BOOLEAN : PeopleWrite(fromPhone)
    \/ SwitchAgents \/ Hinder

\* The worker and the dispatcher tick forever and time passes; the locks that their
\* transactions wait for are granted in the order of the requests.
Fairness ==
    /\ WF_vars(Record \/ Conflict) /\ WF_vars(Dispatch) /\ WF_vars(Wait)
    /\ SF_vars(Begin) /\ SF_vars(Finish)
    /\ SF_vars(\E i \in 1 .. Last : Claim(i)) /\ SF_vars(\E i \in 1 .. Last : GiveUp(i))

Spec == Init /\ [][Next]_vars
FairSpec == Spec /\ Fairness

-----------------------------------------------------------------------------
(* Properties *)

\* Well formed, and the two transactions that hold the locks of the thread exclude
\* each other.
TypeOK ==
    /\ session \in Session
    /\ conversation \in {"bot", "people", "closed"}
    /\ messages \in Seq(Message)
    /\ transit \in {None, "fresh", "overtaken"}
    /\ receiving \in {None, "wrote", "ai", "human"}
    /\ claiming \in 0 .. Last
    /\ receiving = None \/ claiming = 0
    /\ claiming # 0 => messages[claiming].status = "pending"
    /\ agents \in BOOLEAN /\ hindered \in BOOLEAN

\* A session closes only while the customer stays silent: whatever was received,
\* reopened or reclassified since, a closing session has the reminder or the
\* resolution as its latest message.
ClosingIsUnanswered ==
    session.status = "closing" =>
        HasMessage /\ Latest.kind \in {"reminder", "resolution"}

\* The AI closed the session, so the customer has left a reminder that was sent, or a
\* resolution, unanswered: nothing but the closure came after it, even when a
\* reception, an operator and the worker met.
ClosedUnanswered ==
    session.closer = "ai" =>
        \E i \in session.first .. Last :
            /\ messages[i].kind \in {"reminder", "resolution"} /\ messages[i].status = "sent"
            /\ \A j \in i + 1 .. Last : messages[j].kind = "closure"

\* A question was sent, and nobody but the customer is waited for.
Asked == HasMessage /\ Latest.kind = "request" /\ Latest.status = "sent"
Prevented == Held \/ transit # None \/ (HasMessage /\ Latest.kind = "customer")
Failed == HasMessage /\ Latest.status = "failed"
\* Somebody read the conversation and the reminder is the latest message for good.
Stopped == session.status = "open" /\ HasMessage /\ Latest.kind = "reminder"

\* A question that the customer leaves unanswered ends in a closed session, unless
\* people, unfinished work of the session, sessions that fill the scan, the customer or a
\* failed dispatch come in, or mark-read stops it.
EventuallyCloses == Asked ~> (session.status = "closed" \/ Prevented \/ Failed \/ Stopped)

\* The same without the exception: docs/whatsapp-human-assistance.md lists what ends the
\* wait of a question, and reading is not in the list.
ReadingDoesNotStop == Asked ~> (session.status = "closed" \/ Prevented \/ Failed)
=============================================================================
