--------------------------- MODULE ServicePriority ---------------------------
(***************************************************************************)
(* The service sessions of one thread and which of them is in foreground:  *)
(* the operator's commands with the coordination of priorities of          *)
(* PrismaServiceSessionManagementRepository.mutate, the conversation that  *)
(* the older panel shows and its own transitions, the messages that reach  *)
(* the thread, and the closing by the AI.                                  *)
(*                                                                         *)
(* A command is one step: execute() computes the next row from the row it  *)
(* read, mutate() writes it under the version it expects, in a             *)
(* serializable transaction, every write of a row raises its version, and  *)
(* whatever brings a session to the foreground writes the conversation     *)
(* too, which a command that promotes one writes as well.                  *)
(*                                                                         *)
(* Transitions, closings and messages take turns: they hold the lock of    *)
(* the conversation.  Commands do not take it.  The others write what they *)
(* read under its version; a message reads the conversation, then the      *)
(* session in foreground, and may write both unconditionally, so it is     *)
(* three steps with commands between them.                                 *)
(***************************************************************************)
EXTENDS Integers, FiniteSets

CONSTANTS
    Session,  \* bound: rows of service_sessions of the thread
    User,     \* attendants
    Queue,    \* service queues
    Weight,   \* priorityWeight of a queue
    Urgency,  \* ServiceSession.priority, in order
    Normal,   \* the priority of a new row
    DepartmentWeight,  \* of the best enabled queue of the department, 0 without one
    None      \* no user, no queue, no session, no message

ASSUME PriorityAssumption ==
    /\ None \notin Session \cup User \cup Queue
    /\ Weight \in [Queue -> Nat] /\ DepartmentWeight \in Nat
    /\ Urgency \subseteq Nat /\ Normal \in Urgency

VARIABLES
    session,       \* the rows, with the latest priority-interrupted event of each
    conversation,  \* WhatsAppConversation: conversationState, assignedToUserId
    arriving,      \* what the transaction of a message has read so far, or None
    parted         \* history: a command overtook a message that was then stored

vars == <<session, conversation, arriving, parted>>

Restorable == {"open", "waiting-customer", "waiting-human"}
Status == Restorable \cup {"absent", "paused", "closing", "closed"}
Control == {"ai", "human"}

\* by and previous are the interrupter and the status that the event recorded.
Row == [status : Status, control : Control, foreground : BOOLEAN, urgency : Urgency,
        user : User \cup {None}, queue : Queue \cup {None},
        by : Session \cup {None}, previous : Restorable]

\* queued: sent-to-human; waiting: a quote summary waits for its confirmation.
WithPeople == {"queued", "human"}
ConversationState == {"bot", "waiting", "closed"} \cup WithPeople
Facade == {c \in [state : ConversationState, user : User \cup {None}] :
             c.state = "human" <=> c.user # None}

\* read: the conversation as the message found it; free: it then found no session in
\* foreground; stale: a command has written the conversation since.
Message == [read : Facade, free : BOOLEAN, stale : BOOLEAN]

Live(s) == session[s].status \notin {"absent", "closed"}
Foreground == {s \in Session : session[s].foreground}

-----------------------------------------------------------------------------
(* Priorities *)

\* Nothing reads who had a closed row before a reopening resets it.
Shut(row) ==
    [row EXCEPT !.status = "closed", !.foreground = FALSE,
                !.control = "ai", !.user = None, !.queue = None]

\* Urgency first; the weight of the queue, or of the department's best, breaks its ties.
Higher(first, second) ==
    LET weight(r) == IF r.queue = None THEN DepartmentWeight ELSE Weight[r.queue]
    IN  \/ first.urgency > second.urgency
        \/ first.urgency = second.urgency /\ weight(first) > weight(second)

\* decidePriorityInterruption.
Interrupts(challenger, foreground) == Higher(challenger, foreground)

\* The paused sessions whose latest interruption names s.
Linked(s) == {p \in Session \ {s} : session[p].status = "paused" /\ session[p].by = s}

\* selectPriorityResumeCandidate; recency and id decide among equals.
Best(candidates) ==
    {p \in candidates : \A q \in candidates : ~Higher(session[q], session[p])}

\* An interruption is recorded with the status that row had; an event that recorded
\* another status is not read, and an older one of the session is.
Paused(row, before, interrupter) ==
    LET readable == before \in Restorable
    IN  [row EXCEPT !.status = "paused", !.foreground = FALSE,
                    !.by = IF readable THEN interrupter ELSE @,
                    !.previous = IF readable THEN before ELSE @]

Resumed(row) == [row EXCEPT !.status = row.previous, !.foreground = TRUE]

-----------------------------------------------------------------------------
(* The conversation of the older panel *)

\* serviceSessionStateForConversation: the row that shows conversation c.
\* Mutant: a closed conversation keeps its session in foreground.
BadSynchronized(row, c) ==
    [row EXCEPT !.status = CASE c.state = "waiting" -> "waiting-customer"
                             [] c.state = "queued" -> "waiting-human"
                             [] OTHER -> "open",
                !.control = IF c.state \in WithPeople THEN "human" ELSE "ai",
                !.foreground = TRUE,
                !.user = IF c.state \in WithPeople THEN c.user ELSE None]
Synchronized(row, c) ==
    IF c.state = "closed" THEN Shut(row)
    ELSE [row EXCEPT !.status = CASE c.state = "waiting" -> "waiting-customer"
                                  [] c.state = "queued" -> "waiting-human"
                                  [] OTHER -> "open",
                     !.control = IF c.state \in WithPeople THEN "human" ELSE "ai",
                     !.foreground = TRUE,
                     !.user = IF c.state \in WithPeople THEN c.user ELSE None]

Projected(row, c) ==
    CASE row.status = "closed" -> [state |-> "closed", user |-> None]
      [] row.status # "closed" /\ row.control = "human" ->
           [state |-> IF row.user = None THEN "queued" ELSE "human", user |-> row.user]
      [] OTHER ->
           [state |-> IF c.state \in WithPeople \cup {"closed"} THEN "bot" ELSE c.state,
            user |-> None]

\* A closed conversation cannot be forwarded: the whole command fails.
CanProject(row, c) ==
    ~(row.status # "closed" /\ row.control = "human" /\ row.user = None /\ c.state = "closed")

-----------------------------------------------------------------------------
(* Commands of operators *)

Command ==
    [type : {"assume"}, user : User]
    \cup [type : {"return-to-ai", "close"}]
    \cup [type : {"return-to-queue"}, queue : Queue]
    \cup [type : {"transfer"}, user : User \cup {None}, queue : Queue \cup {None}]
    \cup [type : {"change-priority"}, urgency : Urgency]

\* The guards of evolveServiceSession.
Accepts(row, c) ==
    /\ row.status \notin {"absent", "closed"}
    /\ c.type \in {"return-to-queue", "return-to-ai", "close"} => row.control = "human"

Evolved(row, c) ==
    CASE c.type = "assume" ->
           [row EXCEPT !.status = "open", !.control = "human", !.user = c.user]
      [] c.type = "return-to-queue" ->
           [row EXCEPT !.status = "waiting-human", !.user = None, !.queue = c.queue]
      [] c.type = "return-to-ai" ->
           [row EXCEPT !.status = "open", !.control = "ai", !.user = None, !.queue = None]
      [] c.type = "transfer" ->
           [row EXCEPT !.status = IF c.user = None THEN "waiting-human" ELSE "open",
                       !.control = "human", !.user = c.user, !.queue = c.queue]
      [] c.type = "change-priority" -> [row EXCEPT !.urgency = c.urgency]
      [] OTHER -> Shut(row)

\* resolveAutomaticAssignment: the queue may have an eligible attendant.
Assigned(row, c) ==
    {row} \cup
    (IF c.type \in {"return-to-queue", "transfer"} /\ row.user = None /\ row.queue # None
     THEN {[row EXCEPT !.status = "open", !.user = u] : u \in User} ELSE {})

\* The conversation follows row, which is in foreground or closed after the step.
Show(row) == CanProject(row, conversation) /\ conversation' = Projected(row, conversation)

\* The target is in foreground and stays there.
KeepsForeground(s, after) ==
    /\ session[s].foreground /\ after.status # "closed"
    /\ \A p \in Best(Linked(s)) : ~Interrupts(session[p], after)
    /\ session' = [session EXCEPT ![s] = after]
    /\ Show(after)

\* It lost priority to a session that it had interrupted.  The closing fields of a
\* closing session would break a constraint of the table: that command fails.
YieldsForeground(s, after) ==
    /\ session[s].foreground /\ after.status \notin {"closing", "closed"}
    /\ \E p \in Best(Linked(s)) :
         /\ Interrupts(session[p], after)
         /\ session' = [session EXCEPT
              ![s] = Paused(after, session[s].status, p),
              ![p] = Resumed(@)]
         /\ Show(Resumed(session[p]))

\* It closes, and the best session that it had interrupted is resumed.
ClosesForeground(s, after) ==
    /\ session[s].foreground /\ after.status = "closed"
    /\ \/ /\ Linked(s) = {} /\ session' = [session EXCEPT ![s] = after]
          /\ Show(after)
       \/ \E p \in Best(Linked(s)) :
            /\ session' = [session EXCEPT ![s] = after, ![p] = Resumed(@)]
            /\ Show(Resumed(session[p]))

\* A session in background whose status may challenge the foreground.
Challenges(after) == after.status \in {"open", "waiting-human", "paused"}
Interruptible(row) == row.status \in Restorable

\* The row that reaches the foreground: a paused one has its status restored, by
\* safeResumeFallback when no interruption of it can be read.
Promoted(after) ==
    CASE after.status # "paused" -> [after EXCEPT !.foreground = TRUE]
      [] after.status = "paused" /\ after.by # None -> Resumed(after)
      [] OTHER ->
           [after EXCEPT !.foreground = TRUE,
              !.status = IF after.control = "human" /\ after.user = None /\ after.queue # None
                         THEN "waiting-human" ELSE "open"]

TakesFreeForeground(s, after) ==
    /\ ~session[s].foreground /\ Challenges(after) /\ Foreground = {}
    /\ session' = [session EXCEPT ![s] = Promoted(after)]
    /\ Show(Promoted(after))

InterruptsForeground(s, after) ==
    /\ ~session[s].foreground /\ Challenges(after)
    /\ \E f \in Foreground :
         /\ Interruptible(session[f]) /\ Interrupts(after, session[f])
         /\ session' = [session EXCEPT ![s] = Promoted(after), ![f] = Paused(@, @.status, s)]
         /\ Show(Promoted(after))

\* A paused session stays paused whatever the command made of its status.
StaysBackground(s, after) ==
    /\ ~session[s].foreground
    /\ \/ ~Challenges(after)
       \/ \E f \in Foreground :
            ~(Interruptible(session[f]) /\ Interrupts(after, session[f]))
    /\ session' = [session EXCEPT
         ![s] = IF Challenges(after) /\ @.status = "paused"
                THEN [after EXCEPT !.status = "paused"] ELSE after]
    /\ UNCHANGED conversation

Operate(s, c) ==
    /\ Accepts(session[s], c)
    /\ \E after \in Assigned(Evolved(session[s], c), c) :
         \/ KeepsForeground(s, after) \/ YieldsForeground(s, after)
         \/ ClosesForeground(s, after) \/ TakesFreeForeground(s, after)
         \/ InterruptsForeground(s, after) \/ StaysBackground(s, after)
    /\ arriving' = IF arriving # None /\ conversation' # conversation
                   THEN [arriving EXCEPT !.stale = TRUE] ELSE arriving
    /\ UNCHANGED parted

-----------------------------------------------------------------------------
(* Transitions of the older panel and of the automation *)

Fresh(row) ==
    [row EXCEPT !.status = "open", !.control = "ai", !.foreground = TRUE,
                !.user = None, !.queue = None]

\* ensureFoundationForConversation: the session in foreground, or else a new one.
Foundation(s) ==
    IF Foreground # {} THEN s \in Foreground ELSE session[s].status = "absent"

\* transition(): the conversation becomes c and its session follows.  queue and
\* urgency are those of an automatic handoff.  A person must hold a human one.
Transition(c, queue, urgency) ==
    /\ arriving = None /\ UNCHANGED <<arriving, parted>>
    /\ c.state = "human" => c.user # None
    /\ conversation' = c
    /\ \E s \in Session :
         /\ Foundation(s)
         /\ session' = [session EXCEPT
              ![s] = Synchronized([@ EXCEPT !.queue = queue[s], !.urgency = urgency[s]], c)]

Queues == [s \in Session |-> session[s].queue]
Urgencies == [s \in Session |-> session[s].urgency]

TakeOver(u) == Transition([state |-> "human", user |-> u], Queues, Urgencies)

\* forward by a person, or by the automation with the queue it chose and the
\* priority that the agent gave the session.
Forward ==
    /\ conversation.state # "closed"
    /\ Transition([state |-> "queued", user |-> None], Queues, Urgencies)
HandOff(q, u) ==
    /\ conversation.state # "closed"
    /\ Transition([state |-> "queued", user |-> None],
                  [s \in Session |-> q], [s \in Session |-> u])

ReturnToBot ==
    /\ conversation.state = "human"
    /\ Transition([state |-> "bot", user |-> None], Queues, Urgencies)

\* An attendant lets the automation collect a quote.
StartAssistedQuote ==
    /\ conversation.state \in WithPeople
    /\ \E s \in Foreground : session[s].control = "human"
    /\ Transition([state |-> "bot", user |-> None], [s \in Session |-> None], Urgencies)

PresentQuoteSummary ==
    /\ conversation.state = "bot"
    /\ Transition([state |-> "waiting", user |-> None], Queues, Urgencies)

\* mark-read and archive leave the conversation as it is; its session follows still.
\* archive takes a closed conversation too, for which a closed session is created.
Annotate == Transition(conversation, Queues, Urgencies)

PanelClose ==
    /\ conversation.state # "closed"
    /\ Transition([state |-> "closed", user |-> None], Queues, Urgencies)

-----------------------------------------------------------------------------
(* Messages of the thread and the closing by the AI *)

\* persistWebhookMessageOnce: the lock of the conversation, and what it says.
MessageArrives ==
    /\ arriving = None
    /\ arriving' = [read |-> conversation, free |-> FALSE, stale |-> FALSE]
    /\ UNCHANGED <<session, conversation, parted>>

\* ensureFoundationForConversation finds no session in foreground.
MessageFindsNobody ==
    /\ arriving # None /\ ~arriving.free /\ Foreground = {}
    /\ arriving' = [arriving EXCEPT !.free = TRUE]
    /\ UNCHANGED <<session, conversation, parted>>

\* service_sessions_one_foreground_per_thread_key, the partial unique index: a session
\* comes to the foreground alone.
\* Mutant: without the index.
BadAlone(s) == TRUE
Alone(s) == Foreground \subseteq {s}

\* The session that stores the message: the one in foreground, or else one that had
\* closed and that the message reopens, or a new one.
Reached(s, opened) ==
    IF arriving.free THEN session[s].status \in opened /\ Alone(s) ELSE s \in Foreground

\* A new row shows the conversation that the message read, a reopened one the automation.
Answered(row) ==
    LET read == arriving.read
    IN  CASE row.status = "absent" ->
               Synchronized(row, IF read.state = "closed" THEN [state |-> "bot", user |-> None]
                                 ELSE read)
          [] row.status = "closed" -> Fresh(row)
          [] row.status = "closing" -> [row EXCEPT !.status = "open"]
          [] OTHER -> row

\* The message is stored.
MessageEnds == arriving' = None /\ parted' = (parted \/ arriving.stale)

\* persistWebhookMessageOnce, inbound: the conversation it found closed goes to the bot,
\* whatever version it has by now; a text answers a quote summary; the session follows
\* the conversation unless people hold only the session.
CustomerMessage(text) ==
    LET met == IF arriving.read.state = "closed" THEN [state |-> "bot", user |-> None]
               ELSE conversation
        c == IF met.state = "waiting" /\ text THEN [state |-> "bot", user |-> None] ELSE met
    IN  /\ arriving # None /\ MessageEnds
        /\ conversation' = c
        /\ \E s \in Session :
             /\ Reached(s, {"absent", "closed"})
             /\ session' = [session EXCEPT
                  ![s] = IF Answered(@).control = "ai" \/ c.state \in WithPeople
                         THEN Synchronized(Answered(@), c) ELSE Answered(@)]

\* persistWebhookMessageOnce, fromMe: somebody wrote from the phone.  A conversation that
\* was not with people changes under the version it had.
ExternalMessage ==
    /\ arriving # None /\ MessageEnds
    /\ \/ arriving.read.state \in WithPeople /\ UNCHANGED conversation
       \/ /\ arriving.read.state \notin WithPeople /\ ~arriving.stale
          /\ conversation' = [state |-> "queued", user |-> None]
    /\ \E s \in Session :
         /\ Reached(s, {"absent"})
         /\ session' = [session EXCEPT
              ![s] = [@ EXCEPT !.status = "open", !.control = "human",
                               !.foreground = TRUE, !.user = None]]

\* The index or the version of the conversation stops it: nothing is written.
MessageRefused ==
    /\ arriving # None
    /\ \/ arriving.free /\ Foreground # {}
       \/ arriving.stale /\ arriving.read.state \notin WithPeople
    /\ arriving' = None /\ UNCHANGED <<session, conversation, parted>>

HeldByBot ==
    /\ arriving = None /\ conversation.state \in {"bot", "waiting"} /\ conversation.user = None

\* beginAiServiceSessionClosing; SessionLifecycle has its other conditions.
BeginClosing(s) ==
    /\ HeldByBot
    /\ session[s].foreground /\ session[s].control = "ai"
    /\ session[s].status \in {"open", "waiting-customer"}
    /\ session' = [session EXCEPT ![s].status = "closing"]
    /\ UNCHANGED <<conversation, arriving, parted>>

\* The conversation that shows the session resumed by the automatic closing.
Reshown(row) ==
    [state |-> CASE row.control = "human" -> IF row.user # None THEN "human" ELSE "queued"
                 [] row.control = "ai" /\ row.status = "waiting-customer" -> "waiting"
                 [] OTHER -> "bot",
     user |-> row.user]

\* Mutant: the automatic closing promotes nobody.
BadFinishClosing(s) ==
    /\ HeldByBot
    /\ session[s].foreground /\ session[s].control = "ai" /\ session[s].status = "closing"
    /\ session' = [session EXCEPT ![s] = Shut(@)]
    /\ conversation' = [state |-> "closed", user |-> None]
    /\ UNCHANGED <<arriving, parted>>
\* finishAiServiceSessionClosing.
FinishClosing(s) ==
    /\ HeldByBot
    /\ session[s].foreground /\ session[s].control = "ai" /\ session[s].status = "closing"
    /\ \/ /\ Linked(s) = {} /\ session' = [session EXCEPT ![s] = Shut(@)]
          /\ conversation' = [state |-> "closed", user |-> None]
       \/ \E p \in Best(Linked(s)) :
            /\ session' = [session EXCEPT ![s] = Shut(@), ![p] = Resumed(@)]
            /\ conversation' = Reshown(Resumed(session[p]))
    /\ UNCHANGED <<arriving, parted>>

\* classifyContinuity, NEW_SUBJECT: the reopened session closes and a new one takes the
\* message.  The decision that waits for the classifier is not followed: any open session
\* of the automation may have one.
NewSubject(s, new) ==
    /\ arriving = None /\ session[new].status = "absent"
    /\ session[s].foreground /\ session[s].control = "ai" /\ session[s].status = "open"
    /\ session' = [session EXCEPT ![s] = Shut(@), ![new] = Fresh(@)]
    /\ UNCHANGED <<conversation, arriving, parted>>

-----------------------------------------------------------------------------
(* Specification *)

NoRow == [status |-> "absent", control |-> "ai", foreground |-> FALSE,
          urgency |-> Normal, user |-> None, queue |-> None, by |-> None, previous |-> "open"]

\* The rows that the thread may already have: one in foreground, which the AI or
\* people hold, and others in background, which people wait for.
Init ==
    \E f \in Session, waiting \in SUBSET Session, q \in Queue, held \in Control :
      /\ f \notin waiting
      /\ session = [s \in Session |->
           CASE s = f -> [NoRow EXCEPT !.status = IF held = "ai" THEN "open" ELSE "waiting-human",
                                       !.control = held, !.foreground = TRUE]
             [] s \in waiting -> [NoRow EXCEPT !.status = "waiting-human",
                                               !.control = "human", !.queue = q]
             [] OTHER -> NoRow]
      /\ conversation = [state |-> IF held = "ai" THEN "bot" ELSE "queued", user |-> None]
      /\ arriving = None /\ parted = FALSE

\* The writers that coordinate priorities when they close s.
Coordinates(s) == FinishClosing(s) \/ \E c \in Command : Operate(s, c)

Next ==
    \/ \E s \in Session, c \in Command : Operate(s, c)
    \/ \E u \in User : TakeOver(u)
    \/ Forward \/ ReturnToBot \/ StartAssistedQuote \/ PresentQuoteSummary
    \/ Annotate \/ PanelClose
    \/ \E q \in Queue, u \in Urgency : HandOff(q, u)
    \/ MessageArrives \/ MessageFindsNobody \/ MessageRefused
    \/ ExternalMessage \/ \E text \in BOOLEAN : CustomerMessage(text)
    \/ \E s \in Session : BeginClosing(s) \/ FinishClosing(s)
    \/ \E s, new \in Session : NewSubject(s, new)

Spec == Init /\ [][Next]_vars

-----------------------------------------------------------------------------
(* Properties *)

TypeOK ==
    /\ session \in [Session -> Row] /\ conversation \in Facade
    /\ arriving \in Message \cup {None} /\ parted \in BOOLEAN

\* Whatever commands, transitions, messages and closings write, a thread has one
\* session in foreground at most, and that one is neither paused nor closed: commands
\* and messages hold no common lock, and the index stops the message that comes second.
OneForeground ==
    /\ Cardinality(Foreground) <= 1
    /\ \A s \in Foreground : session[s].status \notin {"absent", "paused", "closed"}

\* architecture.md says of the projection of the conversation: "A projeção acompanha a
\* sessão em primeiro plano e usa a versão da conversa para detectar concorrência".  It is
\* open exactly while a session is in foreground, and with people exactly while that is.
ProjectionFollows ==
    /\ conversation.state = "closed" <=> Foreground = {}
    /\ \A s \in Foreground : session[s].control = "human" <=> conversation.state \in WithPeople

\* The older panel and the sessions agree, and only a command that overtakes a message
\* parts them.
FacadeAgrees == parted \/ ProjectionFollows

\* The foreground moves away from a session that stays open only to a session of
\* strictly higher priority: two sessions never alternate on a tie.
OnlyHigherTakesOver ==
    [][\A s \in Foreground : session'[s].status # "closed" =>
         \A t \in Foreground' \ {s} : Higher(session'[t], session'[s])]_vars

\* A command or the automatic closing that closes the session in foreground gives it
\* back: the best session that it interrupted returns with the status it had.  The older
\* panel's closing and a new subject coordinate nothing, and leave that one paused.
ClosingResumes ==
    [][\A s \in Foreground : session'[s].status = "closed" /\ Linked(s) # {} /\ Coordinates(s)
         => \E p \in Best(Linked(s)) :
              p \in Foreground' /\ session'[p].status = session[p].previous]_vars

\* whatsapp-service-priority-coordination.md says: "até essa integração, o fechamento
\* automático não promove um predecessor".
AutomaticClosingPromotesNobody ==
    [][(\E s \in Session : FinishClosing(s)) => Foreground' = {}]_vars

=============================================================================
