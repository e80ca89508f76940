---------------------------- MODULE HumanConduct ----------------------------
(***************************************************************************)
(* One conversation between the assistant and the people of several        *)
(* departments: taking over, transfers that wait for acceptance, the       *)
(* return to the assistant, closing; the silent agents that watch a        *)
(* conversation people conduct and leave private suggestions; the          *)
(* decision of a person about a suggestion, and the collection of a new    *)
(* quote the assistant starts when a suggestion is accepted                *)
(* (prisma-whatsapp.repository.ts, conversation-transition.matrix.ts).     *)
(*                                                                         *)
(* Every operation is a transaction under the lock of the conversation and *)
(* writes the conversation and its service session together.  A person     *)
(* works on what the panel showed last and sends both versions.            *)
(*                                                                         *)
(* Left out: flow steps, quotes and proposals (CommercialCycle), other     *)
(* sessions of the contact (ServicePriority), idle sessions                *)
(* (SessionLifecycle), the wording of messages, archiving, reading marks,  *)
(* repeats of a transition under the same command.                         *)
(***************************************************************************)
EXTENDS Naturals, FiniteSets

CONSTANTS
    User,         \* attendants
    Wide,         \* attendants with authority over the whole company
    Department,   \* internal departments
    DepartmentsOf,\* departments of each attendant
    Commercial,   \* the department that sells
    Message,      \* messages the customer may send
    NewQuote,     \* those that ask for a new quote
    Click,        \* identifiers of decisions sent by the panel
    MaxVersion,   \* bound on the versions of the conversation
    MaxSession,   \* bound on the number of sessions
    None          \* nobody, nothing

ASSUME ConductAssumption ==
    /\ Wide \subseteq User /\ NewQuote \subseteq Message
    /\ DepartmentsOf \in [User -> SUBSET Department]
    /\ Commercial \in Department
    /\ MaxSession \in Nat \ {0} /\ MaxVersion \in Nat
    /\ None \notin User \cup Department \cup Click \cup Message \cup Nat

VARIABLES
    conv,        \* the conversation
    session,     \* its foreground service session
    view,        \* what the panel of each attendant shows
    received,    \* the session each message was received in, 0 when it was not
    silent,      \* the observation of each message
    suggestion,  \* suggestions, by the message they are about
    decision,    \* decisions, by suggestion
    collection,  \* collections asked for, by the click that accepted
    notices      \* notices of closed hours sent in each session

vars == <<conv, session, view, received, silent, suggestion, decision, collection, notices>>

State == {"bot-active", "waiting-for-customer", "sent-to-human", "human-active",
          "closed"}
WithPeople == {"sent-to-human", "human-active"}
Conversation == [state : State, department : Department, assigned : User \cup {None},
                 pending : Department \cup {None}, quotes : Nat, version : Nat]
Session == [id : Nat, version : Nat, control : {"ai", "human"},
            status : {"open", "waiting-human", "waiting-customer", "closed"},
            responsible : User \cup {None}, department : Department,
            queue : Department \cup {None}, told : BOOLEAN]

\* serviceSessionStateForConversation
ControlOf(state) == IF state \in WithPeople THEN "human" ELSE "ai"
StatusOf(state) ==
    CASE state = "waiting-for-customer" -> "waiting-customer"
      [] state = "sent-to-human" -> "waiting-human"
      [] state = "closed" -> "closed"
      [] OTHER -> "open"

TypeOK ==
    /\ conv \in Conversation /\ session \in Session
    /\ \A u \in User : view[u].conv \in Nat /\ view[u].offers \subseteq Message
    /\ received \in [Message -> Nat]
    /\ \A m \in Message : silent[m].step \in {"none", "due", "watching", "done"}
    /\ \A m \in Message : suggestion[m] # None => suggestion[m].session \in 1..session.id
    /\ \A m \in Message : decision[m] # None => decision[m].by \in User
    /\ DOMAIN collection = Click

Start == [state |-> "bot-active", department |-> Commercial, assigned |-> None,
          pending |-> None, quotes |-> 0, version |-> 1]

Init ==
    /\ conv = Start
    /\ session = [id |-> 1, version |-> 1, control |-> "ai", status |-> "open",
                  responsible |-> None, department |-> Commercial, queue |-> None,
                  told |-> FALSE]
    /\ view = [u \in User |-> [conv |-> 0, session |-> 0, offers |-> {}]]
    /\ received = [m \in Message |-> 0]
    /\ silent = [m \in Message |-> [step |-> "none"]]
    /\ suggestion = [m \in Message |-> None]
    /\ decision = [m \in Message |-> None]
    /\ collection = [k \in Click |-> None]
    /\ notices = [i \in 1..MaxSession |-> 0]

-----------------------------------------------------------------------------
\* Writing a conversation and its session

\* An update that changes nothing keeps the version.
Updated(s, t) == IF s = t THEN s ELSE [t EXCEPT !.version = s.version + 1]

\* ensureFoundationForConversation: a closed session is not reused, a new one
\* starts as the conversation is about to be.
Foundation(c) ==
    IF session.status # "closed" THEN session
    ELSE [id |-> session.id + 1, version |-> 1, control |-> ControlOf(c.state),
          status |-> StatusOf(c.state), department |-> conv.department,
          responsible |-> IF c.state \in WithPeople THEN conv.assigned ELSE None,
          queue |-> None, told |-> FALSE]

\* updateFoundationSession after a transition.
Following(s, c) ==
    Updated(s, [s EXCEPT !.control = ControlOf(c.state), !.status = StatusOf(c.state),
                         !.department = c.department,
                         !.responsible = IF c.state \in WithPeople THEN c.assigned
                                         ELSE None])

\* Who conducts the conversation after a transition.
\* Mutant: a conversation that leaves people keeps its attendant.
BadConductor(name, u, state) ==
    IF name \in {"take-over", "accept-transfer"} THEN u ELSE conv.assigned
Conductor(name, u, state) ==
    IF state # "human-active" THEN None
    ELSE IF name \in {"take-over", "accept-transfer"} THEN u
    ELSE conv.assigned

\* A pending transfer ends with its acceptance, the return to the assistant, an
\* assisted quote or the closing.
PendingAfter(name, d) ==
    IF name = "request-transfer" THEN d
    ELSE IF name \in {"accept-transfer", "return-to-bot", "start-assisted-quote", "close"}
    THEN None
    ELSE conv.pending

Transitioned(name, u, state, department) ==
    [conv EXCEPT !.state = state, !.department = department,
                 !.assigned = Conductor(name, u, state),
                 !.pending = PendingAfter(name, department), !.version = @ + 1]

\* The department of a request is the destination; the conversation stays.
Requested(u, d) ==
    [Transitioned("request-transfer", u, conv.state, d) EXCEPT !.department = conv.department]

Bounded == conv.version < MaxVersion
People == <<received, silent, suggestion, decision, collection>>

-----------------------------------------------------------------------------
\* What people do

Belongs(u, d) == u \in Wide \/ d \in DepartmentsOf[u]

Listed ==
    {m \in Message : /\ suggestion[m] # None /\ suggestion[m].offer # None
                     /\ suggestion[m].session = session.id
                     /\ session.control = "human" /\ session.status # "closed"
                     /\ decision[m] = None}

\* The panel loads the conversation.
Load(u) ==
    /\ view' = [view EXCEPT ![u] = [conv |-> conv.version, session |-> session.version,
                                    offers |-> Listed]]
    /\ UNCHANGED <<conv, session, notices>> /\ UNCHANGED People

\* A transition of a person, on the version the panel showed.
Move(u, name, state, department) ==
    LET c == IF name = "request-transfer" THEN Requested(u, department)
             ELSE Transitioned(name, u, state, department) IN
    /\ view[u].conv = conv.version /\ Bounded
    /\ conv' = c
    /\ session' = Following(Foundation(c), c)
    /\ UNCHANGED <<view, notices>> /\ UNCHANGED People

TakeOver(u) ==
    /\ Belongs(u, conv.department)
    /\ session.status = "closed" => session.id < MaxSession
    /\ Move(u, "take-over", "human-active", conv.department)

RequestTransfer(u, d) ==
    /\ conv.state = "human-active" /\ conv.pending = None /\ d # conv.department
    /\ Belongs(u, conv.department)
    /\ Move(u, "request-transfer", "human-active", d)

AcceptTransfer(u) ==
    /\ conv.state = "human-active" /\ conv.pending # None
    /\ Belongs(u, conv.pending)
    /\ Move(u, "accept-transfer", "human-active", conv.pending)

\* A conversation nobody conducts changes department at once.
ChangeDepartment(u, d) ==
    /\ conv.state # "closed" /\ conv.assigned = None
    /\ Belongs(u, conv.department)
    /\ Move(u, "change-department", conv.state, d)

ReturnToBot(u) ==
    /\ conv.state = "human-active" /\ Belongs(u, conv.department)
    /\ Move(u, "return-to-bot", "bot-active", conv.department)

Close(u) ==
    /\ conv.state # "closed" /\ Belongs(u, conv.department)
    /\ Move(u, "close", "closed", conv.department)

-----------------------------------------------------------------------------
\* What the assistant and the customer do

\* The notice of closed hours is due once in a session.
\* Mutant: the mark of the session is not read.
BadNotifies(open) == ~open
Notifies(open) == ~open /\ ~session.told

\* The assistant hands the conversation to a department, and its queue; the
\* customer hears of it, outside working hours once in a session.
HandOff(d, open) ==
    LET c == Transitioned("forward", None, "sent-to-human", d)
        s == Following(session, c) IN
    /\ conv.state = "bot-active" /\ Bounded
    /\ conv' = c
    /\ session' = [s EXCEPT !.queue = d, !.told = @ \/ Notifies(open)]
    /\ notices' = IF Notifies(open) THEN [notices EXCEPT ![session.id] = @ + 1]
                  ELSE notices
    /\ UNCHANGED view /\ UNCHANGED People

\* The assistant shows the summary of a quote and waits.
Present ==
    LET c == Transitioned("present-quote-summary", None, "waiting-for-customer",
                          conv.department) IN
    /\ conv.state = "bot-active" /\ Bounded
    /\ conv' = c /\ session' = Following(session, c)
    /\ UNCHANGED <<view, notices>> /\ UNCHANGED People

\* A message resumes what waited for it, reopens what was closed, in the same
\* session or in a new one, and otherwise only joins the session.  One that
\* people conduct is due to be observed.
Arrives(m, reopens) ==
    LET next == IF conv.state \in {"waiting-for-customer", "closed"} THEN "bot-active"
                ELSE conv.state
        c == IF next = conv.state THEN conv
             ELSE Transitioned("resume", None, next,
                               IF conv.state = "closed" THEN Commercial ELSE conv.department)
        found == IF reopens
                 THEN [session EXCEPT !.status = "open", !.control = "ai",
                                      !.responsible = None, !.queue = None,
                                      !.version = @ + 1]
                 ELSE Foundation(c)
        s == IF found.control = "ai" \/ next \in WithPeople THEN Following(found, c)
             ELSE found IN
    /\ received[m] = 0
    /\ reopens => session.status = "closed"
    /\ (session.status = "closed" /\ ~reopens) => session.id < MaxSession
    /\ next # conv.state => Bounded
    /\ conv' = c /\ session' = s
    /\ received' = [received EXCEPT ![m] = s.id]
    /\ silent' = [silent EXCEPT ![m].step = IF s.control = "human" THEN "due" ELSE "done"]
    /\ UNCHANGED <<view, suggestion, decision, collection, notices>>

-----------------------------------------------------------------------------
\* Silent observation

Watchable(m) ==
    /\ session.id = received[m] /\ session.control = "human"
    /\ session.status # "closed" /\ suggestion[m] = None

\* The session is read, then two agents look at the messages.
Watch(m) ==
    /\ silent[m].step = "due"
    /\ silent' = [silent EXCEPT ![m] =
                    IF Watchable(m) THEN [step |-> "watching", version |-> session.version]
                    ELSE [step |-> "done"]]
    /\ UNCHANGED <<conv, session, view, received, suggestion, decision, collection, notices>>

\* What is offered: a new quote the message asks for, or the department of a new
\* subject.
Offer(m, d) ==
    IF m \in NewQuote THEN [kind |-> "new-quote", department |-> Commercial]
    ELSE IF d # None /\ d # session.department THEN [kind |-> "department", department |-> d]
    ELSE None

\* The observation is recorded when the session is as it was read.
Observe(m, d) ==
    /\ silent[m].step = "watching"
    /\ silent' = [silent EXCEPT ![m] = [step |-> "done"]]
    /\ IF Watchable(m) /\ session.version = silent[m].version
       THEN /\ suggestion' = [suggestion EXCEPT
                                ![m] = [session |-> session.id, offer |-> Offer(m, d)]]
            /\ session' = [session EXCEPT !.version = @ + 1]
       ELSE UNCHANGED <<suggestion, session>>
    /\ UNCHANGED <<conv, view, received, decision, collection, notices>>

\* A failure of the agents ends the observation.
Fail(m) ==
    /\ silent[m].step = "watching"
    /\ silent' = [silent EXCEPT ![m] = [step |-> "done"]]
    /\ UNCHANGED <<conv, session, view, received, suggestion, decision, collection, notices>>

-----------------------------------------------------------------------------
\* The decision about a suggestion

Decided(m) == decision[m] # None

AsShown(u) == view[u].conv = conv.version /\ view[u].session = session.version

\* Common to both answers: the suggestion is one of the session people conduct.
Resolve(u, m, k, answer) ==
    /\ m \in view[u].offers /\ ~Decided(m) /\ AsShown(u) /\ Bounded
    /\ Belongs(u, conv.department)
    /\ suggestion[m].session = session.id
    /\ session.control = "human" /\ session.status # "closed"
    /\ \A n \in Message : decision[n] # None => decision[n].click # k
    /\ decision' = [decision EXCEPT ![m] = [click |-> k, answer |-> answer, by |-> u]]

Receipt(s) == [s EXCEPT !.version = @ + 1]

Dismiss(u, m, k) ==
    /\ Resolve(u, m, k, "dismiss")
    /\ session' = Receipt(session)
    /\ UNCHANGED <<conv, view, received, silent, suggestion, collection, notices>>

\* The assistant takes the conversation back, with a quote of its own and a
\* collection that the outbox will start.
AcceptQuote(u, m, k) ==
    LET c == [Transitioned("start-assisted-quote", u, "bot-active", Commercial)
                EXCEPT !.quotes = @ + 1]
        s == [session EXCEPT !.queue = None] IN
    /\ Resolve(u, m, k, "accept") /\ suggestion[m].offer.kind = "new-quote"
    /\ conv' = c
    /\ session' = Receipt(Following(s, c))
    /\ collection' = [collection EXCEPT ![k] =
                        [suggestion |-> m, quote |-> c.quotes, session |-> session.id,
                         version |-> None, step |-> "due"]]
    /\ UNCHANGED <<view, received, silent, suggestion, notices>>

\* The conversation is forwarded to the queue of the department offered.
AcceptDepartment(u, m, k) ==
    LET d == suggestion[m].offer.department
        c == Transitioned("forward", u, "sent-to-human", d)
        s == Following(session, c) IN
    /\ Resolve(u, m, k, "accept") /\ suggestion[m].offer.kind = "department"
    /\ conv' = c
    /\ session' = Receipt(Updated(s, [s EXCEPT !.queue = d]))
    /\ UNCHANGED <<view, received, silent, suggestion, collection, notices>>

-----------------------------------------------------------------------------
\* The collection

\* It is authorised while the quote is the last one and the assistant conducts
\* the session; the first attempt keeps the version it worked on.
Authorised(k) ==
    /\ collection[k].quote = conv.quotes /\ collection[k].session = session.id
    /\ session.control = "ai" /\ session.status = "open"
    /\ conv.state = "bot-active"

BeginCollection(k) ==
    /\ collection[k] # None /\ collection[k].step = "due"
    /\ collection' =
         IF ~Authorised(k) THEN [collection EXCEPT ![k].step = "done"]
         ELSE [collection EXCEPT ![k].step = "asking",
                 ![k].version = IF @ = None THEN conv.version ELSE @]
    /\ UNCHANGED <<conv, session, view, received, silent, suggestion, decision, notices>>

\* Mutant: the version of the checkpoint is not compared.
BadStillIts(k) == conv.state = "bot-active" /\ session.control = "ai"
StillIts(k) ==
    /\ conv.state = "bot-active" /\ session.control = "ai" /\ session.status = "open"
    /\ conv.version = collection[k].version

\* The question is written for the version the collection was planned for, or
\* people superseded it.
Ask(k) ==
    /\ collection[k] # None /\ collection[k].step = "asking"
    /\ collection' = [collection EXCEPT ![k].step = IF StillIts(k) THEN "asked" ELSE "done"]
    /\ UNCHANGED <<conv, session, view, received, silent, suggestion, decision, notices>>

\* The process ends; the event is claimed again.
Retry(k) ==
    /\ collection[k] # None /\ collection[k].step = "asking"
    /\ collection' = [collection EXCEPT ![k].step = "due"]
    /\ UNCHANGED <<conv, session, view, received, silent, suggestion, decision, notices>>

-----------------------------------------------------------------------------

Attendant(u) ==
    \/ Load(u) \/ TakeOver(u) \/ AcceptTransfer(u) \/ ReturnToBot(u) \/ Close(u)
    \/ \E d \in Department : RequestTransfer(u, d) \/ ChangeDepartment(u, d)
    \/ \E m \in Message, k \in Click :
         Dismiss(u, m, k) \/ AcceptQuote(u, m, k) \/ AcceptDepartment(u, m, k)

Next ==
    \/ \E u \in User : Attendant(u)
    \/ \E d \in Department, open \in BOOLEAN : HandOff(d, open)
    \/ Present
    \/ \E m \in Message : \E reopens \in BOOLEAN : Arrives(m, reopens)
    \/ \E m \in Message : Watch(m) \/ Fail(m)
    \/ \E m \in Message, d \in Department \cup {None} : Observe(m, d)
    \/ \E k \in Click : BeginCollection(k) \/ Ask(k) \/ Retry(k)

Spec == Init /\ [][Next]_vars

-----------------------------------------------------------------------------
\* Properties

\* The conversation and the session agree on who conducts: people exactly when
\* the conversation is with them, and always somebody when it is active
\* (docs/whatsapp-api.md), the same one on both sides.
OneConductor ==
    /\ session.control = ControlOf(conv.state) /\ session.status = StatusOf(conv.state)
    /\ conv.assigned # None <=> conv.state = "human-active"
    /\ session.responsible = conv.assigned

\* The assistant asks for the data of a quote only in the session and for the
\* quote a person approved, while nobody conducts the conversation.
AsksAsApproved ==
    \A k \in Click :
        (/\ collection[k] # None /\ collection'[k].step = "asked"
         /\ collection[k].step = "asking") =>
            /\ conv.assigned = None /\ conv.quotes = collection[k].quote
            /\ session.id = collection[k].session
AssistantAsksAsApproved == [][AsksAsApproved]_vars

\* Closed hours are announced once in a session, whatever happens between two
\* hand-offs (docs/whatsapp-human-service-hours.md): people return the
\* conversation, close it, it is reopened.
OffHoursOnce == \A i \in 1..MaxSession : notices[i] <= 1

\* While a transfer waits for acceptance the conversation stays active with its
\* attendant (docs/whatsapp-api.md).
PendingStaysActive == conv.pending # None => conv.state = "human-active"

=============================================================================
