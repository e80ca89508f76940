------------------------- MODULE HumanConduct_proofs -------------------------
(***************************************************************************)
(* The conduct of a conversation, proved for any attendants, departments,  *)
(* messages, decisions, versions and sessions: who conducts is one and the *)
(* same on the conversation and on its session, closed hours are announced *)
(* once in a session, and the assistant asks for the data of a quote only  *)
(* for what a person approved.                                             *)
(*                                                                         *)
(* The last one is why the versions matter: the check of a collection, just*)
(* before it asks, reads the version of the conversation and nothing of the*)
(* quote or of the session.  Pinned says what that version stands for.     *)
(*                                                                         *)
(* Then the office around it, each part with the invariant it needs: the   *)
(* accounts with a person, the profile of a customer, the knowledge base   *)
(* and the accounts with roles.                                            *)
(***************************************************************************)
EXTENDS Office, Sequences, FiniteSetTheorems, TLAPS

-----------------------------------------------------------------------------
\* The inductive invariant

Offered == [kind : {"new-quote", "department"}, department : Department]
Suggestion == [session : Nat, offer : Offered \cup {None}]
Collection == [suggestion : Message, quote : Nat, session : Nat,
               version : Nat \cup {None}, step : {"due", "asking", "asked", "done"}]
Steps == {"none", "due", "watching", "done"}
Observation == [step : Steps] \cup [step : Steps, version : Nat]
Panel == [conv : Nat, session : Nat, offers : SUBSET Message]
Decision == [click : Click, answer : {"dismiss", "accept"}, by : User]

\* What the panels list was offered.
Shape ==
    /\ conv \in Conversation /\ session \in Session /\ session.id \in 1..MaxSession
    /\ view \in [User -> Panel]
    /\ received \in [Message -> Nat]
    /\ silent \in [Message -> Observation]
    /\ suggestion \in [Message -> Suggestion \cup {None}]
    /\ decision \in [Message -> Decision \cup {None}]
    /\ collection \in [Click -> Collection \cup {None}]
    /\ notices \in [1..MaxSession -> Nat]
    /\ \A m \in Message : suggestion[m] # None => suggestion[m].session \in 1..session.id
    /\ \A u \in User, m \in Message :
         m \in view[u].offers => suggestion[m] # None /\ suggestion[m].offer # None

\* One conductor, of a conversation and a session.
Together(c, s) ==
    /\ s.control = ControlOf(c.state) /\ s.status = StatusOf(c.state)
    /\ c.assigned # None <=> c.state = "human-active"
    /\ s.responsible = c.assigned

\* A session that was announced is marked, and one to come was not announced.
Announced ==
    /\ \A i \in 1..MaxSession : notices[i] <= 1
    /\ \A i \in 1..MaxSession : i > session.id => notices[i] = 0
    /\ notices[session.id] = 1 => session.told

\* The version a collection keeps stands for the quote and the session it was asked for:
\* neither changes while the version of the conversation does not.
Pinned ==
    \A k \in Click :
        collection[k] # None /\ collection[k].version # None =>
            /\ collection[k].version <= conv.version
            /\ collection[k].version = conv.version =>
                 /\ collection[k].quote = conv.quotes
                 /\ collection[k].session = session.id

ConductInv == Shape /\ Together(conv, session) /\ Announced /\ Pinned

-----------------------------------------------------------------------------
\* The operators that write a conversation and its session

\* A session that follows its conversation agrees with it, and stays the same session.
LEMMA FollowingFits ==
    ASSUME NEW s \in Session, NEW c \in Conversation,
           c.assigned # None <=> c.state = "human-active"
    PROVE  /\ Following(s, c) \in Session
           /\ Together(c, Following(s, c))
           /\ Following(s, c).id = s.id /\ Following(s, c).told = s.told
<1> DEFINE t == [s EXCEPT !.control = ControlOf(c.state), !.status = StatusOf(c.state),
                          !.department = c.department,
                          !.responsible = IF c.state \in WithPeople THEN c.assigned
                                          ELSE None]
<1>1. t \in Session /\ t.id = s.id /\ t.told = s.told /\ t.version = s.version
  BY DEF Session, Conversation, ControlOf, StatusOf, State
<1>2. /\ t.control = ControlOf(c.state) /\ t.status = StatusOf(c.state)
      /\ t.responsible = c.assigned
  BY DEF Session, Conversation, WithPeople
<1>3. Following(s, c) = IF s = t THEN s ELSE [t EXCEPT !.version = s.version + 1]
  BY DEF Following, Updated
<1> HIDE DEF t
<1>4. CASE s = t
  BY <1>1, <1>2, <1>3, <1>4 DEF Together
<1>5. CASE s # t
  <2>1. Following(s, c) = [t EXCEPT !.version = s.version + 1]
    BY <1>3, <1>5
  <2>2. [t EXCEPT !.version = s.version + 1] \in Session
    BY <1>1 DEF Session
  <2> QED
    BY <1>1, <1>2, <2>1, <2>2 DEF Session, Together
<1> QED
  BY <1>4, <1>5

\* A transition takes the next version, keeps the quotes, and has an attendant exactly
\* when the conversation is active with people.
LEMMA TransitionedFits ==
    ASSUME ConductAssumption, conv \in Conversation,
           NEW name, NEW u \in User \cup {None}, NEW state \in State, NEW d \in Department,
           state = "human-active" => IF name \in {"take-over", "accept-transfer"}
                                     THEN u # None ELSE conv.assigned # None
    PROVE  \E c \in Conversation :
             /\ c = Transitioned(name, u, state, d)
             /\ c.version = conv.version + 1 /\ c.quotes = conv.quotes
             /\ c.state = state
             /\ c.assigned # None <=> c.state = "human-active"
<1>1. /\ Conductor(name, u, state) \in User \cup {None}
      /\ Conductor(name, u, state) # None <=> state = "human-active"
  BY DEF Conductor, Conversation
<1>2. PendingAfter(name, d) \in Department \cup {None}
  BY DEF PendingAfter, Conversation
<1>3. PICK a \in User \cup {None} : a = Conductor(name, u, state)
  BY <1>1
<1>4. PICK p \in Department \cup {None} : p = PendingAfter(name, d)
  BY <1>2
<1>5. PICK t : t = [conv EXCEPT !.state = state, !.department = d, !.assigned = a,
                                !.pending = p, !.version = @ + 1]
  OBVIOUS
<1>6. t = [state |-> state, department |-> d, assigned |-> a, pending |-> p,
           quotes |-> conv.quotes, version |-> conv.version + 1]
  BY <1>5 DEF Conversation
<1>8. t \in Conversation
  BY <1>6 DEF Conversation
<1>7. Transitioned(name, u, state, d) = t
  BY <1>3, <1>4, <1>5 DEF Transitioned
<1> QED
  BY <1>1, <1>3, <1>6, <1>7, <1>8

\* The session of a conversation about to be: the same, or a new one nobody announced.
LEMMA FoundationFits ==
    ASSUME ConductAssumption, conv \in Conversation, session \in Session,
           session.id \in 1..MaxSession,
           session.status = "closed" => session.id < MaxSession,
           NEW c \in Conversation
    PROVE  /\ Foundation(c) \in Session
           /\ \/ Foundation(c) = session /\ session.status # "closed"
              \/ Foundation(c).id = session.id + 1 /\ session.id + 1 <= MaxSession
<1>1. CASE session.status # "closed"
  BY <1>1 DEF Foundation
<1>2. CASE session.status = "closed"
  <2> DEFINE n == [id |-> session.id + 1, version |-> 1, control |-> ControlOf(c.state),
                   status |-> StatusOf(c.state), department |-> conv.department,
                   responsible |-> IF c.state \in WithPeople THEN conv.assigned ELSE None,
                   queue |-> None, told |-> FALSE]
  <2>1. Foundation(c) = n
    BY <1>2 DEF Foundation
  <2>2. /\ ControlOf(c.state) \in {"ai", "human"}
        /\ StatusOf(c.state) \in {"open", "waiting-human", "waiting-customer", "closed"}
    BY DEF ControlOf, StatusOf
  <2>3. n \in Session
    BY <2>2 DEF Session, Conversation
  <2> QED
    BY <1>2, <2>1, <2>3 DEF Session
<1> QED
  BY <1>1, <1>2

-----------------------------------------------------------------------------
\* What a step that moves the conversation has to show: a new version, a session that
\* agrees and is either the same or a new one.

LEMMA Moved ==
    ASSUME ConductAssumption, ConductInv,
           conv' \in Conversation, session' \in Session, Together(conv', session'),
           conv'.version = conv.version + 1,
           \/ session'.id = session.id /\ session'.told = session.told
           \/ session'.id = session.id + 1 /\ session.id + 1 <= MaxSession,
           UNCHANGED <<view, received, silent, suggestion, decision, collection, notices>>
    PROVE  ConductInv'
<1> USE DEF ConductInv
<1>1. session'.id \in 1..MaxSession /\ session'.id >= session.id
  BY DEF Shape, Session, ConductAssumption
<1>2. Shape'
  <2>1. \A m \in Message : suggestion'[m] # None => suggestion'[m].session \in 1..session'.id
    BY <1>1 DEF Shape, Session
  <2> QED
    BY <1>1, <2>1 DEF Shape
<1>3. Announced'
  BY <1>1 DEF Announced, Shape, Session
<1>4. Pinned'
  BY DEF Pinned, Shape, Collection, Conversation
<1> QED
  BY <1>2, <1>3, <1>4 DEF Together

\* What a step that leaves the conversation has to show: the same session as before, but
\* for its version.
LEMMA Stayed ==
    ASSUME ConductInv, conv' = conv, session' \in Session,
           session'.control = session.control, session'.status = session.status,
           session'.responsible = session.responsible,
           session'.id = session.id, session'.told = session.told,
           notices' = notices
    PROVE  /\ Together(conv, session)' /\ Announced'
           /\ session'.id \in 1..MaxSession
           /\ collection' = collection => Pinned'
BY DEF ConductInv, Together, Announced, Pinned, Shape

LEMMA States ==
    /\ "bot-active" \in State /\ "waiting-for-customer" \in State
    /\ "sent-to-human" \in State /\ "human-active" \in State /\ "closed" \in State
BY DEF State

-----------------------------------------------------------------------------
\* What people do

\* A transition whose conversation fits.
LEMMA TransitionKeeps ==
    ASSUME ConductAssumption, ConductInv, NEW c \in Conversation,
           c.version = conv.version + 1,
           c.assigned # None <=> c.state = "human-active",
           session.status = "closed" => session.id < MaxSession,
           conv' = c, session' = Following(Foundation(c), c),
           UNCHANGED <<view, received, silent, suggestion, decision, collection, notices>>
    PROVE  ConductInv'
<1>1. conv \in Conversation /\ session \in Session /\ session.id \in 1..MaxSession
  BY DEF ConductInv, Shape
<1>2. PICK f : f = Foundation(c)
  OBVIOUS
<1>3. /\ f \in Session
      /\ \/ f = session /\ session.status # "closed"
         \/ f.id = session.id + 1 /\ session.id + 1 <= MaxSession
  BY <1>1, <1>2, FoundationFits
<1>4. /\ Following(f, c) \in Session /\ Together(c, Following(f, c))
      /\ Following(f, c).id = f.id /\ Following(f, c).told = f.told
  BY <1>3, FollowingFits
<1>5. conv' \in Conversation /\ session' \in Session /\ Together(conv', session')
  BY <1>2, <1>4
<1>6. \/ session'.id = session.id /\ session'.told = session.told
      \/ session'.id = session.id + 1 /\ session.id + 1 <= MaxSession
  BY <1>2, <1>3, <1>4
<1> QED
  BY <1>5, <1>6, Moved

\* An open conversation has an open session.
LEMMA OpenTogether ==
    ASSUME ConductInv
    PROVE  session.status = "closed" <=> conv.state = "closed"
BY DEF ConductInv, Together, StatusOf, Shape, Conversation, State

LEMMA TakeOverKeeps ==
    ASSUME ConductAssumption, ConductInv, NEW u \in User, TakeOver(u)
    PROVE  ConductInv'
<1>1. conv \in Conversation /\ conv.department \in Department /\ u # None
  BY DEF ConductInv, Shape, Conversation, ConductAssumption
<1>2. PICK c \in Conversation :
        /\ c = Transitioned("take-over", u, "human-active", conv.department)
        /\ c.version = conv.version + 1
        /\ c.assigned # None <=> c.state = "human-active"
  BY <1>1, States, TransitionedFits
<1>3. /\ conv' = c /\ session' = Following(Foundation(c), c)
      /\ UNCHANGED <<view, received, silent, suggestion, decision, collection, notices>>
      /\ session.status = "closed" => session.id < MaxSession
  BY <1>2 DEF TakeOver, Move, People
<1> QED
  BY <1>2, <1>3, TransitionKeeps

LEMMA RequestTransferKeeps ==
    ASSUME ConductAssumption, ConductInv, NEW u \in User, NEW d \in Department,
           RequestTransfer(u, d)
    PROVE  ConductInv'
<1>1. /\ conv \in Conversation /\ conv.state = "human-active" /\ conv.assigned # None
      /\ conv.department \in Department
  BY DEF ConductInv, Shape, Together, RequestTransfer, Conversation
<1>2. PICK t \in Conversation :
        /\ t = Transitioned("request-transfer", u, conv.state, d)
        /\ t.version = conv.version + 1
        /\ t.assigned # None <=> t.state = "human-active"
  BY <1>1, States, TransitionedFits
<1>3. PICK c : c = [t EXCEPT !.department = conv.department]
  OBVIOUS
<1>4. /\ c \in Conversation /\ c.version = conv.version + 1
      /\ c.assigned # None <=> c.state = "human-active"
  BY <1>1, <1>2, <1>3 DEF Conversation
<1>5. /\ conv' = c /\ session' = Following(Foundation(c), c)
      /\ UNCHANGED <<view, received, silent, suggestion, decision, collection, notices>>
  BY <1>2, <1>3 DEF RequestTransfer, Move, Requested, People
<1>6. session.status # "closed"
  BY <1>1, OpenTogether
<1> QED
  BY <1>4, <1>5, <1>6, TransitionKeeps

LEMMA AcceptTransferKeeps ==
    ASSUME ConductAssumption, ConductInv, NEW u \in User, AcceptTransfer(u)
    PROVE  ConductInv'
<1>1. /\ conv \in Conversation /\ conv.state = "human-active"
      /\ conv.pending \in Department /\ u # None
  BY DEF ConductInv, Shape, AcceptTransfer, Conversation, ConductAssumption
<1>2. PICK c \in Conversation :
        /\ c = Transitioned("accept-transfer", u, "human-active", conv.pending)
        /\ c.version = conv.version + 1
        /\ c.assigned # None <=> c.state = "human-active"
  BY <1>1, States, TransitionedFits
<1>3. /\ conv' = c /\ session' = Following(Foundation(c), c)
      /\ UNCHANGED <<view, received, silent, suggestion, decision, collection, notices>>
  BY <1>2 DEF AcceptTransfer, Move, People
<1>4. session.status # "closed"
  BY <1>1, OpenTogether
<1> QED
  BY <1>2, <1>3, <1>4, TransitionKeeps

LEMMA ChangeDepartmentKeeps ==
    ASSUME ConductAssumption, ConductInv, NEW u \in User, NEW d \in Department,
           ChangeDepartment(u, d)
    PROVE  ConductInv'
<1>1. /\ conv \in Conversation /\ conv.state \in State \ {"closed", "human-active"}
  BY DEF ConductInv, Shape, Together, ChangeDepartment, Conversation
<1>2. PICK c \in Conversation :
        /\ c = Transitioned("change-department", u, conv.state, d)
        /\ c.version = conv.version + 1
        /\ c.assigned # None <=> c.state = "human-active"
  BY <1>1, TransitionedFits
<1>3. /\ conv' = c /\ session' = Following(Foundation(c), c)
      /\ UNCHANGED <<view, received, silent, suggestion, decision, collection, notices>>
  BY <1>2 DEF ChangeDepartment, Move, People
<1>4. session.status # "closed"
  BY <1>1, OpenTogether
<1> QED
  BY <1>2, <1>3, <1>4, TransitionKeeps

LEMMA ReturnToBotKeeps ==
    ASSUME ConductAssumption, ConductInv, NEW u \in User, ReturnToBot(u)
    PROVE  ConductInv'
<1>1. /\ conv \in Conversation /\ conv.state = "human-active"
      /\ conv.department \in Department
  BY DEF ConductInv, Shape, ReturnToBot, Conversation
<1>2. PICK c \in Conversation :
        /\ c = Transitioned("return-to-bot", u, "bot-active", conv.department)
        /\ c.version = conv.version + 1
        /\ c.assigned # None <=> c.state = "human-active"
  BY <1>1, States, TransitionedFits
<1>3. /\ conv' = c /\ session' = Following(Foundation(c), c)
      /\ UNCHANGED <<view, received, silent, suggestion, decision, collection, notices>>
  BY <1>2 DEF ReturnToBot, Move, People
<1>4. session.status # "closed"
  BY <1>1, OpenTogether
<1> QED
  BY <1>2, <1>3, <1>4, TransitionKeeps

LEMMA CloseKeeps ==
    ASSUME ConductAssumption, ConductInv, NEW u \in User, Close(u)
    PROVE  ConductInv'
<1>1. /\ conv \in Conversation /\ conv.state # "closed" /\ conv.department \in Department
  BY DEF ConductInv, Shape, Close, Conversation
<1>2. PICK c \in Conversation :
        /\ c = Transitioned("close", u, "closed", conv.department)
        /\ c.version = conv.version + 1
        /\ c.assigned # None <=> c.state = "human-active"
  BY <1>1, States, TransitionedFits
<1>3. /\ conv' = c /\ session' = Following(Foundation(c), c)
      /\ UNCHANGED <<view, received, silent, suggestion, decision, collection, notices>>
  BY <1>2 DEF Close, Move, People
<1>4. session.status # "closed"
  BY <1>1, OpenTogether
<1> QED
  BY <1>2, <1>3, <1>4, TransitionKeeps

LEMMA LoadKeeps ==
    ASSUME ConductAssumption, ConductInv, NEW u \in User, Load(u)
    PROVE  ConductInv'
<1> USE DEF ConductInv
<1>1. PICK p \in Panel : /\ p.offers = Listed /\ view' = [view EXCEPT ![u] = p]
  <2>1. Listed \in SUBSET Message /\ conv.version \in Nat /\ session.version \in Nat
    BY DEF Listed, Shape, Conversation, Session
  <2> QED
    BY <2>1 DEF Load, Panel
<1>2. \A m \in Listed : suggestion[m] # None /\ suggestion[m].offer # None
  BY DEF Listed
<1>3. UNCHANGED <<conv, session, notices, received, silent, suggestion, decision, collection>>
  BY DEF Load, People
<1>4. view' \in [User -> Panel]
  BY <1>1 DEF Shape
<1>5. \A v \in User, m \in Message :
        m \in view'[v].offers => suggestion'[m] # None /\ suggestion'[m].offer # None
  BY <1>1, <1>2, <1>3 DEF Shape
<1>6. Shape'
  BY <1>3, <1>4, <1>5 DEF Shape
<1> QED
  BY <1>3, <1>6 DEF Together, Announced, Pinned

-----------------------------------------------------------------------------
\* What the assistant and the customer do

LEMMA HandOffKeeps ==
    ASSUME ConductAssumption, ConductInv, NEW d \in Department, NEW open \in BOOLEAN,
           HandOff(d, open)
    PROVE  ConductInv'
<1>1. conv \in Conversation /\ conv.state = "bot-active" /\ session \in Session
  BY DEF ConductInv, Shape, HandOff
<1>2. PICK c \in Conversation :
        /\ c = Transitioned("forward", None, "sent-to-human", d)
        /\ c.version = conv.version + 1
        /\ c.assigned # None <=> c.state = "human-active"
  BY <1>1, States, TransitionedFits
<1>3. PICK s \in Session :
        /\ s = Following(session, c) /\ Together(c, s)
        /\ s.id = session.id /\ s.told = session.told
  BY <1>1, <1>2, FollowingFits
<1>4. PICK b \in BOOLEAN : b = (s.told \/ Notifies(open))
  OBVIOUS
<1>5. /\ conv' = c /\ session' = [s EXCEPT !.queue = d, !.told = b]
      /\ notices' = IF Notifies(open) THEN [notices EXCEPT ![session.id] = @ + 1]
                    ELSE notices
      /\ UNCHANGED <<view, received, silent, suggestion, decision, collection>>
  BY <1>2, <1>3, <1>4 DEF HandOff, People
<1>6. session' \in Session /\ session'.id = session.id /\ session'.told = b
  BY <1>3, <1>5 DEF Session
<1>7. Together(conv', session')
  BY <1>3, <1>5 DEF Together, Session
<1>8. Announced' /\ notices' \in [1..MaxSession -> Nat]
  <2>1. notices \in [1..MaxSession -> Nat] /\ session.id \in 1..MaxSession /\ MaxSession \in Nat
    BY DEF ConductInv, Shape, ConductAssumption
  <2>2. CASE Notifies(open)
    <3>1. b
      BY <1>4, <2>2
    <3>2. ~session.told
      BY <2>2 DEF Notifies
    <3>3. notices[session.id] # 1 /\ notices[session.id] <= 1
      BY <2>1, <3>2 DEF ConductInv, Announced
    <3>4. notices[session.id] = 0
      BY <2>1, <3>3
    <3>5. notices' = [notices EXCEPT ![session.id] = 1]
      BY <1>5, <2>1, <2>2, <3>4
    <3> QED
      BY <1>6, <2>1, <3>1, <3>5 DEF ConductInv, Announced
  <2>3. CASE ~Notifies(open)
    <3>1. b = session.told /\ notices' = notices
      BY <1>1, <1>3, <1>4, <1>5, <2>3 DEF Session
    <3> QED
      BY <1>6, <2>1, <3>1 DEF ConductInv, Announced
  <2> QED
    BY <2>2, <2>3
<1>9. Pinned'
  BY <1>1, <1>2, <1>5 DEF ConductInv, Pinned, Shape, Collection, Conversation
<1>10. Shape'
  BY <1>5, <1>6, <1>8 DEF ConductInv, Shape
<1> QED
  BY <1>7, <1>8, <1>9, <1>10 DEF ConductInv

LEMMA PresentKeeps ==
    ASSUME ConductAssumption, ConductInv, Present
    PROVE  ConductInv'
<1>1. /\ conv \in Conversation /\ conv.state = "bot-active" /\ session \in Session
      /\ conv.department \in Department
  BY DEF ConductInv, Shape, Present, Conversation
<1>2. PICK c \in Conversation :
        /\ c = Transitioned("present-quote-summary", None, "waiting-for-customer",
                            conv.department)
        /\ c.version = conv.version + 1
        /\ c.assigned # None <=> c.state = "human-active"
  BY <1>1, States, TransitionedFits
<1>3. /\ conv' = c /\ session' = Following(session, c)
      /\ UNCHANGED <<view, received, silent, suggestion, decision, collection, notices>>
  BY <1>2 DEF Present, People
<1>4. /\ session' \in Session /\ Together(conv', session')
      /\ session'.id = session.id /\ session'.told = session.told
  BY <1>1, <1>2, <1>3, FollowingFits
<1> QED
  BY <1>2, <1>3, <1>4, Moved

\* A message that resumes or reopens moves the conversation; the others leave it, and
\* the session they follow is open.
LEMMA ArrivesKeeps ==
    ASSUME ConductAssumption, ConductInv, NEW m \in Message, NEW reopens \in BOOLEAN,
           Arrives(m, reopens)
    PROVE  ConductInv'
<1> DEFINE next == IF conv.state \in {"waiting-for-customer", "closed"} THEN "bot-active"
                   ELSE conv.state
           toward == IF conv.state = "closed" THEN Commercial ELSE conv.department
           again == [session EXCEPT !.status = "open", !.control = "ai",
                                    !.responsible = None, !.queue = None,
                                    !.version = @ + 1]
<1>1. /\ conv \in Conversation /\ session \in Session /\ session.id \in 1..MaxSession
      /\ received \in [Message -> Nat] /\ silent \in [Message -> Observation]
      /\ MaxSession \in Nat
  BY DEF ConductInv, Shape, ConductAssumption
<1>2. next \in State /\ toward \in Department /\ (next # conv.state => next = "bot-active")
  BY <1>1, States DEF Conversation, ConductAssumption
<1>3. PICK c \in Conversation :
        /\ c = IF next = conv.state THEN conv ELSE Transitioned("resume", None, next, toward)
        /\ next # conv.state => c.version = conv.version + 1
        /\ c.state = next
        /\ c.assigned # None <=> c.state = "human-active"
  <2>1. CASE next = conv.state
    BY <1>1, <2>1 DEF ConductInv, Together
  <2>2. CASE next # conv.state
    <3>1. next = "bot-active"
      BY <1>2, <2>2
    <3> HIDE DEF next, toward
    <3>2. PICK t \in Conversation :
            /\ t = Transitioned("resume", None, next, toward)
            /\ t.version = conv.version + 1 /\ t.state = next
            /\ t.assigned # None <=> t.state = "human-active"
      BY <1>1, <1>2, <3>1, TransitionedFits
    <3> QED
      BY <2>2, <3>2
  <2> QED
    BY <2>1, <2>2
<1>4. PICK f \in Session :
        /\ f = IF reopens THEN again ELSE Foundation(c)
        /\ \/ f.id = session.id /\ f.told = session.told
           \/ f.id = session.id + 1 /\ session.id + 1 <= MaxSession /\ session.status = "closed"
  <2>1. session.status = "closed" /\ ~reopens => session.id < MaxSession
    BY DEF Arrives
  <2>2. CASE reopens
    <3>1. PICK g : g = [session EXCEPT !.status = "open", !.control = "ai",
                                       !.responsible = None, !.queue = None]
      OBVIOUS
    <3>2. g \in Session /\ g.id = session.id /\ g.told = session.told
          /\ g.version = session.version
      BY <1>1, <3>1 DEF Session
    <3>4. again = [g EXCEPT !.version = @ + 1]
      BY <1>1, <3>1, <3>2 DEF Session
    <3> HIDE DEF again
    <3>3. again \in Session /\ again.id = session.id /\ again.told = session.told
      BY <3>2, <3>4 DEF Session
    <3> QED
      BY <2>2, <3>3
  <2>3. CASE ~reopens
    <3>1. session.status = "closed" => session.id < MaxSession
      BY <2>1, <2>3
    <3>2. /\ Foundation(c) \in Session
          /\ \/ Foundation(c) = session /\ session.status # "closed"
             \/ Foundation(c).id = session.id + 1 /\ session.id + 1 <= MaxSession
      BY <1>1, <1>3, <3>1, FoundationFits
    <3>3. session.status # "closed" => Foundation(c) = session
      BY DEF Foundation
    <3>4. PICK f \in Session : f = Foundation(c)
      BY <3>2
    <3> QED
      BY <1>1, <2>3, <3>2, <3>3, <3>4 DEF Session
  <2> QED
    BY <2>2, <2>3
<1>5. f.control = "ai" \/ next \in WithPeople
  <2>1. CASE next \in WithPeople
    BY <2>1
  <2>2. CASE next \notin WithPeople
    <3>1. next = "bot-active"
      BY <1>1, <2>2 DEF WithPeople, Conversation, State
    <3>2. CASE reopens
      BY <1>1, <1>4, <3>2 DEF Session
    <3>3. CASE ~reopens /\ session.status = "closed"
      BY <1>3, <1>4, <3>1, <3>3 DEF Foundation, ControlOf, WithPeople
    <3>4. CASE ~reopens /\ session.status # "closed"
      <4>1. f = session
        BY <1>4, <3>4 DEF Foundation
      <4>2. conv.state \notin WithPeople
        BY <3>1 DEF WithPeople
      <4> QED
        BY <4>1, <4>2 DEF ConductInv, Together, ControlOf
    <3> QED
      BY <3>2, <3>3, <3>4
  <2> QED
    BY <2>1, <2>2
<1>13. c.assigned # None <=> c.state = "human-active"
  BY <1>3
<1>6. PICK s \in Session :
        /\ s = Following(f, c) /\ Together(c, s) /\ s.id = f.id /\ s.told = f.told
  BY <1>13, FollowingFits
<1>7. /\ conv' = c /\ session' = s
      /\ received' = [received EXCEPT ![m] = s.id]
      /\ silent' = [silent EXCEPT ![m].step = IF s.control = "human" THEN "due" ELSE "done"]
      /\ UNCHANGED <<view, suggestion, decision, collection, notices>>
  BY <1>3, <1>4, <1>5, <1>6 DEF Arrives
<1>8. session.status = "closed" => next # conv.state
  BY OpenTogether
<1>9. /\ session'.id \in 1..MaxSession /\ session'.id >= session.id
      /\ \/ session'.id = session.id /\ session'.told = session.told
         \/ session'.id = session.id + 1 /\ next # conv.state
  BY <1>1, <1>4, <1>6, <1>7, <1>8 DEF Session
<1> HIDE DEF next, toward, again
<1>10. Shape'
  <2>1. received' \in [Message -> Nat]
    BY <1>1, <1>7 DEF Session
  <2>2. silent' \in [Message -> Observation]
    <3>1. PICK o : o = [silent[m] EXCEPT !.step = IF s.control = "human" THEN "due" ELSE "done"]
      OBVIOUS
    <3>2. silent[m] \in Observation
      BY <1>1
    <3>3. o \in Observation
      BY <3>1, <3>2 DEF Observation, Steps
    <3> QED
      BY <1>1, <1>7, <3>1, <3>3
  <2>3. \A n \in Message : suggestion'[n] # None => suggestion'[n].session \in 1..session'.id
    BY <1>1, <1>7, <1>9 DEF ConductInv, Shape, Session
  <2> QED
    BY <1>7, <1>9, <2>1, <2>2, <2>3 DEF ConductInv, Shape
<1>11. Announced'
  BY <1>1, <1>7, <1>9 DEF ConductInv, Announced, Shape
<1>12. Pinned'
  <2>1. CASE next = conv.state
    BY <1>3, <1>7, <1>9, <2>1 DEF ConductInv, Pinned
  <2>2. CASE next # conv.state
    BY <1>1, <1>3, <1>7, <2>2 DEF ConductInv, Pinned, Shape, Collection, Conversation
  <2> QED
    BY <2>1, <2>2
<1> QED
  BY <1>6, <1>7, <1>10, <1>11, <1>12 DEF ConductInv

-----------------------------------------------------------------------------
\* What the silent agents do

LEMMA WatchKeeps ==
    ASSUME ConductInv, NEW m \in Message, Watch(m) \/ Fail(m)
    PROVE  ConductInv'
<1>1. /\ session.version \in Nat /\ silent \in [Message -> Observation]
  BY DEF ConductInv, Shape, Session
<1>2. PICK o \in Observation : silent' = [silent EXCEPT ![m] = o]
  BY <1>1 DEF Watch, Fail, Observation, Steps
<1>3. UNCHANGED <<conv, session, view, received, suggestion, decision, collection, notices>>
  BY DEF Watch, Fail
<1>4. silent' \in [Message -> Observation]
  BY <1>1, <1>2
<1> QED
  BY <1>3, <1>4 DEF ConductInv, Shape, Together, Announced, Pinned

LEMMA ObserveKeeps ==
    ASSUME ConductAssumption, ConductInv, NEW m \in Message,
           NEW d \in Department \cup {None}, Observe(m, d)
    PROVE  ConductInv'
<1>1. /\ session \in Session /\ silent \in [Message -> Observation]
      /\ suggestion \in [Message -> Suggestion \cup {None}]
      /\ session.id \in 1..MaxSession
  BY DEF ConductInv, Shape
<1>2. /\ silent' = [silent EXCEPT ![m] = [step |-> "done"]]
      /\ UNCHANGED <<conv, view, received, decision, collection, notices>>
  BY DEF Observe
<1>3. silent' \in [Message -> Observation]
  BY <1>1, <1>2 DEF Observation, Steps
<1>4. PICK g \in Suggestion : g = [session |-> session.id, offer |-> Offer(m, d)]
  <2>1. Offer(m, d) \in Offered \cup {None}
    BY DEF Offer, Offered, ConductAssumption
  <2> QED
    BY <1>1, <2>1 DEF Suggestion, Session
<1>5. CASE /\ suggestion[m] = None
           /\ suggestion' = [suggestion EXCEPT ![m] = g]
           /\ session' = [session EXCEPT !.version = @ + 1]
  <2>1. /\ session' \in Session
        /\ session'.control = session.control /\ session'.status = session.status
        /\ session'.responsible = session.responsible
        /\ session'.id = session.id /\ session'.told = session.told
    BY <1>1, <1>5 DEF Session
  <2>2. /\ Together(conv, session)' /\ Announced' /\ Pinned'
        /\ session'.id \in 1..MaxSession
    BY <1>2, <2>1, Stayed
  <2>3. /\ suggestion' \in [Message -> Suggestion \cup {None}]
        /\ \A n \in Message : suggestion'[n] # None => suggestion'[n].session \in 1..session'.id
    BY <1>1, <1>4, <1>5, <2>1 DEF ConductInv, Shape
  <2>4. \A u \in User, n \in Message :
          n \in view'[u].offers => suggestion'[n] # None /\ suggestion'[n].offer # None
    BY <1>1, <1>2, <1>5 DEF ConductInv, Shape
  <2> QED
    BY <1>2, <1>3, <2>1, <2>2, <2>3, <2>4 DEF ConductInv, Shape
<1>6. CASE UNCHANGED <<suggestion, session>>
  BY <1>2, <1>3, <1>6 DEF ConductInv, Shape, Together, Announced, Pinned
<1> QED
  BY <1>4, <1>5, <1>6 DEF Observe, Watchable

-----------------------------------------------------------------------------
\* What people decide about a suggestion

LEMMA ReceiptFits ==
    ASSUME NEW s \in Session
    PROVE  /\ Receipt(s) \in Session
           /\ Receipt(s).control = s.control /\ Receipt(s).status = s.status
           /\ Receipt(s).responsible = s.responsible
           /\ Receipt(s).id = s.id /\ Receipt(s).told = s.told
BY DEF Receipt, Session

LEMMA ResolveDecides ==
    ASSUME ConductInv, NEW u \in User, NEW m \in Message, NEW k \in Click,
           NEW answer \in {"dismiss", "accept"}, Resolve(u, m, k, answer)
    PROVE  /\ decision' \in [Message -> Decision \cup {None}]
           /\ suggestion[m] \in Suggestion /\ suggestion[m].offer \in Offered
           /\ session.status # "closed" /\ conv.state # "closed"
<1>1. decision' = [decision EXCEPT ![m] = [click |-> k, answer |-> answer, by |-> u]]
      /\ m \in view[u].offers /\ session.status # "closed"
  BY DEF Resolve
<1>2. [click |-> k, answer |-> answer, by |-> u] \in Decision
  BY DEF Decision
<1>3. decision' \in [Message -> Decision \cup {None}]
  BY <1>1, <1>2 DEF ConductInv, Shape
<1>4. suggestion[m] \in Suggestion /\ suggestion[m].offer # None
  BY <1>1 DEF ConductInv, Shape
<1>5. suggestion[m].offer \in Offered
  BY <1>4 DEF Suggestion
<1> QED
  BY <1>1, <1>3, <1>4, <1>5, OpenTogether

LEMMA DismissKeeps ==
    ASSUME ConductInv, NEW u \in User, NEW m \in Message, NEW k \in Click, Dismiss(u, m, k)
    PROVE  ConductInv'
<1>1. /\ decision' \in [Message -> Decision \cup {None}]
      /\ session' = Receipt(session) /\ session \in Session
      /\ UNCHANGED <<conv, view, received, silent, suggestion, collection, notices>>
  BY ResolveDecides DEF Dismiss, ConductInv, Shape
<1>2. /\ session' \in Session
      /\ session'.control = session.control /\ session'.status = session.status
      /\ session'.responsible = session.responsible
      /\ session'.id = session.id /\ session'.told = session.told
  BY <1>1, ReceiptFits
<1>3. Together(conv, session)' /\ Announced' /\ Pinned'
  BY <1>1, <1>2, Stayed
<1> QED
  BY <1>1, <1>2, <1>3 DEF ConductInv, Shape

\* What the two acceptances share: the conversation moves, in the same session.
LEMMA AcceptanceKeeps ==
    ASSUME ConductAssumption, ConductInv, NEW c \in Conversation, NEW s \in Session,
           c.version = conv.version + 1, Together(c, s),
           s.id = session.id, s.told = session.told,
           conv' = c, session' = Receipt(s),
           decision' \in [Message -> Decision \cup {None}],
           collection' \in [Click -> Collection \cup {None}],
           \A k \in Click : collection'[k] # None =>
             collection'[k] = collection[k] \/ collection'[k].version = None,
           UNCHANGED <<view, received, silent, suggestion, notices>>
    PROVE  ConductInv'
<1>1. /\ session' \in Session /\ session'.id = session.id /\ session'.told = session.told
      /\ session'.control = s.control /\ session'.status = s.status
      /\ session'.responsible = s.responsible
  BY ReceiptFits
<1>2. Together(conv, session)'
  BY <1>1 DEF Together
<1>3. Announced'
  BY <1>1 DEF ConductInv, Announced
<1>4. Pinned'
  BY DEF ConductInv, Pinned, Shape, Collection, Conversation
<1>5. Shape'
  BY <1>1 DEF ConductInv, Shape
<1> QED
  BY <1>2, <1>3, <1>4, <1>5 DEF ConductInv

\* A new quote takes the next version of the conversation: a collection that was asked
\* for earlier does not match it any more.
LEMMA AcceptQuoteKeeps ==
    ASSUME ConductAssumption, ConductInv,
           NEW u \in User, NEW m \in Message, NEW k \in Click, AcceptQuote(u, m, k)
    PROVE  ConductInv'
<1>1. /\ conv \in Conversation /\ session \in Session /\ Commercial \in Department
      /\ collection \in [Click -> Collection \cup {None}]
      /\ decision' \in [Message -> Decision \cup {None}]
  BY ResolveDecides DEF AcceptQuote, ConductInv, Shape, ConductAssumption
<1>2. PICK t \in Conversation :
        /\ t = Transitioned("start-assisted-quote", u, "bot-active", Commercial)
        /\ t.version = conv.version + 1
        /\ t.assigned # None <=> t.state = "human-active"
  BY <1>1, States, TransitionedFits
<1>3. PICK c : c = [t EXCEPT !.quotes = @ + 1]
  OBVIOUS
<1>4. /\ c \in Conversation /\ c.version = conv.version + 1
      /\ c.assigned # None <=> c.state = "human-active"
  BY <1>2, <1>3 DEF Conversation
<1>5. PICK r : r = [session EXCEPT !.queue = None]
  OBVIOUS
<1>6. r \in Session /\ r.id = session.id /\ r.told = session.told
  BY <1>1, <1>5 DEF Session
<1>7. PICK s \in Session :
        /\ s = Following(r, c) /\ Together(c, s) /\ s.id = session.id /\ s.told = session.told
  BY <1>4, <1>6, FollowingFits
<1>8. PICK a : a = [suggestion |-> m, quote |-> c.quotes, session |-> session.id,
                    version |-> None, step |-> "due"]
  OBVIOUS
<1>9. a \in Collection /\ a.version = None
  BY <1>1, <1>4, <1>8 DEF Collection, Conversation, Session
<1>10. /\ conv' = c /\ session' = Receipt(s)
       /\ collection' = [collection EXCEPT ![k] = a]
       /\ UNCHANGED <<view, received, silent, suggestion, notices>>
  BY <1>2, <1>3, <1>5, <1>7, <1>8 DEF AcceptQuote
<1>11. /\ collection' \in [Click -> Collection \cup {None}]
       /\ \A n \in Click : collection'[n] # None =>
            collection'[n] = collection[n] \/ collection'[n].version = None
  BY <1>1, <1>9, <1>10
<1> QED
  BY <1>1, <1>4, <1>7, <1>10, <1>11, AcceptanceKeeps

LEMMA AcceptDepartmentKeeps ==
    ASSUME ConductAssumption, ConductInv,
           NEW u \in User, NEW m \in Message, NEW k \in Click, AcceptDepartment(u, m, k)
    PROVE  ConductInv'
<1>1. /\ conv \in Conversation /\ session \in Session
      /\ collection \in [Click -> Collection \cup {None}]
      /\ decision' \in [Message -> Decision \cup {None}]
      /\ suggestion[m].offer \in Offered
  BY ResolveDecides DEF AcceptDepartment, ConductInv, Shape
<1>2. PICK d \in Department : d = suggestion[m].offer.department
  BY <1>1 DEF Offered
<1>3. PICK c \in Conversation :
        /\ c = Transitioned("forward", u, "sent-to-human", d)
        /\ c.version = conv.version + 1
        /\ c.assigned # None <=> c.state = "human-active"
  BY <1>1, <1>2, States, TransitionedFits
<1>4. PICK f \in Session :
        /\ f = Following(session, c) /\ Together(c, f)
        /\ f.id = session.id /\ f.told = session.told
  BY <1>1, <1>3, FollowingFits
<1>5. PICK s : s = Updated(f, [f EXCEPT !.queue = d])
  OBVIOUS
<1>6. s \in Session /\ s.id = f.id /\ s.told = f.told
      /\ s.control = f.control /\ s.status = f.status /\ s.responsible = f.responsible
  <2>1. PICK q : q = [f EXCEPT !.queue = d]
    OBVIOUS
  <2>2. q \in Session /\ q.id = f.id /\ q.told = f.told
        /\ q.control = f.control /\ q.status = f.status /\ q.responsible = f.responsible
    BY <2>1 DEF Session
  <2>3. CASE s = f
    BY <2>3
  <2>4. CASE s = [q EXCEPT !.version = f.version + 1]
    BY <2>2, <2>4 DEF Session
  <2> QED
    BY <1>5, <2>1, <2>3, <2>4 DEF Updated
<1>7. Together(c, s)
  BY <1>4, <1>6 DEF Together
<1>8. /\ conv' = c /\ session' = Receipt(s)
      /\ UNCHANGED <<view, received, silent, suggestion, collection, notices>>
  BY <1>2, <1>3, <1>4, <1>5 DEF AcceptDepartment
<1> QED
  BY <1>1, <1>3, <1>4, <1>6, <1>7, <1>8, AcceptanceKeeps

-----------------------------------------------------------------------------
\* The collection

\* What the first attempt keeps is the version of now, when the quote and the session are
\* those of the collection.
LEMMA BeginCollectionKeeps ==
    ASSUME ConductAssumption, ConductInv, NEW k \in Click, BeginCollection(k)
    PROVE  ConductInv'
<1>1. /\ collection \in [Click -> Collection \cup {None}] /\ collection[k] # None
      /\ collection[k] \in Collection /\ conv \in Conversation /\ None \notin Nat
  BY DEF BeginCollection, ConductInv, Shape, ConductAssumption
<1>2. PICK a : /\ a = IF ~Authorised(k) THEN [collection[k] EXCEPT !.step = "done"]
                     ELSE [collection[k] EXCEPT !.step = "asking",
                             !.version = IF @ = None THEN conv.version ELSE @]
               /\ collection' = [collection EXCEPT ![k] = a]
  BY DEF BeginCollection
<1>3. a \in Collection /\ a.quote = collection[k].quote /\ a.session = collection[k].session
  BY <1>1, <1>2 DEF Collection, Conversation
<1>4. \/ a.version = collection[k].version
      \/ a.version = conv.version /\ a.quote = conv.quotes /\ a.session = session.id
  BY <1>1, <1>2, <1>3 DEF Collection, Authorised
<1>5. UNCHANGED <<conv, session, view, received, silent, suggestion, decision, notices>>
  BY DEF BeginCollection
<1>6. collection' \in [Click -> Collection \cup {None}]
  BY <1>1, <1>2, <1>3
<1>7. Pinned'
  BY <1>1, <1>2, <1>3, <1>4, <1>5 DEF ConductInv, Pinned, Conversation
<1> QED
  BY <1>5, <1>6, <1>7 DEF ConductInv, Shape, Together, Announced

LEMMA AskKeeps ==
    ASSUME ConductInv, NEW k \in Click, Ask(k) \/ Retry(k)
    PROVE  ConductInv'
<1>1. /\ collection \in [Click -> Collection \cup {None}]
      /\ collection[k] \in Collection /\ collection[k] # None
  BY DEF Ask, Retry, ConductInv, Shape
<1>2. PICK a, step : /\ a = [collection[k] EXCEPT !.step = step]
                     /\ step \in {"asked", "done", "due"}
                     /\ collection' = [collection EXCEPT ![k] = a]
  BY DEF Ask, Retry
<1>3. a \in Collection /\ a.quote = collection[k].quote /\ a.session = collection[k].session
      /\ a.version = collection[k].version
  BY <1>1, <1>2 DEF Collection
<1>4. UNCHANGED <<conv, session, view, received, silent, suggestion, decision, notices>>
  BY DEF Ask, Retry
<1>5. collection' \in [Click -> Collection \cup {None}]
  BY <1>1, <1>2, <1>3
<1>6. Pinned'
  BY <1>1, <1>2, <1>3, <1>4 DEF ConductInv, Pinned
<1> QED
  BY <1>4, <1>5, <1>6 DEF ConductInv, Shape, Together, Announced

-----------------------------------------------------------------------------
\* The invariant

LEMMA InitConduct ==
    ASSUME ConductAssumption, Init
    PROVE  ConductInv
<1>1. /\ conv \in Conversation /\ session \in Session
      /\ conv.state = "bot-active" /\ conv.assigned = None
      /\ session.id = 1 /\ session.control = "ai" /\ session.status = "open"
      /\ session.responsible = None
  BY DEF Init, Start, Conversation, Session, State, ConductAssumption
<1>2. Together(conv, session)
  BY <1>1 DEF Together, ControlOf, StatusOf, WithPeople
<1>3. Shape
  BY <1>1 DEF Init, Shape, Panel, Observation, Steps, ConductAssumption
<1>4. Announced /\ Pinned
  BY <1>1 DEF Init, Announced, Pinned, ConductAssumption
<1> QED
  BY <1>2, <1>3, <1>4 DEF ConductInv

LEMMA NextConduct ==
    ASSUME ConductAssumption, ConductInv, [Next]_vars
    PROVE  ConductInv'
<1>1. CASE \E u \in User : Attendant(u)
  <2>1. PICK u \in User : Attendant(u)
    BY <1>1
  <2>2. CASE Load(u) \/ TakeOver(u) \/ AcceptTransfer(u) \/ ReturnToBot(u) \/ Close(u)
    BY <2>2, LoadKeeps, TakeOverKeeps, AcceptTransferKeeps, ReturnToBotKeeps, CloseKeeps
  <2>3. CASE \E d \in Department : RequestTransfer(u, d) \/ ChangeDepartment(u, d)
    BY <2>3, RequestTransferKeeps, ChangeDepartmentKeeps
  <2>4. CASE \E m \in Message, k \in Click :
               Dismiss(u, m, k) \/ AcceptQuote(u, m, k) \/ AcceptDepartment(u, m, k)
    BY <2>4, DismissKeeps, AcceptQuoteKeeps, AcceptDepartmentKeeps
  <2> QED
    BY <2>1, <2>2, <2>3, <2>4 DEF Attendant
<1>2. CASE \E d \in Department, open \in BOOLEAN : HandOff(d, open)
  BY <1>2, HandOffKeeps
<1>3. CASE Present
  BY <1>3, PresentKeeps
<1>4. CASE \E m \in Message : \E reopens \in BOOLEAN : Arrives(m, reopens)
  BY <1>4, ArrivesKeeps
<1>5. CASE \E m \in Message : Watch(m) \/ Fail(m)
  BY <1>5, WatchKeeps
<1>6. CASE \E m \in Message, d \in Department \cup {None} : Observe(m, d)
  BY <1>6, ObserveKeeps
<1>7. CASE \E k \in Click : BeginCollection(k) \/ Ask(k) \/ Retry(k)
  BY <1>7, BeginCollectionKeeps, AskKeeps
<1>8. CASE UNCHANGED vars
  BY <1>8 DEF vars, ConductInv, Shape, Together, Announced, Pinned
<1> QED
  BY <1>1, <1>2, <1>3, <1>4, <1>5, <1>6, <1>7, <1>8 DEF Next

LEMMA ConductInvariant == Spec => []ConductInv
<1>1. Init => ConductInv
  BY InitConduct, ConductAssumption
<1>2. ConductInv /\ [Next]_vars => ConductInv'
  BY NextConduct, ConductAssumption
<1> QED
  BY <1>1, <1>2, PTL DEF Spec

-----------------------------------------------------------------------------
\* The theorems

\* Every reachable state is well formed (TypeOK of HumanConduct).
THEOREM TypeCorrect == Spec => []TypeOK
<1>1. ConductInv => TypeOK
  <2> SUFFICES ASSUME ConductInv PROVE TypeOK
    OBVIOUS
  <2>1. \A u \in User : view[u].conv \in Nat /\ view[u].offers \subseteq Message
    BY DEF ConductInv, Shape, Panel
  <2>2. \A m \in Message : silent[m].step \in Steps
    BY DEF ConductInv, Shape, Observation
  <2>3. \A m \in Message : decision[m] # None => decision[m].by \in User
    BY DEF ConductInv, Shape, Decision
  <2> QED
    BY <2>1, <2>2, <2>3 DEF TypeOK, ConductInv, Shape, Steps
<1> QED
  BY <1>1, ConductInvariant, PTL

\* The conversation and its session agree on who conducts (conversation-transition.matrix.ts
\* and the writes of prisma-whatsapp.repository.ts): OneConductor.
THEOREM ConductorIsOne == Spec => []OneConductor
<1>1. ConductInv => OneConductor
  BY DEF ConductInv, Together, OneConductor
<1> QED
  BY <1>1, ConductInvariant, PTL

\* Closed hours are announced at most once in a session, however often it goes back and
\* forth, is closed and is reopened: OffHoursOnce.
THEOREM HoursAnnouncedOnce == Spec => []OffHoursOnce
<1>1. ConductInv => OffHoursOnce
  BY DEF ConductInv, Announced, OffHoursOnce
<1> QED
  BY <1>1, ConductInvariant, PTL

\* What the assistant asks for is the quote and the session a person approved, while nobody
\* conducts the conversation: AssistantAsksAsApproved.
THEOREM AsksForApproved == Spec => AssistantAsksAsApproved
<1>1. ConductInv /\ [Next]_vars => [AsksAsApproved]_vars
  <2> SUFFICES ASSUME ConductInv, Next, NEW k \in Click,
                      collection[k] # None, collection'[k].step = "asked",
                      collection[k].step = "asking"
               PROVE  /\ conv.assigned = None /\ conv.quotes = collection[k].quote
                      /\ session.id = collection[k].session
    BY DEF AsksAsApproved, vars
  <2>1. /\ collection \in [Click -> Collection \cup {None}]
        /\ collection[k] \in Collection /\ conv.version \in Nat /\ None \notin Nat
    BY ConductAssumption DEF ConductInv, Shape, Conversation, ConductAssumption
  <2>2. collection' # collection
    BY <2>1
  <2>3. ASSUME NEW u \in User, NEW m \in Message, NEW n \in Click PROVE ~AcceptQuote(u, m, n)
    <3>1. SUFFICES ASSUME AcceptQuote(u, m, n) PROVE FALSE
      OBVIOUS
    <3>2. PICK a : a.step = "due" /\ collection' = [collection EXCEPT ![n] = a]
      BY <3>1 DEF AcceptQuote
    <3> QED
      BY <2>1, <3>2
  <2>4. ASSUME NEW n \in Click PROVE ~BeginCollection(n) /\ ~Retry(n)
    <3>1. SUFFICES ASSUME BeginCollection(n) \/ Retry(n) PROVE FALSE
      OBVIOUS
    <3>2. CASE BeginCollection(n)
      <4>1. collection[n].step = "due" /\ \E a : collection' = [collection EXCEPT ![n] = a]
        BY Zenon, <3>2 DEF BeginCollection
      <4> QED
        BY <2>1, <4>1
    <3>3. CASE Retry(n)
      BY <2>1, <3>3 DEF Retry, Collection
    <3> QED
      BY <3>1, <3>2, <3>3
  <2>5. PICK n \in Click : Ask(n)
    BY ZenonT(60), <2>2, <2>3, <2>4 DEF Next, Attendant, Load, Move, TakeOver, RequestTransfer,
       AcceptTransfer, ChangeDepartment, ReturnToBot, Close, Dismiss, AcceptDepartment,
       HandOff, Present, Arrives, Watch, Fail, Observe, People
  <2>6. n = k /\ StillIts(k)
    <3>1. n = k
      BY <2>1, <2>5 DEF Ask
    <3>2. collection'[k].step = IF StillIts(k) THEN "asked" ELSE "done"
      BY <2>1, <2>5, <3>1 DEF Ask, Collection
    <3> QED
      BY <3>1, <3>2
  <2>7. conv.state = "bot-active" /\ conv.version = collection[k].version
    BY <2>6 DEF StillIts
  <2>8. conv.assigned = None
    BY <2>7 DEF ConductInv, Together
  <2>9. collection[k].quote = conv.quotes /\ collection[k].session = session.id
    BY <2>1, <2>7 DEF ConductInv, Pinned
  <2> QED
    BY <2>8, <2>9
<1> QED
  BY <1>1, ConductInvariant, PTL DEF Spec, AssistantAsksAsApproved

-----------------------------------------------------------------------------
\* Accounts and persons

\* The fields of an account.
Fields == {"life", "role", "status", "due", "cpf", "version", "person"}

PersonsShape ==
    /\ user = [u \in Holder |-> user[u]]
    /\ \A u \in Holder : DOMAIN user[u] = Fields

\* Rows that keep the person of every account that has one.
Keeping(rows) ==
    /\ rows = [u \in Holder |-> rows[u]]
    /\ \A u \in Holder : /\ DOMAIN rows[u] = Fields
                         /\ user[u].person # None => rows[u].person = user[u].person

\* A change of other fields of one account.
LEMMA KeepingOne ==
    ASSUME NEW rows, Keeping(rows), NEW t, NEW row,
           t \in Holder => DOMAIN row = Fields /\ row.person = rows[t].person
    PROVE  Keeping([rows EXCEPT ![t] = row])
BY DEF Keeping

LEMMA KeepingAwake == ASSUME PersonsShape, NEW A PROVE Keeping(Persons!Awake(A))
<1> DEFINE row(u) == [user[u] EXCEPT !.status = "active", !.due = FALSE]
<1>1. ASSUME NEW u \in Holder
      PROVE  DOMAIN row(u) = Fields /\ row(u).person = user[u].person
  <2>1. DOMAIN row(u) = Fields
    BY DEF PersonsShape
  <2>2. row(u).person = user[u].person
    BY DEF PersonsShape, Fields
  <2> QED
    BY <2>1, <2>2
<1> HIDE DEF row
<1>2. Persons!Awake(A) =
        [u \in Holder |-> IF u \in A /\ user[u].status = "suspended" /\ user[u].due
                             /\ user[u].life = "live"
                          THEN row(u) ELSE user[u]]
  BY DEF Persons!Awake, row
<1> QED
  BY <1>1, <1>2 DEF Keeping, PersonsShape

LEMMA KeepingStill == PersonsShape => Keeping(user)
BY DEF PersonsShape, Keeping

LEMMA PersonsKeep == ASSUME PersonsShape, Persons!Next PROVE Keeping(user')
<1>1. ASSUME NEW k \in Call, NEW A, NEW next, Persons!Writing(k, Persons!Awake(A), next)
      PROVE  Keeping(user')
  BY <1>1, KeepingAwake DEF Persons!Writing
<1>2. ASSUME NEW t, NEW row, user' = [user EXCEPT ![t] = row],
             t \in Holder => DOMAIN row = Fields /\ row.person = user[t].person
      PROVE  Keeping(user')
  BY <1>2, KeepingStill, KeepingOne
<1>3. CASE UNCHANGED user
  BY <1>3, KeepingStill
<1>4. ASSUME NEW k \in Call, Persons!Execute(k), ~UNCHANGED user PROVE Keeping(user')
  <2> DEFINE t == Persons!Request(k).target
             row == Persons!Updated(user[t], Persons!Request(k).change)
  <2>1. user' = [user EXCEPT ![t] = row]
    BY Zenon, <1>4 DEF Persons!Execute, Persons!Writing
  <2>2. ASSUME t \in Holder PROVE DOMAIN row = Fields /\ row.person = user[t].person
    <3>1. DOMAIN user[t] = Fields
      BY <2>2 DEF PersonsShape
    <3>2. DOMAIN row = Fields
      BY <3>1 DEF Persons!Updated
    <3>3. row.person = user[t].person
      BY <3>1 DEF Persons!Updated, Fields
    <3> QED
      BY <3>2, <3>3
  <2> HIDE DEF row
  <2> QED
    BY <1>2, <2>1, <2>2
<1>5. ASSUME NEW a \in Holder, NEW u \in Holder, NEW role, NEW cpf, Persons!Create(a, u, role, cpf)
      PROVE  Keeping(user')
  <2> DEFINE us == Persons!Awake({a})
             row == Persons!Opened(us[u], role, cpf)
  <2>1. user' = [us EXCEPT ![u] = row]
    BY <1>5 DEF Persons!Create
  <2>2. Keeping(us) /\ DOMAIN us[u] = Fields
    BY KeepingAwake DEF Keeping
  <2> HIDE DEF us
  <2>3. DOMAIN row = Fields
    BY <2>2 DEF Persons!Opened
  <2>4. row.person = us[u].person
    BY <2>2 DEF Persons!Opened, Fields
  <2> HIDE DEF row
  <2> QED
    BY <2>1, <2>2, <2>3, <2>4, KeepingOne
<1>6. ASSUME NEW k \in Call, Persons!SetStatus(k), ~UNCHANGED user PROVE Keeping(user')
  <2> DEFINE t == update[k].target
             row == [user[t] EXCEPT !.status = update[k].status, !.due = FALSE]
  <2>1. user' = [user EXCEPT ![t] = row]
    BY Zenon, <1>6 DEF Persons!SetStatus, Persons!Writing
  <2>2. ASSUME t \in Holder PROVE DOMAIN row = Fields /\ row.person = user[t].person
    <3>1. DOMAIN user[t] = Fields
      BY <2>2 DEF PersonsShape
    <3>2. DOMAIN row = Fields
      BY <3>1
    <3>3. row.person = user[t].person
      BY <3>1 DEF Fields
    <3> QED
      BY <3>2, <3>3
  <2> HIDE DEF row
  <2> QED
    BY <1>2, <2>1, <2>2
<1>7. ASSUME NEW k \in Call, Persons!Delete(k), ~UNCHANGED user PROVE Keeping(user')
  <2> DEFINE t == update[k].target
             row == [user[t] EXCEPT !.life = "deleted", !.role = "portal", !.status = "inactive",
                                    !.due = FALSE, !.cpf = None]
  <2>1. user' = [user EXCEPT ![t] = row]
    BY Zenon, <1>7 DEF Persons!Delete, Persons!Writing
  <2>2. ASSUME t \in Holder PROVE DOMAIN row = Fields /\ row.person = user[t].person
    <3>1. DOMAIN user[t] = Fields
      BY <2>2 DEF PersonsShape
    <3>2. DOMAIN row = Fields
      BY <3>1
    <3>3. row.person = user[t].person
      BY <3>1 DEF Fields
    <3> QED
      BY <3>2, <3>3
  <2> HIDE DEF row
  <2> QED
    BY <1>2, <2>1, <2>2
<1>8. ASSUME NEW u \in Holder, Persons!Expire(u) PROVE Keeping(user')
  <2> DEFINE row == [user[u] EXCEPT !.due = TRUE]
  <2>1. user' = [user EXCEPT ![u] = row]
    BY <1>8 DEF Persons!Expire
  <2>2. DOMAIN row = Fields /\ row.person = user[u].person
    <3>1. DOMAIN user[u] = Fields
      BY DEF PersonsShape
    <3>2. DOMAIN row = Fields
      BY <3>1
    <3>3. row.person = user[u].person
      BY <3>1 DEF Fields
    <3> QED
      BY <3>2, <3>3
  <2> HIDE DEF row
  <2> QED
    BY <1>2, <2>1, <2>2
<1>9. ASSUME NEW k \in Call, Persons!Associate(k) PROVE Keeping(user')
  <2> DEFINE t == update[k].target
  <2>1. PICK p \in Person : user' = [user EXCEPT ![t].person = p]
    BY <1>9 DEF Persons!Associate, Persons!Writing
  <2>2. user[t].person = None
    BY <1>9 DEF Persons!Associate, Persons!Free
  <2> HIDE DEF t
  <2> QED
    BY <2>1, <2>2 DEF Keeping, PersonsShape, Fields
<1>10. CASE Persons!List
  BY <1>10, KeepingAwake DEF Persons!List
<1>11. ASSUME NEW k \in Call, NEW c, NEW a, NEW u, NEW change, NEW e,
              Persons!AskUpdate(k, c, a, u, change, e)
       PROVE  Keeping(user')
  BY Zenon, <1>1, <1>11 DEF Persons!AskUpdate
<1>12. ASSUME NEW k \in Call, NEW a, NEW u, NEW s, Persons!AskStatus(k, a, u, s)
       PROVE  Keeping(user')
  BY Zenon, <1>1, <1>12 DEF Persons!AskStatus
<1>13. ASSUME NEW k \in Call, NEW a, NEW u, Persons!AskDelete(k, a, u)
       PROVE  Keeping(user')
  BY Zenon, <1>1, <1>13 DEF Persons!AskDelete
<1>14. ASSUME NEW k \in Call, NEW u \in Holder, Persons!AsksPerson(k, u) PROVE UNCHANGED user
  BY Zenon, <1>14 DEF Persons!AsksPerson, Persons!AskPerson
<1>15. ASSUME NEW p, NEW cpf, Persons!Register(p, cpf) PROVE UNCHANGED user
  BY <1>15 DEF Persons!Register
<1>16. ASSUME NEW k \in Call, Persons!Proceeds(k) PROVE Keeping(user')
  <2>1. SUFFICES ASSUME ~UNCHANGED user PROVE Keeping(user')
    BY <1>3
  <2>2. CASE Persons!Execute(k)
    BY <1>4, <2>1, <2>2
  <2>3. CASE Persons!SetStatus(k)
    BY <1>6, <2>1, <2>3
  <2>4. CASE Persons!Delete(k)
    BY <1>7, <2>1, <2>4
  <2>5. CASE Persons!Associate(k)
    BY <1>9, <2>5
  <2>6. CASE Persons!LookUp(k) \/ Persons!Leave(k) \/ Persons!CheckPerson(k)
             \/ Persons!AssociateFails(k)
    BY Zenon, <2>1, <2>6 DEF Persons!LookUp, Persons!Leave, Persons!CheckPerson,
       Persons!AssociateFails
  <2> QED
    BY <1>16, <2>2, <2>3, <2>4, <2>5, <2>6 DEF Persons!Proceeds
<1>17. ASSUME NEW k \in Call, Persons!Asks(k) PROVE Keeping(user')
  <2>1. CASE \E u \in Holder : Persons!AsksPerson(k, u)
    BY <1>3, <1>14, <2>1
  <2>2. CASE ~(\E u \in Holder : Persons!AsksPerson(k, u))
    BY <1>11, <1>12, <1>13, <1>17, <2>2 DEF Persons!Asks
  <2> QED
    BY <2>1, <2>2
<1> QED
  BY Zenon, <1>3, <1>5, <1>8, <1>10, <1>15, <1>16, <1>17 DEF Persons!Next

-----------------------------------------------------------------------------
\* The profile of a customer

\* The command and the identity a request to suggest keeps, the command and the time of
\* a decision.
ProfileCalls ==
    \A k \in Call :
        /\ call[k].step \in {"create", "decide", "write"} => call[k].command \in ProfileCommand
        /\ call[k].step = "create" => /\ Asked[call[k].command] \in P!Suggests
                                      /\ call[k].identity \in Registration \cup {None}
        /\ call[k].step \in {"decide", "write"} => Asked[call[k].command] \in P!Decides
        /\ call[k].step = "write" => call[k].at \in Nat

\* What a summary shows of a key is a suggestion of the key that was approved.
ShowsApproved ==
    \A x \in Key :
        shown.profile[x] # 0 =>
            /\ shown.profile[x] \in P!Ids
            /\ profile[shown.profile[x]].status = "approved"
            /\ profile[shown.profile[x]].key = x

ProfileShape ==
    /\ profile \in Seq(P!Row)
    /\ confirmed \in [Conversing -> Registration \cup {None}]
    /\ call = [k \in Call |-> call[k]]
    /\ DOMAIN shown = {"profile", "recent", "pending"}

ProfileInv ==
    /\ ProfileShape /\ ProfileCalls /\ ShowsApproved
    /\ P!OneSuggestionPerExecution

\* Rows that keep what was decided, and of every row who suggested it for which key.
Grows(rows) ==
    /\ rows \in Seq(P!Row)
    /\ Len(profile) <= Len(rows)
    /\ \A i \in P!Ids : /\ rows[i].actor = profile[i].actor /\ rows[i].key = profile[i].key
                        /\ profile[i].status # "pending" => rows[i] = profile[i]

LEMMA InsertGrows ==
    ASSUME ProfileInv, NEW k \in Call, P!InsertSuggestion(k)
    PROVE  /\ Grows(profile') /\ shown' = shown
           /\ P!OneSuggestionPerExecution'
<1> DEFINE c == call[k].command
           r == Asked[c]
<1>1. CASE UNCHANGED profile
  BY <1>1 DEF P!InsertSuggestion, Grows, ProfileInv, ProfileShape, P!Ids, P!OneSuggestionPerExecution
<1>2. CASE ~UNCHANGED profile
  <2>1. /\ profile' = Append(profile, P!New(r, call[k].identity))
        /\ ~P!AlreadySuggested(r.actor, r.key) /\ shown' = shown /\ call[k].step = "create"
    BY <1>2 DEF P!InsertSuggestion
  <2>2. r \in P!Suggests /\ call[k].identity \in Registration \cup {None}
    BY <2>1 DEF ProfileInv, ProfileCalls
  <2>3. P!New(r, call[k].identity) \in P!Row
    BY <2>2 DEF P!New, P!Row, P!Suggests
  <2>4. /\ P!New(r, call[k].identity).actor = r.actor /\ P!New(r, call[k].identity).key = r.key
    BY DEF P!New
  <2> DEFINE row == P!New(r, call[k].identity)
  <2> HIDE DEF row
  <2>5. profile \in Seq(P!Row) /\ profile' = Append(profile, row) /\ row \in P!Row
    BY <2>1, <2>3 DEF ProfileInv, ProfileShape, row
  <2>6. /\ profile' \in Seq(P!Row) /\ Len(profile') = Len(profile) + 1
        /\ \A i \in 1..Len(profile) : profile'[i] = profile[i]
        /\ profile'[Len(profile) + 1] = row
        /\ DOMAIN profile = 1..Len(profile) /\ DOMAIN profile' = 1..(Len(profile) + 1)
        /\ Len(profile) \in Nat
    BY <2>5
  <2>7. Grows(profile')
    BY <2>6 DEF Grows, P!Ids
  <2>8. \A i \in 1..Len(profile) :
          ~(profile[i].actor = row.actor /\ row.actor \in Execution /\ profile[i].key = row.key)
    BY <2>1, <2>4, <2>6 DEF row, P!AlreadySuggested, P!Earlier, P!Ids
  <2>9. P!OneSuggestionPerExecution'
    BY <2>6, <2>8 DEF ProfileInv, P!OneSuggestionPerExecution, P!Ids
  <2> QED
    BY <2>1, <2>7, <2>9
<1> QED
  BY <1>1, <1>2

LEMMA DecisionGrows ==
    ASSUME ProfileInv, NEW k \in Call, P!WriteDecision(k)
    PROVE  /\ Grows(profile') /\ shown' = shown
           /\ P!OneSuggestionPerExecution'
<1> DEFINE c == call[k].command
           i == Asked[c].id
           row == [profile[i] EXCEPT !.status = Asked[c].decision, !.reviewer = Asked[c].actor,
                                     !.reviewedAt = call[k].at]
<1>1. CASE UNCHANGED profile
  BY <1>1 DEF P!WriteDecision, Grows, ProfileInv, ProfileShape, P!Ids, P!OneSuggestionPerExecution
<1>2. CASE ~UNCHANGED profile
  <2>1. /\ profile' = [profile EXCEPT ![i] = row]
        /\ i \in P!Ids /\ profile[i].status = "pending" /\ shown' = shown
        /\ call[k].step = "write"
    BY <1>2 DEF P!WriteDecision, P!MayDecide, P!Pending
  <2>2. Asked[c] \in P!Decides /\ call[k].at \in Nat
    BY <2>1 DEF ProfileInv, ProfileCalls
  <2>3. profile \in Seq(P!Row) /\ profile[i] \in P!Row
    BY <2>1 DEF ProfileInv, ProfileShape, P!Ids
  <2>4. row \in P!Row
    BY <2>2, <2>3 DEF P!Row, P!Decides
  <2>5. row.actor = profile[i].actor /\ row.key = profile[i].key
    BY <2>3 DEF P!Row
  <2> HIDE DEF row
  <2>6. /\ profile' \in Seq(P!Row) /\ Len(profile') = Len(profile)
        /\ DOMAIN profile = 1..Len(profile) /\ DOMAIN profile' = 1..Len(profile)
        /\ \A j \in 1..Len(profile) : profile'[j] = IF j = i THEN row ELSE profile[j]
    BY <2>1, <2>3, <2>4 DEF P!Ids
  <2>7. Grows(profile')
    BY <2>1, <2>3, <2>5, <2>6 DEF Grows, P!Ids
  <2>8. P!OneSuggestionPerExecution'
    BY <2>1, <2>5, <2>6 DEF ProfileInv, P!OneSuggestionPerExecution, P!Ids
  <2> QED
    BY <2>1, <2>7, <2>8
<1> QED
  BY <1>1, <1>2

LEMMA ShowsGrown ==
    ASSUME ProfileInv, Grows(profile'), shown' = shown PROVE ShowsApproved'
BY DEF ProfileInv, ProfileShape, ShowsApproved, Grows, P!Ids

\* What LoadProfile shows of a key is the suggestion of the key approved last.
LEMMA ProfileShows ==
    ASSUME NEW x \in Key, P!Profile[x] # 0
    PROVE  /\ P!Profile[x] \in P!Approved /\ profile[P!Profile[x]].key = x
           /\ P!FirstOfKey(P!Profile[x])
<1> DEFINE first == {i \in P!Approved : P!Rank(i) < P!Scan /\ P!FirstOfKey(i)}
           kept == {i \in first : P!Cardinality({j \in first : P!Before(j, i)}) < ProfileLimit}
<1>1. P!Profile[x] = IF \E i \in kept : profile[i].key = x
                     THEN CHOOSE i \in kept : profile[i].key = x ELSE 0
  BY DEF P!Profile
<1> HIDE DEF kept
<1>2. P!Profile[x] \in kept /\ profile[P!Profile[x]].key = x
  BY <1>1
<1> USE DEF kept
<1>3. P!Profile[x] \in first
  BY <1>2
<1> HIDE DEF kept
<1>4. P!Profile[x] \in P!Approved /\ P!FirstOfKey(P!Profile[x])
  BY Zenon, <1>3
<1> QED
  BY <1>2, <1>4

LEMMA TimesAreNumbers ==
    ASSUME ProfileInv, NEW i \in P!Ids PROVE profile[i].reviewedAt \in Nat
<1>1. profile[i] \in P!Row
  BY DEF ProfileInv, ProfileShape, P!Ids
<1> QED
  BY <1>1 DEF P!Row

LEMMA LoadShows ==
    ASSUME ProfileInv, NEW k \in Call, P!LoadProfile(k) PROVE ShowsApproved' /\ P!MovesForward
<1>1. shown'.profile = P!Profile /\ profile' = profile
  BY DEF P!LoadProfile, ProfileInv, ProfileShape
<1>2. ShowsApproved'
  <2>1. SUFFICES ASSUME NEW x \in Key, shown'.profile[x] # 0
                 PROVE  /\ shown'.profile[x] \in P!Ids
                        /\ profile[shown'.profile[x]].status = "approved"
                        /\ profile[shown'.profile[x]].key = x
    BY <1>1 DEF ShowsApproved, P!Ids
  <2> QED
    BY <1>1, <2>1, ProfileShows DEF P!Approved
<1>3. P!MovesForward
  <2>1. SUFFICES ASSUME NEW x \in Key, shown.profile[x] # 0, shown'.profile[x] # 0
                 PROVE  profile[shown'.profile[x]].reviewedAt >= profile[shown.profile[x]].reviewedAt
    BY DEF P!MovesForward
  <2> DEFINE i == shown.profile[x]
             j == shown'.profile[x]
  <2>2. i \in P!Approved /\ profile[i].key = x
    BY <2>1 DEF ProfileInv, ShowsApproved, P!Approved
  <2>3. j \in P!Approved /\ profile[j].key = x /\ P!FirstOfKey(j)
    BY <1>1, <2>1, ProfileShows
  <2> HIDE DEF i, j
  <2>4. ~P!Before(i, j)
    BY <2>2, <2>3 DEF P!FirstOfKey
  <2>5. profile[i].reviewedAt \in Nat /\ profile[j].reviewedAt \in Nat
    BY <2>2, <2>3, TimesAreNumbers DEF P!Approved
  <2>6. profile[j].reviewedAt >= profile[i].reviewedAt
    BY <2>4, <2>5 DEF P!Before
  <2> QED
    BY <2>6 DEF i, j
<1> QED
  BY <1>2, <1>3

\* What a summary shows stays what it was: it is not older.
LEMMA ShownForward ==
    ASSUME ProfileInv, shown'.profile = shown.profile PROVE P!MovesForward
<1>1. SUFFICES ASSUME NEW x \in Key, shown.profile[x] # 0
               PROVE  profile[shown.profile[x]].reviewedAt >= profile[shown.profile[x]].reviewedAt
  BY DEF P!MovesForward
<1>2. profile[shown.profile[x]].reviewedAt \in Nat
  BY <1>1, TimesAreNumbers DEF ProfileInv, ShowsApproved
<1> QED
  BY <1>2

\* A step changes one call, or none.
LEMMA CallStays ==
    ASSUME ProfileInv, NEW k \in Call, NEW next, P!Step(k, next),
           next.step \notin {"create", "decide", "write"}
    PROVE  ProfileCalls' /\ call' = [j \in Call |-> call'[j]]
<1>1. call' = [call EXCEPT ![k] = next] /\ \A j \in Call : call'[j] = IF j = k THEN next ELSE call[j]
  BY DEF P!Step, ProfileInv, ProfileShape
<1>2. call' = [j \in Call |-> call'[j]]
  BY <1>1 DEF ProfileInv, ProfileShape
<1> QED
  BY <1>1, <1>2 DEF ProfileInv, ProfileCalls

LEMMA ProfileKeeps ==
    ASSUME ProfileInv, P!Next
    PROVE  ProfileInv' /\ P!KeepsDecisions /\ P!MovesForward
<1>1. ASSUME Grows(profile') PROVE P!KeepsDecisions
  BY <1>1 DEF P!KeepsDecisions, Grows, P!Pending
<1>2. ASSUME NEW next, next.step \notin {"create", "decide", "write"}, NEW k \in Call,
             P!Step(k, next), Grows(profile'), P!OneSuggestionPerExecution', shown' = shown,
             confirmed' = confirmed
      PROVE  ProfileInv' /\ P!KeepsDecisions /\ P!MovesForward
  <2>1. ProfileCalls' /\ call' = [j \in Call |-> call'[j]]
    BY <1>2, CallStays
  <2>2. ProfileShape'
    BY <1>2, <2>1 DEF ProfileInv, ProfileShape, Grows
  <2> QED
    BY <1>1, <1>2, <2>1, <2>2, ShowsGrown, ShownForward DEF ProfileInv
<1>3. Grows(profile)
  BY DEF Grows, ProfileInv, ProfileShape
<1>4. P!Idle.step \notin {"create", "decide", "write"}
  BY DEF P!Idle
<1>5. ASSUME NEW k \in Call, P!InsertSuggestion(k) \/ P!WriteDecision(k)
      PROVE  ProfileInv' /\ P!KeepsDecisions /\ P!MovesForward
  <2>1. P!Step(k, P!Idle) /\ confirmed' = confirmed
    BY <1>5 DEF P!InsertSuggestion, P!WriteDecision, P!world
  <2> QED
    BY <1>2, <1>4, <1>5, <2>1, InsertGrows, DecisionGrows
<1>6. ASSUME NEW k \in Call, NEW next, next.step \notin {"create", "decide", "write"},
             P!Step(k, next), profile' = profile, shown' = shown, confirmed' = confirmed
      PROVE  ProfileInv' /\ P!KeepsDecisions /\ P!MovesForward
  <2>1. Grows(profile') /\ P!OneSuggestionPerExecution'
    BY <1>3, <1>6 DEF ProfileInv, P!OneSuggestionPerExecution, P!Ids, Grows
  <2> QED
    BY <1>2, <1>6, <2>1
<1>7. ASSUME NEW k \in Call, P!AnswerEarlier(k) \/ P!Lose(k)
      PROVE  ProfileInv' /\ P!KeepsDecisions /\ P!MovesForward
  BY <1>4, <1>6, <1>7 DEF P!AnswerEarlier, P!Lose, P!world
<1>8. ASSUME NEW k \in Call, NEW next, P!Step(k, next), profile' = profile, shown' = shown,
             confirmed' = confirmed,
             /\ next.step \in {"create", "decide", "write"} => next.command \in ProfileCommand
             /\ next.step = "create" => /\ Asked[next.command] \in P!Suggests
                                        /\ next.identity \in Registration \cup {None}
             /\ next.step \in {"decide", "write"} => Asked[next.command] \in P!Decides
             /\ next.step = "write" => next.at \in Nat
      PROVE  ProfileInv' /\ P!KeepsDecisions /\ P!MovesForward
  <2>1. call' = [call EXCEPT ![k] = next]
        /\ \A j \in Call : call'[j] = IF j = k THEN next ELSE call[j]
    BY <1>8 DEF P!Step, ProfileInv, ProfileShape
  <2>2. call' = [j \in Call |-> call'[j]]
    BY <2>1 DEF ProfileInv, ProfileShape
  <2>3. ProfileCalls'
    BY <1>8, <2>1 DEF ProfileInv, ProfileCalls
  <2>4. ProfileShape'
    BY <1>8, <2>2 DEF ProfileInv, ProfileShape
  <2>5. Grows(profile') /\ P!OneSuggestionPerExecution'
    BY <1>3, <1>8 DEF ProfileInv, P!OneSuggestionPerExecution, P!Ids, Grows
  <2> QED
    BY <1>1, <1>8, <2>3, <2>4, <2>5, ShowsGrown, ShownForward DEF ProfileInv
<1>9. ASSUME NEW c \in ProfileCommand
      PROVE  /\ Asked[c] \in P!Suggests \cup P!Decides
             /\ Asked[c].kind = "suggest" => Asked[c] \in P!Suggests
             /\ Asked[c].kind = "decide" => Asked[c] \in P!Decides
  BY ProfileBounds DEF P!ProfileAssumption, P!Suggests, P!Decides
<1>10. ASSUME NEW k \in Call, NEW c \in ProfileCommand, P!BeginSuggestion(k, c)
       PROVE  ProfileInv' /\ P!KeepsDecisions /\ P!MovesForward
  <2> DEFINE next == [step |-> "create", command |-> c, identity |-> confirmed[Asked[c].session],
                      earlier |-> P!Earlier(Asked[c].actor, Asked[c].key)]
  <2>1. P!Step(k, next) /\ profile' = profile /\ shown' = shown /\ confirmed' = confirmed
        /\ Asked[c] \in P!Suggests
    BY <1>9, <1>10 DEF P!BeginSuggestion, P!world
  <2>2. confirmed[Asked[c].session] \in Registration \cup {None}
    BY <2>1 DEF ProfileInv, ProfileShape, P!Suggests
  <2>3. next.step = "create" /\ next.command = c /\ next.identity \in Registration \cup {None}
    BY <2>2
  <2> HIDE DEF next
  <2> QED
    BY <1>8, <2>1, <2>3
<1>11. ASSUME NEW k \in Call, NEW c \in ProfileCommand, P!BeginDecision(k, c)
       PROVE  ProfileInv' /\ P!KeepsDecisions /\ P!MovesForward
  <2> DEFINE next == [step |-> "decide", command |-> c]
  <2>1. P!Step(k, next) /\ profile' = profile /\ shown' = shown /\ confirmed' = confirmed
        /\ Asked[c] \in P!Decides
    BY <1>9, <1>11 DEF P!BeginDecision, P!world
  <2>2. next.step = "decide" /\ next.command = c
    OBVIOUS
  <2> HIDE DEF next
  <2> QED
    BY <1>8, <2>1, <2>2
<1>12. ASSUME NEW k \in Call, P!ReadSuggestion(k)
       PROVE  ProfileInv' /\ P!KeepsDecisions /\ P!MovesForward
  <2>1. /\ profile' = profile /\ shown' = shown /\ confirmed' = confirmed /\ call[k].step = "decide"
        /\ \/ \E t \in 1..MaxTime : P!Step(k, [step |-> "write", command |-> call[k].command, at |-> t])
           \/ P!Step(k, P!Idle)
    BY <1>12 DEF P!ReadSuggestion, P!world
  <2>2. ASSUME NEW t \in 1..MaxTime,
               P!Step(k, [step |-> "write", command |-> call[k].command, at |-> t])
        PROVE  ProfileInv' /\ P!KeepsDecisions /\ P!MovesForward
    <3> DEFINE next == [step |-> "write", command |-> call[k].command, at |-> t]
    <3>1. /\ next.step = "write" /\ next.at \in Nat /\ next.command \in ProfileCommand
          /\ Asked[next.command] \in P!Decides /\ P!Step(k, next)
      BY <2>1, <2>2 DEF ProfileInv, ProfileCalls
    <3> HIDE DEF next
    <3> QED
      BY <1>8, <2>1, <3>1
  <2> QED
    BY <1>4, <1>6, <2>1, <2>2
<1>13. ASSUME NEW k \in Call, P!LoadProfile(k)
       PROVE  ProfileInv' /\ P!KeepsDecisions /\ P!MovesForward
  <2>1. /\ P!Step(k, [step |-> "services"]) /\ profile' = profile /\ confirmed' = confirmed
        /\ DOMAIN shown' = DOMAIN shown
    BY <1>13 DEF P!LoadProfile, P!world
  <2>2. ProfileCalls' /\ call' = [j \in Call |-> call'[j]]
    BY <2>1, CallStays
  <2>3. ProfileShape'
    BY <2>1, <2>2 DEF ProfileInv, ProfileShape
  <2>4. P!OneSuggestionPerExecution' /\ Grows(profile')
    BY <1>3, <2>1 DEF ProfileInv, P!OneSuggestionPerExecution, P!Ids, Grows
  <2> QED
    BY <1>1, <1>13, <2>2, <2>3, <2>4, LoadShows DEF ProfileInv
<1>14. ASSUME NEW k \in Call, P!LoadServices(k)
       PROVE  ProfileInv' /\ P!KeepsDecisions /\ P!MovesForward
  <2> DEFINE next == [step |-> "quotes", services |-> P!Latest(Work \ Quote),
                      open |-> P!Latest(Work \ Quote) \ closed]
  <2>1. P!Step(k, next) /\ profile' = profile /\ shown' = shown /\ confirmed' = confirmed
    BY <1>14 DEF P!LoadServices, P!world
  <2>2. next.step \notin {"create", "decide", "write"}
    OBVIOUS
  <2> HIDE DEF next
  <2> QED
    BY <1>6, <2>1, <2>2
<1>15. ASSUME NEW k \in Call, P!LoadQuotes(k)
       PROVE  ProfileInv' /\ P!KeepsDecisions /\ P!MovesForward
  <2>1. /\ P!Step(k, P!Idle) /\ profile' = profile /\ confirmed' = confirmed
        /\ DOMAIN shown' = DOMAIN shown
    BY Zenon, <1>15 DEF P!LoadQuotes, P!world
  <2>2. shown'.profile = shown.profile
    BY <1>15 DEF P!LoadQuotes, ProfileInv, ProfileShape
  <2>3. ProfileCalls' /\ call' = [j \in Call |-> call'[j]]
    BY <1>4, <2>1, CallStays
  <2>4. ProfileShape'
    BY <2>1, <2>3 DEF ProfileInv, ProfileShape
  <2>5. P!OneSuggestionPerExecution' /\ Grows(profile')
    BY <1>3, <2>1 DEF ProfileInv, P!OneSuggestionPerExecution, P!Ids, Grows
  <2>6. ShowsApproved'
    BY <2>1, <2>2 DEF ProfileInv, ShowsApproved, P!Ids
  <2> QED
    BY <1>1, <2>2, <2>3, <2>4, <2>5, <2>6, ShownForward DEF ProfileInv
<1>16. ASSUME NEW a, NEW r, NEW c, NEW w, NEW d, c \in [Conversing -> Registration \cup {None}],
              P!Worlds(a, r, c, w, d)
       PROVE  ProfileInv' /\ P!KeepsDecisions /\ P!MovesForward
  <2>1. /\ profile' = profile /\ call' = call /\ shown' = shown
        /\ confirmed' \in [Conversing -> Registration \cup {None}]
    BY <1>16 DEF P!Worlds
  <2>2. ProfileInv'
    BY <2>1 DEF ProfileInv, ProfileShape, ProfileCalls, ShowsApproved, P!Ids,
       P!OneSuggestionPerExecution
  <2> QED
    BY <1>1, <1>3, <2>1, <2>2, ShownForward
<1>17. ASSUME \/ \E u \in Reviewer : P!Deactivate(u)
              \/ \E e \in Execution : P!EndExecution(e)
              \/ \E w \in Work, ends \in BOOLEAN : P!UpdateWork(w, ends)
       PROVE  ProfileInv' /\ P!KeepsDecisions /\ P!MovesForward
  <2>1. \E a, r, w, d : P!Worlds(a, r, confirmed, w, d)
    BY Zenon, <1>17 DEF P!Deactivate, P!EndExecution, P!UpdateWork
  <2> QED
    BY <1>16, <2>1 DEF ProfileInv, ProfileShape
<1>18. ASSUME NEW s \in Conversing, NEW x \in Registration, P!ConfirmIdentity(s, x)
       PROVE  ProfileInv' /\ P!KeepsDecisions /\ P!MovesForward
  <2>1. [confirmed EXCEPT ![s] = x] \in [Conversing -> Registration \cup {None}]
    BY DEF ProfileInv, ProfileShape
  <2> QED
    BY <1>16, <1>18, <2>1 DEF P!ConfirmIdentity
<1>19. ASSUME NEW k \in Call, P!Request(k)
       PROVE  ProfileInv' /\ P!KeepsDecisions /\ P!MovesForward
  BY <1>5, <1>7, <1>10, <1>11, <1>12, <1>13, <1>14, <1>15, <1>19 DEF P!Request
<1> QED
  BY <1>17, <1>18, <1>19 DEF P!Next

LEMMA InitProfile == P!Init => ProfileInv
BY ProfileBounds DEF P!Init, ProfileInv, ProfileShape, ProfileCalls, ShowsApproved, P!Idle, P!Ids,
   P!OneSuggestionPerExecution

-----------------------------------------------------------------------------
\* The knowledge base

\* The instances bring their own names for the operators of FiniteSets.
LEMMA SameCardinality ==
    \A S : K!Cardinality(S) = Cardinality(S) /\ Roles!Cardinality(S) = Cardinality(S)
BY Zenon DEF K!Cardinality, Roles!Cardinality, Cardinality

LEMMA SameFinite == \A S : Roles!IsFiniteSet(S) <=> IsFiniteSet(S)
BY Zenon DEF Roles!IsFiniteSet, IsFiniteSet

Observed == {c \in ArticleCommand : edited[c].op = "observe"}

\* A call runs a command that is not recorded and that no other call runs.
CommandsInv ==
    /\ editing = [k \in Call |-> editing[k]]
    /\ edited = [c \in ArticleCommand |-> edited[c]]
    /\ \A k \in Call : editing[k] # K!Idle =>
         /\ editing[k].command \in ArticleCommand /\ edited[editing[k].command] = K!NoOp
         /\ \A j \in Call : editing[j] # K!Idle /\ editing[j].command = editing[k].command
                            => j = k

GapInv ==
    /\ DOMAIN gap = {"status", "count"}
    /\ IsFiniteSet(Observed)
    /\ gap.count = Cardinality(Observed)
    /\ gap.status = "none" => gap.count = 0

\* A document that does not exist has no versions, and nothing is published or drafted.
VersionsInv ==
    /\ version = [v \in K!Version |-> version[v]]
    /\ \A v \in K!Version : DOMAIN version[v] = {"status", "text", "chunks"}
    /\ source = "none" => \A v \in K!Version : version[v] = K!NoVersion
    /\ \A k \in Call : editing[k].at \in {"drafting", "publishing", "superseding"}
                       => source # "none"

KnowledgeInv == CommandsInv /\ GapInv /\ VersionsInv

NotEdited ==
    \A v \in K!Published : version'[v].status = "published" => version'[v] = version[v]

\* A call goes on with its command, or with a free one it starts with.
LEMMA CallGoesOn ==
    ASSUME KnowledgeInv, NEW k \in Call, NEW c \in ArticleCommand, NEW next,
           \/ K!Starts(k, c)
           \/ editing[k] # K!Idle /\ editing[k].command = c,
           next.command = c, K!Becomes(k, next),
           next.at \in {"drafting", "publishing", "superseding"} => source # "none",
           UNCHANGED <<source, archived, version, gap, edited>>
    PROVE  KnowledgeInv' /\ NotEdited
<1>1. editing' = [editing EXCEPT ![k] = next]
      /\ \A j \in Call : editing'[j] = IF j = k THEN next ELSE editing[j]
  BY DEF K!Becomes, KnowledgeInv, CommandsInv
<1>2. edited[c] = K!NoOp
      /\ \A j \in Call : editing[j] # K!Idle /\ editing[j].command = c => j = k
  BY DEF K!Starts, K!Recorded, KnowledgeInv, CommandsInv
<1>3. CommandsInv'
  BY <1>1, <1>2 DEF KnowledgeInv, CommandsInv
<1>4. GapInv'
  BY DEF KnowledgeInv, GapInv, Observed
<1>5. VersionsInv'
  BY <1>1 DEF KnowledgeInv, VersionsInv
<1> QED
  BY <1>3, <1>4, <1>5 DEF KnowledgeInv, NotEdited

\* A call ends, and its command is recorded.
LEMMA CallCommits ==
    ASSUME KnowledgeInv, NEW k \in Call, NEW c \in ArticleCommand, NEW op,
           \/ K!Starts(k, c)
           \/ editing[k] # K!Idle /\ editing[k].command = c,
           op # "none", K!Commits(k, c, op)
    PROVE  /\ CommandsInv'
           /\ op # "observe" => Observed' = Observed
           /\ op # "observe" /\ gap' = gap => GapInv'
           /\ op = "observe" => /\ IsFiniteSet(Observed')
                               /\ Cardinality(Observed') = Cardinality(Observed) + 1
           /\ source = source' \/ source' # "none" =>
                \A j \in Call : editing'[j].at \in {"drafting", "publishing", "superseding"}
                                => source' # "none"
<1>1. editing' = [editing EXCEPT ![k] = K!Idle]
      /\ \A j \in Call : editing'[j] = IF j = k THEN K!Idle ELSE editing[j]
  BY DEF K!Commits, K!Becomes, KnowledgeInv, CommandsInv
<1>2. edited' = [edited EXCEPT ![c] = [op |-> op]]
      /\ \A d \in ArticleCommand : edited'[d] = IF d = c THEN [op |-> op] ELSE edited[d]
  BY DEF K!Commits, KnowledgeInv, CommandsInv
<1>3. edited[c] = K!NoOp
      /\ \A j \in Call : editing[j] # K!Idle /\ editing[j].command = c => j = k
  BY DEF K!Starts, K!Recorded, KnowledgeInv, CommandsInv
<1>4. CommandsInv'
  BY <1>1, <1>2, <1>3 DEF KnowledgeInv, CommandsInv
<1>5. c \notin Observed
  BY <1>3 DEF Observed, K!NoOp
<1>6. ASSUME op # "observe" PROVE Observed' = Observed
  BY <1>2, <1>5, <1>6 DEF Observed
<1>7. ASSUME op # "observe", gap' = gap PROVE GapInv'
  BY <1>7, <1>6 DEF KnowledgeInv, GapInv
<1>8. ASSUME op = "observe"
      PROVE  IsFiniteSet(Observed') /\ Cardinality(Observed') = Cardinality(Observed) + 1
  <2>1. Observed' = Observed \cup {c}
    BY <1>2, <1>8 DEF Observed
  <2> QED
    BY <1>5, <2>1, FS_AddElement DEF KnowledgeInv, GapInv
<1>9. \A j \in Call : editing'[j].at \in {"drafting", "publishing", "superseding"} => source # "none"
  BY <1>1 DEF KnowledgeInv, VersionsInv, K!Idle
<1> QED
  BY <1>4, <1>6, <1>7, <1>8, <1>9

\* A command that leaves the gap alone.
LEMMA CommandWrites ==
    ASSUME KnowledgeInv, NEW k \in Call, NEW c \in ArticleCommand, NEW op,
           \/ K!Starts(k, c)
           \/ editing[k] # K!Idle /\ editing[k].command = c,
           op \notin {"none", "observe"}, K!Commits(k, c, op), gap' = gap,
           source' = source \/ source' # "none",
           version' = [v \in K!Version |-> version'[v]],
           \A v \in K!Version : DOMAIN version'[v] = {"status", "text", "chunks"},
           source' = "none" => version' = version
    PROVE  KnowledgeInv'
<1>1. CommandsInv' /\ GapInv'
      /\ \A j \in Call : editing'[j].at \in {"drafting", "publishing", "superseding"}
                         => source' # "none"
  BY CallCommits
<1>2. VersionsInv'
  BY <1>1 DEF KnowledgeInv, VersionsInv, K!Version
<1> QED
  BY <1>1, <1>2 DEF KnowledgeInv

\* One version is written that is not published, or is not any more.
LEMMA OneVersionWritten ==
    ASSUME KnowledgeInv, NEW v, NEW row, version' = [version EXCEPT ![v] = row],
           v \in K!Version => DOMAIN row = {"status", "text", "chunks"},
           v \in K!Published => row.status # "published"
    PROVE  /\ version' = [w \in K!Version |-> version'[w]]
           /\ \A w \in K!Version : DOMAIN version'[w] = {"status", "text", "chunks"}
           /\ NotEdited
BY DEF KnowledgeInv, VersionsInv, NotEdited, K!Published

LEMMA ExistingAreOfDocument ==
    ASSUME KnowledgeInv, NEW v \in K!Version,
           version[v] # K!NoVersion \/ v \in K!Drafts \/ v \in K!Existing
    PROVE  source # "none"
BY DEF KnowledgeInv, VersionsInv, K!Drafts, K!Existing, K!NoVersion

LEMMA IdleHasNoPlace ==
    ASSUME NEW k, editing[k].at # "idle" PROVE editing[k] # K!Idle
BY DEF K!Idle

LEMMA KnowledgeKeeps == ASSUME KnowledgeInv, K!Next PROVE KnowledgeInv' /\ NotEdited
<1> DEFINE Kept == KnowledgeInv' /\ NotEdited
<1>0. ASSUME version' = version PROVE NotEdited
  BY <1>0 DEF NotEdited
<1>1. ASSUME NEW k \in Call, NEW c \in ArticleCommand, NEW t \in Text, K!CreateArticle(k, c, t)
      PROVE  Kept
  <2>1. /\ K!Starts(k, c) /\ source = "none" /\ source' = "article" /\ gap' = gap
        /\ version' = [version EXCEPT ![1] = K!Article(t)] /\ K!Commits(k, c, "create")
    BY <1>1 DEF K!CreateArticle, K!reports
  <2>2. DOMAIN K!Article(t) = {"status", "text", "chunks"} /\ K!Article(t).status # "published"
    BY DEF K!Article, K!Draft
  <2> QED
    BY <2>1, <2>2, OneVersionWritten, CommandWrites
<1>2. ASSUME NEW k \in Call, K!CreateFile(k) PROVE Kept
  <2>1. PICK d \in K!Extracted : version' = [version EXCEPT ![1] = d]
    BY <1>2 DEF K!CreateFile
  <2>2. /\ editing[k].at = "stored" /\ source = "none" /\ source' = "file" /\ gap' = gap
        /\ K!Commits(k, editing[k].command, "create")
    BY <1>2 DEF K!CreateFile, K!reports
  <2>3. editing[k] # K!Idle /\ editing[k].command \in ArticleCommand
    BY <2>2, IdleHasNoPlace DEF KnowledgeInv, CommandsInv
  <2>4. DOMAIN d = {"status", "text", "chunks"} /\ d.status # "published"
    BY DEF K!Extracted, K!Draft
  <2>5. /\ version' = [w \in K!Version |-> version'[w]] /\ NotEdited
        /\ \A w \in K!Version : DOMAIN version'[w] = {"status", "text", "chunks"}
    BY <2>1, <2>4, OneVersionWritten
  <2> DEFINE c == editing[k].command
  <2>6. /\ c \in ArticleCommand /\ editing[k] # K!Idle /\ editing[k].command = c
        /\ K!Commits(k, c, "create")
    BY <2>2, <2>3
  <2> HIDE DEF c
  <2> QED
    BY <2>2, <2>5, <2>6, CommandWrites
<1>3. ASSUME NEW k \in Call, K!CreateNextDraft(k) PROVE Kept
  <2> DEFINE v == editing[k].version
             row == K!Article(editing[k].text)
  <2>1. /\ editing[k].at = "drafting" /\ source' = source /\ gap' = gap
        /\ version[v] = K!NoVersion /\ version' = [version EXCEPT ![v] = row]
        /\ K!Commits(k, editing[k].command, "draft")
    BY <1>3 DEF K!CreateNextDraft, K!reports
  <2>2. editing[k] # K!Idle /\ editing[k].command \in ArticleCommand /\ source # "none"
    BY <2>1, IdleHasNoPlace DEF KnowledgeInv, CommandsInv, VersionsInv
  <2>3. DOMAIN row = {"status", "text", "chunks"} /\ row.status # "published"
    BY DEF K!Article, K!Draft
  <2> HIDE DEF v, row
  <2>4. /\ version' = [w \in K!Version |-> version'[w]] /\ NotEdited
        /\ \A w \in K!Version : DOMAIN version'[w] = {"status", "text", "chunks"}
    BY <2>1, <2>3, OneVersionWritten
  <2> DEFINE c == editing[k].command
  <2>5. /\ c \in ArticleCommand /\ editing[k] # K!Idle /\ editing[k].command = c
        /\ K!Commits(k, c, "draft")
    BY <2>1, <2>2
  <2> HIDE DEF c
  <2> QED
    BY <2>1, <2>2, <2>4, <2>5, CommandWrites
<1>4. ASSUME NEW k \in Call, K!WriteEdit(k) PROVE Kept
  <2> DEFINE v == editing[k].version
             t == IF version[v].status = "draft" THEN editing[k].text ELSE version[v].text
             row == [version[v] EXCEPT !.text = t, !.chunks = editing[k].text]
  <2>1. /\ editing[k].at = "dropped" /\ source' = source /\ gap' = gap
        /\ version[v].status = "draft"
        /\ K!Commits(k, editing[k].command, "edit")
    BY <1>4 DEF K!WriteEdit, K!reports, K!Mutable
  <2>2. version' = [version EXCEPT ![v] = row]
    BY Zenon, <1>4, <2>1 DEF K!WriteEdit
  <2>3. editing[k] # K!Idle /\ editing[k].command \in ArticleCommand
    BY <2>1, IdleHasNoPlace DEF KnowledgeInv, CommandsInv
  <2>4. ASSUME v \in K!Version PROVE DOMAIN row = {"status", "text", "chunks"}
    BY <2>4 DEF KnowledgeInv, VersionsInv
  <2>5. v \notin K!Published
    BY <2>1 DEF K!Published
  <2>6. source = "none" => version' = version
    <3>1. SUFFICES ASSUME source = "none" PROVE v \notin K!Version
      BY <2>2 DEF KnowledgeInv, VersionsInv
    <3> QED
      BY <2>1, <3>1 DEF KnowledgeInv, VersionsInv, K!NoVersion
  <2> HIDE DEF v, row
  <2>7. /\ version' = [w \in K!Version |-> version'[w]] /\ NotEdited
        /\ \A w \in K!Version : DOMAIN version'[w] = {"status", "text", "chunks"}
    BY <2>2, <2>4, <2>5, OneVersionWritten
  <2> DEFINE c == editing[k].command
  <2>8. /\ c \in ArticleCommand /\ editing[k] # K!Idle /\ editing[k].command = c
        /\ K!Commits(k, c, "edit")
    BY <2>1, <2>3
  <2> HIDE DEF c
  <2> QED
    BY <2>1, <2>6, <2>7, <2>8, CommandWrites
<1>5. ASSUME NEW k \in Call, K!Publish(k) PROVE Kept
  <2> DEFINE n == editing[k].version
             superseded(v) == [version[v] EXCEPT !.status = "superseded"]
             published(v) == [version[v] EXCEPT !.status = "published"]
  <2>1. /\ editing[k].at = "superseding" /\ source' = source /\ gap' = gap
        /\ K!Commits(k, editing[k].command, "publish")
        /\ version' = [v \in K!Version |->
             IF v \in editing[k].old THEN superseded(v)
             ELSE IF v = n /\ version[v].status = "draft" THEN published(v)
             ELSE version[v]]
    BY <1>5 DEF K!Publish, K!reports
  <2>2. editing[k] # K!Idle /\ editing[k].command \in ArticleCommand /\ source # "none"
    BY <2>1, IdleHasNoPlace DEF KnowledgeInv, CommandsInv, VersionsInv
  <2>3. ASSUME NEW v \in K!Version
        PROVE  /\ DOMAIN superseded(v) = {"status", "text", "chunks"}
               /\ superseded(v).status # "published"
               /\ DOMAIN published(v) = {"status", "text", "chunks"}
    <3>1. DOMAIN version[v] = {"status", "text", "chunks"}
      BY DEF KnowledgeInv, VersionsInv
    <3> QED
      BY <3>1
  <2> HIDE DEF n, superseded, published
  <2>4. NotEdited
    BY <2>1, <2>3 DEF NotEdited, K!Published
  <2>5. /\ version' = [w \in K!Version |-> version'[w]]
        /\ \A w \in K!Version : DOMAIN version'[w] = {"status", "text", "chunks"}
    BY <2>1, <2>3 DEF KnowledgeInv, VersionsInv
  <2> QED
    BY <2>1, <2>2, <2>4, <2>5, CommandWrites
<1>6. ASSUME NEW k \in Call, NEW c \in ArticleCommand, NEW v \in K!Version,
             K!ArchiveVersion(k, c, v)
      PROVE  Kept
  <2> DEFINE row == [version[v] EXCEPT !.status = "archived"]
  <2>1. /\ K!Starts(k, c) /\ source' = source /\ gap' = gap /\ v \in K!Existing
        /\ version' = [version EXCEPT ![v] = row] /\ K!Commits(k, c, "archive version")
    BY <1>6 DEF K!ArchiveVersion, K!reports
  <2>2. source # "none"
    BY <2>1, ExistingAreOfDocument
  <2>3. DOMAIN row = {"status", "text", "chunks"} /\ row.status # "published"
    <3>1. DOMAIN version[v] = {"status", "text", "chunks"}
      BY DEF KnowledgeInv, VersionsInv
    <3> QED
      BY <3>1
  <2> HIDE DEF row
  <2> QED
    BY <2>1, <2>2, <2>3, OneVersionWritten, CommandWrites
<1>7. ASSUME NEW k \in Call, NEW c \in ArticleCommand, K!ArchiveDocument(k, c) PROVE Kept
  <2> DEFINE row(v) == [version[v] EXCEPT !.status = "archived"]
  <2>1. /\ K!Starts(k, c) /\ source' = source /\ gap' = gap /\ source # "none"
        /\ version' = [v \in K!Version |-> IF version[v] = K!NoVersion THEN K!NoVersion ELSE row(v)]
        /\ K!Commits(k, c, "archive document")
    BY <1>7 DEF K!ArchiveDocument, K!reports
  <2>2. ASSUME NEW v \in K!Version
        PROVE  /\ DOMAIN row(v) = {"status", "text", "chunks"} /\ row(v).status # "published"
               /\ DOMAIN K!NoVersion = {"status", "text", "chunks"}
               /\ K!NoVersion.status # "published"
    <3>1. DOMAIN version[v] = {"status", "text", "chunks"}
      BY DEF KnowledgeInv, VersionsInv
    <3>2. DOMAIN K!NoVersion = {"status", "text", "chunks"} /\ K!NoVersion.status # "published"
      BY DEF K!NoVersion
    <3> QED
      BY <3>1, <3>2
  <2> HIDE DEF row
  <2>3. NotEdited
    BY <2>1, <2>2 DEF NotEdited, K!Published
  <2>4. /\ version' = [w \in K!Version |-> version'[w]]
        /\ \A w \in K!Version : DOMAIN version'[w] = {"status", "text", "chunks"}
    BY <2>1, <2>2 DEF KnowledgeInv, VersionsInv
  <2> QED
    BY <2>1, <2>3, <2>4, CommandWrites
<1>8. ASSUME NEW k \in Call, NEW c \in ArticleCommand, NEW op,
             \/ K!Starts(k, c)
             \/ editing[k] # K!Idle /\ editing[k].command = c,
             op \notin {"none", "observe"}, K!Commits(k, c, op), gap' = gap, UNCHANGED K!content
      PROVE  Kept
  <2>1. /\ version' = [w \in K!Version |-> version'[w]]
        /\ \A w \in K!Version : DOMAIN version'[w] = {"status", "text", "chunks"}
        /\ version' = version /\ source' = source
    BY <1>8 DEF KnowledgeInv, VersionsInv, K!content
  <2> QED
    BY <1>0, <1>8, <2>1, CommandWrites
<1>9. ASSUME NEW k \in Call, NEW c \in ArticleCommand, K!Suggest(k, c) PROVE Kept
  BY <1>8, <1>9 DEF K!Suggest
<1>10. ASSUME NEW k \in Call, K!ReviewSuggestion(k) PROVE Kept
  <2>1. editing[k] # K!Idle /\ editing[k].command \in ArticleCommand
    BY <1>10, IdleHasNoPlace DEF KnowledgeInv, CommandsInv, K!ReviewSuggestion
  <2> QED
    BY <1>8, <1>10, <2>1 DEF K!ReviewSuggestion
<1>11. ASSUME NEW k \in Call, K!CallFails(k) PROVE Kept
  <2>1. /\ editing' = [editing EXCEPT ![k] = K!Idle]
        /\ UNCHANGED <<source, version, gap, edited>>
    BY <1>11 DEF K!CallFails, K!Becomes, K!content, K!reports
  <2>2. \A j \in Call : editing'[j] = IF j = k THEN K!Idle ELSE editing[j]
    BY <2>1 DEF KnowledgeInv, CommandsInv
  <2>3. CommandsInv'
    BY <2>1, <2>2 DEF KnowledgeInv, CommandsInv
  <2>4. GapInv'
    BY <2>1 DEF KnowledgeInv, GapInv, Observed
  <2>5. VersionsInv'
    BY <2>1, <2>2 DEF KnowledgeInv, VersionsInv, K!Idle
  <2> QED
    BY <1>0, <2>1, <2>3, <2>4, <2>5 DEF KnowledgeInv
<1>12. ASSUME NEW k \in Call, NEW c \in ArticleCommand, K!ReviewGap(k, c, "acknowledged")
                \/ K!ReviewGap(k, c, "resolved") \/ K!ReviewGap(k, c, "dismissed")
       PROVE  Kept
  <2>1. PICK d \in {"acknowledged", "resolved", "dismissed"} : gap' = [gap EXCEPT !.status = d]
    BY Zenon, <1>12 DEF K!ReviewGap
  <2>2. /\ K!Starts(k, c) /\ K!Commits(k, c, "review gap") /\ source' = source
        /\ version' = version
    BY <1>12 DEF K!ReviewGap, K!content
  <2>3. gap'.status = d /\ gap'.count = gap.count /\ DOMAIN gap' = {"status", "count"}
    BY <2>1 DEF KnowledgeInv, GapInv
  <2> DEFINE op == "review gap"
  <2>4. op \notin {"none", "observe"} /\ K!Commits(k, c, op)
    BY <2>2
  <2> HIDE DEF op
  <2>5. /\ Observed' = Observed /\ CommandsInv'
        /\ \A j \in Call : editing'[j].at \in {"drafting", "publishing", "superseding"}
                          => source' # "none"
    BY <2>2, <2>4, CallCommits
  <2>6. GapInv'
    BY <2>3, <2>5 DEF KnowledgeInv, GapInv
  <2>7. VersionsInv'
    BY <2>2, <2>5 DEF KnowledgeInv, VersionsInv
  <2> QED
    BY <1>0, <2>2, <2>5, <2>6, <2>7 DEF KnowledgeInv
<1>13. ASSUME NEW k \in Call, K!ObserveGap(k) PROVE Kept
  <2> DEFINE c == editing[k].command
  <2>1. /\ editing[k].at = "observing" /\ K!Commits(k, c, "observe") /\ source' = source
        /\ version' = version
        /\ gap' = IF gap.status = "none" THEN [status |-> "open", count |-> 1]
                  ELSE [gap EXCEPT !.count = @ + 1]
    BY <1>13 DEF K!ObserveGap, K!content
  <2>2. editing[k] # K!Idle /\ c \in ArticleCommand
    BY <2>1, IdleHasNoPlace DEF KnowledgeInv, CommandsInv
  <2>3. /\ CommandsInv' /\ IsFiniteSet(Observed')
        /\ Cardinality(Observed') = Cardinality(Observed) + 1
    BY <2>1, <2>2, CallCommits
  <2>4. gap'.count = gap.count + 1 /\ gap'.status # "none" /\ DOMAIN gap' = {"status", "count"}
    BY <2>1 DEF KnowledgeInv, GapInv
  <2>5. GapInv'
    BY <2>3, <2>4 DEF KnowledgeInv, GapInv
  <2>6. VersionsInv'
    BY <2>1, <2>2, CallCommits DEF KnowledgeInv, VersionsInv
  <2> QED
    BY <1>0, <2>1, <2>3, <2>5, <2>6 DEF KnowledgeInv
<1>14. ASSUME NEW k \in Call, NEW c \in ArticleCommand, NEW next,
              \/ K!Starts(k, c)
              \/ editing[k] # K!Idle /\ editing[k].command = c,
              next.command = c, K!Becomes(k, next),
              next.at \in {"drafting", "publishing", "superseding"} => source # "none",
              UNCHANGED <<source, archived, version>>, UNCHANGED <<K!reports, edited>>
       PROVE  Kept
  BY <1>14, CallGoesOn DEF K!reports
<1>15. ASSUME NEW k \in Call, NEW c \in ArticleCommand, K!StoreOriginal(k, c) PROVE Kept
  <2> DEFINE next == [at |-> "stored", command |-> c]
  <2>1. next.command = c /\ next.at = "stored"
    OBVIOUS
  <2>2. K!Becomes(k, next)
    BY <1>15 DEF K!StoreOriginal
  <2> HIDE DEF next
  <2> QED
    BY <1>14, <1>15, <2>1, <2>2 DEF K!StoreOriginal
<1>16. ASSUME NEW k \in Call, NEW c \in ArticleCommand, K!ReadForDraft(k, c) PROVE Kept
  <2>0. PICK expected \in K!Existing :
          /\ K!MayDraft(expected)
          /\ \E t : K!Becomes(k, [at |-> "drafting", command |-> c, version |-> expected + 1,
                                 text |-> t])
    BY Zenon, <1>16 DEF K!ReadForDraft
  <2>1. PICK t : K!Becomes(k, [at |-> "drafting", command |-> c, version |-> expected + 1,
                               text |-> t])
    BY Zenon, <2>0
  <2> DEFINE next == [at |-> "drafting", command |-> c, version |-> expected + 1, text |-> t]
  <2>2. next.command = c /\ next.at = "drafting" /\ K!Becomes(k, next)
    BY <2>1
  <2>3. source # "none"
    BY <2>0 DEF K!MayDraft
  <2>4. K!Starts(k, c) /\ UNCHANGED <<K!content, K!reports, edited>>
    BY <1>16 DEF K!ReadForDraft
  <2> HIDE DEF next
  <2> QED
    BY <1>14, <2>2, <2>3, <2>4 DEF K!content
<1>17. ASSUME NEW k \in Call, NEW c \in ArticleCommand, NEW v \in K!Version, NEW t \in Text,
              K!ReadForEdit(k, c, v, t)
       PROVE  Kept
  <2> DEFINE next == [at |-> "editing", command |-> c, version |-> v, text |-> t,
                      seen |-> version[v].text]
  <2>1. /\ K!Starts(k, c) /\ UNCHANGED <<K!content, K!reports, edited>>
        /\ K!Becomes(k, next) /\ next.command = c /\ next.at = "editing"
    BY <1>17 DEF K!ReadForEdit
  <2> HIDE DEF next
  <2> QED
    BY <1>14, <2>1 DEF K!content
<1>18. ASSUME NEW k \in Call, NEW c \in ArticleCommand, NEW v \in K!Version,
              K!ReadForPublish(k, c, v)
       PROVE  Kept
  <2> DEFINE next == [at |-> "publishing", command |-> c, version |-> v]
  <2>1. /\ K!Starts(k, c) /\ UNCHANGED <<K!content, K!reports, edited>> /\ v \in K!Drafts
        /\ K!Becomes(k, next) /\ next.command = c /\ next.at = "publishing"
    BY <1>18 DEF K!ReadForPublish
  <2>2. source # "none"
    BY <2>1, ExistingAreOfDocument
  <2> HIDE DEF next
  <2> QED
    BY <1>14, <2>1, <2>2 DEF K!content
<1>19. ASSUME NEW k \in Call, NEW c \in ArticleCommand, K!ReadGap(k, c) PROVE Kept
  <2> DEFINE next == [at |-> "observing", command |-> c, count |-> gap.count]
  <2>1. /\ K!Starts(k, c) /\ UNCHANGED <<K!content, K!reports, edited>>
        /\ K!Becomes(k, next) /\ next.command = c /\ next.at = "observing"
    BY <1>19 DEF K!ReadGap
  <2> HIDE DEF next
  <2> QED
    BY <1>14, <2>1 DEF K!content
<1>20. ASSUME NEW k \in Call, NEW c \in ArticleCommand, NEW d \in {"approved", "rejected"},
              K!ReadForReview(k, c, d)
       PROVE  Kept
  <2> DEFINE next == [at |-> "reviewing", command |-> c, decision |-> d]
  <2>1. /\ K!Starts(k, c) /\ UNCHANGED <<K!content, K!reports, edited>>
        /\ K!Becomes(k, next) /\ next.command = c /\ next.at = "reviewing"
    BY <1>20 DEF K!ReadForReview
  <2> HIDE DEF next
  <2> QED
    BY <1>14, <2>1 DEF K!content
<1>21. ASSUME NEW k \in Call, K!FindSuperseded(k) PROVE Kept
  <2> DEFINE next == [at |-> "superseding", command |-> editing[k].command,
                      version |-> editing[k].version, old |-> K!Published \ {editing[k].version}]
  <2>1. /\ UNCHANGED <<K!content, K!reports, edited>> /\ editing[k].at = "publishing"
        /\ K!Becomes(k, next) /\ next.command = editing[k].command /\ next.at = "superseding"
    BY <1>21 DEF K!FindSuperseded
  <2>2. editing[k] # K!Idle /\ editing[k].command \in ArticleCommand /\ source # "none"
    BY <2>1, IdleHasNoPlace DEF KnowledgeInv, CommandsInv, VersionsInv
  <2> HIDE DEF next
  <2> QED
    BY <1>14, <2>1, <2>2 DEF K!content
<1>22. ASSUME NEW k \in Call, K!DropChunks(k) PROVE Kept
  <2> DEFINE next == [editing[k] EXCEPT !.at = "dropped"]
  <2>1. /\ UNCHANGED <<K!content, K!reports, edited>> /\ editing[k].at = "editing"
        /\ K!Becomes(k, next)
    BY <1>22 DEF K!DropChunks
  <2>2. editing[k] # K!Idle /\ editing[k].command \in ArticleCommand
    BY <2>1, IdleHasNoPlace DEF KnowledgeInv, CommandsInv
  <2>3. next.command = editing[k].command /\ next.at \notin {"drafting", "publishing", "superseding"}
    BY <2>1
  <2> HIDE DEF next
  <2> QED
    BY <1>14, <2>1, <2>2, <2>3 DEF K!content
<1>23. ASSUME NEW k \in Call, NEW c \in ArticleCommand,
              \/ \E t \in Text : K!CreateArticle(k, c, t)
              \/ K!StoreOriginal(k, c) \/ K!ReadForDraft(k, c)
              \/ \E v \in K!Version, t \in Text : K!ReadForEdit(k, c, v, t)
              \/ \E v \in K!Version : K!ReadForPublish(k, c, v)
              \/ \E v \in K!Version : K!ArchiveVersion(k, c, v)
              \/ K!ArchiveDocument(k, c)
       PROVE  Kept
  BY Zenon, <1>1, <1>6, <1>7, <1>15, <1>16, <1>17, <1>18, <1>23
<1>24. ASSUME NEW k \in Call, NEW c \in ArticleCommand,
              \/ K!Suggest(k, c)
              \/ \E d \in {"approved", "rejected"} : K!ReadForReview(k, c, d)
              \/ K!ReadGap(k, c)
              \/ \E d \in {"acknowledged", "resolved", "dismissed"} : K!ReviewGap(k, c, d)
       PROVE  Kept
  BY Zenon, <1>9, <1>12, <1>19, <1>20, <1>24
<1> HIDE DEF Kept
<1>25. Kept
  BY Zenon, <1>2, <1>3, <1>4, <1>5, <1>10, <1>11, <1>13, <1>21, <1>22, <1>23, <1>24 DEF K!Next
<1> QED
  BY <1>25 DEF Kept

LEMMA InitKnowledge == K!Init => KnowledgeInv
<1> SUFFICES ASSUME K!Init PROVE KnowledgeInv
  OBVIOUS
<1>1. Observed = {}
  BY DEF K!Init, Observed, K!NoOp
<1>2. GapInv
  BY <1>1, FS_EmptySet DEF K!Init, GapInv
<1>3. CommandsInv
  BY DEF K!Init, CommandsInv
<1>4. VersionsInv
  BY DEF K!Init, VersionsInv, K!Idle, K!NoVersion
<1> QED
  BY <1>2, <1>3, <1>4 DEF KnowledgeInv

-----------------------------------------------------------------------------
\* The accounts and their roles

\* What the calls of the roles part keep.
RolesCall ==
    {Roles!Idle}
    \cup [step : {"asked", "ready"}, command : AccountCommand, seen : Roles!Row,
          allowed : BOOLEAN, moved : SUBSET Account]
    \cup [step : {"refused"}, command : AccountCommand, moved : SUBSET Account]
    \cup [step : {"status"}, target : Account, status : Roles!Status, counted : BOOLEAN,
          moved : SUBSET Account]
    \cup [step : {"delete"}, target : Account, moved : SUBSET Account]
    \cup [step : {"person", "checked"}, target : Account,
          choice : [person : Resident \cup {None}, source : {"cpf", "mail", "provisional"},
                    cpf : Number \cup {None}],
          moved : SUBSET Account]

RolesShape ==
    /\ user \in [Account -> Roles!Row]
    /\ asked \in [AccountCommand -> Roles!Requests \cup {None}]
    /\ update \in [Call -> RolesCall]
    /\ \A k \in Call : update[k].step \in {"asked", "ready"} =>
         asked[update[k].command] \in Roles!Requests

\* The change of an update concerns the flag, as its call saw the account.
ConcernsFlag(k) ==
    "administrator" \in {update[k].seen.role,
                        Roles!Final(Roles!Request(k).change.role, update[k].seen.role)}

\* An account that did not move since an update saw it is as the update saw it, and a
\* responsible that did not move may still do what the update was allowed to do.
Sees(k) ==
    /\ Roles!Request(k).target \notin update[k].moved =>
         /\ user[Roles!Request(k).target].role = update[k].seen.role
         /\ user[Roles!Request(k).target].status = update[k].seen.status
    /\ user[Roles!Request(k).target].life # "absent"
    /\ update[k].step = "ready" => update[k].allowed
    /\ (/\ update[k].allowed /\ ConcernsFlag(k)
        /\ Roles!Request(k).actor \notin update[k].moved) =>
         user[Roles!Request(k).actor].role = "administrator"

RolesInv ==
    /\ RolesShape
    /\ \A k \in Call : update[k].step \in {"asked", "ready"} => Sees(k)
    /\ \A u \in Account : user[u].life = "absent" => user[u].role # "administrator"
    /\ Roles!AdministratorRemains

\* A write that moves rows and leaves an administrator.
Rewrites(rows) ==
    /\ rows \in [Account -> Roles!Row]
    /\ \A u \in Account : /\ user[u].life # "absent" => rows[u].life # "absent"
                          /\ rows[u].life = "absent" => rows[u].role # "administrator"
    /\ \E u \in Account : Roles!ActiveAdministrator(rows[u])

\* An active administrator other than one of several.
LEMMA AnotherAdministrator ==
    ASSUME RolesInv, NEW t, Roles!Cardinality(Roles!Administrators) > 1
    PROVE  \E u \in Account \ {t} : Roles!ActiveAdministrator(user[u])
<1> DEFINE all == Roles!Administrators
<1>1. IsFiniteSet(all) /\ Cardinality(all) > 1
  <2>1. IsFiniteSet(Account)
    BY AccountBounds, SameFinite DEF Roles!AccountAssumption
  <2>2. all \subseteq Account
    BY DEF Roles!Administrators
  <2> HIDE DEF all
  <2>3. IsFiniteSet(all)
    BY <2>1, <2>2, FS_Subset
  <2> QED
    BY <2>3, SameCardinality DEF all
<1> HIDE DEF all
<1>2. PICK u \in all : u # t
  <2>1. SUFFICES ASSUME \A u \in all : u = t PROVE FALSE
    OBVIOUS
  <2>2. all \subseteq {t}
    BY <2>1
  <2>3. IsFiniteSet({t}) /\ Cardinality({t}) = 1
    BY FS_Singleton
  <2>4. Cardinality(all) <= 1
    BY <2>2, <2>3, FS_Subset
  <2> QED
    BY <1>1, <2>4, FS_CardinalityType
<1> QED
  BY <1>2 DEF all, Roles!Administrators

\* The fields of an account, after the changes the model makes to it.
LEMMA RowWoken ==
    ASSUME NEW row \in Roles!Row
    PROVE  LET woken == [row EXCEPT !.status = "active", !.due = FALSE] IN
           /\ woken \in Roles!Row
           /\ woken.life = row.life /\ woken.role = row.role /\ woken.status = "active"
BY DEF Roles!Row, Roles!Status

LEMMA RowUpdated ==
    ASSUME NEW row \in Roles!Row, NEW change \in RoleChange
    PROVE  /\ Roles!Updated(row, change) \in Roles!Row
           /\ Roles!Updated(row, change).life = row.life
           /\ Roles!Updated(row, change).status = row.status
           /\ Roles!Updated(row, change).role = Roles!Final(change.role, row.role)
<1>1. change \in [role : Roles!Role \cup {Same}, cpf : Number \cup {Same}]
  BY AccountBounds DEF Roles!AccountAssumption
<1>2. /\ Roles!Final(change.role, row.role) \in Roles!Role
      /\ Roles!Final(change.cpf, row.cpf) \in Number \cup {None}
      /\ row.version + 1 \in Nat
  BY <1>1 DEF Roles!Final, Roles!Row
<1>3. Roles!Updated(row, change) \in Roles!Row
  BY <1>2 DEF Roles!Updated, Roles!Row
<1>4. /\ Roles!Updated(row, change).life = row.life
      /\ Roles!Updated(row, change).status = row.status
      /\ Roles!Updated(row, change).role = Roles!Final(change.role, row.role)
  BY DEF Roles!Updated, Roles!Row
<1> QED
  BY <1>3, <1>4

LEMMA RowOpened ==
    ASSUME NEW row \in Roles!Row, NEW role \in Roles!Role, NEW cpf \in Number \cup {None}
    PROVE  /\ Roles!Opened(row, role, cpf) \in Roles!Row
           /\ Roles!Opened(row, role, cpf).life = "live"
<1>1. Roles!Opened(row, role, cpf) \in Roles!Row
  BY DEF Roles!Opened, Roles!Row, Roles!Status
<1>2. Roles!Opened(row, role, cpf).life = "live"
  BY DEF Roles!Opened, Roles!Row
<1> QED
  BY <1>1, <1>2

LEMMA RowSet ==
    ASSUME NEW row \in Roles!Row, NEW status \in Roles!Status
    PROVE  LET set == [row EXCEPT !.status = status, !.due = FALSE] IN
           set \in Roles!Row /\ set.life = row.life /\ set.role = row.role /\ set.status = status
BY DEF Roles!Row

LEMMA RowDeleted ==
    ASSUME NEW row \in Roles!Row
    PROVE  LET gone == [row EXCEPT !.life = "deleted", !.role = "portal", !.status = "inactive",
                                   !.due = FALSE, !.cpf = None] IN
           gone \in Roles!Row /\ gone.life = "deleted" /\ gone.role = "portal"
<1> DEFINE gone == [row EXCEPT !.life = "deleted", !.role = "portal", !.status = "inactive",
                               !.due = FALSE, !.cpf = None]
<1>1. gone \in Roles!Row
  BY DEF Roles!Row, Roles!Role, Roles!Status
<1>2. gone.life = "deleted" /\ gone.role = "portal"
  BY DEF Roles!Row
<1> QED
  BY <1>1, <1>2

\* Reading ends suspensions: it makes no account absent or another one's administrator.
LEMMA AwakeRewrites ==
    ASSUME RolesInv, NEW A
    PROVE  /\ Rewrites(Roles!Awake(A))
           /\ \A u \in Account : /\ Roles!Awake(A)[u].role = user[u].role
                                 /\ Roles!Awake(A)[u].life = user[u].life
                                 /\ Roles!ActiveAdministrator(user[u]) =>
                                      Roles!ActiveAdministrator(Roles!Awake(A)[u])
<1> DEFINE row(u) == [user[u] EXCEPT !.status = "active", !.due = FALSE]
<1>1. ASSUME NEW u \in Account
      PROVE  /\ row(u) \in Roles!Row /\ row(u).life = user[u].life /\ row(u).role = user[u].role
             /\ row(u).status = "active"
  BY RowWoken DEF RolesInv, RolesShape
<1>2. Roles!Awake(A) =
        [u \in Account |-> IF u \in A /\ user[u].status = "suspended" /\ user[u].due
                              /\ user[u].life = "live"
                           THEN row(u) ELSE user[u]]
  BY DEF Roles!Awake
<1> HIDE DEF row
<1>3. \A u \in Account : /\ Roles!Awake(A)[u].role = user[u].role
                         /\ Roles!Awake(A)[u].life = user[u].life
                         /\ Roles!ActiveAdministrator(user[u]) =>
                              Roles!ActiveAdministrator(Roles!Awake(A)[u])
  BY <1>1, <1>2 DEF Roles!ActiveAdministrator
<1>4. Roles!Awake(A) \in [Account -> Roles!Row]
  BY <1>1, <1>2 DEF RolesInv, RolesShape
<1>5. \E u \in Account : Roles!ActiveAdministrator(user[u])
  BY DEF RolesInv, Roles!AdministratorRemains, Roles!Administrators
<1> QED
  BY <1>3, <1>4, <1>5 DEF Rewrites, RolesInv

\* A call whose rows moved stays what it was.
LEMMA CallMoved ==
    ASSUME NEW it \in RolesCall, it.step # "idle", NEW M \in SUBSET Account,
           NEW told, told = [it EXCEPT !.moved = @ \cup M]
    PROVE  /\ told \in RolesCall /\ told.step = it.step /\ told.moved = it.moved \cup M
           /\ told.command = it.command /\ told.seen = it.seen /\ told.allowed = it.allowed
<1>1. told \in RolesCall /\ told.moved = it.moved \cup M
  <2>1. CASE it \in [step : {"asked", "ready"}, command : AccountCommand, seen : Roles!Row,
                     allowed : BOOLEAN, moved : SUBSET Account]
    <3>1. /\ told \in [step : {"asked", "ready"}, command : AccountCommand, seen : Roles!Row,
                       allowed : BOOLEAN, moved : SUBSET Account]
          /\ told.moved = it.moved \cup M
      BY <2>1
    <3> QED
      BY <3>1 DEF RolesCall
  <2>2. CASE it \in [step : {"refused"}, command : AccountCommand, moved : SUBSET Account]
    <3>1. /\ told \in [step : {"refused"}, command : AccountCommand, moved : SUBSET Account]
          /\ told.moved = it.moved \cup M
      BY <2>2
    <3> QED
      BY <3>1 DEF RolesCall
  <2>3. CASE it \in [step : {"status"}, target : Account, status : Roles!Status,
                     counted : BOOLEAN, moved : SUBSET Account]
    <3>1. /\ told \in [step : {"status"}, target : Account, status : Roles!Status,
                       counted : BOOLEAN, moved : SUBSET Account]
          /\ told.moved = it.moved \cup M
      BY <2>3
    <3> QED
      BY <3>1 DEF RolesCall
  <2>4. CASE it \in [step : {"delete"}, target : Account, moved : SUBSET Account]
    <3>1. /\ told \in [step : {"delete"}, target : Account, moved : SUBSET Account]
          /\ told.moved = it.moved \cup M
      BY <2>4
    <3> QED
      BY <3>1 DEF RolesCall
  <2>5. CASE it \in [step : {"person", "checked"}, target : Account,
                     choice : [person : Resident \cup {None},
                               source : {"cpf", "mail", "provisional"}, cpf : Number \cup {None}],
                     moved : SUBSET Account]
    <3> DEFINE Choices == [person : Resident \cup {None},
                           source : {"cpf", "mail", "provisional"}, cpf : Number \cup {None}]
    <3> HIDE DEF Choices
    <3>1. it \in [step : {"person", "checked"}, target : Account, choice : Choices,
                  moved : SUBSET Account]
      BY <2>5 DEF Choices
    <3>2. /\ told \in [step : {"person", "checked"}, target : Account, choice : Choices,
                       moved : SUBSET Account]
          /\ told.moved = it.moved \cup M
      BY <3>1
    <3> QED
      BY <3>2 DEF RolesCall, Choices
  <2> QED
    BY <2>1, <2>2, <2>3, <2>4, <2>5 DEF RolesCall, Roles!Idle
<1>2. told.step = it.step
  OBVIOUS
<1>3. told.command = it.command /\ told.seen = it.seen /\ told.allowed = it.allowed
  OBVIOUS
<1> QED
  BY <1>1, <1>2, <1>3

\* What a rewriting leaves of a call that did not make it.
LEMMA OthersSee ==
    ASSUME RolesInv, Rewrites(user'),
           \A c \in AccountCommand : asked[c] \in Roles!Requests => asked'[c] = asked[c],
           NEW j \in Call,
           update'[j] = IF update[j].step = "idle" THEN update[j]
                        ELSE [update[j] EXCEPT !.moved = @ \cup Roles!Moved(user')]
    PROVE  /\ update'[j] \in RolesCall /\ update'[j].step = update[j].step
           /\ update'[j].step \in {"asked", "ready"} =>
                asked'[update'[j].command] \in Roles!Requests /\ Sees(j)'
<1>1. CASE update[j].step = "idle"
  BY <1>1 DEF RolesInv, RolesShape
<1>2. CASE update[j].step # "idle"
  <2> DEFINE M == Roles!Moved(user')
  <2>1. M \in SUBSET Account
    BY DEF Roles!Moved
  <2>2. \A u \in Account : u \notin M => user'[u] = user[u]
    BY DEF Roles!Moved
  <2> HIDE DEF M
  <2>3. update'[j] = [update[j] EXCEPT !.moved = @ \cup M]
    BY <1>2 DEF M
  <2>4. update[j] \in RolesCall
    BY DEF RolesInv, RolesShape
  <2>5. /\ update'[j] \in RolesCall /\ update'[j].step = update[j].step
        /\ update'[j].moved = update[j].moved \cup M
        /\ update'[j].command = update[j].command /\ update'[j].seen = update[j].seen
        /\ update'[j].allowed = update[j].allowed
    <3> DEFINE it == update[j]
               told == update'[j]
    <3>1. it \in RolesCall /\ it.step # "idle" /\ told = [it EXCEPT !.moved = @ \cup M]
      BY <1>2, <2>3, <2>4
    <3> HIDE DEF it, told
    <3>2. /\ told \in RolesCall /\ told.step = it.step /\ told.moved = it.moved \cup M
          /\ told.command = it.command /\ told.seen = it.seen /\ told.allowed = it.allowed
      BY <2>1, <3>1, CallMoved
    <3> QED
      BY <3>2 DEF it, told
  <2>6. ASSUME update[j].step \in {"asked", "ready"}
        PROVE  asked'[update'[j].command] \in Roles!Requests /\ Sees(j)'
    <3>1. update[j].command \in AccountCommand /\ asked[update[j].command] \in Roles!Requests
      BY <2>4, <2>6 DEF RolesInv, RolesShape, RolesCall, Roles!Idle
    <3>2. Roles!Request(j)' = Roles!Request(j) /\ Roles!Request(j) \in Roles!Requests
      BY <2>5, <3>1 DEF Roles!Request
    <3>3. Roles!Request(j).target \in Account /\ Roles!Request(j).actor \in Account
      BY <3>2 DEF Roles!Requests
    <3>4. Sees(j)
      BY <2>6 DEF RolesInv
    <3>5. ConcernsFlag(j)' <=> ConcernsFlag(j)
      BY <2>5, <3>2 DEF ConcernsFlag
    <3>6. Sees(j)'
      BY <2>2, <2>5, <3>2, <3>3, <3>4, <3>5 DEF Sees, Rewrites
    <3> QED
      BY <2>5, <3>1, <3>6
  <2> QED
    BY <2>5, <2>6
<1> QED
  BY <1>1, <1>2

\* A call goes on, and the others are told which rows moved.
Told(k, next) ==
    update' = [j \in Call |-> IF j = k THEN next
                             ELSE IF update[j].step = "idle" THEN update[j]
                             ELSE [update[j] EXCEPT !.moved = @ \cup Roles!Moved(user')]]

\* A rewriting, by a call or by none, keeps the invariant.
LEMMA RewritingKeeps ==
    ASSUME RolesInv, Rewrites(user'),
           asked' \in [AccountCommand -> Roles!Requests \cup {None}],
           \A c \in AccountCommand : asked[c] \in Roles!Requests => asked'[c] = asked[c],
           NEW k, NEW next \in RolesCall,
           Told(k, next),
           k \in Call /\ next.step \in {"asked", "ready"} =>
               asked'[next.command] \in Roles!Requests /\ Sees(k)',
           next.step # "refused"
    PROVE  RolesInv' /\ Roles!AnswersRepeat
<1>1. ASSUME NEW j \in Call, j # k
      PROVE  /\ update'[j] \in RolesCall /\ update'[j].step = update[j].step
             /\ update'[j].step \in {"asked", "ready"} =>
                  asked'[update'[j].command] \in Roles!Requests /\ Sees(j)'
  BY <1>1, OthersSee DEF Told
<1>2. k \in Call => update'[k] = next
  BY DEF Told
<1>3. RolesShape'
  <2>1. update' = [j \in Call |-> update'[j]]
    BY DEF Told
  <2> QED
    BY <1>1, <1>2, <2>1 DEF RolesShape, Rewrites
<1>4. \A j \in Call : update'[j].step \in {"asked", "ready"} => Sees(j)'
  BY <1>1, <1>2
<1>5. /\ \A u \in Account : user'[u].life = "absent" => user'[u].role # "administrator"
      /\ Roles!AdministratorRemains'
  BY DEF Rewrites, Roles!AdministratorRemains, Roles!Administrators
<1>6. Roles!AnswersRepeat
  BY <1>1, <1>2 DEF Roles!AnswersRepeat
<1> QED
  BY <1>3, <1>4, <1>5, <1>6 DEF RolesInv

\* A call that goes on while the accounts stay as they are.
LEMMA TurnKeeps ==
    ASSUME RolesInv, NEW k \in Call, NEW next \in RolesCall,
           update' = [update EXCEPT ![k] = next], UNCHANGED <<user, asked>>,
           next.step \in {"asked", "ready"} =>
               /\ update[k].step \in {"asked", "ready"} /\ update[k].allowed
               /\ next.command = update[k].command /\ next.seen = update[k].seen
               /\ next.allowed = update[k].allowed /\ next.moved = update[k].moved,
           update[k].step = "ready" /\ next.step = "refused" => update[k].command \notin history
    PROVE  RolesInv' /\ Roles!AnswersRepeat
<1>1. \A j \in Call : update'[j] = IF j = k THEN next ELSE update[j]
  BY DEF RolesInv, RolesShape
<1>2. RolesShape'
  BY <1>1 DEF RolesInv, RolesShape
<1>3. ASSUME NEW j \in Call, update'[j].step \in {"asked", "ready"} PROVE Sees(j)'
  <2>1. update[j].step \in {"asked", "ready"} /\ Sees(j)
    BY <1>1, <1>3 DEF RolesInv
  <2>2. /\ update'[j].command = update[j].command /\ update'[j].seen = update[j].seen
        /\ update'[j].allowed = update[j].allowed /\ update'[j].moved = update[j].moved
        /\ update'[j].step = "ready" => update[j].allowed
    BY <1>1, <1>3, <2>1 DEF Sees
  <2>3. Roles!Request(j)' = Roles!Request(j)
    BY <2>2 DEF Roles!Request
  <2>4. ConcernsFlag(j)' <=> ConcernsFlag(j)
    BY <2>2, <2>3 DEF ConcernsFlag
  <2> QED
    BY <2>1, <2>2, <2>3, <2>4 DEF Sees
<1>4. Roles!AdministratorRemains'
  BY DEF RolesInv, Roles!AdministratorRemains, Roles!Administrators
<1>5. Roles!AnswersRepeat
  BY <1>1 DEF Roles!AnswersRepeat
<1> QED
  BY <1>2, <1>3, <1>4, <1>5 DEF RolesInv

LEMMA UpdateKeeps ==
    ASSUME RolesInv, NEW k \in Call, NEW c \in AccountCommand, NEW a \in Account, NEW u \in Account,
           NEW change \in RoleChange, NEW e \in 1..(Roles!Cardinality(AccountCommand) + 1),
           Roles!AskUpdate(k, c, a, u, change, e)
    PROVE  RolesInv' /\ Roles!AnswersRepeat /\ history' = history
<1> DEFINE us == Roles!Awake({a, u})
           request == [actor |-> a, target |-> u, change |-> change, expected |-> e]
           next == [step |-> "asked", command |-> c, seen |-> us[u],
                    allowed |-> Roles!MayChange(a, u, change, us), moved |-> {}]
<1>1. /\ asked[c] \in {None, request}
      /\ us[u].life = "live"
      /\ asked' = [asked EXCEPT ![c] = request] /\ user' = us /\ history' = history
      /\ update' = [j \in Call |->
                       IF j = k THEN next
                       ELSE IF update[j].step = "idle" THEN update[j]
                       ELSE [update[j] EXCEPT !.moved = @ \cup Roles!Moved(us)]]
  BY DEF Roles!AskUpdate, Roles!Writing, Roles!MayAccess
<1>2. Rewrites(us) /\ us[u] \in Roles!Row
  BY AwakeRewrites DEF Rewrites
<1>3. request \in Roles!Requests
  <2>1. e \in Nat
    OBVIOUS
  <2> QED
    BY <2>1 DEF Roles!Requests
<1>4. next \in RolesCall
  <2>1. Roles!MayChange(a, u, change, us) \in BOOLEAN
    BY DEF Roles!MayChange
  <2> HIDE DEF us
  <2> QED
    BY <1>2, <2>1 DEF RolesCall
<1>5. /\ asked' \in [AccountCommand -> Roles!Requests \cup {None}] /\ asked'[c] = request
      /\ \A d \in AccountCommand : asked[d] \in Roles!Requests => asked'[d] = asked[d]
  <2>1. None \notin Roles!Requests
    BY AccountBounds DEF Roles!AccountAssumption
  <2> HIDE DEF request
  <2> QED
    BY <1>1, <1>3, <2>1 DEF RolesInv, RolesShape
<1>6. Sees(k)'
  <2>1. update'[k] = next
    BY <1>1
  <2>2. /\ next.step = "asked" /\ next.command = c /\ next.seen = us[u]
        /\ next.allowed = Roles!MayChange(a, u, change, us)
    OBVIOUS
  <2>3. Roles!Request(k)' = request
    BY <1>5, <2>1, <2>2 DEF Roles!Request
  <2>4. request.target = u /\ request.actor = a /\ request.change = change
    OBVIOUS
  <2>5. ASSUME Roles!MayChange(a, u, change, us),
               "administrator" \in {us[u].role, Roles!Final(change.role, us[u].role)}
        PROVE  us[a].role = "administrator"
    BY <2>5 DEF Roles!MayChange
  <2> HIDE DEF request, next, us
  <2>6. ConcernsFlag(k)' <=> "administrator" \in {us[u].role, Roles!Final(change.role, us[u].role)}
    BY <2>1, <2>2, <2>3, <2>4 DEF ConcernsFlag
  <2> QED
    BY <1>1, <2>1, <2>2, <2>3, <2>4, <2>5, <2>6 DEF Sees
<1>7. next.step = "asked" /\ next.command = c
  OBVIOUS
<1> HIDE DEF us, request, next
<1>8. /\ Rewrites(user')
      /\ Told(k, next)
  BY Zenon, <1>1, <1>2 DEF Told
<1> QED
  BY <1>1, <1>3, <1>4, <1>5, <1>6, <1>7, <1>8, RewritingKeeps

\* A rewriting by a call that has no update to go on with.
LEMMA WritingKeeps ==
    ASSUME RolesInv, Rewrites(user'), NEW k, NEW next \in RolesCall,
           next.step \notin {"asked", "ready", "refused"}, asked' = asked,
           Told(k, next)
    PROVE  RolesInv' /\ Roles!AnswersRepeat
<1>1. asked' \in [AccountCommand -> Roles!Requests \cup {None}]
  BY DEF RolesInv, RolesShape
<1> QED
  BY <1>1, RewritingKeeps

LEMMA IdleCall == Roles!Idle \in RolesCall /\ Roles!Idle.step = "idle"
BY DEF RolesCall, Roles!Idle

LEMMA AsksKeep ==
    ASSUME RolesInv, NEW k \in Call, NEW a \in Account, NEW u \in Account,
           \/ \E s \in Roles!Status : Roles!AskStatus(k, a, u, s)
           \/ Roles!AskDelete(k, a, u)
    PROVE  RolesInv' /\ Roles!AnswersRepeat /\ history' = history
<1> DEFINE us == Roles!Awake({a, u})
<1>1. Rewrites(us)
  BY AwakeRewrites
<1>2. ASSUME NEW s \in Roles!Status, Roles!AskStatus(k, a, u, s)
      PROVE  RolesInv' /\ Roles!AnswersRepeat /\ history' = history
  <2> DEFINE next == [step |-> "status", target |-> u, status |-> s,
                      counted |-> (s # "active" /\ Roles!ActiveAdministrator(us[u])), moved |-> {}]
  <2>1. /\ user' = us /\ asked' = asked /\ history' = history
        /\ Told(k, next)
    BY Zenon, <1>2 DEF Roles!AskStatus, Roles!Writing, Told
  <2>2. next \in RolesCall /\ next.step = "status"
    BY DEF RolesCall
  <2> HIDE DEF us, next
  <2> QED
    BY <1>1, <2>1, <2>2, WritingKeeps
<1>3. ASSUME Roles!AskDelete(k, a, u)
      PROVE  RolesInv' /\ Roles!AnswersRepeat /\ history' = history
  <2> DEFINE next == [step |-> "delete", target |-> u, moved |-> {}]
  <2>1. /\ user' = us /\ asked' = asked /\ history' = history
        /\ Told(k, next)
    BY Zenon, <1>3 DEF Roles!AskDelete, Roles!Writing, Told
  <2>2. next \in RolesCall /\ next.step = "delete"
    BY DEF RolesCall
  <2> HIDE DEF us, next
  <2> QED
    BY <1>1, <2>1, <2>2, WritingKeeps
<1> QED
  BY <1>2, <1>3

\* One account is written; an administrator is left.
LEMMA OneRewritten ==
    ASSUME RolesInv, NEW t \in Account, NEW row \in Roles!Row,
           user[t].life # "absent" => row.life # "absent",
           row.life = "absent" => row.role # "administrator",
           \/ Roles!ActiveAdministrator(user[t]) => Roles!ActiveAdministrator(row)
           \/ \E u \in Account \ {t} : Roles!ActiveAdministrator(user[u])
    PROVE  Rewrites([user EXCEPT ![t] = row])
<1> DEFINE rows == [user EXCEPT ![t] = row]
<1>1. rows \in [Account -> Roles!Row] /\ \A u \in Account : rows[u] = IF u = t THEN row ELSE user[u]
  BY DEF RolesInv, RolesShape
<1>2. \E u \in Account : Roles!ActiveAdministrator(user[u])
  BY DEF RolesInv, Roles!AdministratorRemains, Roles!Administrators
<1> HIDE DEF rows
<1>3. \E u \in Account : Roles!ActiveAdministrator(rows[u])
  BY <1>1, <1>2
<1>4. Rewrites(rows)
  BY <1>1, <1>3 DEF Rewrites, RolesInv
<1> QED
  BY <1>4 DEF rows

\* A call ends as it writes one account.
LEMMA OneWriteKeeps ==
    ASSUME RolesInv, NEW k \in Call, NEW t \in Account, NEW row \in Roles!Row,
           user[t].life # "absent" => row.life # "absent",
           row.life = "absent" => row.role # "administrator",
           \/ Roles!ActiveAdministrator(user[t]) => Roles!ActiveAdministrator(row)
           \/ \E u \in Account \ {t} : Roles!ActiveAdministrator(user[u]),
           Roles!Writing(k, [user EXCEPT ![t] = row], Roles!Idle), asked' = asked
    PROVE  RolesInv' /\ Roles!AnswersRepeat
<1>1. Rewrites(user')
  BY OneRewritten DEF Roles!Writing
<1>2. Told(k, Roles!Idle)
  BY Zenon DEF Roles!Writing, Told
<1> QED
  BY <1>1, <1>2, IdleCall, WritingKeeps

LEMMA CallEnds ==
    ASSUME RolesInv, NEW k \in Call, update' = [update EXCEPT ![k] = Roles!Idle],
           UNCHANGED <<user, asked>>
    PROVE  RolesInv' /\ Roles!AnswersRepeat
BY IdleCall, TurnKeeps

\* The step that executes an update.
LEMMA ExecuteKeeps ==
    ASSUME RolesInv, NEW k \in Call, Roles!Execute(k)
    PROVE  RolesInv' /\ Roles!AnswersRepeat /\ Roles!ChangesFlagAsAdministrator
<1> DEFINE r == Roles!Request(k)
           t == r.target
           row == Roles!Updated(user[t], r.change)
<1>1. /\ update[k].step = "ready" /\ update[k].command \in AccountCommand
      /\ update[k] \in [step : {"asked", "ready"}, command : AccountCommand, seen : Roles!Row,
                        allowed : BOOLEAN, moved : SUBSET Account]
      /\ r \in Roles!Requests /\ Sees(k) /\ asked' = asked
  <2>1. update[k].step = "ready" /\ asked' = asked
    BY DEF Roles!Execute
  <2>2. update[k] \in [step : {"asked", "ready"}, command : AccountCommand, seen : Roles!Row,
                       allowed : BOOLEAN, moved : SUBSET Account]
    BY <2>1 DEF RolesInv, RolesShape, RolesCall, Roles!Idle
  <2> QED
    BY <2>1, <2>2 DEF RolesInv, RolesShape, Roles!Request
<1>2. r.actor \in Account /\ t \in Account /\ r.change \in RoleChange
  BY <1>1 DEF Roles!Requests
<1> HIDE DEF r
<1>3. CASE UNCHANGED <<user, history>>
  <2>1. Roles!ChangesFlagAsAdministrator
    BY <1>3 DEF Roles!ChangesFlagAsAdministrator
  <2>2. CASE update' = [update EXCEPT ![k] = Roles!Idle]
    BY <1>1, <1>3, <2>1, <2>2, CallEnds
  <2>3. CASE update' # [update EXCEPT ![k] = Roles!Idle]
    <3> DEFINE next == [step |-> "refused", command |-> update[k].command, moved |-> {}]
    <3>1. update' = [update EXCEPT ![k] = next] /\ update[k].command \notin history
      <4>1. \/ update' = [update EXCEPT ![k] = Roles!Idle]
            \/ update' = [update EXCEPT ![k] = [step |-> "idle"]]
            \/ update' = [update EXCEPT ![k] = next] /\ ~Roles!Answered(k)
            \/ history' = history \cup {update[k].command} /\ ~Roles!Answered(k)
        BY Zenon DEF Roles!Execute
      <4> QED
        BY <1>3, <2>3, <4>1 DEF Roles!Answered, Roles!Idle
    <3>2. next \in RolesCall /\ next.step = "refused"
      BY <1>1 DEF RolesCall
    <3> HIDE DEF next
    <3> QED
      BY <1>1, <1>3, <2>1, <3>1, <3>2, TurnKeeps
  <2> QED
    BY <2>2, <2>3
<1>4. CASE ~UNCHANGED <<user, history>>
  <2>1. /\ Roles!Active(user[r.actor]) /\ Roles!AsRead(k)
        /\ Roles!Demotes(k) => Roles!Cardinality(Roles!Administrators) > 1
        /\ Roles!Writing(k, [user EXCEPT ![t] = row], Roles!Idle)
        /\ history' = history \cup {update[k].command}
    BY Zenon, <1>4 DEF Roles!Execute, r
  <2>2. user[t] \in Roles!Row
    BY <1>2 DEF RolesInv, RolesShape
  <2>3. /\ row \in Roles!Row /\ row.life = user[t].life /\ row.status = user[t].status
        /\ row.role = Roles!Final(r.change.role, user[t].role)
    BY <1>2, <2>2, RowUpdated
  <2>4. /\ t \notin update[k].moved /\ r.actor \notin update[k].moved
        /\ user[t].role = update[k].seen.role /\ user[t].status = update[k].seen.status
        /\ user[t].life # "absent" /\ update[k].allowed
        /\ ConcernsFlag(k) => user[r.actor].role = "administrator"
    BY <1>1, <2>1 DEF Roles!AsRead, Sees, r
  <2>5. \/ Roles!ActiveAdministrator(user[t]) => Roles!ActiveAdministrator(row)
        \/ \E u \in Account \ {t} : Roles!ActiveAdministrator(user[u])
    <3>1. CASE Roles!Demotes(k)
      BY <2>1, <3>1, AnotherAdministrator
    <3>2. CASE ~Roles!Demotes(k)
      <4>1. SUFFICES ASSUME Roles!ActiveAdministrator(user[t]) PROVE Roles!ActiveAdministrator(row)
        OBVIOUS
      <4>2. Roles!Final(r.change.role, "administrator") = "administrator"
        BY <2>4, <3>2, <4>1 DEF Roles!Demotes, Roles!ActiveAdministrator, r
      <4> QED
        BY <2>3, <4>1, <4>2 DEF Roles!ActiveAdministrator
    <3> QED
      BY <3>1, <3>2
  <2> HIDE DEF row, t
  <2>6. RolesInv' /\ Roles!AnswersRepeat
    BY <1>1, <1>2, <2>1, <2>3, <2>4, <2>5, OneWriteKeeps
  <2>7. user'[t] = row
    BY <1>2, <2>1 DEF Roles!Writing, RolesInv, RolesShape
  <2>8. Roles!ChangesFlagAsAdministrator
    <3>1. SUFFICES ASSUME NEW c \in history' \ history,
                          "administrator" \in {user[asked[c].target].role,
                                              user'[asked[c].target].role}
                   PROVE  Roles!ActiveAdministrator(user[asked[c].actor])
      BY DEF Roles!ChangesFlagAsAdministrator
    <3>2. c = update[k].command /\ asked[c] = r
      BY <2>1, <3>1 DEF Roles!Request, r
    <3>3. asked[c].target = t
      BY <3>2 DEF t
    <3>4. "administrator" \in {user[t].role, Roles!Final(r.change.role, user[t].role)}
      BY <2>3, <2>7, <3>1, <3>3
    <3>5. ConcernsFlag(k)
      BY <2>4, <3>4 DEF ConcernsFlag, r
    <3> QED
      BY <2>1, <2>4, <3>2, <3>5 DEF Roles!ActiveAdministrator, Roles!Active
  <2> QED
    BY <2>6, <2>8
<1> QED
  BY <1>3, <1>4

LEMMA StatusKeeps ==
    ASSUME RolesInv, NEW k \in Call, Roles!SetStatus(k) PROVE RolesInv' /\ Roles!AnswersRepeat
<1> DEFINE t == update[k].target
           row == [user[t] EXCEPT !.status = update[k].status, !.due = FALSE]
<1>1. CASE ~Roles!MaySet(k)
  BY <1>1, CallEnds DEF Roles!SetStatus
<1>2. CASE Roles!MaySet(k)
  <2>1. /\ update[k].step = "status" /\ asked' = asked
        /\ Roles!Writing(k, [user EXCEPT ![t] = row], Roles!Idle)
    BY Zenon, <1>2 DEF Roles!SetStatus
  <2>2. t \in Account /\ update[k].status \in Roles!Status
    BY <2>1 DEF RolesInv, RolesShape, RolesCall, Roles!Idle
  <2>3. /\ row \in Roles!Row /\ row.life = user[t].life /\ row.role = user[t].role
        /\ row.status = update[k].status
    <3>1. user[t] \in Roles!Row
      BY <2>2 DEF RolesInv, RolesShape
    <3> QED
      BY <2>2, <3>1, RowSet
  <2>4. \/ Roles!ActiveAdministrator(user[t]) => Roles!ActiveAdministrator(row)
        \/ \E u \in Account \ {t} : Roles!ActiveAdministrator(user[u])
    <3>1. CASE update[k].counted
      BY <1>2, <3>1, AnotherAdministrator DEF Roles!MaySet
    <3>2. CASE ~update[k].counted
      BY <1>2, <2>3, <3>2 DEF Roles!MaySet, Roles!ActiveAdministrator
    <3> QED
      BY <3>1, <3>2
  <2>5. row.life = "absent" => row.role # "administrator"
    BY <2>2, <2>3 DEF RolesInv
  <2> HIDE DEF t, row
  <2> QED
    BY <2>1, <2>2, <2>3, <2>4, <2>5, OneWriteKeeps
<1> QED
  BY <1>1, <1>2

LEMMA DeleteKeeps ==
    ASSUME RolesInv, NEW k \in Call, Roles!Delete(k) PROVE RolesInv' /\ Roles!AnswersRepeat
<1> DEFINE t == update[k].target
           row == [user[t] EXCEPT !.life = "deleted", !.role = "portal", !.status = "inactive",
                                  !.due = FALSE, !.cpf = None]
           may == /\ user[t].life = "live"
                  /\ user[t].role = "administrator" =>
                       Roles!Cardinality(Roles!Administrators) > 1
<1>1. CASE ~may
  BY <1>1, CallEnds DEF Roles!Delete
<1>2. CASE may
  <2>1. /\ update[k].step = "delete" /\ asked' = asked
        /\ Roles!Writing(k, [user EXCEPT ![t] = row], Roles!Idle)
    BY Zenon, <1>2 DEF Roles!Delete
  <2>2. t \in Account
    BY <2>1 DEF RolesInv, RolesShape, RolesCall, Roles!Idle
  <2>3. row \in Roles!Row /\ row.life = "deleted" /\ row.role = "portal"
    <3>1. user[t] \in Roles!Row
      BY <2>2 DEF RolesInv, RolesShape
    <3> QED
      BY <3>1, RowDeleted
  <2>4. \/ Roles!ActiveAdministrator(user[t]) => Roles!ActiveAdministrator(row)
        \/ \E u \in Account \ {t} : Roles!ActiveAdministrator(user[u])
    <3>1. CASE user[t].role = "administrator"
      BY <1>2, <3>1, AnotherAdministrator
    <3>2. CASE user[t].role # "administrator"
      BY <3>2 DEF Roles!ActiveAdministrator
    <3> QED
      BY <3>1, <3>2
  <2> HIDE DEF t, row
  <2> QED
    BY <2>1, <2>2, <2>3, <2>4, OneWriteKeeps
<1> QED
  BY <1>1, <1>2

\* A write that belongs to no call.
LEMMA ForeignWriteKeeps ==
    ASSUME RolesInv, Rewrites(user'), asked' = asked,
           update' = [j \in Call |->
                        IF update[j].step = "idle" THEN update[j]
                        ELSE [update[j] EXCEPT !.moved = @ \cup Roles!Moved(user')]]
    PROVE  RolesInv' /\ Roles!AnswersRepeat
<1>1. PICK other : other \notin Call
  <2>1. {j \in Call : j \notin j} \notin Call
    OBVIOUS
  <2> QED
    BY Zenon, <2>1
<1> DEFINE next(j) == IF update[j].step = "idle" THEN update[j]
                      ELSE [update[j] EXCEPT !.moved = @ \cup Roles!Moved(user')]
<1>2. update' = [j \in Call |-> next(j)]
  OBVIOUS
<1> HIDE DEF next
<1>3. update' = [j \in Call |-> IF j = other THEN Roles!Idle ELSE next(j)]
  BY <1>1, <1>2
<1>4. Told(other, Roles!Idle)
  BY Zenon, <1>3 DEF next, Told
<1> QED
  BY <1>4, IdleCall, WritingKeeps

LEMMA CreateKeeps ==
    ASSUME RolesInv, NEW a \in Account, NEW u \in Account, NEW role \in Roles!Role,
           NEW cpf \in Number \cup {None}, Roles!Create(a, u, role, cpf)
    PROVE  RolesInv' /\ Roles!AnswersRepeat /\ history' = history
<1> DEFINE us == Roles!Awake({a})
           row == Roles!Opened(us[u], role, cpf)
<1>1. /\ us[u].life = "absent" /\ user' = [us EXCEPT ![u] = row]
      /\ asked' = asked /\ history' = history
      /\ update' = [j \in Call |->
                       IF update[j].step = "idle" THEN update[j]
                       ELSE [update[j] EXCEPT !.moved = @ \cup Roles!Moved(user')]]
  BY DEF Roles!Create
<1>2. /\ Rewrites(us) /\ us[u].role = user[u].role /\ us[u].life = user[u].life
  BY AwakeRewrites
<1>3. us \in [Account -> Roles!Row] /\ row \in Roles!Row /\ row.life = "live"
  BY <1>2, RowOpened DEF Rewrites
<1> HIDE DEF us, row
<1>4. user' \in [Account -> Roles!Row]
      /\ \A v \in Account : user'[v] = IF v = u THEN row ELSE us[v]
  BY <1>1, <1>3
<1>5. PICK v \in Account : Roles!ActiveAdministrator(us[v])
  BY <1>2 DEF Rewrites
<1>6. v # u
  BY <1>1, <1>2, <1>5 DEF RolesInv, Roles!ActiveAdministrator
<1>7. Rewrites(user')
  BY <1>2, <1>3, <1>4, <1>5, <1>6 DEF Rewrites
<1> QED
  BY <1>1, <1>7, ForeignWriteKeeps

LEMMA ListKeeps ==
    ASSUME RolesInv, Roles!List PROVE RolesInv' /\ Roles!AnswersRepeat /\ history' = history
<1>1. Rewrites(user')
  BY AwakeRewrites DEF Roles!List
<1> QED
  BY <1>1, ForeignWriteKeeps DEF Roles!List

\* That a suspension is over changes nothing yet.
LEMMA ExpireKeeps ==
    ASSUME RolesInv, NEW u \in Account, Roles!Expire(u)
    PROVE  RolesInv' /\ Roles!AnswersRepeat /\ history' = history
<1> DEFINE row == [user[u] EXCEPT !.due = TRUE]
<1>1. /\ user' = [user EXCEPT ![u] = row] /\ UNCHANGED <<asked, history, update>>
  BY DEF Roles!Expire
<1>2. /\ row \in Roles!Row /\ row.life = user[u].life /\ row.role = user[u].role
      /\ row.status = user[u].status
  <2>1. user[u] \in Roles!Row
    BY DEF RolesInv, RolesShape
  <2> QED
    BY <2>1 DEF Roles!Row
<1> HIDE DEF row
<1>3. /\ user' \in [Account -> Roles!Row]
      /\ \A v \in Account : /\ user'[v].life = user[v].life /\ user'[v].role = user[v].role
                            /\ user'[v].status = user[v].status
  BY <1>1, <1>2 DEF RolesInv, RolesShape
<1>4. RolesShape'
  BY <1>1, <1>3 DEF RolesInv, RolesShape
<1>5. ASSUME NEW k \in Call, update'[k].step \in {"asked", "ready"} PROVE Sees(k)'
  <2>1. Sees(k) /\ Roles!Request(k) \in Roles!Requests
    BY <1>1, <1>5 DEF RolesInv, RolesShape, Roles!Request
  <2>2. Roles!Request(k)' = Roles!Request(k)
    BY <1>1 DEF Roles!Request
  <2>3. Roles!Request(k).target \in Account /\ Roles!Request(k).actor \in Account
    BY <2>1 DEF Roles!Requests
  <2>4. ConcernsFlag(k)' <=> ConcernsFlag(k)
    BY <1>1, <2>2 DEF ConcernsFlag
  <2> QED
    BY <1>1, <1>3, <2>1, <2>2, <2>3, <2>4 DEF Sees
<1>6. Roles!AdministratorRemains'
  BY <1>3 DEF RolesInv, Roles!AdministratorRemains, Roles!Administrators, Roles!ActiveAdministrator
<1>7. Roles!AnswersRepeat
  BY <1>1 DEF Roles!AnswersRepeat
<1> QED
  BY <1>1, <1>3, <1>4, <1>5, <1>6, <1>7 DEF RolesInv

Choices == [person : Resident \cup {None}, source : {"cpf", "mail", "provisional"},
            cpf : Number \cup {None}]
PersonCalls == [step : {"person", "checked"}, target : Account, choice : Choices,
                moved : SUBSET Account]

LEMMA PersonCallsAre ==
    /\ PersonCalls \subseteq RolesCall
    /\ \A it \in RolesCall : it.step \in {"person", "checked"} => it \in PersonCalls
BY DEF PersonCalls, Choices, RolesCall, Roles!Idle

\* The person of an account is none of the roles' business.
LEMMA PersonKeeps ==
    ASSUME RolesInv, NEW k \in Call,
           \/ \E u \in Account : Roles!AsksPerson(k, u)
           \/ Roles!CheckPerson(k) \/ Roles!Associate(k) \/ Roles!AssociateFails(k)
    PROVE  RolesInv' /\ Roles!AnswersRepeat /\ history' = history
<1>1. ASSUME NEW next \in PersonCalls, update' = [update EXCEPT ![k] = next],
             UNCHANGED <<user, asked>>
      PROVE  RolesInv' /\ Roles!AnswersRepeat
  <2>1. next \in RolesCall /\ next.step \in {"person", "checked"}
    BY PersonCallsAre DEF PersonCalls
  <2> QED
    BY <1>1, <2>1, TurnKeeps
<1>2. ASSUME NEW u \in Account, NEW choice \in Choices, Roles!AskPerson(k, u, choice)
      PROVE  RolesInv' /\ Roles!AnswersRepeat
  <2> DEFINE next == [step |-> "person", target |-> u, choice |-> choice, moved |-> {}]
  <2>1. update' = [update EXCEPT ![k] = next] /\ UNCHANGED <<user, asked>>
    BY <1>2 DEF Roles!AskPerson
  <2>2. next \in PersonCalls
    BY DEF PersonCalls
  <2> HIDE DEF next
  <2> QED
    BY <1>1, <2>1, <2>2
<1>3. ASSUME NEW u \in Account, Roles!AsksPerson(k, u) PROVE RolesInv' /\ Roles!AnswersRepeat
  <2>1. user[u].cpf \in Number \cup {None}
    BY DEF RolesInv, RolesShape, Roles!Row
  <2>2. Roles!Automatic(u) \in Choices
    <3>1. CASE Roles!Match(u) # {}
      <4>1. (CHOOSE p \in Roles!Match(u) : TRUE) \in Roles!Match(u)
        BY <3>1
      <4>2. Roles!Match(u) \subseteq Resident
        BY DEF Roles!Match, Roles!Registered
      <4> QED
        BY <3>1, <4>1, <4>2 DEF Roles!Automatic, Choices
    <3>2. CASE Roles!Match(u) = {}
      BY <2>1, <3>2 DEF Roles!Automatic, Choices
    <3> QED
      BY <3>1, <3>2
  <2>3. ASSUME NEW p \in Resident PROVE Roles!Chosen(u, p) \in Choices
    BY DEF Roles!Chosen, Choices
  <2> QED
    BY <1>2, <1>3, <2>2, <2>3 DEF Roles!AsksPerson
<1>4. ASSUME Roles!CheckPerson(k) PROVE RolesInv' /\ Roles!AnswersRepeat
  <2> DEFINE next == [update[k] EXCEPT !.step = "checked"]
  <2>1. /\ update[k].step = "person" /\ UNCHANGED <<user, asked>>
        /\ \/ update' = [update EXCEPT ![k] = next]
           \/ update' = [update EXCEPT ![k] = Roles!Idle]
    BY Zenon, <1>4 DEF Roles!CheckPerson
  <2>2. update[k] \in PersonCalls
    BY <2>1, PersonCallsAre DEF RolesInv, RolesShape
  <2>3. next \in PersonCalls
    BY <2>2 DEF PersonCalls
  <2> HIDE DEF next
  <2> QED
    BY <1>1, <2>1, <2>3, CallEnds
<1>5. ASSUME Roles!AssociateFails(k) PROVE RolesInv' /\ Roles!AnswersRepeat
  BY <1>5, CallEnds DEF Roles!AssociateFails
<1>6. ASSUME Roles!Associate(k) PROVE RolesInv' /\ Roles!AnswersRepeat
  <2> DEFINE t == update[k].target
  <2>1. PICK p \in Resident : Roles!Writing(k, [user EXCEPT ![t].person = p], Roles!Idle)
    BY <1>6 DEF Roles!Associate
  <2>2. asked' = asked /\ update[k] \in PersonCalls
    BY <1>6, PersonCallsAre DEF Roles!Associate, RolesInv, RolesShape
  <2> DEFINE row == [user[t] EXCEPT !.person = p]
  <2>3. t \in Account /\ user[t] \in Roles!Row
    BY <2>2 DEF PersonCalls, RolesInv, RolesShape
  <2>4. /\ row \in Roles!Row /\ row.life = user[t].life /\ row.role = user[t].role
        /\ row.status = user[t].status
    BY <2>3 DEF Roles!Row
  <2>5. Roles!Writing(k, [user EXCEPT ![t] = row], Roles!Idle)
    BY Zenon, <2>1
  <2> HIDE DEF t, row
  <2>6. /\ row.life = "absent" => row.role # "administrator"
        /\ Roles!ActiveAdministrator(user[t]) => Roles!ActiveAdministrator(row)
    BY <2>3, <2>4 DEF RolesInv, Roles!ActiveAdministrator
  <2> QED
    BY <2>2, <2>3, <2>4, <2>5, <2>6, OneWriteKeeps
<1>7. history' = history
  BY Zenon DEF Roles!AsksPerson, Roles!AskPerson, Roles!CheckPerson, Roles!Associate,
     Roles!AssociateFails
<1> QED
  BY <1>3, <1>4, <1>5, <1>6, <1>7

RolesKept == RolesInv' /\ Roles!AnswersRepeat /\ Roles!ChangesFlagAsAdministrator

LEMMA RolesKeep ==
    ASSUME RolesInv, Roles!Next
    PROVE  RolesInv' /\ Roles!AnswersRepeat /\ Roles!ChangesFlagAsAdministrator
<1> SUFFICES RolesKept
  BY DEF RolesKept
<1> USE DEF RolesKept
<1>1. ASSUME RolesInv', Roles!AnswersRepeat, history' = history PROVE RolesKept
  BY <1>1 DEF Roles!ChangesFlagAsAdministrator
<1>2. ASSUME NEW k \in Call, Roles!LookUp(k) PROVE RolesKept
  <2> DEFINE next == [update[k] EXCEPT !.step = "ready"]
  <2>1. /\ update[k].step = "asked" /\ UNCHANGED <<user, asked, history>>
        /\ \/ update' = [update EXCEPT ![k] = next] /\ update[k].allowed
           \/ update' = [update EXCEPT ![k] = Roles!Idle]
    BY Zenon, <1>2 DEF Roles!LookUp
  <2>2. update[k] \in [step : {"asked", "ready"}, command : AccountCommand, seen : Roles!Row,
                       allowed : BOOLEAN, moved : SUBSET Account]
    BY <2>1 DEF RolesInv, RolesShape, RolesCall, Roles!Idle
  <2>3. /\ next \in [step : {"asked", "ready"}, command : AccountCommand, seen : Roles!Row,
                     allowed : BOOLEAN, moved : SUBSET Account]
        /\ next.step = "ready" /\ next.command = update[k].command /\ next.seen = update[k].seen
        /\ next.allowed = update[k].allowed /\ next.moved = update[k].moved
    BY <2>2
  <2>4. next \in RolesCall
    BY <2>3 DEF RolesCall
  <2> HIDE DEF next
  <2>5. RolesInv' /\ Roles!AnswersRepeat
    BY <2>1, <2>3, <2>4, TurnKeeps, CallEnds
  <2> QED
    BY <1>1, <2>1, <2>5
<1>3. ASSUME NEW k \in Call, Roles!Leave(k) PROVE RolesKept
  BY <1>1, <1>3, CallEnds DEF Roles!Leave
<1>4. ASSUME NEW p, NEW cpf, Roles!Register(p, cpf) PROVE RolesKept
  <2>1. UNCHANGED <<user, asked, history, update>>
    BY <1>4 DEF Roles!Register
  <2>2. Roles!AnswersRepeat
    BY <2>1 DEF Roles!AnswersRepeat
  <2>3. \A k \in Call : Roles!Request(k)' = Roles!Request(k)
    BY <2>1 DEF Roles!Request
  <2>4. \A k \in Call : Sees(k) => Sees(k)'
    BY <2>1, <2>3 DEF Sees, ConcernsFlag
  <2>5. RolesInv'
    BY <2>1, <2>4 DEF RolesInv, RolesShape, Roles!AdministratorRemains, Roles!Administrators
  <2> QED
    BY <1>1, <2>1, <2>2, <2>5
<1>5. ASSUME NEW k \in Call, Roles!Proceeds(k) PROVE RolesKept
  <2>1. CASE Roles!LookUp(k) \/ Roles!Leave(k)
    BY <1>2, <1>3, <2>1
  <2>2. CASE Roles!Execute(k)
    BY <2>2, ExecuteKeeps
  <2>3. CASE Roles!SetStatus(k) \/ Roles!Delete(k)
    <3>1. history' = history
      BY Zenon, <2>3 DEF Roles!SetStatus, Roles!Delete
    <3> QED
      BY <1>1, <2>3, <3>1, StatusKeeps, DeleteKeeps
  <2>4. CASE Roles!CheckPerson(k) \/ Roles!Associate(k) \/ Roles!AssociateFails(k)
    BY <1>1, <2>4, PersonKeeps
  <2> QED
    BY <1>5, <2>1, <2>2, <2>3, <2>4 DEF Roles!Proceeds
<1>6. ASSUME NEW k \in Call, Roles!Asks(k) PROVE RolesKept
  <2>1. CASE \E u \in Account : Roles!AsksPerson(k, u)
    BY <1>1, <2>1, PersonKeeps
  <2>2. CASE \E a, u \in Account : Roles!AskDelete(k, a, u)
    BY <1>1, <2>2, AsksKeep
  <2>3. CASE \E a, u \in Account, s \in Roles!Status : Roles!AskStatus(k, a, u, s)
    BY <1>1, <2>3, AsksKeep
  <2>4. CASE \E c \in AccountCommand, a, u \in Account, change \in RoleChange,
              e \in 1..(Roles!Cardinality(AccountCommand) + 1) :
                Roles!AskUpdate(k, c, a, u, change, e)
    BY <1>1, <2>4, UpdateKeeps
  <2> QED
    BY <1>6, <2>1, <2>2, <2>3, <2>4 DEF Roles!Asks
<1>7. ASSUME NEW a \in Account, NEW u \in Account, NEW r \in Roles!Role,
             NEW cpf \in Number \cup {None}, Roles!Create(a, u, r, cpf)
      PROVE  RolesKept
  BY <1>1, <1>7, CreateKeeps
<1>8. CASE Roles!List
  BY <1>1, <1>8, ListKeeps
<1>9. ASSUME NEW u \in Account, Roles!Expire(u) PROVE RolesKept
  BY <1>1, <1>9, ExpireKeeps
<1> HIDE DEF RolesKept
<1>10. CASE \E k \in Call : Roles!Asks(k) \/ Roles!Proceeds(k)
  BY <1>5, <1>6, <1>10
<1>11. CASE \E a, u \in Account, r \in Roles!Role, cpf \in Number \cup {None} :
              Roles!Create(a, u, r, cpf)
  BY <1>7, <1>11
<1>12. CASE \E u \in Account : Roles!Expire(u)
  BY <1>9, <1>12
<1>13. CASE \E p \in Resident, cpf \in Number \cup {Same} : Roles!Register(p, cpf)
  BY <1>4, <1>13
<1>14. RolesKept
  BY Zenon, <1>8, <1>10, <1>11, <1>12, <1>13 DEF Roles!Next
<1> QED
  BY <1>14

LEMMA InitRoles == Roles!Init => RolesInv
<1> SUFFICES ASSUME Roles!Init PROVE RolesInv
  OBVIOUS
<1> DEFINE founder == [Roles!Absent EXCEPT !.life = "live", !.role = "administrator",
                                           !.status = "active"]
<1>1. user = [u \in Account |-> IF u \in First THEN founder ELSE Roles!Absent]
  BY DEF Roles!Init
<1>2. /\ Roles!Absent \in Roles!Row /\ Roles!Absent.role = "portal"
      /\ founder \in Roles!Row /\ Roles!ActiveAdministrator(founder) /\ founder.life = "live"
  <2>1. Roles!Absent \in Roles!Row /\ Roles!Absent.role = "portal"
    BY DEF Roles!Absent, Roles!Row, Roles!Role, Roles!Status
  <2>2. founder \in Roles!Row
    BY <2>1 DEF Roles!Row, Roles!Role, Roles!Status
  <2>3. founder.life = "live" /\ founder.role = "administrator" /\ founder.status = "active"
    BY DEF Roles!Absent
  <2> QED
    BY <2>1, <2>2, <2>3 DEF Roles!ActiveAdministrator
<1> HIDE DEF founder
<1>3. \E u \in Account : u \in First
  BY AccountBounds DEF Roles!AccountAssumption
<1>4. RolesShape
  BY <1>1, <1>2, IdleCall DEF Roles!Init, RolesShape
<1>5. Roles!AdministratorRemains
  BY <1>1, <1>2, <1>3 DEF Roles!AdministratorRemains, Roles!Administrators
<1>6. \A u \in Account : user[u].life = "absent" => user[u].role # "administrator"
  BY <1>1, <1>2
<1>7. \A k \in Call : update[k].step = "idle"
  BY IdleCall DEF Roles!Init
<1> QED
  BY <1>4, <1>5, <1>6, <1>7 DEF RolesInv

-----------------------------------------------------------------------------
\* The office

OfficeInv ==
    /\ KnowledgeInv /\ ProfileInv
    /\ part = "roles" => RolesInv
    /\ part = "persons" => PersonsShape

LEMMA KnowledgeStays ==
    ASSUME KnowledgeInv, UNCHANGED knowledgeVars PROVE KnowledgeInv' /\ NotEdited
BY DEF KnowledgeInv, CommandsInv, GapInv, VersionsInv, Observed, NotEdited, knowledgeVars

LEMMA ProfileStays ==
    ASSUME ProfileInv, UNCHANGED profileVars
    PROVE  ProfileInv' /\ P!KeepsDecisions /\ P!MovesForward
<1>1. profile' = profile /\ call' = call /\ shown' = shown /\ confirmed' = confirmed
  BY DEF profileVars
<1>2. ProfileInv'
  BY <1>1 DEF ProfileInv, ProfileShape, ProfileCalls, ShowsApproved, P!Ids,
     P!OneSuggestionPerExecution
<1> QED
  BY <1>1, <1>2, ShownForward DEF P!KeepsDecisions

LEMMA AccountsStay ==
    ASSUME UNCHANGED accountVars
    PROVE  /\ RolesInv => RolesInv' /\ Roles!AnswersRepeat /\ Roles!ChangesFlagAsAdministrator
           /\ PersonsShape => PersonsShape' /\ Persons!KeepsPerson
<1>1. UNCHANGED <<user, asked, history, update>>
  BY DEF accountVars
<1>2. \A k \in Call : Roles!Request(k)' = Roles!Request(k)
  BY <1>1 DEF Roles!Request
<1>3. \A k \in Call : Sees(k) => Sees(k)'
  BY <1>1, <1>2 DEF Sees, ConcernsFlag
<1>4. RolesInv => RolesInv'
  BY <1>1, <1>3 DEF RolesInv, RolesShape, Roles!AdministratorRemains, Roles!Administrators
<1>5. Roles!AnswersRepeat /\ Roles!ChangesFlagAsAdministrator
  BY <1>1 DEF Roles!AnswersRepeat, Roles!ChangesFlagAsAdministrator
<1>6. PersonsShape => PersonsShape' /\ Persons!KeepsPerson
  BY <1>1 DEF PersonsShape, Persons!KeepsPerson
<1> QED
  BY <1>4, <1>5, <1>6

LEMMA PersonsKept == ASSUME PersonsShape, Persons!Next PROVE PersonsShape' /\ Persons!KeepsPerson
<1>1. Keeping(user')
  BY PersonsKeep
<1> QED
  BY <1>1 DEF Keeping, PersonsShape, Persons!KeepsPerson

LEMMA OfficeStep ==
    ASSUME OfficeInv, [OfficeNext]_officeVars
    PROVE  /\ OfficeInv' /\ part' = part
           /\ NotEdited /\ P!KeepsDecisions /\ P!MovesForward
           /\ part = "roles" => Roles!AnswersRepeat /\ Roles!ChangesFlagAsAdministrator
           /\ part = "persons" => Persons!KeepsPerson
<1>1. part' = part
  BY DEF OfficeNext, officeVars
<1>2. KnowledgeInv' /\ NotEdited
  <2>1. K!Next \/ UNCHANGED knowledgeVars
    BY DEF OfficeNext, officeVars, knowledgeVars
  <2> QED
    BY <2>1, KnowledgeKeeps, KnowledgeStays DEF OfficeInv
<1>3. ProfileInv' /\ P!KeepsDecisions /\ P!MovesForward
  <2>1. P!Next \/ UNCHANGED profileVars
    BY DEF OfficeNext, officeVars, profileVars
  <2> QED
    BY <2>1, ProfileKeeps, ProfileStays DEF OfficeInv
<1>4. ASSUME part = "roles"
      PROVE  RolesInv' /\ Roles!AnswersRepeat /\ Roles!ChangesFlagAsAdministrator
  <2>1. Roles!Next \/ UNCHANGED accountVars
    BY <1>4 DEF OfficeNext, officeVars, accountVars
  <2> QED
    BY <1>4, <2>1, RolesKeep, AccountsStay DEF OfficeInv
<1>5. ASSUME part = "persons" PROVE PersonsShape' /\ Persons!KeepsPerson
  <2>1. Persons!Next \/ UNCHANGED accountVars
    BY <1>5 DEF OfficeNext, officeVars, accountVars
  <2> QED
    BY <1>5, <2>1, PersonsKept, AccountsStay DEF OfficeInv
<1> QED
  BY <1>1, <1>2, <1>3, <1>4, <1>5 DEF OfficeInv

LEMMA InitOffice == OfficeInit => OfficeInv
<1> SUFFICES ASSUME OfficeInit PROVE OfficeInv
  OBVIOUS
<1>1. part = "persons" => PersonsShape
  BY DEF OfficeInit, Persons!Init, PersonsShape, Persons!Absent, Fields
<1> QED
  BY <1>1, InitKnowledge, InitProfile, InitRoles DEF OfficeInit, OfficeInv

\* The invariant of the office: that of each of its parts.
THEOREM OfficeInvariant == OfficeSpec => []OfficeInv
<1>1. OfficeInv /\ [OfficeNext]_officeVars => OfficeInv'
  BY OfficeStep
<1> QED
  BY <1>1, InitOffice, PTL DEF OfficeSpec

\* The count of a gap, what was published, the suggestions of an execution, the decisions
\* on them and the memory of a customer: KnowledgeIsKept.
THEOREM OfficeKeepsKnowledge == OfficeSpec => KnowledgeIsKept
<1>1. OfficeInv => K!GapCountsCommands /\ P!OneSuggestionPerExecution
  BY SameCardinality DEF OfficeInv, KnowledgeInv, GapInv, Observed, K!GapCountsCommands, ProfileInv
<1>2. OfficeInv /\ [OfficeNext]_officeVars => [NotEdited]_(K!vars)
  BY OfficeStep
<1>3. OfficeInv /\ [OfficeNext]_officeVars => [P!KeepsDecisions]_(P!vars) /\ [P!MovesForward]_(P!vars)
  BY OfficeStep
<1> QED
  BY <1>1, <1>2, <1>3, OfficeInvariant, PTL
     DEF OfficeSpec, KnowledgeIsKept, K!PublishedIsNotEdited, NotEdited, P!DecidedOnce,
         P!MemoryMovesForward

\* An active administrator remains, a repeat is answered, the flag changes on the word of
\* an administrator, and a person is associated once: RequestsAreHonoured.
THEOREM OfficeHonoursRequests == OfficeSpec => RequestsAreHonoured
<1> DEFINE Honours == /\ (part = "roles" =>
                            Roles!AnswersRepeat /\ Roles!ChangesFlagAsAdministrator)
                      /\ (part = "persons" => Persons!KeepsPerson)
<1>1. OfficeInv => (part = "roles" => Roles!AdministratorRemains)
  BY DEF OfficeInv, RolesInv
<1>2. OfficeInv /\ [OfficeNext]_officeVars => [Honours]_officeVars
  BY OfficeStep
<1> QED
  BY <1>1, <1>2, OfficeInvariant, PTL DEF OfficeSpec, RequestsAreHonoured

=============================================================================
