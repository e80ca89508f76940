------------------------ MODULE ServicePriority_proofs ------------------------
(* Theorems about the sessions of one thread, for any number of sessions,      *)
(* attendants, queues and urgencies: one session at most is in foreground, the *)
(* older panel's conversation agrees with it, and the foreground passes on     *)
(* only by priority or by a closing that gives it back.                        *)
EXTENDS ServicePriority, FiniteSetTheorems, TLAPS

-----------------------------------------------------------------------------
(* The inductive invariant *)

\* Nobody holds a session of the automation.
OwnedRow == {r \in Row : r.control = "ai" => r.user = None}

\* A row that may be in foreground.
Fit(r) == r.foreground /\ r.status \notin {"absent", "paused", "closed"}

\* Such a row leads when the conversation c shows who has it.
Leads(r, c) ==
    /\ Fit(r)
    /\ c.state # "closed"
    /\ r.control = "human" <=> c.state \in WithPeople

Front ==
    /\ session \in [Session -> OwnedRow]
    /\ conversation \in Facade
    /\ Foreground = {} \/ \E f \in Session : Foreground = {f} /\ Fit(session[f])

\* The thread is closed, or led by one session.
Led(f) == Foreground = {f} /\ Leads(session[f], conversation)
Shown ==
    \/ Foreground = {} /\ conversation.state = "closed"
    \/ \E f \in Session : Led(f)

\* A message that no command has overtaken has read the conversation as it is.
Reading ==
    /\ arriving \in Message \cup {None} /\ parted \in BOOLEAN
    /\ arriving # None /\ ~arriving.stale => arriving.read = conversation

PriorityInv == Front /\ Reading /\ (parted \/ Shown)

\* What the writers other than overtaken messages preserve.
Kept == Front' /\ (Shown => Shown')

LEMMA InvImplies == PriorityInv => TypeOK /\ OneForeground /\ FacadeAgrees
<1> SUFFICES ASSUME PriorityInv PROVE TypeOK /\ OneForeground /\ FacadeAgrees
  OBVIOUS
<1>1. TypeOK
  BY DEF PriorityInv, Front, Reading, TypeOK, OwnedRow
<1>2. ASSUME Foreground = {} PROVE OneForeground
  <2>1. Cardinality(Foreground) = 0
    BY <1>2, FS_EmptySet
  <2> QED
    BY <1>2, <2>1 DEF OneForeground
<1>3. ASSUME NEW f \in Session, Foreground = {f} /\ Fit(session[f]) PROVE OneForeground
  <2>1. Cardinality(Foreground) = 1
    BY <1>3, FS_Singleton
  <2> QED
    BY <1>3, <2>1 DEF Fit, OneForeground
<1>4. Shown => ProjectionFollows
  BY DEF Shown, Led, Leads, ProjectionFollows
<1> QED
  BY <1>1, <1>2, <1>3, <1>4 DEF PriorityInv, Front, FacadeAgrees

\* The session in foreground, if any, is alone and fit; it leads if the thread is shown.
LEMMA FrontLeads ==
    ASSUME Front, NEW s \in Session, session[s].foreground
    PROVE  /\ Foreground = {s} /\ Fit(session[s])
           /\ Shown => Leads(session[s], conversation)
BY DEF Front, Shown, Led, Foreground

-----------------------------------------------------------------------------
(* How a step may write rows *)

LEMMA FitStep ==
    ASSUME Front, NEW s \in Session, NEW r \in OwnedRow,
           session' = [session EXCEPT ![s] = r], Foreground \subseteq {s},
           conversation' \in Facade, Fit(r)
    PROVE  Front' /\ (Leads(r, conversation') => Shown')
<1>1. session' \in [Session -> OwnedRow] /\ session'[s] = r
      /\ \A t \in Session \ {s} : session'[t] = session[t]
  BY DEF Front
<1>2. Foreground' = {s}
  BY <1>1 DEF Foreground, Fit
<1>3. Fit(session[s])' /\ (Leads(r, conversation') => Led(s)')
  BY <1>1, <1>2 DEF Led, Leads, Fit
<1> QED
  BY <1>1, <1>2, <1>3 DEF Front, Shown

LEMMA LeadStep ==
    ASSUME Front, NEW s \in Session, NEW r \in OwnedRow,
           session' = [session EXCEPT ![s] = r], Foreground \subseteq {s},
           conversation' \in Facade, Leads(r, conversation')
    PROVE  Kept
BY FitStep DEF Leads, Kept

\* One session yields the foreground to another.
LEMMA PassStep ==
    ASSUME Front, NEW s \in Session, NEW y \in Session, s # y,
           NEW r \in OwnedRow, NEW q \in OwnedRow,
           session' = [session EXCEPT ![y] = q, ![s] = r],
           Foreground \subseteq {y}, ~q.foreground,
           conversation' \in Facade, Fit(r), Shown => Leads(r, conversation')
    PROVE  Kept
<1>1. session' \in [Session -> OwnedRow] /\ session'[s] = r /\ session'[y] = q
      /\ \A t \in Session \ {s, y} : session'[t] = session[t]
  BY DEF Front
<1>2. Foreground' = {s}
  BY <1>1 DEF Foreground, Fit
<1>3. Fit(session[s])' /\ (Shown => Led(s)')
  BY <1>1, <1>2 DEF Led, Leads, Fit
<1> QED
  BY <1>1, <1>2, <1>3 DEF Front, Shown, Kept

LEMMA ShutStep ==
    ASSUME Front, NEW s \in Session, NEW r \in OwnedRow,
           session' = [session EXCEPT ![s] = r], Foreground \subseteq {s},
           ~r.foreground, conversation' \in Facade
    PROVE  Front' /\ (conversation'.state = "closed" => Shown')
<1>1. session' \in [Session -> OwnedRow] /\ session'[s] = r
      /\ \A t \in Session \ {s} : session'[t] = session[t]
  BY DEF Front
<1>2. Foreground' = {}
  BY <1>1 DEF Foreground
<1> QED
  BY <1>1, <1>2 DEF Front, Shown

LEMMA BackgroundStep ==
    ASSUME Front, NEW s \in Session, NEW r \in OwnedRow,
           session' = [session EXCEPT ![s] = r], s \notin Foreground,
           ~r.foreground, UNCHANGED conversation
    PROVE  Kept
<1>1. session' \in [Session -> OwnedRow] /\ session'[s] = r
      /\ \A t \in Session \ {s} : session'[t] = session[t]
  BY DEF Front
<1>2. Foreground' = Foreground
  BY <1>1 DEF Foreground
<1>3. ASSUME NEW f \in Session, Foreground = {f}
      PROVE  session'[f] = session[f]
  BY <1>1, <1>3
<1> QED
  BY <1>1, <1>2, <1>3 DEF Front, Shown, Led, Kept

-----------------------------------------------------------------------------
(* The rows that the code computes *)

LEMMA RowFacts ==
    ASSUME NEW r \in OwnedRow, NEW before \in Status, NEW p \in Session
    PROVE  /\ Shut(r) \in OwnedRow /\ ~Shut(r).foreground /\ Shut(r).status = "closed"
           /\ Paused(r, before, p) \in OwnedRow /\ ~Paused(r, before, p).foreground
           /\ Resumed(r) \in OwnedRow /\ Resumed(r).foreground
           /\ Resumed(r).status = r.previous /\ r.previous \in Restorable
           /\ Resumed(r).control = r.control /\ Resumed(r).user = r.user
           /\ Fresh(r) \in OwnedRow /\ Fresh(r).foreground /\ Fresh(r).control = "ai"
           /\ Fresh(r).status = "open"
<1>1. Shut(r) \in OwnedRow /\ ~Shut(r).foreground /\ Shut(r).status = "closed"
  BY DEF OwnedRow, Row, Status, Control, Shut
<1>2. Paused(r, before, p) \in OwnedRow /\ ~Paused(r, before, p).foreground
  BY ZenonT(40) DEF OwnedRow, Row, Status, Control, Paused
<1>3. /\ Resumed(r) \in OwnedRow /\ Resumed(r).foreground
      /\ Resumed(r).status = r.previous /\ r.previous \in Restorable
      /\ Resumed(r).control = r.control /\ Resumed(r).user = r.user
  BY DEF OwnedRow, Row, Status, Control, Resumed
<1>4. /\ Fresh(r) \in OwnedRow /\ Fresh(r).foreground /\ Fresh(r).control = "ai"
      /\ Fresh(r).status = "open"
  BY DEF OwnedRow, Row, Status, Restorable, Control, Fresh
<1> QED
  BY <1>1, <1>2, <1>3, <1>4

LEMMA SynchronizedFacts ==
    ASSUME NEW r \in OwnedRow, NEW c \in Facade
    PROVE  /\ Synchronized(r, c) \in OwnedRow
           /\ c.state = "closed" => ~Synchronized(r, c).foreground
           /\ c.state # "closed" => Leads(Synchronized(r, c), c)
<1>1. CASE c.state = "closed"
  BY <1>1, RowFacts DEF Synchronized, Shut, OwnedRow, Row, Status, Control
<1>2. CASE c.state # "closed"
  <2>1. c.user \in User \cup {None}
    BY DEF Facade
  <2>2. Synchronized(r, c) =
          [r EXCEPT !.status = CASE c.state = "waiting" -> "waiting-customer"
                                 [] c.state = "queued" -> "waiting-human"
                                 [] OTHER -> "open",
                    !.control = IF c.state \in WithPeople THEN "human" ELSE "ai",
                    !.foreground = TRUE,
                    !.user = IF c.state \in WithPeople THEN c.user ELSE None]
    BY <1>2 DEF Synchronized
  <2>3. PICK status \in {"open", "waiting-customer", "waiting-human"},
             control \in Control, user \in User \cup {None} :
          /\ Synchronized(r, c) = [r EXCEPT !.status = status, !.control = control,
                                            !.foreground = TRUE, !.user = user]
          /\ control = "human" <=> c.state \in WithPeople
          /\ control = "ai" => user = None
    BY <2>1, <2>2 DEF Control
  <2>4. /\ Synchronized(r, c) \in OwnedRow /\ Synchronized(r, c).foreground
        /\ Synchronized(r, c).status = status /\ Synchronized(r, c).control = control
    BY <2>3 DEF OwnedRow, Row, Status, Restorable
  <2> QED
    BY <1>2, <2>3, <2>4 DEF Leads, Fit
<1> QED
  BY <1>1, <1>2

LEMMA ProjectedFacts ==
    ASSUME NEW r \in OwnedRow, NEW c \in Facade
    PROVE  /\ Projected(r, c) \in Facade
           /\ r.status = "closed" <=> Projected(r, c).state = "closed"
           /\ r.foreground /\ r.status \notin {"absent", "paused", "closed"}
                => Leads(r, Projected(r, c))
BY DEF OwnedRow, Row, Control, Facade, ConversationState, WithPeople, Projected,
       Leads, Fit

LEMMA ReshownFacts ==
    ASSUME NEW r \in OwnedRow
    PROVE  /\ Reshown(r) \in Facade
           /\ r.foreground /\ r.status \notin {"absent", "paused", "closed"}
                => Leads(r, Reshown(r))
BY DEF OwnedRow, Row, Control, Facade, ConversationState, WithPeople, Reshown,
       Leads, Fit

\* A command leaves the foreground as it is, closes a session or gives it a status
\* in which a session may lead.
LEMMA EvolvedFacts ==
    ASSUME NEW r \in OwnedRow, NEW c \in Command, Accepts(r, c),
           NEW after \in Assigned(Evolved(r, c), c)
    PROVE  /\ after \in OwnedRow
           /\ after.status \in {r.status, "open", "waiting-human", "closed"}
           /\ after.status # "closed" => after.foreground = r.foreground
           /\ after.status = "closed" => ~after.foreground
           /\ c.type = "close" => after = Shut(r)
<1> DEFINE e == Evolved(r, c)
<1>1. /\ e \in OwnedRow
      /\ e.status \in {r.status, "open", "waiting-human", "closed"}
      /\ e.status # "closed" => e.foreground = r.foreground
      /\ e.status = "closed" => ~e.foreground
      /\ c.type = "close" => e = Shut(r)
      /\ c.type \in {"return-to-queue", "transfer"} => e.control = "human"
  <2>1. CASE c.type = "assume"
    BY <2>1 DEF Command, Accepts, Evolved, OwnedRow, Row, Status, Restorable, Control
  <2>2. CASE c.type = "return-to-queue"
    BY <2>2 DEF Command, Accepts, Evolved, OwnedRow, Row, Status, Restorable, Control
  <2>3. CASE c.type = "return-to-ai"
    BY <2>3 DEF Command, Accepts, Evolved, OwnedRow, Row, Status, Restorable, Control
  <2>4. CASE c.type = "transfer"
    BY <2>4 DEF Command, Accepts, Evolved, OwnedRow, Row, Status, Restorable, Control
  <2>5. CASE c.type = "change-priority"
    BY <2>5 DEF Command, Accepts, Evolved, OwnedRow, Row, Status, Restorable, Control
  <2>6. CASE c.type = "close"
    BY ZenonT(60), <2>6, RowFacts DEF Evolved, Shut, OwnedRow, Row, Status, Restorable, Control
  <2> QED
    BY <2>1, <2>2, <2>3, <2>4, <2>5, <2>6 DEF Command
<1>2. CASE after = e
  BY <1>1, <1>2
<1>3. ASSUME NEW u \in User, after = [e EXCEPT !.status = "open", !.user = u],
             c.type \in {"return-to-queue", "transfer"}, e.status # "closed"
      PROVE  /\ after \in OwnedRow /\ after.status = "open"
             /\ after.foreground = r.foreground /\ c.type # "close"
  <2> HIDE DEF e
  <2> QED
    BY <1>1, <1>3 DEF OwnedRow, Row, Status, Restorable
<1>4. c.type \in {"return-to-queue", "transfer"} => e.status # "closed"
  BY DEF Evolved, OwnedRow, Row
<1> QED
  BY <1>1, <1>2, <1>3, <1>4 DEF Assigned

-----------------------------------------------------------------------------
(* The steps *)

LEMMA LinkedFacts ==
    ASSUME Front, NEW s \in Session, NEW p \in Best(Linked(s))
    PROVE  /\ p \in Session /\ p # s /\ session[p] \in OwnedRow
           /\ session[p].status = "paused"
BY DEF Best, Linked, Front

\* A resumed session leads, and the conversation that shows it agrees.
LEMMA ResumedLeads ==
    ASSUME NEW r \in OwnedRow, NEW c \in Facade
    PROVE  /\ Projected(Resumed(r), c) \in Facade
           /\ Leads(Resumed(r), Projected(Resumed(r), c))
           /\ Reshown(Resumed(r)) \in Facade
           /\ Leads(Resumed(r), Reshown(Resumed(r)))
<1>1. Resumed(r) \in OwnedRow /\ Resumed(r).foreground
      /\ Resumed(r).status \notin {"absent", "paused", "closed"}
  BY RowFacts DEF Restorable, Status, OwnedRow, Row, Resumed
<1> QED
  BY <1>1, ProjectedFacts, ReshownFacts

LEMMA PromotedFacts ==
    ASSUME NEW r \in OwnedRow, Challenges(r), NEW c \in Facade
    PROVE  /\ Promoted(r) \in OwnedRow
           /\ Projected(Promoted(r), c) \in Facade
           /\ Leads(Promoted(r), Projected(Promoted(r), c))
<1>1. /\ Promoted(r) \in OwnedRow /\ Promoted(r).foreground
      /\ Promoted(r).status \notin {"absent", "paused", "closed"}
  <2>1. CASE r.status # "paused"
    BY <2>1 DEF Promoted, Challenges, OwnedRow, Row, Status, Restorable
  <2>2. CASE r.status = "paused" /\ r.by # None
    BY <2>2 DEF Promoted, Resumed, OwnedRow, Row, Status, Restorable
  <2>3. CASE r.status = "paused" /\ r.by = None
    BY <2>3 DEF Promoted, OwnedRow, Row, Status, Restorable
  <2> QED
    BY <2>1, <2>2, <2>3
<1> QED
  BY <1>1, ProjectedFacts

LEMMA OperateKeeps ==
    ASSUME Front, NEW s \in Session, NEW c \in Command, Operate(s, c)
    PROVE  Kept
<1>0. session[s] \in OwnedRow /\ conversation \in Facade
      /\ session[s].status \in Status
  BY DEF Front, OwnedRow, Row
<1>1. PICK after \in Assigned(Evolved(session[s], c), c) :
        \/ KeepsForeground(s, after) \/ YieldsForeground(s, after)
        \/ ClosesForeground(s, after) \/ TakesFreeForeground(s, after)
        \/ InterruptsForeground(s, after) \/ StaysBackground(s, after)
  BY DEF Operate
<1>2. /\ after \in OwnedRow
      /\ after.status \in {session[s].status, "open", "waiting-human", "closed"}
      /\ after.status # "closed" => after.foreground = session[s].foreground
      /\ after.status = "closed" => ~after.foreground
  BY <1>0, <1>1, EvolvedFacts DEF Operate
<1>3. ASSUME session[s].foreground
      PROVE  Foreground = {s} /\ Fit(session[s])
  BY <1>3, FrontLeads
<1>4. CASE KeepsForeground(s, after)
  <2>1. /\ session' = [session EXCEPT ![s] = after]
        /\ conversation' = Projected(after, conversation)
        /\ session[s].foreground /\ after.status # "closed"
    BY <1>4 DEF KeepsForeground, Show
  <2>2. after.status \notin {"absent", "paused", "closed"} /\ after.foreground
    BY <1>2, <1>3, <2>1 DEF Fit
  <2> QED
    BY <1>0, <1>2, <1>3, <2>1, <2>2, ProjectedFacts, LeadStep
<1>5. CASE YieldsForeground(s, after)
  <2>1. PICK p \in Best(Linked(s)) :
          /\ session' = [session EXCEPT ![s] = Paused(after, session[s].status, p),
                                        ![p] = Resumed(session[p])]
          /\ conversation' = Projected(Resumed(session[p]), conversation)
          /\ session[s].foreground
    BY <1>5, LinkedFacts DEF YieldsForeground, Show, Front
  <2>2. p \in Session /\ p # s /\ session[p] \in OwnedRow
    BY LinkedFacts
  <2>3. /\ Paused(after, session[s].status, p) \in OwnedRow
        /\ ~Paused(after, session[s].status, p).foreground
        /\ Resumed(session[p]) \in OwnedRow
    BY <1>0, <1>2, <2>2, RowFacts
  <2> QED
    BY <1>0, <1>3, <2>1, <2>2, <2>3, ResumedLeads, PassStep DEF Leads
<1>6. CASE ClosesForeground(s, after)
  <2>0. session[s].foreground /\ after.status = "closed" /\ ~after.foreground
    BY <1>2, <1>6 DEF ClosesForeground
  <2>1. CASE /\ session' = [session EXCEPT ![s] = after]
             /\ Show(after)
    BY <1>0, <1>2, <1>3, <2>0, <2>1, ProjectedFacts, ShutStep DEF Show, Kept
  <2>2. ASSUME NEW p \in Best(Linked(s)),
               session' = [session EXCEPT ![s] = after, ![p] = Resumed(@)],
               Show(Resumed(session[p]))
        PROVE  Kept
    <3>1. p \in Session /\ p # s /\ session[p] \in OwnedRow
      BY LinkedFacts
    <3>2. session' = [session EXCEPT ![s] = after, ![p] = Resumed(session[p])]
      BY <2>2, <3>1 DEF Front
    <3>3. Resumed(session[p]) \in OwnedRow
      BY <1>0, <3>1, RowFacts
    <3> QED
      BY <1>0, <1>2, <1>3, <2>0, <2>2, <3>1, <3>2, <3>3, ResumedLeads, PassStep
         DEF Show, Leads
  <2> QED
    BY <1>6, <2>1, <2>2 DEF ClosesForeground
<1>7. CASE TakesFreeForeground(s, after)
  BY <1>0, <1>2, <1>7, PromotedFacts, LeadStep DEF TakesFreeForeground, Show
<1>8. CASE InterruptsForeground(s, after)
  <2>1. PICK f \in Foreground :
          /\ session' = [session EXCEPT ![s] = Promoted(after),
                                        ![f] = Paused(@, @.status, s)]
          /\ Show(Promoted(after)) /\ ~session[s].foreground /\ Challenges(after)
    BY <1>8 DEF InterruptsForeground
  <2>2. f \in Session /\ session[f].foreground /\ f # s /\ session[f] \in OwnedRow
        /\ session[f].status \in Status
    BY <2>1 DEF Foreground, Front, OwnedRow, Row
  <2>3. session' = [session EXCEPT ![f] = Paused(session[f], session[f].status, s),
                                   ![s] = Promoted(after)]
    BY <2>1, <2>2 DEF Front
  <2>4. /\ Paused(session[f], session[f].status, s) \in OwnedRow
        /\ ~Paused(session[f], session[f].status, s).foreground
    BY <2>2, RowFacts
  <2>5. Foreground \subseteq {f}
    BY <2>2, FrontLeads
  <2> QED
    BY <1>0, <1>2, <2>1, <2>2, <2>3, <2>4, <2>5, PromotedFacts, PassStep
       DEF Show, Leads
<1>9. CASE StaysBackground(s, after)
  <2>0. ~session[s].foreground /\ s \notin Foreground /\ UNCHANGED conversation
    BY <1>9 DEF StaysBackground, Foreground
  <2>1. PICK r : session' = [session EXCEPT ![s] = r]
                 /\ r \in {after, [after EXCEPT !.status = "paused"]}
    BY <1>9 DEF StaysBackground, Front
  <2>2. ~after.foreground
    BY <1>2, <2>0
  <2>3. r \in OwnedRow /\ ~r.foreground
    BY <1>2, <2>1, <2>2 DEF OwnedRow, Row, Status
  <2> QED
    BY <2>0, <2>1, <2>3, BackgroundStep
<1> QED
  BY <1>1, <1>4, <1>5, <1>6, <1>7, <1>8, <1>9

LEMMA FoundationFront ==
    ASSUME Front, NEW s \in Session, Foundation(s) \/ \E opened : Reached(s, opened)
    PROVE  Foreground \subseteq {s}
BY FrontLeads DEF Foundation, Reached, Alone, Foreground

LEMMA TransitionKeeps ==
    ASSUME Front, NEW c \in Facade,
           NEW queue \in [Session -> Queue \cup {None}],
           NEW urgency \in [Session -> Urgency], Transition(c, queue, urgency)
    PROVE  Kept
<1>1. PICK s \in Session :
        /\ Foundation(s) /\ conversation' = c
        /\ session' = [session EXCEPT
             ![s] = Synchronized([@ EXCEPT !.queue = queue[s], !.urgency = urgency[s]], c)]
  BY DEF Transition
<1> DEFINE r == [session[s] EXCEPT !.queue = queue[s], !.urgency = urgency[s]]
<1>2. r \in OwnedRow
  BY DEF Front, OwnedRow, Row
<1>3. session' = [session EXCEPT ![s] = Synchronized(r, c)]
  BY <1>1 DEF Front
<1> HIDE DEF r
<1> QED
  BY <1>1, <1>2, <1>3, FoundationFront, SynchronizedFacts, LeadStep, ShutStep DEF Kept

LEMMA PanelKeeps ==
    ASSUME Front,
           \/ \E u \in User : TakeOver(u)
           \/ Forward \/ ReturnToBot \/ StartAssistedQuote \/ PresentQuoteSummary
           \/ Annotate \/ PanelClose
           \/ \E q \in Queue, u \in Urgency : HandOff(q, u)
    PROVE  Kept
<1>1. /\ Queues \in [Session -> Queue \cup {None}]
      /\ Urgencies \in [Session -> Urgency]
      /\ \A q \in Queue \cup {None} : [s \in Session |-> q] \in [Session -> Queue \cup {None}]
      /\ \A u \in Urgency : [s \in Session |-> u] \in [Session -> Urgency]
  BY DEF Front, OwnedRow, Row, Queues, Urgencies
<1>2. /\ \A u \in User : [state |-> "human", user |-> u] \in Facade
      /\ [state |-> "queued", user |-> None] \in Facade
      /\ [state |-> "bot", user |-> None] \in Facade
      /\ [state |-> "waiting", user |-> None] \in Facade
      /\ [state |-> "closed", user |-> None] \in Facade
      /\ conversation \in Facade
  BY PriorityAssumption DEF Facade, ConversationState, WithPeople, Front
<1> QED
  BY <1>1, <1>2, TransitionKeeps
     DEF TakeOver, Forward, ReturnToBot, StartAssistedQuote, PresentQuoteSummary,
         Annotate, PanelClose, HandOff

\* Read is the conversation that the message found.
LEMMA AnsweredFacts ==
    ASSUME NEW r \in OwnedRow, arriving.read \in Facade,
           Fit(r) \/ r.status \in {"absent", "closed"}
    PROVE  /\ Answered(r) \in OwnedRow /\ Fit(Answered(r))
           /\ r.status \in {"absent", "closed"} /\ arriving.read.state = "closed"
                => Answered(r).control = "ai"
           /\ Fit(r) => Answered(r).control = r.control
<1> DEFINE c == IF arriving.read.state = "closed" THEN [state |-> "bot", user |-> None]
                ELSE arriving.read
<1>1. c \in Facade /\ c.state # "closed"
      /\ (arriving.read.state = "closed" => c.state = "bot")
  BY DEF Facade, ConversationState
<1>2. CASE r.status = "absent"
  <2>1. Answered(r) = Synchronized(r, c)
    BY <1>2 DEF Answered
  <2> HIDE DEF c
  <2>2. Synchronized(r, c) \in OwnedRow /\ Leads(Synchronized(r, c), c)
    BY <1>1, SynchronizedFacts
  <2>3. c.state = "bot" => Synchronized(r, c).control = "ai"
    BY <2>2 DEF Leads, WithPeople, OwnedRow, Row, Control
  <2> QED
    BY <1>1, <1>2, <2>1, <2>2, <2>3 DEF Leads, Fit
<1>3. CASE r.status = "closed"
  <2>1. Answered(r) = Fresh(r)
    BY <1>3 DEF Answered
  <2> QED
    BY <1>3, <2>1 DEF Fit, Fresh, OwnedRow, Row, Status, Restorable, Control
<1>4. CASE Fit(r) /\ r.status = "closing"
  BY <1>4 DEF Answered, Fit, OwnedRow, Row, Status, Restorable
<1>5. CASE Fit(r) /\ r.status # "closing"
  BY <1>5 DEF Answered, Fit
<1> QED
  BY <1>2, <1>3, <1>4, <1>5

\* A customer's message leaves one session in foreground at most; if no command overtook
\* it, the conversation goes on showing it.
LEMMA CustomerKeeps ==
    ASSUME Front, Reading, NEW text \in BOOLEAN, CustomerMessage(text)
    PROVE  Front' /\ (Shown /\ ~arriving.stale => Shown')
<1> DEFINE met == IF arriving.read.state = "closed" THEN [state |-> "bot", user |-> None]
                  ELSE conversation
           c == IF met.state = "waiting" /\ text THEN [state |-> "bot", user |-> None] ELSE met
<1>0. conversation \in Facade /\ arriving.read \in Facade
  BY DEF Front, Reading, CustomerMessage, Message
<1>1. /\ c \in Facade /\ (c.state \in WithPeople <=> met.state \in WithPeople)
      /\ c.state = "closed" <=> met.state = "closed"
      /\ met.state = "closed" => conversation.state = "closed" /\ arriving.read.state # "closed"
  BY <1>0 DEF Facade, ConversationState, WithPeople
<1>2. PICK s \in Session :
        /\ Reached(s, {"absent", "closed"}) /\ conversation' = c
        /\ session' = [session EXCEPT
             ![s] = IF Answered(@).control = "ai" \/ c.state \in WithPeople
                    THEN Synchronized(Answered(@), c) ELSE Answered(@)]
  BY DEF CustomerMessage
<1> DEFINE r == Answered(session[s])
           a == IF r.control = "ai" \/ c.state \in WithPeople THEN Synchronized(r, c) ELSE r
<1>3. session[s] \in OwnedRow /\ (Fit(session[s]) \/ session[s].status \in {"absent", "closed"})
  BY <1>2, FrontLeads DEF Front, Reached, Foreground
<1>4. /\ r \in OwnedRow /\ Fit(r)
      /\ session[s].status \in {"absent", "closed"} /\ arriving.read.state = "closed"
           => r.control = "ai"
      /\ Fit(session[s]) => r.control = session[s].control
  BY <1>0, <1>3, AnsweredFacts
<1>5. session' = [session EXCEPT ![s] = a]
  BY <1>2 DEF Front
<1>6. Foreground \subseteq {s}
  BY <1>2, FoundationFront
<1> HIDE DEF r, met, c
<1>7. CASE r.control = "ai" \/ c.state \in WithPeople
  <2>1. a = Synchronized(r, c)
    BY <1>7
  <2>2. CASE c.state = "closed"
    BY <1>1, <1>2, <1>4, <1>5, <1>6, <2>1, <2>2, SynchronizedFacts, ShutStep
  <2>3. CASE c.state # "closed"
    BY <1>1, <1>2, <1>4, <1>5, <1>6, <2>1, <2>3, SynchronizedFacts, LeadStep DEF Kept, Leads
  <2> QED
    BY <2>2, <2>3
<1>8. CASE ~(r.control = "ai" \/ c.state \in WithPeople)
  <2>1. a = r
    BY <1>8
  <2>2. Front'
    BY <1>1, <1>2, <1>4, <1>5, <1>6, <2>1, FitStep
  <2>3. ASSUME Shown, ~arriving.stale PROVE FALSE
    <3>1. arriving.read = conversation
      BY <2>3 DEF Reading, CustomerMessage
    <3>2. CASE s \in Foreground
      <4>1. Leads(session[s], conversation) /\ Fit(session[s])
        BY <2>3, <3>2, FrontLeads DEF Foreground
      <4>2. met.state = conversation.state
        BY <3>1, <4>1 DEF met, Leads
      <4> QED
        BY <1>1, <1>3, <1>4, <1>8, <4>1, <4>2 DEF Leads, OwnedRow, Row, Control
    <3>3. CASE s \notin Foreground
      <4>1. Foreground = {} /\ session[s].status \in {"absent", "closed"}
        BY <1>2, <1>6, <3>3 DEF Reached
      <4>2. conversation.state = "closed"
        BY <2>3, <4>1 DEF Shown, Led
      <4> QED
        BY <1>4, <1>8, <3>1, <4>1, <4>2
    <3> QED
      BY <3>2, <3>3
  <2> QED
    BY <2>2, <2>3
<1> QED
  BY <1>7, <1>8

LEMMA ExternalKeeps ==
    ASSUME Front, Reading, ExternalMessage
    PROVE  Front' /\ (Shown /\ ~arriving.stale => Shown')
<1>1. PICK s \in Session :
        /\ Reached(s, {"absent"})
        /\ session' = [session EXCEPT
             ![s] = [@ EXCEPT !.status = "open", !.control = "human",
                              !.foreground = TRUE, !.user = None]]
  BY DEF ExternalMessage
<1> DEFINE r == [session[s] EXCEPT !.status = "open", !.control = "human",
                                   !.foreground = TRUE, !.user = None]
<1>2. r \in OwnedRow /\ r.foreground /\ r.status = "open" /\ r.control = "human"
  BY ZenonT(60) DEF Front, OwnedRow, Row, Status, Restorable, Control
<1>3. session' = [session EXCEPT ![s] = r]
  BY <1>1 DEF Front
<1>4. conversation' \in Facade
  BY DEF ExternalMessage, Front, Facade, ConversationState, WithPeople
<1>5. ~arriving.stale => conversation'.state \in WithPeople
  BY DEF ExternalMessage, Reading, WithPeople
<1> HIDE DEF r
<1>6. Fit(r) /\ (~arriving.stale => Leads(r, conversation'))
  BY <1>2, <1>5 DEF Fit, Leads, WithPeople
<1>7. Foreground \subseteq {s}
  BY <1>1, FoundationFront
<1> QED
  BY <1>2, <1>3, <1>4, <1>6, <1>7, FitStep

LEMMA ClosingKeeps ==
    ASSUME Front, NEW s \in Session, BeginClosing(s) \/ FinishClosing(s)
    PROVE  Kept
<1>0. session[s] \in OwnedRow /\ conversation \in Facade
      /\ session[s].status \in Status
  BY DEF Front, OwnedRow, Row
<1>1. /\ session[s].foreground /\ Foreground = {s} /\ Fit(session[s])
      /\ Shown => Leads(session[s], conversation)
  BY FrontLeads DEF BeginClosing, FinishClosing
<1>2. CASE BeginClosing(s)
  <2> DEFINE r == [session[s] EXCEPT !.status = "closing"]
  <2>1. session' = [session EXCEPT ![s] = r] /\ conversation' = conversation
    BY <1>2 DEF BeginClosing
  <2>2. r \in OwnedRow /\ Fit(r)
    BY <1>0, <1>1 DEF OwnedRow, Row, Status, Fit
  <2>3. Shown => Leads(r, conversation)
    BY <1>0, <1>1, <2>2 DEF OwnedRow, Row, Leads
  <2> HIDE DEF r
  <2> QED
    BY <1>0, <1>1, <2>1, <2>2, <2>3, FitStep DEF Kept
<1>3. CASE /\ session' = [session EXCEPT ![s] = Shut(@)]
           /\ conversation' = [state |-> "closed", user |-> None]
  <2>1. session' = [session EXCEPT ![s] = Shut(session[s])]
    BY <1>3 DEF Front
  <2>2. conversation' \in Facade /\ conversation'.state = "closed"
    BY <1>3 DEF Facade, ConversationState
  <2>3. Shut(session[s]) \in OwnedRow /\ ~Shut(session[s]).foreground
    BY <1>0, RowFacts
  <2> QED
    BY <1>1, <2>1, <2>2, <2>3, ShutStep DEF Kept
<1>4. ASSUME NEW p \in Best(Linked(s)),
             session' = [session EXCEPT ![s] = Shut(@), ![p] = Resumed(@)],
             conversation' = Reshown(Resumed(session[p]))
      PROVE  Kept
  <2>1. p \in Session /\ p # s /\ session[p] \in OwnedRow
    BY LinkedFacts
  <2>2. session' = [session EXCEPT ![s] = Shut(session[s]), ![p] = Resumed(session[p])]
    BY <1>4, <2>1 DEF Front
  <2>3. /\ Shut(session[s]) \in OwnedRow /\ ~Shut(session[s]).foreground
        /\ Resumed(session[p]) \in OwnedRow
    BY <1>0, <2>1, RowFacts
  <2> QED
    BY <1>0, <1>1, <1>4, <2>1, <2>2, <2>3, ResumedLeads, PassStep DEF Leads
<1> QED
  BY <1>2, <1>3, <1>4 DEF FinishClosing

LEMMA NewSubjectKeeps ==
    ASSUME Front, NEW s \in Session, NEW new \in Session, NewSubject(s, new)
    PROVE  Kept
<1>1. /\ Foreground = {s} /\ Fit(session[s]) /\ s # new
      /\ Shown => Leads(session[s], conversation)
  BY FrontLeads DEF NewSubject, Fit
<1>2. session[s] \in OwnedRow /\ session[new] \in OwnedRow
  BY DEF Front
<1>3. session' = [session EXCEPT ![s] = Shut(session[s]), ![new] = Fresh(session[new])]
  BY <1>1 DEF NewSubject, Front
<1>4. /\ Shut(session[s]) \in OwnedRow /\ ~Shut(session[s]).foreground
      /\ Fresh(session[new]) \in OwnedRow /\ Fit(Fresh(session[new]))
      /\ Fresh(session[new]).control = "ai"
  BY <1>2, RowFacts DEF Fit, OwnedRow, Row, Status
<1>5. conversation' = conversation /\ conversation \in Facade /\ session[s].control = "ai"
  BY DEF NewSubject, Front
<1>6. Shown => Leads(Fresh(session[new]), conversation')
  BY <1>1, <1>4, <1>5 DEF Leads
<1> QED
  BY <1>1, <1>2, <1>3, <1>4, <1>5, <1>6, PassStep

LEMMA InitInv == Init => PriorityInv
<1> SUFFICES ASSUME Init PROVE PriorityInv
  OBVIOUS
<1>1. PICK f \in Session, waiting \in SUBSET Session, q \in Queue, held \in Control :
        /\ f \notin waiting
        /\ session = [s \in Session |->
             CASE s = f -> [NoRow EXCEPT !.status = IF held = "ai" THEN "open" ELSE "waiting-human",
                                         !.control = held, !.foreground = TRUE]
               [] s \in waiting -> [NoRow EXCEPT !.status = "waiting-human",
                                                 !.control = "human", !.queue = q]
               [] OTHER -> NoRow]
        /\ conversation = [state |-> IF held = "ai" THEN "bot" ELSE "queued", user |-> None]
        /\ arriving = None /\ parted = FALSE
  BY DEF Init
<1> DEFINE front == [NoRow EXCEPT !.status = IF held = "ai" THEN "open" ELSE "waiting-human",
                                  !.control = held, !.foreground = TRUE]
           back == [NoRow EXCEPT !.status = "waiting-human", !.control = "human", !.queue = q]
<1>2. NoRow \in OwnedRow /\ ~NoRow.foreground
  BY PriorityAssumption DEF NoRow, OwnedRow, Row, Status, Restorable, Control
<1>3. back \in OwnedRow /\ ~back.foreground
  BY <1>2 DEF NoRow, OwnedRow, Row, Status, Restorable, Control
<1>4. /\ front \in OwnedRow /\ front.foreground /\ front.control = held
      /\ front.status \in {"open", "waiting-human"}
  BY <1>2 DEF NoRow, OwnedRow, Row, Status, Restorable, Control
<1>5. conversation \in Facade /\ Leads(front, conversation)
  BY <1>1, <1>4 DEF Facade, ConversationState, WithPeople, Leads, Fit, Control
<1> HIDE DEF front, back
<1>6. session = [s \in Session |-> IF s = f THEN front
                                   ELSE IF s \in waiting THEN back ELSE NoRow]
  BY <1>1 DEF front, back
<1>7. Led(f)
  BY <1>2, <1>3, <1>4, <1>5, <1>6 DEF Led, Foreground
<1> QED
  BY <1>1, <1>2, <1>3, <1>4, <1>5, <1>6, <1>7 DEF PriorityInv, Front, Reading, Shown, Leads, Led

\* What the steps do to the reading of a message.
LEMMA ReadingKeeps == ASSUME PriorityInv, Next PROVE Reading' /\ (parted => parted')
<1>0. arriving \in Message \cup {None} /\ parted \in BOOLEAN /\ conversation \in Facade
  BY DEF PriorityInv, Reading, Front
<1>1. ASSUME NEW s \in Session, NEW c \in Command, Operate(s, c)
      PROVE  Reading' /\ parted' = parted
  <2>1. CASE arriving # None /\ conversation' # conversation
    <3>1. arriving' = [arriving EXCEPT !.stale = TRUE] /\ parted' = parted
      BY <1>1, <2>1 DEF Operate
    <3>2. arriving' \in Message /\ arriving'.stale
      BY <1>0, <2>1, <3>1 DEF Message
    <3> QED
      BY <1>0, <3>1, <3>2 DEF Reading
  <2>2. CASE arriving = None \/ conversation' = conversation
    <3>1. arriving' = arriving /\ parted' = parted
      BY <1>1, <2>2 DEF Operate
    <3> QED
      BY <2>2, <3>1 DEF PriorityInv, Reading
  <2> QED
    BY <2>1, <2>2
<1>2. CASE arriving = None /\ UNCHANGED <<arriving, parted>>
  BY <1>0, <1>2 DEF Reading
<1>3. CASE MessageArrives
  <2>1. arriving' \in Message /\ arriving'.read = conversation' /\ parted' = parted
    BY <1>0, <1>3 DEF MessageArrives, Message
  <2> QED
    BY <1>0, <2>1 DEF Reading
<1>4. CASE MessageFindsNobody
  <2>1. /\ arriving \in Message /\ arriving' = [arriving EXCEPT !.free = TRUE]
        /\ conversation' = conversation /\ parted' = parted
    BY <1>0, <1>4 DEF MessageFindsNobody
  <2>2. arriving' \in Message /\ arriving'.read = arriving.read /\ arriving'.stale = arriving.stale
    BY <2>1 DEF Message
  <2>3. arriving # None /\ ~arriving.stale => arriving.read = conversation
    BY DEF PriorityInv, Reading
  <2>4. arriving # None
    BY <1>4 DEF MessageFindsNobody
  <2> QED
    BY <1>0, <2>1, <2>2, <2>3, <2>4 DEF Reading
<1>5. CASE MessageRefused
  BY <1>0, <1>5 DEF MessageRefused, Reading
<1>6. CASE ExternalMessage \/ \E text \in BOOLEAN : CustomerMessage(text)
  <2>1. arriving \in Message /\ arriving' = None /\ parted' = (parted \/ arriving.stale)
    BY <1>0, <1>6 DEF ExternalMessage, CustomerMessage, MessageEnds
  <2>2. parted' \in BOOLEAN /\ (parted => parted')
    BY <1>0, <2>1 DEF Message
  <2> QED
    BY <2>1, <2>2 DEF Reading
<1> QED
  BY <1>1, <1>2, <1>3, <1>4, <1>5, <1>6
     DEF Next, TakeOver, Forward, ReturnToBot, StartAssistedQuote, PresentQuoteSummary,
         Annotate, PanelClose, HandOff, Transition, BeginClosing, FinishClosing, HeldByBot,
         NewSubject

LEMMA NextInv == PriorityInv /\ [Next]_vars => PriorityInv'
<1> SUFFICES ASSUME PriorityInv, [Next]_vars PROVE PriorityInv'
  OBVIOUS
<1>0. Front /\ Reading /\ (parted \/ Shown)
  BY DEF PriorityInv
<1>1. CASE UNCHANGED vars
  BY <1>1 DEF vars, PriorityInv, Front, Reading, Shown, Led, Foreground
<1>2. ASSUME Next PROVE Front' /\ Reading' /\ (parted' \/ Shown')
  <2>1. Reading' /\ (parted => parted')
    BY <1>2, ReadingKeeps
  <2>2. CASE Kept
    BY <1>0, <2>1, <2>2 DEF Kept
  <2>3. CASE UNCHANGED <<session, conversation>>
    BY <1>0, <2>1, <2>3 DEF Front, Shown, Led, Foreground
  <2>4. CASE ExternalMessage \/ \E text \in BOOLEAN : CustomerMessage(text)
    <3>1. Front' /\ (Shown /\ ~arriving.stale => Shown')
      BY <1>0, <2>4, ExternalKeeps, CustomerKeeps
    <3>2. arriving.stale => parted'
      BY <2>4 DEF ExternalMessage, CustomerMessage, MessageEnds
    <3> QED
      BY <1>0, <2>1, <3>1, <3>2
  <2> QED
    BY <1>0, <1>2, <2>2, <2>3, <2>4, OperateKeeps, PanelKeeps, ClosingKeeps, NewSubjectKeeps
       DEF Next, MessageArrives, MessageFindsNobody, MessageRefused
<1> QED
  BY <1>1, <1>2 DEF PriorityInv

LEMMA SpecInv == Spec => []PriorityInv
BY InitInv, NextInv, PTL DEF Spec

-----------------------------------------------------------------------------
(* Theorems *)

\* Whatever people, the automation and the customer do to the sessions of a thread,
\* one at most is in foreground, and it is live.
THEOREM ForegroundIsOne == Spec => []OneForeground
BY InvImplies, SpecInv, PTL

\* The conversation of the older panel shows the session in foreground for as long as no
\* command overtakes a message.
THEOREM FacadeFollows == Spec => []FacadeAgrees
BY InvImplies, SpecInv, PTL

\* A command or the automatic closing that closes the session in foreground gives it
\* back to the best session that it had interrupted.  Nothing is said of the older panel's
\* closing and of a new subject, which coordinate no priorities.
THEOREM ClosingGivesBack == Spec => ClosingResumes
<1> DEFINE GivenBack == \A s \in Foreground :
              session'[s].status = "closed" /\ Linked(s) # {} /\ Coordinates(s)
                => \E p \in Best(Linked(s)) :
                     p \in Foreground' /\ session'[p].status = session[p].previous
<1>1. PriorityInv /\ [Next]_vars => [GivenBack]_vars
  <2> SUFFICES ASSUME PriorityInv, NEW s \in Foreground, session'[s].status = "closed",
                      Linked(s) # {}, Coordinates(s)
               PROVE  \E p \in Best(Linked(s)) :
                        p \in Foreground' /\ session'[p].status = session[p].previous
    OBVIOUS
  <2>0. s \in Session /\ session[s].foreground /\ session[s] \in OwnedRow
        /\ session \in [Session -> OwnedRow] /\ Front
    BY DEF Foreground, PriorityInv, Front
  <2>1. \E p \in Best(Linked(s)) : \E row :
          session' = [session EXCEPT ![s] = row, ![p] = Resumed(@)]
    <3>1. CASE FinishClosing(s)
      BY <3>1 DEF FinishClosing
    <3>2. ASSUME NEW c \in Command, Operate(s, c)
          PROVE  \E p \in Best(Linked(s)) : \E row :
                   session' = [session EXCEPT ![s] = row, ![p] = Resumed(@)]
      <4>1. PICK after \in Assigned(Evolved(session[s], c), c) :
              \/ KeepsForeground(s, after) \/ YieldsForeground(s, after)
              \/ ClosesForeground(s, after) \/ TakesFreeForeground(s, after)
              \/ InterruptsForeground(s, after) \/ StaysBackground(s, after)
        BY <3>2 DEF Operate
      <4>2. after \in OwnedRow
        BY <2>0, <3>2, <4>1, EvolvedFacts DEF Operate
      <4>3. CASE KeepsForeground(s, after)
        BY <2>0, <4>3 DEF KeepsForeground
      <4>4. ASSUME YieldsForeground(s, after) PROVE FALSE
        <5>1. PICK p \in Best(Linked(s)) :
                session' = [session EXCEPT ![s] = Paused(after, session[s].status, p),
                                           ![p] = Resumed(@)]
          BY <4>4 DEF YieldsForeground
        <5>2. session'[s] = Paused(after, session[s].status, p)
          BY <2>0, <5>1, LinkedFacts
        <5> QED
          BY <4>2, <5>2 DEF Paused, OwnedRow, Row
      <4>5. CASE ClosesForeground(s, after)
        BY <4>5 DEF ClosesForeground
      <4> QED
        BY <2>0, <4>1, <4>3, <4>4, <4>5
           DEF TakesFreeForeground, InterruptsForeground, StaysBackground
    <3> QED
      BY <3>1, <3>2 DEF Coordinates
  <2>2. PICK p \in Best(Linked(s)) : \E row :
          session' = [session EXCEPT ![s] = row, ![p] = Resumed(@)]
    BY <2>1
  <2>3. p \in Session /\ p # s /\ session[p] \in OwnedRow
    BY <2>0, LinkedFacts
  <2>4. session'[p] = Resumed(session[p])
    BY <2>0, <2>2, <2>3
  <2>5. Resumed(session[p]).foreground /\ Resumed(session[p]).status = session[p].previous
    BY <2>3, RowFacts DEF OwnedRow, Row
  <2> QED
    BY <2>3, <2>4, <2>5 DEF Foreground
<1> QED
  BY <1>1, SpecInv, PTL DEF Spec, ClosingResumes

\* Only the urgency and the queue of a row decide its priority.
LEMMA HigherSame ==
    ASSUME NEW r, NEW q, NEW r1, NEW q1,
           r1.urgency = r.urgency, r1.queue = r.queue,
           q1.urgency = q.urgency, q1.queue = q.queue, Higher(r, q)
    PROVE  Higher(r1, q1)
BY DEF Higher

LEMMA SamePriority ==
    ASSUME NEW r \in OwnedRow, NEW before, NEW p
    PROVE  /\ Paused(r, before, p).urgency = r.urgency
           /\ Paused(r, before, p).queue = r.queue
           /\ Resumed(r).urgency = r.urgency /\ Resumed(r).queue = r.queue
           /\ Promoted(r).urgency = r.urgency /\ Promoted(r).queue = r.queue
BY DEF OwnedRow, Row, Paused, Resumed, Promoted

\* A session that loses the foreground while it stays open loses it to a session of
\* strictly higher priority.
THEOREM HigherTakesOver == Spec => OnlyHigherTakesOver
<1> DEFINE Lost(s) == session'[s].status # "closed" =>
              \A t \in Foreground' \ {s} : Higher(session'[t], session'[s])
           OnlyToHigher == \A s \in Foreground : Lost(s)
<1>1. PriorityInv /\ [Next]_vars => [OnlyToHigher]_vars
  <2> SUFFICES ASSUME PriorityInv, Next, NEW s \in Foreground, NEW t \in Foreground',
                      t # s, session'[s].status # "closed"
               PROVE  Higher(session'[t], session'[s])
    OBVIOUS
  <2>0. /\ s \in Session /\ t \in Session /\ Foreground = {s}
        /\ session \in [Session -> OwnedRow] /\ ~session[t].foreground
        /\ session'[t].foreground /\ Front
    BY FrontLeads DEF Foreground, PriorityInv, Front
  <2>1. ASSUME NEW x, NEW r, session' = [session EXCEPT ![x] = r], Foreground \subseteq {x}
        PROVE  FALSE
    BY <2>0, <2>1
  <2>2. ASSUME NEW x \in Session, NEW c \in Command, Operate(x, c)
        PROVE  Higher(session'[t], session'[s])
    <3>1. PICK after \in Assigned(Evolved(session[x], c), c) :
            \/ KeepsForeground(x, after) \/ YieldsForeground(x, after)
            \/ ClosesForeground(x, after) \/ TakesFreeForeground(x, after)
            \/ InterruptsForeground(x, after) \/ StaysBackground(x, after)
      BY <2>2 DEF Operate
    <3>2. /\ after \in OwnedRow
          /\ after.status # "closed" => after.foreground = session[x].foreground
          /\ after.status = "closed" => ~after.foreground
      BY <2>0, <2>2, <3>1, EvolvedFacts DEF Operate
    <3>3. session[x].foreground => x = s
      BY <2>0, <2>2 DEF Foreground
    <3>4. CASE KeepsForeground(x, after)
      BY <2>0, <2>1, <3>3, <3>4 DEF KeepsForeground
    <3>5. CASE YieldsForeground(x, after)
      <4>1. PICK p \in Best(Linked(s)) :
              /\ Interrupts(session[p], after)
              /\ session' = [session EXCEPT ![s] = Paused(after, session[s].status, p),
                                            ![p] = Resumed(@)]
        BY <3>3, <3>5 DEF YieldsForeground
      <4>2. p \in Session /\ p # s /\ session[p] \in OwnedRow
        BY <2>0, LinkedFacts
      <4>3. /\ session'[p] = Resumed(session[p])
            /\ session'[s] = Paused(after, session[s].status, p)
            /\ \A z \in Session \ {s, p} : session'[z] = session[z]
        BY <2>0, <4>1, <4>2
      <4>4. t = p
        BY <2>0, <4>3
      <4>5. /\ session'[t].urgency = session[p].urgency /\ session'[t].queue = session[p].queue
            /\ session'[s].urgency = after.urgency /\ session'[s].queue = after.queue
        BY <3>2, <4>2, <4>3, <4>4, SamePriority
      <4> QED
        BY <4>1, <4>5, HigherSame DEF Interrupts
    <3>6. CASE ClosesForeground(x, after)
      <4>1. x = s /\ after.status = "closed"
        BY <3>3, <3>6 DEF ClosesForeground
      <4>2. session'[s] = after
        <5>1. CASE session' = [session EXCEPT ![s] = after]
          BY <2>0, <5>1
        <5>2. ASSUME NEW p \in Best(Linked(s)),
                     session' = [session EXCEPT ![s] = after, ![p] = Resumed(@)]
              PROVE  session'[s] = after
          <6>1. p # s
            BY <2>0, LinkedFacts
          <6> QED
            BY <2>0, <5>2, <6>1
        <5> QED
          BY <3>6, <4>1, <5>1, <5>2 DEF ClosesForeground
      <4> QED
        BY <4>1, <4>2
    <3>7. CASE TakesFreeForeground(x, after)
      BY <2>0, <3>7 DEF TakesFreeForeground
    <3>8. CASE InterruptsForeground(x, after)
      <4>1. /\ session' = [session EXCEPT ![x] = Promoted(after), ![s] = Paused(@, @.status, x)]
            /\ ~session[x].foreground /\ Interrupts(after, session[s])
        BY <2>0, <3>8 DEF InterruptsForeground
      <4>2. x # s
        BY <4>1 DEF Foreground
      <4>3. /\ session'[x] = Promoted(after)
            /\ session'[s] = Paused(session[s], session[s].status, x)
            /\ \A z \in Session \ {s, x} : session'[z] = session[z]
        BY <2>0, <2>2, <4>1, <4>2
      <4>4. t = x
        BY <2>0, <4>3
      <4>5. /\ session'[t].urgency = after.urgency /\ session'[t].queue = after.queue
            /\ session'[s].urgency = session[s].urgency /\ session'[s].queue = session[s].queue
        BY <2>0, <3>2, <4>3, <4>4, SamePriority
      <4> QED
        BY <4>1, <4>5, HigherSame DEF Interrupts
    <3>9. CASE StaysBackground(x, after)
      <4>1. PICK r : session' = [session EXCEPT ![x] = r]
                     /\ r \in {after, [after EXCEPT !.status = "paused"]}
        BY <2>0, <3>9 DEF StaysBackground
      <4>2. ~r.foreground
        BY <3>2, <3>9, <4>1 DEF StaysBackground, OwnedRow, Row
      <4> QED
        BY <2>0, <2>2, <4>1, <4>2
    <3> QED
      BY <3>1, <3>4, <3>5, <3>6, <3>7, <3>8, <3>9
  <2>3. ASSUME NEW x \in Session, NEW r, session' = [session EXCEPT ![x] = r],
               Foundation(x) \/ \E opened : Reached(x, opened)
        PROVE  FALSE
    BY <2>0, <2>1, <2>3, FoundationFront
  <2>4. ASSUME NEW c, NEW queue, NEW urgency, Transition(c, queue, urgency) PROVE FALSE
    <3>1. PICK x \in Session :
            /\ Foundation(x)
            /\ session' = [session EXCEPT
                 ![x] = Synchronized([@ EXCEPT !.queue = queue[x], !.urgency = urgency[x]], c)]
      BY <2>4 DEF Transition
    <3>2. PICK r : session' = [session EXCEPT ![x] = r]
      BY <2>0, <3>1
    <3> QED
      BY <2>3, <3>1, <3>2
  <2>5. ASSUME NEW text \in BOOLEAN, CustomerMessage(text) PROVE FALSE
    <3>1. PICK x \in Session : (\E opened : Reached(x, opened)) /\ \E r : session' = [session EXCEPT ![x] = r]
      BY <2>0, <2>5 DEF CustomerMessage
    <3> QED
      BY <2>3, <3>1
  <2>6. ASSUME ExternalMessage PROVE FALSE
    <3>1. PICK x \in Session : (\E opened : Reached(x, opened)) /\ \E r :
            session' = [session EXCEPT ![x] = r]
      BY <2>0, <2>6 DEF ExternalMessage
    <3> QED
      BY <2>3, <3>1
  <2>7. ASSUME NEW x \in Session, BeginClosing(x) PROVE FALSE
    <3>1. x = s /\ \E r : session' = [session EXCEPT ![x] = r]
      BY <2>0, <2>7 DEF BeginClosing, Foreground
    <3> QED
      BY <2>0, <2>1, <3>1
  <2>8. ASSUME NEW x \in Session, FinishClosing(x) PROVE FALSE
    <3>1. x = s
      BY <2>0, <2>8 DEF FinishClosing, Foreground
    <3>2. session'[s] = Shut(session[s])
      <4>1. CASE session' = [session EXCEPT ![s] = Shut(@)]
        BY <2>0, <4>1
      <4>2. ASSUME NEW p \in Best(Linked(s)),
                   session' = [session EXCEPT ![s] = Shut(@), ![p] = Resumed(@)]
            PROVE  session'[s] = Shut(session[s])
        <5>1. p # s
          BY <2>0, LinkedFacts
        <5> QED
          BY <2>0, <4>2, <5>1
      <4> QED
        BY <2>8, <3>1, <4>1, <4>2 DEF FinishClosing
    <3> QED
      BY <2>0, <3>2 DEF Shut, OwnedRow, Row
  <2>9. ASSUME NEW x \in Session, NEW new \in Session, NewSubject(x, new) PROVE FALSE
    <3>1. x = s
      BY <2>0, <2>9 DEF NewSubject, Foreground
    <3>2. new # s
      BY <2>0, <2>9, <3>1 DEF NewSubject
    <3>3. session'[s] = Shut(session[s])
      BY <2>0, <2>9, <3>1, <3>2 DEF NewSubject
    <3> QED
      BY <2>0, <3>3 DEF Shut, OwnedRow, Row
  <2>10. CASE UNCHANGED session
    BY <2>0, <2>10
  <2> QED
    BY <2>2, <2>4, <2>5, <2>6, <2>7, <2>8, <2>9, <2>10
       DEF MessageArrives, MessageFindsNobody, MessageRefused, Next, TakeOver, Forward, ReturnToBot, StartAssistedQuote, PresentQuoteSummary,
           Annotate, PanelClose, HandOff
<1> QED
  BY <1>1, SpecInv, PTL DEF Spec, OnlyHigherTakesOver

=============================================================================
