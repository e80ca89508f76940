----------------------- MODULE SessionLifecycle_proofs -----------------------
(***************************************************************************)
(* The closing of a session by the AI, proved for any number of messages   *)
(* and any commands of the panel: a session closes, and was closed, only   *)
(* while the reminder or the resolution was left unanswered.               *)
(*                                                                         *)
(* The danger is a message of the customer that is being received, for it  *)
(* is written some time after the session was read, and operators, who do  *)
(* not take the same locks, come in between.  Receiving says why it cannot *)
(* be written into a closing, or under the closing, of the AI.             *)
(***************************************************************************)
EXTENDS SessionLifecycle, SequenceTheorems, TLAPS

-----------------------------------------------------------------------------
\* The inductive invariant

\* A delay is only counted from a message that was sent.
Waiting == \A i \in 1 .. Last : messages[i].waited => messages[i].status = "sent"

\* While a message is received the session is neither closing nor closed by the AI:
\* the reception stopped the one and reopened the other, and neither begins anew.
Receiving == receiving # None => session.status # "closing" /\ session.closer # "ai"

\* Whatever reopens a session forgets who closed it.
Reopening == session.closer = "ai" => session.status = "closed"

\* The places of the messages of a session are numbered from one.
Placed == session.first # 0

LifecycleInv ==
    /\ TypeOK /\ Waiting /\ Receiving /\ Reopening /\ Placed
    /\ ClosingIsUnanswered /\ ClosedUnanswered

-----------------------------------------------------------------------------
\* The ways a step changes the thread and its session

\* Nothing is said and nothing closes by itself.
LEMMA NothingWritten ==
    ASSUME LifecycleInv, UNCHANGED <<session, messages, claiming>>,
           receiving' \in {None, receiving},
           conversation' \in {"bot", "people", "closed"},
           transit' \in {None, "fresh", "overtaken"},
           agents' \in BOOLEAN, hindered' \in BOOLEAN
    PROVE  LifecycleInv'
<1>1. TypeOK'
  BY DEF LifecycleInv, TypeOK, Last
<1> QED
  BY <1>1 DEF LifecycleInv, Waiting, Receiving, Reopening, Placed, ClosingIsUnanswered,
     ClosedUnanswered, HasMessage, Latest, Last

\* The session changes under the messages it has, and not into a closing of the AI.
LEMMA SessionChanged ==
    ASSUME LifecycleInv, UNCHANGED <<messages, claiming, agents, hindered>>,
           session' \in Session, session'.first # 0,
           session'.status # "closing", session'.closer # "ai",
           receiving' \in {None, "wrote", "ai", "human"}, receiving' = None \/ claiming = 0,
           conversation' \in {"bot", "people", "closed"},
           transit' \in {None, "fresh", "overtaken"}
    PROVE  LifecycleInv'
<1>1. TypeOK'
  BY DEF LifecycleInv, TypeOK, Last
<1> QED
  BY <1>1 DEF LifecycleInv, Waiting, Receiving, Reopening, Placed, ClosingIsUnanswered,
     ClosedUnanswered, HasMessage, Latest, Last

\* A message more, and the ones before as they were.
LEMMA Appended ==
    ASSUME messages \in Seq(Message), NEW m \in Message, messages' = Append(messages, m)
    PROVE  /\ messages' \in Seq(Message)
           /\ Last \in Nat /\ Last' = Last + 1 /\ messages'[Last + 1] = m
           /\ \A i \in 1 .. Last : messages'[i] = messages[i]
  BY AppendProperties DEF Last

\* A message is written that no delay was counted from, and claims stay claims.
LEMMA AppendedFits ==
    ASSUME LifecycleInv, NEW m \in Message, ~m.waited, messages' = Append(messages, m),
           UNCHANGED claiming
    PROVE  /\ messages' \in Seq(Message) /\ claiming' \in 0 .. Last'
           /\ claiming' # 0 => messages'[claiming'].status = "pending"
           /\ Waiting'
<1>1. /\ messages \in Seq(Message) /\ claiming \in 0 .. Last
      /\ claiming # 0 => messages[claiming].status = "pending"
      /\ Waiting
  BY DEF LifecycleInv, TypeOK
<1>2. /\ messages' \in Seq(Message)
      /\ Last \in Nat /\ Last' = Last + 1 /\ messages'[Last + 1] = m
      /\ \A i \in 1 .. Last : messages'[i] = messages[i]
  BY <1>1, Appended
<1>3. claiming # 0 => claiming \in 1 .. Last
  BY <1>1, <1>2
<1>4. Waiting'
  <2>1. SUFFICES ASSUME NEW i \in 1 .. Last + 1, messages'[i].waited
                 PROVE  messages'[i].status = "sent"
    BY <1>2 DEF Waiting
  <2>2. i # Last + 1
    <3>1. SUFFICES ASSUME i = Last + 1 PROVE FALSE
      OBVIOUS
    <3>2. messages'[i] = m
      BY <1>2, <3>1
    <3> QED
      BY <2>1, <3>2
  <2>3. i \in 1 .. Last
    BY <1>2, <2>2
  <2>4. messages'[i] = messages[i]
    BY <1>2, <2>3
  <2> QED
    BY <1>1, <2>1, <2>3, <2>4 DEF Waiting
<1>5. claiming' \in 0 .. Last'
  BY <1>1, <1>2
<1>6. claiming # 0 => messages'[claiming] = messages[claiming]
  BY <1>2, <1>3
<1> QED
  BY <1>1, <1>2, <1>4, <1>5, <1>6

\* Somebody writes into a session that is neither closing nor closed by the AI.
LEMMA MessageWritten ==
    ASSUME LifecycleInv, NEW m \in Message, ~m.waited, messages' = Append(messages, m),
           UNCHANGED <<claiming, agents, hindered>>,
           session' \in Session, session'.first # 0,
           session'.status # "closing", session'.closer # "ai",
           receiving' \in {None, receiving},
           conversation' \in {"bot", "people", "closed"},
           transit' \in {None, "fresh", "overtaken"}
    PROVE  LifecycleInv'
<1>1. /\ messages' \in Seq(Message) /\ claiming' \in 0 .. Last'
      /\ claiming' # 0 => messages'[claiming'].status = "pending"
      /\ Waiting'
  BY AppendedFits
<1>2. TypeOK'
  BY <1>1 DEF LifecycleInv, TypeOK
<1> QED
  BY <1>1, <1>2 DEF LifecycleInv, Receiving, Reopening, Placed, ClosingIsUnanswered,
     ClosedUnanswered

\* Messages change what became of them, each at most from pending to an outcome, or are
\* waited for once they were sent.
LEMMA OutcomeWritten ==
    ASSUME LifecycleInv, UNCHANGED <<session, receiving>>,
           conversation' = conversation, transit' = transit,
           agents' = agents, hindered' = hindered,
           messages' \in Seq(Message), Last' = Last,
           \A i \in 1 .. Last :
             /\ messages'[i].kind = messages[i].kind
             /\ messages[i].status # "pending" => messages'[i].status = messages[i].status
             /\ messages'[i].waited => messages'[i].status = "sent",
           claiming' \in {0, claiming},
           claiming' # 0 => messages'[claiming'].status = "pending"
    PROVE  LifecycleInv'
<1>1. Last \in Nat /\ claiming \in 0 .. Last
  BY DEF LifecycleInv, TypeOK, Last
<1>2. TypeOK'
  BY <1>1 DEF LifecycleInv, TypeOK
<1>3. Waiting'
  BY <1>1 DEF Waiting
<1>4. ClosingIsUnanswered'
  <2>1. SUFFICES ASSUME session.status = "closing"
                 PROVE  HasMessage' /\ messages'[Last].kind \in {"reminder", "resolution"}
    BY DEF ClosingIsUnanswered, Latest
  <2>2. HasMessage /\ messages[Last].kind \in {"reminder", "resolution"}
    BY <2>1 DEF LifecycleInv, ClosingIsUnanswered, Latest
  <2>3. Last \in 1 .. Last
    <3>1. session.first \in Nat /\ session.first # 0
      BY DEF LifecycleInv, TypeOK, Session, Placed
    <3>2. session.first <= Last
      BY <2>2 DEF HasMessage
    <3> QED
      BY <1>1, <3>1, <3>2
  <2> QED
    BY <2>2, <2>3 DEF HasMessage
<1>5. ClosedUnanswered'
  <2>1. SUFFICES ASSUME session.closer = "ai"
                 PROVE  \E i \in session.first .. Last :
                          /\ messages'[i].kind \in {"reminder", "resolution"}
                          /\ messages'[i].status = "sent"
                          /\ \A j \in i + 1 .. Last : messages'[j].kind = "closure"
    BY DEF ClosedUnanswered
  <2>3. session.first \in Nat /\ session.first # 0
    BY DEF LifecycleInv, TypeOK, Session, Placed
  <2>2. PICK i \in session.first .. Last :
                          /\ messages[i].kind \in {"reminder", "resolution"}
                          /\ messages[i].status = "sent"
                          /\ \A j \in i + 1 .. Last : messages[j].kind = "closure"
    BY <2>1 DEF LifecycleInv, ClosedUnanswered
  <2>4. i \in 1 .. Last
    BY <1>1, <2>2, <2>3
  <2>5. messages'[i].kind = messages[i].kind /\ messages'[i].status = messages[i].status
    BY <2>2, <2>4
  <2>6. \A j \in i + 1 .. Last : j \in 1 .. Last
    BY <1>1, <2>4
  <2> QED
    BY <2>2, <2>5, <2>6
<1> QED
  BY <1>2, <1>3, <1>4, <1>5 DEF LifecycleInv, Receiving, Reopening, Placed

-----------------------------------------------------------------------------
\* The operators that write a session

LEMMA ReopenedFits ==
    ASSUME session \in Session
    PROVE  /\ Reopened \in Session
           /\ Reopened.status = "open" /\ Reopened.closer = None
           /\ Reopened.first = session.first
  BY DEF Session, Reopened, None

\* A reception leaves a session that is open and that the AI did not close.
LEMMA FoundationFits ==
    ASSUME LifecycleInv, NEW row \in Foundation
    PROVE  /\ row \in Session /\ row.status = "open"
           /\ row.closer # "ai" /\ row.first # 0
<1>1. /\ session \in Session /\ session.first # 0 /\ Last \in Nat
      /\ session.closer = "ai" => session.status = "closed"
  BY DEF LifecycleInv, TypeOK, Placed, Reopening, Last
<1>2. /\ Reopened \in Session
      /\ Reopened.status = "open" /\ Reopened.closer = None
      /\ Reopened.first = session.first
  BY <1>1, ReopenedFits
<1>3. CASE session.status = "closing"
  <2>1. row = [session EXCEPT !.status = "open", !.resolved = FALSE]
    BY <1>3 DEF Foundation
  <2>2. row \in Session /\ row.status = "open"
    BY <1>1, <2>1 DEF Session
  <2>3. row.closer = session.closer /\ row.first = session.first
    BY <1>1, <2>1 DEF Session
  <2> QED
    BY <1>1, <1>3, <2>2, <2>3
<1>4. CASE session.status = "open"
  <2>1. row = [session EXCEPT !.resolved = FALSE]
    BY <1>4 DEF Foundation
  <2> QED
    BY <1>1, <1>4, <2>1 DEF Session
<1>5. CASE session.status = "closed"
  <2>1. \/ row = Reopened
        \/ row = [Reopened EXCEPT !.undecided = Last + 1]
        \/ row = [Reopened EXCEPT !.formerCode = session.code,
                                  !.first = Last + 1, !.undecided = 0]
    BY <1>5 DEF Foundation
  <2>2. CASE row = Reopened
    BY <1>1, <1>2, <2>2 DEF None
  <2>3. CASE row = [Reopened EXCEPT !.undecided = Last + 1]
    <3>1. row \in Session /\ row.status = "open"
      BY <1>1, <1>2, <2>3 DEF Session
    <3>2. row.closer = None /\ row.first = session.first
      BY <1>1, <1>2, <2>3 DEF Session
    <3> QED
      BY <1>1, <3>1, <3>2 DEF None
  <2>4. CASE row = [Reopened EXCEPT !.formerCode = session.code,
                                    !.first = Last + 1, !.undecided = 0]
    <3>1. PICK n \in Nat : n = Last + 1
      BY <1>1
    <3>2. PICK b \in BOOLEAN : b = session.code
      BY <1>1 DEF Session
    <3>3. row = [Reopened EXCEPT !.formerCode = b, !.first = n, !.undecided = 0]
      BY <2>4, <3>1, <3>2
    <3>4. row \in Session /\ row.status = "open"
      BY <1>2, <3>3 DEF Session
    <3>5. row.closer = None /\ row.first = Last + 1
      BY <1>1, <1>2, <2>4 DEF Session
    <3> QED
      BY <1>1, <3>4, <3>5 DEF None
  <2> QED
    BY <2>1, <2>2, <2>3, <2>4
<1> QED
  BY <1>1, <1>3, <1>4, <1>5 DEF Session

\* A command of the panel opens the session, or closes it for the people.
LEMMA SynchronizedFits ==
    ASSUME LifecycleInv, NEW status \in {"open", "closed"}, NEW control \in {"ai", "human"},
           NEW newConversation, Synchronized(status, control, newConversation)
    PROVE  /\ session' \in Session /\ session'.first # 0
           /\ session'.status = status /\ session'.closer # "ai"
           /\ transit' \in {None, "fresh", "overtaken"}
           /\ receiving = None /\ claiming = 0 /\ conversation' = newConversation
<1>1. /\ session \in Session /\ session.first # 0 /\ Last \in Nat
      /\ transit \in {None, "fresh", "overtaken"}
  BY DEF LifecycleInv, TypeOK, Placed, Last
<1>2. /\ Reopened \in Session
      /\ Reopened.status = "open" /\ Reopened.closer = None
  BY <1>1, ReopenedFits
<1>3. CASE session.status = "closed"
  <2>1. session' = [Reopened EXCEPT !.status = status, !.control = control,
                                    !.first = Last + 1, !.undecided = 0,
                                    !.formerCode = session.code]
    BY <1>3 DEF Synchronized
  <2>2. PICK n \in Nat : n = Last + 1
    BY <1>1
  <2>3. PICK b \in BOOLEAN : b = session.code
    BY <1>1 DEF Session
  <2>4. session' = [Reopened EXCEPT !.status = status, !.control = control, !.first = n,
                                    !.undecided = 0, !.formerCode = b]
    BY <2>1, <2>2, <2>3
  <2>5. session' \in Session /\ session'.first = Last + 1
    BY <1>2, <2>2, <2>4 DEF Session
  <2>6. session'.status = status /\ session'.closer = None
    BY <1>2, <2>1 DEF Session
  <2> QED
    BY <1>1, <2>5, <2>6 DEF Synchronized, Busy, Overtaken, None
<1>4. CASE session.status # "closed"
  <2>1. session' = [session EXCEPT !.status = status, !.control = control,
                                   !.closer = IF status = "closed" THEN "people" ELSE None]
    BY <1>4 DEF Synchronized
  <2>2. /\ session' \in Session /\ session'.first = session.first
        /\ session'.status = status
        /\ session'.closer = IF status = "closed" THEN "people" ELSE None
    BY <1>1, <2>1 DEF Session, None
  <2> QED
    BY <1>1, <2>2 DEF Synchronized, Busy, Overtaken, None
<1> QED
  BY <1>3, <1>4

-----------------------------------------------------------------------------
\* The reception of a message of the customer

LEMMA ReceivePreserves ==
    ASSUME LifecycleInv, Receive
    PROVE  LifecycleInv'
<1>1. PICK row \in Foundation :
         /\ session' = row
         /\ receiving' = IF row = session THEN row.control ELSE "wrote"
  BY DEF Receive
<1>2. row \in Session /\ row.status = "open" /\ row.closer # "ai" /\ row.first # 0
  BY FoundationFits
<1>3. row.control \in {"ai", "human"}
  BY <1>2 DEF Session
<1>4. receiving' \in {None, "wrote", "ai", "human"}
  BY <1>1, <1>3
<1>5. /\ UNCHANGED <<messages, claiming, agents, hindered, conversation, transit>>
      /\ claiming = 0
  BY DEF Receive, Busy, world
<1>6. /\ conversation \in {"bot", "people", "closed"}
      /\ transit \in {None, "fresh", "overtaken"}
  BY DEF LifecycleInv, TypeOK
<1> QED
  BY <1>1, <1>2, <1>4, <1>5, <1>6, SessionChanged

\* What was received is written into the session as it is by then, and Receiving says
\* that this one neither closes nor was closed by the AI.
LEMMA RecordPreserves ==
    ASSUME LifecycleInv, Record
    PROVE  LifecycleInv'
<1> DEFINE m == [kind |-> "customer", status |-> "received", waited |-> FALSE]
<1>1. m \in Message /\ ~m.waited
  BY DEF Message, Kind
<1>2. /\ session \in Session /\ session.first # 0
      /\ session.status # "closing" /\ session.closer # "ai"
  BY DEF LifecycleInv, TypeOK, Placed, Receiving, Record
<1>3. conversation' \in {"bot", "people", "closed"} /\ transit' = None
  BY DEF LifecycleInv, TypeOK, Record
<1>4. /\ messages' = Append(messages, m) /\ receiving' = None
      /\ UNCHANGED <<session, claiming, agents, hindered>>
  BY DEF Record
<1> HIDE DEF m
<1> QED
  BY <1>1, <1>2, <1>3, <1>4, MessageWritten

\* The continuity of the session is decided while it is open.
LEMMA ContinuityPreserves ==
    ASSUME LifecycleInv, NewSubject \/ Continuation
    PROVE  LifecycleInv'
<1>1. /\ session \in Session /\ session.first # 0 /\ session.status = "open"
      /\ session.closer # "ai" /\ session.undecided \in 1 .. Last /\ receiving = None
  BY DEF LifecycleInv, TypeOK, Placed, Reopening, NewSubject, Continuation, Undecided,
     Pending, Busy
<1>2. Last \in Nat
  BY DEF LifecycleInv, TypeOK, Last
<1>3. /\ session' \in Session /\ session'.first # 0 /\ session'.status = "open"
      /\ session'.closer # "ai"
  <2>1. CASE NewSubject
    <3>1. session' = [session EXCEPT !.first = session.undecided, !.undecided = 0,
                                     !.formerCode = FALSE, !.resolved = FALSE]
      BY <2>1 DEF NewSubject, Related
    <3>2. session.undecided \in Nat /\ session.undecided # 0
      BY <1>1, <1>2
    <3>3. session' \in Session
      BY <1>1, <3>1, <3>2 DEF Session
    <3>4. /\ session'.first = session.undecided /\ session'.status = session.status
          /\ session'.closer = session.closer
      BY <1>1, <3>1 DEF Session
    <3> QED
      BY <1>1, <3>2, <3>3, <3>4
  <2>2. CASE Continuation
    <3>1. session' = [session EXCEPT !.undecided = 0]
      BY <2>2 DEF Continuation
    <3> QED
      BY <1>1, <3>1 DEF Session
  <2> QED
    BY <2>1, <2>2
<1>4. UNCHANGED <<messages, claiming, agents, hindered, conversation, transit, receiving>>
  BY DEF NewSubject, Continuation, world
<1>5. /\ conversation \in {"bot", "people", "closed"}
      /\ transit \in {None, "fresh", "overtaken"}
  BY DEF LifecycleInv, TypeOK
<1> QED
  BY <1>1, <1>3, <1>4, <1>5, SessionChanged

-----------------------------------------------------------------------------
\* Automatic messages, their dispatch and the delay after it

LEMMA AiWritesPreserves ==
    ASSUME LifecycleInv, NEW kind \in AutomaticReply, AiWrites(kind)
    PROVE  LifecycleInv'
<1> DEFINE m == [kind |-> kind, status |-> "pending", waited |-> FALSE]
<1>1. m \in Message /\ ~m.waited
  BY DEF Message, Kind
<1>2. /\ session \in Session /\ session.first # 0 /\ session.status = "open"
      /\ session.closer # "ai"
  BY DEF LifecycleInv, TypeOK, Placed, Reopening, AiWrites, AllowsReply
<1>3. session' = [session EXCEPT !.resolved = session.resolved \/ kind = "resolution"]
  BY DEF AiWrites
<1>4. (session.resolved \/ kind = "resolution") \in BOOLEAN
  OBVIOUS
<1>5. PICK b \in BOOLEAN : b = (session.resolved \/ kind = "resolution")
  BY <1>4
<1>6. session' = [session EXCEPT !.resolved = b]
  BY <1>3, <1>5
<1>7. /\ session' \in Session /\ session'.first # 0 /\ session'.status = "open"
      /\ session'.closer # "ai"
  BY <1>2, <1>6 DEF Session
<1>8. /\ messages' = Append(messages, m) /\ receiving' = receiving
      /\ UNCHANGED <<claiming, agents, hindered, conversation, transit>>
  BY DEF AiWrites, Outbound, world
<1>9. /\ conversation \in {"bot", "people", "closed"}
      /\ transit \in {None, "fresh", "overtaken"}
  BY DEF LifecycleInv, TypeOK
<1> HIDE DEF m
<1> QED
  BY <1>1, <1>7, <1>8, <1>9, MessageWritten

LEMMA ClaimPreserves ==
    ASSUME LifecycleInv, NEW i \in 1 .. Last, Claim(i)
    PROVE  LifecycleInv'
<1>1. /\ messages[i].status = "pending" /\ claiming' = i
      /\ UNCHANGED <<session, conversation, messages, receiving, transit, agents, hindered>>
      /\ receiving = None /\ Last \in Nat
  BY DEF Claim, Busy, world, LifecycleInv, TypeOK, Last
<1>2. TypeOK'
  BY <1>1 DEF LifecycleInv, TypeOK, Last
<1> QED
  BY <1>1, <1>2 DEF LifecycleInv, Waiting, Receiving, Reopening, Placed,
     ClosingIsUnanswered, ClosedUnanswered, HasMessage, Latest, Last

\* One message with another outcome, or waited for.
LEMMA Rewritten ==
    ASSUME messages \in Seq(Message), NEW i \in 1 .. Last, NEW m \in Message,
           messages' = [messages EXCEPT ![i] = m]
    PROVE  /\ messages' \in Seq(Message) /\ Last' = Last
           /\ \A j \in 1 .. Last : messages'[j] = IF j = i THEN m ELSE messages[j]
<1>1. i \in 1 .. Len(messages)
  BY DEF Last
<1>2. /\ messages' \in Seq(Message) /\ Len(messages') = Len(messages)
      /\ \A j \in 1 .. Len(messages) : messages'[j] = IF j = i THEN m ELSE messages[j]
  BY <1>1, ExceptSeq
<1> QED
  BY <1>2 DEF Last

\* A message that nobody counted a delay from takes an outcome.
LEMMA OutcomeFits ==
    ASSUME LifecycleInv, NEW i \in 1 .. Last, messages[i].status = "pending",
           NEW outcome \in {"sent", "failed"},
           messages' = [messages EXCEPT ![i].status = outcome],
           UNCHANGED <<session, receiving, conversation, transit, agents, hindered>>,
           claiming' \in {0, claiming}, claiming' # i
    PROVE  LifecycleInv'
<1>1. /\ messages \in Seq(Message) /\ messages[i] \in Message /\ ~messages[i].waited
      /\ Last \in Nat
  <2>1. messages \in Seq(Message) /\ Waiting
    BY DEF LifecycleInv, TypeOK
  <2> QED
    BY <2>1 DEF Waiting, Last
<1> DEFINE m == [messages[i] EXCEPT !.status = outcome]
<1>2. /\ m \in Message /\ m.kind = messages[i].kind /\ m.status = outcome
      /\ m.waited = messages[i].waited
  BY <1>1 DEF Message
<1>3. messages' = [messages EXCEPT ![i] = m]
  OBVIOUS
<1> HIDE DEF m
<1>4. /\ messages' \in Seq(Message) /\ Last' = Last
      /\ \A j \in 1 .. Last : messages'[j] = IF j = i THEN m ELSE messages[j]
  BY <1>1, <1>2, <1>3, Rewritten
<1>5. \A j \in 1 .. Last :
        /\ messages'[j].kind = messages[j].kind
        /\ messages[j].status # "pending" => messages'[j].status = messages[j].status
        /\ messages'[j].waited => messages'[j].status = "sent"
  <2> SUFFICES ASSUME NEW j \in 1 .. Last
               PROVE  /\ messages'[j].kind = messages[j].kind
                      /\ messages[j].status # "pending" =>
                           messages'[j].status = messages[j].status
                      /\ messages'[j].waited => messages'[j].status = "sent"
    OBVIOUS
  <2>1. CASE j = i
    <3>1. messages'[j] = m
      BY <1>4, <2>1
    <3> QED
      BY <1>1, <1>2, <2>1, <3>1
  <2>2. CASE j # i
    <3>1. messages'[j] = messages[j]
      BY <1>4, <2>2
    <3> QED
      BY <3>1 DEF LifecycleInv, Waiting
  <2> QED
    BY <2>1, <2>2
<1>6. claiming' # 0 => messages'[claiming'].status = "pending"
  <2>1. SUFFICES ASSUME claiming' # 0 PROVE messages'[claiming'].status = "pending"
    OBVIOUS
  <2>2. /\ claiming' = claiming /\ claiming \in 0 .. Last
        /\ messages[claiming].status = "pending"
    BY <2>1 DEF LifecycleInv, TypeOK
  <2>3. messages'[claiming] = messages[claiming]
    BY <1>1, <1>4, <2>1, <2>2
  <2> QED
    BY <2>2, <2>3
<1> QED
  BY <1>4, <1>5, <1>6, OutcomeWritten

LEMMA DispatchPreserves ==
    ASSUME LifecycleInv, Dispatch
    PROVE  LifecycleInv'
<1>1. claiming \in 1 .. Last /\ messages[claiming].status = "pending" /\ claiming' = 0
  BY DEF LifecycleInv, TypeOK, Dispatch, Last
<1>2. PICK outcome \in {"sent", "failed"} :
        messages' = [messages EXCEPT ![claiming].status = outcome]
  BY DEF Dispatch
<1>3. UNCHANGED <<session, receiving, conversation, transit, agents, hindered>>
  BY DEF Dispatch, world
<1>4. PICK i \in 1 .. Last : i = claiming
  BY <1>1
<1>5. claiming' \in {0, claiming} /\ claiming' # i
  BY <1>1, <1>4
<1>6. messages[i].status = "pending" /\ messages' = [messages EXCEPT ![i].status = outcome]
  BY <1>1, <1>2, <1>4
<1> QED
  BY <1>3, <1>5, <1>6, OutcomeFits

LEMMA GiveUpPreserves ==
    ASSUME LifecycleInv, NEW i \in 1 .. Last, GiveUp(i)
    PROVE  LifecycleInv'
<1>1. /\ messages[i].status = "pending" /\ claiming = 0 /\ claiming' = claiming
      /\ messages' = [messages EXCEPT ![i].status = "failed"]
      /\ UNCHANGED <<session, receiving, conversation, transit, agents, hindered>>
  BY DEF GiveUp, Busy, world
<1>2. claiming' \in {0, claiming} /\ claiming' # i
  BY <1>1
<1> QED
  BY <1>1, <1>2, OutcomeFits

LEMMA WaitPreserves ==
    ASSUME LifecycleInv, Wait
    PROVE  LifecycleInv'
<1>1. /\ messages \in Seq(Message) /\ Last \in 1 .. Last
      /\ messages[Last] \in Message /\ messages[Last].status = "sent"
  <2>1. messages \in Seq(Message) /\ Last \in Nat /\ Last > 0
    BY DEF LifecycleInv, TypeOK, Wait, Last
  <2>2. messages[Last].status = "sent"
    BY DEF Wait, Latest
  <2> QED
    BY <2>1, <2>2 DEF Last
<1>2. PICK i \in 1 .. Last : i = Last
  BY <1>1
<1> DEFINE m == [messages[i] EXCEPT !.waited = TRUE]
<1>3. m \in Message /\ m.kind = messages[i].kind /\ m.status = "sent"
  BY <1>1, <1>2 DEF Message
<1>4. messages' = [messages EXCEPT ![i] = m]
  BY <1>2 DEF Wait
<1> HIDE DEF m
<1>5. /\ messages' \in Seq(Message) /\ Last' = Last
      /\ \A j \in 1 .. Last : messages'[j] = IF j = i THEN m ELSE messages[j]
  BY <1>1, <1>3, <1>4, Rewritten
<1>6. \A j \in 1 .. Last :
        /\ messages'[j].kind = messages[j].kind
        /\ messages'[j].status = messages[j].status
        /\ messages'[j].waited => messages'[j].status = "sent"
  BY <1>1, <1>2, <1>3, <1>5 DEF LifecycleInv, Waiting
<1>7. UNCHANGED <<session, receiving, claiming, conversation, transit, agents, hindered>>
  BY DEF Wait, world
<1>8. claiming' # 0 => messages'[claiming'].status = "pending"
  BY <1>1, <1>6, <1>7 DEF LifecycleInv, TypeOK
<1> QED
  BY <1>5, <1>6, <1>7, <1>8, OutcomeWritten

-----------------------------------------------------------------------------
\* The worker of the lifecycle

\* The closing begins under a resolution that was sent, or under the reminder it writes.
LEMMA BeginPreserves ==
    ASSUME LifecycleInv, Begin
    PROVE  LifecycleInv'
<1>1. /\ session \in Session /\ session.first \in Nat /\ session.first # 0
      /\ session.status = "open" /\ session.closer # "ai"
      /\ receiving = None /\ claiming = 0 /\ messages \in Seq(Message) /\ Last \in Nat
  BY DEF LifecycleInv, TypeOK, Placed, Reopening, Begin, Busy, Session, Last
<1>2. UNCHANGED <<conversation, receiving, claiming, transit, agents, hindered>>
  BY DEF Begin, world
<1>3. session' = [session EXCEPT !.status = "closing"]
  BY DEF Begin
<1>4. /\ session' \in Session /\ session'.first = session.first
      /\ session'.status = "closing" /\ session'.closer # "ai"
  BY <1>1, <1>3 DEF Session
<1>5. HasMessage
  BY DEF Begin, Settled, TimedOut
<1>6. CASE Settled
  <2>1. messages' = messages /\ messages[Last].kind = "resolution"
    BY <1>6 DEF Begin, Settled, Latest
  <2>2. TypeOK'
    BY <1>1, <1>2, <1>4, <2>1 DEF LifecycleInv, TypeOK, Last
  <2>3. ClosingIsUnanswered'
    BY <1>4, <1>5, <2>1 DEF ClosingIsUnanswered, HasMessage, Latest, Last
  <2>4. Waiting'
    BY <2>1 DEF LifecycleInv, Waiting, Last
  <2> QED
    BY <1>1, <1>2, <1>4, <2>2, <2>3, <2>4
       DEF LifecycleInv, Receiving, Reopening, Placed, ClosedUnanswered
<1>7. CASE ~Settled
  <2> DEFINE m == [kind |-> "reminder", status |-> "pending", waited |-> FALSE]
  <2>1. m \in Message /\ ~m.waited /\ m.kind = "reminder"
    BY DEF Message, Kind
  <2>2. messages' = Append(messages, m)
    BY <1>7 DEF Begin, Outbound
  <2> HIDE DEF m
  <2>3. /\ messages' \in Seq(Message) /\ claiming' \in 0 .. Last'
        /\ claiming' # 0 => messages'[claiming'].status = "pending"
        /\ Waiting'
    BY <1>2, <2>1, <2>2, AppendedFits
  <2>4. Last' = Last + 1 /\ messages'[Last + 1] = m
    BY <1>1, <2>1, <2>2, Appended
  <2>5. TypeOK'
    BY <1>1, <1>2, <1>4, <2>3 DEF LifecycleInv, TypeOK
  <2>6. HasMessage' /\ Latest'.kind = "reminder"
    BY <1>1, <1>4, <1>5, <2>1, <2>4 DEF HasMessage, Latest
  <2> QED
    BY <1>1, <1>2, <1>4, <2>3, <2>5, <2>6 DEF LifecycleInv, Receiving, Reopening, Placed,
       ClosingIsUnanswered, ClosedUnanswered
<1> QED
  BY <1>6, <1>7

\* The reminder or the resolution that ends the wait was sent, and the closure is all
\* that follows it.
LEMMA FinishPreserves ==
    ASSUME LifecycleInv, Finish
    PROVE  LifecycleInv'
<1>1. /\ session \in Session /\ session.first \in Nat /\ session.first # 0
      /\ receiving = None /\ claiming = 0 /\ messages \in Seq(Message) /\ Last \in Nat
      /\ transit \in {None, "fresh", "overtaken"}
  BY DEF LifecycleInv, TypeOK, Placed, Finish, Busy, Session, Last
<1>2. /\ UNCHANGED <<receiving, claiming, agents, hindered>> /\ conversation' = "closed"
      /\ transit' \in {None, "fresh", "overtaken"}
  BY <1>1 DEF Finish, Farewell, Overtaken
<1>3. session' = [session EXCEPT !.status = "closed", !.closer = "ai", !.code = TRUE]
  BY DEF Finish
<1>4. /\ session' \in Session /\ session'.first = session.first
      /\ session'.status = "closed"
  BY <1>1, <1>3 DEF Session
<1>5. /\ session.first <= Last
      /\ messages[Last].kind \in {"reminder", "resolution"}
      /\ messages[Last].status = "sent"
  <2>1. HasMessage
    BY DEF Finish, Settled, TimedOut
  <2>2. Last \in 1 .. Last
    BY <1>1, <2>1 DEF HasMessage
  <2>3. CASE Settled
    BY <2>1, <2>3 DEF Settled, HasMessage, Latest
  <2>4. CASE TimedOut("reminder")
    BY <2>1, <2>2, <2>4 DEF TimedOut, HasMessage, Latest, LifecycleInv, Waiting
  <2> QED
    BY <2>3, <2>4 DEF Finish
<1> DEFINE m == [kind |-> "closure", status |-> "pending", waited |-> FALSE]
<1>6. m \in Message /\ ~m.waited /\ m.kind = "closure"
  BY DEF Message, Kind
<1>7. messages' = Append(messages, m)
  BY DEF Finish, Farewell, Outbound
<1> HIDE DEF m
<1>8. /\ messages' \in Seq(Message) /\ claiming' \in 0 .. Last'
      /\ claiming' # 0 => messages'[claiming'].status = "pending"
      /\ Waiting'
  BY <1>2, <1>6, <1>7, AppendedFits
<1>9. TypeOK'
  BY <1>1, <1>2, <1>4, <1>8 DEF LifecycleInv, TypeOK
<1>10. ClosedUnanswered'
  <2>1. /\ Last' = Last + 1 /\ messages'[Last + 1] = m
        /\ \A i \in 1 .. Last : messages'[i] = messages[i]
    BY <1>1, <1>6, <1>7, Appended
  <2>2. Last \in 1 .. Last /\ Last \in session.first .. Last + 1
    BY <1>1, <1>5
  <2>3. messages'[Last] = messages[Last]
    BY <2>1, <2>2
  <2>4. \A j \in Last + 1 .. Last + 1 : messages'[j].kind = "closure"
    BY <1>1, <1>6, <2>1
  <2> QED
    BY <1>4, <1>5, <2>1, <2>2, <2>3, <2>4 DEF ClosedUnanswered
<1> QED
  BY <1>1, <1>2, <1>4, <1>8, <1>9, <1>10 DEF LifecycleInv, Receiving, Reopening, Placed,
     ClosingIsUnanswered

-----------------------------------------------------------------------------
\* People

LEMMA OperatePreserves ==
    ASSUME LifecycleInv, NEW control \in {"ai", "human"}, NEW status \in {"open", "closed"},
           Operate(control, status)
    PROVE  LifecycleInv'
<1>1. /\ session \in Session /\ session.first # 0
      /\ transit \in {None, "fresh", "overtaken"}
      /\ receiving \in {None, "wrote", "ai", "human"}
      /\ receiving = None \/ claiming = 0
  BY DEF LifecycleInv, TypeOK, Placed
<1>2. PICK c \in {None, "people"} : c = IF status = "closed" THEN "people" ELSE None
  OBVIOUS
<1>3. PICK b \in BOOLEAN : b = (status = "closed")
  OBVIOUS
<1>4. session' = [session EXCEPT !.status = status, !.control = control,
                                 !.closer = c, !.code = b]
  BY <1>2, <1>3 DEF Operate
<1>5. session' \in Session
  BY <1>1, <1>4 DEF Session
<1>6. session'.first # 0 /\ session'.status = status /\ session'.closer # "ai"
  BY <1>1, <1>4 DEF Session, None
<1>7. conversation' \in {"bot", "people", "closed"}
  BY DEF Operate
<1>8. transit' \in {None, "fresh", "overtaken"}
  BY <1>1 DEF Operate, Overtaken
<1>9. UNCHANGED <<messages, receiving, claiming, agents, hindered>>
  BY DEF Operate
<1>10. /\ receiving' \in {None, "wrote", "ai", "human"}
       /\ receiving' = None \/ claiming = 0
       /\ session'.status # "closing"
  BY <1>1, <1>6, <1>9
<1> QED
  BY <1>5, <1>6, <1>7, <1>8, <1>9, <1>10, SessionChanged

LEMMA PanelPreserves ==
    ASSUME LifecycleInv, NEW command \in PanelCommand, Panel(command)
    PROVE  LifecycleInv'
<1>1. /\ session.control \in {"ai", "human"}
      /\ conversation \in {"bot", "people", "closed"}
  BY DEF LifecycleInv, TypeOK, Session
<1>2. \/ Synchronized("open", "human", "people")
      \/ Synchronized("open", "ai", "bot")
      \/ Synchronized("closed", "ai", "closed")
      \/ Synchronized("open", session.control, conversation)
  BY DEF Panel
<1>3. PICK status \in {"open", "closed"}, control \in {"ai", "human"},
           newConversation \in {"bot", "people", "closed"} :
        Synchronized(status, control, newConversation)
  BY <1>1, <1>2
<1>4. /\ session' \in Session /\ session'.first # 0
      /\ session'.status = status /\ session'.closer # "ai"
      /\ transit' \in {None, "fresh", "overtaken"}
      /\ receiving = None /\ claiming = 0 /\ conversation' = newConversation
  BY <1>3, SynchronizedFits
<1>5. UNCHANGED <<messages, receiving, claiming, agents, hindered>>
  BY DEF Panel
<1> QED
  BY <1>3, <1>4, <1>5, SessionChanged

LEMMA PeopleWritePreserves ==
    ASSUME LifecycleInv, NEW fromPhone \in BOOLEAN, PeopleWrite(fromPhone)
    PROVE  LifecycleInv'
<1> DEFINE m == [kind |-> "people", status |-> "sent", waited |-> FALSE]
<1>1. m \in Message /\ ~m.waited
  BY DEF Message, Kind
<1>2. Synchronized("open", "human", "people")
  BY DEF PeopleWrite
<1>3. /\ session' \in Session /\ session'.first # 0
      /\ session'.status = "open" /\ session'.closer # "ai"
      /\ transit' \in {None, "fresh", "overtaken"} /\ conversation' = "people"
  BY <1>2, SynchronizedFits
<1>4. /\ messages' = Append(messages, m)
      /\ UNCHANGED <<receiving, claiming, agents, hindered>>
  BY DEF PeopleWrite
<1> HIDE DEF m
<1> QED
  BY <1>1, <1>3, <1>4, MessageWritten

-----------------------------------------------------------------------------
\* Theorems

LEMMA InitialInv == Init => LifecycleInv
<1> SUFFICES ASSUME Init PROVE LifecycleInv
  OBVIOUS
<1>1. messages = << >> /\ Last = 0 /\ messages \in Seq(Message)
  BY DEF Init, Last
<1>2. /\ session \in Session /\ session.closer = "people" /\ session.status = "closed"
      /\ session.first = 1
  BY DEF Init, Session
<1>3. TypeOK
  <2>1. /\ conversation \in {"bot", "people", "closed"}
        /\ transit \in {None, "fresh", "overtaken"}
        /\ receiving \in {None, "wrote", "ai", "human"}
        /\ agents \in BOOLEAN /\ hindered \in BOOLEAN
    BY DEF Init
  <2>2. claiming = 0 /\ claiming \in 0 .. Last
    BY <1>1 DEF Init
  <2> QED
    BY <1>1, <1>2, <2>1, <2>2 DEF TypeOK
<1>4. Waiting
  BY <1>1 DEF Waiting
<1> QED
  BY <1>2, <1>3, <1>4 DEF Init, LifecycleInv, Receiving, Reopening, Placed,
     ClosingIsUnanswered, ClosedUnanswered

LEMMA StepPreserves == LifecycleInv /\ [Next]_vars => LifecycleInv'
<1> SUFFICES ASSUME LifecycleInv, [Next]_vars PROVE LifecycleInv'
  OBVIOUS
<1>1. /\ conversation \in {"bot", "people", "closed"}
      /\ transit \in {None, "fresh", "overtaken"}
      /\ agents \in BOOLEAN /\ hindered \in BOOLEAN
  BY DEF LifecycleInv, TypeOK
<1>2. CASE CustomerSends
  BY <1>1, <1>2, NothingWritten DEF CustomerSends
<1>3. CASE Receive
  BY <1>3, ReceivePreserves
<1>4. CASE Refuse
  BY <1>1, <1>4, NothingWritten DEF Refuse
<1>5. CASE Record
  BY <1>5, RecordPreserves
<1>6. CASE Conflict
  BY <1>1, <1>6, NothingWritten DEF Conflict
<1>7. CASE NewSubject \/ Continuation
  BY <1>7, ContinuityPreserves
<1>8. CASE \E kind \in AutomaticReply : AiWrites(kind)
  BY <1>8, AiWritesPreserves
<1>9. CASE \E i \in 1 .. Last : Claim(i)
  BY <1>9, ClaimPreserves
<1>10. CASE \E i \in 1 .. Last : GiveUp(i)
  BY <1>10, GiveUpPreserves
<1>11. CASE Dispatch
  BY <1>11, DispatchPreserves
<1>12. CASE Wait
  BY <1>12, WaitPreserves
<1>13. CASE Begin
  BY <1>13, BeginPreserves
<1>14. CASE Finish
  BY <1>14, FinishPreserves
<1>15. CASE Assume \/ ReturnToAi \/ Close
  BY <1>15, OperatePreserves DEF Assume, ReturnToAi, Close
<1>16. CASE \E command \in PanelCommand : Panel(command)
  BY <1>16, PanelPreserves
<1>17. CASE \E fromPhone \in BOOLEAN : PeopleWrite(fromPhone)
  BY <1>17, PeopleWritePreserves
<1>18. CASE SwitchAgents
  BY <1>1, <1>18, NothingWritten DEF SwitchAgents
<1>19. CASE Hinder
  BY <1>1, <1>19, NothingWritten DEF Hinder
<1>20. CASE UNCHANGED vars
  BY <1>1, <1>20, NothingWritten DEF vars
<1> QED
  BY <1>2, <1>3, <1>4, <1>5, <1>6, <1>7, <1>8, <1>9, <1>10, <1>11, <1>12, <1>13, <1>14,
     <1>15, <1>16, <1>17, <1>18, <1>19, <1>20 DEF Next

LEMMA LifecycleInvariant == Spec => []LifecycleInv
  BY InitialInv, StepPreserves, PTL DEF Spec

\* Every state is well formed, and a reception and a claim exclude each other: TypeOK,
\* of the two transactions that take the locks of the thread.
THEOREM TypeCorrect == Spec => []TypeOK
<1>1. LifecycleInv => TypeOK
  BY DEF LifecycleInv
<1> QED
  BY <1>1, LifecycleInvariant, PTL

\* beginAiServiceSessionClosing and what may still happen to its session: a closing has
\* the reminder or the resolution as its latest message, ClosingIsUnanswered.
THEOREM ClosingWaits == Spec => []ClosingIsUnanswered
<1>1. LifecycleInv => ClosingIsUnanswered
  BY DEF LifecycleInv
<1> QED
  BY <1>1, LifecycleInvariant, PTL

\* finishAiServiceSessionClosing: what the AI closed was left unanswered after a reminder
\* or a resolution that was sent, ClosedUnanswered.
THEOREM ClosedWasUnanswered == Spec => []ClosedUnanswered
<1>1. LifecycleInv => ClosedUnanswered
  BY DEF LifecycleInv
<1> QED
  BY <1>1, LifecycleInvariant, PTL

\* Receive and Record: nothing that the customer writes goes into a session that the AI is
\* closing or has closed, however long the reception takes.
THEOREM NotWrittenIntoClosing ==
    Spec => [][Record => session'.status # "closing" /\ session'.closer # "ai"]_vars
<1>1. LifecycleInv /\ [Next]_vars =>
        [Record => session'.status # "closing" /\ session'.closer # "ai"]_vars
  BY DEF LifecycleInv, Receiving, Record
<1> QED
  BY <1>1, LifecycleInvariant, PTL DEF Spec
=============================================================================
