---------------------- MODULE EvolutionDispatch_proofs ----------------------
(* Theorems about the dispatch of a message, for any sets of messages and    *)
(* callers and any number of attempts.                                       *)
EXTENDS EvolutionDispatch, TLAPS

Location == Running \cup Ended

-----------------------------------------------------------------------------
(* Records: what an update changes, and that it keeps the type *)

At(r, s) == [r EXCEPT !.at = s]
Fated(r, q) == [r EXCEPT !.request = q]
Posting(r) == [r EXCEPT !.at = "waiting", !.request = "flying"]

LEMMA CallUpdates ==
    ASSUME NEW r \in Call, NEW s \in Location, NEW q \in Request
    PROVE  /\ At(r, s) \in Call /\ At(r, s).at = s
           /\ At(r, s).key = r.key /\ At(r, s).request = r.request
           /\ Fated(r, q) \in Call /\ Fated(r, q).request = q
           /\ Fated(r, q).key = r.key /\ Fated(r, q).at = r.at
           /\ Posting(r) \in Call /\ Posting(r).at = "waiting"
           /\ Posting(r).request = "flying" /\ Posting(r).key = r.key
BY DEF Call, Location, Running, Request, At, Fated, Posting

\* A caller moves on; nothing else about the calls changes.
LEMMA GotoFacts ==
    ASSUME TypeOK, NEW c \in Calls, NEW s \in Location, Goto(c, s)
    PROVE  /\ call' \in [Calls -> Call] /\ Calls' = Calls
           /\ call'[c].at = s
           /\ call'[c].key = call[c].key /\ call'[c].request = call[c].request
           /\ \A d \in Calls \ {c} : call'[d] = call[d]
<1>1. call \in [Calls -> Call]
  BY DEF TypeOK
<1>2. call[c] \in Call
  BY <1>1
<1>3. call'[c] = At(call[c], s)
  BY <1>1 DEF Goto, Calls, At
<1>4. \A d \in Calls \ {c} : call'[d] = call[d]
  BY <1>1 DEF Goto, Calls
<1>5. DOMAIN call' = Calls
  BY <1>1 DEF Goto, Calls
<1>6. call'[c] \in Call /\ call'[c].at = s /\ call'[c].key = call[c].key
      /\ call'[c].request = call[c].request
  <2>1. "none" \in Request
    BY DEF Request
  <2> QED
    BY <1>2, <1>3, <2>1, CallUpdates
<1>7. call' = [d \in Calls |-> call'[d]]
  BY <1>5 DEF Goto, Calls
<1> QED
  BY <1>1, <1>4, <1>5, <1>6, <1>7 DEF Calls

\* The rows of one attempt change; no attempt appears or disappears.
LEMMA SetAttemptFacts ==
    ASSUME TypeOK, NEW k \in DOMAIN attempt, NEW row \in AttemptRow, SetAttempt(k, row)
    PROVE  /\ attempt' \in [DOMAIN attempt -> AttemptRow]
           /\ DOMAIN attempt' = DOMAIN attempt
           /\ attempt'[k] = row
           /\ \A l \in DOMAIN attempt \ {k} : attempt'[l] = attempt[l]
BY DEF TypeOK, SetAttempt

\* The steps that create nothing keep the types if the rows keep theirs.
LEMMA FrameTypeOK ==
    ASSUME TypeOK,
           attempt' \in [DOMAIN attempt -> AttemptRow],
           message' \in [DOMAIN message -> MessageRow],
           \A m \in DOMAIN message : message'[m].current = message[m].current,
           claims' \subseteq DOMAIN attempt,
           results' \in [DOMAIN results' -> Id], DOMAIN results' \subseteq DOMAIN attempt,
           external' \subseteq Calls,
           call' \in [Calls -> Call],
           \A c \in Calls : call'[c].key = call[c].key
    PROVE  TypeOK'
BY DEF TypeOK, Calls, Current, KeyOf

\* The updates the actions make to the row of an attempt.
Leased(r) == [r EXCEPT !.dispatch = "leased", !.lapsed = FALSE, !.config = FALSE]
Lapsed(r) == [r EXCEPT !.lapsed = TRUE]
Failed(r) == [r EXCEPT !.status = "failed", !.dispatch = "failed"]
Sent(r, id) == [r EXCEPT !.status = "succeeded", !.lapsed = FALSE,
                         !.dispatch = "succeeded", !.config = FALSE, !.provider = id]
Closed(r) == [r EXCEPT !.status = "failed", !.dispatch = "failed",
                       !.lapsed = FALSE, !.config = FALSE]
Resulted(r, s, config, id) ==
    [r EXCEPT !.status = s, !.dispatch = s, !.lapsed = FALSE, !.config = config,
              !.provider = id]

LEMMA AttemptUpdates ==
    ASSUME NEW r \in AttemptRow, NEW id \in Id
    PROVE  /\ Unknown(r) \in AttemptRow /\ Unknown(r).dispatch = "unknown"
           /\ Unknown(r).config = r.config
           /\ Leased(r) \in AttemptRow /\ Leased(r).dispatch = "leased"
           /\ Leased(r).config = FALSE
           /\ Lapsed(r) \in AttemptRow /\ Lapsed(r).dispatch = r.dispatch
           /\ Lapsed(r).config = r.config
           /\ Failed(r) \in AttemptRow /\ Failed(r).dispatch = "failed"
           /\ Failed(r).config = r.config
           /\ Sent(r, id) \in AttemptRow /\ Sent(r, id).dispatch = "succeeded"
           /\ Sent(r, id).config = FALSE
           /\ Closed(r) \in AttemptRow /\ Closed(r).dispatch = "failed"
           /\ Closed(r).config = FALSE
BY DEF AttemptRow, Unknown, Leased, Lapsed, Failed, Sent, Closed, AttemptStatus,
       DispatchState, Id

LEMMA AttemptResulted ==
    ASSUME NEW r \in AttemptRow, NEW s \in {"failed", "succeeded"},
           NEW config \in BOOLEAN, NEW id \in Id
    PROVE  /\ Resulted(r, s, config, id) \in AttemptRow
           /\ Resulted(r, s, config, id).dispatch = s
           /\ Resulted(r, s, config, id).status = s
           /\ Resulted(r, s, config, id).config = config
BY DEF AttemptRow, Resulted, AttemptStatus, DispatchState, Id

Shown(r, s) == [r EXCEPT !.delivery = s]
Carried(r, s, id) == [r EXCEPT !.delivery = s, !.provider = id]

LEMMA MessageUpdates ==
    ASSUME NEW r \in MessageRow, NEW s \in DeliveryStatus, NEW id \in Id
    PROVE  /\ Shown(r, s) \in MessageRow /\ Shown(r, s).delivery = s
           /\ Shown(r, s).current = r.current
           /\ Carried(r, s, id) \in MessageRow /\ Carried(r, s, id).delivery = s
           /\ Carried(r, s, id).current = r.current
BY DEF MessageRow, Shown, Carried

Reopened(r) == [r EXCEPT !.delivery = "pending", !.current = @ + 1]

LEMMA MessageReopened ==
    ASSUME NEW r \in MessageRow, r.current + 1 \in Generation
    PROVE  /\ Reopened(r) \in MessageRow /\ Reopened(r).delivery = "pending"
           /\ Reopened(r).current = r.current + 1
BY DEF MessageRow, Reopened, DeliveryStatus

\* What the processing of a result command can change.
LEMMA RecordFacts ==
    ASSUME TypeOK, NEW c \in Calls, NEW requested \in {"sent", "failed"},
           NEW id \in Id, RecordResult(c, requested, id)
    PROVE  LET k == KeyOf(c)
               m == k[1]
           IN  /\ attempt' \in [DOMAIN attempt -> AttemptRow]
               /\ message' \in [DOMAIN message -> MessageRow]
               /\ \A n \in DOMAIN message : message'[n].current = message[n].current
               /\ results' \in [DOMAIN results' -> Id] /\ DOMAIN results' \subseteq DOMAIN attempt
               /\ UNCHANGED <<claims, external>>
               /\ \A l \in DOMAIN attempt \ {k} : attempt'[l] = attempt[l]
               /\ \A n \in DOMAIN message \ {m} : message'[n] = message[n]
               /\ \/ UNCHANGED <<message, attempt>>
                  \/ /\ attempt'[k].dispatch =
                            IF message'[m].delivery = "failed" THEN "failed" ELSE "succeeded"
                     /\ attempt'[k].status = attempt'[k].dispatch
                     /\ attempt'[k].config => call[c].at = "misconfigured"
                     /\ message'[m].delivery = FinalStatus(m, requested)
                     /\ message'[m].delivery \in {"sent", "failed"}
<1> DEFINE k == KeyOf(c)
           m == k[1]
           final == FinalStatus(m, requested)
           status == IF final = "failed" THEN "failed" ELSE "succeeded"
           config == call[c].at = "misconfigured" /\ final = "failed"
           owner == IF id = NoId THEN attempt[k].provider ELSE id
           sender == IF id = NoId THEN message[m].provider ELSE id
<1>1. /\ k \in DOMAIN attempt /\ m \in DOMAIN message
      /\ attempt[k] \in AttemptRow /\ message[m] \in MessageRow
  BY DEF TypeOK
<1>2. final \in {"sent", "failed"} /\ owner \in Id /\ sender \in Id
  BY <1>1 DEF FinalStatus, MessageRow, AttemptRow, DeliveryStatus
<1>3. final \in DeliveryStatus
  BY <1>2 DEF DeliveryStatus
<1>4. CASE k \in DOMAIN results
  <2>1. UNCHANGED <<message, attempt, results, claims, external>>
    BY <1>4 DEF RecordResult
  <2> QED
    BY <2>1 DEF TypeOK
<1>5. CASE k \notin DOMAIN results
  <2>1. WriteResult(k, requested, id, call[c].at = "misconfigured")
        /\ UNCHANGED <<claims, external>>
    BY <1>5 DEF RecordResult
  <2>2. /\ SetAttempt(k, Resulted(attempt[k], status, config, owner))
        /\ message' = [message EXCEPT ![m] = Carried(message[m], final, sender)]
    BY <2>1 DEF WriteResult, Resulted, Carried
  <2>3. /\ Resulted(attempt[k], status, config, owner) \in AttemptRow
        /\ Resulted(attempt[k], status, config, owner).dispatch = status
        /\ Resulted(attempt[k], status, config, owner).status = status
        /\ Resulted(attempt[k], status, config, owner).config = config
    <3>1. status \in {"failed", "succeeded"} /\ config \in BOOLEAN
      OBVIOUS
    <3> HIDE DEF status, config, owner, k
    <3> QED
      BY <1>1, <1>2, <3>1, AttemptResulted
  <2>4. /\ Carried(message[m], final, sender) \in MessageRow
        /\ Carried(message[m], final, sender).delivery = final
        /\ Carried(message[m], final, sender).current = message[m].current
    BY <1>1, <1>2, <1>3, MessageUpdates
  <2>5. results' \in [DOMAIN results' -> Id] /\ DOMAIN results' \subseteq DOMAIN attempt
    BY <1>1, <2>1 DEF WriteResult, TypeOK
  <2>6. /\ attempt' \in [DOMAIN attempt -> AttemptRow]
        /\ attempt'[k] = Resulted(attempt[k], status, config, owner)
        /\ \A l \in DOMAIN attempt \ {k} : attempt'[l] = attempt[l]
    BY <1>1, <2>2, <2>3, SetAttemptFacts
  <2>7. /\ message' \in [DOMAIN message -> MessageRow]
        /\ message'[m].delivery = final /\ message'[m].current = message[m].current
        /\ \A n \in DOMAIN message \ {m} : message'[n] = message[n]
    BY <1>1, <2>2, <2>4 DEF TypeOK
  <2> HIDE DEF k, m, final, status, config, owner, sender
  <2> QED
    BY <1>2, <2>1, <2>3, <2>5, <2>6, <2>7 DEF k, m, final, status, config
<1> QED
  BY <1>4, <1>5

-----------------------------------------------------------------------------
(* Type correctness *)

LEMMA InitTypeOK == Init => TypeOK
BY DEF Init, TypeOK, Calls, Current, KeyOf

LEMMA CreateTypeOK ==
    ASSUME TypeOK, NEW m \in Message, Create(m) PROVE TypeOK'
<1> USE DispatchAssumption
<1> QED
  BY DEF TypeOK, Create, Calls, Current, KeyOf, Key, Generation, MessageRow,
         AttemptRow, NewAttempt, Id, DeliveryStatus, AttemptStatus, DispatchState

LEMMA BeginTypeOK ==
    ASSUME TypeOK, NEW c \in Caller, NEW k \in DOMAIN attempt, Begin(c, k)
    PROVE  TypeOK'
BY DEF TypeOK, Begin, Calls, Current, KeyOf, Call, Running, Ended, Request

\* A claim changes its own attempt and the claims, and moves its caller.
LEMMA ClaimTypeOK ==
    ASSUME TypeOK, NEW c \in Calls,
           ClaimRead(c) \/ ClaimWrite(c) \/ ClaimFails(c)
    PROVE  TypeOK'
<1> DEFINE k == KeyOf(c)
<1>1. k \in DOMAIN attempt /\ attempt[k] \in AttemptRow
  BY DEF TypeOK
<1>2. \A s \in {"reserving", "sending", "delivered", "retryable", "terminal"} : s \in Location
  BY DEF Location, Running, Ended
<1>3. CASE ClaimRead(c)
  <2> DEFINE row == IF Abandoned(k) THEN Unknown(attempt[k]) ELSE attempt[k]
  <2>1. row \in AttemptRow
    BY <1>1, AttemptUpdates DEF Id
  <2>2. CASE Claimable(k)
    <3>1. Goto(c, "reserving") /\ UNCHANGED <<attempt, claims, message, results, external>>
      BY <1>3, <2>2 DEF ClaimRead
    <3> QED
      BY <1>2, <3>1, GotoFacts, FrameTypeOK DEF TypeOK
  <2>3. CASE ~Claimable(k)
    <3>1. /\ SetAttempt(k, row) /\ claims' = claims \cup {k}
          /\ Goto(c, Answer(row.dispatch)) /\ UNCHANGED <<message, results, external>>
      BY <1>3, <2>3 DEF ClaimRead
    <3>2. Answer(row.dispatch) \in Location
      BY <1>2 DEF Answer
    <3> QED
      BY <1>1, <2>1, <3>1, <3>2, GotoFacts, SetAttemptFacts, FrameTypeOK DEF TypeOK
  <2> QED
    BY <2>2, <2>3
<1>4. CASE ClaimWrite(c)
  <2>1. /\ SetAttempt(k, Leased(attempt[k])) /\ claims' = claims \cup {k}
        /\ Goto(c, "sending") \/ Goto(c, "retryable")
        /\ UNCHANGED <<message, results, external>>
    BY <1>4 DEF ClaimWrite, Leased
  <2>2. Leased(attempt[k]) \in AttemptRow
    BY <1>1, AttemptUpdates DEF Id
  <2> QED
    BY <1>1, <1>2, <2>1, <2>2, GotoFacts, SetAttemptFacts, FrameTypeOK DEF TypeOK
<1>5. CASE ClaimFails(c)
  BY <1>2, <1>5, GotoFacts, FrameTypeOK DEF ClaimFails, TypeOK
<1> QED
  BY <1>3, <1>4, <1>5

LEMMA SendTypeOK ==
    ASSUME TypeOK, NEW c \in Calls,
           \/ RefuseToSend(c) \/ Post(c) \/ Confirmed(c) \/ Ambiguous(c)
           \/ Transmit(c) \/ Echo(c)
    PROVE  TypeOK'
<1>1. call \in [Calls -> Call] /\ call[c] \in Call
  BY DEF TypeOK
<1>2. \A s \in {"refused", "misconfigured", "waiting", "recording", "ambiguous"} : s \in Location
  BY DEF Location, Running, Ended
<1>3. CASE RefuseToSend(c) \/ Confirmed(c) \/ Ambiguous(c)
  BY <1>2, <1>3, GotoFacts, FrameTypeOK DEF RefuseToSend, Confirmed, Ambiguous, TypeOK
<1>4. CASE Post(c)
  <2>1. call' = [call EXCEPT ![c] = Posting(call[c])]
    BY <1>1, <1>4 DEF Post, Posting
  <2>2. Posting(call[c]) \in Call /\ Posting(call[c]).key = call[c].key
    BY <1>1, <1>2, CallUpdates DEF Request
  <2> QED
    BY <1>1, <1>4, <2>1, <2>2, FrameTypeOK DEF Post, TypeOK, Calls
<1>5. CASE Transmit(c)
  <2>1. PICK q \in {"arrived", "lost"} : call' = [call EXCEPT ![c] = Fated(call[c], q)]
    BY <1>1, <1>5 DEF Transmit, Fated
  <2>2. Fated(call[c], q) \in Call /\ Fated(call[c], q).key = call[c].key
    BY <1>1, <1>2, CallUpdates DEF Request
  <2> QED
    BY <1>1, <1>5, <2>1, <2>2, FrameTypeOK DEF Transmit, TypeOK, Calls
<1>6. CASE Echo(c)
  BY <1>6, FrameTypeOK DEF Echo, TypeOK
<1> QED
  BY <1>3, <1>4, <1>5, <1>6

LEMMA MarkTypeOK ==
    ASSUME TypeOK, NEW c \in Calls, MarkUnknown(c) \/ MarkFails(c) \/ GiveUp(c)
    PROVE  TypeOK'
<1> DEFINE k == KeyOf(c)
<1>1. k \in DOMAIN attempt /\ attempt[k] \in AttemptRow
  BY DEF TypeOK
<1>2. \A s \in {"terminal", "retryable"} : s \in Location
  BY DEF Location, Running, Ended
<1>3. Unknown(attempt[k]) \in AttemptRow
  BY <1>1, AttemptUpdates DEF Id
<1>4. /\ SetAttempt(k, Unknown(attempt[k])) \/ UNCHANGED attempt
      /\ Goto(c, "terminal") \/ Goto(c, "retryable")
      /\ UNCHANGED <<message, claims, results, external>>
  BY DEF MarkUnknown, MarkFails, GiveUp
<1>5. attempt' \in [DOMAIN attempt -> AttemptRow]
  BY <1>1, <1>3, <1>4, SetAttemptFacts DEF TypeOK
<1> QED
  BY <1>2, <1>4, <1>5, GotoFacts, FrameTypeOK DEF TypeOK

LEMMA RecordTypeOK ==
    ASSUME TypeOK, NEW c \in Calls, RecordRefusal(c) \/ RecordSent(c) \/ RecordThrows(c)
    PROVE  TypeOK'
<1>1. \A s \in {"terminal", "retryable", "delivered", "repeating", "giving up"} : s \in Location
  BY DEF Location, Running, Ended
<1>2. c \in Id /\ NoId \in Id
  BY DEF TypeOK, Id
<1>3. CASE RecordRefusal(c)
  <2>1. CASE RecordResult(c, "failed", NoId)
    BY <1>1, <1>2, <1>3, <2>1, RecordFacts, GotoFacts, FrameTypeOK DEF RecordRefusal, TypeOK
  <2>2. CASE UNCHANGED <<message, attempt, claims, results, external>>
    BY <1>1, <1>3, <2>2, GotoFacts, FrameTypeOK DEF RecordRefusal, TypeOK
  <2> QED
    BY <1>3, <2>1, <2>2 DEF RecordRefusal
<1>4. AfterThrow(c) \in Location
  BY <1>1 DEF AfterThrow
<1>5. CASE RecordSent(c)
  BY <1>1, <1>2, <1>4, <1>5, RecordFacts, GotoFacts, FrameTypeOK DEF RecordSent, TypeOK
<1>6. CASE RecordThrows(c)
  BY <1>4, <1>6, GotoFacts, FrameTypeOK DEF RecordThrows, TypeOK
<1> QED
  BY <1>3, <1>5, <1>6

LEMMA OutsideTypeOK ==
    ASSUME TypeOK, NEW k \in DOMAIN attempt, FailUndispatched(k) \/ Lapse(k)
    PROVE  TypeOK'
<1>1. /\ attempt[k] \in AttemptRow /\ k[1] \in DOMAIN message
      /\ message[k[1]] \in MessageRow /\ call \in [Calls -> Call]
  BY DEF TypeOK
<1>2. Lapsed(attempt[k]) \in AttemptRow /\ Failed(attempt[k]) \in AttemptRow
  BY <1>1, AttemptUpdates DEF Id
<1>3. CASE FailUndispatched(k)
  <2>1. "failed" \in DeliveryStatus
    BY DEF DeliveryStatus
  <2>2. /\ Shown(message[k[1]], "failed") \in MessageRow
        /\ Shown(message[k[1]], "failed").current = message[k[1]].current
    BY <1>1, <2>1, MessageUpdates DEF Id
  <2>3. /\ SetAttempt(k, Failed(attempt[k]))
        /\ message' = [message EXCEPT ![k[1]] = Shown(message[k[1]], "failed")]
        /\ UNCHANGED <<claims, results, external, call>>
    BY <1>3 DEF FailUndispatched, Fail, Failed, Shown
  <2> QED
    BY <1>1, <1>2, <2>2, <2>3, SetAttemptFacts, FrameTypeOK DEF TypeOK
<1>4. CASE Lapse(k)
  <2>1. SetAttempt(k, Lapsed(attempt[k])) /\ UNCHANGED <<message, claims, results, external, call>>
    BY <1>4 DEF Lapse, Lapsed
  <2> QED
    BY <1>1, <1>2, <2>1, SetAttemptFacts, FrameTypeOK DEF TypeOK
<1> QED
  BY <1>3, <1>4

LEMMA CrashTypeOK ==
    ASSUME TypeOK, NEW C \in SUBSET Calls, Crash(C) PROVE TypeOK'
<1>1. call \in [Calls -> Call] /\ "crashed" \in Location /\ "none" \in Request
  BY DEF TypeOK, Location, Ended, Request
<1>2. call' = [c \in Calls |-> IF c \in C THEN At(call[c], "crashed") ELSE call[c]]
  BY DEF Crash, At
<1>3. \A c \in Calls : /\ At(call[c], "crashed") \in Call
                       /\ At(call[c], "crashed").key = call[c].key
  BY SMTT(40), <1>1, CallUpdates
<1> QED
  BY ZenonT(60), <1>1, <1>2, <1>3, FrameTypeOK DEF Crash, TypeOK

LEMMA ReconcileTypeOK ==
    ASSUME TypeOK, NEW m \in DOMAIN message, Reconcile(m) PROVE TypeOK'
<1> DEFINE k == Current(m)
<1>1. /\ k \in DOMAIN attempt /\ attempt[k] \in AttemptRow
      /\ message[m] \in MessageRow /\ call \in [Calls -> Call] /\ k[1] = m
  BY DEF TypeOK, Current
<1>2. CASE ConfirmNotSent(m)
  <2> DEFINE next == <<m, message[m].current + 1>>
             row == Reopened(message[m])
  <2>1. Closed(attempt[k]) \in AttemptRow /\ NewAttempt \in AttemptRow
    BY <1>1, AttemptUpdates DEF Id, NewAttempt, AttemptRow, AttemptStatus, DispatchState
  <2>2. row \in MessageRow /\ row.current = message[m].current + 1 /\ next \in Key
    <3>1. message[m].current \in 1..MaxGeneration /\ message[m].current < MaxGeneration
      BY <1>1, <1>2 DEF ConfirmNotSent, MessageRow, Generation
    <3>2. message[m].current + 1 \in Generation
      BY <3>1, DispatchAssumption DEF Generation
    <3>3. m \in Message
      BY DEF TypeOK
    <3> QED
      BY <1>1, <3>2, <3>3, MessageReopened DEF Key
  <2>3. /\ attempt' = [l \in DOMAIN attempt \cup {next} |->
             IF l = next THEN NewAttempt
             ELSE IF l = k THEN Closed(attempt[k]) ELSE attempt[l]]
        /\ message' = [message EXCEPT ![m] = row]
        /\ UNCHANGED <<claims, results, external, call>>
    BY <1>2 DEF ConfirmNotSent, Closed, Reopened, ReopenedKeys, Successor
  <2>4. /\ attempt' \in [DOMAIN attempt' -> AttemptRow]
        /\ DOMAIN attempt' = DOMAIN attempt \cup {next}
    BY <2>1, <2>3 DEF TypeOK
  <2>5. /\ message' \in [DOMAIN message -> MessageRow] /\ DOMAIN message' = DOMAIN message
        /\ Current(m)' = next
        /\ \A n \in DOMAIN message \ {m} : Current(n)' = Current(n)
    BY <2>2, <2>3 DEF TypeOK, Current
  <2>6. next \in Key /\ next[1] = m
    BY <2>2
  <2> HIDE DEF next, row, k
  <2>7. /\ message' \in [DOMAIN message' -> MessageRow]
        /\ DOMAIN message' \subseteq Message
        /\ DOMAIN attempt' \subseteq Key
    BY <2>4, <2>5, <2>6 DEF TypeOK
  <2>8. /\ claims' \subseteq DOMAIN attempt'
        /\ results' \in [DOMAIN results' -> Id] /\ DOMAIN results' \subseteq DOMAIN attempt'
        /\ external' \subseteq Calls'
        /\ call' \in [Calls' -> Call] /\ Calls' \subseteq Caller
    BY <2>3, <2>4 DEF TypeOK, Calls
  <2>9. \A l \in DOMAIN attempt' : l[1] \in DOMAIN message'
    BY <2>4, <2>5, <2>6 DEF TypeOK
  <2>10. \A n \in DOMAIN message' : Current(n)' \in DOMAIN attempt'
    BY <2>4, <2>5 DEF TypeOK
  <2>11. \A c \in Calls' : KeyOf(c)' \in DOMAIN attempt'
    BY <2>3, <2>4 DEF TypeOK, Calls, KeyOf
  <2> QED
    BY <2>4, <2>7, <2>8, <2>9, <2>10, <2>11 DEF TypeOK
<1>3. ASSUME NEW id \in Calls, ConfirmSent(m, id) PROVE TypeOK'
  <2>1. id \in Id /\ "sent" \in DeliveryStatus
    BY DEF TypeOK, Id, DeliveryStatus
  <2>2. /\ Sent(attempt[k], id) \in AttemptRow
        /\ Carried(message[m], "sent", id) \in MessageRow
        /\ Carried(message[m], "sent", id).current = message[m].current
    BY ZenonT(60), <1>1, <2>1, AttemptUpdates, MessageUpdates
  <2>3. \/ UNCHANGED <<message, attempt>>
        \/ /\ SetAttempt(k, Sent(attempt[k], id))
           /\ message' = [message EXCEPT ![m] = Carried(message[m], "sent", id)]
    BY <1>1, <1>3 DEF ConfirmSent, Confirmable, MarkSent, Sent, Carried
  <2>4. UNCHANGED <<claims, results, external, call>>
    BY <1>3 DEF ConfirmSent, Confirmable
  <2>5. CASE UNCHANGED <<message, attempt>>
    BY <2>4, <2>5, FrameTypeOK DEF TypeOK
  <2>6. CASE /\ SetAttempt(k, Sent(attempt[k], id))
             /\ message' = [message EXCEPT ![m] = Carried(message[m], "sent", id)]
    <3>1. /\ message' \in [DOMAIN message -> MessageRow]
          /\ \A n \in DOMAIN message : message'[n].current = message[n].current
      BY <2>2, <2>6 DEF TypeOK
    <3> QED
      BY <1>1, <2>2, <2>4, <2>6, <3>1, SetAttemptFacts, FrameTypeOK DEF TypeOK
  <2> QED
    BY <2>3, <2>5, <2>6
<1> QED
  BY <1>2, <1>3 DEF Reconcile

LEMMA NextTypeOK == TypeOK /\ [Next]_dispatchVars => TypeOK'
<1> SUFFICES ASSUME TypeOK, [Next]_dispatchVars PROVE TypeOK'
  OBVIOUS
<1>1. CASE UNCHANGED dispatchVars
  BY <1>1 DEF dispatchVars, TypeOK, Calls, Current, KeyOf
<1>2. CASE Next
  BY <1>2, CreateTypeOK, BeginTypeOK, ClaimTypeOK, SendTypeOK, MarkTypeOK, RecordTypeOK,
     OutsideTypeOK, CrashTypeOK, ReconcileTypeOK DEF Next, Deliver
<1> QED
  BY <1>1, <1>2

\* Every reachable state has the types of TypeOK.
THEOREM TypeCorrect == Spec => []TypeOK
<1> QED
  BY InitTypeOK, NextTypeOK, PTL DEF Spec

-----------------------------------------------------------------------------
(* At most one request per attempt *)

\* Where a caller is once its claim told it to send.
Chosen == {"sending", "waiting", "ambiguous", "refused", "misconfigured",
           "recording", "repeating", "giving up"}

\* Sending needs a processed claim of the attempt, and a claim tells a caller to
\* send only while there is none: the reservation of an attempt, exclusive by the
\* advisory lock, starts and ends before its claim is processed.
ClaimInv ==
    /\ \A c \in Calls :
          call[c].at \in Chosen \/ call[c].request # "none" => KeyOf(c) \in claims
    /\ \A c \in Calls : call[c].at = "reserving" => KeyOf(c) \notin claims
    /\ \A c, d \in Calls :
          call[c].at = "reserving" /\ call[d].at = "reserving" /\ KeyOf(c) = KeyOf(d)
            => c = d
    /\ AtMostOneRequest

\* A caller that moves on without being told to send keeps the invariant.
LEMMA MoveClaimInv ==
    ASSUME TypeOK, ClaimInv, NEW c \in Calls, NEW s \in Location \ {"reserving", "sending"},
           s \in Chosen => call[c].at \in Chosen,
           Goto(c, s),
           claims \subseteq claims',
           \A d \in Calls \ {c} : call[d].at = "reserving" => KeyOf(d) \notin claims'
    PROVE  ClaimInv'
<1>1. /\ Calls' = Calls
      /\ call'[c].at = s /\ call'[c].key = call[c].key
      /\ call'[c].request = call[c].request
      /\ \A d \in Calls \ {c} : call'[d] = call[d]
  BY GotoFacts
<1> QED
  BY <1>1 DEF ClaimInv, AtMostOneRequest, Posted, KeyOf

LEMMA DeliverClaimInv ==
    ASSUME TypeOK, ClaimInv, NEW c \in Calls, Deliver(c) PROVE ClaimInv'
<1> DEFINE k == KeyOf(c)
<1>1. \A s \in Chosen \cup {"reserving", "delivered", "retryable", "terminal"} : s \in Location
  BY DEF Location, Running, Ended, Chosen
<1>2. CASE ClaimRead(c)
  <2>1. CASE Claimable(k)
    <3>1. /\ Goto(c, "reserving") /\ UNCHANGED claims /\ Unlocked(k) /\ k \notin claims
      BY <1>2, <2>1 DEF ClaimRead, Claimable, Unclaimed
    <3>2. /\ Calls' = Calls /\ call'[c].at = "reserving" /\ call'[c].key = k
          /\ call'[c].request = call[c].request
          /\ \A d \in Calls \ {c} : call'[d] = call[d]
      BY <1>1, <3>1, GotoFacts DEF KeyOf
    <3>3. \A d \in Calls : KeyOf(d) = k => call[d].at # "reserving"
      BY <3>1 DEF Unlocked
    <3>4. \A d \in Calls : /\ KeyOf(d)' = KeyOf(d)
                           /\ Posted(d)' => Posted(d)
                           /\ call'[d].at \in Chosen => call[d].at \in Chosen
                           /\ call'[d].request = call[d].request
      BY <3>2 DEF KeyOf, Posted, Chosen
    <3> QED
      BY <3>1, <3>2, <3>3, <3>4 DEF ClaimInv, AtMostOneRequest
  <2>2. CASE ~Claimable(k)
    <3>1. PICK s \in {"delivered", "retryable", "terminal"} : Goto(c, s)
      BY <1>2, <2>2 DEF ClaimRead, Answer
    <3>2. claims' = claims \cup {k} /\ Unlocked(k)
      BY <1>2, <2>2 DEF ClaimRead
    <3>3. \A d \in Calls \ {c} : call[d].at = "reserving" => KeyOf(d) \notin claims'
      BY <3>2 DEF Unlocked, ClaimInv
    <3> QED
      BY <1>1, <3>1, <3>2, <3>3, MoveClaimInv DEF Chosen
  <2> QED
    BY <2>1, <2>2
<1>3. CASE ClaimWrite(c)
  <2>1. /\ call[c].at = "reserving" /\ claims' = claims \cup {k}
        /\ Goto(c, "sending") \/ Goto(c, "retryable")
    BY <1>3 DEF ClaimWrite
  <2>2. \A d \in Calls \ {c} : call[d].at = "reserving" => KeyOf(d) \notin claims'
    BY <2>1 DEF ClaimInv
  <2>3. CASE Goto(c, "retryable")
    BY <1>1, <2>1, <2>2, <2>3, MoveClaimInv DEF Chosen
  <2>4. CASE Goto(c, "sending")
    <3>1. /\ Calls' = Calls /\ call'[c].at = "sending" /\ call'[c].key = k
          /\ call'[c].request = call[c].request
          /\ \A d \in Calls \ {c} : call'[d] = call[d]
      BY <1>1, <2>4, GotoFacts DEF KeyOf, Chosen
    <3>2. \A d \in Calls : Posted(d) => KeyOf(d) # k
      BY <2>1 DEF ClaimInv, Posted, Chosen
    <3> QED
      BY <2>1, <2>2, <3>1, <3>2 DEF ClaimInv, AtMostOneRequest, Posted, KeyOf
  <2> QED
    BY <2>1, <2>3, <2>4
<1>4. CASE Post(c)
  <2>1. call \in [Calls -> Call] /\ call[c] \in Call
    BY DEF TypeOK
  <2>2. call' = [call EXCEPT ![c] = Posting(call[c])] /\ call[c].at = "sending"
        /\ UNCHANGED claims
    BY <1>4, <2>1 DEF Post, Posting
  <2>3. "none" \in Request /\ "waiting" \in Location
    BY <1>1 DEF Request, Chosen
  <2>4. /\ Posting(call[c]).key = call[c].key /\ Posting(call[c]).at = "waiting"
    BY <2>1, <2>3, CallUpdates
  <2>5. /\ Calls' = Calls /\ call'[c].at = "waiting" /\ call'[c].key = k
        /\ \A d \in Calls \ {c} : call'[d] = call[d]
    BY <2>1, <2>2, <2>4 DEF Calls, KeyOf
  <2>6. k \in claims
    BY <2>2 DEF ClaimInv, Chosen
  <2>7. \A d \in Calls : KeyOf(d)' = KeyOf(d) /\ (Posted(d)' => Posted(d))
    BY <2>2, <2>5 DEF KeyOf, Posted
  <2>8. \A d \in Calls : call'[d].at = "reserving" => call[d].at = "reserving"
    BY <2>5
  <2> QED
    BY <2>2, <2>5, <2>6, <2>7, <2>8 DEF ClaimInv, AtMostOneRequest
<1>5. CASE ~(ClaimRead(c) \/ ClaimWrite(c) \/ Post(c))
  <2>1. UNCHANGED claims
    BY <1>5 DEF Deliver, ClaimFails, RefuseToSend, Confirmed, Ambiguous, MarkUnknown,
                MarkFails, RecordRefusal, RecordSent, RecordThrows, GiveUp, RecordResult
  <2>2. ASSUME NEW s \in {"delivered", "retryable", "terminal"}, Goto(c, s) PROVE ClaimInv'
    BY <1>1, <2>1, <2>2, MoveClaimInv DEF ClaimInv, Chosen
  <2>3. ASSUME NEW s \in Chosen \ {"sending"}, call[c].at \in Chosen, Goto(c, s)
        PROVE  ClaimInv'
    BY <1>1, <2>1, <2>3, MoveClaimInv DEF ClaimInv, Chosen
  <2>4. CASE ClaimFails(c) \/ MarkFails(c)
    BY <2>2, <2>4 DEF ClaimFails, MarkFails
  <2>5. CASE MarkUnknown(c) \/ GiveUp(c)
    BY <2>2, <2>5 DEF MarkUnknown, GiveUp
  <2>6. CASE RecordRefusal(c)
    BY <2>2, <2>6 DEF RecordRefusal
  <2>7. CASE RefuseToSend(c)
    BY <2>3, <2>7 DEF RefuseToSend, Chosen
  <2>8. CASE Confirmed(c) \/ Ambiguous(c)
    BY <2>3, <2>8 DEF Confirmed, Ambiguous, Chosen
  <2>9. CASE RecordSent(c) \/ RecordThrows(c)
    <3>1. call[c].at \in Chosen /\ AfterThrow(c) \in Chosen \ {"sending"}
      BY <2>9 DEF RecordSent, RecordThrows, AfterThrow, Recording, Chosen
    <3> QED
      BY <2>2, <2>3, <2>9, <3>1 DEF RecordSent, RecordThrows
  <2> QED
    BY <1>5, <2>4, <2>5, <2>6, <2>7, <2>8, <2>9 DEF Deliver
<1> QED
  BY <1>2, <1>3, <1>4, <1>5

\* Calls that are only interrupted keep the invariant.
LEMMA StopClaimInv ==
    ASSUME ClaimInv, Calls' = Calls, claims' = claims,
           \A c \in Calls : /\ KeyOf(c)' = KeyOf(c)
                            /\ call'[c].request = call[c].request
                            /\ call'[c].at \in {call[c].at, "crashed"}
    PROVE  ClaimInv'
<1>1. \A c \in Calls : Posted(c)' => Posted(c)
  BY DEF Posted
<1>2. \A c \in Calls : /\ call'[c].at \in Chosen => call[c].at \in Chosen
                       /\ call'[c].at = "reserving" => call[c].at = "reserving"
  BY DEF Chosen
<1> QED
  BY <1>1, <1>2 DEF ClaimInv, AtMostOneRequest

LEMMA NextClaimInv == TypeOK /\ ClaimInv /\ [Next]_dispatchVars => ClaimInv'
<1> SUFFICES ASSUME TypeOK, ClaimInv, [Next]_dispatchVars PROVE ClaimInv'
  OBVIOUS
<1> USE DEF ClaimInv, AtMostOneRequest, Posted, KeyOf, Calls
<1>1. ASSUME NEW c \in Caller, NEW k \in DOMAIN attempt, Begin(c, k) PROVE ClaimInv'
  BY ZenonT(60), <1>1 DEF Begin, Chosen
<1>2. ASSUME NEW c \in Calls, Transmit(c) PROVE ClaimInv'
  <2>1. call \in [Calls -> Call] /\ call[c] \in Call /\ "crashed" \in Location
    BY DEF TypeOK, Location, Ended
  <2>2. PICK q \in {"arrived", "lost"} : call' = [call EXCEPT ![c] = Fated(call[c], q)]
    BY <1>2, <2>1 DEF Transmit, Fated
  <2>3. Fated(call[c], q).key = call[c].key /\ Fated(call[c], q).at = call[c].at
    BY <2>1, CallUpdates DEF Request
  <2> QED
    BY <1>2, <2>1, <2>2, <2>3 DEF Transmit
<1>3. ASSUME NEW C \in SUBSET Calls, Crash(C) PROVE ClaimInv'
  <2>1. call \in [Calls -> Call] /\ "crashed" \in Location /\ "none" \in Request
    BY DEF TypeOK, Location, Ended, Request
  <2>2. call' = [c \in Calls |-> IF c \in C THEN At(call[c], "crashed") ELSE call[c]]
        /\ UNCHANGED claims
    BY <1>3 DEF Crash, At
  <2>3. \A c \in Calls : /\ At(call[c], "crashed").at = "crashed"
                         /\ At(call[c], "crashed").key = call[c].key
                         /\ At(call[c], "crashed").request = call[c].request
    BY <2>1, CallUpdates
  <2> QED
    BY <2>1, <2>2, <2>3, StopClaimInv
<1>4. CASE UNCHANGED <<call, claims>>
  BY <1>4
<1>5. ASSUME Next, ~UNCHANGED <<call, claims>>
      PROVE  \/ \E c \in Caller, k \in DOMAIN attempt : Begin(c, k)
             \/ \E c \in Calls : Deliver(c) \/ Transmit(c)
             \/ \E C \in SUBSET Calls : Crash(C)
  BY <1>5 DEF Next, Create, Echo, FailUndispatched, Lapse, Reconcile, ConfirmSent,
              Confirmable, ConfirmNotSent
<1> QED
  BY <1>1, <1>2, <1>3, <1>4, <1>5, DeliverClaimInv DEF dispatchVars

LEMMA SpecClaimInv == Spec => [](TypeOK /\ ClaimInv)
<1>1. Init => ClaimInv
  BY DEF Init, ClaimInv, AtMostOneRequest, Calls
<1> QED
  BY <1>1, InitTypeOK, NextTypeOK, NextClaimInv, PTL DEF Spec

\* No attempt is ever sent to the provider by two callers.
THEOREM OneRequestPerAttempt == Spec => []AtMostOneRequest
<1>1. ClaimInv => AtMostOneRequest
  BY DEF ClaimInv
<1> QED
  BY <1>1, SpecClaimInv, PTL

-----------------------------------------------------------------------------
(* What one step may do to the calls *)

\* A caller that may still be about to make its request.
Early == {"claiming", "reserving", "sending"}

\* A request follows the claim, and a result is recorded of a message that arrived.
CallInv ==
    /\ \A c \in Calls : call[c].at \in Early => call[c].request = "none"
    /\ \A c \in Calls : call[c].at \in Recording => call[c].request = "arrived"

\* Every step moves a call like this.
Moved(c) ==
    /\ call'[c].key = call[c].key
    /\ \/ call'[c].request = call[c].request
       \/ /\ call[c].at = "sending" /\ call'[c].at = "waiting"
          /\ call'[c].request = "flying"
       \/ /\ call[c].request = "flying" /\ call'[c].request \in {"arrived", "lost"}
          /\ call'[c].at = call[c].at
    /\ call'[c].at \in Early => call[c].at \in Early
    /\ call'[c].at = "reserving" => call[c].at = "reserving" \/ Claimable(KeyOf(c))
    /\ call'[c].at = "reserving" => call[c].at = "reserving" \/ attempt' = attempt
    /\ call'[c].at = "sending" => call[c].at \in {"reserving", "sending"}
    /\ call'[c].at \in Recording => call[c].at \in Recording \/ call[c].request = "arrived"
    /\ call'[c].at = "delivered" =>
          \/ call[c].at = "delivered"
          \/ call[c].at \in Recording /\ RecordResult(c, "sent", c)
          \/ attempt[KeyOf(c)].dispatch = "succeeded"

\* The provider transmits, and nothing else happens.
Arrives(c) == call[c].request = "flying" /\ call'[c].request = "arrived"
Alone(c) == UNCHANGED message /\ Calls' = Calls /\ \A d \in Calls \ {c} : call'[d] = call[d]

\* A call keeps its attempt and its end; one that begins has made no request.
CallsMoved ==
    /\ Calls \subseteq Calls'
    /\ \A c \in Calls : Moved(c) /\ (Arrives(c) => Alone(c))
    /\ \A c \in Calls' \ Calls : call'[c].at = "claiming" /\ call'[c].request = "none"

LEMMA GotoMoved ==
    ASSUME TypeOK, NEW c \in Calls, NEW s \in Location, Goto(c, s),
           s \in Early => call[c].at \in Early,
           s = "reserving" => Claimable(KeyOf(c)) /\ UNCHANGED attempt,
           s = "sending" => call[c].at = "reserving",
           s \in Recording => call[c].at \in Recording \/ call[c].request = "arrived",
           s = "delivered" => \/ call[c].at \in Recording /\ RecordResult(c, "sent", c)
                              \/ attempt[KeyOf(c)].dispatch = "succeeded"
    PROVE  CallsMoved
<1>1. /\ Calls' = Calls /\ call'[c].at = s
      /\ call'[c].key = call[c].key /\ call'[c].request = call[c].request
      /\ \A d \in Calls \ {c} : call'[d] = call[d]
  BY GotoFacts
<1>2. Moved(c)
  BY <1>1 DEF Moved
<1>3. \A d \in Calls \ {c} : Moved(d)
  BY <1>1 DEF Moved
<1>4. \A d \in Calls : ~Arrives(d)
  BY <1>1 DEF Arrives
<1> QED
  BY <1>1, <1>2, <1>3, <1>4 DEF CallsMoved

LEMMA DeliverMoved ==
    ASSUME TypeOK, NEW c \in Calls, Deliver(c) PROVE CallsMoved
<1> DEFINE k == KeyOf(c)
<1>0. k \in DOMAIN attempt /\ attempt[k] \in AttemptRow
  BY DEF TypeOK
<1>1. \A s \in Running \cup Ended : s \in Location
  BY DEF Location
<1>2. CASE ClaimRead(c)
  <2> DEFINE row == IF Abandoned(k) THEN Unknown(attempt[k]) ELSE attempt[k]
  <2>1. CASE Claimable(k)
    <3>1. Goto(c, "reserving") /\ call[c].at = "claiming" /\ UNCHANGED attempt
      BY <1>2, <2>1 DEF ClaimRead
    <3> QED
      BY <1>1, <2>1, <3>1, GotoMoved DEF Running, Early, Recording
  <2>2. CASE ~Claimable(k)
    <3>1. Goto(c, Answer(row.dispatch))
      BY <1>2, <2>2 DEF ClaimRead
    <3>2. Answer(row.dispatch) = "delivered" => attempt[k].dispatch = "succeeded"
      BY <1>0, AttemptUpdates DEF Answer, Id
    <3>3. Answer(row.dispatch) \in {"delivered", "terminal", "retryable"}
      BY DEF Answer
    <3> QED
      BY <1>1, <3>1, <3>2, <3>3, GotoMoved DEF Ended, Early, Recording
  <2> QED
    BY <2>1, <2>2
<1>3. CASE ClaimWrite(c)
  BY <1>1, <1>3, GotoMoved DEF ClaimWrite, Running, Ended, Early, Recording
<1>4. CASE Post(c)
  <2>1. call \in [Calls -> Call] /\ call[c] \in Call
    BY DEF TypeOK
  <2>2. call' = [call EXCEPT ![c] = Posting(call[c])] /\ call[c].at = "sending"
    BY <1>4, <2>1 DEF Post, Posting
  <2>3. "none" \in Request /\ "waiting" \in Location
    BY <1>1 DEF Request, Running
  <2>4. /\ Posting(call[c]).key = call[c].key /\ Posting(call[c]).at = "waiting"
        /\ Posting(call[c]).request = "flying"
    BY <2>1, <2>3, CallUpdates
  <2>5. /\ Calls' = Calls /\ call'[c] = Posting(call[c])
        /\ \A d \in Calls \ {c} : call'[d] = call[d]
    BY <2>1, <2>2 DEF Calls
  <2>6. Moved(c)
    BY <2>2, <2>4, <2>5 DEF Moved, Early, Recording
  <2>7. \A d \in Calls \ {c} : Moved(d)
    BY <2>5 DEF Moved
  <2>8. \A d \in Calls : ~Arrives(d)
    BY <2>4, <2>5 DEF Arrives
  <2> QED
    BY <2>5, <2>6, <2>7, <2>8 DEF CallsMoved
<1>5. ASSUME NEW s \in {"retryable", "terminal", "refused", "misconfigured", "ambiguous"},
             Goto(c, s)
      PROVE  CallsMoved
  BY <1>1, <1>5, GotoMoved DEF Running, Ended, Early, Recording
<1>6. ASSUME NEW s \in {"delivered", "repeating", "giving up"}, call[c].at \in Recording,
             s = "delivered" => RecordResult(c, "sent", c), Goto(c, s)
      PROVE  CallsMoved
  BY <1>1, <1>6, GotoMoved DEF Running, Ended, Early, Recording
<1>7. CASE ClaimFails(c) \/ RefuseToSend(c) \/ Ambiguous(c)
  BY <1>5, <1>7 DEF ClaimFails, RefuseToSend, Ambiguous
<1>8. CASE MarkUnknown(c) \/ MarkFails(c) \/ RecordRefusal(c) \/ GiveUp(c)
  BY <1>5, <1>8 DEF MarkUnknown, MarkFails, RecordRefusal, GiveUp
<1>9. CASE Confirmed(c)
  BY <1>1, <1>9, GotoMoved DEF Confirmed, Running, Early, Recording
<1>10. CASE RecordSent(c) \/ RecordThrows(c)
  <2>1. AfterThrow(c) \in {"repeating", "giving up"} /\ call[c].at \in Recording
    BY <1>10 DEF AfterThrow, RecordSent, RecordThrows
  <2> QED
    BY <1>6, <1>10, <2>1 DEF RecordSent, RecordThrows
<1> QED
  BY <1>2, <1>3, <1>4, <1>7, <1>8, <1>9, <1>10 DEF Deliver

LEMMA NextMoved == TypeOK /\ [Next]_dispatchVars => CallsMoved
<1> SUFFICES ASSUME TypeOK, [Next]_dispatchVars PROVE CallsMoved
  OBVIOUS
<1>0. call \in [Calls -> Call] /\ "crashed" \in Location /\ "none" \in Request
  BY DEF TypeOK, Location, Ended, Request
<1>1. ASSUME NEW c \in Caller, NEW k \in DOMAIN attempt, Begin(c, k) PROVE CallsMoved
  <2>1. /\ Calls' = Calls \cup {c} /\ c \notin Calls
        /\ call'[c].at = "claiming" /\ call'[c].request = "none"
        /\ \A d \in Calls : call'[d] = call[d]
    BY <1>1 DEF Begin, Calls
  <2>2. \A d \in Calls : Moved(d)
    BY <2>1 DEF Moved
  <2>3. \A d \in Calls : ~Arrives(d)
    BY <2>1 DEF Arrives
  <2> QED
    BY <2>1, <2>2, <2>3 DEF CallsMoved
<1>2. ASSUME NEW c \in Calls, Transmit(c) PROVE CallsMoved
  <2>1. PICK q \in {"arrived", "lost"} : call' = [call EXCEPT ![c] = Fated(call[c], q)]
    BY <1>0, <1>2 DEF Transmit, Fated
  <2>2. /\ Fated(call[c], q).key = call[c].key /\ Fated(call[c], q).at = call[c].at
        /\ Fated(call[c], q).request = q
    BY <1>0, CallUpdates DEF Request
  <2>3. /\ Calls' = Calls /\ call'[c] = Fated(call[c], q)
        /\ \A d \in Calls \ {c} : call'[d] = call[d]
    BY <1>0, <2>1 DEF Calls
  <2>4. Moved(c)
    BY <1>2, <2>2, <2>3 DEF Moved, Transmit
  <2>5. \A d \in Calls \ {c} : Moved(d)
    BY <2>3 DEF Moved
  <2>6. Alone(c) /\ \A d \in Calls \ {c} : ~Arrives(d)
    BY <1>2, <2>3 DEF Alone, Arrives, Transmit
  <2> QED
    BY <2>3, <2>4, <2>5, <2>6 DEF CallsMoved
<1>3. ASSUME NEW C \in SUBSET Calls, Crash(C) PROVE CallsMoved
  <2>1. call' = [c \in Calls |-> IF c \in C THEN At(call[c], "crashed") ELSE call[c]]
    BY <1>3 DEF Crash, At
  <2>2. \A c \in Calls : /\ At(call[c], "crashed").at = "crashed"
                         /\ At(call[c], "crashed").key = call[c].key
                         /\ At(call[c], "crashed").request = call[c].request
    BY <1>0, CallUpdates
  <2>3. Calls' = Calls
    BY <2>1 DEF Calls
  <2>4. \A c \in Calls : Moved(c)
    BY <2>1, <2>2 DEF Moved, Early, Recording
  <2>5. \A c \in Calls : ~Arrives(c)
    BY <2>1, <2>2 DEF Arrives
  <2> QED
    BY <2>3, <2>4, <2>5 DEF CallsMoved
<1>4. CASE UNCHANGED call
  BY <1>4 DEF CallsMoved, Moved, Arrives, Calls
<1>5. ASSUME Next, ~UNCHANGED call
      PROVE  \/ \E c \in Caller, k \in DOMAIN attempt : Begin(c, k)
             \/ \E c \in Calls : Deliver(c) \/ Transmit(c)
             \/ \E C \in SUBSET Calls : Crash(C)
  BY <1>5 DEF Next, Create, Echo, FailUndispatched, Lapse, Reconcile, ConfirmSent,
              Confirmable, ConfirmNotSent
<1> QED
  BY <1>1, <1>2, <1>3, <1>4, <1>5, DeliverMoved DEF dispatchVars

LEMMA NextCallInv == TypeOK /\ CallInv /\ [Next]_dispatchVars => CallInv'
<1> SUFFICES ASSUME TypeOK, CallInv, CallsMoved PROVE CallInv'
  BY NextMoved
<1>1. ASSUME NEW c \in Calls', call'[c].at \in Early PROVE call'[c].request = "none"
  BY <1>1 DEF CallInv, CallsMoved, Moved, Early
<1>2. ASSUME NEW c \in Calls', call'[c].at \in Recording PROVE call'[c].request = "arrived"
  BY <1>2 DEF CallInv, CallsMoved, Moved, Early, Recording
<1> QED
  BY <1>1, <1>2 DEF CallInv

-----------------------------------------------------------------------------
(* What one step may do to the rows of an attempt and of a message *)

Settled(k) == attempt[k].status # "pending" /\ attempt[k].dispatch \in {"failed", "succeeded"}
Reserved(k) == \E c \in Calls : KeyOf(c) = k /\ call[c].at = "reserving"

\* A step that changes a settled attempt settles it again, unless the attempt is
\* reserved; it succeeds, and the message is sent, only when a copy is behind it.
AttemptMoved(k) ==
    /\ \/ attempt'[k] = attempt[k]
       \/ attempt[k].dispatch \in {"ready", "leased", "unknown"}
       \/ Reserved(k)
       \/ attempt'[k].status # "pending" /\ attempt'[k].dispatch \in {"failed", "succeeded"}
    /\ attempt'[k].dispatch = "succeeded" =>
          \/ attempt[k].dispatch = "succeeded"
          \/ message[k[1]].delivery = "sent" \/ Copies(k[1]) # {}
    /\ attempt'[k].dispatch = "succeeded" =>
          attempt[k].dispatch = "succeeded" \/ message'[k[1]].delivery = "sent"
    /\ attempt[k].dispatch = "unknown" =>
          attempt'[k].dispatch \notin {"ready", "leased"} \/ Reserved(k)
    /\ Reserved(k) =>
          \/ attempt'[k].dispatch = attempt[k].dispatch \/ attempt'[k].dispatch = "failed"
          \/ k \in claims'

MessageMoved(m) ==
    /\ message'[m].delivery = "sent" => message[m].delivery = "sent" \/ Copies(m) # {}
    /\ message[m].delivery = "sent" => message'[m].delivery = "sent"

\* No attempt or message appears, and one message is shown otherwise at most.
RowsMoved ==
    /\ DOMAIN attempt' = DOMAIN attempt /\ DOMAIN message' = DOMAIN message
    /\ \A k \in DOMAIN attempt : AttemptMoved(k)
    /\ \A m \in DOMAIN message : MessageMoved(m) /\ message'[m].current = message[m].current
    /\ \E m : \A n \in DOMAIN message \ {m} : message'[n].delivery = message[n].delivery

LEMMA StillRows ==
    ASSUME TypeOK, UNCHANGED <<message, attempt>> PROVE RowsMoved
<1>1. \A k \in DOMAIN attempt : AttemptMoved(k)
  BY DEF AttemptMoved
<1>2. \A m \in DOMAIN message : MessageMoved(m)
  BY DEF MessageMoved
<1> QED
  BY <1>1, <1>2 DEF RowsMoved

LEMMA OneRowMoved ==
    ASSUME TypeOK, NEW k \in DOMAIN attempt, AttemptMoved(k), MessageMoved(k[1]),
           DOMAIN attempt' = DOMAIN attempt, DOMAIN message' = DOMAIN message,
           \A l \in DOMAIN attempt \ {k} : attempt'[l] = attempt[l],
           \A n \in DOMAIN message \ {k[1]} : message'[n] = message[n],
           message'[k[1]].current = message[k[1]].current
    PROVE  RowsMoved
<1>1. \A l \in DOMAIN attempt \ {k} : AttemptMoved(l)
  BY DEF AttemptMoved
<1>2. \A n \in DOMAIN message \ {k[1]} : MessageMoved(n)
  BY DEF MessageMoved
<1>3. \A n \in DOMAIN message \ {k[1]} : message'[n].delivery = message[n].delivery
  OBVIOUS
<1> QED
  BY <1>1, <1>2, <1>3 DEF RowsMoved

\* Only the row of the attempt changes.
LEMMA AttemptOnly ==
    ASSUME TypeOK, NEW k \in DOMAIN attempt, NEW row \in AttemptRow, SetAttempt(k, row),
           UNCHANGED message, attempt'[k] = row => AttemptMoved(k)
    PROVE  RowsMoved
<1>1. /\ DOMAIN attempt' = DOMAIN attempt /\ attempt'[k] = row
      /\ \A l \in DOMAIN attempt \ {k} : attempt'[l] = attempt[l]
  BY SetAttemptFacts
<1>2. MessageMoved(k[1])
  BY DEF MessageMoved
<1> QED
  BY <1>1, <1>2, OneRowMoved

LEMMA ClaimRows ==
    ASSUME TypeOK, NEW c \in Calls, ClaimRead(c) \/ ClaimWrite(c) \/ ClaimFails(c)
    PROVE  RowsMoved
<1> DEFINE k == KeyOf(c)
<1>0. k \in DOMAIN attempt /\ attempt[k] \in AttemptRow
  BY DEF TypeOK
<1>1. CASE ClaimRead(c)
  <2>1. CASE Claimable(k)
    BY <1>1, <2>1, StillRows DEF ClaimRead
  <2>2. CASE ~Claimable(k) /\ Abandoned(k)
    <3>1. /\ SetAttempt(k, Unknown(attempt[k])) /\ UNCHANGED message
          /\ attempt[k].dispatch = "leased" /\ k \in claims'
      BY <1>1, <2>2 DEF ClaimRead, Abandoned
    <3>2. Unknown(attempt[k]) \in AttemptRow /\ Unknown(attempt[k]).dispatch = "unknown"
      BY <1>0, AttemptUpdates DEF Id
    <3> QED
      BY <1>0, <3>1, <3>2, AttemptOnly DEF AttemptMoved
  <2>3. CASE ~Claimable(k) /\ ~Abandoned(k)
    <3>1. SetAttempt(k, attempt[k]) /\ UNCHANGED message
      BY <1>1, <2>3 DEF ClaimRead
    <3> QED
      BY <1>0, <3>1, AttemptOnly DEF AttemptMoved
  <2> QED
    BY <2>1, <2>2, <2>3
<1>2. CASE ClaimWrite(c)
  <2>1. /\ SetAttempt(k, Leased(attempt[k])) /\ UNCHANGED message
        /\ k \in claims' /\ Reserved(k)
    BY <1>2 DEF ClaimWrite, Leased, Reserved
  <2>2. Leased(attempt[k]) \in AttemptRow /\ Leased(attempt[k]).dispatch = "leased"
    BY <1>0, AttemptUpdates DEF Id
  <2> QED
    BY <1>0, <2>1, <2>2, AttemptOnly DEF AttemptMoved
<1>3. CASE ClaimFails(c)
  BY <1>3, StillRows DEF ClaimFails
<1> QED
  BY <1>1, <1>2, <1>3

LEMMA MarkRows ==
    ASSUME TypeOK, NEW c \in Calls, MarkUnknown(c) \/ MarkFails(c) \/ GiveUp(c)
    PROVE  RowsMoved
<1> DEFINE k == KeyOf(c)
<1>0. k \in DOMAIN attempt /\ attempt[k] \in AttemptRow
  BY DEF TypeOK
<1>1. CASE UNCHANGED attempt
  BY <1>1, StillRows DEF MarkUnknown, MarkFails, GiveUp
<1>2. CASE ~UNCHANGED attempt
  <2>1. /\ SetAttempt(k, Unknown(attempt[k])) /\ UNCHANGED message
        /\ Unlocked(k) /\ Markable(k)
    BY <1>2 DEF MarkUnknown, MarkFails, GiveUp
  <2>2. Unknown(attempt[k]) \in AttemptRow /\ Unknown(attempt[k]).dispatch = "unknown"
    BY <1>0, AttemptUpdates DEF Id
  <2>3. ~Reserved(k)
    BY <2>1 DEF Unlocked, Reserved
  <2> QED
    BY <1>0, <2>1, <2>2, <2>3, AttemptOnly DEF AttemptMoved, Markable
<1> QED
  BY <1>1, <1>2

\* A result is recorded while nobody reserves the attempt; what becomes of the rows
\* depends on the status that prevails.
LEMMA RecordRows ==
    ASSUME TypeOK, NEW c \in Calls, NEW requested \in {"sent", "failed"}, NEW id \in Id,
           RecordResult(c, requested, id),
           requested = "sent" => call[c].request = "arrived"
    PROVE  RowsMoved
<1> DEFINE k == KeyOf(c)
           m == k[1]
<1>1. /\ k \in DOMAIN attempt /\ m \in DOMAIN message /\ message[m] \in MessageRow
  BY DEF TypeOK
<1>2. /\ DOMAIN attempt' = DOMAIN attempt /\ DOMAIN message' = DOMAIN message
      /\ \A n \in DOMAIN message : message'[n].current = message[n].current
      /\ \A l \in DOMAIN attempt \ {k} : attempt'[l] = attempt[l]
      /\ \A n \in DOMAIN message \ {m} : message'[n] = message[n]
  BY RecordFacts
<1>3. CASE UNCHANGED <<message, attempt>>
  BY <1>3, StillRows
<1>4. CASE ~UNCHANGED <<message, attempt>>
  <2>1. /\ attempt'[k].dispatch =
              IF message'[m].delivery = "failed" THEN "failed" ELSE "succeeded"
        /\ attempt'[k].status = attempt'[k].dispatch
        /\ message'[m].delivery = FinalStatus(m, requested)
        /\ message'[m].delivery \in {"sent", "failed"}
    BY <1>4, RecordFacts
  <2>2. message'[m].delivery = "sent" => message[m].delivery = "sent" \/ Copies(m) # {}
    <3>1. CASE requested = "sent"
      BY <3>1 DEF Copies, MessageOf, KeyOf
    <3>2. CASE requested = "failed"
      BY <2>1, <3>2 DEF FinalStatus
    <3> QED
      BY <3>1, <3>2
  <2>3. message[m].delivery = "sent" => message'[m].delivery = "sent"
    BY <2>1 DEF FinalStatus
  <2>4. ~Reserved(k)
    BY DEF RecordResult, Unlocked, Reserved
  <2>5. attempt'[k].status # "pending" /\ attempt'[k].dispatch \in {"failed", "succeeded"}
    BY <2>1
  <2>6. AttemptMoved(k) /\ MessageMoved(m)
    BY <2>1, <2>2, <2>3, <2>4, <2>5 DEF AttemptMoved, MessageMoved, Settled
  <2> QED
    BY <1>1, <1>2, <2>6, OneRowMoved
<1> QED
  BY <1>3, <1>4

LEMMA DeliverRows ==
    ASSUME TypeOK, CallInv, NEW c \in Calls, Deliver(c) PROVE RowsMoved
<1>1. c \in Id /\ NoId \in Id
  BY DEF TypeOK, Id
<1>2. CASE RecordSent(c)
  <2>1. call[c].request = "arrived" /\ RecordResult(c, "sent", c)
    BY <1>2 DEF RecordSent, CallInv
  <2> QED
    BY <1>1, <2>1, RecordRows
<1>3. CASE RecordRefusal(c)
  <2>1. CASE RecordResult(c, "failed", NoId)
    BY <1>1, <2>1, RecordRows
  <2>2. CASE UNCHANGED <<message, attempt>>
    BY <2>2, StillRows
  <2> QED
    BY <1>3, <2>1, <2>2 DEF RecordRefusal
<1>4. CASE RefuseToSend(c) \/ Post(c) \/ Confirmed(c) \/ Ambiguous(c) \/ RecordThrows(c)
  BY <1>4, StillRows DEF RefuseToSend, Post, Confirmed, Ambiguous, RecordThrows
<1> QED
  BY <1>2, <1>3, <1>4, ClaimRows, MarkRows DEF Deliver

LEMMA OutsideRows ==
    ASSUME TypeOK, NEW k \in DOMAIN attempt, FailUndispatched(k) \/ Lapse(k)
    PROVE  RowsMoved
<1>1. /\ attempt[k] \in AttemptRow /\ k[1] \in DOMAIN message
      /\ message[k[1]] \in MessageRow
  BY DEF TypeOK
<1>2. /\ Lapsed(attempt[k]) \in AttemptRow /\ Lapsed(attempt[k]).dispatch = attempt[k].dispatch
      /\ Failed(attempt[k]) \in AttemptRow /\ Failed(attempt[k]).dispatch = "failed"
  BY <1>1, AttemptUpdates DEF Id
<1>3. CASE FailUndispatched(k)
  <2>1. "failed" \in DeliveryStatus
    BY DEF DeliveryStatus
  <2>2. /\ Shown(message[k[1]], "failed") \in MessageRow
        /\ Shown(message[k[1]], "failed").current = message[k[1]].current
        /\ Shown(message[k[1]], "failed").delivery = "failed"
    BY <1>1, <2>1, MessageUpdates DEF Id
  <2>3. /\ SetAttempt(k, Failed(attempt[k]))
        /\ message' = [message EXCEPT ![k[1]] = Shown(message[k[1]], "failed")]
        /\ attempt[k].dispatch = "ready" /\ message[k[1]].delivery = "pending"
    BY <1>3 DEF FailUndispatched, Fail, Failed, Shown, Undispatched
  <2>4. /\ DOMAIN attempt' = DOMAIN attempt /\ attempt'[k] = Failed(attempt[k])
        /\ \A l \in DOMAIN attempt \ {k} : attempt'[l] = attempt[l]
    BY <1>2, <2>3, SetAttemptFacts
  <2>5. /\ DOMAIN message' = DOMAIN message
        /\ message'[k[1]] = Shown(message[k[1]], "failed")
        /\ \A n \in DOMAIN message \ {k[1]} : message'[n] = message[n]
    BY <1>1, <2>3
  <2>6. AttemptMoved(k) /\ MessageMoved(k[1])
    BY <1>2, <2>2, <2>3, <2>4, <2>5 DEF AttemptMoved, MessageMoved
  <2> QED
    BY <2>2, <2>4, <2>5, <2>6, OneRowMoved
<1>4. CASE Lapse(k)
  <2>1. /\ SetAttempt(k, Lapsed(attempt[k])) /\ UNCHANGED message
        /\ attempt[k].dispatch = "leased"
    BY <1>4 DEF Lapse, Lapsed
  <2> QED
    BY <1>2, <2>1, AttemptOnly DEF AttemptMoved
<1> QED
  BY <1>3, <1>4

LEMMA ConfirmSentRows ==
    ASSUME TypeOK, NEW m \in DOMAIN message, NEW id \in Calls, ConfirmSent(m, id)
    PROVE  RowsMoved
<1> DEFINE k == Current(m)
<1>1. /\ k \in DOMAIN attempt /\ attempt[k] \in AttemptRow
      /\ message[m] \in MessageRow /\ k[1] = m /\ k[1] \in DOMAIN message
  BY DEF TypeOK, Current
<1>2. CASE UNCHANGED <<message, attempt>>
  BY <1>2, StillRows
<1>3. CASE ~UNCHANGED <<message, attempt>>
  <2>1. id \in Id /\ "sent" \in DeliveryStatus /\ Copies(m) # {}
    BY DEF TypeOK, Id, DeliveryStatus, ConfirmSent, Confirmable
  <2>2. /\ Sent(attempt[k], id) \in AttemptRow /\ Sent(attempt[k], id).dispatch = "succeeded"
        /\ Carried(message[m], "sent", id) \in MessageRow
        /\ Carried(message[m], "sent", id).delivery = "sent"
        /\ Carried(message[m], "sent", id).current = message[m].current
    <3>1. Sent(attempt[k], id) \in AttemptRow /\ Sent(attempt[k], id).dispatch = "succeeded"
      BY ZenonT(40), <1>1, <2>1, AttemptUpdates
    <3> QED
      BY <1>1, <2>1, <3>1, MessageUpdates
  <2>3. /\ SetAttempt(k, Sent(attempt[k], id)) /\ Awaiting(k) /\ Unlocked(k)
        /\ message' = [message EXCEPT ![m] = Carried(message[m], "sent", id)]
    <3>1. MarkSent(k, id) /\ Awaiting(k) /\ Unlocked(k)
      BY <1>3 DEF ConfirmSent, Confirmable
    <3> QED
      BY <1>1, <3>1 DEF MarkSent, Sent, Carried
  <2>4. ~Reserved(k) /\ attempt[k].dispatch \in {"unknown", "leased"}
    BY <2>3 DEF Reserved, Unlocked, Awaiting
  <2>5. /\ DOMAIN attempt' = DOMAIN attempt /\ attempt'[k] = Sent(attempt[k], id)
        /\ \A l \in DOMAIN attempt \ {k} : attempt'[l] = attempt[l]
    BY <1>1, <2>2, <2>3, SetAttemptFacts
  <2>6. /\ DOMAIN message' = DOMAIN message
        /\ message'[m] = Carried(message[m], "sent", id)
        /\ \A n \in DOMAIN message \ {m} : message'[n] = message[n]
    BY <2>3
  <2>7. AttemptMoved(k) /\ MessageMoved(m)
    BY <1>1, <2>1, <2>2, <2>4, <2>5, <2>6 DEF AttemptMoved, MessageMoved
  <2> QED
    BY <1>1, <2>2, <2>5, <2>6, <2>7, OneRowMoved
<1> QED
  BY <1>2, <1>3

-----------------------------------------------------------------------------
(* One copy at most, and what is shown as sent has one *)

\* An attempt that confirmed-not-sent closed: the message has a newer one.
Superseded(k) == k[2] < message[k[1]].current

\* The attempts of a message end before the next one opens, and none of their calls
\* has a request that arrived or still can.
AttemptInv ==
    /\ \A k \in DOMAIN attempt : k[2] <= message[k[1]].current
    /\ \A k \in DOMAIN attempt : Superseded(k) => Settled(k)
    /\ \A c \in Calls : Superseded(KeyOf(c)) =>
          /\ call[c].at \notin {"reserving", "sending"}
          /\ call[c].request \in {"none", "lost"}

DeliveryInv == CallInv /\ AttemptInv /\ SentIsTrue

LEMMA CopiesGrow ==
    ASSUME CallInv, CallsMoved, NEW m PROVE Copies(m) \subseteq Copies(m)'
<1> SUFFICES ASSUME NEW c \in Copies(m) PROVE c \in Copies(m)'
  OBVIOUS
<1>1. c \in Calls /\ c \in Calls' /\ Moved(c) /\ call[c].request = "arrived"
      /\ call[c].key[1] = m
  BY DEF CallsMoved, Copies, MessageOf
<1>2. call'[c].request = "arrived"
  BY <1>1 DEF Moved, CallInv, Early
<1> QED
  BY <1>1, <1>2 DEF Copies, MessageOf, Moved

\* The steps that open no message and no attempt.
LEMMA MovedAttemptInv ==
    ASSUME TypeOK, CallInv, AttemptInv, CallsMoved, RowsMoved PROVE AttemptInv'
<1>1. \A k \in DOMAIN attempt : Superseded(k)' <=> Superseded(k)
  BY DEF RowsMoved, Superseded, TypeOK
<1>2. ASSUME NEW k \in DOMAIN attempt, Superseded(k) PROVE Settled(k)'
  <2>1. Settled(k) /\ ~Reserved(k)
    BY <1>2 DEF AttemptInv, Reserved
  <2>2. AttemptMoved(k) /\ k \in DOMAIN attempt'
    BY DEF RowsMoved
  <2> QED
    BY <2>1, <2>2 DEF AttemptMoved, Settled
<1>3. ASSUME NEW c \in Calls', Superseded(KeyOf(c))'
      PROVE  /\ call'[c].at \notin {"reserving", "sending"}
             /\ call'[c].request \in {"none", "lost"}
  <2>1. CASE c \notin Calls
    BY <2>1 DEF CallsMoved
  <2>2. CASE c \in Calls
    <3>1. Moved(c) /\ KeyOf(c)' = KeyOf(c) /\ KeyOf(c) \in DOMAIN attempt
      BY <2>2 DEF CallsMoved, Moved, KeyOf, TypeOK
    <3>2. /\ call[c].at \notin {"reserving", "sending"}
          /\ call[c].request \in {"none", "lost"} /\ ~Claimable(KeyOf(c))
      BY <1>1, <1>3, <2>2, <3>1 DEF AttemptInv, Superseded, Settled, Claimable, Unclaimed
    <3> QED
      BY <3>1, <3>2 DEF Moved
  <2> QED
    BY <2>1, <2>2
<1>4. \A k \in DOMAIN attempt' : k[2] <= message'[k[1]].current
  BY DEF AttemptInv, RowsMoved, TypeOK
<1> QED
  BY <1>1, <1>2, <1>3, <1>4 DEF AttemptInv, RowsMoved

LEMMA MovedSentIsTrue ==
    ASSUME TypeOK, CallInv, SentIsTrue, CallsMoved, RowsMoved PROVE SentIsTrue'
<1>1. \A m \in DOMAIN message : Copies(m) # {} => Copies(m)' # {}
  BY CopiesGrow
<1>2. \A m \in DOMAIN message' : message'[m].delivery = "sent" => Copies(m)' # {}
  BY <1>1 DEF RowsMoved, MessageMoved, SentIsTrue
<1>3. ASSUME NEW k \in DOMAIN attempt', attempt'[k].dispatch = "succeeded"
      PROVE  Copies(k[1])' # {}
  <2>1. k \in DOMAIN attempt /\ AttemptMoved(k) /\ k[1] \in DOMAIN message
    BY DEF RowsMoved, TypeOK
  <2> QED
    BY <1>1, <1>3, <2>1 DEF AttemptMoved, SentIsTrue
<1>4. ASSUME NEW c \in Calls', call'[c].at = "delivered" PROVE Copies(MessageOf(c))' # {}
  <2>1. c \in Calls /\ Moved(c)
    BY <1>4 DEF CallsMoved
  <2>2. MessageOf(c)' = MessageOf(c) /\ MessageOf(c) \in DOMAIN message
        /\ KeyOf(c) \in DOMAIN attempt /\ KeyOf(c)[1] = MessageOf(c)
    BY <2>1 DEF MessageOf, Moved, KeyOf, TypeOK
  <2>3. Copies(MessageOf(c)) # {}
    <3>1. CASE call[c].at = "delivered"
      BY <2>1, <3>1 DEF SentIsTrue
    <3>2. CASE call[c].at \in Recording
      BY <2>1, <3>2 DEF CallInv, Copies
    <3>3. CASE attempt[KeyOf(c)].dispatch = "succeeded"
      BY <2>2, <3>3 DEF SentIsTrue
    <3> QED
      BY <1>4, <2>1, <3>1, <3>2, <3>3 DEF Moved
  <2>4. PICK m \in DOMAIN message : m = MessageOf(c)
    BY <2>2
  <2>5. Copies(m)' # {}
    BY <1>1, <2>3, <2>4
  <2> QED
    BY <2>2, <2>4, <2>5 DEF Copies
<1> QED
  BY <1>2, <1>3, <1>4 DEF SentIsTrue

\* A new message, and a new attempt of one whose attempt is closed.
LEMMA CreateDeliveryInv ==
    ASSUME TypeOK, DeliveryInv, NEW m \in Message, Create(m) PROVE DeliveryInv'
<1>1. /\ m \notin DOMAIN message /\ DOMAIN message' = DOMAIN message \cup {m}
      /\ message'[m] = [delivery |-> "pending", provider |-> NoId, current |-> 1]
      /\ \A n \in DOMAIN message : message'[n] = message[n]
      /\ DOMAIN attempt' = DOMAIN attempt \cup {<<m, 1>>} /\ attempt'[<<m, 1>>] = NewAttempt
      /\ UNCHANGED call
  BY DEF Create
<1>2. \A k \in DOMAIN attempt : /\ k # <<m, 1>> /\ k[1] \in DOMAIN message
                                /\ attempt'[k] = attempt[k]
  BY <1>1 DEF TypeOK, Create
<1>3. CallInv'
  BY <1>1 DEF DeliveryInv, CallInv, Calls
<1>4. \A k \in DOMAIN attempt : Superseded(k)' <=> Superseded(k)
  BY <1>1, <1>2 DEF Superseded
<1>5. ~Superseded(<<m, 1>>)' /\ <<m, 1>>[2] <= message'[<<m, 1>>[1]].current
  BY <1>1 DEF Superseded
<1>6. AttemptInv'
  <2>1. \A k \in DOMAIN attempt' : k[2] <= message'[k[1]].current
    BY <1>1, <1>2, <1>5 DEF DeliveryInv, AttemptInv
  <2>2. \A k \in DOMAIN attempt' : Superseded(k)' => Settled(k)'
    BY <1>1, <1>2, <1>4, <1>5 DEF DeliveryInv, AttemptInv, Settled
  <2>3. \A c \in Calls' : Superseded(KeyOf(c))' => Superseded(KeyOf(c))
    BY <1>1, <1>4 DEF Calls, KeyOf, TypeOK, Superseded
  <2> QED
    BY <1>1, <2>1, <2>2, <2>3 DEF DeliveryInv, AttemptInv, Calls
<1>7. SentIsTrue'
  <2>1. \A n : Copies(n)' = Copies(n)
    BY <1>1 DEF Copies, Calls, MessageOf
  <2>2. \A n \in DOMAIN message' : message'[n].delivery = "sent" => Copies(n)' # {}
    BY <1>1, <2>1 DEF DeliveryInv, SentIsTrue
  <2>3. \A k \in DOMAIN attempt' : attempt'[k].dispatch = "succeeded" => Copies(k[1])' # {}
    BY <1>1, <1>2, <2>1 DEF DeliveryInv, SentIsTrue, NewAttempt
  <2>4. \A c \in Calls' : call'[c].at = "delivered" => Copies(MessageOf(c))' # {}
    BY <1>1 DEF DeliveryInv, SentIsTrue, Calls, Copies, MessageOf
  <2> QED
    BY <2>2, <2>3, <2>4 DEF SentIsTrue
<1> QED
  BY <1>3, <1>6, <1>7 DEF DeliveryInv

LEMMA ReopenDeliveryInv ==
    ASSUME TypeOK, DeliveryInv, NEW m \in DOMAIN message, ConfirmNotSent(m)
    PROVE  DeliveryInv'
<1>0. PICK k, next : k = Current(m) /\ next = Successor(m)
  OBVIOUS
<1>1. /\ k \in DOMAIN attempt /\ attempt[k] \in AttemptRow /\ k[1] = m
      /\ message[m] \in MessageRow /\ message[m].current \in Nat
      /\ k[2] = message[m].current /\ next[1] = m /\ next[2] = message[m].current + 1
      /\ k \in Message \X Generation /\ next # k
  BY <1>0 DEF TypeOK, Current, Successor, MessageRow, Generation, Key
<1>2. /\ DOMAIN attempt' = DOMAIN attempt \cup {next} /\ attempt'[next] = NewAttempt
      /\ attempt'[k] = Closed(attempt[k])
      /\ \A l \in DOMAIN attempt \ {k, next} : attempt'[l] = attempt[l]
  BY <1>0, <1>1 DEF ConfirmNotSent, ReopenedKeys, Closed
<1>3. /\ message' = [message EXCEPT ![m] = Reopened(message[m])] /\ UNCHANGED call
  BY DEF ConfirmNotSent, Reopened
<1>4. /\ Reopened(message[m]).delivery = "pending"
      /\ Reopened(message[m]).current = message[m].current + 1
  BY <1>1 DEF MessageRow, Reopened
<1>5. /\ DOMAIN message' = DOMAIN message
      /\ message'[m].delivery = "pending" /\ message'[m].current = message[m].current + 1
      /\ \A n \in DOMAIN message \ {m} : message'[n] = message[n]
  BY <1>3, <1>4
<1>6. \A l \in DOMAIN attempt : l[1] = m /\ l[2] = message[m].current => l = k
  BY <1>0 DEF TypeOK, Key, Current
<1>7. ASSUME NEW l \in DOMAIN attempt, Superseded(l)' PROVE Superseded(l) \/ l = k
  <2>1. /\ l[2] <= message[l[1]].current /\ l[1] \in DOMAIN message /\ l[2] \in Nat
        /\ l[2] < message'[l[1]].current /\ message[l[1]].current \in Nat
    BY <1>7 DEF Superseded, DeliveryInv, AttemptInv, TypeOK, Key, Generation, MessageRow
  <2>2. CASE l[1] # m
    BY <1>5, <2>1, <2>2 DEF Superseded
  <2>3. CASE l[1] = m
    BY <1>5, <1>6, <2>1, <2>3 DEF Superseded
  <2> QED
    BY <2>2, <2>3
<1>8. next \notin DOMAIN attempt
  BY <1>1 DEF DeliveryInv, AttemptInv
<1>9. ~Superseded(next)' /\ next[2] <= message'[next[1]].current
  BY <1>1, <1>5 DEF Superseded
<1>10. Closed(attempt[k]).status = "failed" /\ Closed(attempt[k]).dispatch = "failed"
  BY <1>1 DEF Closed, AttemptRow
<1>11. CallInv'
  BY <1>3 DEF DeliveryInv, CallInv, Calls
<1>12. AttemptInv'
  <2>1. ASSUME NEW l \in DOMAIN attempt PROVE l[2] <= message'[l[1]].current
    <3>1. /\ l[2] <= message[l[1]].current /\ l[1] \in DOMAIN message /\ l[2] \in Nat
          /\ message[l[1]].current \in Nat
      BY DEF DeliveryInv, AttemptInv, TypeOK, Key, Generation, MessageRow
    <3> QED
      BY <1>5, <3>1
  <2>2. \A l \in DOMAIN attempt' : Superseded(l)' => Settled(l)'
    <3>1. \A l \in DOMAIN attempt \ {k} : Superseded(l)' => Settled(l)'
      BY <1>2, <1>7, <1>8 DEF DeliveryInv, AttemptInv, Settled
    <3>2. Settled(k)'
      BY <1>1, <1>2, <1>10 DEF Settled
    <3> QED
      BY <1>2, <1>9, <3>1, <3>2
  <2>3. \A c \in Calls : Superseded(KeyOf(c))' => Superseded(KeyOf(c)) \/ KeyOf(c) = k
    BY <1>3, <1>7 DEF KeyOf, TypeOK, Superseded
  <2>4. \A c \in Calls : KeyOf(c) = k =>
           /\ call[c].at \notin {"reserving", "sending"}
           /\ call[c].request \in {"none", "lost"}
    BY <1>0 DEF ConfirmNotSent, NeverSent, Unlocked
  <2> QED
    BY <1>2, <1>3, <1>9, <2>1, <2>2, <2>3, <2>4 DEF DeliveryInv, AttemptInv, Calls
<1>13. SentIsTrue'
  <2>1. \A n : Copies(n)' = Copies(n)
    BY <1>3 DEF Copies, Calls, MessageOf
  <2>2. \A n \in DOMAIN message' : message'[n].delivery = "sent" => Copies(n)' # {}
    BY <1>5, <2>1 DEF DeliveryInv, SentIsTrue
  <2>3. \A l \in DOMAIN attempt' : attempt'[l].dispatch = "succeeded" => Copies(l[1])' # {}
    BY <1>2, <1>8, <1>10, <2>1 DEF DeliveryInv, SentIsTrue, NewAttempt
  <2>4. \A c \in Calls' : call'[c].at = "delivered" => Copies(MessageOf(c))' # {}
    BY <1>3 DEF DeliveryInv, SentIsTrue, Calls, Copies, MessageOf
  <2> QED
    BY <2>2, <2>3, <2>4 DEF SentIsTrue
<1> QED
  BY <1>11, <1>12, <1>13 DEF DeliveryInv

\* Every other step moves calls and rows only.
LEMMA NextRows ==
    ASSUME TypeOK, CallInv, [Next]_dispatchVars
    PROVE  \/ RowsMoved
           \/ \E m \in Message : Create(m)
           \/ \E m \in DOMAIN message : ConfirmNotSent(m)
<1>1. CASE UNCHANGED <<message, attempt>>
  BY <1>1, StillRows
<1>2. CASE Next /\ ~UNCHANGED <<message, attempt>>
  <2>1. \/ \E m \in Message : Create(m)
        \/ \E c \in Calls : Deliver(c)
        \/ \E k \in DOMAIN attempt : FailUndispatched(k) \/ Lapse(k)
        \/ \E m \in DOMAIN message : Reconcile(m)
    BY <1>2 DEF Next, Begin, Transmit, Echo, Crash
  <2> QED
    BY <2>1, DeliverRows, OutsideRows, ConfirmSentRows DEF Reconcile
<1> QED
  BY <1>1, <1>2 DEF dispatchVars

LEMMA NextDeliveryInv == TypeOK /\ DeliveryInv /\ [Next]_dispatchVars => DeliveryInv'
<1> SUFFICES ASSUME TypeOK, DeliveryInv, [Next]_dispatchVars PROVE DeliveryInv'
  OBVIOUS
<1>1. CallsMoved /\ CallInv'
  BY NextMoved, NextCallInv DEF DeliveryInv
<1>2. CASE RowsMoved
  BY <1>1, <1>2, MovedAttemptInv, MovedSentIsTrue DEF DeliveryInv
<1> QED
  BY <1>2, NextRows, CreateDeliveryInv, ReopenDeliveryInv DEF DeliveryInv

LEMMA SpecDeliveryInv == Spec => [](TypeOK /\ ClaimInv /\ DeliveryInv)
<1>1. Init => DeliveryInv
  BY DEF Init, DeliveryInv, CallInv, AttemptInv, SentIsTrue, Calls
<1> QED
  BY <1>1, InitTypeOK, NextTypeOK, NextDeliveryInv, SpecClaimInv, PTL DEF Spec

\* Whatever is shown as sent has a copy on the customer's phone behind it.
THEOREM SentHasCopy == Spec => []SentIsTrue
<1>1. DeliveryInv => SentIsTrue
  BY DEF DeliveryInv
<1> QED
  BY <1>1, SpecDeliveryInv, PTL

\* Two requests of a message that can both arrive are one request: they are of the
\* attempt in use, which is sent by one caller.
LEMMA OneLiveRequest ==
    ASSUME TypeOK, ClaimInv, DeliveryInv, NEW c \in Calls, NEW d \in Calls,
           MessageOf(c) = MessageOf(d),
           call[c].request \in {"flying", "arrived"}, call[d].request \in {"flying", "arrived"}
    PROVE  c = d
<1>1. ~Superseded(KeyOf(c)) /\ ~Superseded(KeyOf(d))
  BY DEF DeliveryInv, AttemptInv
<1>2. /\ KeyOf(c) \in Message \X Generation /\ KeyOf(d) \in Message \X Generation
      /\ KeyOf(c) \in DOMAIN attempt /\ KeyOf(d) \in DOMAIN attempt
      /\ KeyOf(c)[1] = MessageOf(c) /\ KeyOf(d)[1] = MessageOf(c)
      /\ message[MessageOf(c)].current \in Nat
  BY DEF TypeOK, Key, KeyOf, MessageOf, MessageRow, Generation
<1>3. KeyOf(c)[2] = message[MessageOf(c)].current /\ KeyOf(d)[2] = message[MessageOf(c)].current
  BY <1>1, <1>2 DEF Superseded, DeliveryInv, AttemptInv, Generation
<1>4. KeyOf(c) = KeyOf(d)
  BY <1>2, <1>3
<1> QED
  BY <1>4 DEF ClaimInv, AtMostOneRequest, Posted

\* The customer never receives a message twice, reopened attempts included.
THEOREM OneCopy == Spec => []NoDuplicate
<1>1. TypeOK /\ ClaimInv /\ DeliveryInv => NoDuplicate
  BY OneLiveRequest DEF NoDuplicate
<1> QED
  BY <1>1, SpecDeliveryInv, PTL

SentKept == \A m \in DOMAIN message :
                message[m].delivery = "sent" => message'[m].delivery = "sent"

LEMMA NextKeepsSent == TypeOK /\ CallInv /\ [Next]_dispatchVars => SentKept
<1> SUFFICES ASSUME TypeOK, CallInv, [Next]_dispatchVars PROVE SentKept
  OBVIOUS
<1>1. CASE RowsMoved
  BY <1>1 DEF RowsMoved, MessageMoved, SentKept
<1>2. ASSUME NEW m \in Message, Create(m) PROVE SentKept
  BY <1>2 DEF Create, SentKept
<1>3. ASSUME NEW m \in DOMAIN message, ConfirmNotSent(m) PROVE SentKept
  <2>1. message[m].delivery # "sent"
    BY <1>3 DEF ConfirmNotSent, Reopenable, ConfigFailure, Current
  <2> QED
    BY <1>3, <2>1 DEF ConfirmNotSent, TypeOK, SentKept
<1> QED
  BY <1>1, <1>2, <1>3, NextRows

\* A message that is sent stays sent.
THEOREM SentStays == Spec => SentIsFinal
<1>1. TypeOK /\ DeliveryInv /\ [Next]_dispatchVars => SentKept
  BY NextKeepsSent DEF DeliveryInv
<1>2. SentKept => \A m \in DOMAIN message :
                     message[m].delivery = "sent" => message'[m].delivery = "sent"
  BY DEF SentKept
<1> QED
  BY <1>1, <1>2, SpecDeliveryInv, PTL DEF SentIsFinal, Spec

-----------------------------------------------------------------------------
(* A call that ends well leaves a message that is shown as sent *)

\* An attempt that succeeded, a provider id recorded as its result and a call that
\* reports the delivery: each finds the message shown as sent.
ShownInv ==
    /\ \A k \in DOMAIN attempt :
          attempt[k].dispatch = "succeeded" => message[k[1]].delivery = "sent"
    /\ \A k \in DOMAIN results : results[k] # NoId => message[k[1]].delivery = "sent"
    /\ \A c \in Calls : call[c].at = "delivered" => message[MessageOf(c)].delivery = "sent"

\* A result is recorded once, and one that names a provider id with a sent message.
ResultsMoved ==
    \A k \in DOMAIN results' :
        \/ k \in DOMAIN results /\ results'[k] = results[k]
        \/ results'[k] # NoId => message'[k[1]].delivery = "sent"

LEMMA RecordShows ==
    ASSUME TypeOK, NEW c \in Calls, NEW requested \in {"sent", "failed"}, NEW id \in Id,
           RecordResult(c, requested, id), id # NoId => requested = "sent"
    PROVE  /\ ResultsMoved
           /\ requested = "sent" => \/ message'[MessageOf(c)].delivery = "sent"
                                    \/ KeyOf(c) \in DOMAIN results /\ results[KeyOf(c)] = id
<1> DEFINE k == KeyOf(c)
           m == k[1]
<1>1. CASE k \in DOMAIN results
  BY <1>1 DEF RecordResult, ResultsMoved
<1>2. CASE k \notin DOMAIN results
  <2>1. /\ results' = [l \in DOMAIN results \cup {k} |-> IF l = k THEN id ELSE results[l]]
        /\ message' = [message EXCEPT ![m].delivery = FinalStatus(m, requested),
                                      ![m].provider = IF id = NoId THEN @ ELSE id]
    BY <1>2 DEF RecordResult, WriteResult
  <2>2. m \in DOMAIN message /\ message[m] \in MessageRow
    BY DEF TypeOK
  <2>3. requested = "sent" => message'[m].delivery = "sent"
    BY <2>1, <2>2 DEF FinalStatus, MessageRow
  <2>4. ResultsMoved
    BY <2>1, <2>3 DEF ResultsMoved
  <2> QED
    BY <2>3, <2>4 DEF MessageOf, KeyOf
<1> QED
  BY <1>1, <1>2

LEMMA NextResults == TypeOK /\ [Next]_dispatchVars => ResultsMoved
<1> SUFFICES ASSUME TypeOK, [Next]_dispatchVars PROVE ResultsMoved
  OBVIOUS
<1>1. CASE UNCHANGED results
  BY <1>1 DEF ResultsMoved
<1>2. ASSUME NEW c \in Calls, RecordResult(c, "failed", NoId) \/ RecordResult(c, "sent", c)
      PROVE  ResultsMoved
  <2>1. c \in Id /\ NoId \in Id
    BY DEF TypeOK, Id
  <2> QED
    BY <1>2, <2>1, RecordShows
<1>3. CASE Next /\ ~UNCHANGED results
  <2>1. PICK c \in Calls : RecordSent(c) \/ RecordRefusal(c)
    BY <1>3 DEF Next, Create, Begin, Transmit, Echo, Crash, FailUndispatched, Lapse,
         Reconcile, ConfirmSent, Confirmable, ConfirmNotSent, Deliver, ClaimRead,
         ClaimWrite, ClaimFails, RefuseToSend, Post, Confirmed, Ambiguous, MarkUnknown, MarkFails, RecordThrows,
         GiveUp
  <2> QED
    BY <1>1, <1>2, <2>1 DEF RecordSent, RecordRefusal
<1> QED
  BY <1>1, <1>3 DEF dispatchVars

LEMMA NextShownInv ==
    TypeOK /\ DeliveryInv /\ ShownInv /\ [Next]_dispatchVars => ShownInv'
<1> SUFFICES ASSUME TypeOK, DeliveryInv, ShownInv, [Next]_dispatchVars PROVE ShownInv'
  OBVIOUS
<1>1. CallInv /\ SentKept /\ ResultsMoved /\ CallsMoved
  BY NextKeepsSent, NextResults, NextMoved DEF DeliveryInv
<1>2. ASSUME NEW k \in DOMAIN attempt', attempt'[k].dispatch = "succeeded"
      PROVE  message'[k[1]].delivery = "sent"
  <2>1. ASSUME k \in DOMAIN attempt, attempt[k].dispatch = "succeeded"
        PROVE  message'[k[1]].delivery = "sent"
    BY <1>1, <2>1 DEF ShownInv, SentKept, TypeOK
  <2>2. CASE RowsMoved
    BY <1>2, <2>1, <2>2 DEF RowsMoved, AttemptMoved
  <2>3. ASSUME NEW m \in Message, Create(m) PROVE message'[k[1]].delivery = "sent"
    BY <1>2, <2>1, <2>3 DEF Create, NewAttempt
  <2>4. ASSUME NEW m \in DOMAIN message, ConfirmNotSent(m)
        PROVE  message'[k[1]].delivery = "sent"
    <3>1. /\ k \in DOMAIN attempt \cup {Successor(m)}
          /\ attempt'[k] = IF k = Successor(m) THEN NewAttempt
                          ELSE IF k = Current(m) THEN Closed(attempt[k]) ELSE attempt[k]
      BY <2>4 DEF ConfirmNotSent, ReopenedKeys, Closed
    <3>2. k = Current(m) => k \in DOMAIN attempt /\ attempt[k] \in AttemptRow
      BY DEF TypeOK
    <3>3. k = Current(m) => Closed(attempt[k]).dispatch = "failed"
      BY <3>2 DEF Closed, AttemptRow
    <3> QED
      BY <1>2, <2>1, <3>1, <3>3 DEF NewAttempt
  <2> QED
    BY <1>1, <2>2, <2>3, <2>4, NextRows
<1>3. ASSUME NEW k \in DOMAIN results', results'[k] # NoId
      PROVE  message'[k[1]].delivery = "sent"
  <2>1. k \in DOMAIN results => k[1] \in DOMAIN message
    BY DEF TypeOK
  <2> QED
    BY <1>1, <1>3, <2>1 DEF ResultsMoved, ShownInv, SentKept
<1>4. ASSUME NEW c \in Calls', call'[c].at = "delivered"
      PROVE  message'[MessageOf(c)'].delivery = "sent"
  <2>1. c \in Calls /\ Moved(c)
    BY <1>1, <1>4 DEF CallsMoved
  <2>2. /\ MessageOf(c)' = MessageOf(c) /\ MessageOf(c) \in DOMAIN message
        /\ KeyOf(c) \in DOMAIN attempt /\ KeyOf(c)[1] = MessageOf(c)
        /\ c \in Id /\ c # NoId
    BY <2>1, DispatchAssumption DEF MessageOf, Moved, KeyOf, TypeOK, Id
  <2>3. CASE message[MessageOf(c)].delivery = "sent"
    BY <1>1, <2>2, <2>3 DEF SentKept
  <2>4. CASE call[c].at = "delivered" \/ attempt[KeyOf(c)].dispatch = "succeeded"
    BY <2>1, <2>2, <2>3, <2>4 DEF ShownInv
  <2>5. CASE RecordResult(c, "sent", c)
    <3>1. \/ message'[MessageOf(c)].delivery = "sent"
          \/ KeyOf(c) \in DOMAIN results /\ results[KeyOf(c)] = c
      BY <2>1, <2>2, <2>5, RecordShows
    <3> QED
      BY <2>2, <2>3, <3>1 DEF ShownInv
  <2> QED
    BY <1>4, <2>1, <2>4, <2>5 DEF Moved
<1> QED
  BY <1>2, <1>3, <1>4 DEF ShownInv

LEMMA SpecShownInv == Spec => []ShownInv
<1>1. Init => ShownInv
  BY DEF Init, ShownInv, Calls
<1> QED
  BY <1>1, SpecDeliveryInv, NextShownInv, PTL DEF Spec

-----------------------------------------------------------------------------
(* An unknown outcome is not sent again *)

\* What a reservation of the attempt found is what its write will find, unless the
\* attempt was failed without a result meanwhile.
ReservedInv ==
    \A c \in Calls : call[c].at = "reserving" =>
        attempt[KeyOf(c)].dispatch \in {"ready", "failed"}

LEMMA NextReservedInv ==
    TypeOK /\ ClaimInv /\ DeliveryInv /\ ReservedInv /\ [Next]_dispatchVars => ReservedInv'
<1> SUFFICES ASSUME TypeOK, ClaimInv, DeliveryInv, ReservedInv, [Next]_dispatchVars,
                    NEW c \in Calls', call'[c].at = "reserving"
             PROVE  attempt'[KeyOf(c)'].dispatch \in {"ready", "failed"}
  BY DEF ReservedInv
<1>1. CallsMoved /\ ClaimInv'
  BY NextMoved, NextClaimInv
<1>2. /\ c \in Calls /\ Moved(c) /\ KeyOf(c)' = KeyOf(c) /\ KeyOf(c) \in DOMAIN attempt
      /\ KeyOf(c) \notin claims'
  BY <1>1 DEF CallsMoved, Moved, KeyOf, ClaimInv, TypeOK
<1>3. CASE call[c].at # "reserving"
  BY <1>2, <1>3 DEF Moved, Claimable
<1>4. CASE call[c].at = "reserving"
  <2>1. PICK k \in DOMAIN attempt : k = KeyOf(c)
    BY <1>2
  <2>2. attempt[k].dispatch \in {"ready", "failed"} /\ Reserved(k)
    BY <1>2, <1>4, <2>1 DEF ReservedInv, Reserved
  <2>3. CASE RowsMoved
    BY <1>2, <2>1, <2>2, <2>3 DEF RowsMoved, AttemptMoved
  <2>4. ASSUME NEW m \in Message, Create(m) PROVE attempt'[k] = attempt[k]
    BY <2>4 DEF Create, TypeOK
  <2>5. ASSUME NEW m \in DOMAIN message, ConfirmNotSent(m) PROVE attempt'[k] = attempt[k]
    <3>1. k # Current(m)
      BY <1>2, <1>4, <2>1, <2>5 DEF ConfirmNotSent, Unlocked
    <3>2. k # Successor(m)
      BY DEF DeliveryInv, AttemptInv, Successor, TypeOK, MessageRow, Generation
    <3> QED
      BY <2>5, <3>1, <3>2 DEF ConfirmNotSent, ReopenedKeys
  <2> QED
    BY <1>2, <2>1, <2>2, <2>3, <2>4, <2>5, NextRows DEF DeliveryInv
<1> QED
  BY <1>3, <1>4

\* An attempt whose outcome is unknown is never offered for sending again.
THEOREM UnknownIsKept == Spec => UnknownIsNotResent
<1> DEFINE Kept == \A k \in DOMAIN attempt :
                      attempt[k].dispatch = "unknown"
                        => attempt'[k].dispatch \notin {"ready", "leased"}
<1>1. TypeOK /\ DeliveryInv /\ ReservedInv /\ [Next]_dispatchVars => Kept
  <2> SUFFICES ASSUME TypeOK, DeliveryInv, ReservedInv, [Next]_dispatchVars,
                      NEW k \in DOMAIN attempt, attempt[k].dispatch = "unknown"
               PROVE  attempt'[k].dispatch \notin {"ready", "leased"}
    OBVIOUS
  <2>1. ~Reserved(k)
    BY DEF Reserved, ReservedInv
  <2>2. CASE RowsMoved
    BY <2>1, <2>2 DEF RowsMoved, AttemptMoved
  <2>3. ASSUME NEW m \in Message, Create(m) PROVE attempt'[k] = attempt[k]
    BY <2>3 DEF Create, TypeOK
  <2>4. ASSUME NEW m \in DOMAIN message, ConfirmNotSent(m)
        PROVE  attempt'[k].dispatch \notin {"ready", "leased"}
    <3>1. k # Successor(m)
      BY DEF DeliveryInv, AttemptInv, Successor, TypeOK, MessageRow, Generation
    <3>2. k \in ReopenedKeys(m)
      BY DEF ReopenedKeys
    <3>3. CASE k = Current(m)
      <4>1. attempt'[k] = Closed(attempt[k])
        BY <2>4, <3>1, <3>2, <3>3 DEF ConfirmNotSent, Closed
      <4>2. Closed(attempt[k]).dispatch = "failed"
        BY DEF TypeOK, AttemptRow, Closed
      <4> QED
        BY <4>1, <4>2
    <3>4. CASE k # Current(m)
      BY <2>4, <3>1, <3>2, <3>4 DEF ConfirmNotSent
    <3> QED
      BY <3>3, <3>4
  <2> QED
    BY <2>2, <2>3, <2>4, NextRows DEF DeliveryInv
<1>2. Init => ReservedInv
  BY DEF Init, ReservedInv, Calls
<1> QED
  BY <1>1, <1>2, SpecDeliveryInv, NextReservedInv, PTL DEF UnknownIsNotResent, Spec

-----------------------------------------------------------------------------
(* The provider ids that the rows carry are those of copies *)

Provided(row) == row.provider # NoId => row.dispatch = "succeeded"

AttemptsProvided == \A k \in DOMAIN attempt : Provided(attempt[k])
MessagesProvided == \A m \in DOMAIN message :
    message[m].provider # NoId => message[m].provider \in Copies(m)

\* Only a result writes a provider id: an attempt that carries one succeeded, and the
\* id of a message is that of a copy of it.
ProviderInv == AttemptsProvided /\ MessagesProvided

LEMMA SetProvided ==
    ASSUME TypeOK, AttemptsProvided, NEW k \in DOMAIN attempt, NEW row,
           SetAttempt(k, row), Provided(row)
    PROVE  AttemptsProvided'
<1>1. attempt' = [attempt EXCEPT ![k] = row] /\ attempt \in [DOMAIN attempt -> AttemptRow]
  BY DEF SetAttempt, TypeOK
<1> QED
  BY <1>1 DEF AttemptsProvided, Provided

\* The rows that the steps write.
LEMMA ProvidedUpdates ==
    ASSUME NEW r \in AttemptRow, NEW id, Provided(r)
    PROVE  /\ r.dispatch \in {"leased", "unknown"} => Provided(Unknown(r))
           /\ r.dispatch \in {"ready", "failed"} => Provided(Leased(r))
           /\ Provided(Lapsed(r)) /\ Provided(Sent(r, id))
           /\ r.provider = NoId => Provided(Failed(r)) /\ Provided(Closed(r))
           /\ \A config : /\ Provided(Resulted(r, "succeeded", config, id))
                          /\ Provided(Resulted(r, "failed", config, NoId))
BY DEF AttemptRow, Provided, Unknown, Leased, Lapsed, Sent, Failed, Closed, Resulted

LEMMA RecordProvides ==
    ASSUME TypeOK, ShownInv, AttemptsProvided, NEW c \in Calls,
           RecordResult(c, "failed", NoId) \/ RecordResult(c, "sent", c)
    PROVE  AttemptsProvided'
<1> DEFINE k == KeyOf(c)
           m == k[1]
<1>1. /\ k \in DOMAIN attempt /\ m \in DOMAIN message /\ c # NoId
      /\ attempt[k] \in AttemptRow /\ message[m] \in MessageRow /\ Provided(attempt[k])
  BY DispatchAssumption DEF TypeOK, AttemptsProvided
<1>2. CASE UNCHANGED attempt
  BY <1>2 DEF AttemptsProvided
<1>3. ASSUME NEW requested \in {"sent", "failed"}, NEW id, NEW config,
             WriteResult(k, requested, id, config),
             requested = "failed" => id = NoId, requested = "sent" => id # NoId
      PROVE  AttemptsProvided'
  <2> DEFINE final == FinalStatus(m, requested)
             status == IF final = "failed" THEN "failed" ELSE "succeeded"
             owner == IF id = NoId THEN attempt[k].provider ELSE id
             row == Resulted(attempt[k], status, config /\ final = "failed", owner)
  <2>1. SetAttempt(k, row)
    BY <1>3 DEF WriteResult, Resulted
  <2>2. CASE final = "failed"
    <3>1. requested = "failed" /\ message[m].delivery # "sent"
      BY <1>3, <2>2 DEF FinalStatus
    <3>2. owner = NoId
      BY <1>1, <1>3, <3>1 DEF Provided, ShownInv
    <3>3. Provided(row)
      <4>1. row = Resulted(attempt[k], "failed", config /\ final = "failed", NoId)
        BY <2>2, <3>2
      <4> QED
        BY <1>1, <4>1, ProvidedUpdates
    <3> QED
      BY <1>1, <2>1, <3>3, SetProvided
  <2>3. CASE final # "failed"
    <3>1. row = Resulted(attempt[k], "succeeded", config /\ final = "failed", owner)
      BY <2>3
    <3>2. Provided(row)
      BY <1>1, <3>1, ProvidedUpdates
    <3> QED
      BY <1>1, <2>1, <3>2, SetProvided
  <2> QED
    BY <2>2, <2>3
<1>4. \/ UNCHANGED attempt
      \/ WriteResult(k, "failed", NoId, call[c].at = "misconfigured")
      \/ WriteResult(k, "sent", c, call[c].at = "misconfigured")
  BY DEF RecordResult
<1> QED
  BY <1>1, <1>2, <1>3, <1>4

LEMMA DeliverProvides ==
    ASSUME TypeOK, ShownInv, ReservedInv, AttemptsProvided, NEW c \in Calls, Deliver(c)
    PROVE  AttemptsProvided'
<1> DEFINE k == KeyOf(c)
<1>1. k \in DOMAIN attempt /\ attempt[k] \in AttemptRow /\ Provided(attempt[k])
  BY DEF TypeOK, AttemptsProvided
<1>2. CASE UNCHANGED attempt
  BY <1>2 DEF AttemptsProvided
<1>3. CASE SetAttempt(k, attempt[k])
  BY <1>1, <1>3, SetProvided
<1>4. CASE /\ SetAttempt(k, Unknown(attempt[k]))
           /\ attempt[k].dispatch \in {"leased", "unknown"}
  BY <1>1, <1>4, ProvidedUpdates, SetProvided
<1>5. CASE ClaimWrite(c)
  <2>1. SetAttempt(k, Leased(attempt[k])) /\ attempt[k].dispatch \in {"ready", "failed"}
    BY <1>5 DEF ClaimWrite, Leased, ReservedInv
  <2> QED
    BY <1>1, <2>1, ProvidedUpdates, SetProvided
<1>6. CASE RecordResult(c, "failed", NoId) \/ RecordResult(c, "sent", c)
  BY <1>6, RecordProvides
<1>7. CASE ClaimRead(c)
  BY <1>2, <1>3, <1>4, <1>7 DEF ClaimRead, Abandoned
<1>8. CASE MarkUnknown(c) \/ GiveUp(c)
  <2>1. \/ UNCHANGED attempt
        \/ Markable(k) /\ SetAttempt(k, Unknown(attempt[k]))
    BY Zenon, <1>8 DEF MarkUnknown, GiveUp
  <2> QED
    BY <1>2, <1>4, <2>1 DEF Markable
<1>9. CASE RecordRefusal(c) \/ RecordSent(c)
  BY <1>2, <1>6, <1>9 DEF RecordRefusal, RecordSent
<1>10. CASE \/ ClaimFails(c) \/ RefuseToSend(c) \/ Post(c) \/ Confirmed(c) \/ Ambiguous(c)
            \/ MarkFails(c) \/ RecordThrows(c)
  BY <1>2, <1>10 DEF ClaimFails, RefuseToSend, Post, Confirmed, Ambiguous, MarkFails,
                     RecordThrows
<1> QED
  BY <1>5, <1>7, <1>8, <1>9, <1>10 DEF Deliver

LEMMA NextAttemptsProvided ==
    TypeOK /\ ShownInv /\ ReservedInv /\ AttemptsProvided /\ [Next]_dispatchVars
      => AttemptsProvided'
<1> SUFFICES ASSUME TypeOK, ShownInv, ReservedInv, AttemptsProvided, [Next]_dispatchVars
             PROVE  AttemptsProvided'
  OBVIOUS
<1>1. CASE UNCHANGED attempt
  BY <1>1 DEF AttemptsProvided
<1>2. ASSUME NEW m \in Message, Create(m) PROVE AttemptsProvided'
  BY <1>2 DEF Create, AttemptsProvided, Provided, NewAttempt
<1>3. ASSUME NEW k \in DOMAIN attempt, FailUndispatched(k) \/ Lapse(k)
      PROVE  AttemptsProvided'
  <2>1. attempt[k] \in AttemptRow /\ Provided(attempt[k])
    BY DEF TypeOK, AttemptsProvided
  <2>2. CASE FailUndispatched(k)
    <3>1. SetAttempt(k, Failed(attempt[k])) /\ attempt[k].provider = NoId
      BY <2>2 DEF FailUndispatched, Fail, Failed, Undispatched
    <3> QED
      BY <2>1, <3>1, ProvidedUpdates, SetProvided
  <2>3. CASE Lapse(k)
    BY <2>1, <2>3, ProvidedUpdates, SetProvided DEF Lapse, Lapsed
  <2> QED
    BY <1>3, <2>2, <2>3
<1>4. ASSUME NEW m \in DOMAIN message, NEW id \in Calls, ConfirmSent(m, id)
      PROVE  AttemptsProvided'
  <2>1. Current(m) \in DOMAIN attempt /\ attempt[Current(m)] \in AttemptRow
        /\ Provided(attempt[Current(m)])
    BY DEF TypeOK, AttemptsProvided
  <2>2. UNCHANGED attempt \/ SetAttempt(Current(m), Sent(attempt[Current(m)], id))
    BY <1>4 DEF ConfirmSent, MarkSent, Sent
  <2> QED
    BY <1>1, <2>1, <2>2, ProvidedUpdates, SetProvided
<1>5. ASSUME NEW m \in DOMAIN message, ConfirmNotSent(m) PROVE AttemptsProvided'
  <2>1. /\ attempt' = [l \in ReopenedKeys(m) |->
              IF l = Successor(m) THEN NewAttempt
              ELSE IF l = Current(m) THEN Closed(attempt[Current(m)]) ELSE attempt[l]]
        /\ attempt[Current(m)].provider = NoId
    BY <1>5 DEF ConfirmNotSent, Closed, Reopenable
  <2>2. Provided(Closed(attempt[Current(m)])) /\ Provided(NewAttempt)
    <3>1. attempt[Current(m)] \in AttemptRow
      BY DEF TypeOK
    <3> QED
      BY <2>1, <3>1 DEF Closed, AttemptRow, Provided, NewAttempt
  <2> QED
    BY <2>1, <2>2 DEF AttemptsProvided, ReopenedKeys
<1>6. CASE \E c \in Calls : Deliver(c)
  BY <1>6, DeliverProvides
<1> QED
  BY <1>1, <1>2, <1>3, <1>4, <1>5, <1>6
     DEF Next, Begin, Transmit, Echo, Crash, Reconcile, dispatchVars

\* A message gets a provider id only from a copy of it.
ProviderMoved ==
    \A m \in DOMAIN message' :
        \/ m \in DOMAIN message /\ message'[m].provider = message[m].provider
        \/ message'[m].provider = NoId
        \/ message'[m].provider \in Copies(m)

LEMMA RecordMovesProvider ==
    ASSUME TypeOK, NEW c \in Calls, NEW requested \in {"sent", "failed"}, NEW id \in Id,
           RecordResult(c, requested, id), id # NoId => id \in Copies(MessageOf(c))
    PROVE  ProviderMoved
<1> DEFINE k == KeyOf(c)
           m == k[1]
<1>1. m \in DOMAIN message /\ m = MessageOf(c) /\ message \in [DOMAIN message -> MessageRow]
  BY DEF TypeOK, KeyOf, MessageOf
<1>2. CASE UNCHANGED message
  BY <1>2 DEF ProviderMoved
<1>3. CASE message' = [message EXCEPT
               ![m] = Carried(message[m], FinalStatus(m, requested),
                              IF id = NoId THEN message[m].provider ELSE id)]
  <2>1. message[m] \in MessageRow
    BY <1>1
  <2>2. message'[m].provider = IF id = NoId THEN message[m].provider ELSE id
    BY <1>1, <1>3, <2>1 DEF Carried, MessageRow
  <2> QED
    BY <1>1, <1>3, <2>2 DEF ProviderMoved
<1>4. UNCHANGED message \/ WriteResult(k, requested, id, call[c].at = "misconfigured")
  BY DEF RecordResult
<1>5. ASSUME WriteResult(k, requested, id, call[c].at = "misconfigured")
      PROVE  message' = [message EXCEPT
               ![m] = Carried(message[m], FinalStatus(m, requested),
                              IF id = NoId THEN message[m].provider ELSE id)]
  BY <1>5 DEF WriteResult, Carried
<1> QED
  BY <1>2, <1>3, <1>4, <1>5

LEMMA NextProviders == TypeOK /\ CallInv /\ [Next]_dispatchVars => ProviderMoved
<1> SUFFICES ASSUME TypeOK, CallInv, [Next]_dispatchVars PROVE ProviderMoved
  OBVIOUS
<1>1. CASE UNCHANGED message
  BY <1>1 DEF ProviderMoved
<1>2. ASSUME NEW m \in Message, Create(m) PROVE ProviderMoved
  BY <1>2 DEF Create, ProviderMoved
<1>3. ASSUME NEW k \in DOMAIN attempt, FailUndispatched(k) PROVE ProviderMoved
  <2>1. message' = [message EXCEPT ![k[1]].delivery = "failed"]
        /\ message \in [DOMAIN message -> MessageRow]
    BY <1>3 DEF FailUndispatched, Fail, TypeOK
  <2> QED
    BY <2>1 DEF MessageRow, ProviderMoved
<1>4. ASSUME NEW m \in DOMAIN message, NEW id \in Calls, ConfirmSent(m, id)
      PROVE  ProviderMoved
  <2>1. UNCHANGED message \/ message' = [message EXCEPT ![m] = Carried(message[m], "sent", id)]
    <3>1. UNCHANGED message \/ MarkSent(Current(m), id)
      BY <1>4 DEF ConfirmSent
    <3>2. Current(m)[1] = m /\ message[m] \in MessageRow
      BY DEF Current, TypeOK
    <3> QED
      BY <3>1, <3>2 DEF MarkSent, Carried
  <2>2. id \in Copies(m) /\ message[m] \in MessageRow
    BY <1>4 DEF ConfirmSent, TypeOK
  <2> QED
    BY <1>1, <2>1, <2>2 DEF ProviderMoved, Carried, MessageRow
<1>5. ASSUME NEW m \in DOMAIN message, ConfirmNotSent(m) PROVE ProviderMoved
  <2>1. message' = [message EXCEPT ![m] = Reopened(message[m])] /\ message[m] \in MessageRow
    BY <1>5 DEF ConfirmNotSent, Reopened, TypeOK
  <2> QED
    BY <2>1 DEF ProviderMoved, Reopened, MessageRow
<1>6. ASSUME NEW c \in Calls, RecordRefusal(c) \/ RecordSent(c) PROVE ProviderMoved
  <2>1. c \in Id /\ NoId \in Id
    BY DEF TypeOK, Id
  <2>2. CASE RecordRefusal(c)
    BY <1>1, <2>1, <2>2, RecordMovesProvider DEF RecordRefusal
  <2>3. CASE RecordSent(c)
    <3>1. c \in Copies(MessageOf(c)) /\ RecordResult(c, "sent", c)
      BY <2>3 DEF RecordSent, CallInv, Copies
    <3> QED
      BY <2>1, <3>1, RecordMovesProvider
  <2> QED
    BY <1>6, <2>2, <2>3
<1>7. ASSUME NEW c \in Calls, Deliver(c) PROVE ProviderMoved
  <2>1. UNCHANGED message \/ RecordRefusal(c) \/ RecordSent(c)
    BY Zenon, <1>7 DEF Deliver, ClaimRead, ClaimWrite, ClaimFails, RefuseToSend, Post,
       Confirmed, Ambiguous, MarkUnknown, MarkFails, RecordThrows, GiveUp
  <2> QED
    BY <1>1, <1>6, <2>1
<1>8. CASE Next
  BY <1>1, <1>2, <1>3, <1>4, <1>5, <1>7, <1>8
     DEF Next, Begin, Transmit, Echo, Crash, Lapse, Reconcile
<1> QED
  BY <1>1, <1>8 DEF dispatchVars

LEMMA NextMessagesProvided ==
    TypeOK /\ DeliveryInv /\ MessagesProvided /\ [Next]_dispatchVars => MessagesProvided'
<1> SUFFICES ASSUME TypeOK, DeliveryInv, MessagesProvided, [Next]_dispatchVars,
                    NEW m \in DOMAIN message', message'[m].provider # NoId
             PROVE  message'[m].provider \in Copies(m)'
  BY DEF MessagesProvided
<1>1. CallInv /\ CallsMoved /\ ProviderMoved
  BY NextMoved, NextProviders DEF DeliveryInv
<1>2. message'[m].provider \in Copies(m)
  BY <1>1 DEF ProviderMoved, MessagesProvided
<1> QED
  BY <1>1, <1>2, CopiesGrow

LEMMA SpecProviderInv == Spec => []ProviderInv
<1>1. Init => ReservedInv /\ ProviderInv
  BY DEF Init, ReservedInv, ProviderInv, AttemptsProvided, MessagesProvided, Calls
<1>2. TypeOK /\ DeliveryInv /\ ShownInv /\ ReservedInv /\ ProviderInv /\ [Next]_dispatchVars
        => ProviderInv'
  BY NextAttemptsProvided, NextMessagesProvided DEF ProviderInv
<1> QED
  BY <1>1, <1>2, SpecDeliveryInv, SpecShownInv, NextReservedInv, PTL DEF Spec

-----------------------------------------------------------------------------
(* An open outcome: a result can still be recorded, or an operator can tell it.  What  *)
(* completeOutboxExecution and the operator write is safe while no call of the message *)
(* runs; that is for the caller of the dispatch to ensure.                             *)

OpenEnded(k) == attempt[k].dispatch \in {"leased", "unknown"}

OutcomesAreOpen ==
    /\ \A k \in DOMAIN attempt : OpenEnded(k) =>
          attempt[k].status = "pending" /\ message[k[1]].delivery \in {"pending", "sent"}
    /\ \A c \in Calls : call[c].at = "reserving" =>
          attempt[KeyOf(c)].status = "pending" /\ message[MessageOf(c)].delivery = "pending"

\* No call of message m is under way, except c.
OnlyRunning(c, m) == \A d \in Calls : call[d].at \in Running /\ MessageOf(d) = m => d = c

LEMMA OpenIsCurrent ==
    ASSUME TypeOK, AttemptInv, NEW k \in DOMAIN attempt, OpenEnded(k)
    PROVE  k = Current(k[1])
<1>1. k[1] \in DOMAIN message /\ message[k[1]].current \in Nat /\ k[2] \in Nat
      /\ k = <<k[1], k[2]>>
  BY DEF TypeOK, MessageRow, Generation, Key
<1>2. k[2] <= message[k[1]].current /\ ~Superseded(k)
  BY DEF AttemptInv, Settled, OpenEnded
<1> QED
  BY <1>1, <1>2 DEF Superseded, Current

\* A reservation finds the rows open, and keeps them.
LEMMA OutcomesStayOpen ==
    ASSUME TypeOK, OutcomesAreOpen, CallsMoved,
           \A k \in DOMAIN attempt' : OpenEnded(k)' =>
              attempt'[k].status = "pending" /\ message'[k[1]].delivery \in {"pending", "sent"},
           \A d \in Calls : call'[d].at = "reserving" =>
              /\ attempt'[KeyOf(d)].status = attempt[KeyOf(d)].status
              /\ message'[MessageOf(d)].delivery = message[MessageOf(d)].delivery
    PROVE  OutcomesAreOpen'
<1> SUFFICES ASSUME NEW d \in Calls', call'[d].at = "reserving"
             PROVE  /\ attempt'[KeyOf(d)'].status = "pending"
                    /\ message'[MessageOf(d)'].delivery = "pending"
  BY DEF OutcomesAreOpen
<1>1. d \in Calls /\ Moved(d)
  BY DEF CallsMoved
<1>2. call[d].at = "reserving" \/ Claimable(KeyOf(d))
  BY <1>1 DEF Moved
<1>3. attempt[KeyOf(d)].status = "pending" /\ message[MessageOf(d)].delivery = "pending"
  BY <1>1, <1>2 DEF OutcomesAreOpen, Claimable, Unclaimed, KeyOf, MessageOf
<1>4. KeyOf(d)' = KeyOf(d) /\ MessageOf(d)' = MessageOf(d)
  BY <1>1 DEF Moved, KeyOf, MessageOf
<1> QED
  BY <1>1, <1>3, <1>4

LEMMA StillOpen ==
    ASSUME TypeOK, OutcomesAreOpen, CallsMoved, UNCHANGED <<message, attempt>>
    PROVE  OutcomesAreOpen'
<1>1. \A k : OpenEnded(k)' = OpenEnded(k)
  BY DEF OpenEnded
<1> QED
  BY <1>1, OutcomesStayOpen DEF OutcomesAreOpen

\* The row of an attempt that is leased, or marked: its status stays.
LEMMA AttemptStaysOpen ==
    ASSUME TypeOK, OutcomesAreOpen, CallsMoved, NEW k \in DOMAIN attempt,
           NEW row \in AttemptRow, SetAttempt(k, row), UNCHANGED message,
           row.status = attempt[k].status,
           OpenEnded(k) \/ row = attempt[k]
             \/ (attempt[k].status = "pending" /\ message[k[1]].delivery = "pending")
    PROVE  OutcomesAreOpen'
<1>1. /\ DOMAIN attempt' = DOMAIN attempt /\ attempt'[k] = row
      /\ \A l \in DOMAIN attempt \ {k} : attempt'[l] = attempt[l]
  BY SetAttemptFacts
<1>2. ASSUME NEW l \in DOMAIN attempt', OpenEnded(l)'
      PROVE  attempt'[l].status = "pending" /\ message'[l[1]].delivery \in {"pending", "sent"}
  BY <1>1, <1>2 DEF OutcomesAreOpen, OpenEnded
<1>3. \A d \in Calls : attempt'[KeyOf(d)].status = attempt[KeyOf(d)].status
  BY <1>1 DEF TypeOK
<1> QED
  BY <1>2, <1>3, OutcomesStayOpen

\* The rows of one message change while no other call of it runs.
LEMMA MessageStaysOpen ==
    ASSUME TypeOK, AttemptInv, OutcomesAreOpen, CallsMoved, NEW m \in DOMAIN message,
           DOMAIN attempt' \ DOMAIN attempt \subseteq {Successor(m)},
           \A k \in DOMAIN attempt : k # Current(m) => attempt'[k] = attempt[k],
           \A k \in DOMAIN attempt' : k \in {Current(m), Successor(m)} => ~OpenEnded(k)',
           \A n \in DOMAIN message \ {m} : message'[n] = message[n],
           \A d \in Calls : call'[d].at = "reserving" => MessageOf(d) # m
    PROVE  OutcomesAreOpen'
<1>1. ASSUME NEW k \in DOMAIN attempt', OpenEnded(k)'
      PROVE  attempt'[k].status = "pending" /\ message'[k[1]].delivery \in {"pending", "sent"}
  <2>1. k \in DOMAIN attempt /\ k # Current(m) /\ attempt'[k] = attempt[k]
    BY <1>1
  <2>2. OpenEnded(k) /\ k[1] \in DOMAIN message
    BY <1>1, <2>1 DEF OpenEnded, TypeOK
  <2>3. k[1] # m
    BY <2>1, <2>2, OpenIsCurrent
  <2> QED
    BY <2>1, <2>2, <2>3 DEF OutcomesAreOpen
<1>2. ASSUME NEW d \in Calls, call'[d].at = "reserving"
      PROVE  /\ attempt'[KeyOf(d)].status = attempt[KeyOf(d)].status
             /\ message'[MessageOf(d)].delivery = message[MessageOf(d)].delivery
  <2>1. /\ MessageOf(d) \in DOMAIN message \ {m} /\ KeyOf(d) \in DOMAIN attempt
        /\ KeyOf(d)[1] = MessageOf(d)
    BY <1>2 DEF TypeOK, KeyOf, MessageOf
  <2>2. KeyOf(d) # Current(m)
    BY <2>1 DEF Current
  <2> QED
    BY <2>1, <2>2
<1> QED
  BY <1>1, <1>2, OutcomesStayOpen

LEMMA ResultClosesOutcome ==
    ASSUME TypeOK, AttemptInv, OutcomesAreOpen, CallsMoved,
           NEW c \in Calls, KeyOf(c) = Current(MessageOf(c)),
           NEW requested \in {"sent", "failed"}, NEW id \in Id, RecordResult(c, requested, id),
           \A d \in Calls : call'[d].at = "reserving" => MessageOf(d) # MessageOf(c)
    PROVE  OutcomesAreOpen'
<1> DEFINE k == KeyOf(c)
           m == MessageOf(c)
<1>1. k \in DOMAIN attempt /\ m \in DOMAIN message /\ k[1] = m /\ k = Current(m)
  BY DEF TypeOK, KeyOf, MessageOf
<1>2. /\ attempt' \in [DOMAIN attempt -> AttemptRow]
      /\ \A l \in DOMAIN attempt \ {k} : attempt'[l] = attempt[l]
      /\ \A n \in DOMAIN message \ {m} : message'[n] = message[n]
  BY <1>1, RecordFacts
<1>3. CASE UNCHANGED <<message, attempt>>
  BY <1>3, StillOpen
<1>4. CASE ~UNCHANGED <<message, attempt>>
  <2>1. attempt'[k].dispatch \in {"failed", "succeeded"}
    BY <1>4, RecordFacts
  <2>2. Successor(m) \notin DOMAIN attempt'
    BY <1>2 DEF AttemptInv, Successor, TypeOK, MessageRow, Generation
  <2>3. \A l \in DOMAIN attempt' : l \in {k, Successor(m)} => ~OpenEnded(l)'
    BY <2>1, <2>2 DEF OpenEnded
  <2> QED
    BY <1>1, <1>2, <2>3, MessageStaysOpen
<1> QED
  BY <1>3, <1>4

LEMMA DeliverKeepsOpen ==
    ASSUME TypeOK, AttemptInv, OutcomesAreOpen, NEW c \in Calls, Deliver(c),
           KeyOf(c) = Current(MessageOf(c)), OnlyRunning(c, MessageOf(c))
    PROVE  OutcomesAreOpen'
<1> DEFINE k == KeyOf(c)
           m == MessageOf(c)
<1>0. /\ k \in DOMAIN attempt /\ attempt[k] \in AttemptRow /\ k[1] = m /\ CallsMoved
      /\ c \in Id /\ NoId \in Id
  BY DeliverMoved DEF TypeOK, KeyOf, MessageOf, Id
<1>1. CASE UNCHANGED <<message, attempt>>
  BY <1>0, <1>1, StillOpen
<1>2. ASSUME SetAttempt(k, Unknown(attempt[k])), UNCHANGED message, OpenEnded(k)
      PROVE  OutcomesAreOpen'
  <2>1. Unknown(attempt[k]).status = attempt[k].status
    BY <1>0 DEF Unknown, AttemptRow
  <2>2. Unknown(attempt[k]) \in AttemptRow
    BY <1>0, AttemptUpdates
  <2> QED
    BY <1>0, <1>2, <2>1, <2>2, AttemptStaysOpen
<1>3. CASE ClaimRead(c)
  <2>1. CASE Claimable(k)
    BY <1>1, <1>3, <2>1 DEF ClaimRead
  <2>2. CASE ~Claimable(k) /\ Abandoned(k)
    BY <1>2, <1>3, <2>2 DEF ClaimRead, Abandoned, OpenEnded
  <2>3. CASE ~Claimable(k) /\ ~Abandoned(k)
    BY <1>0, <1>3, <2>3, AttemptStaysOpen DEF ClaimRead
  <2> QED
    BY <2>1, <2>2, <2>3
<1>4. CASE ClaimWrite(c)
  <2>1. /\ SetAttempt(k, Leased(attempt[k])) /\ UNCHANGED message
        /\ attempt[k].status = "pending" /\ message[m].delivery = "pending"
    BY <1>4 DEF ClaimWrite, Leased, OutcomesAreOpen
  <2>2. Leased(attempt[k]).status = attempt[k].status
    BY <1>0 DEF Leased, AttemptRow
  <2>3. Leased(attempt[k]) \in AttemptRow
    BY <1>0, AttemptUpdates
  <2> QED
    BY <1>0, <2>1, <2>2, <2>3, AttemptStaysOpen
<1>5. CASE MarkUnknown(c) \/ GiveUp(c)
  BY <1>1, <1>2, <1>5 DEF MarkUnknown, GiveUp, Markable, OpenEnded
<1>6. ASSUME NEW s, Goto(c, s), s \in Location \ {"reserving"}
      PROVE  \A d \in Calls : call'[d].at = "reserving" => MessageOf(d) # m
  <2> SUFFICES ASSUME NEW d \in Calls, call'[d].at = "reserving", MessageOf(d) = m
               PROVE  FALSE
    OBVIOUS
  <2>1. d # c /\ call'[d] = call[d]
    BY <1>6, GotoFacts
  <2> QED
    BY <2>1 DEF OnlyRunning, Running
<1>7. CASE RecordSent(c)
  <2>1. RecordResult(c, "sent", c)
    BY <1>7 DEF RecordSent
  <2>2. \E s \in Location \ {"reserving"} : Goto(c, s)
    BY <1>7 DEF RecordSent, AfterThrow, Location, Running, Ended
  <2> QED
    BY <1>0, <1>6, <2>1, <2>2, ResultClosesOutcome
<1>8. CASE RecordRefusal(c) /\ RecordResult(c, "failed", NoId)
  <2>2. \E s \in Location \ {"reserving"} : Goto(c, s)
    BY <1>8 DEF RecordRefusal, Location, Running, Ended
  <2> QED
    BY <1>0, <1>6, <1>8, <2>2, ResultClosesOutcome
<1>9. CASE RecordRefusal(c) /\ ~RecordResult(c, "failed", NoId)
  BY <1>1, <1>9 DEF RecordRefusal
<1> QED
  BY <1>1, <1>3, <1>4, <1>5, <1>7, <1>8, <1>9
     DEF Deliver, ClaimFails, RefuseToSend, Post, Confirmed, Ambiguous, MarkFails, RecordThrows

\* What an operator, or the burial of the event, writes while no call of the message runs.
LEMMA SettleKeepsOpen ==
    ASSUME TypeOK, AttemptInv, OutcomesAreOpen, NEW m \in DOMAIN message,
           \A d \in Calls : call[d].at \in Running => MessageOf(d) # m,
           \/ \E k \in DOMAIN attempt : k[1] = m /\ FailUndispatched(k)
           \/ \E id \in Calls : ConfirmSent(m, id)
           \/ ConfirmNotSent(m)
    PROVE  OutcomesAreOpen'
<1> DEFINE k == Current(m)
<1>0. /\ k \in DOMAIN attempt /\ attempt[k] \in AttemptRow /\ k[1] = m
      /\ message[m] \in MessageRow /\ Successor(m) \notin DOMAIN attempt
  <2>1. k \in DOMAIN attempt /\ attempt[k] \in AttemptRow /\ k[1] = m
        /\ message[m] \in MessageRow
    BY DEF TypeOK, Current
  <2>2. Successor(m) \notin DOMAIN attempt
    BY <2>1 DEF AttemptInv, Successor, TypeOK, MessageRow, Generation
  <2> QED
    BY <2>1, <2>2
<1>1. /\ UNCHANGED call
      /\ \A d \in Calls : call'[d].at = "reserving" => MessageOf(d) # m
  BY DEF FailUndispatched, ConfirmSent, Confirmable, ConfirmNotSent, Running
<1>2. CallsMoved
  BY <1>1 DEF CallsMoved, Moved, Arrives, Calls
<1>3. CASE UNCHANGED <<message, attempt>>
  BY <1>2, <1>3, StillOpen
<1>6. ASSUME NEW l \in DOMAIN attempt, l[1] = m, FailUndispatched(l) PROVE l = k
  <2>1. ~Superseded(l) /\ l[2] <= message[m].current /\ l = <<l[1], l[2]>>
        /\ l[2] \in Nat /\ message[m].current \in Nat
    BY <1>0, <1>6 DEF FailUndispatched, Undispatched, AttemptInv, Settled, TypeOK, Key,
       Generation, MessageRow
  <2> QED
    BY <1>6, <2>1 DEF Superseded, Current
<1>4. CASE /\ FailUndispatched(k) \/ \E id \in Calls : ConfirmSent(m, id)
           /\ ~UNCHANGED <<message, attempt>>
  <2>1. PICK r : /\ attempt' = [attempt EXCEPT ![k] = r]
                 /\ r.dispatch \in {"failed", "succeeded"}
                 /\ \A n \in DOMAIN message \ {m} : message'[n] = message[n]
    <3>1. CASE FailUndispatched(k)
      <4>1. attempt' = [attempt EXCEPT ![k] = Failed(attempt[k])]
            /\ \A n \in DOMAIN message \ {m} : message'[n] = message[n]
        BY <1>0, <3>1 DEF FailUndispatched, Fail, SetAttempt, Failed
      <4>2. Failed(attempt[k]).dispatch = "failed"
        BY <1>0 DEF Failed, AttemptRow
      <4> QED
        BY <4>1, <4>2
    <3>2. ASSUME NEW id \in Calls, ConfirmSent(m, id), ~UNCHANGED <<message, attempt>>
          PROVE  /\ attempt' = [attempt EXCEPT ![k] = Sent(attempt[k], id)]
                 /\ Sent(attempt[k], id).dispatch = "succeeded"
                 /\ \A n \in DOMAIN message \ {m} : message'[n] = message[n]
      <4>1. MarkSent(k, id)
        BY <3>2 DEF ConfirmSent, Confirmable
      <4>2. Sent(attempt[k], id).dispatch = "succeeded"
        BY <1>0 DEF Sent, AttemptRow
      <4> QED
        BY <1>0, <4>1, <4>2 DEF MarkSent, SetAttempt, Sent
    <3> QED
      BY <1>4, <3>1, <3>2
  <2>2. /\ DOMAIN attempt' = DOMAIN attempt /\ attempt'[k] = r
        /\ \A l \in DOMAIN attempt : l # k => attempt'[l] = attempt[l]
    BY <1>0, <2>1 DEF TypeOK
  <2>3. \A l \in DOMAIN attempt' : l \in {k, Successor(m)} => ~OpenEnded(l)'
    BY <1>0, <2>1, <2>2 DEF OpenEnded
  <2> QED
    BY <1>0, <1>1, <1>2, <2>1, <2>2, <2>3, MessageStaysOpen
<1>5. CASE ConfirmNotSent(m)
  <2>1. /\ DOMAIN attempt' = DOMAIN attempt \cup {Successor(m)}
        /\ attempt'[Successor(m)] = NewAttempt
        /\ attempt'[k] = Closed(attempt[k])
        /\ \A l \in DOMAIN attempt \ {k} : attempt'[l] = attempt[l]
        /\ \A n \in DOMAIN message \ {m} : message'[n] = message[n]
    BY <1>0, <1>5 DEF ConfirmNotSent, ReopenedKeys, Closed
  <2>2. Closed(attempt[k]).dispatch = "failed"
    BY <1>0 DEF Closed, AttemptRow
  <2>3. \A l \in DOMAIN attempt' : l \in {k, Successor(m)} => ~OpenEnded(l)'
    BY <2>1, <2>2 DEF OpenEnded, NewAttempt
  <2> QED
    BY <1>0, <1>1, <1>2, <2>1, <2>3, MessageStaysOpen
<1> QED
  BY <1>3, <1>4, <1>5, <1>6

\* The rest of the dispatch leaves the outcomes as they are.
LEMMA OutsideKeepsOpen ==
    ASSUME TypeOK, OutcomesAreOpen,
           \/ \E m \in Message : Create(m)
           \/ \E c \in Caller, k \in DOMAIN attempt : Begin(c, k)
           \/ \E c \in Calls : Transmit(c) \/ Echo(c)
           \/ \E C \in SUBSET Calls : Crash(C)
           \/ \E k \in DOMAIN attempt : Lapse(k)
    PROVE  OutcomesAreOpen'
<1>0. CallsMoved
  BY NextMoved DEF Next
<1>1. CASE UNCHANGED <<message, attempt>>
  BY <1>0, <1>1, StillOpen
<1>2. ASSUME NEW m \in Message, Create(m) PROVE OutcomesAreOpen'
  <2>1. /\ \A k \in DOMAIN attempt' : k \in DOMAIN attempt \/ k = <<m, 1>>
        /\ \A k \in DOMAIN attempt : attempt'[k] = attempt[k] /\ k # <<m, 1>>
        /\ \A n \in DOMAIN message : message'[n] = message[n]
        /\ attempt'[<<m, 1>>].dispatch = "ready"
    BY <1>2 DEF Create, NewAttempt, TypeOK
  <2>2. \A d \in Calls : KeyOf(d) \in DOMAIN attempt /\ MessageOf(d) \in DOMAIN message
    BY DEF TypeOK, KeyOf, MessageOf
  <2>3. \A k \in DOMAIN attempt : k[1] \in DOMAIN message
    BY DEF TypeOK
  <2>4. ASSUME NEW k \in DOMAIN attempt', OpenEnded(k)'
        PROVE  attempt'[k].status = "pending" /\ message'[k[1]].delivery \in {"pending", "sent"}
    <3>1. k \in DOMAIN attempt /\ attempt'[k] = attempt[k]
      BY <2>1, <2>4 DEF OpenEnded
    <3> QED
      BY <2>1, <2>3, <2>4, <3>1 DEF OpenEnded, OutcomesAreOpen
  <2> QED
    BY <1>0, <2>1, <2>2, <2>4, OutcomesStayOpen
<1>3. ASSUME NEW k \in DOMAIN attempt, Lapse(k) PROVE OutcomesAreOpen'
  <2>1. attempt[k] \in AttemptRow
    BY DEF TypeOK
  <2>2. SetAttempt(k, Lapsed(attempt[k])) /\ UNCHANGED message /\ OpenEnded(k)
    BY <1>3 DEF Lapse, Lapsed, OpenEnded
  <2>3. Lapsed(attempt[k]).status = attempt[k].status
    BY <2>1 DEF Lapsed, AttemptRow
  <2>4. Lapsed(attempt[k]) \in AttemptRow
    BY <2>1 DEF Lapsed, AttemptRow
  <2> QED
    BY <1>0, <2>2, <2>3, <2>4, AttemptStaysOpen
<1> QED
  BY <1>1, <1>2, <1>3 DEF Begin, Transmit, Echo, Crash

-----------------------------------------------------------------------------
(* The dispatch keeps the promise of MessageDelivery *)

Panel == [m \in DOMAIN message |-> message[m].delivery]
Inbox == {<<MessageOf(c), c>> : c \in {d \in Calls : call[d].request = "arrived"}}

LEMMA InitPromise == Init => Promise!Init
BY DEF Init, Promise!Init, Calls

\* The panel sees one message change, and a message it shows as sent stays so.
LEMMA RowsPromise ==
    ASSUME TypeOK, TypeOK', RowsMoved, Inbox' = Inbox
    PROVE  [Promise!Next]_(Promise!deliveryVars)
<1>1. PICK m : \A n \in DOMAIN message \ {m} : message'[n].delivery = message[n].delivery
  BY DEF RowsMoved
<1>2. DOMAIN message' = DOMAIN message /\ \A n \in DOMAIN message : MessageMoved(n)
  BY DEF RowsMoved
<1>3. CASE m \notin DOMAIN message \/ message'[m].delivery = message[m].delivery
  <2>1. Panel' = Panel
    BY <1>1, <1>2, <1>3 DEF Panel
  <2> QED
    BY <2>1 DEF Promise!deliveryVars, Panel, Inbox
<1>4. CASE m \in DOMAIN message /\ message'[m].delivery # message[m].delivery
  <2>1. PICK status \in {"pending", "sent", "failed"} : status = message'[m].delivery
    BY <1>2, <1>4 DEF TypeOK, MessageRow, DeliveryStatus
  <2>2. message[m].delivery # "sent" /\ (status = "sent" => Copies(m) # {})
    BY <1>2, <1>4, <2>1 DEF MessageMoved
  <2>3. Copies(m) # {} => Promise!Reached(m)
    BY DEF Promise!Reached, Copies, TypeOK
  <2>4. Panel' = [Panel EXCEPT ![m] = status]
    <3>1. \A n \in DOMAIN message :
             message'[n].delivery = IF n = m THEN status ELSE message[n].delivery
      BY <1>1, <2>1
    <3> QED
      BY <1>2, <3>1 DEF Panel
  <2>5. Promise!Show(m, status)
    BY <1>4, <2>2, <2>3, <2>4 DEF Promise!Show, Panel, Inbox
  <2> QED
    BY <1>4, <2>5 DEF Promise!Next
<1> QED
  BY <1>3, <1>4

\* The inbox grows only when the provider transmits, and by a first copy.
LEMMA ArrivalPromise ==
    ASSUME TypeOK, ClaimInv, DeliveryInv, NEW c \in Calls,
           Arrives(c), Alone(c), call'[c].key = call[c].key
    PROVE  Promise!Next
<1> DEFINE m == MessageOf(c)
<1>1. m \in DOMAIN message /\ c \in Caller
  BY DEF TypeOK, MessageOf, KeyOf
<1>2. ~Promise!Reached(m)
  <2>1. \A d \in Calls : MessageOf(d) = m => call[d].request # "arrived"
    BY OneLiveRequest DEF Arrives
  <2> QED
    BY <2>1 DEF Promise!Reached
<1>3. Inbox' = Inbox \cup {<<m, c>>}
  BY DEF Inbox, MessageOf, Arrives, Alone
<1>4. Panel' = Panel
  BY DEF Panel, Alone
<1>5. Promise!Reach(m, c)
  BY <1>2, <1>3, <1>4 DEF Promise!Reach, Panel, Inbox
<1> QED
  BY <1>1, <1>5 DEF Promise!Next

LEMMA NextPromise ==
    ASSUME TypeOK, TypeOK', ClaimInv, DeliveryInv, [Next]_dispatchVars
    PROVE  [Promise!Next]_(Promise!deliveryVars)
<1>1. CallsMoved /\ CallInv
  BY NextMoved DEF DeliveryInv
<1>2. CASE \E c \in Calls : Arrives(c)
  <2>1. PICK c \in Calls : Arrives(c)
    BY <1>2
  <2>2. Moved(c) /\ Alone(c)
    BY <1>1, <2>1 DEF CallsMoved
  <2> QED
    BY <2>1, <2>2, ArrivalPromise DEF Moved
<1>3. CASE ~\E c \in Calls : Arrives(c)
  <2>1. \A c \in Calls : /\ c \in Calls' /\ MessageOf(c)' = MessageOf(c)
                         /\ call'[c].request = "arrived" <=> call[c].request = "arrived"
    BY <1>1, <1>3 DEF CallsMoved, Moved, Arrives, CallInv, Early, MessageOf
  <2>2. \A c \in Calls' \ Calls : call'[c].request # "arrived"
    BY <1>1 DEF CallsMoved
  <2>3. Inbox' = Inbox
    BY <2>1, <2>2 DEF Inbox
  <2>4. ASSUME NEW m \in Message, Create(m) PROVE Promise!Next
    <3>1. /\ m \notin DOMAIN Panel
          /\ Panel' = [n \in DOMAIN Panel \cup {m} |-> IF n = m THEN "pending" ELSE Panel[n]]
      BY <2>4 DEF Create, Panel
    <3>2. Promise!Request(m)
      BY <2>3, <3>1 DEF Promise!Request, Panel, Inbox
    <3> QED
      BY <3>2 DEF Promise!Next
  <2>5. ASSUME NEW m \in DOMAIN message, ConfirmNotSent(m) PROVE Promise!Next
    <3>1. /\ message' = [message EXCEPT ![m] = Reopened(message[m])]
          /\ message[m].delivery # "sent"
      BY <2>5 DEF ConfirmNotSent, Reopened, Reopenable, ConfigFailure, Current
    <3>2. Reopened(message[m]).delivery = "pending"
      BY DEF Reopened, TypeOK, MessageRow
    <3>3. Panel' = [Panel EXCEPT ![m] = "pending"]
      BY <3>1, <3>2 DEF Panel
    <3>4. Promise!Show(m, "pending")
      BY <2>3, <3>1, <3>3 DEF Promise!Show, Panel, Inbox
    <3> QED
      BY <3>4 DEF Promise!Next
  <2> QED
    BY <1>1, <2>3, <2>4, <2>5, NextRows, RowsPromise
<1> QED
  BY <1>2, <1>3

\* The dispatch, with its claims, leases, retries and reconciliation, implements the
\* promise: at most one copy, shown as sent only when there is one, and for good.
THEOREM DispatchKeepsPromise == Spec => KeepsPromise
<1>1. TypeOK /\ TypeOK' /\ ClaimInv /\ DeliveryInv /\ [Next]_dispatchVars
        => [Promise!Next]_(Promise!deliveryVars)
  BY NextPromise
<1> QED
  BY <1>1, InitPromise, SpecDeliveryInv, PTL DEF Spec, KeepsPromise, Promise!Spec

=============================================================================
