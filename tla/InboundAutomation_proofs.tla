---------------------- MODULE InboundAutomation_proofs ----------------------
(* Theorems about the answers to a conversation, for any number of messages,  *)
(* attempts and operations of people, any set of plans and every fault.       *)
EXTENDS InboundAutomation, TLAPS

-----------------------------------------------------------------------------
(* The queue and the checkpoints *)

\* Events are taken in order: what has a checkpoint, or is being executed, comes after
\* no open event.
OpenIsNext ==
    /\ Running => \A d \in 1..run.event - 1 : event[d].status # "open"
    /\ \A e \in DOMAIN checkpoint : \A d \in 1..e - 1 : event[d].status # "open"

\* The batch of an event: the event, and every text after it up to the last.
BatchIsText ==
    \A e \in DOMAIN checkpoint :
        LET B == checkpoint[e].batch
        IN  /\ e \in B /\ B \subseteq e..Len(event)
            /\ \A m \in B \ {e} : event[e].kind = "text" /\ event[m].kind = "text"
            /\ \A m \in B : \A f \in e..m : event[f].kind = "text" => f \in B
            /\ event[e].topic = "notification" => checkpoint[e].plan = "observe"

\* What a concluded event left to later ones: no open event of its batch.
BatchIsSpent ==
    \A e \in DOMAIN checkpoint :
        event[e].status = "delivered" /\ event[e].topic = "persisted"
        /\ <<e, "pause">> \notin interrupted =>
            \A f \in checkpoint[e].batch \ {e} :
                event[f].topic = "persisted" =>
                    event[f].status # "open" /\ f \notin DOMAIN checkpoint

Disturbed(e) == \E what \in {"people", "pause"} : <<e, what>> \in interrupted

Silent == {"observe", "suppress"}
Sends == {"static", "answer", "renew", "collect", "summary"}

ReplyIsPlanned == \A e \in DOMAIN reply : checkpoint[e].plan \notin Silent

FinishedOrDisturbed ==
    \A e \in DOMAIN checkpoint :
        event[e].status = "delivered" => Finished(e) \/ Disturbed(e)

-----------------------------------------------------------------------------
(* The execution under way *)

Steps == {"validate", "channel", "gather", "authorize", "before", "reply", "claim",
          "record", "after", "handoff", "superseded", "complete"}
Last == {"validate", "channel", "gather", "superseded", "complete"}

Sent(e) == e \in DOMAIN reply /\ reply[e] = "sent"

Ahead(s, todo) == \E i \in DOMAIN todo : todo[i] = s

\* What every rest of a script has in common.
Rest(todo) ==
    /\ todo \in Seq(Steps) /\ todo # << >>
    /\ \A i \in DOMAIN todo : todo[i] \in Last <=> i = Len(todo)
    /\ \A i \in DOMAIN todo : todo[i] = "claim" =>
         i + 1 \in DOMAIN todo /\ todo[i + 1] = "record"
    /\ \A i, j \in DOMAIN todo :
         todo[i] \in {"claim", "record"} /\ todo[j] = "reply" => j < i

\* The rest of a script that was begun, for the event e: what is no longer ahead was done.
Begun(e, todo) ==
    LET p == checkpoint[e].plan
    IN  /\ Rest(todo)
        /\ \A i \in DOMAIN todo : todo[i] \in Last => todo[i] = "complete"
        /\ Ahead("reply", todo) \/ Ahead("claim", todo) \/ Ahead("record", todo) => p \in Sends
        /\ Ahead("handoff", todo) => p = "handoff"
        /\ p \in Sends =>
             /\ Ahead("reply", todo) \/ e \in DOMAIN reply
             /\ Ahead("record", todo) \/ Sent(e)
        /\ p = "handoff" => Ahead("handoff", todo) \/ e \in DOMAIN reply
        /\ p = "summary" => Ahead("after", todo) \/ <<e, "after">> \in DOMAIN transition

\* Before its checkpoint; on its script; after a conflict; or concluded without it.
First == {<<"validate">>, <<"channel">>, <<"gather">>}
RunIsKnown ==
    Running =>
        LET e == run.event
        IN  \/ run.todo \in First
            \/ /\ e \in DOMAIN checkpoint
               /\ event[e].topic = "persisted" => run.batch = checkpoint[e].batch
               /\ \/ Begun(e, run.todo)
                  \/ run.todo = <<"superseded">>
                  \/ run.todo = <<"complete">> /\ Disturbed(e)
            \/ /\ run.todo = <<"complete">> /\ run.batch = {e}
               /\ <<e, "pause">> \in interrupted

TypeRun ==
    run \in [event : Nat, todo : Seq(Steps), version : Nat, batch : SUBSET (1..MaxMessages)]

InboundInv ==
    /\ TypeOK /\ TypeRun
    /\ OpenIsNext /\ BatchIsText /\ BatchIsSpent
    /\ ReplyIsPlanned /\ FinishedOrDisturbed /\ RunIsKnown

-----------------------------------------------------------------------------
(* Scripts and their rests *)

LEMMA RestOfRest ==
    ASSUME NEW todo, Rest(todo), Head(todo) \notin Last
    PROVE  /\ Rest(Tail(todo))
           /\ \A s : Ahead(s, todo) => s = Head(todo) \/ Ahead(s, Tail(todo))
           /\ \A s : Ahead(s, Tail(todo)) => Ahead(s, todo)
           /\ \A i \in DOMAIN Tail(todo) : i + 1 \in DOMAIN todo /\ Tail(todo)[i] = todo[i + 1]
<1>1. /\ todo \in Seq(Steps) /\ Len(todo) \in Nat /\ DOMAIN todo = 1..Len(todo)
      /\ Len(todo) > 0 /\ Head(todo) = todo[1]
  BY DEF Rest
<1>2. Len(todo) > 1
  BY <1>1 DEF Rest
<1>3. /\ Tail(todo) \in Seq(Steps) /\ Len(Tail(todo)) = Len(todo) - 1
      /\ DOMAIN Tail(todo) = 1..Len(todo) - 1
      /\ \A i \in 1..Len(todo) - 1 : Tail(todo)[i] = todo[i + 1]
  BY SMTT(40), <1>1, <1>2
<1>4. /\ Tail(todo) # << >>
      /\ \A i \in DOMAIN Tail(todo) : Tail(todo)[i] \in Last <=> i = Len(Tail(todo))
  <2>1. Tail(todo) # << >>
    <3>1. Len(Tail(todo)) # 0
      BY <1>1, <1>2, <1>3
    <3>2. Len(<< >>) = 0
      OBVIOUS
    <3> QED
      BY <3>1, <3>2
  <2>2. ASSUME NEW i \in 1..Len(todo) - 1 PROVE Tail(todo)[i] \in Last <=> i = Len(todo) - 1
    <3>1. i + 1 \in DOMAIN todo /\ Tail(todo)[i] = todo[i + 1]
      BY <1>1, <1>3
    <3>2. todo[i + 1] \in Last <=> i + 1 = Len(todo)
      BY <3>1 DEF Rest
    <3>3. i = Len(todo) - 1 <=> i + 1 = Len(todo)
      BY <1>1
    <3> QED
      BY <3>1, <3>2, <3>3
  <2> QED
    BY <1>3, <2>1, <2>2
<1>5. \A i \in DOMAIN Tail(todo) : Tail(todo)[i] = "claim" =>
         i + 1 \in DOMAIN Tail(todo) /\ Tail(todo)[i + 1] = "record"
  <2> SUFFICES ASSUME NEW i \in 1..Len(todo) - 1, todo[i + 1] = "claim"
               PROVE  i + 1 \in 1..Len(todo) - 1 /\ Tail(todo)[i + 1] = "record"
    BY <1>3
  <2>1. i + 1 \in DOMAIN todo
    BY <1>1
  <2>2. (i + 1) + 1 \in DOMAIN todo /\ todo[(i + 1) + 1] = "record"
    BY <2>1 DEF Rest
  <2> QED
    BY <1>1, <1>3, <2>2
<1>6. \A i, j \in DOMAIN Tail(todo) :
         Tail(todo)[i] \in {"claim", "record"} /\ Tail(todo)[j] = "reply" => j < i
  <2> SUFFICES ASSUME NEW i \in 1..Len(todo) - 1, NEW j \in 1..Len(todo) - 1,
                      todo[i + 1] \in {"claim", "record"}, todo[j + 1] = "reply"
               PROVE  j < i
    BY <1>3
  <2>1. i + 1 \in DOMAIN todo /\ j + 1 \in DOMAIN todo
    BY <1>1
  <2>2. j + 1 < i + 1
    BY <2>1 DEF Rest
  <2> QED
    BY <2>2
<1>7. ASSUME NEW s, Ahead(s, todo) PROVE s = Head(todo) \/ Ahead(s, Tail(todo))
  <2>1. PICK i \in DOMAIN todo : todo[i] = s
    BY <1>7 DEF Ahead
  <2>2. CASE i # 1
    <3>1. i - 1 \in 1..Len(todo) - 1 /\ (i - 1) + 1 = i
      BY <1>1, <2>1, <2>2
    <3>2. Tail(todo)[i - 1] = s
      BY <1>3, <2>1, <3>1
    <3> QED
      BY <1>3, <3>1, <3>2 DEF Ahead
  <2> QED
    BY <1>1, <2>1, <2>2
<1>8. \A i \in DOMAIN Tail(todo) : i + 1 \in DOMAIN todo /\ Tail(todo)[i] = todo[i + 1]
  BY <1>1, <1>3
<1>9. \A s : Ahead(s, Tail(todo)) => Ahead(s, todo)
  BY <1>8 DEF Ahead
<1> QED
  BY <1>3, <1>4, <1>5, <1>6, <1>7, <1>8, <1>9 DEF Rest

\* A claim is followed by the record of its result, and neither comes before the reply.
LEMMA ClaimAndRecord ==
    ASSUME NEW todo, Rest(todo), Head(todo) \in {"claim", "record"}
    PROVE  /\ ~Ahead("reply", todo)
           /\ Head(todo) = "claim" => Head(Tail(todo)) = "record"
<1>1. /\ todo \in Seq(Steps) /\ DOMAIN todo = 1..Len(todo) /\ Len(todo) \in Nat
      /\ Head(todo) = todo[1] /\ 1 \in DOMAIN todo
  BY DEF Rest
<1>2. ~Ahead("reply", todo)
  <2> SUFFICES ASSUME NEW j \in DOMAIN todo, todo[j] = "reply" PROVE FALSE
    BY DEF Ahead
  <2>1. j < 1
    BY <1>1 DEF Rest
  <2> QED
    BY <1>1, <2>1
<1>3. ASSUME Head(todo) = "claim" PROVE Head(Tail(todo)) = "record"
  <2>1. 2 \in DOMAIN todo /\ todo[2] = "record"
    BY <1>1, <1>3 DEF Rest
  <2>2. Len(Tail(todo)) > 0 /\ Tail(todo) \in Seq(Steps) /\ Tail(todo)[1] = todo[2]
    BY <1>1, <2>1
  <2> QED
    BY <2>1, <2>2
<1> QED
  BY <1>2, <1>3

\* Every script replies before it claims, records after it, and ends.
LEMMA ScriptsAreBegun ==
    ASSUME NEW p \in DOMAIN Script
    PROVE  /\ Rest(Script[p])
           /\ \A i \in DOMAIN Script[p] : Script[p][i] \in Last => Script[p][i] = "complete"
           /\ \A s \in {"reply", "claim", "record"} : Ahead(s, Script[p]) => p \in Sends
           /\ Ahead("handoff", Script[p]) => p = "handoff"
           /\ p \in Sends => Ahead("reply", Script[p]) /\ Ahead("record", Script[p])
           /\ p = "handoff" => Ahead("handoff", Script[p])
           /\ p = "summary" => Ahead("after", Script[p])
<1>1. p \in {"observe", "suppress", "static", "answer", "renew", "collect", "summary", "handoff"}
  BY DEF Script
<1>2. CASE p \in Silent
  <2>1. Script[p] = <<"complete">>
    BY <1>2 DEF Silent, Script
  <2> QED
    BY <1>2, <2>1 DEF Rest, Ahead, Last, Steps, Silent, Sends
<1>3. CASE p = "static"
  <2>1. Script[p] = <<"reply", "claim", "record", "complete">>
    BY <1>3 DEF Script
  <2> QED
    BY <1>3, <2>1 DEF Rest, Ahead, Last, Steps, Silent, Sends
<1>4. CASE p = "answer"
  <2>1. Script[p] = <<"authorize", "reply", "claim", "record", "complete">>
    BY <1>4 DEF Script
  <2> QED
    BY <1>4, <2>1 DEF Rest, Ahead, Last, Steps, Silent, Sends
<1>5. CASE p = "renew"
  <2>1. Script[p] = <<"before", "authorize", "reply", "claim", "record", "complete">>
    BY <1>5 DEF Script
  <2> QED
    BY <1>5, <2>1 DEF Rest, Ahead, Last, Steps, Silent, Sends
<1>6. CASE p = "collect"
  <2>1. Script[p] = <<"authorize", "before", "reply", "claim", "record", "complete">>
    BY <1>6 DEF Script
  <2> QED
    BY <1>6, <2>1 DEF Rest, Ahead, Last, Steps, Silent, Sends
<1>7. CASE p = "summary"
  <2>1. Script[p] = <<"authorize", "reply", "claim", "record", "after", "complete">>
    BY <1>7 DEF Script
  <2> QED
    BY <1>7, <2>1 DEF Rest, Ahead, Last, Steps, Silent, Sends
<1>8. CASE p = "handoff"
  <2>1. Script[p] = <<"authorize", "handoff", "complete">>
    BY <1>8 DEF Script
  <2> QED
    BY <1>8, <2>1 DEF Rest, Ahead, Last, Steps, Silent, Sends
<1> QED
  BY <1>1, <1>2, <1>3, <1>4, <1>5, <1>6, <1>7, <1>8 DEF Silent

-----------------------------------------------------------------------------
(* What the steps leave alone *)

\* No event changes its kind or topic, and only an open one its status, which dies.
EventsStay ==
    /\ event' \in Seq(EventRow) /\ Len(event') = Len(event)
    /\ \A d \in Received :
          /\ event'[d].kind = event[d].kind /\ event'[d].topic = event[d].topic
          /\ \/ event'[d].status = event[d].status
             \/ event[d].status = "open" /\ event'[d].status = "dead"

\* What was met, seen after the step.
Met ==
    /\ interrupted \subseteq interrupted'
    /\ interrupted' \subseteq interrupted \cup
                               {e \in Received' : event'[e].status = "open"} \X {"people", "pause"}
    /\ \A e \in Received' : event'[e].status = "open" =>
         /\ ~agents' => <<e, "pause">> \in interrupted'
         /\ state' \notin {"bot", "waiting"} => <<e, "people">> \in interrupted'

LEMMA InterruptMeets == ASSUME Interrupt PROVE Met
<1> DEFINE met == (IF agents' THEN {} ELSE {"pause"})
                  \cup (IF state' \in {"bot", "waiting"} THEN {} ELSE {"people"})
           waiting == {e \in Received' : event'[e].status = "open"}
<1>1. interrupted' = interrupted \cup (waiting \X met)
  BY DEF Interrupt, Received
<1>2. met \subseteq {"people", "pause"}
  OBVIOUS
<1>3. ~agents' => "pause" \in met
  OBVIOUS
<1>4. state' \notin {"bot", "waiting"} => "people" \in met
  OBVIOUS
<1> HIDE DEF met
<1>5. \A e \in Received' : event'[e].status = "open" => e \in waiting
  OBVIOUS
<1>6. waiting \X met \subseteq waiting \X {"people", "pause"}
  BY <1>2
<1> HIDE DEF waiting
<1>7. /\ interrupted \subseteq interrupted'
      /\ interrupted' \subseteq interrupted \cup (waiting \X {"people", "pause"})
  BY <1>1, <1>6
<1>8. \A e \in waiting : /\ ~agents' => <<e, "pause">> \in interrupted'
                         /\ state' \notin {"bot", "waiting"} => <<e, "people">> \in interrupted'
  BY <1>1, <1>3, <1>4
<1> QED
  BY <1>5, <1>7, <1>8 DEF Met, waiting

LEMMA EventsUnchanged ==
    ASSUME event \in Seq(EventRow), UNCHANGED event
    PROVE  EventsStay
BY DEF EventsStay, Received

LEMMA CloseFacts ==
    ASSUME event \in Seq(EventRow), NEW e \in Received, event[e].status = "open",
           NEW status \in {"open", "dead"}, NEW error \in Error, Close(e, status, error)
    PROVE  EventsStay
<1>1. event \in [Received -> EventRow] /\ Len(event) \in Nat
  BY DEF Received
<1> DEFINE row == [event[e] EXCEPT !.status = status, !.error = error]
<1>2. row \in EventRow /\ row.kind = event[e].kind /\ row.topic = event[e].topic
      /\ row.status = status
  BY <1>1 DEF EventRow
<1>3. event' = [event EXCEPT ![e] = row]
  BY <1>1 DEF Close, EventRow
<1> HIDE DEF row
<1>4. event' \in [Received -> EventRow] /\ event'[e] = row
      /\ \A d \in Received : d # e => event'[d] = event[d]
  BY <1>1, <1>2, <1>3
<1>5. event' \in Seq(EventRow) /\ Len(event') = Len(event)
  BY <1>1, <1>4 DEF Received
<1> QED
  BY <1>2, <1>4, <1>5 DEF EventsStay

LEMMA FailFacts ==
    ASSUME InboundInv, Running, NEW outcome, NEW error \in Error,
           Fail(run.event, outcome, error)
    PROVE  EventsStay /\ run' = NoRun
<1>1. event \in Seq(EventRow) /\ run.event \in Received /\ event[run.event].status = "open"
  BY DEF InboundInv, TypeOK
<1>2. \E status \in {"open", "dead"} : Close(run.event, status, error)
  BY DEF Fail
<1> QED
  BY <1>1, <1>2, CloseFacts DEF Fail

-----------------------------------------------------------------------------
(* What a step that concludes nothing keeps *)

\* The replies and transitions of an event are added to while it is executed.
RepliesStay ==
    /\ DOMAIN reply \subseteq DOMAIN reply'
    /\ \A e \in DOMAIN reply' : e \in DOMAIN checkpoint /\ checkpoint[e].plan \notin Silent
    /\ \A e \in DOMAIN reply : event[e].status # "open" => reply'[e] = reply[e]
    /\ DOMAIN transition \subseteq DOMAIN transition'

Earned ==
    /\ \A e \in DOMAIN checkpoint : \A d \in 1..e - 1 : event[d].status # "open"
    /\ BatchIsText /\ BatchIsSpent /\ ReplyIsPlanned /\ FinishedOrDisturbed

LEMMA RepliesUnchanged ==
    ASSUME InboundInv, UNCHANGED <<reply, transition>>
    PROVE  RepliesStay
BY DEF InboundInv, TypeOK, RepliesStay, ReplyIsPlanned

LEMMA StayIsEarned ==
    ASSUME InboundInv, EventsStay, RepliesStay, Met, UNCHANGED checkpoint
    PROVE  Earned'
<1>0. /\ DOMAIN checkpoint \subseteq Received /\ Len(event) \in Nat
      /\ \A e \in DOMAIN checkpoint : checkpoint[e] \in Checkpoint
      /\ DOMAIN reply \subseteq DOMAIN checkpoint
  BY DEF InboundInv, TypeOK
<1>1. Received' = Received
  BY DEF EventsStay, Received
<1>2. \A d \in Received : event'[d].status = "open" => event[d].status = "open"
  BY DEF EventsStay
<1>3. \A d \in Received : event'[d].status = "delivered" <=> event[d].status = "delivered"
  BY DEF EventsStay
<1>4. \A e \in DOMAIN checkpoint : \A d \in 1..e - 1 : event'[d].status # "open"
  <2> SUFFICES ASSUME NEW e \in DOMAIN checkpoint, NEW d \in 1..e - 1
               PROVE  event'[d].status # "open"
    OBVIOUS
  <2>1. d \in Received
    BY <1>0 DEF Received
  <2> QED
    BY <1>2, <2>1 DEF InboundInv, OpenIsNext
<1>5. BatchIsText'
  <2> SUFFICES ASSUME NEW e \in DOMAIN checkpoint
               PROVE  LET B == checkpoint[e].batch
                      IN  /\ e \in B /\ B \subseteq e..Len(event)
                          /\ \A m \in B \ {e} : event'[e].kind = "text" /\ event'[m].kind = "text"
                          /\ \A m \in B : \A f \in e..m : event'[f].kind = "text" => f \in B
                          /\ event'[e].topic = "notification" => checkpoint[e].plan = "observe"
    BY DEF BatchIsText, EventsStay
  <2> DEFINE B == checkpoint[e].batch
  <2>1. /\ e \in B /\ B \subseteq e..Len(event)
        /\ \A m \in B \ {e} : event[e].kind = "text" /\ event[m].kind = "text"
        /\ \A m \in B : \A f \in e..m : event[f].kind = "text" => f \in B
        /\ event[e].topic = "notification" => checkpoint[e].plan = "observe"
    BY DEF InboundInv, BatchIsText
  <2>2. e \in Received /\ e..Len(event) \subseteq Received
    BY <1>0 DEF Received
  <2>3. \A m \in B : m \in Received /\ e..m \subseteq Received
    BY <2>1, <2>2, <1>0 DEF Received
  <2> QED
    BY <2>1, <2>2, <2>3 DEF EventsStay
<1>6. BatchIsSpent'
  <2> SUFFICES ASSUME NEW e \in DOMAIN checkpoint, event'[e].status = "delivered",
                      event'[e].topic = "persisted", <<e, "pause">> \notin interrupted',
                      NEW f \in checkpoint[e].batch \ {e}, event'[f].topic = "persisted"
               PROVE  event'[f].status # "open" /\ f \notin DOMAIN checkpoint
    BY DEF BatchIsSpent
  <2>1. e \in Received /\ f \in Received
    BY <1>0 DEF InboundInv, BatchIsText, Received
  <2>2. event[f].status # "open" /\ f \notin DOMAIN checkpoint
    BY <1>3, <2>1 DEF InboundInv, BatchIsSpent, EventsStay, Met
  <2> QED
    BY <1>2, <2>1, <2>2
<1>7. ReplyIsPlanned'
  BY DEF RepliesStay, ReplyIsPlanned
<1>8. FinishedOrDisturbed'
  <2> SUFFICES ASSUME NEW e \in DOMAIN checkpoint, event'[e].status = "delivered"
               PROVE  Finished(e)' \/ Disturbed(e)'
    BY DEF FinishedOrDisturbed
  <2>1. event[e].status = "delivered"
    BY <1>0, <1>3
  <2>2. Disturbed(e) => Disturbed(e)'
    BY DEF Disturbed, Met
  <2>3. Finished(e) => Finished(e)'
    BY <2>1 DEF Finished, RepliesStay
  <2> QED
    BY <2>1, <2>2, <2>3 DEF InboundInv, FinishedOrDisturbed
<1> QED
  BY <1>4, <1>5, <1>6, <1>7, <1>8 DEF Earned

-----------------------------------------------------------------------------
(* The execution under way, after a step *)

RunFits ==
    /\ TypeRun /\ RunIsKnown
    /\ Running => /\ run.event \in Received /\ event[run.event].status = "open"
                  /\ \A d \in 1..run.event - 1 : event[d].status # "open"

RepliesTyped ==
    /\ reply \in [DOMAIN reply ->
                    {"pending", "leased", "sent", "unknown", "failed", "handed"}]
    /\ DOMAIN reply \subseteq DOMAIN checkpoint

TransitionsTyped ==
    /\ transition \in [DOMAIN transition -> 2..version]
    /\ DOMAIN transition \subseteq Received \X {"before", "after", "handoff"}

LEMMA StepKeeps ==
    ASSUME InboundInv, EventsStay, RepliesStay, Met, UNCHANGED checkpoint,
           version' \in Nat \ {0}, state' \in State, agents' \in BOOLEAN,
           RepliesTyped', TransitionsTyped', RunFits'
    PROVE  InboundInv'
<1>1. Earned'
  BY StayIsEarned
<1>2. Received' = Received
  BY DEF EventsStay, Received
<1>3. interrupted' \subseteq Received' \X {"people", "pause"}
  BY <1>2 DEF Met, InboundInv, TypeOK
<1>4. TypeOK'
  BY <1>2, <1>3 DEF InboundInv, TypeOK, EventsStay, RepliesTyped, TransitionsTyped, RunFits
<1>5. OpenIsNext'
  BY <1>1 DEF Earned, OpenIsNext, RunFits
<1> QED
  BY <1>1, <1>4, <1>5 DEF InboundInv, Earned, RunFits

LEMMA FitsNow == ASSUME InboundInv PROVE RunFits /\ RepliesTyped /\ TransitionsTyped
BY DEF InboundInv, RunFits, TypeOK, OpenIsNext, RepliesTyped, TransitionsTyped

LEMMA TransitionsUnchanged ==
    ASSUME InboundInv, EventsStay, UNCHANGED transition, version' \in Nat, version <= version'
    PROVE  TransitionsTyped'
<1>1. version \in Nat /\ 2..version \subseteq 2..version'
  BY DEF InboundInv, TypeOK
<1>2. Received' = Received
  BY DEF EventsStay, Received
<1> QED
  BY <1>1, <1>2, FitsNow DEF TransitionsTyped

LEMMA NoRunFits == ASSUME run' = NoRun PROVE RunFits'
<1>1. << >> \in Seq(Steps) /\ {} \in SUBSET (1..MaxMessages) /\ 0 \in Nat
  OBVIOUS
<1>2. TypeRun'
  BY <1>1 DEF TypeRun, NoRun
<1> QED
  BY <1>2 DEF RunFits, RunIsKnown, Running

\* People change the conversation under an execution.
LEMMA RunUnchangedFits ==
    ASSUME InboundInv, Met, UNCHANGED <<event, checkpoint, transition, reply, run>>
    PROVE  RunFits'
<1>1. TypeRun' /\ (Running' <=> Running) /\ Received' = Received
  BY DEF InboundInv, TypeRun, Running, Received
<1>2. \A e, todo : Begun(e, todo) => Begun(e, todo)'
  BY DEF Begun, Sent
<1>3. \A e : Disturbed(e) => Disturbed(e)'
  BY DEF Disturbed, Met
<1>4. RunIsKnown'
  BY <1>1, <1>2, <1>3 DEF InboundInv, RunIsKnown, Met
<1> QED
  BY <1>1, <1>4, FitsNow DEF RunFits

\* The execution goes on with another list of steps.
GoesOn(todo) == /\ TypeRun' /\ run'.event = run.event /\ run'.batch = run.batch
                /\ run'.todo = todo

LEMMA RunGoesFits ==
    ASSUME InboundInv, Running, UNCHANGED event, TypeRun', run'.event = run.event, RunIsKnown'
    PROVE  RunFits'
<1>1. Received' = Received
  BY DEF Received
<1> QED
  BY <1>1, FitsNow DEF RunFits, Running

LEMMA GoesOnFits ==
    ASSUME InboundInv, Running, UNCHANGED <<event, checkpoint>>, NEW todo, GoesOn(todo),
           NEW e \in DOMAIN checkpoint, e = run.event,
           event[e].topic = "persisted" => run.batch = checkpoint[e].batch,
           Begun(e, todo)' \/ todo = <<"superseded">>
             \/ (todo = <<"complete">> /\ Disturbed(e)')
    PROVE  RunFits'
<1>1. RunIsKnown'
  BY DEF RunIsKnown, GoesOn
<1> QED
  BY <1>1, RunGoesFits DEF GoesOn

\* A step of a script.
LEMMA OnScript ==
    ASSUME InboundInv, Running, Step \notin Last
    PROVE  /\ run.event \in DOMAIN checkpoint /\ run.event \in Received
           /\ checkpoint[run.event].plan \in DOMAIN Script
           /\ event[run.event].status = "open"
           /\ event[run.event].topic = "persisted" => run.batch = checkpoint[run.event].batch
           /\ Begun(run.event, run.todo) /\ Rest(run.todo)
           /\ run.todo # << >> /\ run.todo \in Seq(Steps) /\ Ahead(Step, run.todo)
<1>1. run.todo \notin First /\ run.todo # <<"superseded">> /\ run.todo # <<"complete">>
  BY DEF Step, Last, First
<1>2. /\ run.event \in DOMAIN checkpoint
      /\ event[run.event].topic = "persisted" => run.batch = checkpoint[run.event].batch
      /\ Begun(run.event, run.todo)
  BY <1>1 DEF InboundInv, RunIsKnown
<1>3. checkpoint[run.event].plan \in DOMAIN Script
  BY <1>2 DEF InboundInv, TypeOK, Checkpoint
<1>4. Rest(run.todo) /\ run.todo # << >> /\ run.todo \in Seq(Steps)
  BY <1>2 DEF Begun, Rest
<1>5. 1 \in DOMAIN run.todo /\ run.todo[1] = Step
  BY <1>4 DEF Step
<1>6. Ahead(Step, run.todo)
  BY <1>5 DEF Ahead
<1>7. run.event \in Received /\ event[run.event].status = "open"
  BY DEF InboundInv, TypeOK
<1> QED
  BY <1>2, <1>3, <1>4, <1>6, <1>7

\* A step that was done leaves the rest of the script begun.
LEMMA DoneIsBegun ==
    ASSUME InboundInv, Running, Step \notin Last, UNCHANGED checkpoint, RepliesStay,
           NEW e, e = run.event, NEW rest, rest = Tail(run.todo),
           Sent(e) => Sent(e)' \/ checkpoint[e].plan = "handoff",
           Step \in {"reply", "handoff"} => e \in DOMAIN reply',
           Step = "record" => Sent(e)',
           Step = "after" => <<e, "after">> \in DOMAIN transition'
    PROVE  Begun(e, rest)'
<1> DEFINE todo == run.todo
           p == checkpoint[e].plan
<1>1. Begun(e, todo) /\ Rest(todo) /\ Step = Head(todo)
  BY OnScript DEF Step
<1>2. /\ Rest(rest)
      /\ \A s : Ahead(s, todo) => s = Step \/ Ahead(s, rest)
      /\ \A s : Ahead(s, rest) => Ahead(s, todo)
      /\ \A i \in DOMAIN rest : i + 1 \in DOMAIN todo /\ rest[i] = todo[i + 1]
  BY <1>1, RestOfRest
<1>3. \A i \in DOMAIN rest : rest[i] \in Last => rest[i] = "complete"
  BY <1>1, <1>2 DEF Begun
<1>4. "handoff" \notin Sends
  BY DEF Sends
<1> HIDE DEF todo
<1>5. /\ \A s \in {"reply", "claim", "record"} : Ahead(s, rest) => p \in Sends
      /\ Ahead("handoff", rest) => p = "handoff"
  BY <1>1, <1>2 DEF Begun
<1>6. p \in Sends => /\ Ahead("reply", rest) \/ e \in DOMAIN reply'
                     /\ Ahead("record", rest) \/ Sent(e)'
  BY <1>1, <1>2, <1>4 DEF Begun, RepliesStay
<1>7. p = "handoff" => Ahead("handoff", rest) \/ e \in DOMAIN reply'
  BY <1>1, <1>2 DEF Begun, RepliesStay
<1>8. p = "summary" => Ahead("after", rest) \/ <<e, "after">> \in DOMAIN transition'
  BY <1>1, <1>2 DEF Begun, RepliesStay
<1> QED
  BY <1>2, <1>3, <1>5, <1>6, <1>7, <1>8 DEF Begun

-----------------------------------------------------------------------------
(* The steps of people *)

LEMMA PeopleKeep ==
    ASSUME InboundInv, UNCHANGED <<event, checkpoint, transition, reply, run>>, Interrupt,
           version' \in Nat \ {0}, version <= version', state' \in State, agents' \in BOOLEAN
    PROVE  InboundInv'
<1>1. Met /\ EventsStay /\ RepliesStay
  BY InterruptMeets, EventsUnchanged, RepliesUnchanged DEF InboundInv, TypeOK
<1>2. RunFits'
  BY <1>1, RunUnchangedFits
<1>3. TransitionsTyped'
  BY <1>1, TransitionsUnchanged
<1>4. RepliesTyped'
  BY FitsNow DEF RepliesTyped
<1> QED
  BY <1>1, <1>2, <1>3, <1>4, StepKeeps

LEMMA TakeoverKeeps == ASSUME InboundInv, ExternalTakeover PROVE InboundInv'
BY PeopleKeep DEF ExternalTakeover, InboundInv, TypeOK, State

LEMMA OperateKeeps == ASSUME InboundInv, NEW o \in Operation, Operate(o) PROVE InboundInv'
BY PeopleKeep DEF Operate, InboundInv, TypeOK, State

LEMMA SetAgentsKeeps ==
    ASSUME InboundInv, NEW on \in AgentsMayBe, SetAgents(on)
    PROVE  InboundInv'
BY InboundAssumption, PeopleKeep DEF SetAgents, InboundInv, TypeOK

-----------------------------------------------------------------------------
(* The steps that end an execution without a conclusion, or begin one *)

LEMMA FailKeeps ==
    ASSUME InboundInv, Running, NEW outcome, NEW error \in Error,
           Fail(run.event, outcome, error), Interrupt, RepliesStay, RepliesTyped',
           UNCHANGED <<version, state, agents, checkpoint, transition>>
    PROVE  InboundInv'
<1>1. Met /\ EventsStay /\ run' = NoRun
  BY InterruptMeets, FailFacts
<1>2. version \in Nat \ {0} /\ version <= version /\ state \in State /\ agents \in BOOLEAN
  BY DEF InboundInv, TypeOK
<1>3. TransitionsTyped'
  BY <1>1, <1>2, TransitionsUnchanged
<1> QED
  BY <1>1, <1>2, <1>3, NoRunFits, StepKeeps

LEMMA PlainFailKeeps ==
    ASSUME InboundInv, Running, NEW outcome, NEW error \in Error,
           Fail(run.event, outcome, error), Interrupt, Unchanged
    PROVE  InboundInv'
<1>1. RepliesStay
  BY RepliesUnchanged DEF Unchanged
<1>2. RepliesTyped'
  BY FitsNow DEF RepliesTyped, Unchanged
<1> QED
  BY <1>1, <1>2, FailKeeps DEF Unchanged

LEMMA FaultKeeps == ASSUME InboundInv, Fault PROVE InboundInv'
<1>1. "execution" \in Error
  BY DEF Error
<1> QED
  BY <1>1, PlainFailKeeps DEF Fault

LEMMA StartKeeps == ASSUME InboundInv, NEW e \in Received, Start(e) PROVE InboundInv'
<1>1. event \in [Received -> EventRow] /\ Len(event) \in Nat
  BY DEF InboundInv, TypeOK, Received
<1> DEFINE row == [event[e] EXCEPT !.attempts = @ + 1]
<1>2. /\ row \in EventRow /\ row.kind = event[e].kind /\ row.topic = event[e].topic
      /\ row.status = event[e].status
  BY <1>1 DEF EventRow
<1>3. event' = [event EXCEPT ![e] = row]
  BY <1>1 DEF Start, EventRow
<1> HIDE DEF row
<1>4. event' \in [Received -> EventRow] /\ event'[e] = row
      /\ \A d \in Received : d # e => event'[d] = event[d]
  BY <1>1, <1>2, <1>3
<1>5. event' \in Seq(EventRow) /\ Len(event') = Len(event) /\ Received' = Received
  BY <1>1, <1>4 DEF Received
<1>6. EventsStay /\ \A d \in Received : event'[d].status = event[d].status
  BY <1>2, <1>4, <1>5 DEF EventsStay
<1>7. Met /\ RepliesStay /\ RepliesTyped'
  BY InterruptMeets, RepliesUnchanged, FitsNow DEF Start, RepliesTyped
<1>8. version \in Nat \ {0} /\ version <= version /\ state \in State /\ agents \in BOOLEAN
  BY DEF InboundInv, TypeOK
<1>9. TransitionsTyped'
  BY <1>6, <1>8, TransitionsUnchanged DEF Start
<1>10. RunFits'
  <2>1. run' = [event |-> e, todo |-> <<"validate">>, version |-> 0, batch |-> {}]
    BY DEF Start
  <2>2. e \in Nat /\ <<"validate">> \in Seq(Steps) /\ {} \in SUBSET (1..MaxMessages)
    BY DEF Received, Steps
  <2>3. TypeRun'
    BY <2>1, <2>2 DEF TypeRun
  <2>4. RunIsKnown'
    BY <2>1 DEF RunIsKnown, First
  <2>5. \A d \in 1..e - 1 : d \in Received
    BY <1>1 DEF Received
  <2>6. e \in Received' /\ event'[e].status = "open" /\ \A d \in 1..e - 1 : event'[d].status # "open"
    BY <1>5, <1>6, <2>5 DEF Start
  <2> QED
    BY <2>1, <2>3, <2>4, <2>6 DEF RunFits
<1> QED
  BY <1>6, <1>7, <1>8, <1>9, <1>10, StepKeeps DEF Start

-----------------------------------------------------------------------------
(* The steps of an execution *)

\* A step that changes the execution only.
LEMMA StepInRunKeeps ==
    ASSUME InboundInv, Running, UNCHANGED event, Unchanged, Interrupt, RunFits'
    PROVE  InboundInv'
<1>1. Met /\ EventsStay /\ RepliesStay /\ RepliesTyped'
  BY InterruptMeets, EventsUnchanged, RepliesUnchanged, FitsNow
     DEF InboundInv, TypeOK, Unchanged, RepliesTyped
<1>2. version \in Nat \ {0} /\ version <= version /\ state \in State /\ agents \in BOOLEAN
  BY DEF InboundInv, TypeOK
<1>3. TransitionsTyped'
  BY <1>1, <1>2, TransitionsUnchanged DEF Unchanged
<1> QED
  BY <1>1, <1>2, <1>3, StepKeeps DEF Unchanged

LEMMA FirstFits ==
    ASSUME InboundInv, Running, UNCHANGED event, NEW todo \in First,
           run' = [run EXCEPT !.todo = todo]
    PROVE  RunFits'
<1>1. todo \in Seq(Steps)
  <2>1. /\ <<"validate">> \in Seq(Steps) /\ <<"channel">> \in Seq(Steps)
        /\ <<"gather">> \in Seq(Steps)
    BY DEF Steps
  <2> QED
    BY <2>1 DEF First
<1>2. TypeRun' /\ run'.event = run.event /\ run'.todo = todo
  BY <1>1 DEF InboundInv, TypeRun
<1>3. RunIsKnown'
  BY <1>2 DEF RunIsKnown
<1> QED
  BY <1>2, <1>3, RunGoesFits

LEMMA ValidateKeeps == ASSUME InboundInv, Validate PROVE InboundInv'
<1>1. CASE Invalid(event[run.event])
  <2>1. "invalid" \in Error
    BY DEF Error
  <2> QED
    BY <1>1, <2>1, PlainFailKeeps DEF Validate, At
<1>2. CASE ~Invalid(event[run.event])
  <2>1. <<"channel">> \in First
    BY DEF First
  <2> QED
    BY <1>2, <2>1, FirstFits, StepInRunKeeps DEF Validate, At
<1> QED
  BY <1>1, <1>2

LEMMA ChannelKeeps == ASSUME InboundInv, CheckChannel PROVE InboundInv'
<1>0. Running /\ UNCHANGED event /\ Unchanged /\ Interrupt
  BY DEF CheckChannel, At, Unchanged
<1>1. CASE agents
  <2>1. <<"gather">> \in First
    BY DEF First
  <2> QED
    BY <1>0, <1>1, <2>1, FirstFits, StepInRunKeeps DEF CheckChannel
<1>2. CASE ~agents
  <2>1. run' = [run EXCEPT !.todo = <<"complete">>, !.batch = {run.event}]
    BY <1>2 DEF CheckChannel
  <2>2. run.event \in Received /\ event[run.event].status = "open" /\ Received' = Received
    BY <1>0 DEF InboundInv, TypeOK, Received
  <2>3. <<run.event, "pause">> \in interrupted'
    BY <1>0, <1>2, <2>2, InterruptMeets DEF Met, Unchanged
  <2>4. {run.event} \in SUBSET (1..MaxMessages)
    <3>1. Len(event) \in Nat /\ Len(event) <= MaxMessages
      BY DEF InboundInv, TypeOK
    <3>2. run.event \in 1..MaxMessages
      BY <2>2, <3>1, InboundAssumption DEF Received
    <3> QED
      BY <3>2
  <2>5. <<"complete">> \in Seq(Steps)
    BY DEF Steps
  <2>6. /\ TypeRun' /\ run'.event = run.event /\ run'.todo = <<"complete">>
        /\ run'.batch = {run.event}
    BY <2>1, <2>4, <2>5 DEF InboundInv, TypeRun
  <2>7. RunIsKnown'
    BY <2>3, <2>6 DEF RunIsKnown
  <2> QED
    BY <1>0, <2>6, <2>7, RunGoesFits, StepInRunKeeps
<1> QED
  BY <1>1, <1>2

LEMMA ScriptDone ==
    ASSUME InboundInv, Running, Step \notin Last, UNCHANGED <<event, checkpoint>>,
           Interrupt, GoesOn(Tail(run.todo)), RepliesStay, RepliesTyped', TransitionsTyped',
           version' \in Nat \ {0}, state' \in State, agents' \in BOOLEAN,
           \A e : e = run.event =>
             /\ Sent(e) => Sent(e)' \/ checkpoint[e].plan = "handoff"
             /\ Step \in {"reply", "handoff"} => e \in DOMAIN reply'
             /\ Step = "record" => Sent(e)'
             /\ Step = "after" => <<e, "after">> \in DOMAIN transition'
    PROVE  InboundInv'
<1> SUFFICES ASSUME NEW e, e = run.event, NEW rest, rest = Tail(run.todo) PROVE InboundInv'
  OBVIOUS
<1>1. Begun(e, rest)'
  BY DoneIsBegun
<1>2. RunFits'
  BY <1>1, OnScript, GoesOnFits DEF GoesOn
<1>3. Met /\ EventsStay
  BY InterruptMeets, EventsUnchanged DEF InboundInv, TypeOK
<1> QED
  BY <1>2, <1>3, StepKeeps

\* A conflict puts the rest of the script aside.
LEMMA ConflictKeeps ==
    ASSUME InboundInv, Running, Step \notin Last, UNCHANGED event, Unchanged, Interrupt,
           Conflict
    PROVE  InboundInv'
<1>1. <<"superseded">> \in Seq(Steps)
  BY DEF Steps
<1>2. GoesOn(<<"superseded">>)
  BY <1>1 DEF Conflict, GoesOn, InboundInv, TypeRun
<1>3. RunFits'
  BY <1>2, OnScript, GoesOnFits DEF Unchanged
<1> QED
  BY <1>3, StepInRunKeeps

LEMMA AdvanceGoesOn ==
    ASSUME InboundInv, Running, Step \notin Last, Advance
    PROVE  GoesOn(Tail(run.todo))
<1>1. Rest(run.todo) /\ Step = Head(run.todo)
  BY OnScript DEF Step
<1>2. Tail(run.todo) \in Seq(Steps)
  BY <1>1, RestOfRest DEF Rest
<1> QED
  BY <1>2 DEF Advance, GoesOn, InboundInv, TypeRun

LEMMA PlainData ==
    ASSUME InboundInv
    PROVE  version \in Nat \ {0} /\ state \in State /\ agents \in BOOLEAN
BY DEF InboundInv, TypeOK

LEMMA AuthorizeKeeps == ASSUME InboundInv, Authorize PROVE InboundInv'
<1>0. /\ Running /\ Step = "authorize" /\ Step \notin Last
      /\ UNCHANGED event /\ Unchanged /\ Interrupt
  BY DEF Authorize, At, Last
<1>1. CASE ~GateOpen
  BY <1>0, <1>1, ConflictKeeps DEF Authorize
<1>2. CASE GateOpen
  <2>1. GoesOn(Tail(run.todo))
    BY <1>0, <1>2, AdvanceGoesOn DEF Authorize
  <2>2. RepliesStay /\ RepliesTyped' /\ TransitionsTyped'
    BY <1>0, FitsNow, RepliesUnchanged
       DEF Unchanged, RepliesTyped, TransitionsTyped, Received
  <2> QED
    BY <1>0, <2>1, <2>2, PlainData, ScriptDone DEF Unchanged, Sent
<1> QED
  BY <1>1, <1>2

\* A reply of the event under way is added or changed.
LEMMA ReplyFacts ==
    ASSUME InboundInv, Running, Step \notin Last, UNCHANGED <<checkpoint, transition>>,
           checkpoint[run.event].plan \notin Silent,
           NEW s \in {"pending", "leased", "sent", "unknown", "failed", "handed"},
           reply' = [f \in DOMAIN reply \cup {run.event} |-> IF f = run.event THEN s ELSE reply[f]]
    PROVE  RepliesStay /\ RepliesTyped' /\ run.event \in DOMAIN reply' /\ reply'[run.event] = s
<1>1. run.event \in DOMAIN checkpoint /\ event[run.event].status = "open"
  BY OnScript
<1>2. RepliesTyped
  BY FitsNow
<1>3. RepliesTyped'
  BY <1>1, <1>2 DEF RepliesTyped
<1>4. RepliesStay
  BY <1>1, <1>2 DEF InboundInv, ReplyIsPlanned, RepliesStay, RepliesTyped
<1> QED
  BY <1>3, <1>4

LEMMA CreateReplyKeeps == ASSUME InboundInv, CreateReply PROVE InboundInv'
<1> DEFINE e == run.event
<1>0. /\ Running /\ Step = "reply" /\ Step \notin Last /\ Interrupt
      /\ UNCHANGED <<version, state, agents, event, checkpoint, transition>>
  BY DEF CreateReply, At, Last
<1>1. checkpoint[e].plan \in Sends /\ checkpoint[e].plan \notin Silent
  BY <1>0, OnScript DEF Begun, Sends, Silent
<1>2. TransitionsTyped'
  BY <1>0, FitsNow DEF TransitionsTyped, Received
<1>3. CASE Conflict /\ UNCHANGED reply
  BY <1>0, <1>3, ConflictKeeps DEF Unchanged
<1>4. CASE e \in DOMAIN reply /\ Advance /\ UNCHANGED reply
  <2>1. GoesOn(Tail(run.todo))
    BY <1>0, <1>4, AdvanceGoesOn
  <2>2. RepliesStay /\ RepliesTyped'
    BY <1>0, <1>4, FitsNow, RepliesUnchanged DEF RepliesTyped
  <2> QED
    BY <1>0, <1>2, <1>4, <2>1, <2>2, PlainData, ScriptDone DEF Sent
<1>5. CASE /\ e \notin DOMAIN reply /\ Advance
           /\ reply' = [f \in DOMAIN reply \cup {e} |-> IF f = e THEN "pending" ELSE reply[f]]
  <2>1. GoesOn(Tail(run.todo))
    BY <1>0, <1>5, AdvanceGoesOn
  <2>2. RepliesStay /\ RepliesTyped' /\ e \in DOMAIN reply'
    BY <1>0, <1>1, <1>5, ReplyFacts
  <2> QED
    BY <1>0, <1>2, <1>5, <2>1, <2>2, PlainData, ScriptDone DEF Sent
<1> QED
  BY <1>3, <1>4, <1>5 DEF CreateReply

\* Claim and record find the reply that the script created.
LEMMA ReplyWasCreated ==
    ASSUME InboundInv, Running, Step \in {"claim", "record"}
    PROVE  /\ run.event \in DOMAIN reply /\ checkpoint[run.event].plan \in Sends
           /\ checkpoint[run.event].plan \notin Silent
<1>1. Step \notin Last
  BY DEF Last
<1>2. /\ Begun(run.event, run.todo) /\ Rest(run.todo) /\ Step = Head(run.todo)
      /\ Ahead(Step, run.todo)
  BY <1>1, OnScript DEF Step
<1>3. checkpoint[run.event].plan \in Sends
  BY <1>2 DEF Begun
<1>4. ~Ahead("reply", run.todo)
  BY <1>2, ClaimAndRecord
<1> QED
  BY <1>2, <1>3, <1>4 DEF Begun, Sends, Silent

LEMMA SetReplyFacts ==
    ASSUME InboundInv, Running, Step \in {"claim", "record"},
           UNCHANGED <<checkpoint, transition>>,
           NEW s \in {"pending", "leased", "sent", "unknown", "failed", "handed"},
           SetReply(run.event, s)
    PROVE  RepliesStay /\ RepliesTyped' /\ run.event \in DOMAIN reply' /\ reply'[run.event] = s
<1>1. run.event \in DOMAIN reply /\ checkpoint[run.event].plan \notin Silent
  BY ReplyWasCreated
<1>2. reply' = [f \in DOMAIN reply \cup {run.event} |-> IF f = run.event THEN s ELSE reply[f]]
  BY <1>1, FitsNow DEF SetReply, RepliesTyped
<1>3. Step \notin Last
  BY DEF Last
<1> QED
  BY <1>1, <1>2, <1>3, ReplyFacts

LEMMA ClaimReplyKeeps == ASSUME InboundInv, ClaimReply PROVE InboundInv'
<1> DEFINE e == run.event
<1>0. /\ Running /\ Step = "claim" /\ Step \notin Last /\ Interrupt
      /\ UNCHANGED <<version, state, agents, checkpoint, transition>>
  BY DEF ClaimReply, At, Last
<1>1. TransitionsTyped' \/ event' # event
  BY <1>0, FitsNow DEF TransitionsTyped, Received
<1>2. "delivery" \in Error
  BY DEF Error
<1>3. CASE Conflict /\ UNCHANGED <<event, reply>>
  BY <1>0, <1>3, ConflictKeeps DEF Unchanged
<1>4. CASE reply[e] = "pending" /\ SetReply(e, "leased") /\ Advance /\ UNCHANGED event
  <2>1. GoesOn(Tail(run.todo))
    BY <1>0, <1>4, AdvanceGoesOn
  <2>2. RepliesStay /\ RepliesTyped'
    BY <1>0, <1>4, SetReplyFacts
  <2> QED
    BY <1>0, <1>1, <1>4, <2>1, <2>2, PlainData, ScriptDone DEF Sent
<1>5. CASE reply[e] = "sent" /\ run' = [run EXCEPT !.todo = Tail(Tail(@))]
           /\ UNCHANGED <<event, reply>>
  <2> SUFFICES ASSUME NEW d, d = e, NEW mid, mid = Tail(run.todo), NEW rest, rest = Tail(mid)
               PROVE  InboundInv'
    OBVIOUS
  <2>1. RepliesStay /\ RepliesTyped'
    BY <1>0, <1>5, FitsNow, RepliesUnchanged DEF RepliesTyped
  <2>2. Sent(d) /\ Sent(d)'
    BY <1>0, <1>5, ReplyWasCreated DEF Sent
  <2>3. Begun(d, mid)'
    BY <1>0, <2>1, <2>2, DoneIsBegun
  <2>4. Rest(run.todo) /\ Step = Head(run.todo)
    BY <1>0, OnScript DEF Step
  <2>5. Rest(mid) /\ Head(mid) = "record"
    BY <1>0, <2>4, RestOfRest, ClaimAndRecord
  <2>6. Rest(rest) /\ (\A s : Ahead(s, mid) => s = "record" \/ Ahead(s, rest))
        /\ (\A s : Ahead(s, rest) => Ahead(s, mid))
        /\ \A i \in DOMAIN rest : i + 1 \in DOMAIN mid /\ rest[i] = mid[i + 1]
    BY <2>5, RestOfRest DEF Last
  <2>7. Begun(d, rest)'
    BY <2>2, <2>3, <2>6 DEF Begun
  <2>8. GoesOn(rest)
    BY <1>5, <2>6 DEF GoesOn, InboundInv, TypeRun, Rest
  <2>9. RunFits'
    BY <1>0, <1>5, <2>7, <2>8, OnScript, GoesOnFits
  <2> QED
    BY <1>0, <1>5, <2>9, StepInRunKeeps DEF Unchanged
<1>6. CASE \E o \in {"retryable", "terminal"} : Fail(e, o, "delivery") /\ UNCHANGED reply
  BY <1>0, <1>2, <1>6, PlainFailKeeps DEF Unchanged
<1>7. CASE Fail(e, "terminal", "delivery") /\ SetReply(e, "unknown")
  <2>1. RepliesStay /\ RepliesTyped'
    BY <1>0, <1>7, SetReplyFacts
  <2> QED
    BY <1>0, <1>2, <1>7, <2>1, FailKeeps
<1> QED
  BY <1>3, <1>4, <1>5, <1>6, <1>7 DEF ClaimReply

LEMMA RecordKeeps == ASSUME InboundInv, RecordResult PROVE InboundInv'
<1> DEFINE e == run.event
<1>0. /\ Running /\ Step = "record" /\ Step \notin Last /\ Interrupt
      /\ UNCHANGED <<version, state, agents, checkpoint, transition>>
  BY DEF RecordResult, At, Last
<1>1. CASE SetReply(e, "sent") /\ Advance /\ UNCHANGED event
  <2>1. GoesOn(Tail(run.todo))
    BY <1>0, <1>1, AdvanceGoesOn
  <2>2. RepliesStay /\ RepliesTyped' /\ e \in DOMAIN reply' /\ reply'[e] = "sent"
    BY <1>0, <1>1, SetReplyFacts
  <2>3. TransitionsTyped'
    BY <1>0, <1>1, FitsNow DEF TransitionsTyped, Received
  <2> QED
    BY <1>0, <1>1, <2>1, <2>2, <2>3, PlainData, ScriptDone DEF Sent
<1>2. ASSUME NEW s \in {"unknown", "failed"}, SetReply(e, s), Fail(e, "terminal", "delivery")
      PROVE  InboundInv'
  <2>1. RepliesStay /\ RepliesTyped'
    BY <1>0, <1>2, SetReplyFacts
  <2>2. "delivery" \in Error
    BY DEF Error
  <2> QED
    BY <1>0, <1>2, <2>1, <2>2, FailKeeps
<1> QED
  BY <1>1, <1>2 DEF RecordResult

LEMMA AfterConflictKeeps == ASSUME InboundInv, AfterConflict PROVE InboundInv'
<1>0. Running /\ Step = "superseded" /\ Unchanged /\ Interrupt
  BY DEF AfterConflict, At, Unchanged
<1>1. CASE ~GivesWay
  <2>1. "conflict" \in Error
    BY DEF Error
  <2> QED
    BY <1>0, <1>1, <2>1, PlainFailKeeps DEF AfterConflict
<1>2. CASE GivesWay
  <2> SUFFICES ASSUME NEW e, e = run.event PROVE InboundInv'
    OBVIOUS
  <2>1. run' = [run EXCEPT !.todo = <<"complete">>] /\ UNCHANGED event
    BY <1>2 DEF AfterConflict
  <2>2. <<"complete">> \in Seq(Steps)
    BY DEF Steps
  <2>3. GoesOn(<<"complete">>)
    BY <2>1, <2>2 DEF GoesOn, InboundInv, TypeRun
  <2>4. e \in Received /\ event[e].status = "open" /\ Received' = Received
    BY <1>0, <2>1 DEF InboundInv, TypeOK, Received
  <2>5. Disturbed(e)'
    BY <1>0, <1>2, <2>1, <2>4, InterruptMeets
       DEF Met, GivesWay, WithPeople, Unchanged, Disturbed
  <2>6. run.todo \notin First /\ run.todo # <<"complete">>
    BY <1>0 DEF First, Step
  <2>7. e \in DOMAIN checkpoint
        /\ (event[e].topic = "persisted" => run.batch = checkpoint[e].batch)
    BY <1>0, <2>6 DEF InboundInv, RunIsKnown
  <2>8. RunFits'
    BY <1>0, <2>1, <2>3, <2>5, <2>7, GoesOnFits DEF Unchanged
  <2> QED
    BY <1>0, <2>1, <2>8, StepInRunKeeps
<1> QED
  BY <1>1, <1>2

LEMMA TransitKeeps ==
    ASSUME InboundInv, NEW step \in {"before", "after", "handoff"}, Transit(step)
    PROVE  InboundInv'
<1> DEFINE key == <<run.event, step>>
<1>0. /\ Running /\ Step = step /\ Step \notin Last /\ Interrupt
      /\ UNCHANGED <<agents, event, checkpoint>>
  BY DEF Transit, At, Last
<1>1. run.event \in Received /\ Rest(run.todo) /\ Step = Head(run.todo)
      /\ Begun(run.event, run.todo) /\ Ahead(Step, run.todo) /\ Received' = Received
  BY <1>0, OnScript DEF Step, Received
<1>2. Tail(run.todo) \in Seq(Steps)
  BY <1>0, <1>1, RestOfRest DEF Rest
<1>3. CASE Conflict /\ UNCHANGED <<version, state, transition, reply>>
  BY <1>0, <1>3, ConflictKeeps DEF Unchanged
<1>4. CASE /\ key \in DOMAIN transition /\ step # "handoff"
           /\ run' = [run EXCEPT !.todo = Tail(@), !.version = transition[key]]
           /\ UNCHANGED <<version, state, transition, reply>>
  <2>1. transition[key] \in Nat
    BY <1>4, FitsNow, PlainData DEF TransitionsTyped
  <2>2. GoesOn(Tail(run.todo))
    BY <1>2, <1>4, <2>1 DEF GoesOn, InboundInv, TypeRun
  <2>3. RepliesStay /\ RepliesTyped' /\ TransitionsTyped'
    BY <1>0, <1>1, <1>4, FitsNow, RepliesUnchanged DEF RepliesTyped, TransitionsTyped
  <2> QED
    BY <1>0, <1>4, <2>2, <2>3, PlainData, ScriptDone DEF Sent
<1>5. CASE /\ version' = version + 1 /\ state' = After(step)
           /\ transition' = [k \in DOMAIN transition \cup {key} |->
                               IF k = key THEN version + 1 ELSE transition[k]]
           /\ reply' = IF step # "handoff" THEN reply
                       ELSE [f \in DOMAIN reply \cup {run.event} |->
                               IF f = run.event THEN "handed" ELSE reply[f]]
           /\ run' = [run EXCEPT !.todo = Tail(@), !.version = version + 1]
  <2>1. version \in Nat \ {0} /\ version' \in Nat \ {0} /\ 2..version \subseteq 2..version'
        /\ version + 1 \in 2..version'
    BY <1>5, PlainData
  <2>2. GoesOn(Tail(run.todo))
    BY <1>2, <1>5, <2>1 DEF GoesOn, InboundInv, TypeRun
  <2>3. state' \in State
    BY <1>5 DEF After, State
  <2>4. TransitionsTyped' /\ key \in DOMAIN transition'
        /\ DOMAIN transition \subseteq DOMAIN transition'
    BY <1>1, <1>5, <2>1, FitsNow DEF TransitionsTyped
  <2>5. CASE step # "handoff"
    <3>1. UNCHANGED reply
      BY <1>5, <2>5
    <3>2. RepliesTyped' /\ RepliesStay
      BY <1>0, <2>4, <3>1, FitsNow
         DEF RepliesTyped, RepliesStay, InboundInv, ReplyIsPlanned
    <3> QED
      BY <1>0, <1>5, <2>1, <2>2, <2>3, <2>4, <2>5, <3>1, <3>2, PlainData, ScriptDone DEF Sent
  <2>6. CASE step = "handoff"
    <3>1. checkpoint[run.event].plan = "handoff" /\ "handoff" \notin Silent
      BY <1>0, <1>1, <2>6 DEF Begun, Silent
    <3>2. run.event \in DOMAIN checkpoint /\ event[run.event].status = "open"
      BY <1>0, OnScript
    <3>3. reply' = [f \in DOMAIN reply \cup {run.event} |->
                      IF f = run.event THEN "handed" ELSE reply[f]]
      BY <1>5, <2>6
    <3>4. RepliesTyped' /\ run.event \in DOMAIN reply'
      BY <1>0, <3>2, <3>3, FitsNow DEF RepliesTyped
    <3>5. RepliesStay
      BY <2>4, <3>1, <3>2, <3>3, FitsNow
         DEF RepliesStay, InboundInv, ReplyIsPlanned, RepliesTyped
    <3> QED
      BY <1>0, <1>5, <2>1, <2>2, <2>3, <2>4, <2>6, <3>1, <3>4, <3>5, PlainData, ScriptDone
  <2> QED
    BY <2>5, <2>6
<1> QED
  BY <1>3, <1>4, <1>5 DEF Transit

-----------------------------------------------------------------------------
(* The step that decides for an event *)

LEMMA BatchFacts ==
    ASSUME InboundInv, NEW e \in Received, NEW last \in e..Len(event)
    PROVE  LET B == Batch(e, last)
           IN  /\ e \in B /\ B \subseteq e..Len(event) /\ B \subseteq 1..MaxMessages
               /\ \A m \in B \ {e} : event[e].kind = "text" /\ event[m].kind = "text"
               /\ \A m \in B : \A f \in e..m : event[f].kind = "text" => f \in B
<1>1. Len(event) \in Nat /\ Len(event) <= MaxMessages /\ MaxMessages \in Nat
      /\ e \in Nat /\ 1 <= e /\ e <= Len(event)
  BY InboundAssumption DEF InboundInv, TypeOK, Received
<1>2. \A f \in e..last : f \in e..Len(event) /\ f \in 1..MaxMessages
  BY <1>1
<1>3. \A m \in Batch(e, last) : m = e \/ (m \in e..last /\ event[e].kind = "text"
                                                     /\ event[m].kind = "text")
  BY DEF Batch
<1>4. ASSUME NEW m \in Batch(e, last), NEW f \in e..m, event[f].kind = "text"
      PROVE  f \in Batch(e, last)
  <2>1. CASE m = e
    BY <1>1, <2>1 DEF Batch
  <2>2. CASE m \in e..last /\ event[e].kind = "text"
    <3>1. f \in e..last
      BY <1>1, <2>2
    <3> QED
      BY <1>4, <2>2, <3>1 DEF Batch
  <2> QED
    BY <1>3, <2>1, <2>2
<1>5. e \in Batch(e, last) /\ e \in e..Len(event) /\ e \in 1..MaxMessages
  BY <1>1 DEF Batch
<1> QED
  BY <1>2, <1>3, <1>4, <1>5

LEMMA GatherKeeps == ASSUME InboundInv, Gather PROVE InboundInv'
<1>a. PICK last \in run.event..Len(event), plan \in PlansFor(event[run.event]) :
        LET saved == SavedOr(run.event, [version |-> version, plan |-> plan,
                                 batch |-> Batch(run.event, last)])
        IN  /\ checkpoint' = [f \in DOMAIN checkpoint \cup {run.event} |->
                                IF f = run.event THEN saved ELSE checkpoint[f]]
            /\ run' = [run EXCEPT !.todo = Script[saved.plan],
                 !.version = saved.version,
                 !.batch = IF event[run.event].topic = "persisted" THEN saved.batch ELSE {}]
  BY DEF Gather
<1> SUFFICES ASSUME NEW e, e = run.event PROVE InboundInv'
  OBVIOUS
<1>0. /\ Running /\ Interrupt /\ e \in Received /\ event[e].status = "open"
      /\ UNCHANGED <<version, state, agents, event, transition, reply>>
  BY DEF Gather, At, InboundInv, TypeOK
<1> DEFINE new == [version |-> version, plan |-> plan, batch |-> Batch(e, last)]
           saved == SavedOr(e, new)
<1>1. /\ last \in e..Len(event)
      /\ checkpoint' = [f \in DOMAIN checkpoint \cup {e} |->
                           IF f = e THEN saved ELSE checkpoint[f]]
      /\ run' = [run EXCEPT !.todo = Script[saved.plan], !.version = saved.version,
                            !.batch = IF event[e].topic = "persisted" THEN saved.batch ELSE {}]
  BY <1>a
<1>2. /\ DOMAIN checkpoint' = DOMAIN checkpoint \cup {e} /\ checkpoint'[e] = saved
      /\ \A f \in DOMAIN checkpoint : f # e => checkpoint'[f] = checkpoint[f]
  BY <1>1
<1>3. /\ checkpoint \in [DOMAIN checkpoint -> Checkpoint] /\ DOMAIN checkpoint \subseteq Received
      /\ DOMAIN reply \subseteq DOMAIN checkpoint /\ Received' = Received
  BY <1>0 DEF InboundInv, TypeOK, Received
<1>4. plan \in DOMAIN Script /\ (event[e].topic = "notification" => plan = "observe")
  <2>1. "observe" \in DOMAIN Script /\ "suppress" \in DOMAIN Script
    BY DEF Script
  <2> QED
    BY <2>1, InboundAssumption DEF PlansFor
<1>5. new \in Checkpoint
  BY <1>0, <1>4, PlainData, BatchFacts DEF Checkpoint
<1>6. saved \in Checkpoint /\ (e \in DOMAIN checkpoint => saved = checkpoint[e])
  BY <1>3, <1>5 DEF SavedOr
<1>7. checkpoint' \in [DOMAIN checkpoint' -> Checkpoint] /\ DOMAIN checkpoint' \subseteq Received
  BY <1>0, <1>1, <1>3, <1>6
<1>8. RunFits'
  <2>1. saved.plan \in DOMAIN Script /\ saved.version \in Nat
        /\ saved.batch \in SUBSET (1..MaxMessages)
    BY <1>6 DEF Checkpoint
  <2> DEFINE B == IF event[e].topic = "persisted" THEN saved.batch ELSE {}
  <2> SUFFICES ASSUME NEW list, list = Script[saved.plan] PROVE RunFits'
    OBVIOUS
  <2>2. list \in Seq(Steps) /\ Begun(e, list)'
    <3> SUFFICES ASSUME NEW p \in DOMAIN Script, p = saved.plan, list = Script[p]
                 PROVE  list \in Seq(Steps) /\ Begun(e, list)'
      BY <2>1
    <3>1. checkpoint'[e].plan = p
      BY <1>2
    <3> QED
      BY <3>1, ScriptsAreBegun DEF Begun, Rest
  <2>3. run' = [run EXCEPT !.todo = list, !.version = saved.version, !.batch = B]
    BY <1>1
  <2>4. B \in SUBSET (1..MaxMessages)
    BY <2>1
  <2> HIDE DEF B, saved
  <2>5. /\ TypeRun' /\ run'.event = e /\ run'.todo = list /\ run'.batch = B
    BY <2>1, <2>2, <2>3, <2>4 DEF InboundInv, TypeRun
  <2>6. event[e].topic = "persisted" => run'.batch = checkpoint'[e].batch
    BY <1>2, <2>5 DEF B
  <2>7. RunIsKnown'
    BY <1>0, <1>2, <2>2, <2>5, <2>6 DEF RunIsKnown
  <2> QED
    BY <1>0, <2>5, <2>7, RunGoesFits
<1>9. Met
  BY <1>0, InterruptMeets
<1>10. TypeOK'
  <2>1. interrupted' \subseteq Received' \X {"people", "pause"}
    BY <1>3, <1>9 DEF Met, InboundInv, TypeOK
  <2> QED
    BY <1>0, <1>2, <1>3, <1>7, <1>8, <2>1 DEF InboundInv, TypeOK, RunFits
<1>11. OpenIsNext'
  BY <1>0, <1>2, <1>8 DEF InboundInv, OpenIsNext, RunFits
<1>12. BatchIsText'
  <2> SUFFICES ASSUME NEW d \in DOMAIN checkpoint'
               PROVE  LET B == checkpoint'[d].batch
                      IN  /\ d \in B /\ B \subseteq d..Len(event)
                          /\ \A m \in B \ {d} : event[d].kind = "text" /\ event[m].kind = "text"
                          /\ \A m \in B : \A f \in d..m : event[f].kind = "text" => f \in B
                          /\ event[d].topic = "notification" => checkpoint'[d].plan = "observe"
    BY <1>0 DEF BatchIsText
  <2>1. CASE d \in DOMAIN checkpoint
    <3>1. checkpoint'[d] = checkpoint[d]
      BY <1>2, <1>6, <2>1
    <3> QED
      BY <2>1, <3>1 DEF InboundInv, BatchIsText
  <2>2. CASE d = e /\ d \notin DOMAIN checkpoint
    <3>1. checkpoint'[d].batch = Batch(e, last) /\ checkpoint'[d].plan = plan
      BY <1>2, <2>2 DEF SavedOr
    <3> QED
      BY <1>0, <1>4, <2>2, <3>1, BatchFacts
  <2> QED
    BY <1>2, <2>1, <2>2
<1>13. BatchIsSpent'
  <2> SUFFICES ASSUME NEW d \in DOMAIN checkpoint', event[d].status = "delivered",
                      event[d].topic = "persisted", <<d, "pause">> \notin interrupted',
                      NEW f \in checkpoint'[d].batch \ {d}, event[f].topic = "persisted"
               PROVE  event[f].status # "open" /\ f \notin DOMAIN checkpoint'
    BY <1>0 DEF BatchIsSpent
  <2>1. d # e /\ d \in DOMAIN checkpoint /\ checkpoint'[d] = checkpoint[d]
    BY <1>0, <1>2
  <2>2. event[f].status # "open" /\ f \notin DOMAIN checkpoint
    BY <1>9, <2>1 DEF InboundInv, BatchIsSpent, Met
  <2> QED
    BY <1>0, <1>2, <2>2
<1>14. ReplyIsPlanned'
  BY <1>0, <1>2, <1>3, <1>6 DEF InboundInv, ReplyIsPlanned
<1>15. FinishedOrDisturbed'
  <2> SUFFICES ASSUME NEW d \in DOMAIN checkpoint', event[d].status = "delivered"
               PROVE  Finished(d)' \/ Disturbed(d)'
    BY <1>0 DEF FinishedOrDisturbed
  <2>1. d # e /\ d \in DOMAIN checkpoint /\ checkpoint'[d] = checkpoint[d]
    BY <1>0, <1>2
  <2> QED
    BY <1>0, <1>9, <2>1 DEF InboundInv, FinishedOrDisturbed, Finished, Disturbed, Met
<1> QED
  BY <1>8, <1>10, <1>11, <1>12, <1>13, <1>14, <1>15 DEF InboundInv, RunFits

-----------------------------------------------------------------------------
(* A message arrives *)

\* A new event is appended; what was said of the others stands.
LEMMA ReceiveKeeps ==
    ASSUME InboundInv, NEW kind \in Kind, NEW proposalQueued \in BOOLEAN,
           Receive(kind, proposalQueued)
    PROVE  InboundInv'
<1> DEFINE returns == state = "closed" \/ (state = "waiting" /\ kind = "text")
           next == IF returns THEN "bot" ELSE state
           humanRouted == proposalQueued \/ next \in WithPeople
           row == [kind |-> kind, topic |-> IF humanRouted THEN "notification" ELSE "persisted",
                   allowed |-> agents /\ next = "bot" /\ ~humanRouted,
                   status |-> "open", attempts |-> 0, error |-> "none"]
<1>1. /\ Len(event) < MaxMessages /\ Interrupt
      /\ state' = next /\ version' = IF returns THEN version + 1 ELSE version
      /\ event' = Append(event, row)
      /\ UNCHANGED <<agents, checkpoint, transition, reply, run>>
  BY DEF Receive
<1>2. row \in EventRow /\ row.status = "open"
  <2>1. kind \in {"text", "media"}
    BY InboundAssumption
  <2>2. (agents /\ next = "bot" /\ ~humanRouted) \in BOOLEAN
    OBVIOUS
  <2>3. (IF humanRouted THEN "notification" ELSE "persisted") \in Topic
    BY DEF Topic
  <2> HIDE DEF humanRouted, next
  <2> QED
    BY <2>1, <2>2, <2>3 DEF EventRow, Error
<1>3. /\ version \in Nat \ {0} /\ version' \in Nat \ {0} /\ version <= version'
      /\ state' \in State /\ agents' \in BOOLEAN
  BY <1>1, PlainData DEF State
<1> HIDE DEF row, next, returns, humanRouted
<1>4. event \in Seq(EventRow) /\ Len(event) \in Nat /\ MaxMessages \in Nat
  BY InboundAssumption DEF InboundInv, TypeOK
<1>5. /\ event' \in Seq(EventRow) /\ Len(event') = Len(event) + 1
      /\ \A d \in Received : event'[d] = event[d]
      /\ event'[Len(event) + 1] = row
  BY <1>1, <1>2, <1>4 DEF Received
<1>6. Received' = Received \cup {Len(event) + 1}
  BY <1>4, <1>5 DEF Received
<1>7. Met
  BY <1>1, InterruptMeets
<1>8. /\ DOMAIN checkpoint \subseteq Received
      /\ Running => run.event \in Received /\ event[run.event].status = "open"
      /\ (Running' <=> Running)
  BY <1>1 DEF InboundInv, TypeOK, Running
<1>9. \A e \in Received : \A d \in 1..e - 1 : d \in Received
  BY <1>4 DEF Received
<1>10. TypeOK'
  <2>1. interrupted' \subseteq Received' \X {"people", "pause"}
    BY <1>6, <1>7 DEF Met, InboundInv, TypeOK
  <2>2. TransitionsTyped'
    <3>1. 2..version \subseteq 2..version'
      BY <1>3
    <3> QED
      BY <1>1, <1>6, <3>1, FitsNow DEF TransitionsTyped
  <2>3. Len(event') <= MaxMessages
    BY <1>1, <1>4, <1>5
  <2>4. /\ checkpoint' \in [DOMAIN checkpoint' -> Checkpoint]
        /\ DOMAIN checkpoint' \subseteq Received'
    BY <1>1, <1>6 DEF InboundInv, TypeOK
  <2>5. RepliesTyped'
    BY <1>1, FitsNow DEF RepliesTyped
  <2>6. Running' => run'.event \in Received' /\ event'[run'.event].status = "open"
    BY <1>1, <1>5, <1>6, <1>8
  <2> QED
    BY <1>3, <1>5, <2>1, <2>2, <2>3, <2>4, <2>5, <2>6
       DEF TypeOK, TransitionsTyped, RepliesTyped
<1>11. OpenIsNext'
  <2>1. Running' => \A d \in 1..run'.event - 1 : event'[d].status # "open"
    <3> SUFFICES ASSUME Running, NEW d \in 1..run.event - 1 PROVE event'[d].status # "open"
      BY <1>1, <1>8
    <3> QED
      BY <1>5, <1>8, <1>9 DEF InboundInv, OpenIsNext
  <2>2. \A e \in DOMAIN checkpoint : \A d \in 1..e - 1 : event'[d].status # "open"
    BY <1>5, <1>8, <1>9 DEF InboundInv, OpenIsNext
  <2> QED
    BY <1>1, <2>1, <2>2 DEF OpenIsNext
<1>12. BatchIsText'
  <2> SUFFICES ASSUME NEW e \in DOMAIN checkpoint
               PROVE  LET B == checkpoint[e].batch
                      IN  /\ e \in B /\ B \subseteq e..Len(event')
                          /\ \A m \in B \ {e} : event'[e].kind = "text" /\ event'[m].kind = "text"
                          /\ \A m \in B : \A f \in e..m : event'[f].kind = "text" => f \in B
                          /\ event'[e].topic = "notification" => checkpoint[e].plan = "observe"
    BY <1>1 DEF BatchIsText
  <2> DEFINE B == checkpoint[e].batch
  <2>1. /\ e \in B /\ B \subseteq e..Len(event)
        /\ \A m \in B \ {e} : event[e].kind = "text" /\ event[m].kind = "text"
        /\ \A m \in B : \A f \in e..m : event[f].kind = "text" => f \in B
        /\ event[e].topic = "notification" => checkpoint[e].plan = "observe"
    BY DEF InboundInv, BatchIsText
  <2>2. e \in Received /\ e..Len(event) \subseteq Received /\ e..Len(event) \subseteq e..Len(event')
    BY <1>4, <1>5, <1>8 DEF Received
  <2>3. \A m \in B : m \in Received /\ e..m \subseteq Received
    BY <2>1, <2>2, <1>4 DEF Received
  <2> QED
    BY <2>1, <2>2, <2>3, <1>5
<1>13. BatchIsSpent'
  <2> SUFFICES ASSUME NEW e \in DOMAIN checkpoint, event'[e].status = "delivered",
                      event'[e].topic = "persisted", <<e, "pause">> \notin interrupted',
                      NEW f \in checkpoint[e].batch \ {e}, event'[f].topic = "persisted"
               PROVE  event'[f].status # "open" /\ f \notin DOMAIN checkpoint
    <3>1. UNCHANGED checkpoint
      BY <1>1
    <3> QED
      BY <3>1 DEF BatchIsSpent
  <2>1. e \in Received /\ f \in Received
    BY <1>4, <1>8 DEF InboundInv, BatchIsText, Received
  <2> QED
    BY <1>5, <1>7, <2>1 DEF InboundInv, BatchIsSpent, Met
<1>14. ReplyIsPlanned'
  BY <1>1 DEF InboundInv, ReplyIsPlanned
<1>15. FinishedOrDisturbed'
  <2> SUFFICES ASSUME NEW e \in DOMAIN checkpoint, event'[e].status = "delivered"
               PROVE  Finished(e)' \/ Disturbed(e)'
    BY <1>1 DEF FinishedOrDisturbed
  <2>1. event[e].status = "delivered"
    BY <1>5, <1>8
  <2>2. Disturbed(e) => Disturbed(e)'
    BY <1>7 DEF Disturbed, Met
  <2>3. Finished(e) => Finished(e)'
    BY <1>1 DEF Finished
  <2> QED
    BY <2>1, <2>2, <2>3 DEF InboundInv, FinishedOrDisturbed
<1>16. RunIsKnown'
  <2>1. \A e, todo : Begun(e, todo) => Begun(e, todo)'
    BY <1>1 DEF Begun, Sent
  <2>2. \A e : Disturbed(e) => Disturbed(e)'
    BY <1>7 DEF Disturbed, Met
  <2> SUFFICES ASSUME Running, NEW e, e = run.event PROVE RunIsKnown'
    BY <1>8 DEF RunIsKnown
  <2>3. event'[e] = event[e]
    BY <1>5, <1>8
  <2> QED
    BY <1>1, <1>7, <2>1, <2>2, <2>3 DEF InboundInv, RunIsKnown, Met
<1>17. TypeRun'
  BY <1>1 DEF InboundInv, TypeRun
<1> QED
  BY <1>10, <1>11, <1>12, <1>13, <1>14, <1>15, <1>16, <1>17 DEF InboundInv

-----------------------------------------------------------------------------
(* An execution concludes *)

\* At the end of a script nothing is ahead: what the plan says was done.
LEMMA ScriptEnds ==
    ASSUME InboundInv, NEW e \in DOMAIN checkpoint, NEW todo, Begun(e, todo),
           Head(todo) = "complete"
    PROVE  Finished(e)
<1>1. /\ todo \in Seq(Steps) /\ DOMAIN todo = 1..Len(todo) /\ Len(todo) \in Nat
      /\ 1 \in DOMAIN todo /\ todo[1] = "complete"
  BY DEF Begun, Rest
<1>2. Len(todo) = 1
  BY <1>1 DEF Begun, Rest, Last
<1>3. \A s \in {"reply", "record", "handoff", "after"} : ~Ahead(s, todo)
  BY <1>1, <1>2 DEF Ahead
<1> DEFINE p == checkpoint[e].plan
<1>4. p \in Silent \cup Sends \cup {"handoff"}
  BY DEF InboundInv, TypeOK, Checkpoint, Script, Silent, Sends
<1>5. /\ p \in Sends => Sent(e)
      /\ p = "handoff" => e \in DOMAIN reply
      /\ p = "summary" => <<e, "after">> \in DOMAIN transition
  BY <1>3 DEF Begun
<1> HIDE DEF p
<1>6. /\ p \notin {"observe", "suppress"} => e \in DOMAIN reply
      /\ p \in {"static", "answer", "renew", "collect", "summary"} => reply[e] = "sent"
  BY <1>4, <1>5 DEF Silent, Sends, Sent
<1> QED
  BY <1>5, <1>6 DEF Finished, p

\* What is known of the execution that concludes.
LEMMA AtTheEnd ==
    ASSUME InboundInv, At("complete"), NEW e, e = run.event
    PROVE  \/ /\ e \in DOMAIN checkpoint
              /\ event[e].topic = "persisted" => run.batch = checkpoint[e].batch
              /\ Finished(e) \/ Disturbed(e)
           \/ run.batch = {e} /\ <<e, "pause">> \in interrupted
<1>1. Running /\ Head(run.todo) = "complete"
  BY DEF At, Step
<1>2. run.todo \notin First /\ run.todo # <<"superseded">>
  BY <1>1 DEF First
<1>3. CASE run.batch = {e} /\ <<e, "pause">> \in interrupted
  BY <1>3
<1>4. CASE /\ e \in DOMAIN checkpoint
           /\ event[e].topic = "persisted" => run.batch = checkpoint[e].batch
           /\ Begun(e, run.todo) \/ (run.todo = <<"complete">> /\ Disturbed(e))
  BY <1>1, <1>4, ScriptEnds
<1> QED
  BY <1>1, <1>2, <1>3, <1>4 DEF InboundInv, RunIsKnown

LEMMA CompleteKeeps == ASSUME InboundInv, Complete PROVE InboundInv'
<1> SUFFICES ASSUME NEW e, e = run.event PROVE InboundInv'
  OBVIOUS
<1>0. Running /\ At("complete") /\ Unchanged /\ Interrupt
  BY DEF Complete, At
<1>1. CASE run.batch # {} /\ event[e].topic # "persisted"
  <2>1. "refused" \in Error
    BY DEF Error
  <2>2. Fail(run.event, "retryable", "refused")
    BY <1>1 DEF Complete
  <2> QED
    BY <1>0, <2>1, <2>2, PlainFailKeeps
<1>2. CASE ~(run.batch # {} /\ event[e].topic # "persisted")
  <2> DEFINE Row(f) == IF Consumed(f) THEN [event[f] EXCEPT !.status = "delivered"] ELSE event[f]
  <2>1. event' = [f \in Received |-> Row(f)] /\ run' = NoRun
    BY <1>2 DEF Complete
  <2>2. /\ event \in [Received -> EventRow] /\ Len(event) \in Nat
        /\ e \in Received /\ event[e].status = "open"
    BY <1>0 DEF InboundInv, TypeOK, Received
  <2>3. ASSUME NEW f \in Received
        PROVE  /\ Row(f) \in EventRow
               /\ Row(f).kind = event[f].kind /\ Row(f).topic = event[f].topic
               /\ Consumed(f) => Row(f).status = "delivered" /\ event[f].status = "open"
               /\ ~Consumed(f) => Row(f) = event[f]
    BY <2>2 DEF EventRow, Consumed
  <2> HIDE DEF Row
  <2>4. event' \in Seq(EventRow) /\ Len(event') = Len(event) /\ Received' = Received
    <3>1. event' \in [1..Len(event) -> EventRow]
      BY <2>1, <2>3 DEF Received
    <3> QED
      BY <2>2, <3>1 DEF Received
  <2>5. \A f \in Received :
          /\ event'[f].kind = event[f].kind /\ event'[f].topic = event[f].topic
          /\ Consumed(f) => event'[f].status = "delivered" /\ event[f].status = "open"
          /\ ~Consumed(f) => event'[f] = event[f]
    BY <2>1, <2>3
  <2>6. Consumed(e) /\ \A f \in Received : event'[f].status = "open" => event[f].status = "open"
    BY <2>5 DEF Consumed
  <2>7. UNCHANGED <<version, state, agents, checkpoint, transition, reply>> /\ Met
    BY <1>0, InterruptMeets DEF Unchanged
  <2>8. /\ DOMAIN checkpoint \subseteq Received
        /\ \A f \in Received : f \in Nat
    BY DEF InboundInv, TypeOK, Received
  \* Another event that ends with this one comes after it, and was not decided for.
  <2>9. ASSUME NEW f \in Received, Consumed(f), f # e PROVE f \notin DOMAIN checkpoint
    <3>1. f \in run.batch /\ run.batch # {e} /\ event[e].topic = "persisted"
      BY <1>2, <2>9 DEF Consumed
    <3>2. e \in DOMAIN checkpoint /\ f \in checkpoint[e].batch
      BY <1>0, <3>1, AtTheEnd
    <3>3. e \in 1..f - 1
      BY <2>2, <2>8, <2>9, <3>2 DEF InboundInv, BatchIsText, Received
    <3> QED
      BY <2>2, <3>3 DEF InboundInv, OpenIsNext
  <2>10. TypeOK' /\ TypeRun' /\ RunIsKnown' /\ ~Running'
    <3>1. RunFits' /\ ~Running'
      BY <2>1, NoRunFits DEF Running
    <3>2. interrupted' \subseteq Received' \X {"people", "pause"}
      BY <2>4, <2>7 DEF Met, InboundInv, TypeOK
    <3>3. RepliesTyped' /\ TransitionsTyped'
      BY <2>4, <2>7, FitsNow DEF RepliesTyped, TransitionsTyped
    <3> QED
      BY <2>4, <2>7, <3>1, <3>2, <3>3
         DEF InboundInv, TypeOK, RunFits, RepliesTyped, TransitionsTyped
  <2>11. OpenIsNext'
    <3>1. \A d \in DOMAIN checkpoint : \A c \in 1..d - 1 : c \in Received
      BY <2>2, <2>8 DEF Received
    <3> QED
      BY <2>6, <2>7, <2>10, <3>1 DEF InboundInv, OpenIsNext
  <2>12. BatchIsText'
    <3> SUFFICES ASSUME NEW d \in DOMAIN checkpoint
                 PROVE  LET B == checkpoint[d].batch
                        IN  /\ d \in B /\ B \subseteq d..Len(event)
                            /\ \A m \in B \ {d} : event'[d].kind = "text" /\ event'[m].kind = "text"
                            /\ \A m \in B : \A f \in d..m : event'[f].kind = "text" => f \in B
                            /\ event'[d].topic = "notification" => checkpoint[d].plan = "observe"
      BY <2>4, <2>7 DEF BatchIsText
    <3> DEFINE B == checkpoint[d].batch
    <3>1. /\ d \in B /\ B \subseteq d..Len(event)
          /\ \A m \in B \ {d} : event[d].kind = "text" /\ event[m].kind = "text"
          /\ \A m \in B : \A f \in d..m : event[f].kind = "text" => f \in B
          /\ event[d].topic = "notification" => checkpoint[d].plan = "observe"
      BY DEF InboundInv, BatchIsText
    <3>2. d \in Received /\ d..Len(event) \subseteq Received
      BY <2>2, <2>8 DEF Received
    <3>3. \A m \in B : m \in Received /\ d..m \subseteq Received
      BY <3>1, <3>2, <2>2 DEF Received
    <3> QED
      BY <2>5, <3>1, <3>2, <3>3
  <2>13. BatchIsSpent'
    <3> SUFFICES ASSUME NEW d \in DOMAIN checkpoint, event'[d].status = "delivered",
                        event[d].topic = "persisted", <<d, "pause">> \notin interrupted,
                        NEW f \in checkpoint[d].batch \ {d}, event[f].topic = "persisted",
                        f \in Received, d \in Received
                 PROVE  event'[f].status # "open" /\ f \notin DOMAIN checkpoint
      <4>1. \A d \in DOMAIN checkpoint : \A f \in checkpoint[d].batch : f \in Received /\ d \in Received
        BY <2>2, <2>8 DEF InboundInv, BatchIsText, Received
      <4>2. \A d : <<d, "pause">> \notin interrupted' => <<d, "pause">> \notin interrupted
        BY <2>7 DEF Met
      <4>3. UNCHANGED checkpoint
        BY <2>7
      <4> QED
        BY <2>5, <4>1, <4>2, <4>3 DEF BatchIsSpent
    <3>1. CASE event[d].status = "delivered"
      BY <2>6, <3>1 DEF InboundInv, BatchIsSpent
    <3>2. CASE event[d].status # "delivered"
      <4>1. d = e
        BY <2>5, <2>9, <3>2
      <4>2. run.batch = checkpoint[e].batch
        BY <1>0, <4>1, AtTheEnd
      <4>3. event'[f].status # "open"
        BY <2>5, <4>1, <4>2 DEF Consumed
      <4>4. d < f
        BY <2>2, <2>8 DEF InboundInv, BatchIsText, Received
      <4>5. d \in 1..f - 1
        BY <2>2, <2>8, <4>1, <4>4 DEF Received
      <4> QED
        BY <2>2, <4>1, <4>3, <4>5 DEF InboundInv, OpenIsNext
    <3> QED
      BY <3>1, <3>2
  <2>14. ReplyIsPlanned'
    BY <2>7 DEF InboundInv, ReplyIsPlanned
  <2>15. FinishedOrDisturbed'
    <3> SUFFICES ASSUME NEW d \in DOMAIN checkpoint, event'[d].status = "delivered"
                 PROVE  Finished(d)' \/ Disturbed(d)'
      BY <2>7 DEF FinishedOrDisturbed
    <3>1. Disturbed(d) => Disturbed(d)'
      BY <2>7 DEF Disturbed, Met
    <3>2. Finished(d) => Finished(d)'
      BY <2>7 DEF Finished
    <3>3. CASE event[d].status = "delivered"
      BY <3>1, <3>2, <3>3 DEF InboundInv, FinishedOrDisturbed
    <3>4. CASE event[d].status # "delivered"
      <4>1. d = e
        BY <2>5, <2>8, <2>9, <3>4
      <4>2. Finished(d) \/ Disturbed(d)
        BY <1>0, <4>1, AtTheEnd DEF Disturbed
      <4> QED
        BY <3>1, <3>2, <4>2
    <3> QED
      BY <3>3, <3>4
  <2> QED
    BY <2>10, <2>11, <2>12, <2>13, <2>14, <2>15 DEF InboundInv
<1> QED
  BY <1>1, <1>2

-----------------------------------------------------------------------------
(* The invariant *)

LEMMA InitIsInbound == Init => InboundInv
<1> SUFFICES ASSUME Init PROVE InboundInv
  OBVIOUS
<1>1. /\ event = << >> /\ Len(event) = 0 /\ Received = {} /\ event \in Seq(EventRow)
      /\ checkpoint = << >> /\ transition = << >> /\ reply = << >>
      /\ run = NoRun /\ ~Running /\ interrupted = {} /\ MaxMessages \in Nat
      /\ version = 1 /\ state \in State /\ agents \in BOOLEAN
  BY InboundAssumption DEF Init, Received, Running, State
<1>2. DOMAIN checkpoint = {} /\ DOMAIN transition = {} /\ DOMAIN reply = {}
  BY <1>1
<1>3. TypeOK
  <2>1. /\ checkpoint \in [DOMAIN checkpoint -> Checkpoint]
        /\ transition \in [DOMAIN transition -> 2..version]
        /\ reply \in [DOMAIN reply ->
                        {"pending", "leased", "sent", "unknown", "failed", "handed"}]
    BY <1>1
  <2> QED
    BY <1>1, <1>2, <2>1 DEF TypeOK
<1>4. TypeRun
  <2>1. << >> \in Seq(Steps)
    OBVIOUS
  <2> QED
    BY <1>1, <2>1 DEF TypeRun, NoRun
<1>5. /\ OpenIsNext /\ BatchIsText /\ BatchIsSpent /\ ReplyIsPlanned
      /\ FinishedOrDisturbed /\ RunIsKnown
  BY <1>1, <1>2
     DEF OpenIsNext, BatchIsText, BatchIsSpent, ReplyIsPlanned, FinishedOrDisturbed, RunIsKnown
<1> QED
  BY <1>3, <1>4, <1>5 DEF InboundInv

LEMMA StutterKeeps == ASSUME InboundInv, UNCHANGED vars PROVE InboundInv'
<1>1. /\ UNCHANGED <<version, state, agents, event, checkpoint>>
      /\ UNCHANGED <<transition, reply, run, interrupted>>
  BY DEF vars
<1>2. \A e, todo : Begun(e, todo) => Begun(e, todo)'
  BY <1>1 DEF Begun, Sent
<1>3. TypeOK' /\ TypeRun' /\ OpenIsNext'
  BY <1>1 DEF InboundInv, TypeOK, TypeRun, OpenIsNext, Running, Received
<1>4. BatchIsText' /\ BatchIsSpent' /\ ReplyIsPlanned' /\ FinishedOrDisturbed'
  BY <1>1 DEF InboundInv, BatchIsText, BatchIsSpent, ReplyIsPlanned, FinishedOrDisturbed,
              Finished, Disturbed
<1>5. RunIsKnown'
  BY <1>1, <1>2 DEF InboundInv, RunIsKnown, Running, Disturbed
<1> QED
  BY <1>3, <1>4, <1>5 DEF InboundInv

LEMMA NextKeeps == InboundInv /\ [Next]_vars => InboundInv'
<1> SUFFICES ASSUME InboundInv, [Next]_vars PROVE InboundInv'
  OBVIOUS
<1>1. ASSUME NEW kind \in Kind, NEW proposalQueued \in BOOLEAN, Receive(kind, proposalQueued)
      PROVE  InboundInv'
  BY <1>1, ReceiveKeeps
<1>2. CASE ExternalTakeover
  BY <1>2, TakeoverKeeps
<1>3. ASSUME NEW o \in Operation, Operate(o) PROVE InboundInv'
  BY <1>3, OperateKeeps
<1>4. ASSUME NEW on \in AgentsMayBe, SetAgents(on) PROVE InboundInv'
  BY <1>4, SetAgentsKeeps
<1>5. ASSUME NEW e \in Received, Start(e) PROVE InboundInv'
  BY <1>5, StartKeeps
<1>6. CASE Execute
  <2>1. ASSUME NEW step \in {"before", "after", "handoff"}, Transit(step) PROVE InboundInv'
    BY <2>1, TransitKeeps
  <2> QED
    BY <1>6, <2>1, ValidateKeeps, ChannelKeeps, GatherKeeps, AuthorizeKeeps, CreateReplyKeeps,
       ClaimReplyKeeps, RecordKeeps, AfterConflictKeeps, CompleteKeeps DEF Execute
<1>7. CASE Fault
  BY <1>7, FaultKeeps
<1>8. CASE UNCHANGED vars
  BY <1>8, StutterKeeps
<1> QED
  BY <1>1, <1>2, <1>3, <1>4, <1>5, <1>6, <1>7, <1>8 DEF Next

LEMMA Inbound == Spec => []InboundInv
BY InitIsInbound, NextKeeps, PTL DEF Spec

-----------------------------------------------------------------------------
(* The theorems *)

\* Every variable has its type in every reachable state: what the executions and the
\* people write into the conversation, the queue, the checkpoints and the replies.
THEOREM TypeCorrect == Spec => []TypeOK
<1>1. InboundInv => TypeOK
  BY DEF InboundInv
<1> QED
  BY <1>1, Inbound, PTL

\* No text of the customer is answered by two replies: of two events that answered it
\* the later one was in the batch of the earlier, which left it open and to be decided
\* for only by dying or by meeting a pause.
LEMMA OneAnswers == InboundInv => AnsweredOnce
<1> SUFFICES ASSUME InboundInv, NEW e \in Received, NEW f \in Received, NEW m \in Received,
                    e < f, Answered(e, m), Answered(f, m),
                    event[e].status # "dead", <<e, "pause">> \notin interrupted
             PROVE  FALSE
  BY DEF AnsweredOnce
<1>1. e \in DOMAIN checkpoint /\ f \in DOMAIN checkpoint
      /\ event[e] \in EventRow /\ event[f] \in EventRow /\ e \in Nat /\ f \in Nat
      /\ Len(event) \in Nat
  BY DEF Answered, InboundInv, TypeOK, Received
<1>2. event[e].status = "delivered"
  <2>1. e \in 1..f - 1
    BY <1>1 DEF Received
  <2> QED
    BY <1>1, <2>1 DEF InboundInv, OpenIsNext, EventRow
\* The plans of both are to answer, so both were left to the automation.
<1>3. event[e].topic = "persisted" /\ event[f].topic = "persisted"
  BY <1>1 DEF Answered, InboundInv, ReplyIsPlanned, BatchIsText, Silent, EventRow, Topic
<1>4. m \in checkpoint[e].batch /\ m \in checkpoint[f].batch /\ m \in f..Len(event) /\ m \in Nat
  BY <1>1 DEF Answered, InboundInv, BatchIsText, Received
<1>5. event[f].kind = "text"
  <2>1. CASE m = f
    BY <1>1, <1>4, <2>1 DEF InboundInv, BatchIsText
  <2>2. CASE m # f
    BY <1>1, <1>4, <2>2 DEF InboundInv, BatchIsText
  <2> QED
    BY <2>1, <2>2
<1>6. f \in checkpoint[e].batch \ {e}
  <2>1. f \in e..m
    BY <1>1, <1>4
  <2> QED
    BY <1>1, <1>4, <1>5, <2>1 DEF InboundInv, BatchIsText
<1> QED
  BY <1>1, <1>2, <1>3, <1>6 DEF InboundInv, BatchIsSpent

\* No text of the customer is answered by two replies, unless the event of the first died or
\* met a pause, whatever batches, retries, conflicts and people do (AnsweredOnce).
THEOREM OneAnswer == Spec => []AnsweredOnce
BY OneAnswers, Inbound, PTL

\* No conflict, retry or crash ends an event silently: what was delivered did all that
\* its plan says, or met people or a pause.
THEOREM ConcludedWasAnswered == Spec => []ConcludedIsAnswered
<1>1. InboundInv => ConcludedIsAnswered
  BY DEF InboundInv, FinishedOrDisturbed, ConcludedIsAnswered, Disturbed
<1> QED
  BY <1>1, Inbound, PTL

-----------------------------------------------------------------------------
(* The version that a reply is created from *)

\* A conversation is reset before the reply or the handoff, and waits after it.
Orderly(todo) ==
    \A i, j \in DOMAIN todo :
        /\ todo[i] = "before" /\ todo[j] \in {"before", "reply", "handoff"} => i <= j
        /\ todo[i] = "reply" /\ todo[j] = "after" => i < j

OnScriptOf(e, todo) == \A s \in Steps : Ahead(s, todo) => Ahead(s, Script[checkpoint[e].plan])

\* The transitions of an event are steps of its plan; all but the first follow the reply.
TransitionsPlanned ==
    \A e \in Received : \A s \in {"before", "after", "handoff"} :
        <<e, s>> \in DOMAIN transition =>
            /\ e \in DOMAIN checkpoint /\ Ahead(s, Script[checkpoint[e].plan])
            /\ s # "before" => e \in DOMAIN reply

\* The version an execution goes by: that of the checkpoint, until it makes or replays
\* the transition before the reply.
AtVersion(e, todo) ==
    IF <<e, "before">> \in DOMAIN transition /\ ~Ahead("before", todo)
    THEN transition[<<e, "before">>] ELSE checkpoint[e].version

OnTime(e, todo) ==
    /\ Orderly(todo) /\ OnScriptOf(e, todo)
    /\ e \notin DOMAIN reply => run.version = AtVersion(e, todo)

VersionInv ==
    TransitionsPlanned /\ (Running /\ Step \notin Last => OnTime(run.event, run.todo))

LEMMA ScriptsAreOrderly == \A p \in DOMAIN Script : Orderly(Script[p])
<1> SUFFICES ASSUME NEW p \in DOMAIN Script PROVE Orderly(Script[p])
  OBVIOUS
<1>1. p \in {"observe", "suppress", "static", "answer", "renew", "collect", "summary", "handoff"}
  BY DEF Script
<1>2. CASE p \in {"observe", "suppress"}
  BY <1>2 DEF Script, Orderly
<1>3. CASE p = "static"
  BY <1>3 DEF Script, Orderly
<1>4. CASE p = "answer"
  BY <1>4 DEF Script, Orderly
<1>5. CASE p = "renew"
  BY <1>5 DEF Script, Orderly
<1>6. CASE p = "collect"
  BY <1>6 DEF Script, Orderly
<1>7. CASE p = "summary"
  BY <1>7 DEF Script, Orderly
<1>8. CASE p = "handoff"
  BY <1>8 DEF Script, Orderly
<1> QED
  BY <1>1, <1>2, <1>3, <1>4, <1>5, <1>6, <1>7, <1>8

LEMMA OrderlyRest ==
    ASSUME NEW todo, Rest(todo), Orderly(todo), Head(todo) \notin Last
    PROVE  Orderly(Tail(todo))
<1>1. \A i \in DOMAIN Tail(todo) : i + 1 \in DOMAIN todo /\ Tail(todo)[i] = todo[i + 1]
  BY RestOfRest
<1>2. \A i \in DOMAIN Tail(todo) : i \in Nat
  BY RestOfRest DEF Rest
<1> SUFFICES ASSUME NEW i \in DOMAIN Tail(todo), NEW j \in DOMAIN Tail(todo)
             PROVE  /\ Tail(todo)[i] = "before" /\ Tail(todo)[j] \in {"before", "reply", "handoff"}
                         => i <= j
                    /\ Tail(todo)[i] = "reply" /\ Tail(todo)[j] = "after" => i < j
  BY DEF Orderly
<1>3. /\ todo[i + 1] = "before" /\ todo[j + 1] \in {"before", "reply", "handoff"}
           => i + 1 <= j + 1
      /\ todo[i + 1] = "reply" /\ todo[j + 1] = "after" => i + 1 < j + 1
  BY <1>1 DEF Orderly
<1> QED
  BY <1>1, <1>2, <1>3

\* What a step at the head of an orderly rest has behind it.
LEMMA HeadIsFirst ==
    ASSUME NEW todo, Rest(todo), Orderly(todo)
    PROVE  /\ Head(todo) \in {"reply", "handoff"} => ~Ahead("before", todo)
           /\ Head(todo) = "before" /\ Head(todo) \notin Last => ~Ahead("before", Tail(todo))
           /\ Head(todo) = "after" => ~Ahead("reply", todo)
<1>1. /\ todo \in Seq(Steps) /\ DOMAIN todo = 1..Len(todo) /\ Len(todo) \in Nat
      /\ Head(todo) = todo[1] /\ 1 \in DOMAIN todo
  BY DEF Rest
<1>2. ASSUME Head(todo) \in {"reply", "handoff"}, NEW i \in DOMAIN todo, todo[i] = "before"
      PROVE  FALSE
  <2>1. i <= 1
    BY <1>1, <1>2 DEF Orderly
  <2> QED
    BY <1>1, <1>2, <2>1
<1>3. ASSUME Head(todo) = "before", Head(todo) \notin Last, NEW i \in DOMAIN Tail(todo),
             Tail(todo)[i] = "before"
      PROVE  FALSE
  <2>1. i + 1 \in DOMAIN todo /\ todo[i + 1] = "before" /\ i \in Nat /\ i >= 1
    BY <1>3, RestOfRest DEF Rest
  <2>2. i + 1 <= 1
    BY <1>1, <1>3, <2>1 DEF Orderly
  <2> QED
    BY <2>1, <2>2
<1>4. ASSUME Head(todo) = "after", NEW i \in DOMAIN todo, todo[i] = "reply" PROVE FALSE
  <2>1. i < 1
    BY <1>1, <1>4 DEF Orderly
  <2> QED
    BY <1>1, <2>1
<1> QED
  BY <1>2, <1>3, <1>4 DEF Ahead

LEMMA PlannedStays ==
    ASSUME InboundInv, VersionInv, UNCHANGED transition, DOMAIN reply \subseteq DOMAIN reply',
           DOMAIN checkpoint \subseteq DOMAIN checkpoint',
           \A e \in DOMAIN checkpoint : checkpoint'[e].plan = checkpoint[e].plan
    PROVE  TransitionsPlanned'
<1> SUFFICES ASSUME NEW e, NEW s \in {"before", "after", "handoff"}, <<e, s>> \in DOMAIN transition
             PROVE  /\ e \in DOMAIN checkpoint' /\ Ahead(s, Script[checkpoint'[e].plan])
                    /\ s # "before" => e \in DOMAIN reply'
  BY DEF TransitionsPlanned, Ahead
<1>1. e \in Received
  BY DEF InboundInv, TypeOK
<1>2. /\ e \in DOMAIN checkpoint /\ Ahead(s, Script[checkpoint[e].plan])
      /\ s # "before" => e \in DOMAIN reply
  BY <1>1 DEF VersionInv, TransitionsPlanned
<1>3. checkpoint'[e].plan = checkpoint[e].plan
  BY <1>2
<1> QED
  BY <1>2, <1>3

\* A step that leaves the execution, or leaves its script.
LEMMA QuietKeeps ==
    ASSUME InboundInv, VersionInv, UNCHANGED <<transition, checkpoint>>,
           DOMAIN reply' = DOMAIN reply,
           UNCHANGED run \/ run' = NoRun \/ Head(run'.todo) \in Last
    PROVE  VersionInv'
<1>1. TransitionsPlanned'
  BY PlannedStays
<1>2. CASE run' = NoRun \/ Head(run'.todo) \in Last
  BY <1>1, <1>2 DEF VersionInv, Running, Step
<1>3. CASE UNCHANGED run
  <2>1. (Running' <=> Running) /\ Step' = Step
    BY <1>3 DEF Running, Step
  <2>2. \A e, todo : OnTime(e, todo) => OnTime(e, todo)'
    BY <1>3 DEF OnTime, OnScriptOf, AtVersion
  <2> QED
    BY <1>1, <1>3, <2>1, <2>2 DEF VersionInv
<1> QED
  BY <1>2, <1>3

\* The execution goes on with the rest of its script.
LEMMA RestKeeps ==
    ASSUME InboundInv, VersionInv, Running, Step \notin Last, UNCHANGED checkpoint,
           TransitionsPlanned', run'.event = run.event, NEW rest, rest = Tail(run.todo),
           run'.todo = rest,
           \A e : e = run.event /\ e \notin DOMAIN reply' => run'.version = AtVersion(e, rest)'
    PROVE  VersionInv'
<1> SUFFICES ASSUME NEW e, e = run.event PROVE OnTime(e, rest)'
  BY DEF VersionInv
<1>1. Rest(run.todo) /\ Step = Head(run.todo) /\ OnTime(e, run.todo)
  BY OnScript DEF VersionInv, Step
<1>2. Orderly(rest) /\ OnScriptOf(e, rest)
  BY <1>1, OrderlyRest, RestOfRest DEF OnTime, OnScriptOf
<1> QED
  BY <1>2 DEF OnTime, OnScriptOf

LEMMA AdvanceKeeps ==
    ASSUME InboundInv, VersionInv, Running, Step \notin Last, Step # "before",
           UNCHANGED <<transition, checkpoint>>, DOMAIN reply \subseteq DOMAIN reply', Advance
    PROVE  VersionInv'
<1> SUFFICES ASSUME NEW e, e = run.event, NEW rest, rest = Tail(run.todo) PROVE VersionInv'
  OBVIOUS
<1>1. TransitionsPlanned'
  BY PlannedStays
<1>2. run'.event = run.event /\ run'.todo = rest /\ run'.version = run.version
  BY DEF Advance, InboundInv, TypeRun
<1>3. Ahead("before", rest) <=> Ahead("before", run.todo)
  BY OnScript, RestOfRest DEF Step
<1>4. e \notin DOMAIN reply' => run.version = AtVersion(e, run.todo)
  BY DEF VersionInv, OnTime
<1>5. AtVersion(e, rest)' = AtVersion(e, run.todo)
  BY <1>3 DEF AtVersion
<1> QED
  BY <1>1, <1>2, <1>4, <1>5, RestKeeps

LEMMA TransitVersions ==
    ASSUME InboundInv, VersionInv, NEW step \in {"before", "after", "handoff"}, Transit(step)
    PROVE  VersionInv'
<1> SUFFICES ASSUME NEW e, e = run.event, NEW rest, rest = Tail(run.todo),
                    NEW key, key = <<e, step>>
             PROVE  VersionInv'
  OBVIOUS
<1>0. Running /\ Step = step /\ Step \notin Last /\ UNCHANGED checkpoint
  BY DEF Transit, At, Last
<1>1. /\ e \in DOMAIN checkpoint /\ e \in Received /\ Rest(run.todo) /\ Step = Head(run.todo)
      /\ Begun(e, run.todo) /\ Ahead(Step, run.todo) /\ OnTime(e, run.todo)
  BY <1>0, OnScript DEF VersionInv, Step
<1>2. CASE Conflict /\ UNCHANGED <<transition, reply>>
  <2>1. Head(run'.todo) \in Last
    BY <1>2 DEF Conflict, Last, InboundInv, TypeRun
  <2> QED
    BY <1>0, <1>2, <2>1, QuietKeeps
<1>3. CASE /\ key \in DOMAIN transition /\ step # "handoff"
           /\ run' = [run EXCEPT !.todo = Tail(@), !.version = transition[key]]
           /\ UNCHANGED <<transition, reply>>
  <2>1. TransitionsPlanned'
    BY <1>0, <1>3, PlannedStays
  <2>2. run'.event = run.event /\ run'.todo = rest /\ run'.version = transition[key]
    BY <1>3 DEF InboundInv, TypeRun
  <2>3. step = "before" => ~Ahead("before", rest)
    BY <1>0, <1>1, HeadIsFirst DEF OnTime
  <2>4. e \notin DOMAIN reply => step = "before"
    BY <1>1, <1>3 DEF VersionInv, TransitionsPlanned
  <2>5. e \notin DOMAIN reply' => run'.version = AtVersion(e, rest)'
    BY <1>3, <2>2, <2>3, <2>4 DEF AtVersion
  <2> QED
    BY <1>0, <2>1, <2>2, <2>5, RestKeeps
<1>4. CASE /\ transition' = [k \in DOMAIN transition \cup {key} |->
                               IF k = key THEN version + 1 ELSE transition[k]]
           /\ reply' = IF step # "handoff" THEN reply
                       ELSE [f \in DOMAIN reply \cup {e} |-> IF f = e THEN "handed" ELSE reply[f]]
           /\ run' = [run EXCEPT !.todo = Tail(@), !.version = version + 1]
           /\ UNCHANGED event
  <2>1. /\ DOMAIN transition' = DOMAIN transition \cup {key} /\ transition'[key] = version + 1
        /\ DOMAIN reply \subseteq DOMAIN reply' /\ (step = "handoff" => e \in DOMAIN reply')
    BY <1>4
  <2>2. step = "after" => e \in DOMAIN reply
    <3> SUFFICES ASSUME step = "after" PROVE e \in DOMAIN reply
      OBVIOUS
    <3>1. ~Ahead("reply", run.todo)
      BY <1>0, <1>1, HeadIsFirst DEF OnTime
    <3>2. Ahead("after", Script[checkpoint[e].plan])
      BY <1>0, <1>1 DEF OnTime, OnScriptOf, Steps
    <3>3. checkpoint[e].plan \in Sends
      <4>1. checkpoint[e].plan \in DOMAIN Script
        BY <1>0, OnScript
      <4> QED
        BY <3>2, <4>1 DEF Script, Ahead, Sends
    <3> QED
      BY <1>1, <3>1, <3>3 DEF Begun
  <2>3. TransitionsPlanned'
    <3> SUFFICES ASSUME NEW d \in Received, NEW s \in {"before", "after", "handoff"},
                        <<d, s>> \in DOMAIN transition'
                 PROVE  /\ d \in DOMAIN checkpoint /\ Ahead(s, Script[checkpoint[d].plan])
                        /\ s # "before" => d \in DOMAIN reply'
      <4>1. Received' = Received /\ UNCHANGED checkpoint
        BY <1>0, <1>4 DEF Received
      <4> QED
        BY <4>1 DEF TransitionsPlanned, Ahead
    <3>1. CASE <<d, s>> \in DOMAIN transition
      BY <2>1, <3>1 DEF VersionInv, TransitionsPlanned
    <3>2. CASE d = e /\ s = step
      BY <1>0, <1>1, <2>1, <2>2, <3>2 DEF OnTime, OnScriptOf, Steps
    <3> QED
      BY <2>1, <3>1, <3>2
  <2>4. run'.event = run.event /\ run'.todo = rest /\ run'.version = version + 1
    BY <1>4 DEF InboundInv, TypeRun
  <2>5. step = "before" => ~Ahead("before", rest)
    BY <1>0, <1>1, HeadIsFirst DEF OnTime
  <2>6. e \notin DOMAIN reply' => step = "before"
    BY <2>1, <2>2
  <2>7. e \notin DOMAIN reply' => run'.version = AtVersion(e, rest)'
    BY <2>1, <2>4, <2>5, <2>6 DEF AtVersion
  <2> QED
    BY <1>0, <2>3, <2>4, <2>7, RestKeeps
<1> QED
  BY <1>2, <1>3, <1>4 DEF Transit

LEMMA GatherVersions == ASSUME InboundInv, VersionInv, Gather PROVE VersionInv'
<1>a. PICK last \in run.event..Len(event), plan \in PlansFor(event[run.event]) :
        LET saved == SavedOr(run.event, [version |-> version, plan |-> plan,
                                         batch |-> Batch(run.event, last)])
        IN  /\ checkpoint' = [f \in DOMAIN checkpoint \cup {run.event} |->
                                IF f = run.event THEN saved ELSE checkpoint[f]]
            /\ run' = [run EXCEPT !.todo = Script[saved.plan],
                 !.version = saved.version,
                 !.batch = IF event[run.event].topic = "persisted" THEN saved.batch ELSE {}]
  BY DEF Gather
<1> SUFFICES ASSUME NEW e, e = run.event PROVE VersionInv'
  OBVIOUS
<1> DEFINE new == [version |-> version, plan |-> plan, batch |-> Batch(e, last)]
           saved == SavedOr(e, new)
<1>1. /\ checkpoint' = [f \in DOMAIN checkpoint \cup {e} |->
                           IF f = e THEN saved ELSE checkpoint[f]]
      /\ run' = [run EXCEPT !.todo = Script[saved.plan], !.version = saved.version,
                            !.batch = IF event[e].topic = "persisted" THEN saved.batch ELSE {}]
  BY <1>a
<1>2. UNCHANGED <<transition, reply>>
  BY DEF Gather
<1>3. /\ DOMAIN checkpoint' = DOMAIN checkpoint \cup {e} /\ checkpoint'[e] = saved
      /\ \A f \in DOMAIN checkpoint : checkpoint'[f] = checkpoint[f]
  BY <1>1 DEF SavedOr
<1>4. TransitionsPlanned'
  BY <1>2, <1>3, PlannedStays
<1>5. saved.plan \in DOMAIN Script
  <2>1. checkpoint'[e] \in Checkpoint
    BY <1>3, GatherKeeps DEF InboundInv, TypeOK
  <2> QED
    BY <1>3, <2>1 DEF Checkpoint
<1> HIDE DEF saved
<1> SUFFICES ASSUME NEW list, list = Script[saved.plan] PROVE OnTime(e, list)'
  BY <1>1, <1>4 DEF VersionInv, InboundInv, TypeRun
<1>6. Orderly(list)
  BY <1>5, ScriptsAreOrderly
<1>7. OnScriptOf(e, list)'
  BY <1>3 DEF OnScriptOf, Ahead
<1>8. run'.version = checkpoint'[e].version
  BY <1>1, <1>3 DEF InboundInv, TypeRun
<1>9. <<e, "before">> \in DOMAIN transition' => Ahead("before", list)
  <2> SUFFICES ASSUME <<e, "before">> \in DOMAIN transition' PROVE Ahead("before", list)
    OBVIOUS
  <2>1. e \in Received
    BY <1>2 DEF InboundInv, TypeOK
  <2>2. e \in DOMAIN checkpoint /\ Ahead("before", Script[checkpoint[e].plan])
    BY <1>2, <2>1 DEF VersionInv, TransitionsPlanned
  <2> QED
    BY <1>3, <2>2
<1> QED
  BY <1>6, <1>7, <1>8, <1>9 DEF OnTime, AtVersion, Orderly

\* The steps that leave the script alone or put it aside.
LEMMA AsideKeeps ==
    ASSUME InboundInv, VersionInv,
           \/ \E kind \in Kind, proposalQueued \in BOOLEAN : Receive(kind, proposalQueued)
           \/ ExternalTakeover \/ (\E o \in Operation : Operate(o))
           \/ (\E on \in AgentsMayBe : SetAgents(on)) \/ (\E e \in Received : Start(e))
           \/ Validate \/ CheckChannel \/ AfterConflict \/ Complete \/ Fault
           \/ UNCHANGED vars
    PROVE  VersionInv' /\ UNCHANGED reply
<1>1. UNCHANGED <<transition, checkpoint, reply>>
  BY DEF Receive, ExternalTakeover, Operate, SetAgents, Start, Validate, CheckChannel,
         AfterConflict, Complete, Fault, Unchanged, vars
<1>2. UNCHANGED run \/ run' = NoRun \/ Head(run'.todo) \in Last
  <2>1. CASE \/ \E kind \in Kind, proposalQueued \in BOOLEAN : Receive(kind, proposalQueued)
             \/ ExternalTakeover \/ (\E o \in Operation : Operate(o))
             \/ (\E on \in AgentsMayBe : SetAgents(on)) \/ UNCHANGED vars
    BY <2>1 DEF Receive, ExternalTakeover, Operate, SetAgents, vars
  <2>2. ASSUME NEW e \in Received, Start(e) PROVE Head(run'.todo) \in Last
    BY <2>2 DEF Start, Last
  <2>3. CASE Validate
    BY <2>3 DEF Validate, Fail, Last, InboundInv, TypeRun
  <2>4. CASE CheckChannel
    BY <2>4 DEF CheckChannel, Last, InboundInv, TypeRun
  <2>5. CASE AfterConflict
    BY <2>5 DEF AfterConflict, Fail, Last, InboundInv, TypeRun
  <2>6. CASE Complete \/ Fault
    BY <2>6 DEF Complete, Fault, Fail
  <2> QED
    BY <2>1, <2>2, <2>3, <2>4, <2>5, <2>6
<1> QED
  BY <1>1, <1>2, QuietKeeps

\* The steps of a script that neither decide nor change the conversation.
LEMMA ScriptKeeps ==
    ASSUME InboundInv, VersionInv, Authorize \/ CreateReply \/ ClaimReply \/ RecordResult
    PROVE  VersionInv'
<1>0. /\ Running /\ Step \in {"authorize", "reply", "claim", "record"}
      /\ Step \notin Last /\ Step # "before" /\ UNCHANGED <<transition, checkpoint>>
  BY DEF Authorize, CreateReply, ClaimReply, RecordResult, Unchanged, At, Last
<1>1. DOMAIN reply \subseteq DOMAIN reply'
  BY DEF Authorize, CreateReply, ClaimReply, RecordResult, SetReply, Unchanged
<1>2. CASE Advance
  BY <1>0, <1>1, <1>2, AdvanceKeeps
<1>3. CASE Conflict /\ UNCHANGED reply
  <2>1. Head(run'.todo) \in Last
    BY <1>3 DEF Conflict, Last, InboundInv, TypeRun
  <2> QED
    BY <1>0, <1>3, <2>1, QuietKeeps
<1>4. CASE run' = NoRun /\ DOMAIN reply' = DOMAIN reply
  BY <1>0, <1>4, QuietKeeps
<1>5. CASE Step = "claim" /\ run' = [run EXCEPT !.todo = Tail(Tail(@))] /\ UNCHANGED reply
  <2> SUFFICES ASSUME NEW e, e = run.event, NEW mid, mid = Tail(run.todo),
                      NEW rest, rest = Tail(mid)
               PROVE  VersionInv'
    OBVIOUS
  <2>1. Rest(run.todo) /\ Step = Head(run.todo) /\ OnTime(e, run.todo) /\ e \in DOMAIN reply
    BY <1>0, <1>5, OnScript, ReplyWasCreated DEF VersionInv, Step
  <2>2. /\ Rest(mid) /\ Head(mid) = "record" /\ Orderly(mid)
        /\ \A s : Ahead(s, mid) => Ahead(s, run.todo)
    BY <1>0, <1>5, <2>1, RestOfRest, OrderlyRest, ClaimAndRecord DEF OnTime
  <2>3. Orderly(rest) /\ \A s : Ahead(s, rest) => Ahead(s, mid)
    BY <2>2, RestOfRest, OrderlyRest DEF Last
  <2>4. OnTime(e, rest)'
    BY <1>0, <1>5, <2>1, <2>2, <2>3 DEF OnTime, OnScriptOf, Orderly
  <2>5. run'.event = e /\ run'.todo = rest
    BY <1>5 DEF InboundInv, TypeRun
  <2>6. TransitionsPlanned'
    BY <1>0, <1>1, PlannedStays
  <2> QED
    BY <2>4, <2>5, <2>6 DEF VersionInv
<1>6. \/ Advance \/ (Conflict /\ UNCHANGED reply) \/ (run' = NoRun /\ DOMAIN reply' = DOMAIN reply)
      \/ (Step = "claim" /\ run' = [run EXCEPT !.todo = Tail(Tail(@))] /\ UNCHANGED reply)
  <2>1. CASE Authorize
    BY <2>1 DEF Authorize, Unchanged
  <2>2. CASE CreateReply
    BY <2>2 DEF CreateReply
  <2>3. CASE ClaimReply
    BY <2>3 DEF ClaimReply, Fail, SetReply, At
  <2>4. CASE RecordResult
    BY <2>4 DEF RecordResult, Fail, SetReply
  <2> QED
    BY <2>1, <2>2, <2>3, <2>4
<1> QED
  BY <1>2, <1>3, <1>4, <1>5, <1>6

LEMMA InitIsOnTime == Init => VersionInv
BY DEF Init, VersionInv, TransitionsPlanned, Running, Received

LEMMA NextKeepsVersions == InboundInv /\ VersionInv /\ [Next]_vars => VersionInv'
<1> SUFFICES ASSUME InboundInv, VersionInv, [Next]_vars PROVE VersionInv'
  OBVIOUS
<1>1. ASSUME NEW step \in {"before", "after", "handoff"}, Transit(step) PROVE VersionInv'
  BY <1>1, TransitVersions
<1>2. CASE Gather
  BY <1>2, GatherVersions
<1>3. CASE Authorize \/ CreateReply \/ ClaimReply \/ RecordResult
  BY <1>3, ScriptKeeps
<1> QED
  BY <1>1, <1>2, <1>3, AsideKeeps DEF Next, Execute

\* A reply is created at the version that the execution goes by, which is the last one
\* its event made.
LEMMA CreatedAtVersion ==
    ASSUME InboundInv, VersionInv, Running, Step \in {"reply", "handoff"}, Current,
           NEW e, e = run.event, e \notin DOMAIN reply
    PROVE  /\ OwnTransitions(e) = {} => version = checkpoint[e].version
           /\ \A k \in OwnTransitions(e) : version = transition[k]
<1>1. Step \notin Last
  BY DEF Last
<1>2. Rest(run.todo) /\ Step = Head(run.todo) /\ OnTime(e, run.todo) /\ e \in Received
  BY <1>1, OnScript DEF VersionInv, Step
<1>3. ~Ahead("before", run.todo)
  BY <1>2, HeadIsFirst DEF OnTime
<1>4. version = AtVersion(e, run.todo)
  BY <1>2 DEF OnTime, Current
<1>5. \A k \in OwnTransitions(e) : k = <<e, "before">>
  <2> SUFFICES ASSUME NEW k \in OwnTransitions(e) PROVE k = <<e, "before">>
    OBVIOUS
  <2>1. k \in Received \X {"before", "after", "handoff"} /\ k \in DOMAIN transition /\ k[1] = e
    BY DEF OwnTransitions, InboundInv, TypeOK
  <2>2. PICK s \in {"before", "after", "handoff"} : k = <<e, s>>
    BY <2>1
  <2>3. s = "before"
    BY <1>2, <2>1, <2>2 DEF VersionInv, TransitionsPlanned
  <2> QED
    BY <2>2, <2>3
<1>6. <<e, "before">> \in DOMAIN transition => <<e, "before">> \in OwnTransitions(e)
  BY DEF OwnTransitions
<1>7. \A k \in OwnTransitions(e) : k \in DOMAIN transition
  BY DEF OwnTransitions
<1> QED
  BY <1>3, <1>4, <1>5, <1>6, <1>7 DEF AtVersion

\* A reply answers the conversation its plan was made for: it is created only while every
\* version since the checkpoint was made by the event itself, whatever people, earlier
\* executions and replayed commands did in between.
THEOREM ReplyIsCurrent == Spec => ReplyAnswersCurrentState
<1>1. ASSUME InboundInv, VersionInv, [Next]_vars
      PROVE  [\A e \in DOMAIN reply' \ DOMAIN reply :
                /\ OwnTransitions(e) = {} => version = checkpoint[e].version
                /\ \A k \in OwnTransitions(e) : version = transition[k]]_vars
  <2> SUFFICES ASSUME NEW e \in DOMAIN reply' \ DOMAIN reply
               PROVE  /\ OwnTransitions(e) = {} => version = checkpoint[e].version
                      /\ \A k \in OwnTransitions(e) : version = transition[k]
    OBVIOUS
  <2>1. \/ CreateReply \/ (\E step \in {"before", "after", "handoff"} : Transit(step))
        \/ DOMAIN reply' = DOMAIN reply
    <3>1. CASE Gather \/ Authorize
      BY <3>1 DEF Gather, Authorize, Unchanged
    <3>2. CASE ClaimReply \/ RecordResult
      BY <3>2 DEF ClaimReply, RecordResult, SetReply
    <3> QED
      BY <1>1, <3>1, <3>2, AsideKeeps DEF Next, Execute
  <2>2. /\ Running /\ Step \in {"reply", "handoff"} /\ Current /\ e = run.event
        /\ e \notin DOMAIN reply
    BY <2>1 DEF CreateReply, Transit, At
  <2> QED
    BY <1>1, <2>2, CreatedAtVersion
<1> QED
  BY <1>1, InitIsOnTime, NextKeepsVersions, Inbound, PTL DEF Spec, ReplyAnswersCurrentState

=============================================================================
