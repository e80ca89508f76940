--------------------------- MODULE CommercialCycle ---------------------------
(***************************************************************************)
(* The commercial cycle of one conversation: the customer's request        *)
(* collected by the bot, the attendant's proposal and its PDF documents,   *)
(* their delivery in batches, the decision, and the confirmed service that *)
(* the accepted quote gives rise to                                        *)
(* (prisma-whatsapp.repository.ts, prisma-confirmed-service.repository.ts, *)
(* conversation-transition.matrix.ts).                                     *)
(*                                                                         *)
(* Commands of the conversation run under its advisory lock and carry the  *)
(* version their author saw.  Three writers do not take it: the patch of a *)
(* request, the attestation of a requirement and the confirmation of a     *)
(* service.  They interleave with the two commands whose reads and writes  *)
(* are told apart here: the confirmation of a request and the cancellation *)
(* of a quote.  The other commands write rows those three never write.     *)
(*                                                                         *)
(* Left out: departments other than the commercial one, the sessions (see  *)
(* ServicePriority), the dispatch of the documents' messages (see          *)
(* EvolutionDispatch) and the contextual follow-up.                        *)
(***************************************************************************)
EXTENDS Naturals, Sequences, FiniteSets

CONSTANTS
    Operator,        \* attendants of the commercial department
    MaxQuotes,       \* bound: quotes of the conversation
    MaxDocuments,    \* bound: documents ever uploaded
    MaxOperations    \* bound: commands executed, outcomes and attestations aside

ASSUME OperatorAssumption == Operator # {}
ASSUME BoundsAssumption ==
    MaxQuotes \in Nat \ {0} /\ MaxDocuments \in Nat /\ MaxOperations \in Nat

Document == 1..MaxDocuments
Kind == {"financial", "operational"}

VARIABLES
    conv,         \* the conversation: state, flow step, request status, version
    quotes,       \* its quotes, in sequence
    document,     \* [Document -> [quote, batch, status]], quote 0 before the upload
    attested,     \* <<quote, version, kind>> of the recorded attestations
    service,      \* [quotes -> version the service was confirmed at, 0 if none]
    held,         \* the command that holds the lock between its reads and its writes
    seen,         \* [Operator -> the version and the contents on the screen]
    operations    \* commands executed so far

vars == <<conv, quotes, document, attested, service, held, seen, operations>>

State == {"bot-active", "sent-to-human", "human-active", "waiting-for-customer", "closed"}
Step == {"main-menu", "quote-data-collection", "quote-summary-confirmation",
         "quote-send-pending", "human-service", "commercial-follow-up-menu", "closed"}
Status == {"collecting-information", "waiting-for-customer", "under-review",
           "approved", "rejected", "cancelled"}
Unsent == {"uploaded", "queued", "failed"}
Free == [op |-> "none", quote |-> 0, version |-> 0, content |-> 0]

Latest == Len(quotes)
Contents == [q \in 1..MaxQuotes |-> IF q <= Latest THEN quotes[q].content ELSE 0]
Documents(q) == {d \in Document : document[d].quote = q}
WithStatus(q, S) == {d \in Documents(q) : document[d].status \in S}
Queued == {d \in Document : document[d].quote # 0 /\ document[d].status = "queued"}

Init ==
    /\ conv = [state |-> "bot-active", step |-> "main-menu", request |-> "not-started",
               resume |-> "none", version |-> 0]
    /\ quotes = << >>
    /\ document = [d \in Document |-> [quote |-> 0, batch |-> 0, status |-> "uploaded"]]
    /\ attested = {} /\ service = [q \in 1..MaxQuotes |-> 0]
    /\ held = Free /\ operations = 0
    /\ seen = [o \in Operator |-> [version |-> 0, content |-> [q \in 1..MaxQuotes |-> 0]]]

-----------------------------------------------------------------------------
(* Commands *)

Counted == operations < MaxOperations /\ operations' = operations + 1

\* A command takes the lock of the conversation; nobody holds it.
Command == held = Free /\ Counted /\ UNCHANGED <<held, seen>>

\* Mutant: the version is not compared.
BadPanel(o) == Command /\ conv.state # "closed"

\* A panel command carries the version its author saw.
Panel(o) == Command /\ conv.state # "closed" /\ seen[o].version = conv.version

Becomes(fields) == conv' = [fields EXCEPT !.version = conv.version + 1]

\* The attendant loads the conversation.
Look(o) ==
    /\ seen' = [seen EXCEPT ![o] = [version |-> conv.version, content |-> Contents]]
    /\ seen' # seen
    /\ UNCHANGED <<conv, quotes, document, attested, service, held, operations>>

-----------------------------------------------------------------------------
(* The request, collected by the bot *)

FollowUp == {"waiting-for-customer", "under-review", "approved", "rejected"}

\* resolveBotFlowStep
BotStep(c) ==
    LET candidate == IF c.resume # "none" THEN c.resume ELSE c.step
    IN  CASE c.request \in FollowUp -> "commercial-follow-up-menu"
          [] c.request \notin FollowUp
             /\ candidate \notin {"quote-send-pending", "human-service", "closed"} -> candidate
          [] OTHER -> IF c.request = "collecting-information"
                      THEN "quote-data-collection" ELSE "main-menu"

NewQuote(status, confirmed) ==
    [status |-> status, confirmed |-> confirmed, version |-> 1, content |-> 1,
     summary |-> IF confirmed THEN 1 ELSE 0, judged |-> 0]

\* start-quote, new-quote-request and start-assisted-quote: a new quote is
\* collected; the last two not while a proposal is being sent.
StartQuote ==
    /\ Command /\ Latest < MaxQuotes
    /\ \/ conv.state = "bot-active" /\ conv.request = "not-started" /\ conv.step = "main-menu"
       \/ conv.state # "closed" /\ Queued = {}
    /\ quotes' = Append(quotes, NewQuote("collecting-information", FALSE))
    /\ Becomes([conv EXCEPT !.state = "bot-active", !.step = "quote-data-collection",
                            !.request = "collecting-information", !.resume = "none"])
    /\ UNCHANGED <<document, attested, service>>

\* patchQuoteRequest: without the lock of the conversation, on the quote's version.
PatchQuote(q) ==
    /\ Counted /\ q \in 1..Latest /\ ~quotes[q].confirmed
    /\ quotes' = [quotes EXCEPT ![q].version = @ + 1, ![q].content = @ + 1]
    /\ UNCHANGED <<conv, document, attested, service, held, seen>>

PresentSummary ==
    /\ Command /\ Latest > 0 /\ conv.state = "bot-active"
    /\ conv.step = "quote-data-collection" /\ conv.request = "collecting-information"
    /\ quotes' = [quotes EXCEPT ![Latest].status = "waiting-for-customer",
                                ![Latest].version = @ + 1]
    /\ Becomes([conv EXCEPT !.state = "waiting-for-customer",
                !.step = "quote-summary-confirmation", !.request = "waiting-for-customer",
                !.resume = "quote-summary-confirmation"])
    /\ UNCHANGED <<document, attested, service>>

SummaryShown ==
    /\ Latest > 0 /\ conv.state \in {"waiting-for-customer", "bot-active"}
    /\ conv.step = "quote-summary-confirmation" /\ conv.request = "waiting-for-customer"

CorrectQuote ==
    /\ Command /\ SummaryShown
    /\ quotes' = [quotes EXCEPT ![Latest].status = "collecting-information",
                                ![Latest].version = @ + 1]
    /\ Becomes([conv EXCEPT !.state = "bot-active", !.step = "quote-data-collection",
                            !.request = "collecting-information", !.resume = "none"])
    /\ UNCHANGED <<document, attested, service>>

\* confirm-quote reads the quote; it is written without its version, and the
\* summary the customer confirmed is the quote as it was read.
ConfirmReads ==
    /\ held = Free /\ Counted /\ SummaryShown
    /\ held' = [op |-> "confirm", quote |-> Latest, version |-> quotes[Latest].version,
                content |-> quotes[Latest].content]
    /\ UNCHANGED <<conv, quotes, document, attested, service, seen>>

ConfirmWrites ==
    /\ held.op = "confirm" /\ held' = Free
    /\ quotes' = [quotes EXCEPT ![held.quote].status = "under-review",
                    ![held.quote].confirmed = TRUE, ![held.quote].version = @ + 1,
                    ![held.quote].summary = held.content]
    /\ Becomes([conv EXCEPT !.state = "sent-to-human", !.step = "human-service",
                    !.request = "under-review", !.resume = "commercial-follow-up-menu"])
    /\ UNCHANGED <<document, attested, service, seen, operations>>

-----------------------------------------------------------------------------
(* The conversation around it *)

\* A text of the customer: an answer to the summary, to a proposal, or to a
\* conversation that was closed.
CustomerWrites ==
    /\ Command /\ UNCHANGED <<quotes, document, attested, service>>
    /\ \/ /\ conv.state = "waiting-for-customer" /\ conv.step = "quote-summary-confirmation"
          /\ conv.request = "waiting-for-customer"
          /\ Becomes([conv EXCEPT !.state = "bot-active", !.resume = "none"])
       \/ /\ conv.state = "waiting-for-customer" /\ conv.step = "quote-send-pending"
          /\ conv.request = "waiting-for-customer"
          /\ Becomes([conv EXCEPT !.state = "sent-to-human", !.step = "human-service",
                                  !.resume = "commercial-follow-up-menu"])
       \/ /\ conv.state = "closed"
          /\ Becomes([conv EXCEPT !.state = "bot-active", !.step = "main-menu",
                                  !.resume = "none"])

\* take-over and return-to-bot wait for the proposal that is being sent.
TakeOver(o) ==
    /\ Panel(o) /\ Queued = {} /\ conv.state # "human-active"
    /\ Becomes([conv EXCEPT !.state = "human-active", !.step = "human-service",
                            !.resume = BotStep(conv)])
    /\ UNCHANGED <<quotes, document, attested, service>>

ReturnToBot(o) ==
    /\ Panel(o) /\ Queued = {} /\ conv.state = "human-active"
    /\ Becomes([conv EXCEPT !.state = "bot-active", !.step = BotStep(conv),
                            !.resume = "none"])
    /\ UNCHANGED <<quotes, document, attested, service>>

\* close and close-after-rejection do not.
Close(o) ==
    /\ Panel(o)
    /\ Becomes([conv EXCEPT !.state = "closed", !.step = "closed", !.resume = "none"])
    /\ UNCHANGED <<quotes, document, attested, service>>

-----------------------------------------------------------------------------
(* Proposals *)

\* The conversation is with the attendant who prepares or sends a proposal.
Proposing == [conv EXCEPT !.state = "human-active", !.step = "quote-send-pending",
                 !.request = "under-review", !.resume = "commercial-follow-up-menu"]

PendingQuote == Latest > 0 /\ quotes[Latest].status = "under-review"

\* The quote under review is rewritten, or a new one opens.
Propose ==
    \/ /\ PendingQuote
       /\ quotes' = [quotes EXCEPT ![Latest].confirmed = TRUE,
              ![Latest].content = @ + 1, ![Latest].summary = quotes[Latest].content + 1]
    \/ /\ ~PendingQuote /\ Latest < MaxQuotes
       /\ quotes' = Append(quotes, NewQuote("under-review", TRUE))

\* createQuoteProposal
CreateProposal(o) ==
    /\ Panel(o) /\ Propose /\ Becomes(Proposing)
    /\ UNCHANGED <<document, attested, service>>

\* acceptsProposalDocumentsForCurrentCycle
AcceptsDocuments(q) ==
    /\ q = Latest /\ quotes[q].confirmed
    /\ quotes[q].status \in {"under-review", "waiting-for-customer"}

OpenBatch(q) == {d \in WithStatus(q, Unsent) : document[d].batch # 0}

MayUpload(o) == Panel(o) /\ Latest > 0 /\ AcceptsDocuments(Latest)

Upload(o, d) ==
    /\ MayUpload(o)
    /\ document[d].quote = 0 /\ \A e \in 1..(d - 1) : document[e].quote # 0
    /\ OpenBatch(Latest) = {}
    /\ document' = [document EXCEPT ![d].quote = Latest]
    /\ UNCHANGED <<conv, quotes, attested, service>>

\* Mutant: another batch may still be open.
BadBatchMayBeSent(q, batch, members) ==
    LET existing == {d \in Documents(q) : document[d].batch = batch}
    IN  /\ \A d \in members : document[d].batch \in {0, batch}
        /\ IF existing = {} THEN members \subseteq WithStatus(q, {"uploaded", "failed"})
                            ELSE members = existing

\* A new batch of documents not sent yet, or the same batch again.
BatchMayBeSent(q, batch, members) ==
    LET existing == {d \in Documents(q) : document[d].batch = batch}
    IN  /\ \A d \in members : document[d].batch \in {0, batch}
        /\ IF existing = {} THEN members \subseteq WithStatus(q, {"uploaded", "failed"})
                            ELSE members = existing
        /\ \A d \in OpenBatch(q) : document[d].batch = batch

\* The document to send, itself and its batch of the same quote.
MaySend(o, d, members) ==
    /\ Panel(o) /\ Latest > 0 /\ AcceptsDocuments(Latest)
    /\ members \subseteq Documents(Latest) /\ d \in members
    /\ document[d].status \in {"uploaded", "failed"}

\* The batch gets its number, the document to send a message of its own.
Enqueue(d, batch, members) ==
    document' = [e \in Document |->
        [document[e] EXCEPT !.batch = IF e \in members THEN batch ELSE @,
                            !.status = IF e = d THEN "queued" ELSE @]]

SendProposal(o, d, batch, members) ==
    /\ MaySend(o, d, members)
    /\ BatchMayBeSent(Latest, batch, members)
    /\ Enqueue(d, batch, members)
    /\ quotes' = IF quotes[Latest].status = "waiting-for-customer"
                 THEN [quotes EXCEPT ![Latest].status = "under-review",
                                     ![Latest].version = @ + 1]
                 ELSE quotes
    /\ Becomes(Proposing)
    /\ UNCHANGED <<attested, service>>

-----------------------------------------------------------------------------
(* The outcome of the delivery *)

\* proposal-delivery-confirmed, after snapshotForProposalDelivery
DeliveryFits ==
    /\ conv.request = "under-review"
    /\ \/ /\ conv.state \in {"bot-active", "sent-to-human", "human-active"}
          /\ conv.step = "quote-send-pending"
       \/ conv.state = "bot-active" /\ conv.step = "commercial-follow-up-menu"

\* The provider's answer for a queued document is refused unless this holds.
ResultFits(d) == quotes[document[d].quote].status = "under-review" /\ DeliveryFits

\* completeQuoteProposalBatchIfReady: the whole batch was sent.
BatchDone(d, after) ==
    \A e \in Documents(document[d].quote) :
        after[e].batch = document[d].batch => after[e].status = "sent"

CompleteBatch(d, after) ==
    IF BatchDone(d, after) /\ quotes[document[d].quote].status = "under-review"
    THEN /\ DeliveryFits
         /\ quotes' = [quotes EXCEPT ![document[d].quote].status = "waiting-for-customer",
                                     ![document[d].quote].version = @ + 1]
         /\ Becomes([conv EXCEPT !.state = "waiting-for-customer",
                !.step = "quote-send-pending", !.request = "waiting-for-customer",
                !.resume = "none"])
    ELSE UNCHANGED <<conv, quotes>>

Outcome == held = Free /\ UNCHANGED <<held, seen, operations>>

\* recordEvolutionResult, for a document's message
RecordFailure(d) ==
    /\ Outcome /\ d \in Queued /\ ResultFits(d)
    /\ document' = [document EXCEPT ![d].status = "failed"]
    /\ UNCHANGED <<conv, quotes, attested, service>>

RecordDelivery(d) ==
    /\ Outcome /\ d \in Queued /\ ResultFits(d)
    /\ document' = [document EXCEPT ![d].status = "sent"]
    /\ CompleteBatch(d, document')
    /\ UNCHANGED <<attested, service>>

\* reconcileUncertainDispatch: a person states that the message was sent.
ConfirmSent(d) ==
    /\ Outcome /\ d \in Queued
    /\ document' = [document EXCEPT ![d].status = "sent"]
    /\ CompleteBatch(d, document')
    /\ UNCHANGED <<attested, service>>

-----------------------------------------------------------------------------
(* Decisions *)

Final == {"approved", "rejected", "cancelled"}

\* Mutant: a decision may be taken again.
BadDecide(o, q, decision) ==
    /\ Panel(o) /\ q \in 1..Latest /\ WithStatus(q, {"sent"}) # {}
    /\ quotes' = [quotes EXCEPT ![q].status = decision, ![q].version = @ + 1,
                                ![q].judged = seen[o].content[q]]
    /\ conv' = IF q = Latest
               THEN [conv EXCEPT !.request = decision, !.version = @ + 1] ELSE conv
    /\ UNCHANGED <<document, attested, service>>

\* decideQuoteProposal: any quote of the conversation that has a sent document.
Decide(o, q, decision) ==
    /\ Panel(o) /\ q \in 1..Latest /\ WithStatus(q, {"sent"}) # {}
    /\ quotes[q].status \notin Final
    /\ quotes' = [quotes EXCEPT ![q].status = decision, ![q].version = @ + 1,
                                ![q].judged = seen[o].content[q]]
    /\ conv' = IF q = Latest
               THEN [conv EXCEPT !.request = decision, !.version = @ + 1] ELSE conv
    /\ UNCHANGED <<document, attested, service>>

\* updateQuoteProposalStatus, under-review or waiting-for-customer
SetStatus(o, status) ==
    /\ Panel(o) /\ Latest > 0 /\ quotes[Latest].status \notin Final \cup {status}
    /\ status = "waiting-for-customer" => WithStatus(Latest, {"sent"}) # {}
    /\ quotes' = [quotes EXCEPT ![Latest].status = status, ![Latest].version = @ + 1]
    /\ Becomes([conv EXCEPT !.request = status])
    /\ UNCHANGED <<document, attested, service>>

\* The cancellation looks for a confirmed service, then writes.
CancelReads(o) ==
    /\ held = Free /\ Counted /\ conv.state # "closed" /\ seen[o].version = conv.version
    /\ Latest > 0 /\ quotes[Latest].status \notin {"rejected", "cancelled"}
    /\ service[Latest] = 0
    /\ held' = [op |-> "cancel", quote |-> Latest, version |-> quotes[Latest].version,
                content |-> 0]
    /\ UNCHANGED <<conv, quotes, document, attested, service, seen>>

CancelWrites ==
    /\ held.op = "cancel" /\ held' = Free
    /\ IF quotes[held.quote].version = held.version
       THEN /\ quotes' = [quotes EXCEPT ![held.quote].status = "cancelled",
                                        ![held.quote].version = @ + 1]
            /\ Becomes([conv EXCEPT !.request = "cancelled"])
       ELSE UNCHANGED <<conv, quotes>>
    /\ UNCHANGED <<document, attested, service, seen, operations>>

-----------------------------------------------------------------------------
(* The confirmed service: serializable, without the lock of the conversation *)

Accepted(q) == q \in 1..Latest /\ quotes[q].status = "approved"

\* attestRequirement and markRequirementNotApplicable
Attest(q, kind) ==
    /\ Accepted(q) /\ <<q, quotes[q].version, kind>> \notin attested
    /\ attested' = attested \cup {<<q, quotes[q].version, kind>>}
    /\ UNCHANGED <<conv, quotes, document, service, held, seen, operations>>

Confirm(q) ==
    /\ Accepted(q) /\ service[q] = 0
    /\ \A k \in Kind : <<q, quotes[q].version, k>> \in attested
    /\ service' = [service EXCEPT ![q] = quotes[q].version]
    /\ UNCHANGED <<conv, quotes, document, attested, held, seen, operations>>

-----------------------------------------------------------------------------
Bot == StartQuote \/ PresentSummary \/ CorrectQuote \/ ConfirmReads \/ ConfirmWrites
       \/ CustomerWrites

Attendant(o) ==
    \/ Look(o) \/ TakeOver(o) \/ ReturnToBot(o) \/ Close(o) \/ CreateProposal(o)
    \/ CancelReads(o)
    \/ \E d \in Document : Upload(o, d)
    \/ \E members \in SUBSET Document : \E d \in members, b \in Document :
           SendProposal(o, d, b, members)
    \/ \E q \in 1..MaxQuotes, decision \in {"approved", "rejected"} : Decide(o, q, decision)
    \/ \E status \in {"under-review", "waiting-for-customer"} : SetStatus(o, status)

Next ==
    \/ Bot \/ CancelWrites
    \/ \E o \in Operator : Attendant(o)
    \/ \E d \in Document : RecordDelivery(d) \/ RecordFailure(d) \/ ConfirmSent(d)
    \/ \E q \in 1..MaxQuotes :
           PatchQuote(q) \/ Confirm(q) \/ \E k \in Kind : Attest(q, k)

Spec == Init /\ [][Next]_vars

-----------------------------------------------------------------------------
(* Properties *)

Quote == [status : Status, confirmed : BOOLEAN, version : Nat \ {0}, content : Nat \ {0},
          summary : Nat, judged : Nat]

\* The state keeps its shape, quotes within their bound included.
TypeOK ==
    /\ conv \in [state : State, step : Step, request : Status \cup {"not-started"},
                 resume : Step \cup {"none"}, version : Nat]
    /\ quotes \in Seq(Quote) /\ Latest <= MaxQuotes
    /\ document \in [Document -> [quote : 0..MaxQuotes, batch : {0} \cup Document,
                                  status : Unsent \cup {"sent"}]]
    /\ attested \subseteq (1..MaxQuotes) \X (Nat \ {0}) \X Kind
    /\ service \in [1..MaxQuotes -> Nat]
    /\ held \in [op : {"none", "confirm", "cancel"}, quote : 0..MaxQuotes, version : Nat,
                 content : Nat]
    /\ seen \in [Operator -> [version : Nat, content : [1..MaxQuotes -> Nat]]]
    /\ operations \in 0..MaxOperations

\* The documents of a quote that still have to reach the customer belong to
\* one batch: no second batch starts, and none is completed, around them.
OneOpenBatch ==
    \A q \in 1..Latest : \A d, e \in OpenBatch(q) : document[d].batch = document[e].batch

\* The queue of the conversation, its request status, is that of its latest
\* quote, whichever of bot, attendant, provider or customer moved it.
QueueFollowsQuote ==
    conv.request = IF Latest = 0 THEN "not-started" ELSE quotes[Latest].status

\* A quote was accepted or refused as the attendant who recorded it saw it,
\* and was not rewritten since; some document of it had been sent.
JudgedAsShown ==
    \A q \in 1..Latest : quotes[q].status \in {"approved", "rejected"} =>
        quotes[q].judged = quotes[q].content /\ WithStatus(q, {"sent"}) # {}

\* Acceptance can only be cancelled; refusal and cancellation are final, and
\* a new request of the customer leaves the decided quote as it was.
DecisionIsFinal ==
    [][\A q \in 1..Latest : quotes[q].status \in Final =>
           \/ quotes'[q].status = quotes[q].status
           \/ quotes[q].status = "approved" /\ quotes'[q].status = "cancelled"]_quotes

\* A confirmed service stands on an accepted quote: the documents say that
\* the acceptance can no longer be cancelled.
AcceptanceStands ==
    \A q \in 1..Latest : service[q] # 0 => quotes[q].status = "approved"
==============================================================================
