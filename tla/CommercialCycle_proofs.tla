----------------------- MODULE CommercialCycle_proofs -----------------------
(***************************************************************************)
(* The commercial cycle of a conversation, proved for any attendants,      *)
(* quotes, documents and commands: what an attendant judged is what the    *)
(* attendant was shown, decisions are final, one batch of documents is     *)
(* open at a time, and the queue of the conversation is that of its latest *)
(* quote.                                                                  *)
(*                                                                         *)
(* They hold although three writers do not take the lock of the            *)
(* conversation, and although panels work on what they loaded: the         *)
(* invariant says what a screen whose version is current still shows       *)
(* (Screens) and what the holder of the lock still finds (HeldFits).       *)
(***************************************************************************)
EXTENDS CommercialCycle, SequenceTheorems, TLAPS

-----------------------------------------------------------------------------
\* The inductive invariant

Conversation == [state : State, step : Step, request : Status \cup {"not-started"},
                 resume : Step \cup {"none"}, version : Nat]
Paper == [quote : 0..MaxQuotes, batch : {0} \cup Document, status : Unsent \cup {"sent"}]
Held == [op : {"none", "confirm", "cancel"}, quote : 0..MaxQuotes, version : Nat,
         content : Nat]
Screen == [version : Nat, content : [1..MaxQuotes -> Nat]]

\* A document that was uploaded belongs to a quote that was confirmed.
Papers ==
    \A d \in Document :
        /\ document[d].quote = 0 => document[d].batch = 0 /\ document[d].status = "uploaded"
        /\ document[d].quote # 0 => /\ document[d].quote \in 1..Latest
                                    /\ quotes[document[d].quote].confirmed

\* A screen of the current version shows the confirmed quotes as they are.
Screens ==
    \A o \in Operator :
        /\ seen[o].version <= conv.version
        /\ seen[o].version = conv.version =>
             \A q \in 1..Latest : quotes[q].confirmed =>
                 seen[o].content[q] = quotes[q].content

\* A quote under review that is not the latest one waits for no answer of the provider.
Parked ==
    \A d \in Document :
        document[d].quote \in 1..(Latest - 1) /\ document[d].status = "queued" =>
            quotes[document[d].quote].status # "under-review"

\* Until the holder of the lock writes, its quote is the latest, and of the status read.
HeldFits ==
    /\ held.op \in {"confirm", "cancel"} => held.quote = Latest /\ Latest > 0
    /\ held.op = "confirm" => quotes[Latest].status = "waiting-for-customer"
    /\ held.op = "cancel" => quotes[Latest].status \notin {"rejected", "cancelled"}

\* The documents that still have to reach the customer, as OneOpenBatch, of any quote.
Batches ==
    \A d, e \in Document :
        /\ document[d].quote # 0 /\ document[d].quote = document[e].quote
        /\ document[d].status \in Unsent /\ document[d].batch # 0
        /\ document[e].status \in Unsent /\ document[e].batch # 0
        => document[d].batch = document[e].batch

CycleInv ==
    /\ TypeOK /\ Papers /\ Screens /\ Parked /\ HeldFits /\ Batches
    /\ QueueFollowsQuote /\ JudgedAsShown

\* What may happen to the documents that are there: none is lost, what was sent stays
\* sent, and one is queued for the latest quote only.
DocumentsMove ==
    /\ \A d \in Document :
         /\ document'[d].quote = document[d].quote
         /\ document[d].quote = 0 => document'[d] = document[d]
         /\ document[d].status = "sent" => document'[d].status = "sent"
         /\ document'[d].status = "queued" =>
              document[d].status = "queued" \/ document[d].quote = Latest
    /\ Batches'

-----------------------------------------------------------------------------
\* Steps by what they do to the quotes

LEMMA TypeFacts ==
    ASSUME TypeOK
    PROVE  /\ conv \in Conversation /\ quotes \in Seq(Quote) /\ Latest \in 0..MaxQuotes
           /\ document \in [Document -> Paper] /\ service \in [1..MaxQuotes -> Nat]
           /\ held \in Held /\ seen \in [Operator -> Screen]
           /\ \A q \in 1..Latest : quotes[q] \in Quote
BY DEF TypeOK, Conversation, Paper, Held, Screen, Latest

\* One quote is written.
LEMMA WrittenFits ==
    ASSUME NEW s \in Seq(Quote), NEW q \in 1..Len(s), NEW r \in Quote,
           NEW t, t = [s EXCEPT ![q] = r]
    PROVE  /\ t \in Seq(Quote) /\ Len(t) = Len(s)
           /\ \A n \in 1..Len(s) : t[n] = IF n = q THEN r ELSE s[n]
BY ExceptSeq

\* A quote is added.
LEMMA AddedFits ==
    ASSUME NEW s \in Seq(Quote), NEW r \in Quote, NEW t, t = Append(s, r)
    PROVE  /\ t \in Seq(Quote) /\ Len(t) = Len(s) + 1
           /\ \A n \in 1..(Len(s) + 1) : t[n] = IF n <= Len(s) THEN s[n] ELSE r
BY AppendProperties

LEMMA QuotesStay ==
    ASSUME CycleInv, TypeOK', DocumentsMove, HeldFits', seen' = seen, quotes' = quotes,
           conv'.version >= conv.version, conv'.request = conv.request
    PROVE  CycleInv'
<1>1. /\ conv \in Conversation /\ conv' \in Conversation /\ seen \in [Operator -> Screen]
      /\ Latest \in 0..MaxQuotes /\ Latest' = Latest
      /\ document \in [Document -> Paper] /\ document' \in [Document -> Paper]
  BY TypeFacts DEF CycleInv, Latest, TypeOK, Conversation, Paper
<1>2. Papers'
  BY <1>1 DEF CycleInv, Papers, DocumentsMove
<1>3. Screens'
  BY <1>1 DEF CycleInv, Screens, Screen, Conversation
<1>4. Parked'
  BY <1>1 DEF CycleInv, Parked, DocumentsMove
<1>5. QueueFollowsQuote'
  BY <1>1 DEF CycleInv, QueueFollowsQuote
<1>6. JudgedAsShown'
  BY <1>1 DEF CycleInv, JudgedAsShown, DocumentsMove, WithStatus, Documents
<1> QED
  BY <1>2, <1>3, <1>4, <1>5, <1>6 DEF CycleInv, DocumentsMove

LEMMA QuoteWritten ==
    ASSUME CycleInv, TypeOK', DocumentsMove, HeldFits', seen' = seen,
           NEW q \in 1..Latest, NEW r \in Quote, quotes' = [quotes EXCEPT ![q] = r],
           quotes[q].confirmed => r.confirmed,
           conv'.version >= conv.version,
           conv'.version = conv.version =>
             /\ r.confirmed => quotes[q].confirmed
             /\ r.confirmed => r.content = quotes[q].content,
           conv'.request = IF q = Latest THEN r.status ELSE conv.request,
           r.status = "under-review" => q = Latest \/ quotes[q].status = "under-review",
           r.status \in {"approved", "rejected"} =>
             r.judged = r.content /\ WithStatus(q, {"sent"}) # {}
    PROVE  CycleInv'
<1>1. /\ conv \in Conversation /\ conv' \in Conversation /\ seen \in [Operator -> Screen]
      /\ Latest \in 0..MaxQuotes /\ quotes \in Seq(Quote)
      /\ \A n \in 1..Latest : quotes[n] \in Quote
      /\ document \in [Document -> Paper] /\ document' \in [Document -> Paper]
  BY TypeFacts DEF CycleInv, TypeOK, Conversation, Paper
<1>2. /\ Latest' = Latest
      /\ \A n \in 1..Latest : quotes'[n] = IF n = q THEN r ELSE quotes[n]
  BY <1>1, WrittenFits DEF Latest
<1>3. Papers'
  BY <1>1, <1>2 DEF CycleInv, Papers, DocumentsMove
<1>4. Screens'
  <2> SUFFICES ASSUME NEW o \in Operator
               PROVE  /\ seen[o].version <= conv'.version
                      /\ seen[o].version = conv'.version =>
                           \A n \in 1..Latest : quotes'[n].confirmed =>
                               seen[o].content[n] = quotes'[n].content
    BY <1>2 DEF Screens
  <2>1. /\ seen[o].version \in Nat /\ conv.version \in Nat /\ conv'.version \in Nat
        /\ seen[o].version <= conv.version
    BY <1>1 DEF CycleInv, Screens, Screen, Conversation
  <2>2. ASSUME seen[o].version = conv'.version, NEW n \in 1..Latest, quotes'[n].confirmed
        PROVE  seen[o].content[n] = quotes'[n].content
    <3>1. conv'.version = conv.version /\ seen[o].version = conv.version
      BY <2>1, <2>2
    <3>2. quotes[n].confirmed /\ quotes'[n].content = quotes[n].content
      BY <1>2, <2>2, <3>1
    <3> QED
      BY <3>1, <3>2 DEF CycleInv, Screens
  <2> QED
    BY <2>1, <2>2
<1>5. Parked'
  BY <1>1, <1>2 DEF CycleInv, Parked, DocumentsMove
<1>6. QueueFollowsQuote'
  BY <1>1, <1>2 DEF CycleInv, QueueFollowsQuote
<1>7. JudgedAsShown'
  <2>1. \A n \in 1..Latest : WithStatus(n, {"sent"}) # {} => WithStatus(n, {"sent"})' # {}
    BY DEF DocumentsMove, WithStatus, Documents
  <2> QED
    BY <1>2, <2>1 DEF CycleInv, JudgedAsShown
<1> QED
  BY <1>3, <1>4, <1>5, <1>6, <1>7 DEF CycleInv, DocumentsMove

LEMMA QuoteAdded ==
    ASSUME CycleInv, TypeOK', HeldFits', UNCHANGED <<seen, document>>,
           NEW r \in Quote, Latest' = Latest + 1,
           \A n \in 1..(Latest + 1) : quotes'[n] = IF n <= Latest THEN quotes[n] ELSE r,
           r.status \notin {"approved", "rejected"},
           conv'.version > conv.version, conv'.request = r.status,
           Queued = {} \/ Latest = 0 \/ quotes[Latest].status # "under-review"
    PROVE  CycleInv'
<1>1. /\ conv \in Conversation /\ conv' \in Conversation /\ seen \in [Operator -> Screen]
      /\ Latest \in 0..MaxQuotes /\ quotes \in Seq(Quote)
      /\ \A n \in 1..Latest : quotes[n] \in Quote
      /\ document \in [Document -> Paper]
  BY TypeFacts DEF CycleInv, TypeOK, Conversation
<1>2. /\ Latest' = Latest + 1 /\ Latest \in Nat
      /\ quotes'[Latest + 1] = r /\ \A n \in 1..Latest : quotes'[n] = quotes[n]
      /\ document' = document /\ seen' = seen
  BY <1>1
<1>3. Papers'
  BY <1>1, <1>2 DEF CycleInv, Papers
<1>4. Screens'
  BY <1>1, <1>2 DEF CycleInv, Screens, Screen, Conversation
<1>5. Parked'
  <2> SUFFICES ASSUME NEW d \in Document, document[d].quote \in 1..Latest,
                      document[d].status = "queued"
               PROVE  quotes[document[d].quote].status # "under-review"
    BY <1>1, <1>2 DEF Parked
  <2>1. d \in Queued
    BY <1>1 DEF Queued, Paper
  <2>2. CASE document[d].quote = Latest
    BY <2>1, <2>2
  <2>3. CASE document[d].quote # Latest
    BY <1>1, <2>3 DEF CycleInv, Parked
  <2> QED
    BY <2>2, <2>3
<1>6. QueueFollowsQuote'
  BY <1>1, <1>2 DEF QueueFollowsQuote
<1>7. JudgedAsShown'
  <2> SUFFICES ASSUME NEW n \in 1..(Latest + 1), quotes'[n].status \in {"approved", "rejected"}
               PROVE  quotes'[n].judged = quotes'[n].content /\ WithStatus(n, {"sent"})' # {}
    BY <1>2 DEF JudgedAsShown
  <2>3. n \in 1..Latest /\ quotes'[n] = quotes[n]
    BY <1>2
  <2> QED
    BY <2>3 DEF CycleInv, JudgedAsShown, WithStatus, Documents
<1>8. Batches'
  BY DEF CycleInv, Batches
<1> QED
  BY <1>3, <1>4, <1>5, <1>6, <1>7, <1>8 DEF CycleInv

-----------------------------------------------------------------------------
\* What commands share

LEMMA Types ==
    ASSUME TypeOK, conv' \in Conversation, quotes' \in Seq(Quote), Latest' <= MaxQuotes,
           document' \in [Document -> Paper], held' \in Held,
           UNCHANGED <<attested, service, seen>>, operations' \in 0..MaxOperations
    PROVE  TypeOK'
BY DEF TypeOK, Conversation, Paper, Held

LEMMA DocumentsStay ==
    ASSUME CycleInv, document' = document
    PROVE  DocumentsMove /\ document' \in [Document -> Paper]
BY TypeFacts DEF CycleInv, DocumentsMove, Batches

LEMMA CountedFits ==
    ASSUME TypeOK, Counted \/ operations' = operations
    PROVE  operations' \in 0..MaxOperations
BY BoundsAssumption DEF TypeOK, Counted, BoundsAssumption

\* A lock that is free waits for nothing.
LEMMA Unlocked ==
    ASSUME held' = Free
    PROVE  HeldFits' /\ held' \in Held
BY BoundsAssumption DEF HeldFits, Free, Held, BoundsAssumption

LEMMA BecomesFits ==
    ASSUME conv \in Conversation, NEW f \in Conversation, Becomes(f)
    PROVE  /\ conv' \in Conversation /\ conv'.version = conv.version + 1
           /\ conv'.version > conv.version /\ conv'.request = f.request
<1>1. f.version \in Nat /\ conv.version \in Nat /\ conv' = [f EXCEPT !.version = conv.version + 1]
  BY DEF Becomes, Conversation
<1> QED
  BY <1>1 DEF Conversation

LEMMA BotStepFits ==
    ASSUME conv \in Conversation
    PROVE  BotStep(conv) \in Step
<1> DEFINE candidate == IF conv.resume # "none" THEN conv.resume ELSE conv.step
<1>1. candidate \in Step
  BY DEF Conversation
<1>2. /\ "commercial-follow-up-menu" \in Step /\ "quote-data-collection" \in Step
      /\ "main-menu" \in Step
  BY DEF Step
<1>3. BotStep(conv) \in {"commercial-follow-up-menu", "quote-data-collection", "main-menu",
                         candidate}
  BY DEF BotStep
<1> QED
  BY <1>1, <1>2, <1>3

\* A command that moves the conversation and leaves the quotes.
LEMMA MovedFits ==
    ASSUME CycleInv, Command, NEW f \in Conversation, f.request = conv.request, Becomes(f),
           DocumentsMove, document' \in [Document -> Paper],
           UNCHANGED <<quotes, attested, service>>
    PROVE  CycleInv'
<1>1. conv \in Conversation /\ quotes \in Seq(Quote) /\ Latest \in 0..MaxQuotes
      /\ Latest' = Latest
  BY TypeFacts DEF CycleInv, Latest
<1>2. conv' \in Conversation /\ conv'.version > conv.version /\ conv'.request = conv.request
  BY <1>1, BecomesFits
<1>3. HeldFits' /\ held' \in Held /\ seen' = seen
  BY Unlocked DEF Command
<1>5. operations' \in 0..MaxOperations
  BY CountedFits DEF CycleInv, Command
<1>6. TypeOK'
  BY <1>1, <1>2, <1>3, <1>5, Types DEF CycleInv
<1>7. conv'.version >= conv.version
  BY <1>1, <1>2 DEF Conversation
<1> QED
  BY <1>2, <1>3, <1>6, <1>7, QuotesStay

\* A command that writes the latest quote, and the conversation with it.
LEMMA LatestWritten ==
    ASSUME CycleInv, held' = Free, seen' = seen,
           Counted \/ operations' = operations,
           Latest > 0, NEW r \in Quote, quotes' = [quotes EXCEPT ![Latest] = r],
           quotes[Latest].confirmed => r.confirmed,
           NEW f \in Conversation, f.request = r.status, Becomes(f),
           r.status \notin {"approved", "rejected"},
           DocumentsMove, document' \in [Document -> Paper], UNCHANGED <<attested, service>>
    PROVE  CycleInv'
<1>1. conv \in Conversation /\ quotes \in Seq(Quote) /\ Latest \in 1..MaxQuotes
  BY TypeFacts DEF CycleInv
<1>2. conv' \in Conversation /\ conv'.version = conv.version + 1 /\ conv.version \in Nat
      /\ conv'.request = r.status
  BY <1>1, BecomesFits DEF Conversation
<1>3. quotes' \in Seq(Quote) /\ Latest' = Latest
  BY <1>1, WrittenFits DEF Latest
<1>4. HeldFits' /\ held' \in Held
  BY Unlocked
<1>5. operations' \in 0..MaxOperations
  BY CountedFits DEF CycleInv
<1>6. TypeOK'
  BY <1>1, <1>2, <1>3, <1>4, <1>5, Types DEF CycleInv
<1>7. Latest \in 1..Latest /\ conv'.version >= conv.version /\ conv'.version # conv.version
  BY <1>1, <1>2
<1> QED
  BY <1>2, <1>4, <1>6, <1>7, QuoteWritten

\* A command that adds a quote, and moves the conversation with it.
LEMMA LatestAdded ==
    ASSUME CycleInv, Command, Latest < MaxQuotes, NEW r \in Quote,
           quotes' = Append(quotes, r),
           NEW f \in Conversation, f.request = r.status, Becomes(f),
           r.status \notin {"approved", "rejected"},
           Queued = {} \/ Latest = 0 \/ quotes[Latest].status # "under-review",
           UNCHANGED <<document, attested, service>>
    PROVE  CycleInv'
<1>1. conv \in Conversation /\ quotes \in Seq(Quote) /\ Latest \in 0..MaxQuotes
      /\ MaxQuotes \in Nat
  BY TypeFacts, BoundsAssumption DEF CycleInv, BoundsAssumption
<1>2. conv' \in Conversation /\ conv'.version > conv.version /\ conv'.request = r.status
  BY <1>1, BecomesFits DEF Conversation
<1>3. /\ quotes' \in Seq(Quote) /\ Latest' = Latest + 1
      /\ \A n \in 1..(Latest + 1) : quotes'[n] = IF n <= Latest THEN quotes[n] ELSE r
  BY <1>1, AddedFits DEF Latest
<1>4. HeldFits' /\ held' \in Held /\ seen' = seen
  BY Unlocked DEF Command
<1>5. operations' \in 0..MaxOperations
  BY CountedFits DEF CycleInv, Command
<1>6. Latest' <= MaxQuotes /\ document' \in [Document -> Paper]
  BY <1>1, <1>3, DocumentsStay
<1>7. TypeOK'
  BY <1>1, <1>2, <1>3, <1>4, <1>5, <1>6, Types DEF CycleInv
<1> QED
  BY <1>2, <1>3, <1>4, <1>7, QuoteAdded

-----------------------------------------------------------------------------
\* The request, collected by the bot

LEMMA NewQuoteFits ==
    ASSUME NEW status \in Status, NEW confirmed \in BOOLEAN
    PROVE  NewQuote(status, confirmed) \in Quote /\ NewQuote(status, confirmed).status = status
BY DEF NewQuote, Quote

LEMMA Statuses ==
    /\ "collecting-information" \in Status /\ "waiting-for-customer" \in Status
    /\ "under-review" \in Status /\ "approved" \in Status /\ "rejected" \in Status
    /\ "cancelled" \in Status
BY DEF Status

\* A quote whose status changes.
Restated(a, status) == [a EXCEPT !.status = status, !.version = @ + 1]

LEMMA StatusFits ==
    ASSUME NEW a \in Quote, NEW status \in Status
    PROVE  /\ Restated(a, status) \in Quote /\ Restated(a, status).status = status
           /\ Restated(a, status).confirmed = a.confirmed
           /\ Restated(a, status).content = a.content
           /\ Restated(a, status).judged = a.judged
<1>1. PICK v \in Nat \ {0} : v = a.version + 1
  BY DEF Quote
<1>2. PICK r : r = [a EXCEPT !.status = status, !.version = v]
  OBVIOUS
<1>3. r = Restated(a, status)
  BY <1>1, <1>2 DEF Restated
<1>4. r \in Quote
  BY <1>2 DEF Quote
<1>5. r.status = status /\ r.content = a.content /\ r.judged = a.judged
  BY <1>2 DEF Quote
<1>6. r.confirmed = a.confirmed
  BY <1>2 DEF Quote
<1> QED
  BY <1>3, <1>4, <1>5, <1>6

\* A command that gives the latest quote another status, and the conversation with it.
LEMMA LatestRestated ==
    ASSUME CycleInv, held' = Free, seen' = seen,
           Counted \/ operations' = operations,
           Latest > 0, NEW status \in Status \ {"approved", "rejected"},
           quotes' = [quotes EXCEPT ![Latest] = Restated(quotes[Latest], status)],
           NEW f \in Conversation, f.request = status, Becomes(f),
           DocumentsMove, document' \in [Document -> Paper], UNCHANGED <<attested, service>>
    PROVE  CycleInv'
<1>1. quotes[Latest] \in Quote
  BY TypeFacts DEF CycleInv
<1>2. PICK r : r = Restated(quotes[Latest], status)
  OBVIOUS
<1>3. r \in Quote /\ r.status = status
  BY <1>1, <1>2, StatusFits
<1>4. r.confirmed = quotes[Latest].confirmed
  BY <1>1, <1>2, StatusFits
<1>5. r.status \notin {"approved", "rejected"} /\ f.request = r.status
  BY <1>3
<1>6. quotes' = [quotes EXCEPT ![Latest] = r]
  BY <1>2
<1> QED
  BY <1>3, <1>4, <1>5, <1>6, LatestWritten

LEMMA StartQuoteKeeps ==
    ASSUME CycleInv, StartQuote
    PROVE  CycleInv'
<1>1. conv \in Conversation /\ Latest \in 0..MaxQuotes
      /\ \A q \in 1..Latest : quotes[q] \in Quote
  BY TypeFacts DEF CycleInv
<1>2. PICK f : f = [conv EXCEPT !.state = "bot-active", !.step = "quote-data-collection",
                                !.request = "collecting-information", !.resume = "none"]
  OBVIOUS
<1>3. f \in Conversation /\ f.request = "collecting-information"
  BY <1>1, <1>2 DEF Conversation, State, Step, Status
<1>4. PICK r : r = NewQuote("collecting-information", FALSE)
  OBVIOUS
<1>5. r \in Quote /\ r.status = "collecting-information"
  BY <1>4, NewQuoteFits DEF Status
<1>6. /\ Command /\ Latest < MaxQuotes /\ quotes' = Append(quotes, r) /\ Becomes(f)
      /\ UNCHANGED <<document, attested, service>>
  BY <1>2, <1>4 DEF StartQuote
<1>7. conv.request = "not-started" => Latest = 0
  BY <1>1 DEF CycleInv, QueueFollowsQuote, Quote, Status
<1>8. Queued = {} \/ Latest = 0
  BY <1>7 DEF StartQuote
<1> QED
  BY <1>3, <1>5, <1>6, <1>8, LatestAdded

\* A quote that was confirmed is not patched: what screens show of it stands.
LEMMA PatchQuoteKeeps ==
    ASSUME CycleInv, NEW q \in 1..MaxQuotes, PatchQuote(q)
    PROVE  CycleInv'
<1>1. /\ conv \in Conversation /\ quotes \in Seq(Quote) /\ q \in 1..Latest
      /\ Latest \in 1..MaxQuotes
      /\ quotes[q] \in Quote /\ ~quotes[q].confirmed /\ held \in Held
  BY TypeFacts DEF CycleInv, PatchQuote
<1>2. PICK r : r = [quotes[q] EXCEPT !.version = @ + 1, !.content = @ + 1]
  OBVIOUS
<1>3. r \in Quote /\ r.status = quotes[q].status /\ ~r.confirmed
  <2>1. PICK v \in Nat \ {0} : v = quotes[q].version + 1
    BY <1>1 DEF Quote
  <2>5. PICK c \in Nat \ {0} : c = quotes[q].content + 1
    BY <1>1 DEF Quote
  <2>2. r = [quotes[q] EXCEPT !.version = v, !.content = c]
    BY <1>2, <2>1, <2>5
  <2>3. r \in Quote
    BY <1>1, <2>2 DEF Quote
  <2>4. r.status = quotes[q].status /\ r.confirmed = quotes[q].confirmed
    BY <1>1, <2>2 DEF Quote
  <2> QED
    BY <1>1, <2>3, <2>4
<1>4. /\ quotes' = [quotes EXCEPT ![q] = r]
      /\ UNCHANGED <<conv, document, attested, service, held, seen>>
  BY <1>1, <1>2 DEF PatchQuote
<1>5. /\ quotes' \in Seq(Quote) /\ Latest' = Latest
      /\ \A n \in 1..Latest : quotes'[n] = IF n = q THEN r ELSE quotes[n]
  BY <1>1, <1>3, <1>4, WrittenFits DEF Latest
<1>6. DocumentsMove /\ document' \in [Document -> Paper]
  BY <1>4, DocumentsStay
<1>7. operations' \in 0..MaxOperations
  BY CountedFits DEF CycleInv, PatchQuote
<1>8. TypeOK'
  BY <1>1, <1>4, <1>5, <1>6, <1>7, Types DEF CycleInv
<1>9. HeldFits'
  <2>1. \A n \in 1..Latest : quotes'[n].status = quotes[n].status
    BY <1>3, <1>5
  <2> QED
    BY <1>1, <1>4, <1>5, <2>1 DEF CycleInv, HeldFits
<1>10. conv'.request = IF q = Latest THEN r.status ELSE conv.request
  BY <1>1, <1>3, <1>4 DEF CycleInv, QueueFollowsQuote
<1>11. r.status \notin {"approved", "rejected"}
  <2>1. WithStatus(q, {"sent"}) = {}
    BY <1>1 DEF WithStatus, Documents, CycleInv, Papers
  <2> QED
    BY <1>1, <1>3, <2>1 DEF CycleInv, JudgedAsShown
<1>12. conv'.version >= conv.version
  BY <1>1, <1>4 DEF Conversation
<1>13. r.status = "under-review" => quotes[q].status = "under-review"
  BY <1>3
<1>14. seen' = seen
  BY <1>4
<1> QED
  BY <1>1, <1>3, <1>4, <1>6, <1>8, <1>9, <1>10, <1>11, <1>12, <1>13, <1>14, QuoteWritten

LEMMA PresentSummaryKeeps ==
    ASSUME CycleInv, PresentSummary
    PROVE  CycleInv'
<1>1. conv \in Conversation
  BY TypeFacts DEF CycleInv
<1>2. PICK f : f = [conv EXCEPT !.state = "waiting-for-customer",
                !.step = "quote-summary-confirmation", !.request = "waiting-for-customer",
                !.resume = "quote-summary-confirmation"]
  OBVIOUS
<1>3. f \in Conversation /\ f.request = "waiting-for-customer"
  BY <1>1, <1>2 DEF Conversation, State, Step, Status
<1>4. /\ quotes' = [quotes EXCEPT ![Latest] = Restated(quotes[Latest], "waiting-for-customer")]
      /\ Latest > 0 /\ Becomes(f) /\ held' = Free /\ Counted /\ seen' = seen
      /\ document' = document /\ UNCHANGED <<attested, service>>
  BY <1>2 DEF PresentSummary, Command, Restated
<1>5. "waiting-for-customer" \in Status \ {"approved", "rejected"}
  BY Statuses
<1> QED
  BY <1>3, <1>4, <1>5, DocumentsStay, LatestRestated

LEMMA CorrectQuoteKeeps ==
    ASSUME CycleInv, CorrectQuote
    PROVE  CycleInv'
<1>1. conv \in Conversation
  BY TypeFacts DEF CycleInv
<1>2. PICK f : f = [conv EXCEPT !.state = "bot-active", !.step = "quote-data-collection",
                                !.request = "collecting-information", !.resume = "none"]
  OBVIOUS
<1>3. f \in Conversation /\ f.request = "collecting-information"
  BY <1>1, <1>2 DEF Conversation, State, Step, Status
<1>4. /\ quotes' = [quotes EXCEPT ![Latest] = Restated(quotes[Latest], "collecting-information")]
      /\ Latest > 0 /\ Becomes(f) /\ held' = Free /\ Counted /\ seen' = seen
      /\ document' = document /\ UNCHANGED <<attested, service>>
  BY <1>2 DEF CorrectQuote, SummaryShown, Command, Restated
<1>5. "collecting-information" \in Status \ {"approved", "rejected"}
  BY Statuses
<1> QED
  BY <1>3, <1>4, <1>5, DocumentsStay, LatestRestated

\* The two reads take the lock and write nothing.
LEMMA ReadsKeep ==
    ASSUME CycleInv, Counted, held' \in Held, HeldFits',
           UNCHANGED <<conv, quotes, document, attested, service, seen>>
    PROVE  CycleInv'
<1>1. conv \in Conversation /\ quotes \in Seq(Quote) /\ Latest \in 0..MaxQuotes
      /\ Latest' = Latest
  BY TypeFacts DEF CycleInv, Latest
<1>2. DocumentsMove /\ document' \in [Document -> Paper]
  BY DocumentsStay
<1>3. operations' \in 0..MaxOperations
  BY CountedFits DEF CycleInv
<1>4. TypeOK'
  BY <1>1, <1>2, <1>3, Types DEF CycleInv
<1>5. conv'.version >= conv.version /\ conv'.request = conv.request
  BY <1>1 DEF Conversation
<1> QED
  BY <1>2, <1>4, <1>5, QuotesStay

LEMMA ConfirmReadsKeeps ==
    ASSUME CycleInv, ConfirmReads
    PROVE  CycleInv'
<1>1. /\ Latest \in 1..MaxQuotes /\ quotes[Latest] \in Quote
      /\ conv.request = "waiting-for-customer" /\ MaxQuotes \in Nat
  BY TypeFacts, BoundsAssumption DEF CycleInv, ConfirmReads, SummaryShown, BoundsAssumption
<1>2. quotes[Latest].status = "waiting-for-customer"
  BY <1>1 DEF CycleInv, QueueFollowsQuote
<1>3. /\ held' = [op |-> "confirm", quote |-> Latest, version |-> quotes[Latest].version,
                  content |-> quotes[Latest].content]
      /\ UNCHANGED <<conv, quotes, document, attested, service, seen>> /\ Counted
  BY DEF ConfirmReads
<1>4. held' \in Held
  BY <1>1, <1>3 DEF Held, Quote
<1>5. Latest' = Latest
  BY <1>3 DEF Latest
<1>6. HeldFits'
  BY <1>1, <1>2, <1>3, <1>5 DEF HeldFits
<1> QED
  BY <1>3, <1>4, <1>6, ReadsKeep

\* The confirmation writes the quote the lock kept as the latest; a patch in between leaves
\* its status, and no screen is of the version it writes.
LEMMA ConfirmWritesKeeps ==
    ASSUME CycleInv, ConfirmWrites
    PROVE  CycleInv'
<1>1. /\ conv \in Conversation /\ quotes \in Seq(Quote) /\ held \in Held
      /\ held.op = "confirm" /\ held.quote = Latest /\ Latest \in 1..MaxQuotes
      /\ quotes[Latest] \in Quote
  BY TypeFacts DEF CycleInv, HeldFits, ConfirmWrites
<1>2. PICK f : f = [conv EXCEPT !.state = "sent-to-human", !.step = "human-service",
                    !.request = "under-review", !.resume = "commercial-follow-up-menu"]
  OBVIOUS
<1>3. f \in Conversation /\ f.request = "under-review"
  BY <1>1, <1>2 DEF Conversation, State, Step, Status
<1>4. PICK v \in Nat \ {0}, c \in Nat : v = quotes[Latest].version + 1 /\ c = held.content
  <2>1. quotes[Latest].version \in Nat \ {0}
    BY <1>1 DEF Quote
  <2>2. held.content \in Nat
    BY <1>1 DEF Held
  <2>3. quotes[Latest].version + 1 \in Nat \ {0}
    BY <2>1
  <2> QED
    BY <2>2, <2>3
<1>5. PICK r : r = [quotes[Latest] EXCEPT !.status = "under-review", !.confirmed = TRUE,
                                          !.version = v, !.summary = c]
  OBVIOUS
<1>6. r \in Quote /\ r.status = "under-review" /\ r.confirmed
  BY <1>1, <1>5 DEF Quote, Status
<1>7. /\ quotes' = [quotes EXCEPT ![Latest] = r] /\ Becomes(f) /\ held' = Free
      /\ UNCHANGED <<document, attested, service, seen, operations>>
  BY <1>1, <1>2, <1>4, <1>5 DEF ConfirmWrites
<1>8. DocumentsMove /\ document' \in [Document -> Paper]
  BY <1>7, DocumentsStay
<1>9. Latest > 0 /\ r.status \notin {"approved", "rejected"} /\ f.request = r.status
  BY <1>1, <1>3, <1>6
<1> QED
  BY <1>3, <1>6, <1>7, <1>8, <1>9, LatestWritten

-----------------------------------------------------------------------------
\* The conversation around it

LEMMA CustomerWritesKeeps ==
    ASSUME CycleInv, CustomerWrites
    PROVE  CycleInv'
<1>1. conv \in Conversation
  BY TypeFacts DEF CycleInv
<1>2. Command /\ UNCHANGED <<quotes, document, attested, service>>
  BY DEF CustomerWrites
<1>3. PICK f : /\ Becomes(f)
               /\ \/ f = [conv EXCEPT !.state = "bot-active", !.resume = "none"]
                  \/ f = [conv EXCEPT !.state = "sent-to-human", !.step = "human-service",
                                      !.resume = "commercial-follow-up-menu"]
                  \/ f = [conv EXCEPT !.state = "bot-active", !.step = "main-menu",
                                      !.resume = "none"]
  BY DEF CustomerWrites
<1>4. f \in Conversation /\ f.request = conv.request
  BY <1>1, <1>3 DEF Conversation, State, Step
<1> QED
  BY <1>2, <1>3, <1>4, DocumentsStay, MovedFits

LEMMA PanelMoves ==
    ASSUME CycleInv, NEW o \in Operator, TakeOver(o) \/ ReturnToBot(o) \/ Close(o)
    PROVE  CycleInv'
<1>1. conv \in Conversation
  BY TypeFacts DEF CycleInv
<1>2. PICK b \in Step : b = BotStep(conv)
  BY <1>1, BotStepFits
<1>3. Command /\ UNCHANGED <<quotes, document, attested, service>>
  BY DEF TakeOver, ReturnToBot, Close, Panel
<1>4. PICK f : /\ Becomes(f)
               /\ \/ f = [conv EXCEPT !.state = "human-active", !.step = "human-service",
                                      !.resume = b]
                  \/ f = [conv EXCEPT !.state = "bot-active", !.step = b, !.resume = "none"]
                  \/ f = [conv EXCEPT !.state = "closed", !.step = "closed",
                                      !.resume = "none"]
  BY <1>2 DEF TakeOver, ReturnToBot, Close
<1>5. f \in Conversation /\ f.request = conv.request
  BY <1>1, <1>4 DEF Conversation, State, Step
<1> QED
  BY <1>3, <1>4, <1>5, DocumentsStay, MovedFits

\* What a screen loads is current.
LEMMA LookKeeps ==
    ASSUME CycleInv, NEW o \in Operator, Look(o)
    PROVE  CycleInv'
<1>1. /\ conv \in Conversation /\ seen \in [Operator -> Screen]
      /\ Latest \in 0..MaxQuotes /\ \A q \in 1..Latest : quotes[q] \in Quote
  BY TypeFacts DEF CycleInv
<1>2. UNCHANGED <<conv, quotes, document, attested, service, held, operations>>
  BY DEF Look
<1>3. Contents \in [1..MaxQuotes -> Nat]
  BY <1>1 DEF Contents, Quote
<1>4. PICK x \in Screen : /\ x.version = conv.version /\ x.content = Contents
                          /\ seen' = [seen EXCEPT ![o] = x]
  BY <1>1, <1>3 DEF Look, Screen, Conversation
<1>5. TypeOK'
  <2>1. seen' \in [Operator -> Screen]
    BY <1>1, <1>4
  <2> QED
    BY <1>2, <2>1 DEF CycleInv, TypeOK, Screen, Latest
<1>6. \A q \in 1..Latest : Contents[q] = quotes[q].content
  BY <1>1, BoundsAssumption DEF Contents, BoundsAssumption
<1>7. Screens'
  <2> SUFFICES ASSUME NEW p \in Operator
               PROVE  /\ seen'[p].version <= conv.version
                      /\ seen'[p].version = conv.version =>
                           \A q \in 1..Latest : quotes[q].confirmed =>
                               seen'[p].content[q] = quotes[q].content
    BY <1>2 DEF Screens, Latest
  <2>1. CASE p = o
    BY <1>1, <1>4, <1>6, <2>1 DEF Conversation
  <2>2. CASE p # o
    BY <1>1, <1>4, <2>2 DEF CycleInv, Screens
  <2> QED
    BY <2>1, <2>2
<1>8. /\ Papers' /\ Parked' /\ HeldFits' /\ Batches' /\ QueueFollowsQuote'
      /\ JudgedAsShown'
  BY <1>2 DEF CycleInv, Papers, Parked, HeldFits, Batches, QueueFollowsQuote, JudgedAsShown,
     WithStatus, Documents, Latest
<1> QED
  BY <1>5, <1>7, <1>8 DEF CycleInv

-----------------------------------------------------------------------------
\* Proposals

LEMMA ProposingFits ==
    ASSUME conv \in Conversation
    PROVE  Proposing \in Conversation /\ Proposing.request = "under-review"
BY DEF Proposing, Conversation, State, Step, Status

\* The quote that is rewritten was not judged, and the new version leaves every screen.
LEMMA CreateProposalKeeps ==
    ASSUME CycleInv, NEW o \in Operator, CreateProposal(o)
    PROVE  CycleInv'
<1>1. conv \in Conversation /\ Latest \in 0..MaxQuotes
      /\ \A q \in 1..Latest : quotes[q] \in Quote
  BY TypeFacts DEF CycleInv
<1>2. PICK f : f = Proposing
  OBVIOUS
<1>3. f \in Conversation /\ f.request = "under-review"
  BY <1>1, <1>2, ProposingFits
<1>4. /\ Command /\ Becomes(f) /\ Propose /\ UNCHANGED <<document, attested, service>>
  BY <1>2 DEF CreateProposal, Panel
<1>5. CASE PendingQuote
  <2>1. Latest > 0 /\ quotes[Latest].status = "under-review" /\ quotes[Latest] \in Quote
    BY <1>1, <1>5 DEF PendingQuote
  <2>2. PICK c \in Nat \ {0} : c = quotes[Latest].content + 1
    BY <2>1 DEF Quote
  <2>3. PICK r : r = [quotes[Latest] EXCEPT !.confirmed = TRUE, !.content = c, !.summary = c]
    OBVIOUS
  <2>4. r \in Quote
    BY <2>1, <2>3 DEF Quote
  <2>5. r.status = "under-review" /\ r.confirmed
    BY <2>1, <2>3 DEF Quote
  <2>6. quotes' = [quotes EXCEPT ![Latest] = r]
    BY <1>4, <1>5, <2>2, <2>3 DEF Propose
  <2>7. r.status \notin {"approved", "rejected"} /\ f.request = r.status
    BY <1>3, <2>5
  <2>8. held' = Free /\ seen' = seen /\ Counted /\ document' = document
    BY <1>4 DEF Command
  <2> QED
    BY <1>3, <1>4, <2>1, <2>4, <2>5, <2>6, <2>7, <2>8, DocumentsStay, LatestWritten
<1>6. CASE ~PendingQuote
  <2>1. PICK r : r = NewQuote("under-review", TRUE)
    OBVIOUS
  <2>2. r \in Quote /\ r.status = "under-review"
    BY <2>1, Statuses, NewQuoteFits
  <2>3. Latest < MaxQuotes /\ quotes' = Append(quotes, r)
    BY <1>4, <1>6, <2>1 DEF Propose
  <2>4. Latest = 0 \/ quotes[Latest].status # "under-review"
    BY <1>1, <1>6 DEF PendingQuote
  <2>5. r.status \notin {"approved", "rejected"} /\ f.request = r.status
    BY <1>3, <2>2
  <2> QED
    BY <1>3, <1>4, <2>2, <2>3, <2>4, <2>5, LatestAdded
<1> QED
  BY <1>5, <1>6

\* A document that is uploaded joins no batch.
LEMMA UploadKeeps ==
    ASSUME CycleInv, NEW o \in Operator, NEW d \in Document, Upload(o, d)
    PROVE  CycleInv'
<1>1. /\ document \in [Document -> Paper] /\ Latest \in 1..MaxQuotes /\ MaxQuotes \in Nat
      /\ conv \in Conversation /\ quotes \in Seq(Quote)
  BY TypeFacts, BoundsAssumption DEF CycleInv, Upload, MayUpload, BoundsAssumption
<1>2. /\ UNCHANGED <<conv, quotes, attested, service, seen>> /\ Latest' = Latest
      /\ held = Free /\ held' = Free /\ Counted
      /\ document[d].quote = 0 /\ quotes[Latest].confirmed
  BY DEF Upload, MayUpload, Panel, Command, AcceptsDocuments, Latest
<1>3. document[d].batch = 0 /\ document[d].status = "uploaded"
  BY <1>2 DEF CycleInv, Papers
<1>4. PICK x \in Paper : /\ x.quote = Latest /\ x.batch = 0 /\ x.status = "uploaded"
                         /\ document' = [document EXCEPT ![d] = x]
  <2>1. PICK x : x = [document[d] EXCEPT !.quote = Latest]
    OBVIOUS
  <2>2. document[d] \in Paper
    BY <1>1
  <2>3. x \in Paper /\ x.quote = Latest /\ x.batch = 0 /\ x.status = "uploaded"
    BY <1>1, <1>3, <2>1, <2>2 DEF Paper
  <2>4. document' = [document EXCEPT ![d] = x]
    BY <2>1 DEF Upload
  <2> QED
    BY <2>3, <2>4
<1>5. document' \in [Document -> Paper] /\ \A e \in Document : e # d => document'[e] = document[e]
  BY <1>1, <1>4
<1>6. document'[d] = x
  BY <1>1, <1>4
<1>7. HeldFits' /\ held' \in Held /\ operations' \in 0..MaxOperations
  BY <1>2, Unlocked, CountedFits DEF CycleInv
<1>8. TypeOK'
  BY <1>1, <1>2, <1>5, <1>7, Types DEF CycleInv
<1>9. Papers' /\ Parked' /\ Batches'
  BY <1>1, <1>2, <1>4, <1>5, <1>6 DEF CycleInv, Papers, Parked, Batches
<1>10. Screens' /\ QueueFollowsQuote'
  BY <1>2 DEF CycleInv, Screens, QueueFollowsQuote
<1>11. JudgedAsShown'
  <2>1. \A q \in 1..Latest : WithStatus(q, {"sent"}) # {} => WithStatus(q, {"sent"})' # {}
    BY <1>1, <1>2, <1>3, <1>5 DEF WithStatus, Documents
  <2> QED
    BY <1>2, <2>1 DEF CycleInv, JudgedAsShown
<1> QED
  BY <1>7, <1>8, <1>9, <1>10, <1>11 DEF CycleInv

\* Every open document of the quote is of the batch that is sent, afterwards as before.
LEMMA EnqueueMoves ==
    ASSUME CycleInv, NEW d \in Document, NEW batch \in Document, NEW members \in SUBSET Document,
           members \subseteq Documents(Latest), d \in members, Latest > 0,
           document[d].status \in {"uploaded", "failed"},
           BatchMayBeSent(Latest, batch, members), Enqueue(d, batch, members)
    PROVE  DocumentsMove /\ document' \in [Document -> Paper]
<1>1. document \in [Document -> Paper] /\ Latest \in 1..MaxQuotes /\ 0 \notin Document
  BY TypeFacts DEF CycleInv, Document
<1>2. ASSUME NEW e \in Document
      PROVE  /\ document'[e] \in Paper /\ document'[e].quote = document[e].quote
             /\ document'[e].batch = IF e \in members THEN batch ELSE document[e].batch
             /\ document'[e].status = IF e = d THEN "queued" ELSE document[e].status
  <2>1. PICK b \in {0} \cup Document : b = IF e \in members THEN batch ELSE document[e].batch
    BY <1>1 DEF Paper
  <2>2. PICK t \in Unsent \cup {"sent"} : t = IF e = d THEN "queued" ELSE document[e].status
    BY <1>1 DEF Paper, Unsent
  <2>3. document'[e] = [document[e] EXCEPT !.batch = b, !.status = t]
    BY <2>1, <2>2 DEF Enqueue
  <2>4. document[e] \in Paper
    BY <1>1
  <2> QED
    BY <2>1, <2>2, <2>3, <2>4 DEF Paper
<1>3. document' \in [Document -> Paper]
  <2>1. document' = [e \in Document |-> document'[e]]
    BY DEF Enqueue
  <2> QED
    BY <1>2, <2>1
<1>4. ASSUME NEW e \in Document
      PROVE  /\ document[e].quote = 0 => document'[e] = document[e]
             /\ document[e].status = "sent" => document'[e].status = "sent"
             /\ document'[e].status = "queued" =>
                  document[e].status = "queued" \/ document[e].quote = Latest
  <2>1. e \in members => document[e].quote = Latest
    BY DEF Documents
  <2>2. e \notin members => document'[e] = document[e]
    <3>1. document[e] \in Paper /\ document'[e] \in Paper
      BY <1>1, <1>2
    <3> QED
      BY <1>2, <3>1 DEF Paper
  <2> QED
    BY <1>1, <1>2, <2>1, <2>2
<1>5. Batches'
  <2> SUFFICES ASSUME NEW e \in Document, NEW g \in Document,
                      document'[e].quote # 0, document'[e].quote = document'[g].quote,
                      document'[e].status \in Unsent, document'[e].batch # 0,
                      document'[g].status \in Unsent, document'[g].batch # 0
               PROVE  document'[e].batch = document'[g].batch
    BY DEF Batches
  <2>1. CASE document[e].quote = Latest
    <3>1. ASSUME NEW h \in Document, document[h].quote = Latest,
                 document'[h].status \in Unsent, document'[h].batch # 0
          PROVE  document'[h].batch = batch
      <4>1. CASE h \in members
        BY <1>2, <4>1
      <4>2. CASE h \notin members
        <5>1. h \in OpenBatch(Latest)
          BY <1>2, <3>1, <4>2 DEF OpenBatch, WithStatus, Documents
        <5> QED
          BY <1>2, <4>2, <5>1 DEF BatchMayBeSent
      <4> QED
        BY <4>1, <4>2
    <3> QED
      BY <1>2, <2>1, <3>1
  <2>2. CASE document[e].quote # Latest
    <3>1. e \notin members /\ g \notin members /\ e # d /\ g # d
      BY <1>2, <2>2 DEF Documents
    <3> QED
      BY <1>2, <3>1 DEF CycleInv, Batches
  <2> QED
    BY <2>1, <2>2
<1> QED
  BY <1>2, <1>3, <1>4, <1>5 DEF DocumentsMove

LEMMA SendProposalKeeps ==
    ASSUME CycleInv, NEW o \in Operator, NEW members \in SUBSET Document,
           NEW d \in members, NEW batch \in Document, SendProposal(o, d, batch, members)
    PROVE  CycleInv'
<1>1. conv \in Conversation /\ Latest \in 0..MaxQuotes
  BY TypeFacts DEF CycleInv
<1>2. PICK f : f = Proposing
  OBVIOUS
<1>3. f \in Conversation /\ f.request = "under-review"
  BY <1>1, <1>2, ProposingFits
<1>4. /\ Command /\ held' = Free /\ seen' = seen /\ Counted /\ Latest > 0
      /\ quotes[Latest].status \in {"under-review", "waiting-for-customer"}
      /\ members \subseteq Documents(Latest)
      /\ document[d].status \in {"uploaded", "failed"}
      /\ BatchMayBeSent(Latest, batch, members) /\ Enqueue(d, batch, members)
      /\ Becomes(f) /\ UNCHANGED <<attested, service>>
  BY <1>2 DEF SendProposal, MaySend, Panel, Command, AcceptsDocuments
<1>5. DocumentsMove /\ document' \in [Document -> Paper]
  BY <1>4, EnqueueMoves
<1>6. CASE quotes[Latest].status = "waiting-for-customer"
  <2>1. quotes' = [quotes EXCEPT ![Latest] = Restated(quotes[Latest], "under-review")]
    BY <1>6 DEF SendProposal, Restated
  <2>2. "under-review" \in Status \ {"approved", "rejected"}
    BY Statuses
  <2> QED
    BY <1>3, <1>4, <1>5, <2>1, <2>2, LatestRestated
<1>7. CASE quotes[Latest].status = "under-review"
  <2>1. conv.request = "under-review"
    BY <1>4, <1>7 DEF CycleInv, QueueFollowsQuote
  <2>2. UNCHANGED <<quotes, attested, service>>
    BY <1>4, <1>7 DEF SendProposal
  <2>3. f.request = conv.request
    BY <1>3, <2>1
  <2> QED
    BY <1>3, <1>4, <1>5, <2>2, <2>3, MovedFits
<1> QED
  BY <1>4, <1>6, <1>7

-----------------------------------------------------------------------------
\* The outcome of the delivery

\* What is sent leaves the batch that is open; what failed stays in it.
LEMMA AnsweredMoves ==
    ASSUME CycleInv, NEW d \in Queued, NEW status \in {"failed", "sent"},
           document' = [document EXCEPT ![d].status = status]
    PROVE  DocumentsMove /\ document' \in [Document -> Paper]
<1>1. document \in [Document -> Paper] /\ d \in Document /\ document[d].status = "queued"
      /\ document[d].quote # 0
  BY TypeFacts DEF CycleInv, Queued
<1>2. PICK x : x = [document[d] EXCEPT !.status = status]
  OBVIOUS
<1>3. x \in Paper /\ x.quote = document[d].quote /\ x.batch = document[d].batch
      /\ x.status = status
  <2>1. document[d] \in Paper
    BY <1>1
  <2> QED
    BY <1>2, <2>1 DEF Paper, Unsent
<1>4. document' = [document EXCEPT ![d] = x]
  BY <1>2
<1>5. document' \in [Document -> Paper]
  BY <1>1, <1>3, <1>4
<1>6. \A e \in Document : document'[e] = IF e = d THEN x ELSE document[e]
  BY <1>1, <1>4
<1>7. ASSUME NEW e \in Document
      PROVE  /\ document'[e].quote = document[e].quote
             /\ document'[e].batch = document[e].batch
             /\ document'[e].status \in Unsent => document[e].status \in Unsent
             /\ document[e].quote = 0 => document'[e] = document[e]
             /\ document[e].status = "sent" => document'[e].status = "sent"
             /\ document'[e].status = "queued" => document[e].status = "queued"
  BY <1>1, <1>3, <1>6 DEF Unsent
<1>8. Batches'
  BY <1>7 DEF CycleInv, Batches
<1> QED
  BY <1>5, <1>7, <1>8 DEF DocumentsMove

\* An answer that leaves the quote and the conversation.
LEMMA AnswerStays ==
    ASSUME CycleInv, Outcome, DocumentsMove, document' \in [Document -> Paper],
           UNCHANGED <<conv, quotes, attested, service>>
    PROVE  CycleInv'
<1>1. /\ conv \in Conversation /\ quotes \in Seq(Quote) /\ Latest \in 0..MaxQuotes
      /\ Latest' = Latest
  BY TypeFacts DEF CycleInv, Latest
<1>2. HeldFits' /\ held' \in Held /\ seen' = seen
  BY Unlocked DEF Outcome
<1>3. operations' \in 0..MaxOperations
  BY CountedFits DEF CycleInv, Outcome
<1>4. TypeOK'
  BY <1>1, <1>2, <1>3, Types DEF CycleInv
<1>5. conv'.version >= conv.version /\ conv'.request = conv.request
  BY <1>1 DEF Conversation
<1> QED
  BY <1>2, <1>4, <1>5, QuotesStay

LEMMA RecordFailureKeeps ==
    ASSUME CycleInv, NEW d \in Document, RecordFailure(d)
    PROVE  CycleInv'
<1>1. /\ Outcome /\ d \in Queued /\ document' = [document EXCEPT ![d].status = "failed"]
      /\ UNCHANGED <<conv, quotes, attested, service>>
  BY DEF RecordFailure
<1> QED
  BY <1>1, AnsweredMoves, AnswerStays

\* A batch completes on the latest quote only: an older one under review has nothing
\* queued.
LEMMA DeliveryKeeps ==
    ASSUME CycleInv, NEW d \in Document, RecordDelivery(d) \/ ConfirmSent(d)
    PROVE  CycleInv'
<1>1. /\ Outcome /\ held' = Free /\ seen' = seen /\ operations' = operations
      /\ d \in Queued /\ document' = [document EXCEPT ![d].status = "sent"]
      /\ UNCHANGED <<attested, service>>
  BY DEF RecordDelivery, ConfirmSent, Outcome
<1>2. DocumentsMove /\ document' \in [Document -> Paper]
  BY <1>1, AnsweredMoves
<1>3. conv \in Conversation /\ Latest \in 0..MaxQuotes
  BY TypeFacts DEF CycleInv
<1>4. CASE BatchDone(d, document') /\ quotes[document[d].quote].status = "under-review"
  <2>1. document[d].quote = Latest /\ Latest > 0
    BY <1>1, <1>3, <1>4 DEF Queued, CycleInv, Papers, Parked
  <2>2. PICK f : f = [conv EXCEPT !.state = "waiting-for-customer",
                        !.step = "quote-send-pending", !.request = "waiting-for-customer",
                        !.resume = "none"]
    OBVIOUS
  <2>3. f \in Conversation /\ f.request = "waiting-for-customer"
    BY <1>3, <2>2 DEF Conversation, State, Step, Status
  <2>4. /\ quotes' = [quotes EXCEPT ![Latest] = Restated(quotes[Latest], "waiting-for-customer")]
        /\ Becomes(f)
    BY <1>4, <2>1, <2>2 DEF RecordDelivery, ConfirmSent, CompleteBatch, Restated
  <2>5. "waiting-for-customer" \in Status \ {"approved", "rejected"}
    BY Statuses
  <2> QED
    BY <1>1, <1>2, <2>1, <2>3, <2>4, <2>5, LatestRestated
<1>5. CASE ~(BatchDone(d, document') /\ quotes[document[d].quote].status = "under-review")
  <2>1. UNCHANGED <<conv, quotes, attested, service>>
    BY <1>1, <1>5 DEF RecordDelivery, ConfirmSent, CompleteBatch
  <2> QED
    BY <1>1, <1>2, <2>1, AnswerStays
<1> QED
  BY <1>4, <1>5

-----------------------------------------------------------------------------
\* Decisions

\* The screen of the decision is of the current version, and the quote, that has a document,
\* was confirmed: what is judged is what the quote says.
LEMMA DecideKeeps ==
    ASSUME CycleInv, NEW o \in Operator, NEW q \in 1..MaxQuotes,
           NEW decision \in {"approved", "rejected"}, Decide(o, q, decision)
    PROVE  CycleInv'
<1>1. /\ conv \in Conversation /\ quotes \in Seq(Quote) /\ Latest \in 1..MaxQuotes
      /\ q \in 1..Latest /\ quotes[q] \in Quote /\ seen \in [Operator -> Screen]
      /\ document \in [Document -> Paper]
  BY TypeFacts DEF CycleInv, Decide
<1>2. /\ held' = Free /\ seen' = seen /\ Counted /\ document' = document
      /\ UNCHANGED <<attested, service>>
      /\ seen[o].version = conv.version /\ WithStatus(q, {"sent"}) # {}
  BY DEF Decide, Panel, Command
<1>3. quotes[q].confirmed
  BY <1>1, <1>2 DEF WithStatus, Documents, CycleInv, Papers
<1>4. seen[o].content[q] = quotes[q].content
  BY <1>1, <1>2, <1>3 DEF CycleInv, Screens
<1>5. PICK v \in Nat \ {0} : v = quotes[q].version + 1
  BY <1>1 DEF Quote
<1>6. PICK c \in Nat \ {0} : c = quotes[q].content
  BY <1>1 DEF Quote
<1>7. PICK r : r = [quotes[q] EXCEPT !.status = decision, !.version = v, !.judged = c]
  OBVIOUS
<1>8. r \in Quote
  BY <1>1, <1>7 DEF Quote, Status
<1>9. r.status = decision /\ r.judged = c /\ r.content = c
  BY <1>1, <1>6, <1>7 DEF Quote
<1>10. r.confirmed = quotes[q].confirmed
  BY <1>1, <1>7 DEF Quote
<1>11. quotes' = [quotes EXCEPT ![q] = r]
  BY <1>4, <1>5, <1>6, <1>7 DEF Decide
<1>12. conv' = IF q = Latest THEN [conv EXCEPT !.request = decision, !.version = @ + 1]
               ELSE conv
  BY DEF Decide
<1>13. /\ conv' \in Conversation /\ conv'.version >= conv.version
       /\ conv'.request = IF q = Latest THEN r.status ELSE conv.request
  <2>1. CASE q = Latest
    <3>1. conv' = [conv EXCEPT !.request = decision, !.version = @ + 1]
      BY <1>12, <2>1
    <3>2. PICK n \in Nat : n = conv.version + 1
      BY <1>1 DEF Conversation
    <3>3. conv' = [conv EXCEPT !.request = decision, !.version = n]
      BY <3>1, <3>2
    <3>4. conv' \in Conversation
      BY <1>1, <3>3 DEF Conversation, Status
    <3>5. conv'.version = n /\ conv'.request = decision /\ conv.version \in Nat
      BY <1>1, <3>3 DEF Conversation
    <3> QED
      BY <1>9, <2>1, <3>2, <3>4, <3>5
  <2>2. CASE q # Latest
    BY <1>1, <1>12, <2>2 DEF Conversation
  <2> QED
    BY <2>1, <2>2
<1>14. quotes' \in Seq(Quote) /\ Latest' = Latest
  BY <1>1, <1>8, <1>11, WrittenFits DEF Latest
<1>15. HeldFits' /\ held' \in Held
  BY <1>2, Unlocked
<1>16. DocumentsMove /\ document' \in [Document -> Paper]
  BY <1>2, DocumentsStay
<1>17. TypeOK'
  <2>1. operations' \in 0..MaxOperations
    BY <1>2, CountedFits DEF CycleInv
  <2> QED
    BY <1>1, <1>2, <1>13, <1>14, <1>15, <1>16, <2>1, Types DEF CycleInv
<1>18. quotes[q].confirmed /\ r.confirmed /\ r.content = quotes[q].content
       /\ r.judged = r.content /\ r.status # "under-review"
  BY <1>3, <1>6, <1>9, <1>10
<1> QED
  BY <1>1, <1>2, <1>8, <1>11, <1>13, <1>15, <1>16, <1>17, <1>18, QuoteWritten

LEMMA SetStatusKeeps ==
    ASSUME CycleInv, NEW o \in Operator, NEW status \in {"under-review", "waiting-for-customer"},
           SetStatus(o, status)
    PROVE  CycleInv'
<1>1. conv \in Conversation
  BY TypeFacts DEF CycleInv
<1>2. PICK f : f = [conv EXCEPT !.request = status]
  OBVIOUS
<1>3. f \in Conversation /\ f.request = status
  BY <1>1, <1>2 DEF Conversation, Status
<1>4. /\ quotes' = [quotes EXCEPT ![Latest] = Restated(quotes[Latest], status)]
      /\ Latest > 0 /\ Becomes(f) /\ held' = Free /\ Counted /\ seen' = seen
      /\ document' = document /\ UNCHANGED <<attested, service>>
  BY <1>2 DEF SetStatus, Panel, Command, Restated
<1>5. status \in Status \ {"approved", "rejected"}
  BY Statuses
<1> QED
  BY <1>3, <1>4, <1>5, DocumentsStay, LatestRestated

LEMMA CancelReadsKeeps ==
    ASSUME CycleInv, NEW o \in Operator, CancelReads(o)
    PROVE  CycleInv'
<1>1. Latest \in 1..MaxQuotes /\ quotes[Latest] \in Quote /\ MaxQuotes \in Nat
  BY TypeFacts, BoundsAssumption DEF CycleInv, CancelReads, BoundsAssumption
<1>2. /\ held' = [op |-> "cancel", quote |-> Latest, version |-> quotes[Latest].version,
                  content |-> 0]
      /\ UNCHANGED <<conv, quotes, document, attested, service, seen>> /\ Counted
      /\ quotes[Latest].status \notin {"rejected", "cancelled"}
  BY DEF CancelReads
<1>3. held' \in Held
  BY <1>1, <1>2 DEF Held, Quote
<1>4. Latest' = Latest
  BY <1>2 DEF Latest
<1>5. HeldFits'
  BY <1>1, <1>2, <1>4 DEF HeldFits
<1> QED
  BY <1>2, <1>3, <1>5, ReadsKeep

LEMMA CancelWritesKeeps ==
    ASSUME CycleInv, CancelWrites
    PROVE  CycleInv'
<1>1. conv \in Conversation /\ held.op = "cancel" /\ held.quote = Latest /\ Latest > 0
      /\ quotes \in Seq(Quote) /\ Latest \in 0..MaxQuotes
  BY TypeFacts DEF CycleInv, HeldFits, CancelWrites
<1>2. /\ held' = Free /\ UNCHANGED <<document, attested, service, seen, operations>>
  BY DEF CancelWrites
<1>3. DocumentsMove /\ document' \in [Document -> Paper]
  BY <1>2, DocumentsStay
<1>4. CASE quotes[Latest].version = held.version
  <2>1. PICK f : f = [conv EXCEPT !.request = "cancelled"]
    OBVIOUS
  <2>2. f \in Conversation /\ f.request = "cancelled"
    BY <1>1, <2>1 DEF Conversation, Status
  <2>3. quotes' = [quotes EXCEPT ![Latest] = Restated(quotes[Latest], "cancelled")] /\ Becomes(f)
    BY <1>1, <1>4, <2>1 DEF CancelWrites, Restated
  <2>4. "cancelled" \in Status \ {"approved", "rejected"}
    BY Statuses
  <2> QED
    BY <1>1, <1>2, <1>3, <2>2, <2>3, <2>4, LatestRestated
<1>5. CASE quotes[Latest].version # held.version
  <2>1. UNCHANGED <<conv, quotes>>
    BY <1>1, <1>5 DEF CancelWrites
  <2>2. HeldFits' /\ held' \in Held
    BY <1>2, Unlocked
  <2>3. operations' \in 0..MaxOperations
    BY <1>2, CountedFits DEF CycleInv
  <2>4. Latest' = Latest /\ conv'.version >= conv.version
    BY <1>1, <2>1 DEF Latest, Conversation
  <2>5. TypeOK'
    BY <1>1, <1>2, <1>3, <2>1, <2>2, <2>3, <2>4, Types DEF CycleInv
  <2> QED
    BY <1>2, <1>3, <2>1, <2>2, <2>4, <2>5, QuotesStay
<1> QED
  BY <1>4, <1>5

\* The confirmed service writes rows of its own.
LEMMA ServiceKeeps ==
    ASSUME CycleInv, NEW q \in 1..MaxQuotes, NEW kind \in Kind, Attest(q, kind) \/ Confirm(q)
    PROVE  CycleInv'
<1>1. /\ q \in 1..Latest /\ quotes[q].version \in Nat \ {0}
      /\ UNCHANGED <<conv, quotes, document, held, seen, operations>>
  BY TypeFacts DEF CycleInv, Attest, Confirm, Accepted, Quote
<1>2. attested' \subseteq (1..MaxQuotes) \X (Nat \ {0}) \X Kind
  BY <1>1 DEF CycleInv, TypeOK, Attest, Confirm
<1>3. service' \in [1..MaxQuotes -> Nat]
  BY <1>1 DEF CycleInv, TypeOK, Attest, Confirm
<1>4. TypeOK'
  BY <1>1, <1>2, <1>3 DEF CycleInv, TypeOK, Latest
<1> QED
  BY <1>1, <1>4 DEF CycleInv, Papers, Screens, Parked, HeldFits, Batches, QueueFollowsQuote,
     JudgedAsShown, WithStatus, Documents, Latest

-----------------------------------------------------------------------------
\* The invariant

LEMMA InitCycle ==
    ASSUME Init
    PROVE  CycleInv
<1>1. MaxQuotes \in Nat \ {0} /\ MaxDocuments \in Nat /\ MaxOperations \in Nat
  BY BoundsAssumption DEF BoundsAssumption
<1>2. quotes \in Seq(Quote) /\ Latest = 0
  BY DEF Init, Latest
<1>3. conv \in Conversation /\ conv.request = "not-started" /\ conv.version = 0
  BY DEF Init, Conversation, State, Step
<1>4. document \in [Document -> Paper] /\ held \in Held /\ seen \in [Operator -> Screen]
  BY <1>1 DEF Init, Paper, Unsent, Held, Free, Screen
<1>5. TypeOK
  BY <1>1, <1>2, <1>3, <1>4 DEF Init, TypeOK, Conversation, Paper, Held, Screen
<1>6. Papers /\ Parked /\ Batches
  BY DEF Init, Papers, Parked, Batches
<1>7. Screens
  BY <1>2 DEF Init, Screens
<1>8. HeldFits
  BY DEF Init, HeldFits, Free
<1>9. QueueFollowsQuote /\ JudgedAsShown
  BY <1>2, <1>3 DEF QueueFollowsQuote, JudgedAsShown
<1> QED
  BY <1>5, <1>6, <1>7, <1>8, <1>9 DEF CycleInv

LEMMA AttendantKeeps ==
    ASSUME CycleInv, NEW o \in Operator, Attendant(o)
    PROVE  CycleInv'
<1>1. CASE Look(o) \/ TakeOver(o) \/ ReturnToBot(o) \/ Close(o) \/ CreateProposal(o)
           \/ CancelReads(o)
  BY <1>1, LookKeeps, PanelMoves, CreateProposalKeeps, CancelReadsKeeps
<1>2. CASE \E d \in Document : Upload(o, d)
  BY <1>2, UploadKeeps
<1>3. CASE \E members \in SUBSET Document : \E d \in members, b \in Document :
             SendProposal(o, d, b, members)
  BY <1>3, SendProposalKeeps
<1>4. CASE \E q \in 1..MaxQuotes, decision \in {"approved", "rejected"} :
             Decide(o, q, decision)
  BY <1>4, DecideKeeps
<1>5. CASE \E status \in {"under-review", "waiting-for-customer"} : SetStatus(o, status)
  BY <1>5, SetStatusKeeps
<1> QED
  BY <1>1, <1>2, <1>3, <1>4, <1>5 DEF Attendant

LEMMA NextCycle ==
    ASSUME CycleInv, [Next]_vars
    PROVE  CycleInv'
<1>1. CASE Bot \/ CancelWrites
  BY <1>1, StartQuoteKeeps, PresentSummaryKeeps, CorrectQuoteKeeps, ConfirmReadsKeeps,
     ConfirmWritesKeeps, CustomerWritesKeeps, CancelWritesKeeps DEF Bot
<1>2. CASE \E o \in Operator : Attendant(o)
  BY <1>2, AttendantKeeps
<1>3. CASE \E d \in Document : RecordDelivery(d) \/ RecordFailure(d) \/ ConfirmSent(d)
  BY <1>3, DeliveryKeeps, RecordFailureKeeps
<1>4. CASE \E q \in 1..MaxQuotes :
             PatchQuote(q) \/ Confirm(q) \/ \E k \in Kind : Attest(q, k)
  BY <1>4, PatchQuoteKeeps, ServiceKeeps DEF Kind
<1>5. CASE UNCHANGED vars
  BY <1>5 DEF vars, CycleInv, TypeOK, Papers, Screens, Parked, HeldFits, Batches,
     QueueFollowsQuote, JudgedAsShown, WithStatus, Documents, Latest
<1> QED
  BY <1>1, <1>2, <1>3, <1>4, <1>5 DEF Next

LEMMA CycleInvariant == Spec => []CycleInv
<1>1. Init => CycleInv
  BY InitCycle
<1>2. CycleInv /\ [Next]_vars => CycleInv'
  BY NextCycle
<1> QED
  BY <1>1, <1>2, PTL DEF Spec

-----------------------------------------------------------------------------
\* The theorems

\* Every reachable state is well formed (TypeOK of CommercialCycle).
THEOREM TypeCorrect == Spec => []TypeOK
<1>1. CycleInv => TypeOK
  BY DEF CycleInv
<1> QED
  BY <1>1, CycleInvariant, PTL

\* The documents of a quote that still have to reach the customer belong to one batch
\* (the competing batch that prisma-whatsapp.repository.ts looks for): OneOpenBatch.
THEOREM BatchIsOne == Spec => []OneOpenBatch
<1>1. CycleInv => OneOpenBatch
  BY TypeFacts DEF CycleInv, Batches, OneOpenBatch, OpenBatch, WithStatus, Documents
<1> QED
  BY <1>1, CycleInvariant, PTL

\* A quote was accepted or refused as the attendant who recorded it saw it, and was not
\* rewritten since (decideQuoteProposal): JudgedAsShown.
THEOREM JudgedWasShown == Spec => []JudgedAsShown
<1>1. CycleInv => JudgedAsShown
  BY DEF CycleInv
<1> QED
  BY <1>1, CycleInvariant, PTL

\* The queue in which the panel lists a conversation is that of its latest quote, whoever
\* moved it last: QueueFollowsQuote.
THEOREM QueueIsOfLatest == Spec => []QueueFollowsQuote
<1>1. CycleInv => QueueFollowsQuote
  BY DEF CycleInv
<1> QED
  BY <1>1, CycleInvariant, PTL

\* What DecisionIsFinal says of one quote, of a step.
Stands(q) ==
    quotes[q].status \in Final =>
        \/ quotes'[q].status = quotes[q].status
        \/ quotes[q].status = "approved" /\ quotes'[q].status = "cancelled"

LEMMA OneWritten ==
    ASSUME CycleInv, NEW p \in 1..Latest, NEW r, quotes' = [quotes EXCEPT ![p] = r],
           \/ quotes[p].status \notin Final
           \/ r.status = quotes[p].status
           \/ quotes[p].status = "approved" /\ r.status = "cancelled"
    PROVE  \A q \in 1..Latest : Stands(q)
<1>1. quotes \in Seq(Quote)
  BY TypeFacts DEF CycleInv
<1>2. \A q \in 1..Latest : quotes'[q] = IF q = p THEN r ELSE quotes[q]
  BY <1>1 DEF Latest
<1> QED
  BY <1>2 DEF Stands

LEMMA OneAdded ==
    ASSUME CycleInv, NEW r \in Quote, quotes' = Append(quotes, r)
    PROVE  \A q \in 1..Latest : Stands(q)
<1>1. quotes \in Seq(Quote)
  BY TypeFacts DEF CycleInv
<1>2. \A q \in 1..Latest : quotes'[q] = quotes[q]
  BY <1>1, AddedFits DEF Latest
<1> QED
  BY <1>2 DEF Stands

LEMMA BotStands ==
    ASSUME CycleInv, Bot
    PROVE  \A q \in 1..Latest : Stands(q)
<1>1. /\ Latest \in 0..MaxQuotes /\ \A q \in 1..Latest : quotes[q] \in Quote
  BY TypeFacts DEF CycleInv
<1>2. Latest > 0 => conv.request = quotes[Latest].status
  BY <1>1 DEF CycleInv, QueueFollowsQuote
<1>3. CASE StartQuote
  BY <1>3, OneAdded, NewQuoteFits, Statuses DEF StartQuote
<1>4. CASE PresentSummary \/ CorrectQuote
  <2>1. Latest \in 1..Latest /\ quotes[Latest].status \notin Final
    BY <1>1, <1>2, <1>4 DEF PresentSummary, CorrectQuote, SummaryShown, Final
  <2>2. \E status : quotes' = [quotes EXCEPT ![Latest] = Restated(quotes[Latest], status)]
    BY <1>4 DEF PresentSummary, CorrectQuote, Restated
  <2> QED
    BY <1>1, <2>1, <2>2, OneWritten
<1>5. CASE ConfirmWrites
  <2>1. held.quote = Latest /\ Latest \in 1..Latest /\ quotes[Latest].status \notin Final
    BY <1>1, <1>5 DEF ConfirmWrites, CycleInv, HeldFits, Final
  <2>2. PICK r : r = [quotes[Latest] EXCEPT !.status = "under-review", !.confirmed = TRUE,
                        !.version = @ + 1, !.summary = held.content]
    OBVIOUS
  <2>3. quotes' = [quotes EXCEPT ![Latest] = r]
    BY <1>5, <2>1, <2>2 DEF ConfirmWrites
  <2> QED
    BY <1>1, <2>1, <2>3, OneWritten
<1>6. CASE ConfirmReads \/ CustomerWrites
  BY <1>6 DEF ConfirmReads, CustomerWrites, Stands
<1> QED
  BY <1>3, <1>4, <1>5, <1>6, Zenon DEF Bot

LEMMA AttendantStands ==
    ASSUME CycleInv, NEW o \in Operator, Attendant(o)
    PROVE  \A q \in 1..Latest : Stands(q)
<1>1. /\ Latest \in 0..MaxQuotes /\ \A q \in 1..Latest : quotes[q] \in Quote
  BY TypeFacts DEF CycleInv
<1>2. CASE UNCHANGED quotes
  BY <1>2 DEF Stands
<1>3. CASE CreateProposal(o)
  <2>1. CASE PendingQuote
    <3>1. Latest \in 1..Latest /\ quotes[Latest].status \notin Final
      BY <1>1, <2>1 DEF PendingQuote, Final
    <3>2. PICK r : r = [quotes[Latest] EXCEPT !.confirmed = TRUE, !.content = @ + 1,
                          !.summary = quotes[Latest].content + 1]
      OBVIOUS
    <3>3. quotes' = [quotes EXCEPT ![Latest] = r]
      BY <1>3, <2>1, <3>2 DEF CreateProposal, Propose
    <3> QED
      BY <1>1, <3>1, <3>3, OneWritten
  <2>2. CASE ~PendingQuote
    BY <1>3, <2>2, OneAdded, NewQuoteFits, Statuses DEF CreateProposal, Propose
  <2> QED
    BY <2>1, <2>2
<1>4. ASSUME NEW members \in SUBSET Document, NEW d \in members, NEW b \in Document,
             SendProposal(o, d, b, members)
      PROVE  \A q \in 1..Latest : Stands(q)
  <2>1. Latest > 0 /\ quotes[Latest].status \notin Final
    BY <1>4 DEF SendProposal, MaySend, AcceptsDocuments, Final
  <2>2. UNCHANGED quotes \/ \E r : quotes' = [quotes EXCEPT ![Latest] = r]
    BY <1>4 DEF SendProposal
  <2> QED
    BY <1>1, <1>2, <2>1, <2>2, OneWritten
<1>5. ASSUME NEW p \in 1..MaxQuotes, NEW decision \in {"approved", "rejected"},
             Decide(o, p, decision)
      PROVE  \A q \in 1..Latest : Stands(q)
  <2>1. p \in 1..Latest /\ quotes[p].status \notin Final
        /\ \E r : quotes' = [quotes EXCEPT ![p] = r]
    BY <1>5 DEF Decide
  <2> QED
    BY <2>1, OneWritten
<1>6. ASSUME NEW status \in {"under-review", "waiting-for-customer"}, SetStatus(o, status)
      PROVE  \A q \in 1..Latest : Stands(q)
  <2>1. Latest \in 1..Latest /\ quotes[Latest].status \notin Final
    BY <1>1, <1>6 DEF SetStatus
  <2>2. quotes' = [quotes EXCEPT ![Latest] = Restated(quotes[Latest], status)]
    BY <1>6 DEF SetStatus, Restated
  <2> QED
    BY <2>1, <2>2, OneWritten
<1>7. Look(o) \/ TakeOver(o) \/ ReturnToBot(o) \/ Close(o) \/ CancelReads(o) => UNCHANGED quotes
  BY DEF Look, TakeOver, ReturnToBot, Close, CancelReads
<1>8. \A d \in Document : Upload(o, d) => UNCHANGED quotes
  BY DEF Upload
<1> QED
  BY <1>2, <1>3, <1>4, <1>5, <1>6, <1>7, <1>8 DEF Attendant

LEMMA NextStands ==
    ASSUME CycleInv, Next
    PROVE  \A q \in 1..Latest : Stands(q)
<1>1. /\ Latest \in 0..MaxQuotes /\ \A q \in 1..Latest : quotes[q] \in Quote
  BY TypeFacts DEF CycleInv
<1>2. CASE UNCHANGED quotes
  BY <1>2 DEF Stands
<1>3. CASE CancelWrites
  <2>1. /\ held.quote = Latest /\ Latest \in 1..Latest
        /\ quotes[Latest].status \notin {"rejected", "cancelled"}
    BY <1>1, <1>3 DEF CancelWrites, CycleInv, HeldFits
  <2>2. \/ UNCHANGED quotes
        \/ quotes' = [quotes EXCEPT ![Latest] = Restated(quotes[Latest], "cancelled")]
    BY <1>3, <2>1 DEF CancelWrites, Restated
  <2>3. Restated(quotes[Latest], "cancelled").status = "cancelled"
    BY <1>1, <2>1, StatusFits, Statuses
  <2>4. quotes[Latest].status \notin Final \/ quotes[Latest].status = "approved"
    BY <2>1 DEF Final
  <2> QED
    BY <1>2, <2>1, <2>2, <2>3, <2>4, OneWritten
<1>4. ASSUME NEW d \in Document, RecordDelivery(d) \/ ConfirmSent(d)
      PROVE  \A q \in 1..Latest : Stands(q)
  <2>1. document[d].quote \in 1..Latest
    BY <1>4 DEF RecordDelivery, ConfirmSent, Queued, CycleInv, Papers
  <2>2. \/ UNCHANGED quotes
        \/ /\ quotes[document[d].quote].status = "under-review"
           /\ \E r : quotes' = [quotes EXCEPT ![document[d].quote] = r]
    BY <1>4 DEF RecordDelivery, ConfirmSent, CompleteBatch
  <2> QED
    BY <1>2, <2>1, <2>2, OneWritten DEF Final
<1>5. ASSUME NEW p \in 1..MaxQuotes, PatchQuote(p)
      PROVE  \A q \in 1..Latest : Stands(q)
  <2>1. PICK r : r = [quotes[p] EXCEPT !.version = @ + 1, !.content = @ + 1]
    OBVIOUS
  <2>2. p \in 1..Latest /\ quotes' = [quotes EXCEPT ![p] = r] /\ quotes[p] \in Quote
    BY <1>1, <1>5, <2>1 DEF PatchQuote
  <2>3. r.status = quotes[p].status
    BY <2>1, <2>2 DEF Quote
  <2> QED
    BY <2>2, <2>3, OneWritten
<1>6. \A d \in Document : RecordFailure(d) => UNCHANGED quotes
  BY DEF RecordFailure
<1>7. \A q \in 1..MaxQuotes : Confirm(q) \/ (\E k \in Kind : Attest(q, k)) => UNCHANGED quotes
  BY DEF Confirm, Attest
<1> QED
  BY <1>2, <1>3, <1>4, <1>5, <1>6, <1>7, BotStands, AttendantStands DEF Next

\* An acceptance can only be cancelled; a refusal and a cancellation are final, whatever the
\* customer asks for afterwards (decideQuoteProposal, updateQuoteProposalStatus): DecisionIsFinal.
THEOREM DecisionStands == Spec => DecisionIsFinal
<1>1. CycleInv /\ [Next]_vars =>
        [\A q \in 1..Latest : quotes[q].status \in Final =>
           \/ quotes'[q].status = quotes[q].status
           \/ quotes[q].status = "approved" /\ quotes'[q].status = "cancelled"]_quotes
  BY NextStands DEF Stands, vars
<1> QED
  BY <1>1, CycleInvariant, PTL DEF Spec, DecisionIsFinal

=============================================================================
