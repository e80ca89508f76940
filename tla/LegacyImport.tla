---------------------------- MODULE LegacyImport ----------------------------
(***************************************************************************)
(* Import of reviewed conversation packages into the live tables           *)
(* (whatsapp-import.service.ts).  A package is validated without a write;  *)
(* apply claims its batch under a lease and writes each conversation in a  *)
(* transaction of its own, keeping in a record what the conversation was   *)
(* before and after; a failed or lapsed batch is taken up again; rollback  *)
(* undoes the records of an applied batch, newest first, in one            *)
(* serializable transaction, unless something happened to a conversation   *)
(* since.  Customers and operators use the same conversations meanwhile.   *)
(*                                                                         *)
(* Rows of different phones touch nothing in common, so the four phones    *)
(* the code takes at a time are taken here one row at a time.              *)
(***************************************************************************)
EXTENDS Naturals, Sequences, FiniteSets, SequencesExt

CONSTANTS
  Batch,      \* the packages
  Package,    \* [Batch -> [rows: a sequence of rows, items: a set of items]]
  Item,       \* external ids of messages and proposal PDFs
  Ref,        \* external ids of conversations
  PhoneOf,    \* [Ref -> Phone]; aliases of one phone share its conversation
  Early,      \* batches whose extraction ended before anything here happened;
              \* the cut-off of the others is the moment they are applied
  Worker,     \* runs of apply or rollback
  MaxLive     \* bound on what customers and operators do

Phone == {PhoneOf[r] : r \in Ref}

LegacyAssumption ==
  /\ MaxLive \in Nat
  /\ \A b \in Batch :
       /\ \A i \in DOMAIN Package[b].rows : Package[b].rows[i].ref \in Ref
       /\ \A x \in Package[b].items : x.id \in Item

VARIABLES
  contact,    \* [Phone -> NoRow or a name], live names are times
  conv,       \* [Phone -> NoRow or the conversation of the channel]
  quote,      \* [Phone -> NoRow or its quote request]
  held,       \* [Phone -> messages and PDFs of the conversation]
  turned,     \* [Phone -> time of the last transition, 0 for none]
  elsewhere,  \* phones whose contact also writes to another channel
  convRef,    \* references of imported conversations
  itemRef,    \* [Item -> NoRow or the payload hash and who imported it]
  record,     \* [Batch -> [Ref -> NoRow or the record of the row]]
  batch,      \* [Batch -> NoRow or its row]
  worker,     \* what each run is doing
  now, lived

vars == <<contact, conv, quote, held, turned, elsewhere, convRef, itemRef,
          record, batch, worker, now, lived>>
live == <<turned, elsewhere, lived>>
data == <<contact, conv, quote, held, convRef, itemRef>>

NoRow == [present |-> FALSE]
NoOne == "nobody"
Idle == [doing |-> "nothing"]

\* Who wrote a value: a row of a batch, or somebody at a time.
Tag(b, r) == [batch |-> b, of |-> r]
Live(t) == [batch |-> "live", of |-> t]
IsLive(v) == v.batch = "live"

Init ==
  /\ contact = [p \in Phone |-> NoRow]
  /\ conv = [p \in Phone |-> NoRow]
  /\ quote = [p \in Phone |-> NoRow]
  /\ held = [p \in Phone |-> {}]
  /\ turned = [p \in Phone |-> 0]
  /\ elsewhere = {}
  /\ convRef = {}
  /\ itemRef = [i \in Item |-> NoRow]
  /\ record = [b \in Batch |-> [r \in Ref |-> NoRow]]
  /\ batch = [b \in Batch |-> NoRow]
  /\ worker = [w \in Worker |-> Idle]
  /\ now = 1
  /\ lived = 0

---------------------------------------------------------------------------
(* Packages. *)

Rows(b) == {Package[b].rows[i] : i \in DOMAIN Package[b].rows}
Upserts(b) == SelectSeq(Package[b].rows, LAMBDA x : x.upsert)
ItemsOf(b, r) == {x \in Package[b].items : x.ref = r}

\* The states and commercial statuses a conversation may be imported with.
HumanStates == {"human-active", "sent-to-human"}
Canonical(state, status) ==
  CASE state = "human-active" -> TRUE
    [] state = "sent-to-human" -> status # "approved"
    [] state = "bot-active" ->
         status \in {"not-started", "collecting-information", "under-review",
                     "approved"}
    [] state = "waiting-for-customer" -> status = "waiting-for-customer"
    [] state = "closed" -> status \in {"not-started", "rejected", "cancelled"}
    [] OTHER -> FALSE

\* Only people have an attendant, and people who are active always.
OwnerIsSound(x) ==
  /\ x.owned => x.state \in HumanStates
  /\ x.state = "human-active" => x.owned

\* A commercial status needs the sequence of its quote, a refusal its reason.
QuoteIsSound(x) ==
  /\ x.status # "not-started" => x.quote
  /\ x.status \in {"rejected", "cancelled"} => x.reason

\* validateConversationRow.
RowIsSound(x) ==
  Canonical(x.state, x.status) /\ OwnerIsSound(x) /\ QuoteIsSound(x)

\* A message comes with a delivery that is over: an import sends nothing.
MessageIsSound(b, i) ==
  /\ \E x \in Rows(b) : x.ref = i.ref
  /\ i.delivery \in IF i.inbound THEN {"received"}
                     ELSE {"sent", "delivered", "read", "failed"}

\* A PDF belongs to the quote request its conversation row declares.
DocumentIsSound(b, i) == \E x \in Rows(b) : x.ref = i.ref /\ x.quote

ItemIsSound(b, i) ==
  IF i.document THEN DocumentIsSound(b, i) ELSE MessageIsSound(b, i)

\* No conversation and no item is named twice in a package.
NamesAreUnique(b) ==
  /\ \A i, j \in DOMAIN Package[b].rows :
       Package[b].rows[i].ref = Package[b].rows[j].ref => i = j
  /\ \A x, y \in Package[b].items : x.id = y.id => x = y

---------------------------------------------------------------------------
(* Snapshots and drift. *)

Applied(b) ==
  {r \in Ref : record[b][r] # NoRow /\ record[b][r].status = "APPLIED"}
AppliedTo(b, p) == {r \in Applied(b) : PhoneOf[r] = p}

\* The records of a conversation, of every batch.
Records(p) == UNION {{record[b][r] : r \in AppliedTo(b, p)} : b \in Batch}
Newest(rs) == CHOOSE x \in rs : \A y \in rs : y.at <= x.at
Oldest(rs) == CHOOSE x \in rs : \A y \in rs : x.at <= y.at

\* loadSnapshot: the quote is read when the row has a sequence.
QuoteSnapshot(p, withQuote) == IF withQuote THEN quote[p] ELSE NoRow

Snapshot(p, withQuote) ==
  [contact |-> contact[p], conv |-> conv[p], quote |-> QuoteSnapshot(p, withQuote)]

AsLeft(x, p) == Snapshot(p, x.after.quote # NoRow) = x.after

\* assertNoDriftSinceLastImport, for a conversation imported before.
Drifted(p) ==
  \/ conv[p] = NoRow
  \/ Records(p) = {}
  \/ LET last == Newest(Records(p)) IN
       \/ ~AsLeft(last, p)
       \/ turned[p] > last.at
       \/ \E x \in held[p] : x.at > last.at /\ IsLive(x.by)

\* Looked up by source system and external id before the rows are compared.
Imported(x) == x.ref \in convRef
Carried(i) == itemRef[i.id] # NoRow

\* An item imported before is carried again unchanged, by the same
\* conversation.
Agrees(i) ==
  Carried(i) =>
    /\ itemRef[i.id].payload = i.payload
    /\ i.ref \in convRef
    /\ itemRef[i.id].phone = PhoneOf[i.ref]

MessagesAgree(b) == \A i \in Package[b].items : ~i.document => Agrees(i)
DocumentsAgree(b) == \A i \in Package[b].items : i.document => Agrees(i)

\* A conversation imported before is as its last import left it.
RowsAgree(b) ==
  \A x \in Rows(b) : x.upsert /\ Imported(x) => ~Drifted(PhoneOf[x.ref])

\* prepare: a report without errors.
Valid(b) ==
  /\ NamesAreUnique(b)
  /\ \A x \in Rows(b) : RowIsSound(x)
  /\ \A i \in Package[b].items : ItemIsSound(b, i)
  /\ RowsAgree(b) /\ MessagesAgree(b) /\ DocumentsAgree(b)

---------------------------------------------------------------------------
(* Apply. *)

Becomes(w, s) == worker' = [worker EXCEPT ![w] = s]

\* The package is validated; nothing is written.
Prepare(w, b) ==
  /\ worker[w] = Idle
  /\ Valid(b)
  /\ Upserts(b) # <<>>
  /\ Becomes(w, [doing |-> "prepared", batch |-> b])
  /\ UNCHANGED <<data, live, record, batch, now>>

\* Another run may take an unfinished batch when it failed or its lease is
\* over.
MayClaim(b) ==
  \/ batch[b].status = "FAILED"
  \/ batch[b].status = "APPLYING" /\ batch[b].lapsed

\* The batch is created or claimed.
Claim(w) ==
  /\ worker[w].doing = "prepared"
  /\ LET b == worker[w].batch IN
       IF batch[b] = NoRow
       THEN /\ batch' = [batch EXCEPT ![b] =
                 [status |-> "APPLYING", claim |-> w, lapsed |-> FALSE,
                  cutoff |-> IF b \in Early THEN 0 ELSE now,
                  counts |-> [rows |-> 0, items |-> 0]]]
            /\ Becomes(w, [doing |-> "apply", batch |-> b, todo |-> Upserts(b)])
       ELSE IF MayClaim(b)
       THEN /\ batch' = [batch EXCEPT ![b].status = "APPLYING",
                                      ![b].claim = w, ![b].lapsed = FALSE]
            /\ Becomes(w, [doing |-> "apply", batch |-> b, todo |-> Upserts(b)])
       ELSE /\ Becomes(w, Idle)
            /\ UNCHANGED batch
  /\ UNCHANGED <<data, live, record, now>>

Mine(w, status) ==
  LET b == worker[w].batch IN batch[b].status = status /\ batch[b].claim = w

\* The run stops at an error: the batch fails if the claim is still its own.
Fail(w) ==
  /\ batch' = IF Mine(w, "APPLYING")
              THEN [batch EXCEPT ![worker[w].batch].status = "FAILED",
                                 ![worker[w].batch].claim = NoOne,
                                 ![worker[w].batch].lapsed = FALSE]
              ELSE batch
  /\ Becomes(w, Idle)

\* An error of the database at any point between claim and finalisation.
RunFails(w) ==
  /\ worker[w].doing \in {"apply", "row"}
  /\ Fail(w)
  /\ UNCHANGED <<data, live, record, now>>

\* Once a minute the run renews its lease before a row.
Renew(w) ==
  /\ worker[w].doing = "apply"
  /\ worker[w].todo # <<>>
  /\ IF Mine(w, "APPLYING")
     THEN /\ batch' = [batch EXCEPT ![worker[w].batch].lapsed = FALSE]
          /\ UNCHANGED worker
     ELSE Fail(w)
  /\ UNCHANGED <<data, live, record, now>>

BadPassedOver(b, r) == r \in convRef  \* Mutant: the reference says it is done.

PassedOver(b, r) == r \in Applied(b)

\* The first statements of a row's transaction: a row applied before is
\* passed over, a conversation that drifted stops the run, and what the
\* conversation is goes into the record as it is read here.
OpenRow(w) ==
  /\ worker[w].doing = "apply"
  /\ worker[w].todo # <<>>
  /\ LET x == Head(worker[w].todo)
         p == PhoneOf[x.ref] IN
       IF PassedOver(worker[w].batch, x.ref)
       THEN /\ Becomes(w, [worker[w] EXCEPT !.todo = Tail(@)])
            /\ UNCHANGED batch
       ELSE IF Imported(x) /\ Drifted(p)
       THEN Fail(w)
       ELSE /\ Becomes(w, [doing |-> "row", batch |-> worker[w].batch,
                           todo |-> worker[w].todo, known |-> Imported(x),
                           before |-> Snapshot(p, FALSE)])
            /\ UNCHANGED batch
  /\ UNCHANGED <<data, live, record, now>>

\* The unique constraints the writes of a row meet, and the checks of the
\* items imported before.
Writable(w, x) ==
  LET b == worker[w].batch
      p == PhoneOf[x.ref]
      s == worker[w].before IN
  /\ record[b][x.ref] = NoRow
  /\ (s.conv = NoRow) = (conv[p] = NoRow)
  /\ (s.contact = NoRow) = (contact[p] = NoRow)
  /\ Imported(x) = worker[w].known
  /\ \A i \in ItemsOf(b, x.ref) :
       itemRef[i.id] # NoRow =>
         itemRef[i.id].payload = i.payload /\ itemRef[i.id].phone = p

\* An imported row is written over the one that is there; its version moves.
Overwritten(old, value) ==
  [value |-> value, version |-> IF old = NoRow THEN 1 ELSE old.version + 1]

\* A name is changed on a contact imported before, unless an operator saved
\* it; a new contact is created with it.
ContactAfter(p, known, before, tag) ==
  IF before.contact = NoRow \/ (known /\ ~before.contact.saved)
  THEN [name |-> tag, saved |-> FALSE] ELSE contact[p]

QuoteAfter(p, x, tag) ==
  IF x.quote THEN Overwritten(quote[p], tag) ELSE quote[p]

\* The messages and PDFs nobody imported yet.
Fresh(b, r) == {i \in ItemsOf(b, r) : ~Carried(i)}

ItemsAfter(p, items, tag) ==
  [i \in Item |->
     IF \E y \in items : y.id = i
     THEN LET y == CHOOSE y \in items : y.id = i IN
            [payload |-> y.payload, phone |-> p, by |-> tag]
     ELSE itemRef[i]]

\* What the transaction keeps of the row: before, after and what it created.
RecordOf(x, before, known, after, items) ==
  [status |-> "APPLIED", at |-> now, ref |-> x.ref, before |-> before,
   after |-> after,
   created |-> [contact |-> before.contact = NoRow,
                conv |-> before.conv = NoRow,
                quote |-> x.quote /\ before.quote = NoRow,
                ref |-> ~known,
                items |-> {y.id : y \in items}]]

\* The writes of a row, all or none.
WriteRow(w) ==
  /\ worker[w].doing = "row"
  /\ LET b == worker[w].batch
         x == Head(worker[w].todo)
         p == PhoneOf[x.ref]
         items == Fresh(b, x.ref)
         tag == Tag(b, x.ref)
         before == [worker[w].before EXCEPT !.quote =
                      IF x.quote THEN quote[p] ELSE NoRow] IN
       IF ~Writable(w, x)
       THEN Fail(w) /\ UNCHANGED <<data, record, now>>
       ELSE /\ contact' = [contact EXCEPT ![p] =
                 ContactAfter(p, worker[w].known, before, tag)]
            /\ conv' = [conv EXCEPT ![p] = Overwritten(@, tag)]
            /\ quote' = [quote EXCEPT ![p] = QuoteAfter(p, x, tag)]
            /\ convRef' = convRef \cup {x.ref}
            /\ itemRef' = ItemsAfter(p, items, tag)
            /\ held' = [held EXCEPT ![p] =
                 @ \cup {[id |-> y.id, at |-> now, by |-> tag] : y \in items}]
            /\ record' = [record EXCEPT ![b][x.ref] =
                 RecordOf(x, before, worker[w].known,
                          [contact |-> contact'[p], conv |-> conv'[p],
                           quote |-> IF x.quote THEN quote'[p] ELSE NoRow],
                          items)]
            /\ now' = now + 1
            /\ Becomes(w, [doing |-> "apply", batch |-> b,
                           todo |-> Tail(worker[w].todo)])
            /\ UNCHANGED batch
  /\ UNCHANGED live

\* computeAppliedCounts: the records of the batch and the items it brought.
Brought(b) == {i \in Item : itemRef[i] # NoRow /\ itemRef[i].by.batch = b}
AppliedCounts(b) ==
  [rows |-> Cardinality(Applied(b)), items |-> Cardinality(Brought(b))]

\* Every row is applied: the batch is, unless another run took it.
Finish(w) ==
  /\ worker[w].doing = "apply"
  /\ worker[w].todo = <<>>
  /\ batch' = IF Mine(w, "APPLYING")
              THEN [batch EXCEPT ![worker[w].batch].status = "APPLIED",
                                 ![worker[w].batch].counts =
                                   AppliedCounts(worker[w].batch),
                                 ![worker[w].batch].claim = NoOne,
                                 ![worker[w].batch].lapsed = FALSE]
              ELSE batch
  /\ Becomes(w, Idle)
  /\ UNCHANGED <<data, live, record, now>>

---------------------------------------------------------------------------
(* Rollback. *)

ClaimRollback(w, b) ==
  /\ worker[w] = Idle
  /\ batch[b] # NoRow
  /\ batch[b].status = "APPLIED"
  /\ batch[b].claim = NoOne \/ batch[b].lapsed
  /\ batch' = [batch EXCEPT ![b].claim = w, ![b].lapsed = FALSE]
  /\ Becomes(w, [doing |-> "rollback", batch |-> b])
  /\ UNCHANGED <<data, live, record, now>>

BadNewestFirst(b) ==  \* Mutant: the records are undone in the order applied.
  SetToSortSeq({record[b][r] : r \in Applied(b)}, LAMBDA x, y : x.at < y.at)

NewestFirst(b) ==
  SetToSortSeq({record[b][r] : r \in Applied(b)}, LAMBDA x, y : x.at > y.at)

\* Something else than the row's own items came after the cut-off.
Later(b, x) ==
  LET p == PhoneOf[x.ref] IN
  \/ turned[p] > batch[b].cutoff
  \/ \E i \in held[p] : i.at > batch[b].cutoff /\ i.id \notin x.created.items

\* The newest record of a conversation no longer says what it is.
Changed(b, x) ==
  LET p == PhoneOf[x.ref] IN
  /\ x = Newest({record[b][r] : r \in AppliedTo(b, p)})
  /\ ~AsLeft(x, p)

ContactReused(x) == x.created.contact /\ PhoneOf[x.ref] \in elsewhere

\* collectRollbackBlockers.
Blocked(b) ==
  \E r \in Applied(b) :
    LET x == record[b][r] IN
    Later(b, x) \/ Changed(b, x) \/ ContactReused(x)

World == [contact |-> contact, conv |-> conv, quote |-> quote, held |-> held,
          convRef |-> convRef, itemRef |-> itemRef]

\* What is restored comes back with the version it had; of a contact only
\* the name does.
RestoredContact(old, x) ==
  IF x.created.contact THEN NoRow
  ELSE IF x.before.contact = NoRow THEN old
  ELSE [old EXCEPT !.name = x.before.contact.name]
RestoredConversation(old, x) ==
  IF x.created.conv THEN NoRow
  ELSE IF x.before.conv = NoRow THEN old ELSE x.before.conv
RestoredQuote(old, x) ==
  IF x.created.quote THEN NoRow
  ELSE IF x.before.quote = NoRow THEN old ELSE x.before.quote

\* rollbackRecord: what the row created goes, what it changed comes back.
Undone(s, x) ==
  LET p == PhoneOf[x.ref]
      c == x.created IN
  [contact |-> [s.contact EXCEPT ![p] = RestoredContact(@, x)],
   conv |-> [s.conv EXCEPT ![p] = RestoredConversation(@, x)],
   quote |-> [s.quote EXCEPT ![p] = RestoredQuote(@, x)],
   held |-> [s.held EXCEPT ![p] = {i \in @ : i.id \notin c.items}],
   convRef |-> IF c.ref THEN s.convRef \ {x.ref} ELSE s.convRef,
   itemRef |-> [i \in Item |->
     IF i \in c.items THEN NoRow ELSE s.itemRef[i]]]

\* The rollback's transaction holds the batch, its conversations, their
\* quotes and contacts locked, so it is one step; a blocker or a lost claim
\* ends it without a write.
Rollback(w) ==
  /\ worker[w].doing = "rollback"
  /\ LET b == worker[w].batch
         s == FoldLeft(Undone, World, NewestFirst(b)) IN
       /\ Mine(w, "APPLIED")
       /\ ~Blocked(b)
       /\ contact' = s.contact /\ conv' = s.conv /\ quote' = s.quote
       /\ held' = s.held /\ convRef' = s.convRef /\ itemRef' = s.itemRef
       /\ record' = [record EXCEPT ![b] = [r \in Ref |->
            IF r \in Applied(b) THEN [@[r] EXCEPT !.status = "ROLLED_BACK"]
            ELSE @[r]]]
       /\ batch' = [batch EXCEPT ![b].status = "ROLLED_BACK",
                                 ![b].claim = NoOne, ![b].lapsed = FALSE]
  /\ Becomes(w, Idle)
  /\ UNCHANGED <<live, now>>

\* It fails, or is refused: its claim is given back.
RollbackEnds(w) ==
  /\ worker[w].doing = "rollback"
  /\ batch' = IF Mine(w, "APPLIED")
              THEN [batch EXCEPT ![worker[w].batch].claim = NoOne,
                                 ![worker[w].batch].lapsed = FALSE]
              ELSE batch
  /\ Becomes(w, Idle)
  /\ UNCHANGED <<data, live, record, now>>

---------------------------------------------------------------------------
(* The surroundings. *)

Lives == lived < MaxLive /\ lived' = lived + 1 /\ now' = now + 1

\* The customer writes: the message arrives in the phone's conversation.
Arrive(p) ==
  /\ Lives
  /\ contact' = [contact EXCEPT ![p] =
       IF @ = NoRow THEN [name |-> Live(now), saved |-> FALSE] ELSE @]
  /\ conv' = [conv EXCEPT ![p] = Overwritten(@, Live(now))]
  /\ held' = [held EXCEPT ![p] = @ \cup {[id |-> now, at |-> now, by |-> Live(now)]}]
  /\ UNCHANGED <<quote, convRef, itemRef, turned, elsewhere, record, batch, worker>>

\* An operator changes the conversation, with a transition or without one.
PanelChange(p) ==
  /\ Lives
  /\ conv[p] # NoRow
  /\ conv' = [conv EXCEPT ![p] = Overwritten(@, Live(now))]
  /\ \E moved \in BOOLEAN :
       turned' = IF moved THEN [turned EXCEPT ![p] = now] ELSE turned
  /\ UNCHANGED <<contact, quote, held, convRef, itemRef, elsewhere, record, batch,
                 worker>>

\* An operator works on the quote request.
QuoteChange(p) ==
  /\ Lives
  /\ quote[p] # NoRow
  /\ quote' = [quote EXCEPT ![p] = Overwritten(@, Live(now))]
  /\ UNCHANGED <<contact, conv, held, turned, convRef, itemRef, elsewhere, record,
                 batch, worker>>

\* An operator saves the contact under a name.
SaveContact(p) ==
  /\ Lives
  /\ contact[p] # NoRow
  /\ contact' = [contact EXCEPT ![p] = [name |-> Live(now), saved |-> TRUE]]
  /\ UNCHANGED <<conv, quote, held, turned, convRef, itemRef, elsewhere, record,
                 batch, worker>>

\* The contact writes to another channel of the company.
WriteElsewhere(p) ==
  /\ Lives
  /\ contact[p] # NoRow
  /\ p \notin elsewhere
  /\ elsewhere' = elsewhere \cup {p}
  /\ UNCHANGED <<data, turned, record, batch, worker>>

\* The lease of a batch runs out.
LeaseLapses(b) ==
  /\ batch[b] # NoRow
  /\ batch[b].claim # NoOne
  /\ ~batch[b].lapsed
  /\ batch' = [batch EXCEPT ![b].lapsed = TRUE]
  /\ UNCHANGED <<data, live, record, worker, now>>

\* The process of a run stops.
Stop(w) ==
  /\ worker[w] # Idle
  /\ Becomes(w, Idle)
  /\ UNCHANGED <<data, live, record, batch, now>>

Run(w) ==
  \/ \E b \in Batch : Prepare(w, b) \/ ClaimRollback(w, b)
  \/ Claim(w)
  \/ Renew(w)
  \/ OpenRow(w)
  \/ WriteRow(w)
  \/ Finish(w)
  \/ RunFails(w)
  \/ Rollback(w)
  \/ RollbackEnds(w)
  \/ Stop(w)

Next ==
  \/ \E w \in Worker : Run(w)
  \/ \E p \in Phone :
       \/ Arrive(p)
       \/ PanelChange(p)
       \/ QuoteChange(p)
       \/ SaveContact(p)
       \/ WriteElsewhere(p)
  \/ \E b \in Batch : LeaseLapses(b)

Spec == Init /\ [][Next]_vars

---------------------------------------------------------------------------
(* reconcile. *)

\* Every record has a conversation of its own, as the row left it.
ConversationsAreThere(b) ==
  /\ \A r \in Applied(b) : conv[PhoneOf[r]] # NoRow /\ AsLeft(record[b][r], PhoneOf[r])
  /\ \A r, s \in Applied(b) : PhoneOf[r] = PhoneOf[s] => r = s

\* What a record brought is in its conversation, and nothing else refers to
\* the batch.
ItemsAreThere(b) ==
  /\ \A r \in Applied(b) :
       record[b][r].created.items \subseteq {i.id : i \in held[PhoneOf[r]]}
  /\ \A i \in Brought(b) : \E r \in Applied(b) : i \in record[b][r].created.items

\* The counts are those of the moment the batch was applied.
CountsAgree(b) == batch[b].counts = AppliedCounts(b)

Reconciled(b) ==
  /\ batch[b] # NoRow
  /\ batch[b].status = "APPLIED"
  /\ ConversationsAreThere(b) /\ ItemsAreThere(b) /\ CountsAgree(b)

---------------------------------------------------------------------------
(* Properties. *)

\* A batch that reconciles is in the history whole: every message and PDF of
\* its rows is in its conversation exactly once, also those another batch had
\* brought and those a resumed run passed over, and a reference protects it
\* from a second import.
ReconciledIsWhole ==
  \A b \in Batch :
    Reconciled(b) =>
      \A i \in DOMAIN Upserts(b) :
        LET x == Upserts(b)[i] IN
        /\ x.ref \in convRef
        /\ \A y \in ItemsOf(b, x.ref) :
             /\ Cardinality({z \in held[PhoneOf[x.ref]] : z.id = y.id}) = 1
             /\ itemRef[y.id] # NoRow

\* A rolled back batch stays rolled back: nothing it brought is left, not
\* even what a run that lost its lease was still writing.
RolledBackIsGone ==
  \A b \in Batch :
    batch[b] # NoRow /\ batch[b].status = "ROLLED_BACK" =>
      /\ Applied(b) = {}
      /\ \A p \in Phone : \A i \in held[p] : i.by.batch # b

\* A rollback puts each conversation back as it was before the first row of
\* the batch, also when several rows of one phone were applied.
RollbackRestores ==
  [][\A b \in Batch :
       batch[b] # NoRow /\ batch[b].status # batch'[b].status
         /\ batch'[b].status = "ROLLED_BACK" =>
           \A p \in Phone :
             AppliedTo(b, p) # {} =>
               LET first == Oldest({record[b][r] : r \in AppliedTo(b, p)}) IN
               /\ conv'[p] = first.before.conv
               /\ first.before.contact = NoRow => contact'[p] = NoRow]_vars

\* A rollback discards nothing a customer or an operator did: messages and
\* the conversations and quotes they changed last stay.
LiveWorkStays ==
  [][\A b \in Batch :
       batch[b] # NoRow /\ batch[b].status # batch'[b].status
         /\ batch'[b].status = "ROLLED_BACK" =>
           \A p \in Phone :
             /\ {i \in held[p] : IsLive(i.by)} \subseteq held'[p]
             /\ conv[p] # NoRow /\ IsLive(conv[p].value) => conv'[p] = conv[p]
             /\ quote[p] # NoRow /\ IsLive(quote[p].value) =>
                  quote'[p] = quote[p]]_vars

\* docs/whatsapp-conversation-import.md: each conversation is written in a
\* serializable transaction.  A row would then not write over a change of
\* the conversation it did not read.
RowsAreSerializable ==
  [][\A w \in Worker :
       worker[w].doing = "row" /\ now' # now /\ worker'[w] # worker[w] =>
         LET p == PhoneOf[Head(worker[w].todo).ref] IN
         conv[p] = worker[w].before.conv]_vars
=============================================================================
