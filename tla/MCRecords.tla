------------------------------ MODULE MCRecords ------------------------------
(***************************************************************************)
(* What is registered and what is imported, on small instances of which    *)
(* one runs at a time: a customer who registers in a conversation next to  *)
(* one clerk, two clerks who import two workbooks, and the import of old   *)
(* conversations.  The state of the others stays as it was.                *)
(***************************************************************************)
EXTENDS Naturals, TLC

CONSTANTS
    p1, p2, org, ana, bia, c1, c2, c3, x1, f1, f2, d1, e1, none,  \* registrations
    Registered,                                               \* people of a conversation
    b1, b2, r1, r2, m1, m2, w1, w2                            \* old conversations

VARIABLES
    part,           \* the instance that runs
    reg, form, batch, candidate, draft, affirmed, answer, member, call, review,
    contact, conv, quote, held, turned, elsewhere, convRef, itemRef, record, package,
    worker, now, lived

-----------------------------------------------------------------------------
\* Registrations

\* The drafts told: a person alone, a person for a company, and another document.
Told(person, name, company, called, own) ==
    [person |-> person, name |-> name, company |-> company, called |-> called, own |-> own]
Drafts == {Told(p1, bia, "none", bia, TRUE), Told(p1, ana, org, bia, FALSE),
           Told(p2, bia, "none", ana, TRUE)}

Talk == INSTANCE ConversationRegistration WITH
       Person <- {p1, p2}, Company <- {org}, Name <- {ana, bia}, Clerk <- {c1},
       Row <- {}, File <- {}, RowsOf <- << >>, NoRow <- none, Known <- {org} \cup Registered,
       MaxVersion <- 3, Draft <- {d1}, Execution <- {e1}, Content <- Drafts,
       MaxDraftVersion <- 3

Books == INSTANCE ConversationRegistration WITH
       Person <- {p1, p2}, Company <- {}, Name <- {ana, bia}, Clerk <- {c2, c3},
       Row <- {x1}, File <- {f1, f2}, RowsOf <- [f \in {f1, f2} |-> {x1}],
       NoRow <- none, Known <- {}, MaxVersion <- 3, Draft <- {}, Execution <- {},
       Content <- {}, MaxDraftVersion <- 1

-----------------------------------------------------------------------------
\* Old conversations

\* Two packages of one phone under two aliases: the first carries a quote
\* with its PDF and a message under one alias, the second brings the message
\* again and another conversation row without items.
Conversation(r, state, status, owned, quoted) ==
    [ref |-> r, state |-> state, status |-> status, owned |-> owned,
     quote |-> quoted, reason |-> FALSE, upsert |-> TRUE]
Message(i, r, document) ==
    [id |-> i, ref |-> r, payload |-> "same", document |-> document,
     inbound |-> TRUE, delivery |-> "received"]

Packages ==
    b1 :> [rows |-> <<Conversation(r1, "bot-active", "under-review", FALSE, TRUE)>>,
           items |-> {Message(m1, r1, FALSE), Message(m2, r1, TRUE)}]
    @@ b2 :> [rows |-> <<Conversation(r1, "sent-to-human", "not-started", FALSE, FALSE),
                         Conversation(r2, "closed", "not-started", FALSE, FALSE)>>,
              items |-> {Message(m1, r1, FALSE)}]

L == INSTANCE LegacyImport WITH
       Batch <- {b1, b2}, Package <- Packages, Item <- {m1, m2}, Ref <- {r1, r2},
       PhoneOf <- [r \in {r1, r2} |-> "phone"], Early <- {b1}, Worker <- {w1, w2},
       MaxLive <- 1, batch <- package

-----------------------------------------------------------------------------
ASSUME TalkBounds ==
    Talk!PartyAssumption /\ Talk!RowAssumption /\ Talk!VersionAssumption
    /\ Talk!DraftAssumption
ASSUME BooksBounds ==
    Books!PartyAssumption /\ Books!RowAssumption /\ Books!VersionAssumption
    /\ Books!DraftAssumption
ASSUME LegacyBounds == L!LegacyAssumption

registrationVars ==
    <<reg, form, batch, candidate, draft, affirmed, answer, member, call, review>>
legacyVars ==
    <<contact, conv, quote, held, turned, elsewhere, convRef, itemRef, record, package,
      worker, now, lived>>

RecordsInit ==
    /\ part \in {"talk", "books", "legacy"}
    /\ L!Init
    /\ \/ part = "talk" /\ Talk!Init
       \/ part = "books" /\ Books!Init
       \/ part = "legacy" /\ Books!Init /\ reg[p1].name = ana

RecordsNext ==
    /\ UNCHANGED part
    /\ \/ part = "talk" /\ Talk!Next /\ UNCHANGED legacyVars
       \/ part = "books" /\ Books!Next /\ UNCHANGED legacyVars
       \/ part = "legacy" /\ L!Next /\ UNCHANGED registrationVars

recordsVars == <<part, registrationVars, legacyVars>>
RecordsSpec == RecordsInit /\ [][RecordsNext]_recordsVars

\* Registrations are followed up to their second version; an act of a customer or an
\* operator is followed next to one run of an import.
Followed ==
    /\ part # "legacy" => \A p \in {p1, p2} : reg[p].version <= 2
    /\ lived > 0 => \E w \in {w1, w2} : worker[w] = L!Idle

RecordsSymmetry == Permutations({w1, w2}) \cup Permutations({c2, c3})

-----------------------------------------------------------------------------

\* A draft is never confirmed with a change that came after the customer's yes, an
\* approval replaces the name that its review showed, and a form is never saved over a
\* change its clerk did not see.
WrittenAsSeen ==
    [][/\ (part = "talk" =>
              Talk!ConfirmsAsAffirmed /\ Talk!ApprovesAsShown /\ Talk!SavesAsShown)
       /\ (part = "books" => Books!SavesAsShown)]_recordsVars

\* A row of a workbook becomes one registration at most.
PromotedOnce == part = "books" => Books!PromotedOnce

\* A batch that reconciles is in the history whole, and nothing of one that was rolled
\* back is left.
LegacyIsWhole == L!ReconciledIsWhole /\ L!RolledBackIsGone

\* A rollback puts each conversation back as it was, and discards nothing a customer
\* or an operator did.
RollbackRestores == L!RollbackRestores /\ L!LiveWorkStays

-----------------------------------------------------------------------------
\* What the documents say and the code does not do.

\* A customer is told that their document is of another person than the one confirmed in
\* this session only when the session has confirmed somebody.
RefusedByConfirmedIdentity == [][part = "talk" => Talk!RefusesByConfirmedIdentity]_recordsVars

\* A row of an old import is not written over a change of its conversation that its
\* transaction did not read.
RowsAreSerializable == L!RowsAreSerializable
=============================================================================
