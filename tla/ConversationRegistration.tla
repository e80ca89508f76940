---------------------- MODULE ConversationRegistration ----------------------
(***************************************************************************)
(* A customer registers in a conversation                                  *)
(* (prisma-conversation-registration.repository.ts and the registration    *)
(* functions of server-side-agent-function-tool.executor.ts): executions   *)
(* of agents start a draft, patch it, read the customer's yes, confirm it  *)
(* or abandon it, and resolve who is speaking, next to the back office of  *)
(* RegistrationRecords.                                                    *)
(*                                                                         *)
(* One session.  A command runs in one transaction under the lock of the   *)
(* draft, but the evidence of the customer is read before it, and the      *)
(* resolution of the identity holds another lock: each is split where it   *)
(* stops seeing what others commit.  Confirming is one step: it writes a   *)
(* registration by the version it read, or only adds to it.                *)
(*                                                                         *)
(* The version a call states is that of the draft when the call is made.   *)
(* Left out: e-mail and phone, which follow the name, relationships, and   *)
(* the routes of the internal API, which ask for no evidence.              *)
(***************************************************************************)
EXTENDS RegistrationRecords, TLC

CONSTANTS
    Draft,             \* drafts that the session may have
    Execution,         \* executions of agents that act at the same time
    Content,           \* what is typed: [person, name, company, called, own]
    MaxDraftVersion    \* bound: version of a draft

DraftAssumption == MaxDraftVersion \in Nat \ {0}

VARIABLES
    draft,      \* [Draft -> [status, version, person, name, company, called, own]]
    affirmed,   \* [Draft -> a yes of the customer is not older than its last change]
    answer,     \* [Draft -> what the last confirmation of it came to]
    member,     \* active participants: [person, primary, confirmed, confidence]
    call,       \* [Execution -> the call it is in and what it read]
    review      \* [Draft -> [status, version, shown, name]], data review it created

conversation == <<draft, affirmed, answer, member, call, review>>
vars == <<records, conversation>>

Idle == [op |-> "none"]
Unknown == "unknown"    \* a participant without a registration
NoCompany == "none"     \* the draft of a person alone

Init ==
    /\ RecordsInit
    /\ draft = [d \in Draft |-> [status |-> "absent", version |-> 0]]
    /\ affirmed = [d \in Draft |-> FALSE] /\ answer = [d \in Draft |-> "none"]
    /\ member = {} /\ call = [e \in Execution |-> Idle]
    /\ review = [d \in Draft |-> [status |-> "none"]]

-----------------------------------------------------------------------------
(* The draft *)

\* startDraft: one open draft in a session.
StartDraft(d) ==
    /\ draft[d].status = "absent" /\ \A other \in Draft : draft[other].status # "open"
    /\ draft' = [draft EXCEPT ![d] = [status |-> "open", version |-> 1, person |-> Unknown, own |-> FALSE]]
    /\ UNCHANGED <<records, affirmed, answer, member, call, review>>

\* updateDraft: a call that states an older version conflicts and changes nothing.
PatchDraft(d) ==
    /\ draft[d].status = "open" /\ draft[d].version < MaxDraftVersion
    /\ \E v \in Content :
         draft' = [draft EXCEPT ![d] = v @@ [status |-> "open", version |-> @.version + 1]]
    /\ affirmed' = [affirmed EXCEPT ![d] = FALSE]
    /\ UNCHANGED <<records, answer, member, call, review>>

\* The customer says yes to the summary.
Affirm(d) ==
    /\ draft[d].status = "open" /\ affirmed' = [affirmed EXCEPT ![d] = TRUE]
    /\ UNCHANGED <<records, draft, answer, member, call, review>>

\* abandonDraft: the customer gave up; the draft keeps no personal data.
Abandon(d) ==
    /\ draft[d].status = "open" /\ draft' = [draft EXCEPT ![d].status = "cancelled"]
    /\ UNCHANGED <<records, affirmed, answer, member, call, review>>

-----------------------------------------------------------------------------
(* Confirmation *)

\* draftEvidence: a yes that is not older than the last change of the draft.
Evidence(d) == affirmed[d]

\* registration_update: the evidence, before the transaction of the confirmation.
CheckEvidence(e, d, decision) ==
    /\ call[e] = Idle /\ draft[d].status = "open" /\ draft[d].person # Unknown /\ Evidence(d)
    /\ call' = [call EXCEPT ![e] = [op |-> "confirm", draft |-> d, version |-> draft[d].version,
                                    decision |-> decision]]
    /\ UNCHANGED <<records, draft, affirmed, answer, member, review>>

\* Mutant: the version the call states is not compared.
BadCurrent(e) == draft[call[e].draft].status = "open"
Current(e) == draft[call[e].draft].status = "open" /\ draft[call[e].draft].version = call[e].version

\* The identity it is compared with is that of any active participant that has
\* one, for the query states no order and does not ask whether it is confirmed.
Identity == {m.person : m \in {k \in member : k.person # Unknown}}
SamePerson(p) == Identity = {} \/ p \in Identity
OtherPerson(p) == \E q \in Identity : q # p

\* createRegistration and updateExistingPerson, for the person of the draft.
PersonCreated(v) ==
    [version |-> 1, name |-> v.name, phone |-> IF v.own THEN "linked" ELSE "other", from |-> NoRow]

PersonUpdated(v, decision) ==
    LET replaces == decision = "replace" /\ reg[v.person].name # v.name
    IN  [reg[v.person] EXCEPT !.phone = IF v.own THEN "linked" ELSE @,
            !.name = IF replaces THEN v.name ELSE @, !.version = IF replaces THEN @ + 1 ELSE @]

PersonRow(v, decision) ==
    IF Exists(v.person) THEN PersonUpdated(v, decision) ELSE PersonCreated(v)

Decided(v, decision) == Exists(v.person) /\ reg[v.person].name # v.name => decision # "none"

CompanyRow(v) == IF Exists(v.company) THEN reg[v.company]
                 ELSE [version |-> 1, name |-> v.called, phone |-> "other", from |-> NoRow]

ReviewOf(v) == IF v.company = NoCompany \/ ~Exists(v.company) \/ reg[v.company].name = v.called
               THEN [status |-> "none"]
               ELSE [status |-> "pending", company |-> v.company, version |-> reg[v.company].version,
                     shown |-> reg[v.company].name, name |-> v.called]

\* confirmDraft: everything it writes.
Register(d, decision) ==
    LET v == draft[d] IN
    /\ reg[v.person].version < MaxVersion
    /\ reg' = [x \in Party |-> CASE x = v.person -> PersonRow(v, decision)
                                 [] x = v.company -> CompanyRow(v)
                                 [] OTHER -> reg[x]]
    /\ review' = [review EXCEPT ![d] = ReviewOf(v)]
    /\ member' = {m \in member : ~m.primary} \cup
                   {[person |-> v.person, primary |-> TRUE, confirmed |-> TRUE, confidence |-> 100]}
    /\ draft' = [draft EXCEPT ![d].status = "resolved"]
    /\ answer' = [answer EXCEPT ![d] = "confirmed"]

Confirm(e) ==
    /\ call[e].op = "confirm"
    /\ call' = [call EXCEPT ![e] = Idle]
    /\ LET d == call[e].draft
           Refuse(why) == /\ answer' = [answer EXCEPT ![d] = why]
                          /\ UNCHANGED <<reg, draft, member, review>>
       IN  \/ ~Current(e) /\ Refuse("conflict")
           \/ Current(e) /\ OtherPerson(draft[d].person) /\ Refuse("another-person")
           \/ /\ Current(e) /\ SamePerson(draft[d].person)
              /\ \/ ~Decided(draft[d], call[e].decision) /\ Refuse("decision-needed")
                 \/ Decided(draft[d], call[e].decision) /\ Register(d, call[e].decision)
    /\ UNCHANGED <<form, batch, candidate, affirmed>>

\* The agent ends or is blocked between the evidence and the confirmation.
CallEnds(e) ==
    /\ call[e].op # "none" /\ call' = [call EXCEPT ![e] = Idle]
    /\ UNCHANGED <<records, draft, affirmed, answer, member, review>>

-----------------------------------------------------------------------------
(* Who is speaking *)

ByNumber == {p \in Person : Exists(p) /\ reg[p].phone # "other"}

\* resolveRegistrationCandidates: an inbound message makes everyone with the
\* number a participant, the only one the primary.
Arrive ==
    LET missing == ByNumber \ Identity
        sole == Cardinality(ByNumber) = 1
    IN  /\ member' = IF missing # {}
                     THEN member \cup {[person |-> p, confirmed |-> FALSE,
                                        primary |-> sole /\ \A m \in member : ~m.primary,
                                        confidence |-> IF sole THEN 100 ELSE 95] : p \in missing}
                     ELSE IF ByNumber = {} /\ member = {}
                     THEN {[person |-> Unknown, primary |-> TRUE, confirmed |-> FALSE, confidence |-> 0]}
                     ELSE member
        /\ UNCHANGED <<records, draft, affirmed, answer, call, review>>

OfPhone(p) == CASE ~Exists(p) \/ reg[p].phone = "other" -> 0 [] reg[p].phone = "linked" -> 98 [] OTHER -> 80
OfMember(p) == {m.confidence : m \in {k \in member : k.person = p}}
Confidence(p) == LET all == {OfPhone(p)} \cup OfMember(p) IN CHOOSE n \in all : \A k \in all : k <= n

\* resolveRegistrationIdentity: the one confirmed, else the one far ahead.
Resolved ==
    LET confirmed == {m.person : m \in {k \in member : k.confirmed}}
        known == {p \in Person : Confidence(p) > 0}
        ahead == {p \in known : Confidence(p) >= 95
                                  /\ \A q \in known \ {p} : Confidence(p) >= Confidence(q) + 15}
    IN  IF Cardinality(confirmed) = 1 THEN CHOOSE p \in confirmed : TRUE
        ELSE IF confirmed = {} /\ ahead # {} THEN CHOOSE p \in ahead : TRUE
        ELSE Unknown

\* resolveIdentity: it reads phones and participants,
ResolveReads(e) ==
    /\ call[e] = Idle
    /\ call' = [call EXCEPT ![e] = [op |-> "resolve", person |-> Resolved,
                                    confidence |-> IF Resolved = Unknown THEN 0 ELSE Confidence(Resolved)]]
    /\ UNCHANGED <<records, draft, affirmed, answer, member, review>>

\* then the primary participant, and replaces it if it is another.
ResolveWrites(e) ==
    LET c == call[e]
        primary == {m.person : m \in {k \in member : k.primary}}
    IN  /\ c.op = "resolve"
        /\ call' = [call EXCEPT ![e] = Idle]
        /\ member' = IF primary = {c.person} THEN member
                     ELSE {m \in member : ~m.primary} \cup
                            {[person |-> c.person, primary |-> TRUE, confirmed |-> FALSE,
                              confidence |-> c.confidence]}
        /\ UNCHANGED <<records, draft, affirmed, answer, review>>

-----------------------------------------------------------------------------
(* The data review of an organisation *)

AsReviewed(d) == reg[review[d].company].version = review[d].version

\* decideDataReview: under the lock of the review.
Approve(d) ==
    /\ review[d].status = "pending" /\ AsReviewed(d) /\ reg[review[d].company].version < MaxVersion
    /\ review' = [review EXCEPT ![d].status = "approved"]
    /\ reg' = [reg EXCEPT ![review[d].company] =
                 [@ EXCEPT !.name = review[d].name, !.version = @ + 1]]
    /\ UNCHANGED <<form, batch, candidate, draft, affirmed, answer, member, call>>

Reject(d) ==
    /\ review[d].status = "pending" /\ review' = [review EXCEPT ![d].status = "rejected"]
    /\ UNCHANGED <<records, draft, affirmed, answer, member, call>>

Next ==
    \/ RecordsNext /\ UNCHANGED conversation
    \/ \E d \in Draft : StartDraft(d) \/ PatchDraft(d) \/ Affirm(d) \/ Abandon(d) \/ Approve(d) \/ Reject(d)
    \/ \E e \in Execution :
         \/ \E d \in Draft, decision \in {"none", "replace", "keep-existing"} : CheckEvidence(e, d, decision)
         \/ Confirm(e) \/ CallEnds(e) \/ ResolveReads(e) \/ ResolveWrites(e)
    \/ Arrive

Spec == Init /\ [][Next]_vars

-----------------------------------------------------------------------------
(* Properties *)

\* What is registered is what the customer said yes to: a draft is never
\* confirmed with a change that came after the yes, though the yes is read
\* before the transaction and another execution may patch the draft meanwhile.
ConfirmsAsAffirmed ==
    \A d \in Draft :
        draft[d].status = "open" /\ draft'[d].status = "resolved" => affirmed[d]

\* The name an approval replaces is the one the review showed, whoever changed
\* the organisation since: a form, another review or another conversation.
ApprovesAsShown ==
    \A d \in Draft : review[d].status = "pending" /\ review'[d].status = "approved"
        => reg[review[d].company].name = review[d].shown

\* A customer is told that their document is of another person only when the
\* session has confirmed who they are: "nao corresponde a identidade confirmada
\* nesta sessao", says the refusal.
RefusesByConfirmedIdentity ==
    \A d \in Draft : answer[d] # "another-person" /\ answer'[d] = "another-person"
        => \E m \in member : m.confirmed
=============================================================================
