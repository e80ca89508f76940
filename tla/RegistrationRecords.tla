------------------------- MODULE RegistrationRecords -------------------------
(***************************************************************************)
(* The registrations of a tenant and the people of the back office who     *)
(* write them (registrations.service.ts): creation, the edits of a form    *)
(* that carries the version it was opened with, and the reconciliation of  *)
(* an analysed workbook (registration-reconciliation.service.ts), whose    *)
(* rows become candidates that a review approves, ignores or sets aside.   *)
(*                                                                         *)
(* An edit replaces the row by the form.  A review reads the candidate,    *)
(* then updates it by the version that the panel showed, and an approval   *)
(* creates its registrations in the same transaction.  A version never     *)
(* falls, so what the same transaction read before that update is what it  *)
(* updates.                                                                *)
(*                                                                         *)
(* Left out: roles, tags and relationships, temporary registrations,       *)
(* addresses, e-mails, the replay of a repeated command (it returns what   *)
(* it did), and promote(), which needs a status no review leaves behind.   *)
(***************************************************************************)
EXTENDS Naturals, FiniteSets

CONSTANTS
    Person, Company,   \* the tax documents of people and of organisations
    Name,              \* names that are typed
    Clerk,             \* people of the back office
    Row,               \* people found in the analysed workbook, by fingerprint
    File,              \* workbooks
    RowsOf,            \* [File -> the rows that it holds]
    NoRow,             \* a registration that no candidate became
    Known,             \* parties that are registered at the start
    MaxVersion         \* bound: version of a registration or of a candidate

PartyAssumption == Person \cap Company = {} /\ Known \subseteq Person \cup Company
RowAssumption == RowsOf \in [File -> SUBSET Row] /\ NoRow \notin Row
VersionAssumption == MaxVersion \in Nat \ {0}

Party == Person \cup Company

VARIABLES
    reg,         \* [Party -> [version, name, phone, from]], version 0: none
    form,        \* [Clerk -> what the clerk has before them]
    batch,       \* [File -> status of its import]
    candidate    \* [Row -> [status, version]], version 0: none

records == <<reg, form, batch, candidate>>

\* Whose phone the registration holds: that of the contact of the session,
\* linked to it or only equal to it, or another one.
Phone == {"linked", "same", "other"}
Closed == [op |-> "none"]
Exists(x) == reg[x].version > 0

RecordsInit ==
    /\ \E n \in Name, same \in SUBSET (Known \cap Person) :
         reg = [x \in Party |-> [version |-> IF x \in Known THEN 1 ELSE 0, name |-> n,
                                 phone |-> IF x \in same THEN "same" ELSE "other", from |-> NoRow]]
    /\ form = [c \in Clerk |-> Closed]
    /\ batch = [f \in File |-> "none"]
    /\ candidate = [r \in Row |-> [status |-> "none", version |-> 0]]

-----------------------------------------------------------------------------
(* The panel *)

\* create: assertNoDuplicateRegistration and the unique indexes of tax documents.
Create(c, x, n) ==
    /\ form[c] = Closed /\ ~Exists(x)
    /\ reg' = [reg EXCEPT ![x] = [version |-> 1, name |-> n, phone |-> "other", from |-> NoRow]]
    /\ UNCHANGED <<form, batch, candidate>>

\* The form is filled with what the row holds.
OpenForm(c, x) ==
    /\ form[c] = Closed /\ Exists(x)
    /\ form' = [form EXCEPT ![c] = [op |-> "edit", party |-> x, version |-> reg[x].version,
                                    name |-> reg[x].name]]
    /\ UNCHANGED <<reg, batch, candidate>>

Shown(c) == reg[form[c].party].version = form[c].version

\* update: the name and the phone become those of the form.
SaveForm(c, n, keepsPhone) ==
    /\ form[c].op = "edit"
    /\ form' = [form EXCEPT ![c] = Closed]
    /\ LET x == form[c].party IN
         IF Shown(c)
         THEN /\ reg[x].version < MaxVersion
              /\ reg' = [reg EXCEPT ![x] = [@ EXCEPT !.version = @ + 1, !.name = n,
                                               !.phone = IF keepsPhone THEN @ ELSE "other"]]
         ELSE UNCHANGED reg
    /\ UNCHANGED <<batch, candidate>>

-----------------------------------------------------------------------------
(* Reconciliation *)

\* import: a file that has a batch, whatever its status, is not read again.
BeginImport(f) ==
    /\ batch[f] = "none"
    /\ batch' = [batch EXCEPT ![f] = "processing"]
    /\ UNCHANGED <<reg, form, candidate>>

NewRows(f) == {r \in RowsOf[f] : candidate[r].version = 0}

\* persistImport: one transaction; a row that is a candidate stays as it is.
Persist(f) ==
    /\ batch[f] = "processing"
    /\ \E status \in [NewRows(f) -> {"ready-for-decision", "ambiguous", "insufficient-data"}] :
         candidate' = [r \in Row |-> IF r \in NewRows(f) THEN [status |-> status[r], version |-> 1]
                                     ELSE candidate[r]]
    /\ batch' = [batch EXCEPT ![f] = "completed"]
    /\ UNCHANGED <<reg, form>>

\* The transaction fails; a process that dies leaves the batch processing.
PersistFails(f) ==
    /\ batch[f] = "processing"
    /\ batch' = [batch EXCEPT ![f] = "failed"]
    /\ UNCHANGED <<reg, form, candidate>>

OpenCandidate(c, r) ==
    /\ form[c] = Closed /\ candidate[r].version > 0
    /\ form' = [form EXCEPT ![c] = [op |-> "candidate", row |-> r, version |-> candidate[r].version]]
    /\ UNCHANGED <<reg, batch, candidate>>

\* review: what its transaction reads first.
BeginReview(c) ==
    /\ form[c].op = "candidate"
    /\ form' = [form EXCEPT ![c] = IF candidate[form[c].row].status = "promoted" THEN Closed
                                   ELSE [@ EXCEPT !.op = "review"]]
    /\ UNCHANGED <<reg, batch, candidate>>

\* Mutant: the candidate is updated by id alone.
BadUnchanged(c) == TRUE
Unchanged(c) == candidate[form[c].row].version = form[c].version

\* createPromotionGraph: the person that the reviewer typed and the registrations that are
\* typed with it, all of them or, if one is registered, none; the first is of the row.
Promoted(r, x, others, n) ==
    /\ \A y \in others \cup {x} : ~Exists(y)
    /\ reg' = [y \in Party |->
         IF y \notin others \cup {x} THEN reg[y]
         ELSE [version |-> 1, name |-> n, phone |-> "other",
               from |-> IF y = x THEN r ELSE NoRow]]

\* The rest of the transaction; a conflict leaves everything as it was.
Review(c) ==
    /\ form[c].op = "review" /\ candidate[form[c].row].version < MaxVersion
    /\ form' = [form EXCEPT ![c] = Closed]
    /\ LET r == form[c].row
           Becomes(s) == candidate' = [candidate EXCEPT ![r] = [status |-> s, version |-> @.version + 1]]
       IN  \/ ~Unchanged(c) /\ UNCHANGED <<reg, candidate>>
           \/ /\ Unchanged(c)
              /\ \/ \E s \in {"in-review", "unidentified", "ignored"} : Becomes(s) /\ UNCHANGED reg
                 \/ /\ \E x \in Person, n \in Name :
                         \E others \in SUBSET (Party \ {x}) : Promoted(r, x, others, n)
                    /\ Becomes("promoted")
                 \/ UNCHANGED <<reg, candidate>>      \* the person is registered already
    /\ UNCHANGED batch

RecordsNext ==
    \/ \E c \in Clerk :
         \/ \E x \in Party : OpenForm(c, x) \/ (\E n \in Name : Create(c, x, n))
         \/ \E n \in Name, keeps \in BOOLEAN : SaveForm(c, n, keeps)
         \/ \E r \in Row : OpenCandidate(c, r)
         \/ BeginReview(c) \/ Review(c)
    \/ \E f \in File : BeginImport(f) \/ Persist(f) \/ PersistFails(f)

-----------------------------------------------------------------------------
(* Properties *)

\* A row of a workbook becomes one registration at most (and those typed with it),
\* whatever the order of reviews and of imports of other files that hold it.
PromotedOnce == \A r \in Row : Cardinality({x \in Person : reg[x].from = r}) <= 1

\* A form that is saved replaces the name that it showed: no one's change of it
\* is lost, be it of a clerk, of a review or of the person in a conversation.
SavesAsShown ==
    \A c \in Clerk : form[c].op = "edit" /\ form'[c] = Closed /\ reg' # reg
        => reg[form[c].party].name = form[c].name
=============================================================================
