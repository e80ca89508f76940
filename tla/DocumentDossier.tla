--------------------------- MODULE DocumentDossier ---------------------------
(***************************************************************************)
(* The document requests of one person (document-management.use-case.ts    *)
(* and document-workflow.ts): dossiers of required documents, the versions *)
(* sent for each, their validation and their review, and the staff that    *)
(* adds, waives, renews and recalculates requirements meanwhile.           *)
(*                                                                         *)
(* Sending, validating, removing and reviewing read first, take the locks  *)
(* of the dossier and read again.  The policy of an item, a manual item    *)
(* and a batch take none: their writes stay invisible until they commit,   *)
(* and the status they give the request is that of the items they saw.     *)
(*                                                                         *)
(* Left out: contents (files but for their deletion, extracted fields,     *)
(* deadlines, completedAt) and the statuses automatic-validation and       *)
(* expired, which no code gives an item.  A set of files that was sent     *)
(* before changes nothing, so every upload here is of new files.           *)
(***************************************************************************)
EXTENDS Naturals, Sequences, FiniteSets, TLC

CONSTANTS
    Staff, Owner,      \* people who manage documents, and the subject
    Type,              \* document types of the dynamic checklist
    Conditional,       \* those that depend on the profile of the person
    MaxRequests,       \* bound: requests ever created
    MaxVersion,        \* bound: versions sent for one item
    MaxProfiles,       \* bound: updates of the profile
    MaxOperations,     \* bound: operations begun
    Decision, Policy   \* the decisions and the policies that are tried

PeopleAssumption == Staff \cap Owner = {} /\ Staff # {}
ChecklistAssumption == Conditional \subseteq Type /\ Conditional # Type
BoundsAssumption ==
    /\ MaxRequests \in Nat \ {0} /\ MaxVersion \in Nat \ {0}
    /\ MaxProfiles \in Nat /\ MaxOperations \in Nat
InputAssumption ==
    /\ Decision \subseteq {"approved", "rejected", "resubmission-required"}
    /\ Policy \subseteq {"required", "optional", "waived"}

Person == Staff \cup Owner
Request == 1..MaxRequests
Key == Request \X Type

VARIABLES
    request,     \* [Request -> [status, context]], status "absent" before creation
    item,        \* [Key -> [status, requirement, policy]], policy: set by a person
    submission,  \* [Key -> sequence of [status, validated, files]], its versions
    profile,     \* the conditional types that apply to the person
    updates,     \* updates of the profile so far
    receipt,     \* the last update: its documents were recalculated, or not yet
    call,        \* [Person -> the operation in hand and what it read]
    operations   \* operations begun so far

subject == <<profile, updates, receipt>>
vars == <<request, item, submission, subject, call, operations>>

Open == {"pending-upload", "submitted", "pending-human-review",
         "resubmission-required", "rejected"}
ItemStatus == Open \cup {"approved", "waived", "cancelled"}
NoItem == [status |-> "absent", requirement |-> "required", policy |-> FALSE]
NewItem == [NoItem EXCEPT !.status = "pending-upload"]
NoCall == [op |-> "none"]

Required == Type \ (Conditional \ profile)

Init ==
    /\ request = [r \in Request |-> [status |-> "absent", context |-> "other"]]
    /\ item = [k \in Key |-> NoItem] /\ submission = [k \in Key |-> << >>]
    /\ profile \in SUBSET Conditional /\ updates = 0 /\ receipt = "none"
    /\ call = [p \in Person |-> NoCall] /\ operations = 0

-----------------------------------------------------------------------------
(* deriveDocumentRequestStatus *)

ItemsOf(items, r) == {items[<<r, t>>] : t \in {u \in Type : items[<<r, u>>].status # "absent"}}

Derived(I) ==
    LET relevant == {i \in I : i.requirement # "optional"}
        status == {i.status : i \in IF relevant # {} THEN relevant ELSE I}
    IN  CASE status = {} -> "draft"
          [] status = {"cancelled"} -> "cancelled"
          [] status # {} /\ status \subseteq {"cancelled", "waived"} -> "approved"
          [] "resubmission-required" \in status -> "resubmission-required"
          [] "rejected" \in status /\ "resubmission-required" \notin status -> "rejected"
          [] status \subseteq {"approved", "waived"} /\ "approved" \in status -> "approved"
          [] "pending-human-review" \in status /\ status \cap {"resubmission-required", "rejected"} = {}
               -> "pending-human-review"
          [] status = {"submitted"} -> "submitted"
          [] status = {"pending-upload"} -> "pending-upload"
          [] OTHER -> "partially-submitted"

DerivedOf(items, r) == Derived(ItemsOf(items, r))

Versions(k) == Len(submission[k])
Current(k) == submission[k][Versions(k)]
Exists(k) == item[k].status # "absent"
Idle(p) == call[p].op = "none"

\* The rows that transactions changed and have not committed yet: whoever would write
\* them, or lock them, waits.
Staged == {p \in Person : call[p].op = "commit"}
RowsOf(p) == {<<call[p].request, t>> : t \in DOMAIN call[p].changes}
LockedRow(k) == \E p \in Staged : k \in RowsOf(p) /\ Exists(k)
Unlocked(r) == \A t \in Type : ~LockedRow(<<r, t>>)

\* The positions of the items of a request are unique: of two transactions that add items
\* at the same time the second waits for the first, and fails.
Inserting(r) == \E p \in Staged : call[p].request = r /\ \E k \in RowsOf(p) : ~Exists(k)

\* What others read of a row that is written is no longer fresh (updatedAt).
CallsAfter(p, K) ==
    [q \in Person |->
        IF q = p THEN NoCall
        ELSE IF call[q].op \in {"complete", "delete", "review"} /\ call[q].key \in K
             THEN [call[q] EXCEPT !.fresh = FALSE] ELSE call[q]]

\* A transaction of person p that holds the locks of the requests R commits items and
\* submissions, and the derived status of R.
CommitLocked(p, R, items, submissions) ==
    LET K == {k \in Key : items[k] # item[k] \/ submissions[k] # submission[k]}
    IN  /\ \A r \in R : Unlocked(r)
        /\ item' = items /\ submission' = submissions
        /\ request' = [r \in Request |->
                IF r \in R THEN [request[r] EXCEPT !.status = DerivedOf(items, r)] ELSE request[r]]
        /\ call' = CallsAfter(p, K)
        /\ UNCHANGED subject

\* The operation is refused, or repeats what was done.
Refused(p) == call' = [call EXCEPT ![p] = NoCall] /\ UNCHANGED <<request, item, submission, subject>>

-----------------------------------------------------------------------------
(* New requests *)

NewRequest == CHOOSE r \in Request : /\ request[r].status = "absent"
                                     /\ \A q \in 1..(r - 1) : request[q].status # "absent"
CanCreate == \E r \in Request : request[r].status = "absent"
Created(context, types) ==
    /\ request' = [request EXCEPT ![NewRequest] = [status |-> "pending-upload", context |-> context]]
    /\ item' = [k \in Key |-> IF k[1] = NewRequest /\ k[2] \in types THEN NewItem ELSE item[k]]
    /\ UNCHANGED submission

\* createRequest: whatever other requests there are.
Create(context) ==
    /\ CanCreate
    /\ Created(context, Required)
    /\ UNCHANGED <<subject, call>>

\* The request that comes with a new user.
CreateAdmission == Create("admission")

\* renew: one item, in a request of its own.
Renew(k) ==
    /\ CanCreate /\ item[k].status = "approved"
    /\ Created("renewal", {k[2]})
    /\ UNCHANGED <<subject, call>>

-----------------------------------------------------------------------------
(* Transactions that take no lock of the dossier *)

\* They write what they read before: the changes, and the status of the items as they
\* are committed now.
Stage(p, r, context, changes, advisory) ==
    LET items == [k \in Key |-> IF k[1] = r /\ k[2] \in DOMAIN changes THEN changes[k[2]] ELSE item[k]]
    IN  /\ \A t \in DOMAIN changes : ~LockedRow(<<r, t>>)
        /\ (\E t \in DOMAIN changes : ~Exists(<<r, t>>)) => ~Inserting(r)
        /\ call' = [call EXCEPT ![p] = [op |-> "commit", request |-> r, context |-> context,
                                        changes |-> changes, status |-> DerivedOf(items, r),
                                        advisory |-> advisory]]
        /\ UNCHANGED <<request, item, submission, subject>>

Commit(p) ==
    LET c == call[p]
    IN  /\ c.op = "commit"
        /\ item' = [k \in Key |-> IF k \in RowsOf(p) THEN c.changes[k[2]] ELSE item[k]]
        /\ request' = [request EXCEPT ![c.request] = [status |-> c.status, context |-> c.context]]
        /\ call' = CallsAfter(p, RowsOf(p))
        /\ UNCHANGED <<submission, subject>>

\* Serialised with other manual items and with reviews of the type, and with nothing else.
AddItem(p, r, t) ==
    /\ Idle(p) /\ request[r].status # "absent" /\ ~Exists(<<r, t>>)
    /\ \A q \in Staged : t \notin call[q].advisory
    /\ \E q \in {"required", "optional"} :
          Stage(p, r, request[r].context, t :> [NewItem EXCEPT !.requirement = q], {t})

ReadPolicy(p, k, policy) ==
    /\ Idle(p) /\ Exists(k)
    /\ call' = [call EXCEPT ![p] = [op |-> "policy", key |-> k, seen |-> item[k].status, policy |-> policy]]
    /\ UNCHANGED <<request, item, submission, subject>>

PolicyStatus(policy, seen) ==
    IF policy = "waived" THEN "waived"
    ELSE IF seen \in {"waived", "cancelled"} THEN "pending-upload" ELSE seen

SetPolicy(p) ==
    LET c == call[p]
    IN  /\ c.op = "policy"
        /\ Stage(p, c.key[1], request[c.key[1]].context,
                 c.key[2] :> [status |-> PolicyStatus(c.policy, c.seen), policy |-> TRUE,
                              requirement |-> IF c.policy = "required" THEN "required" ELSE "optional"], {})

\* The oldest request that is not cancelled.
Dossiers == {r \in Request : request[r].status \notin {"absent", "cancelled"}}
Original == CHOOSE r \in Dossiers : \A q \in Dossiers : r <= q

ReadBatch(p, types) ==
    /\ Idle(p) /\ types # {} /\ types \subseteq Required
    /\ call' = [call EXCEPT ![p] = [op |-> "batch", types |-> types,
            dossier |-> IF Dossiers = {} THEN {} ELSE {Original},
            seen |-> [t \in Type |-> IF Dossiers = {} THEN "absent" ELSE item[<<Original, t>>].status]]]
    /\ UNCHANGED <<request, item, submission, subject>>

PositionTaken(c) ==
    /\ \E t \in c.types : c.seen[t] = "absent"
    /\ \E r \in c.dossier, t \in Type : c.seen[t] = "absent" /\ Exists(<<r, t>>)

\* Missing types are added, and those that were settled are asked for again.
Merge(p) ==
    LET c == call[p]
        asked == {t \in c.types : c.seen[t] \in {"absent", "approved", "waived", "cancelled"}}
    IN  /\ c.op = "batch" /\ ~PositionTaken(c)
        /\ \E r \in c.dossier :
              Stage(p, r, "other", [t \in asked |-> IF c.seen[t] = "absent" THEN NewItem
                        ELSE [status |-> "pending-upload", requirement |-> "required", policy |-> FALSE]], {})

BatchCreates(p) ==
    /\ call[p].op = "batch" /\ call[p].dossier = {} /\ CanCreate
    /\ Created("other", call[p].types)
    /\ call' = [call EXCEPT ![p] = NoCall]
    /\ UNCHANGED subject

-----------------------------------------------------------------------------
(* Versions: reading *)

ReadUpload(p, k) ==
    /\ Idle(p) /\ Versions(k) < MaxVersion
    /\ item[k].status \in {"pending-upload", "pending-human-review", "resubmission-required", "rejected"}
    /\ call' = [call EXCEPT ![p] = [op |-> "upload", key |-> k, seen |-> item[k].status, version |-> Versions(k)]]
    /\ UNCHANGED <<request, item, submission, subject>>

Holding(op, k, decision) ==
    [op |-> op, key |-> k, version |-> Versions(k), fresh |-> TRUE, decision |-> decision]

\* completeSubmission validates, with an agent, what was sent.
ReadComplete(p, k) ==
    /\ Idle(p) /\ Versions(k) > 0 /\ Current(k).status = "submitted"
    /\ call' = [call EXCEPT ![p] = Holding("complete", k, "pending-human-review")]
    /\ UNCHANGED <<request, item, submission, subject>>

ReadDelete(p, k) ==
    /\ Idle(p) /\ Versions(k) > 0 /\ Current(k).status # "cancelled"
    /\ Current(k).status = "approved" => p \in Staff
    /\ call' = [call EXCEPT ![p] = Holding("delete", k, "cancelled")]
    /\ UNCHANGED <<request, item, submission, subject>>

ReadReview(p, k, decision) ==
    /\ Idle(p) /\ Versions(k) > 0 /\ Current(k).status = "pending-human-review"
    /\ call' = [call EXCEPT ![p] = Holding("review", k, decision)]
    /\ UNCHANGED <<request, item, submission, subject>>

-----------------------------------------------------------------------------
(* Versions: writing, under the locks of the dossier *)

\* assertSubmissionSnapshot.
\* Mutant: what was read before the locks is trusted.
BadUnchanged(c) == c.version > 0
Unchanged(c) == c.fresh /\ c.version = Versions(c.key)

Upload(p) ==
    LET c == call[p]
        k == c.key
        versions == IF c.seen = "pending-human-review" /\ c.version > 0
                        /\ Current(k).status = "pending-human-review"
                    THEN [submission[k] EXCEPT ![c.version].status = "cancelled"] ELSE submission[k]
    IN  /\ c.op = "upload" /\ item[k].status = c.seen /\ Versions(k) = c.version
        /\ CommitLocked(p, {k[1]}, [item EXCEPT ![k].status = "submitted"],
                [submission EXCEPT ![k] =
                    Append(versions, [status |-> "submitted", validated |-> FALSE, files |-> TRUE])])

Complete(p) ==
    LET c == call[p]
    IN  /\ c.op = "complete" /\ Unchanged(c)
        /\ CommitLocked(p, {c.key[1]}, [item EXCEPT ![c.key].status = "pending-human-review"],
                [submission EXCEPT ![c.key][c.version] =
                    [@ EXCEPT !.status = "pending-human-review", !.validated = TRUE]])

Delete(p) ==
    LET c == call[p]
    IN  /\ c.op = "delete" /\ Unchanged(c)
        /\ CommitLocked(p, {c.key[1]}, [item EXCEPT ![c.key].status = "pending-upload"],
                [submission EXCEPT ![c.key][c.version] = [@ EXCEPT !.status = "cancelled", !.files = FALSE]])

\* An approval settles the same requirement of the other dossiers.
Duplicates(k) ==
    {d \in Key : d # k /\ d[2] = k[2] /\ item[d].status \in Open
                       /\ request[d[1]].status # "cancelled"}

CancelOpen(versions) ==
    [v \in DOMAIN versions |->
        IF versions[v].status \in Open THEN [versions[v] EXCEPT !.status = "cancelled"] ELSE versions[v]]

Review(p) ==
    LET c == call[p]
        D == IF c.decision = "approved" THEN Duplicates(c.key) ELSE {}
    IN  /\ c.op = "review" /\ Unchanged(c)
        /\ \A q \in Staged : c.key[2] \notin call[q].advisory
        /\ CommitLocked(p, {c.key[1]} \cup {d[1] : d \in D},
                [k \in Key |-> IF k = c.key THEN [item[k] EXCEPT !.status = c.decision]
                               ELSE IF k \in D THEN [item[k] EXCEPT !.status = "waived"] ELSE item[k]],
                [k \in Key |-> IF k = c.key
                               THEN [submission[k] EXCEPT ![c.version].status = c.decision]
                               ELSE IF k \in D THEN CancelOpen(submission[k]) ELSE submission[k]])

Conflict(p) ==
    /\ \/ call[p].op \in {"complete", "delete", "review"} /\ ~Unchanged(call[p])
       \/ /\ call[p].op = "upload"
          /\ item[call[p].key].status # call[p].seen \/ Versions(call[p].key) # call[p].version
       \/ call[p].op = "batch" /\ PositionTaken(call[p])
    /\ Refused(p)

-----------------------------------------------------------------------------
(* The profile and its synchronisation *)

UpdateProfile(types) ==
    /\ updates < MaxProfiles
    /\ profile' = types /\ updates' = updates + 1 /\ receipt' = "due"
    /\ UNCHANGED <<request, item, submission, call>>

\* The newest admission dossier of the dynamic checklist.
Admissions == {r \in Dossiers : request[r].context = "admission"}

Synchronized(k) ==
    CASE ~Exists(k) /\ k[2] \in Required -> NewItem
      [] Exists(k) /\ k[2] \notin Required /\ item[k].status = "pending-upload" /\ Versions(k) = 0
           -> [item[k] EXCEPT !.status = "cancelled"]
      [] Exists(k) /\ k[2] \in Required /\ item[k].status = "cancelled" /\ Versions(k) = 0
           -> [item[k] EXCEPT !.status = "pending-upload"]
      [] OTHER -> item[k]

\* Serialisable, and once for each update: a repeated command finds the receipt.
Synchronize(p) ==
    /\ receipt = "due" /\ Idle(p) /\ Admissions # {}
    /\ LET r == CHOOSE r \in Admissions : \A q \in Admissions : q <= r
           items == [k \in Key |-> IF k[1] = r THEN Synchronized(k) ELSE item[k]]
       IN  /\ Unlocked(r)
           /\ (\E t \in Required : ~Exists(<<r, t>>)) => ~Inserting(r)
           /\ item' = items
           /\ request' = [request EXCEPT ![r].status = DerivedOf(items, r)]
           /\ call' = CallsAfter(p, {k \in Key : items[k] # item[k]})
    /\ receipt' = "done"
    /\ UNCHANGED <<submission, profile, updates>>

SynchronizeCreates ==
    /\ receipt = "due" /\ Admissions = {} /\ CanCreate
    /\ Created("admission", Required)
    /\ receipt' = "done"
    /\ UNCHANGED <<profile, updates, call>>

-----------------------------------------------------------------------------
StaffRequests(p) ==
    \/ \E r \in Request, t \in Type : AddItem(p, r, t)
    \/ \E k \in Key, policy \in Policy : ReadPolicy(p, k, policy)
    \/ \E T \in SUBSET Type : ReadBatch(p, T)
    \/ \E k \in Key, d \in Decision : ReadReview(p, k, d)

Finish(p) ==
    \/ SetPolicy(p) \/ Merge(p) \/ BatchCreates(p) \/ Commit(p)
    \/ Upload(p) \/ Complete(p) \/ Delete(p) \/ Review(p) \/ Conflict(p)

Begin ==
    \/ CreateAdmission \/ Create("other")
    \/ \E k \in Key : Renew(k)
    \/ \E p \in Staff : StaffRequests(p)
    \/ \E p \in Person, k \in Key : ReadUpload(p, k) \/ ReadComplete(p, k) \/ ReadDelete(p, k)
    \/ \E T \in SUBSET Conditional : UpdateProfile(T)

Next ==
    \/ operations < MaxOperations /\ operations' = operations + 1 /\ Begin
    \/ /\ \/ \E p \in Person : Finish(p)
          \/ \E p \in Staff : Synchronize(p)
          \/ SynchronizeCreates
       /\ UNCHANGED operations

Spec == Init /\ [][Next]_vars

-----------------------------------------------------------------------------
(* Properties *)

\* The rows of the dossiers, and what calls hold.
TypeOK ==
    /\ \A r \in Request : request[r].context \in {"admission", "other", "renewal"}
    /\ \A k \in Key :
          /\ item[k].status \in ItemStatus \cup {"absent"}
          /\ item[k].requirement \in {"required", "optional"} /\ item[k].policy \in BOOLEAN
          /\ Versions(k) <= MaxVersion
          /\ Exists(k) => request[k[1]].status # "absent"
          /\ \A v \in 1..Versions(k) :
                /\ submission[k][v].status \in ItemStatus \ {"pending-upload", "waived"}
                /\ submission[k][v].status \in {"pending-human-review", "approved", "rejected"}
                     => submission[k][v].validated
    /\ profile \subseteq Conditional /\ updates \in 0..MaxProfiles
    /\ receipt \in {"none", "due", "done"}

\* "Only an authorised reviewer approves, refuses or asks again": while nobody sets its
\* policy by hand, an item says what became of its current version, whoever sends,
\* validates, removes and reviews at the same time.
StatusIsEarned ==
    \A k \in Key :
        ~item[k].policy /\ item[k].status \in (Open \ {"pending-upload"}) \cup {"approved"} =>
            Versions(k) > 0 /\ Current(k).status = item[k].status

\* Two reviewers, or a reviewer and a removal, never decide one version twice: what was
\* decided stays until it is removed or settled by another dossier.
Decided == {"approved", "rejected", "resubmission-required"}
DecisionStands ==
    [][\A k \in Key : \A v \in 1..Versions(k) :
          submission[k][v].status \in Decided =>
              submission'[k][v].status \in {submission[k][v].status, "cancelled"}]_vars
=============================================================================
