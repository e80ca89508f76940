------------------------- MODULE PreAdmissionAccess -------------------------
(***************************************************************************)
(* The links that show a candidate the documents an admission asks for     *)
(* (prisma-pre-admission-access.repository.ts and                          *)
(* pre-admission-access.service.ts).                                       *)
(*                                                                         *)
(* Staff create a link for a person, renew it and revoke it; each command  *)
(* runs in one serializable transaction.  A transaction that collides with *)
(* another, or finds the link changed, does not fail at once: it looks     *)
(* outside the transaction whether its command was executed meanwhile.     *)
(* The token of a link is derived from the link and its generation; the    *)
(* row keeps the hash of the last one issued.                              *)
(*                                                                         *)
(* Left out: the requested document types, a snapshot that never changes;  *)
(* the three attempts of a transaction, which only delay a collision.      *)
(***************************************************************************)
EXTENDS Naturals

CONSTANTS
    Person,      \* persons of the main registry
    Access,      \* links that can be created
    Manager,     \* staff of human resources
    Call,        \* requests under way at one time
    Command,     \* command identifiers
    Validity,    \* how long a link lasts
    MaxVersion,  \* bound on the version of a link
    MaxTime,     \* bound on the clock
    None         \* no link, execution or answer

PreAdmissionAssumption ==
    /\ {Validity, MaxVersion, MaxTime} \subseteq Nat \ {0}
    /\ None \notin Person \cup Access

VARIABLES
    access,   \* row of each link
    history,  \* executed commands
    active,   \* persons that are active
    manages,  \* staff that may manage the links now
    now,      \* the clock
    call      \* requests under way

vars == <<access, history, active, manages, now, call>>

Row == [person : Person, version : 1..MaxVersion, hash : 1..MaxVersion,
        generation : 1..MaxVersion, expires : Nat, revoked : BOOLEAN]
Idle == [step |-> "idle"]

TypeOK ==
    /\ access \in [Access -> Row \cup {None}]
    /\ DOMAIN history = Command
    /\ active \subseteq Person /\ manages \subseteq Manager
    /\ now \in 0..MaxTime
    /\ \A k \in Call : call[k].step \in {"idle", "asked", "collided"}

Init ==
    /\ access = [a \in Access |-> None]
    /\ history = [c \in Command |-> None]
    /\ active = Person /\ manages = Manager
    /\ now = 0
    /\ call = [k \in Call |-> Idle]

-----------------------------------------------------------------------------
\* Helpers

Exists(a) == access[a] # None
Open(a) == Exists(a) /\ ~access[a].revoked
OpenElsewhere(p, a) == \E b \in Access \ {a} : Open(b) /\ access[b].person = p

\* A token opens its link while it is the one whose hash the row holds and the
\* generation the row is at.
Usable(a, g) ==
    Open(a) /\ access[a].hash = g /\ access[a].generation = g

Resolves(a, g) ==
    Usable(a, g) /\ now < access[a].expires /\ access[a].person \in active

-----------------------------------------------------------------------------
\* A request

\* The controller knows the authority of the session; a version is one the
\* panel has shown, and the deadline is counted from the request.
Begin(k, c, by, request) ==
    /\ call[k].step = "idle" /\ by \in manages
    /\ call' = [call EXCEPT ![k] = [step |-> "asked", command |-> c, by |-> by,
                                    request |-> request, expires |-> now + Validity]]
    /\ UNCHANGED <<access, history, active, manages, now>>

Shown(a) == IF Exists(a) THEN 1..access[a].version ELSE {}

AskCreate(k, c, by, p) == Begin(k, c, by, [action |-> "created", person |-> p])

AskRenew(k, c, by, a, v) ==
    /\ v \in Shown(a)
    /\ Begin(k, c, by, [action |-> "renewed", access |-> a, expected |-> v])

AskRevoke(k, c, by, a, v) ==
    /\ v \in Shown(a)
    /\ Begin(k, c, by, [action |-> "revoked", access |-> a, expected |-> v])

Finish(k) == call' = [call EXCEPT ![k] = Idle]
Unexecuted(k) ==
    /\ call[k].step = "asked"
    /\ call[k].by \in manages
    /\ history[call[k].command] = None
Executes(k, a, row) ==
    LET q == call[k] IN
    /\ access' = [access EXCEPT ![a] = row]
    /\ history' = [history EXCEPT ![q.command] =
          [request |-> q.request, by |-> q.by, access |-> a, version |-> row.version,
           generation |-> row.generation, expires |-> row.expires,
           revoked |-> row.revoked]]
    /\ Finish(k)
    /\ UNCHANGED <<active, manages, now>>

Create(k, a) ==
    LET q == call[k] IN
    /\ Unexecuted(k) /\ q.request.action = "created"
    /\ ~Exists(a) /\ q.request.person \in active
    /\ ~OpenElsewhere(q.request.person, a)
    /\ Executes(k, a, [person |-> q.request.person, version |-> 1, hash |-> 1,
                       generation |-> 1, expires |-> q.expires, revoked |-> FALSE])

StillAsRead(a, q) == access[a].version = q.request.expected

Renewed(row, q) ==
    LET next == q.request.expected + 1 IN
    [row EXCEPT !.version = next, !.generation = next, !.hash = next,
                !.expires = q.expires, !.revoked = FALSE]

\* A revocation moves the generation and leaves the hash.
Revoked(row, q) ==
    LET next == q.request.expected + 1 IN
    [row EXCEPT !.version = next, !.generation = next, !.revoked = TRUE]

Changeable(k) ==
    /\ Unexecuted(k) /\ call[k].request.action # "created"
    /\ StillAsRead(call[k].request.access, call[k])
    /\ call[k].request.expected < MaxVersion

Renew(k) ==
    LET q == call[k]
        a == q.request.access IN
    /\ Changeable(k) /\ q.request.action = "renewed"
    /\ ~OpenElsewhere(access[a].person, a)
    /\ Executes(k, a, Renewed(access[a], q))

Revoke(k) ==
    LET q == call[k]
        a == q.request.access IN
    /\ Changeable(k) /\ q.request.action = "revoked"
    /\ Executes(k, a, Revoked(access[a], q))

\* The answer of a repeated command is the one of its execution, or a conflict.
Repeat(k) ==
    /\ call[k].step = "asked" /\ call[k].by \in manages
    /\ history[call[k].command] # None
    /\ Finish(k)
    /\ UNCHANGED <<access, history, active, manages, now>>

Forbidden(k) ==
    /\ call[k].step = "asked" /\ call[k].by \notin manages
    /\ Finish(k)
    /\ UNCHANGED <<access, history, active, manages, now>>

\* The person is not there, or another link of the person is open on renewal.
Refused(k) ==
    LET q == call[k] IN
    /\ Unexecuted(k)
    /\ \/ q.request.action = "created" /\ q.request.person \notin active
       \/ /\ q.request.action = "renewed" /\ StillAsRead(q.request.access, q)
          /\ OpenElsewhere(access[q.request.access].person, q.request.access)
    /\ Finish(k)
    /\ UNCHANGED <<access, history, active, manages, now>>

\* The link is not as it was read, the person has one already, or another
\* transaction collided with this one; then the command may have been executed.
Collides(k) ==
    LET q == call[k] IN
    /\ Unexecuted(k)
    /\ \/ q.request.action = "created" /\ OpenElsewhere(q.request.person, None)
       \/ q.request.action # "created" /\ ~StillAsRead(q.request.access, q)
       \/ \E j \in Call \ {k} : call[j].step # "idle"
    /\ call' = [call EXCEPT ![k].step = "collided"]
    /\ UNCHANGED <<access, history, active, manages, now>>

\* Outside the transaction: the answer of the execution if the same command was
\* executed meanwhile, a conflict otherwise.
LookAgain(k) ==
    /\ call[k].step = "collided"
    /\ Finish(k)
    /\ UNCHANGED <<access, history, active, manages, now>>

-----------------------------------------------------------------------------
\* What else changes

Authority(m) ==
    /\ manages' = IF m \in manages THEN manages \ {m} ELSE manages \cup {m}
    /\ UNCHANGED <<access, history, active, now, call>>

PersonStatus(p) ==
    /\ active' = IF p \in active THEN active \ {p} ELSE active \cup {p}
    /\ UNCHANGED <<access, history, manages, now, call>>

Tick ==
    /\ now < MaxTime
    /\ now' = now + 1
    /\ UNCHANGED <<access, history, active, manages, call>>

Next ==
    \/ \E k \in Call, c \in Command, m \in Manager :
          \/ \E p \in Person : AskCreate(k, c, m, p)
          \/ \E a \in Access, v \in 1..MaxVersion :
                AskRenew(k, c, m, a, v) \/ AskRevoke(k, c, m, a, v)
    \/ \E k \in Call :
          \/ \E a \in Access : Create(k, a)
          \/ Renew(k) \/ Revoke(k) \/ Repeat(k) \/ Forbidden(k) \/ Refused(k)
          \/ Collides(k) \/ LookAgain(k)
    \/ \E m \in Manager : Authority(m)
    \/ \E p \in Person : PersonStatus(p)
    \/ Tick

Spec == Init /\ [][Next]_vars

-----------------------------------------------------------------------------
\* docs/document-management.md: renewing rotates the token and revoking blocks
\* it at once.  A token that was rotated or revoked never opens its link again,
\* whatever requests that read the link earlier still do.
RetiresTokens ==
    \A a \in Access : \A g \in 1..MaxVersion :
        (Exists(a) /\ g <= access[a].version /\ ~Usable(a, g)) => ~Resolves(a, g)'

TokensStayRetired == [][RetiresTokens]_vars
=============================================================================
