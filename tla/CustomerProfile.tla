-------------------------- MODULE CustomerProfile --------------------------
(***************************************************************************)
(* What the company remembers of one WhatsApp contact: the suggestions an  *)
(* agent or a person writes during a session, the decision of a person     *)
(* about each of them, and the summary an agent or the panel loads         *)
(* (prisma-customer-context.repository.ts, customer-context.use-case.ts,   *)
(* customer-context-policy.ts).                                            *)
(*                                                                         *)
(* Both writes run at the default isolation of the database under an       *)
(* advisory lock of their command: a repeat waits for its first execution  *)
(* and is answered from the audit log.  Decisions of one suggestion also   *)
(* wait for each other.  The summary reads each list with its own query.   *)
(*                                                                         *)
(* Left out: texts and their limits (values are safe ones: the use case    *)
(* refuses the others), rationale, instructions of the registration,       *)
(* related companies, open cases, the pages of single sections.  An agent  *)
(* here is the runtime of the API itself: the path of a service identity   *)
(* differs in not requiring its execution to be running.  A row's          *)
(* updatedAt moves only with its decision, so comparing it says what the   *)
(* status says.  One clock stamps the decisions.                           *)
(***************************************************************************)
EXTENDS Naturals, Sequences, FiniteSets

CONSTANTS
    Session,        \* service sessions of the contact
    Registration,   \* registrations a session may confirm as the customer
    User,           \* people of the company
    Execution,      \* agent executions
    SessionOf,      \* the session of each execution
    Key,            \* profile keys
    Value,          \* suggested values
    Evidence,       \* messages a suggestion may cite
    MessageOf,      \* the session of each message
    Work,           \* services and quotes of the contact
    Quote,          \* those that are quotes
    Call,           \* requests under way at one time
    Command,        \* identifiers of commands
    Asked,          \* what each command of a client asks for
    MaxSuggestions, \* bound on the suggestions kept
    MaxTime,        \* bound on the times of decisions
    ProfileLimit,   \* items of the profile in a summary
    RecentLimit,    \* services, and quotes, in a summary
    PendingLimit,   \* pending items in a summary
    None            \* nothing

\* The profile query reads this many rows for each item it may return.
Scan == ProfileLimit * 4

Suggests == [kind : {"suggest"}, session : Session, actor : User \cup Execution,
             key : Key, value : Value, evidence : Evidence \cup {None}]
Decides == [kind : {"decide"}, id : 1..MaxSuggestions, actor : User,
            decision : {"approved", "ignored"}]

ProfileAssumption ==
    /\ Quote \subseteq Work
    /\ SessionOf \in [Execution -> Session]
    /\ MessageOf \in [Evidence -> Session]
    /\ Asked \in [Command -> Suggests \cup Decides]
    /\ ProfileLimit \in Nat \ {0} /\ RecentLimit \in Nat /\ PendingLimit \in Nat
    /\ None \notin Registration \cup Evidence

VARIABLES
    suggestion,   \* rows, in the order they were created
    audit,        \* commands executed and the suggestion each one answered with
    active,       \* people whose account is active
    running,      \* executions still running
    confirmed,    \* the registration each session confirmed
    work,         \* services and quotes, the latest updated first
    closed,       \* those that are closed
    call,         \* requests under way
    shown         \* the last summary answered

vars == <<suggestion, audit, active, running, confirmed, work, closed, call, shown>>
world == <<active, running, confirmed, work, closed>>

Row == [session : Session, registration : Registration \cup {None},
        actor : User \cup Execution, key : Key, value : Value,
        status : {"pending", "approved", "ignored"}, reviewer : User \cup {None},
        reviewedAt : Nat]
Idle == [step |-> "idle"]
Summary == [profile : [Key -> Nat], recent : SUBSET Work, pending : SUBSET Work]

TypeOK ==
    /\ suggestion \in Seq(Row)
    /\ audit \in [Command -> 0..MaxSuggestions]
    /\ active \subseteq User /\ running \subseteq Execution
    /\ confirmed \in [Session -> Registration \cup {None}]
    /\ work \in Seq(Work) /\ closed \subseteq Work
    /\ DOMAIN call = Call
    /\ shown \in Summary

Init ==
    /\ suggestion = <<>>
    /\ audit = [c \in Command |-> 0]
    /\ active = User /\ running = Execution
    /\ confirmed = [s \in Session |-> None]
    /\ work = <<>> /\ closed = {}
    /\ call = [k \in Call |-> Idle]
    /\ shown = [profile |-> [x \in Key |-> 0], recent |-> {}, pending |-> {}]

-----------------------------------------------------------------------------
\* Requests

Step(k, next) == call' = [call EXCEPT ![k] = next]
Ids == DOMAIN suggestion
Pending(i) == suggestion[i].status = "pending"

\* The advisory locks: of a command, and of a suggestion being decided.
CommandIsFree(c) ==
    \A k \in Call : call[k].step \in {"create", "decide", "write"} => call[k].command # c
SuggestionIsFree(i) ==
    \A k \in Call : call[k].step = "write" => Asked[call[k].command].id # i

\* A request that a check refuses answers an error and writes nothing: where
\* that is all a request does, no step stands for it.

-----------------------------------------------------------------------------
\* Suggestions

\* The suggestion this execution already made for the key.
Earlier(a, key) ==
    {i \in Ids : a \in Execution /\ suggestion[i].actor = a /\ suggestion[i].key = key}

BelongsToSession(r) ==
    /\ r.actor \in User => r.actor \in active
    /\ r.actor \in Execution =>
         SessionOf[r.actor] = r.session /\ r.actor \in running
    /\ r.evidence # None => MessageOf[r.evidence] = r.session

SameSuggestion(i, r) ==
    suggestion[i].session = r.session /\ suggestion[i].value = r.value /\ Pending(i)

\* Lock of the command, replay from the audit log, checks of the origin, and
\* the read of an earlier suggestion of the same execution: the same one, still
\* pending, will be the answer, another one is a conflict.
BeginSuggestion(k, c) ==
    LET r == Asked[c]
        earlier == Earlier(r.actor, r.key) IN
    /\ call[k].step = "idle" /\ r.kind = "suggest"
    /\ CommandIsFree(c) /\ audit[c] = 0
    /\ BelongsToSession(r)
    /\ \A i \in earlier : SameSuggestion(i, r)
    /\ Step(k, [step |-> "create", command |-> c,
                identity |-> confirmed[r.session], earlier |-> earlier])
    /\ UNCHANGED <<suggestion, audit, shown>> /\ UNCHANGED world

New(r, identity) ==
    [session |-> r.session, registration |-> identity, actor |-> r.actor,
     key |-> r.key, value |-> r.value, status |-> "pending", reviewer |-> None,
     reviewedAt |-> 0]

AlreadySuggested(a, key) == Earlier(a, key) # {}

\* The row and its audit entry commit together.
InsertSuggestion(k) ==
    /\ call[k].step = "create" /\ call[k].earlier = {}
    /\ LET c == call[k].command
           r == Asked[c] IN
       IF AlreadySuggested(r.actor, r.key)
       THEN UNCHANGED <<suggestion, audit>>
       ELSE /\ Len(suggestion) < MaxSuggestions
            /\ suggestion' = Append(suggestion, New(r, call[k].identity))
            /\ audit' = [audit EXCEPT ![c] = Len(suggestion) + 1]
    /\ Step(k, Idle)
    /\ UNCHANGED shown /\ UNCHANGED world

AnswerEarlier(k) ==
    /\ call[k].step = "create"
    /\ \E i \in call[k].earlier : audit' = [audit EXCEPT ![call[k].command] = i]
    /\ Step(k, Idle)
    /\ UNCHANGED <<suggestion, shown>> /\ UNCHANGED world

-----------------------------------------------------------------------------
\* Decisions

\* Lock of the command, replay, and the check of the person.
BeginDecision(k, c) ==
    /\ call[k].step = "idle" /\ Asked[c].kind = "decide"
    /\ CommandIsFree(c) /\ audit[c] = 0
    /\ Asked[c].actor \in active
    /\ Step(k, [step |-> "decide", command |-> c])
    /\ UNCHANGED <<suggestion, audit, shown>> /\ UNCHANGED world

\* A time later than those of the decisions taken so far, committed or not.
Taken == {suggestion[i].reviewedAt : i \in Ids}
           \cup {call[k].at : k \in {j \in Call : call[j].step = "write"}}
IsNow(t) == t \in 1..MaxTime /\ (\A u \in Taken : u < t) /\ (t = 1 \/ t - 1 \in Taken)

\* Mutant: any suggestion may be decided, as without the condition on the status.
BadMayDecide(i) == i \in Ids
MayDecide(i) == i \in Ids /\ Pending(i)

\* Under the lock of the suggestion: it is read, must be pending, and the
\* decision takes its time.
ReadSuggestion(k) ==
    /\ call[k].step = "decide"
    /\ LET i == Asked[call[k].command].id IN
       /\ SuggestionIsFree(i)
       /\ IF MayDecide(i)
          THEN \E t \in 1..MaxTime :
                 IsNow(t) /\ Step(k, [step |-> "write", command |-> call[k].command, at |-> t])
          ELSE Step(k, Idle)
    /\ UNCHANGED <<suggestion, audit, shown>> /\ UNCHANGED world

\* The conditional update and its audit entry.
WriteDecision(k) ==
    /\ call[k].step = "write"
    /\ LET c == call[k].command
           i == Asked[c].id IN
       /\ IF MayDecide(i)
          THEN /\ suggestion' = [suggestion EXCEPT
                     ![i].status = Asked[c].decision, ![i].reviewer = Asked[c].actor,
                     ![i].reviewedAt = call[k].at]
               /\ audit' = [audit EXCEPT ![c] = i]
          ELSE UNCHANGED <<suggestion, audit>>
    /\ Step(k, Idle)
    /\ UNCHANGED shown /\ UNCHANGED world

\* The transaction of a request is rolled back: its connection or process ends.
Lose(k) ==
    /\ call[k].step # "idle"
    /\ Step(k, Idle)
    /\ UNCHANGED <<suggestion, audit, shown>> /\ UNCHANGED world

-----------------------------------------------------------------------------
\* The summary

Before(i, j) == suggestion[i].reviewedAt > suggestion[j].reviewedAt

Approved == {i \in Ids : suggestion[i].status = "approved"}
Rank(i) == Cardinality({j \in Approved : Before(j, i)})

\* The scan keeps the first row of each key, up to the limit of the summary.
FirstOfKey(i) ==
    \A j \in Approved : Before(j, i) => suggestion[j].key # suggestion[i].key
Profile ==
    LET first == {i \in Approved : Rank(i) < Scan /\ FirstOfKey(i)}
        kept == {i \in first : Cardinality({j \in first : Before(j, i)}) < ProfileLimit} IN
    [x \in Key |-> IF \E i \in kept : suggestion[i].key = x
                   THEN CHOOSE i \in kept : suggestion[i].key = x
                   ELSE 0]

\* The services, or the quotes, updated last; what is pending is chosen among
\* them, the latest first.
Latest(items) ==
    {w \in items : \E n \in DOMAIN work :
        /\ work[n] = w
        /\ Cardinality({m \in 1..(n - 1) : work[m] \in items}) < RecentLimit}
FirstPending(items) ==
    {w \in items : \E n \in DOMAIN work :
        work[n] = w /\ Cardinality({m \in 1..(n - 1) : work[m] \in items}) < PendingLimit}

\* The profile is one query; services and quotes are two more.
LoadProfile(k) ==
    /\ call[k].step = "idle"
    /\ shown' = [shown EXCEPT !.profile = Profile]
    /\ Step(k, [step |-> "services"])
    /\ UNCHANGED <<suggestion, audit>> /\ UNCHANGED world

LoadServices(k) ==
    /\ call[k].step = "services"
    /\ Step(k, [step |-> "quotes", services |-> Latest(Work \ Quote),
                open |-> Latest(Work \ Quote) \ closed])
    /\ UNCHANGED <<suggestion, audit, shown>> /\ UNCHANGED world

LoadQuotes(k) ==
    /\ call[k].step = "quotes"
    /\ shown' = [shown EXCEPT
           !.recent = call[k].services \cup Latest(Quote),
           !.pending = FirstPending(call[k].open \cup (Latest(Quote) \ closed))]
    /\ Step(k, Idle)
    /\ UNCHANGED <<suggestion, audit>> /\ UNCHANGED world

-----------------------------------------------------------------------------
\* What other parts of the system do

Worlds(a, r, c, w, d) ==
    /\ active' = a /\ running' = r /\ confirmed' = c /\ work' = w /\ closed' = d
    /\ UNCHANGED <<suggestion, audit, call, shown>>

Deactivate(u) ==
    u \in active /\ Worlds(active \ {u}, running, confirmed, work, closed)

EndExecution(e) ==
    e \in running /\ Worlds(active, running \ {e}, confirmed, work, closed)

ConfirmIdentity(s, x) ==
    confirmed[s] = None /\ Worlds(active, running, [confirmed EXCEPT ![s] = x], work, closed)

\* A service or quote is written: it becomes the latest, and may end.
UpdateWork(w, ends) ==
    /\ w \notin closed
    /\ Worlds(active, running, confirmed,
              <<w>> \o SelectSeq(work, LAMBDA v : v # w),
              IF ends THEN closed \cup {w} ELSE closed)

Request(k) ==
    \/ \E c \in Command : BeginSuggestion(k, c) \/ BeginDecision(k, c)
    \/ InsertSuggestion(k) \/ AnswerEarlier(k)
    \/ ReadSuggestion(k) \/ WriteDecision(k) \/ Lose(k)
    \/ LoadProfile(k) \/ LoadServices(k) \/ LoadQuotes(k)

Next ==
    \/ \E k \in Call : Request(k)
    \/ \E u \in User : Deactivate(u)
    \/ \E e \in Execution : EndExecution(e)
    \/ \E s \in Session, x \in Registration : ConfirmIdentity(s, x)
    \/ \E w \in Work, ends \in BOOLEAN : UpdateWork(w, ends)

Spec == Init /\ [][Next]_vars

-----------------------------------------------------------------------------
\* Properties

\* An execution leaves one suggestion of each key, whatever its retries under
\* other commands and whatever people decide meanwhile.
OneSuggestionPerExecution ==
    \A i, j \in Ids :
        (/\ suggestion[i].actor = suggestion[j].actor /\ suggestion[i].actor \in Execution
         /\ suggestion[i].key = suggestion[j].key) => i = j

\* A decision is taken once: no repeat, late or concurrent request changes a
\* suggestion that was approved or ignored.
KeepsDecisions ==
    \A i \in Ids : ~Pending(i) => suggestion'[i] = suggestion[i]
DecidedOnce == [][KeepsDecisions]_vars

\* The memory of a key never goes back: a summary that shows a value for a key
\* shows one that was decided no earlier than the one shown before.
MovesForward ==
    \A x \in Key :
        (shown.profile[x] # 0 /\ shown'.profile[x] # 0) =>
            suggestion[shown'.profile[x]].reviewedAt >= suggestion[shown.profile[x]].reviewedAt
MemoryMovesForward == [][MovesForward]_vars

=============================================================================
