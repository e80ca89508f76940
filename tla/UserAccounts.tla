---------------------------- MODULE UserAccounts ----------------------------
(***************************************************************************)
(* The accounts of one company and the person each account belongs to      *)
(* (prisma-users.repository.ts, the use cases of users/ and                *)
(* user-person-matching.service.ts).                                       *)
(*                                                                         *)
(* A request reads the target and its responsible, decides, and writes in  *)
(* a transaction of its own.  An update carries a command: the transaction *)
(* answers a command that was already executed, and otherwise requires     *)
(* both accounts to be as they were read.  A change of status carries no   *)
(* command and no version.  Serializable transactions are single steps;    *)
(* the association of a person runs at the default isolation and is two.   *)
(*                                                                         *)
(* Left out: repeats of an association; passwords, links, sessions and     *)
(* pictures; departments and permission codes (an account is an            *)
(* administrator, of the technology team or of the document portal);       *)
(* fields nothing else depends on; the e-mail of an account, which here    *)
(* never changes.                                                          *)
(***************************************************************************)
EXTENDS Naturals, FiniteSets

CONSTANTS
    User,       \* accounts
    First,      \* the administrators the company starts with
    Person,     \* natural persons of the registry
    Cpf,        \* tax identifiers
    SameMail,   \* pairs of an account and a person that share an e-mail
    Call,       \* requests under way at one time
    Command,    \* identifiers of update commands
    Change,     \* updates a panel asks for: [role, cpf]
    Same,       \* a field an update does not carry
    None        \* no identifier, person or request

Role == {"administrator", "technology", "portal"}
Status == {"active", "inactive", "suspended"}

\* What an update command asks for, and the version the panel read.
Requests == [actor : User, target : User, change : Change, expected : Nat]

AccountAssumption ==
    /\ IsFiniteSet(User) /\ First \subseteq User /\ First # {}
    /\ SameMail \subseteq User \X Person
    /\ Change \subseteq [role : Role \cup {Same}, cpf : Cpf \cup {Same}]
    /\ None \notin Person \cup Cpf \cup Requests

VARIABLES
    user,      \* row of each account
    known,     \* identifier of each registered person; absent persons are None
    asked,     \* what each update command asks for
    history,   \* update commands that were executed
    call       \* requests under way

vars == <<user, known, asked, history, call>>

Row == [life : {"absent", "live", "deleted"}, role : Role, status : Status,
        due : BOOLEAN, cpf : Cpf \cup {None}, version : Nat,
        person : Person \cup {None}]
Idle == [step |-> "idle"]
Absent == [life |-> "absent", role |-> "portal", status |-> "inactive",
           due |-> FALSE, cpf |-> None, version |-> 1, person |-> None]

TypeOK ==
    /\ user \in [User -> Row]
    /\ asked \in [Command -> Requests \cup {None}]
    /\ history \subseteq {c \in Command : asked[c] # None}
    /\ DOMAIN call = Call

Init ==
    /\ user = [u \in User |->
                 IF u \in First
                 THEN [Absent EXCEPT !.life = "live", !.role = "administrator",
                                     !.status = "active"]
                 ELSE Absent]
    /\ known \in {f \in [Person -> Cpf \cup {None, Same}] :
                    \A p, q \in Person : (f[p] = f[q] /\ f[p] \in Cpf) => p = q}
    /\ asked = [c \in Command |-> None]
    /\ history = {}
    /\ call = [k \in Call |-> Idle]

-----------------------------------------------------------------------------
\* Helpers

\* A person without identifier is registered with Same, an absent one is None.
Registered == {p \in Person : known[p] # None}

Active(row) == row.life = "live" /\ row.status = "active"
ActiveAdministrator(row) == row.role = "administrator" /\ row.status = "active"
Administrators == {u \in User : ActiveAdministrator(user[u])}

\* A read of an account first ends its suspension when it is over.
Awake(U) ==
    [u \in User |->
       IF u \in U /\ user[u].status = "suspended" /\ user[u].due
          /\ user[u].life = "live"
       THEN [user[u] EXCEPT !.status = "active", !.due = FALSE]
       ELSE user[u]]

\* Every write of an account moves the time other requests read it at.
Moved(written) ==
    {u \in User : written[u] # user[u]}
Writing(k, written, next) ==
    /\ user' = written
    /\ call' = [j \in Call |->
                  IF j = k THEN next
                  ELSE IF call[j].step = "idle" THEN call[j]
                  ELSE [call[j] EXCEPT !.moved = @ \cup Moved(written)]]

\* Who may manage an account: administrators anyone, the technology team
\* those without wide authority and never themselves.
MayAccess(a, u, us) ==
    /\ us[u].life = "live" /\ Active(us[a])
    /\ \/ us[a].role = "administrator"
       \/ us[a].role = "technology" /\ us[u].role # "administrator" /\ u # a

Taken(cpf, u) ==
    cpf \in Cpf /\ \E v \in User \ {u} : user[v].life # "absent" /\ user[v].cpf = cpf

Final(field, current) == IF field = Same THEN current ELSE field

-----------------------------------------------------------------------------
\* Update of an account

\* Rules on administrators: only another administrator changes the flag or the
\* account, and nobody drops the own flag.
MayChange(a, u, change, us) ==
    LET final == Final(change.role, us[u].role) IN
    (us[u].role = "administrator" \/ final = "administrator") =>
        /\ us[a].role = "administrator"
        /\ a = u => final = "administrator"

\* A repeat carries the same data; it passes the checks of its day and stops
\* there when its command is known.
AskUpdate(k, c, a, u, change, expected) ==
    LET us == Awake({a, u})
        request == [actor |-> a, target |-> u, change |-> change,
                    expected |-> expected] IN
    /\ call[k].step = "idle"
    /\ asked[c] \in {None, request}
    /\ asked[c] = None => expected \in {us[u].version, us[u].version - 1} \ {0}
    /\ MayAccess(a, u, us)
    /\ asked' = [asked EXCEPT ![c] = request]
    /\ Writing(k, us, [step |-> "asked", command |-> c, seen |-> us[u],
                       allowed |-> MayChange(a, u, change, us), moved |-> {}])
    /\ UNCHANGED <<known, history>>

Request(k) == asked[call[k].command]

\* Command answered before, or the responsible lost the access, or the
\* change is refused; otherwise on to the writing transaction.
LookUp(k) ==
    /\ call[k].step = "asked"
    /\ call' = [call EXCEPT ![k] =
         IF \/ ~Active(user[Request(k).actor])
            \/ call[k].command \in history
            \/ ~call[k].allowed
            \/ Taken(Request(k).change.cpf, Request(k).target)
         THEN Idle ELSE [@ EXCEPT !.step = "ready"]]
    /\ UNCHANGED <<user, known, asked, history>>

\* An update that takes the flag from an active administrator counts them.
Demotes(k) ==
    /\ ActiveAdministrator(call[k].seen)
    /\ Final(Request(k).change.role, "administrator") # "administrator"

AsRead(k) ==
    LET r == Request(k) IN
    /\ call[k].moved \cap {r.actor, r.target} = {}
    /\ user[r.target].version = r.expected

Updated(row, change) ==
    [row EXCEPT !.role = Final(change.role, @), !.cpf = Final(change.cpf, @),
                !.version = @ + 1]

\* Mutant: a command that is already recorded is compared like a new one.
BadAnswered(k) == call[k].command \notin Command
Answered(k) == call[k].command \in history

Execute(k) ==
    LET r == Request(k) IN
    /\ call[k].step = "ready"
    /\ \/ /\ ~Active(user[r.actor])
          /\ call' = [call EXCEPT ![k] = Idle]
          /\ UNCHANGED <<user, history>>
       \/ /\ Active(user[r.actor]) /\ Answered(k)
          /\ call' = [call EXCEPT ![k] = [step |-> "idle"]]
          /\ UNCHANGED <<user, history>>
       \/ /\ Active(user[r.actor]) /\ ~Answered(k)
          /\ \/ ~AsRead(k)
             \/ Demotes(k) /\ Cardinality(Administrators) <= 1
             \/ Taken(r.change.cpf, r.target)
          /\ call' = [call EXCEPT ![k] = [step |-> "refused", command |-> @.command,
                                          moved |-> {}]]
          /\ UNCHANGED <<user, history>>
       \/ /\ Active(user[r.actor]) /\ ~Answered(k) /\ AsRead(k)
          /\ Demotes(k) => (/\ Cardinality(Administrators) > 1
                            /\ ActiveAdministrator(user[r.target]))
          /\ ~Taken(r.change.cpf, r.target)
          /\ Writing(k, [user EXCEPT ![r.target] = Updated(@, r.change)], Idle)
          /\ history' = history \cup {call[k].command}
    /\ UNCHANGED <<known, asked>>

Leave(k) ==
    /\ call[k].step = "refused"
    /\ call' = [call EXCEPT ![k] = Idle]
    /\ UNCHANGED <<user, known, asked, history>>

-----------------------------------------------------------------------------
\* Creation, status and deletion

\* Only administrators create administrators; the portal creates nobody.
MayCreate(responsible, role) ==
    /\ Active(responsible)
    /\ \/ responsible.role = "administrator"
       \/ responsible.role = "technology" /\ role # "administrator"

Opened(row, role, cpf) ==
    [row EXCEPT !.life = "live", !.role = role, !.status = "active", !.cpf = cpf]

Create(a, u, role, cpf) ==
    LET us == Awake({a}) IN
    /\ us[u].life = "absent"
    /\ MayCreate(us[a], role)
    /\ ~Taken(cpf, u)
    /\ user' = [us EXCEPT ![u] = Opened(@, role, cpf)]
    /\ call' = [j \in Call |->
                  IF call[j].step = "idle" THEN call[j]
                  ELSE [call[j] EXCEPT !.moved = @ \cup Moved(user')]]
    /\ UNCHANGED <<known, asked, history>>

AskStatus(k, a, u, status) ==
    LET us == Awake({a, u}) IN
    /\ call[k].step = "idle"
    /\ MayAccess(a, u, us)
    /\ (a = u) => status = "active"
    /\ Writing(k, us, [step |-> "status", target |-> u, status |-> status,
                       counted |-> (status # "active"
                                    /\ ActiveAdministrator(us[u])),
                       moved |-> {}])
    /\ UNCHANGED <<known, asked, history>>

MaySet(k) ==
    IF call[k].counted
    THEN /\ Cardinality(Administrators) > 1
         /\ ActiveAdministrator(user[call[k].target])
    ELSE \/ call[k].status = "active"
         \/ ~ActiveAdministrator(user[call[k].target])

SetStatus(k) ==
    LET u == call[k].target IN
    /\ call[k].step = "status"
    /\ IF MaySet(k)
       THEN Writing(k, [user EXCEPT ![u].status = call[k].status,
                                    ![u].due = FALSE], Idle)
       ELSE call' = [call EXCEPT ![k] = Idle] /\ UNCHANGED user
    /\ UNCHANGED <<known, asked, history>>

AskDelete(k, a, u) ==
    LET us == Awake({a, u}) IN
    /\ call[k].step = "idle"
    /\ Active(us[a]) /\ us[a].role = "administrator"
    /\ us[u].life = "live" /\ a # u
    /\ Writing(k, us, [step |-> "delete", target |-> u, moved |-> {}])
    /\ UNCHANGED <<known, asked, history>>

Delete(k) ==
    LET u == call[k].target IN
    /\ call[k].step = "delete"
    /\ IF /\ user[u].life = "live"
          /\ user[u].role = "administrator" => Cardinality(Administrators) > 1
       THEN Writing(k, [user EXCEPT ![u].life = "deleted", ![u].role = "portal",
                                    ![u].status = "inactive", ![u].due = FALSE,
                                    ![u].cpf = None], Idle)
       ELSE call' = [call EXCEPT ![k] = Idle] /\ UNCHANGED user
    /\ UNCHANGED <<known, asked, history>>

\* The list of accounts ends every suspension that is over.
List ==
    /\ Awake(User) # user
    /\ user' = Awake(User)
    /\ call' = [j \in Call |->
                  IF call[j].step = "idle" THEN call[j]
                  ELSE [call[j] EXCEPT !.moved = @ \cup Moved(user')]]
    /\ UNCHANGED <<known, asked, history>>

\* The end of a suspension is reached.
Expire(u) ==
    /\ user[u].status = "suspended" /\ ~user[u].due
    /\ user' = [user EXCEPT ![u].due = TRUE]
    /\ UNCHANGED <<known, asked, history, call>>

-----------------------------------------------------------------------------
\* The person of an account

\* The registry gives a person another identifier, or a new person one.
Register(p, cpf) ==
    /\ cpf # known[p] /\ cpf # None
    /\ cpf \in Cpf => \A q \in Person : known[q] # cpf
    /\ known' = [known EXCEPT ![p] = cpf]
    /\ UNCHANGED <<user, asked, history, call>>

Match(u) == {p \in Registered : user[u].cpf \in Cpf /\ known[p] = user[u].cpf}

\* Evidence for a person: the same identifier, or the same e-mail when a
\* human confirmed it.
Evidence(u, p, source) ==
    \/ source = "cpf" /\ user[u].cpf \in Cpf /\ known[p] = user[u].cpf
    \/ source = "mail" /\ <<u, p>> \in SameMail

\* Automatic: the one person with the identifier, or a provisional person
\* that takes the identifier as it was read.
Automatic(u) ==
    IF Match(u) # {}
    THEN [person |-> CHOOSE p \in Match(u) : TRUE, source |-> "cpf", cpf |-> None]
    ELSE [person |-> None, source |-> "provisional", cpf |-> user[u].cpf]
Chosen(u, p) ==
    [person |-> p, source |-> IF Evidence(u, p, "cpf") THEN "cpf" ELSE "mail",
     cpf |-> None]

AskPerson(k, u, choice) ==
    /\ call[k].step = "idle"
    /\ user[u].life = "live"
    /\ \/ choice = Automatic(u)
       \/ \E p \in Registered : /\ choice = Chosen(u, p)
                                /\ Evidence(u, p, choice.source)
    /\ call' = [call EXCEPT ![k] = [step |-> "person", target |-> u,
                                    choice |-> choice, moved |-> {}]]
    /\ UNCHANGED <<user, known, asked, history>>

\* First reads of the transaction: the account is free and the evidence is
\* still there.
CheckPerson(k) ==
    LET u == call[k].target
        choice == call[k].choice IN
    /\ call[k].step = "person"
    /\ call' = [call EXCEPT ![k] =
         IF /\ user[u].life = "live" /\ user[u].person = None
            /\ choice.person # None =>
                 /\ choice.person \in Registered
                 /\ Evidence(u, choice.person, choice.source)
         THEN [@ EXCEPT !.step = "checked"] ELSE Idle]
    /\ UNCHANGED <<user, known, asked, history>>

Free(u) == user[u].person = None

\* A provisional person takes the identifier it was chosen with, unless the
\* registry has it by now.
CanRegister(cpf) == cpf \in Cpf => \A q \in Person : known[q] # cpf
Provisional(p, cpf) ==
    /\ known[p] = None /\ CanRegister(cpf)
    /\ known' = [known EXCEPT ![p] = IF cpf \in Cpf THEN cpf ELSE Same]

Associate(k) ==
    LET u == call[k].target
        choice == call[k].choice IN
    /\ call[k].step = "checked" /\ Free(u)
    /\ \E p \in Person :
         /\ IF choice.person = None
            THEN Provisional(p, choice.cpf)
            ELSE p = choice.person /\ UNCHANGED known
         /\ Writing(k, [user EXCEPT ![u].person = p], Idle)
    /\ UNCHANGED <<asked, history>>

\* Another request associated the account or took the identifier.
AssociateFails(k) ==
    /\ call[k].step = "checked"
    /\ \/ ~Free(call[k].target)
       \/ call[k].choice.person = None /\ ~CanRegister(call[k].choice.cpf)
    /\ call' = [call EXCEPT ![k] = Idle]
    /\ UNCHANGED <<user, known, asked, history>>

-----------------------------------------------------------------------------
AsksPerson(k, u) ==
    \/ AskPerson(k, u, Automatic(u))
    \/ \E p \in Person : AskPerson(k, u, Chosen(u, p))

Asks(k) ==
    \/ \E c \in Command, a, u \in User, change \in Change,
          e \in 1..(Cardinality(Command) + 1) : AskUpdate(k, c, a, u, change, e)
    \/ \E a, u \in User, s \in Status : AskStatus(k, a, u, s)
    \/ \E a, u \in User : AskDelete(k, a, u)
    \/ \E u \in User : AsksPerson(k, u)

Proceeds(k) ==
    \/ LookUp(k) \/ Execute(k) \/ Leave(k)
    \/ SetStatus(k) \/ Delete(k)
    \/ CheckPerson(k) \/ Associate(k) \/ AssociateFails(k)

Next ==
    \/ \E k \in Call : Asks(k) \/ Proceeds(k)
    \/ \E a, u \in User, r \in Role, cpf \in Cpf \cup {None} :
         Create(a, u, r, cpf)
    \/ List
    \/ \E u \in User : Expire(u)
    \/ \E p \in Person, cpf \in Cpf \cup {Same} : Register(p, cpf)

Spec == Init /\ [][Next]_vars

-----------------------------------------------------------------------------
\* Properties

\* The company always keeps an active administrator: removals of two
\* administrators, and of one whose account changed after it was read, never
\* leave it without one (docs/architecture.md, the last active administrator).
AdministratorRemains == Administrators # {}

\* A request for a command that is already executed is never refused for
\* what the command itself changed: the executed command answers it.
AnswersRepeat ==
    \A k \in Call :
      (call[k].step = "ready" /\ call'[k].step = "refused") =>
        call[k].command \notin history

\* An update that gives or takes the flag of administrator is executed while
\* its responsible is an active administrator, whatever it was when read.
ChangesFlagAsAdministrator ==
    \A c \in history' \ history :
      LET r == asked[c]
          before == user[r.target].role
          after == user'[r.target].role IN
      ("administrator" \in {before, after} /\ before # after) =>
        ActiveAdministrator(user[r.actor])

\* The person of an account is set once, whatever requests for it overlap.
KeepsPerson ==
    \A u \in User : user[u].person # None => user'[u].person = user[u].person

=============================================================================
