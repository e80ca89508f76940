--------------------------- MODULE MCHumanConduct ---------------------------
(***************************************************************************)
(* The work of an office on small instances: one conversation, one article *)
(* of two versions, one customer, two accounts with roles, and one account *)
(* with two persons.                                                       *)
(***************************************************************************)
EXTENDS Office, TLC

CONSTANTS
    alice, bob, sales, care,            \* attendants and their departments
    s1, e1, key, v1, v2, m1,            \* a customer, an execution and what it says
    c1, c2, c3, c4, c5, c6,             \* commands
    a1, p1, number                      \* an account, a person and an identifier

OwnDepartment == (alice :> {sales}) @@ (bob :> {care})

\* A suggestion of an execution and its repeat, one of a person, and three decisions.
Suggests(actor, value, evidence) ==
    [kind |-> "suggest", session |-> s1, actor |-> actor, key |-> key, value |-> value,
     evidence |-> evidence]
Decides(id, answer) == [kind |-> "decide", id |-> id, actor |-> alice, decision |-> answer]
Requests ==
    (c1 :> Suggests(e1, v1, m1)) @@ (c2 :> Suggests(e1, v1, None))
    @@ (c3 :> Suggests(alice, v2, None)) @@ (c4 :> Decides(1, "approved"))
    @@ (c5 :> Decides(2, "approved")) @@ (c6 :> Decides(1, "ignored"))

OfExecution == e1 :> s1
OfMessage == m1 :> s1

\* One person has the address of the account.
OwnMail == {<<a1, p1>>}

\* Updates of the role, and of the identifier.
Promotions == [role : {"technology", "administrator"}, cpf : {Same}]
Identifiers == [role : {Same}, cpf : {number}]

\* The last version of the conversation is followed while one attendant is in it.
OneAttendant == conv.version = MaxVersion => \E u \in User : view[u].conv = 0

\* Followed apart: two updates of accounts, and what suspends or removes an account; new
\* work of a customer, and the end of an account or of an execution.
UpdatesAlone ==
    part = "roles" /\ (\A c \in AccountCommand : asked[c] # None) =>
        /\ \A k \in Call : update[k].step \notin {"status", "delete"}
        /\ \A u \in Account : user[u].status # "suspended" /\ user[u].life # "deleted"
WorkAlone == work # << >> => active = Reviewer /\ running = Execution

OfficeSymmetry == Permutations(Call) \cup Permutations(AccountCommand)

-----------------------------------------------------------------------------
\* What the documents say of articles and the code does not do.

\* An edit replaces the text that its editor saw.
EditsAreSeen == K!EditsAreSeen

\* A publication leaves its version published.
PublicationPublishes == K!PublicationPublishes
=============================================================================
