\* Two attendants of two departments, two messages of which one asks for a quote, two
\* sessions; one document of two versions, four commands; one customer, one
\* execution, one person and six commands; two accounts and two updates of a role; one
\* account and two persons; two requests at a time.  One attendant at the last version of
\* the conversation (OneAttendant), updates apart from suspensions and removals
\* (UpdatesAlone), work apart from the end of an account or execution (WorkAlone).
\* Commands are used up and people owe nothing: the system may stop.
SPECIFICATION OfficeSpec
CONSTANTS
    alice = alice
    bob = bob
    sales = sales
    care = care
    s1 = s1
    e1 = e1
    key = key
    v1 = v1
    v2 = v2
    m1 = m1
    c1 = c1
    c2 = c2
    c3 = c3
    c4 = c4
    c5 = c5
    c6 = c6
    a1 = a1
    p1 = p1
    number = number
    User = {alice, bob}
    Wide = {}
    Department = {sales, care}
    DepartmentsOf <- OwnDepartment
    Commercial = sales
    Message = {x1, x2}
    NewQuote = {x1}
    Click = {k1, k2}
    MaxVersion = 5
    MaxSession = 2
    Call = {k1, k2}
    ArticleCommand = {c1, c2, c3, c4}
    Text = {t1, t2}
    ArticleVersions = 2
    Conversing = {s1}
    Registration = {r1}
    Reviewer = {alice}
    Execution = {e1}
    SessionOf <- OfExecution
    Key = {key}
    Value = {v1, v2}
    Cited = {m1}
    MessageOf <- OfMessage
    Work = {q1}
    Quote = {q1}
    ProfileCommand = {c1, c2, c3, c4, c5, c6}
    Asked <- Requests
    MaxSuggestions = 3
    MaxTime = 2
    ProfileLimit = 1
    RecentLimit = 1
    PendingLimit = 1
    Account = {a1, a2}
    First = {a1}
    Resident = {}
    Number = {}
    Mail = {}
    AccountCommand = {d1, d2}
    RoleChange <- Promotions
    Holder = {a1}
    Person = {p1, p2}
    Cpf = {number}
    SameMail <- OwnMail
    HolderCommand = {c1}
    CpfChange <- Identifiers
    Same = Same
    None = None
SYMMETRY OfficeSymmetry
CONSTRAINTS OneAttendant UpdatesAlone WorkAlone
CHECK_DEADLOCK FALSE
INVARIANTS OneConductor OffHoursOnce
PROPERTIES AssistantAsksAsApproved KnowledgeIsKept RequestsAreHonoured
