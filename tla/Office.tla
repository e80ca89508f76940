------------------------------- MODULE Office -------------------------------
(***************************************************************************)
(* What people do next to the assistant: the conduct of a conversation,    *)
(* the knowledge base, the profile of a customer and the accounts of the   *)
(* users.  The accounts come twice: as people with roles, and as users to  *)
(* be associated with registered persons.  They share no row: one of them  *)
(* runs, and the state of the others stays as it was.                      *)
(***************************************************************************)
EXTENDS HumanConduct

CONSTANTS
    Call,                           \* requests under way at one time, in either
    ArticleCommand, Text, ArticleVersions,              \* KnowledgeBase
    Conversing, Registration, Reviewer, Execution, SessionOf,   \* CustomerProfile
    Key, Value, Cited, MessageOf, Work, Quote, ProfileCommand, Asked,
    MaxSuggestions, MaxTime, ProfileLimit, RecentLimit, PendingLimit,
    Account, First, Resident, Number, Mail,             \* UserAccounts, of roles
    AccountCommand, RoleChange,
    Holder, Person, Cpf, SameMail, HolderCommand, CpfChange,    \* and of persons
    Same                            \* a field an update does not carry

VARIABLES
    part,           \* what runs
    source, archived, version, original, proposal, gap, edited, editing,
    profile, audit, active, running, confirmed, work, closed, call, shown,
    user, known, asked, history, update

K == INSTANCE KnowledgeBase WITH
       Command <- ArticleCommand, MaxVersion <- ArticleVersions,
       suggestion <- proposal, audit <- edited, call <- editing

P == INSTANCE CustomerProfile WITH
       Session <- Conversing, User <- Reviewer, Evidence <- Cited, Command <- ProfileCommand,
       suggestion <- profile

Roles == INSTANCE UserAccounts WITH
       User <- Account, Person <- Resident, Cpf <- Number, SameMail <- Mail,
       Command <- AccountCommand, Change <- RoleChange, call <- update

Persons == INSTANCE UserAccounts WITH
       User <- Holder, First <- Holder, Command <- HolderCommand, Change <- CpfChange,
       call <- update

ASSUME AccountBounds == Roles!AccountAssumption /\ Persons!AccountAssumption
ASSUME KnowledgeBounds == K!KnowledgeAssumption
ASSUME ProfileBounds == P!ProfileAssumption

knowledgeVars == <<source, archived, version, original, proposal, gap, edited, editing>>
profileVars == <<profile, audit, active, running, confirmed, work, closed, call, shown>>
accountVars == <<user, known, asked, history, update>>
officeVars == <<part, vars, knowledgeVars, profileVars, accountVars>>

OfficeInit ==
    /\ part \in {"conduct", "knowledge", "profile", "roles", "persons"}
    /\ Init /\ K!Init /\ P!Init
    /\ \/ part # "persons" /\ Roles!Init
       \/ part = "persons" /\ Persons!Init

OfficeNext ==
    /\ UNCHANGED part
    /\ \/ part = "conduct" /\ Next /\ UNCHANGED <<knowledgeVars, profileVars, accountVars>>
       \/ part = "knowledge" /\ K!Next /\ UNCHANGED <<vars, profileVars, accountVars>>
       \/ part = "profile" /\ P!Next /\ UNCHANGED <<vars, knowledgeVars, accountVars>>
       \/ part = "roles" /\ Roles!Next /\ UNCHANGED <<vars, knowledgeVars, profileVars>>
       \/ part = "persons" /\ Persons!Next
          /\ UNCHANGED <<vars, knowledgeVars, profileVars>>

OfficeSpec == OfficeInit /\ [][OfficeNext]_officeVars

-----------------------------------------------------------------------------

\* The count of a gap is the number of commands that observed it, and what the agents
\* retrieve of a published version stays what was published; an execution leaves one
\* suggestion of each key, a suggestion is decided once, and the memory of a key never
\* goes back.
KnowledgeIsKept ==
    /\ []K!GapCountsCommands /\ K!PublishedIsNotEdited
    /\ []P!OneSuggestionPerExecution /\ P!DecidedOnce /\ P!MemoryMovesForward

\* The company always keeps an active administrator, however removals overlap; a
\* repeated update is answered by its first execution, the flag of administrator changes
\* on the word of an active one, and a person is associated once.
RequestsAreHonoured ==
    /\ [](part = "roles" => Roles!AdministratorRemains)
    /\ [][/\ (part = "roles" => Roles!AnswersRepeat /\ Roles!ChangesFlagAsAdministrator)
          /\ (part = "persons" => Persons!KeepsPerson)]_officeVars
=============================================================================
