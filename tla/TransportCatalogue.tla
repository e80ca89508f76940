-------------------------- MODULE TransportCatalogue --------------------------
(***************************************************************************)
(* Contracts and the periods that hang on them                             *)
(* (transport-catalog.repository.ts).  Every command of a tenant runs      *)
(* under one advisory lock, serializable, and a repeated command id        *)
(* returns the stored answer: a command is one step and a repetition none. *)
(*                                                                         *)
(* Four tables of periods follow one discipline: the conditions of a       *)
(* contract, the assignments of a route to a contract, the owners of a     *)
(* fleet and the affiliations of a person, one discipline for each role.   *)
(* The first two must lie within the contract.  The supplier a period is   *)
(* for is left out: no rule looks at it.                                   *)
(***************************************************************************)
EXTENDS Naturals, FiniteSets

CONSTANTS
    Contract,     \* contracts of the tenant
    Owner,        \* routes, fleets and people that periods are about
    LastDay,      \* bound: civil days
    MaxPeriods,   \* bound: periods recorded
    MaxChanges    \* bound: commands executed

CatalogueAssumption ==
    /\ Contract # {} /\ Owner \cap Contract = {}
    /\ LastDay \in Nat \ {0} /\ MaxPeriods \in Nat /\ MaxChanges \in Nat

VARIABLES
    contract,     \* [Contract -> its validity, status and version], version 0 if absent
    periods,      \* the rows of the four tables
    changes       \* commands executed so far

catalogueVars == <<contract, periods, changes>>

Day == 1..LastDay
Open == LastDay + 1          \* no end
End == Day \cup {Open}
ContractStatus == {"active", "inactive"}   \* draft, suspended or ended
Bound == {"condition", "assignment"}
Kind == Bound \cup {"ownership", "affiliation"}
Role(kind) == IF kind = "affiliation" THEN {"client", "employee"} ELSE {"none"}

\* validateInterval
Interval(from, until) == from <= until

Absent == [from |-> 1, until |-> Open, status |-> "inactive", version |-> 0]
Running == [from |-> 1, until |-> Open, status |-> "active", version |-> 1]

CatalogueInit ==
    /\ contract \in [Contract -> {Absent, Running}]
    /\ periods = {} /\ changes = 0

Counted == changes < MaxChanges /\ changes' = changes + 1
Exists(c) == contract[c].version > 0

CreateContract(c, from, until, status) ==
    /\ Counted /\ ~Exists(c) /\ Interval(from, until)
    /\ contract' = [contract EXCEPT ![c] = [from |-> from, until |-> until,
                                            status |-> status, version |-> 1]]
    /\ UNCHANGED periods

\* Periods that would outlive the contract.
OpenAfter(c, until) ==
    {p \in periods : p.contract = c /\ p.kind \in Bound /\ p.until > until}

\* The end may be moved either way; not before an open condition or assignment.
ReviseContract(c, until, status) ==
    /\ Counted /\ Exists(c) /\ Interval(contract[c].from, until)
    /\ until # Open => OpenAfter(c, until) = {}
    /\ contract' = [contract EXCEPT ![c].until = until, ![c].status = status,
                                    ![c].version = @ + 1]
    /\ UNCHANGED periods

\* Mutant: a period that ends inside the new one is not seen.
BadOverlapping(kind, role, owner, from, until) ==
    {p \in periods : /\ p.kind = kind /\ p.role = role /\ p.owner = owner
                     /\ p.from <= from /\ p.until >= until}

Overlapping(kind, role, owner, from, until) ==
    {p \in periods : /\ p.kind = kind /\ p.role = role /\ p.owner = owner
                     /\ p.from <= until /\ p.until >= from}

Within(c, from, until) == contract[c].from <= from /\ until <= contract[c].until

\* Conditions belong to their contract; the other periods name an owner.
Subject(kind, c, owner) == IF kind = "condition" THEN c ELSE owner

\* The version of the contract advances with its conditions.
Touched(kind, c) ==
    contract' = IF kind = "condition" THEN [contract EXCEPT ![c].version = @ + 1]
                                      ELSE contract

\* addPeriod, fleetOwnership and a new affiliation
AddPeriod(kind, role, c, owner, from, until) ==
    /\ Counted /\ Interval(from, until) /\ Cardinality(periods) < MaxPeriods
    /\ kind \in Bound => Exists(c) /\ Within(c, from, until)
    /\ Overlapping(kind, role, Subject(kind, c, owner), from, until) = {}
    /\ periods' = periods \cup {[kind |-> kind, role |-> role, owner |-> Subject(kind, c, owner),
                                 contract |-> c, from |-> from, until |-> until]}
    /\ Touched(kind, c)

\* closePeriod, the closing of an ownership and the edit of an affiliation
ClosePeriod(p, until) ==
    /\ Counted /\ p \in periods /\ Interval(p.from, until) /\ until <= p.until
    /\ periods' = (periods \ {p}) \cup {[p EXCEPT !.until = until]}
    /\ Touched(p.kind, p.contract)

CatalogueNext ==
    \/ \E c \in Contract, until \in End, status \in ContractStatus :
          \/ \E from \in Day : CreateContract(c, from, until, status)
          \/ ReviseContract(c, until, status)
    \/ \E kind \in Kind, c \in Contract, owner \in Owner, from \in Day, until \in End :
          \E role \in Role(kind) : AddPeriod(kind, role, c, owner, from, until)
    \/ \E p \in periods, until \in Day : ClosePeriod(p, until)

-----------------------------------------------------------------------------
(* Properties *)

\* On any day at most one condition of a contract, one contract of a route, one owner of
\* a fleet and, in each of its roles, one supplier of a person is in force.
OneInForce ==
    \A p, q \in periods :
        p.kind = q.kind /\ p.role = q.role /\ p.owner = q.owner /\ p # q =>
            p.until < q.from \/ q.until < p.from

\* No condition and no assignment outlives its contract, whatever the order
\* in which contracts were extended, shortened and their periods closed.
PeriodsWithinContract == \A p \in periods : p.kind \in Bound => Within(p.contract, p.from, p.until)
==============================================================================
