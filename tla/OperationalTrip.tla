--------------------------- MODULE OperationalTrip ---------------------------
(***************************************************************************)
(* Operational trips (operational-trips.service.ts, trip.ts,               *)
(* trip-route-plan.ts), on the contracts of TransportCatalogue.            *)
(*                                                                         *)
(* A command is a READ COMMITTED transaction without a lock: it reads the  *)
(* trip and, to start it, its current route plan; then it writes on the    *)
(* version its author saw.  Commands of different clerks and the commands  *)
(* of the catalogue fall between the two.  A repeated command id returns   *)
(* the stored answer and changes nothing.  The approved version of a route *)
(* is copied into the selection and nothing in the service writes routes:  *)
(* which version it is left out.  The legs of a plan follow its date.      *)
(***************************************************************************)
EXTENDS Sequences, TransportCatalogue

CONSTANTS
    Clerk,        \* people who operate trips
    ConfirmedDay, \* departure day of the confirmed service
    MaxTrips,     \* bound: trips created
    MaxVersion    \* bound: version of a trip

TripAssumption ==
    /\ Clerk # {} /\ ConfirmedDay \in 1..LastDay
    /\ MaxTrips \in Nat /\ MaxVersion \in Nat

VARIABLES
    trips,        \* the trips, in order of creation
    pending       \* [Clerk -> the command that has read and not written yet]

vars == <<contract, periods, changes, trips, pending>>

NoDate == 0
Idle == [command |-> "none", trip |-> 0, date |-> NoDate, row |-> << >>, selection |-> 0]
Source == Contract \cup {"confirmed-service"}
TripStatus == {"draft", "scheduled", "in-execution", "suspended", "interrupted",
               "early-terminated", "completed", "cancelled"}
Closed == {"early-terminated", "completed", "cancelled"}

\* TRIP_TRANSITION_MATRIX, with the command that takes each step
Transition ==
    [schedule      |-> {<<"draft", "scheduled">>},
     start         |-> {<<"scheduled", "in-execution">>},
     cancel        |-> {<<"scheduled", "cancelled">>},
     suspend       |-> {<<"in-execution", "suspended">>},
     resume        |-> {<<"suspended", "in-execution">>},
     interrupt     |-> {<<"in-execution", "interrupted">>},
     complete      |-> {<<"in-execution", "completed">>},
     close_early   |-> {<<"interrupted", "early-terminated">>},
     edit_draft    |-> {<<"draft", "draft">>},
     revise        |-> {<<"scheduled", "scheduled">>},
     record        |-> {<<s, s>> : s \in {"in-execution", "suspended", "interrupted"}},
     select_route  |-> {<<s, s>> : s \in {"draft", "scheduled"}}]

Command == DOMAIN Transition
Target(command, from) == {t \in TripStatus : <<from, t>> \in Transition[command]}

Init ==
    /\ CatalogueInit
    /\ trips = << >> /\ pending = [k \in Clerk |-> Idle]

\* assertContractAllowsTripDate
Allows(c, date) ==
    /\ c.status = "active"
    /\ c.from <= date /\ date <= c.until

NewTrip(source, date) ==
    [source |-> source, status |-> "draft", date |-> date, version |-> 1, started |-> FALSE,
     plans |-> << >>, selections |-> << >>]

\* create, from an active contract, or from a confirmed service on its day; a
\* draft on a contract may have no day yet, and the contract must then run today.
\* That the quote of the service is still approved as it was confirmed is left out:
\* every service may originate a trip here.
Create(source, date) ==
    /\ Len(trips) < MaxTrips
    /\ IF source \in Contract
       THEN Exists(source) /\ \E today \in Day :
                Allows(contract[source], IF date = NoDate THEN today ELSE date)
       ELSE date = ConfirmedDay
    /\ trips' = Append(trips, NewTrip(source, date))
    /\ UNCHANGED <<catalogueVars, pending>>

\* The current selection of a trip, 0 if none.
Current(t) ==
    LET live == {i \in 1..Len(t.selections) : ~t.selections[i].superseded}
    IN  IF live = {} THEN 0 ELSE CHOOSE i \in live : TRUE

\* A published plan has a day on which the contract, as it is read, allows it.
Schedulable(trip, command, date) ==
    LET day == IF command = "revise" THEN date ELSE trip.date
    IN  command \in {"schedule", "revise"} =>
            /\ day # NoDate
            /\ trip.source \in Contract => Allows(contract[trip.source], day)

\* The command reads the trip at the version its author saw.
Read(k, command, i, date) ==
    /\ pending[k] = Idle /\ i \in 1..Len(trips) /\ trips[i].version < MaxVersion
    /\ Target(command, trips[i].status) # {}
    /\ command \notin {"edit_draft", "revise"} => date = NoDate
    /\ command = "select_route" => trips[i].source \in Contract /\ ~trips[i].started
    /\ Schedulable(trips[i], command, date)
    /\ pending' = [pending EXCEPT ![k] =
          [command |-> command, trip |-> i, date |-> date, row |-> trips[i],
           selection |-> IF command \in {"start", "select_route"} THEN Current(trips[i]) ELSE 0]]
    /\ UNCHANGED <<catalogueVars, trips>>

\* A start reads the current selection after the trip, perhaps later.
ReadSelection(k) ==
    /\ pending[k].command = "start"
    /\ pending' = [pending EXCEPT ![k].selection = Current(trips[pending[k].trip])]
    /\ pending' # pending
    /\ UNCHANGED <<catalogueVars, trips>>

\* applyTripCommand
PlanOf(p) == IF p.command \in {"edit_draft", "revise"} THEN p.date ELSE p.row.date

Applied(p) ==
    LET to == CHOOSE t \in Target(p.command, p.row.status) : TRUE
    IN  [p.row EXCEPT !.status = to, !.version = @ + 1, !.date = PlanOf(p),
             !.started = @ \/ p.command = "start",
             !.plans = IF p.command \in {"schedule", "revise"} THEN Append(@, PlanOf(p)) ELSE @]

\* What a command does to the route plans: a start freezes the current one; a
\* selection replaces it, unless it was used.
Selections(p, stored) ==
    CASE p.command = "start" /\ p.selection # 0 ->
           [stored EXCEPT ![p.selection].used = TRUE]
      [] p.command = "select_route" ->
           Append([i \in 1..Len(stored) |->
                      IF i = p.selection THEN [stored[i] EXCEPT !.superseded = TRUE]
                                         ELSE stored[i]],
                  [superseded |-> FALSE, used |-> FALSE])
      [] OTHER -> stored

\* No other current selection appeared, and the one that was read is unused.
SelectionStands(p, stored) ==
    /\ p.command = "select_route" => Current(stored) = p.selection
    /\ p.selection # 0 => ~stored.selections[p.selection].superseded
                          /\ ~stored.selections[p.selection].used

\* The trip is still the one that was read.
Accepted(p, stored) == stored.version = p.row.version /\ SelectionStands(p, stored)

Write(k) ==
    LET p == pending[k]
        stored == trips[p.trip]
    IN  /\ p # Idle /\ pending' = [pending EXCEPT ![k] = Idle]
        /\ trips' = IF Accepted(p, stored)
                    THEN [trips EXCEPT ![p.trip] =
                            [Applied(p) EXCEPT !.selections = Selections(p, stored.selections)]]
                    ELSE trips
        /\ UNCHANGED catalogueVars

Next ==
    \/ CatalogueNext /\ UNCHANGED <<trips, pending>>
    \/ \E source \in Source, date \in Day \cup {NoDate} : Create(source, date)
    \/ \E k \in Clerk :
          \/ \E command \in Command, i \in 1..MaxTrips, date \in Day \cup {NoDate} :
                 Read(k, command, i, date)
          \/ ReadSelection(k) \/ Write(k)

Spec == Init /\ [][Next]_vars

-----------------------------------------------------------------------------
(* Properties *)

\* A trip that started runs on the route plan that was current at that
\* moment: it is marked as used, it is the only current one, and no plan is
\* marked before the start.
RoutePlanIsFrozen ==
    \A i \in 1..Len(trips) :
        LET s == trips[i].selections
        IN  /\ \A a, b \in 1..Len(s) : ~s[a].superseded /\ ~s[b].superseded => a = b
            /\ \A a \in 1..Len(s) : s[a].used = (trips[i].started /\ ~s[a].superseded)

\* From its scheduling on, the plan of a trip is the last one published.
PlanIsPublished ==
    \A i \in 1..Len(trips) : trips[i].status # "draft" =>
        trips[i].plans # << >> /\ trips[i].date = trips[i].plans[Len(trips[i].plans)]

\* A trip that ended stays as it ended, and a published plan as published.
EndedStays ==
    [][\A i \in 1..Len(trips) :
          /\ trips[i].status \in Closed => trips'[i] = trips[i]
          /\ Len(trips'[i].plans) >= Len(trips[i].plans)]_trips
==============================================================================
