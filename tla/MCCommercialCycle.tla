-------------------------- MODULE MCCommercialCycle --------------------------
(***************************************************************************)
(* What is sold, done and kept, on small instances of which one runs at a  *)
(* time: the quotes of a conversation, the periods of a contract, a trip   *)
(* on it, the dossiers of a person and the import of a history.  A trip    *)
(* reads the contract and no period of it.  The state of the others stays  *)
(* as it was.                                                              *)
(***************************************************************************)
EXTENDS CommercialCycle, TLC

CONSTANTS c1, r1, k1, k2, staff, owner, rg, spouse, backup

VARIABLES
    part,           \* the instance that runs
    contract, periods, changes, trips, pending,
    request, item, submission, profile, updates, receipt, call, begun,
    row, up, files, incorporated, lock, manifestSeen, stale, confirming, job, manifest,
    chunk, lease, cancelledHere, overdue, crashes, disturbance

Catalogue == INSTANCE OperationalTrip WITH
       Contract <- {c1}, Owner <- {r1}, LastDay <- 2, MaxPeriods <- 3, MaxChanges <- 4,
       Clerk <- {k1, k2}, ConfirmedDay <- 1, MaxTrips <- 0, MaxVersion <- 1

T == INSTANCE OperationalTrip WITH
       Contract <- {c1}, Owner <- {r1}, LastDay <- 2, MaxPeriods <- 0, MaxChanges <- 1,
       Clerk <- {k1, k2}, ConfirmedDay <- 1, MaxTrips <- 1, MaxVersion <- 4

D == INSTANCE DocumentDossier WITH
       Staff <- {staff}, Owner <- {owner}, Type <- {rg, spouse}, Conditional <- {spouse},
       MaxRequests <- 2, MaxVersion <- 2, MaxProfiles <- 1, MaxOperations <- 5,
       Decision <- {"approved", "rejected"}, Policy <- {"optional", "waived"},
       operations <- begun

H == INSTANCE MCHistoryImport WITH
       Request <- {backup}, Blocks <- 2, Chunks <- 2, MaxCrashes <- 1,
       seen <- manifestSeen, held <- manifest

ASSUME ImportBounds == H!ImportAssumption
ASSUME CatalogueBounds == Catalogue!CatalogueAssumption /\ Catalogue!TripAssumption
ASSUME TripBounds == T!CatalogueAssumption /\ T!TripAssumption
ASSUME DossierBounds ==
    D!PeopleAssumption /\ D!ChecklistAssumption /\ D!BoundsAssumption /\ D!InputAssumption

tripVars == <<contract, periods, changes, trips, pending>>
dossierVars == <<request, item, submission, profile, updates, receipt, call, begun>>
importVars ==
    <<row, up, files, incorporated, lock, manifestSeen, stale, confirming, job, manifest,
      chunk, lease, cancelledHere, overdue, crashes, disturbance>>

ServiceInit ==
    /\ part \in {"quotes", "periods", "trips", "dossiers", "import"}
    /\ Init /\ T!Init /\ D!Init /\ H!ImportInit
    /\ disturbance = "late error" \/ part = "import"
    /\ contract[c1] = T!Running \/ part \in {"periods", "trips"}
    /\ profile = {} \/ part = "dossiers"

ServiceNext ==
    /\ UNCHANGED part
    /\ \/ part = "quotes" /\ Next /\ UNCHANGED <<tripVars, dossierVars, importVars>>
       \/ part = "periods" /\ Catalogue!Next /\ UNCHANGED <<vars, dossierVars, importVars>>
       \/ part = "trips" /\ T!Next /\ UNCHANGED <<vars, dossierVars, importVars>>
       \/ part = "dossiers" /\ D!Next /\ UNCHANGED <<vars, tripVars, importVars>>
       \/ part = "import" /\ H!ImportNext /\ UNCHANGED <<vars, tripVars, dossierVars>>

ServiceSpec == ServiceInit /\ [][ServiceNext]_<<part, vars, tripVars, dossierVars, importVars>>

\* The import meets one disturbance in each behaviour.
OneDisturbance == part = "import" => H!OneDisturbance

\* Attendants and clerks are interchangeable.
ServiceSymmetry == Permutations(Operator) \cup Permutations({k1, k2})

-----------------------------------------------------------------------------

\* What is recorded agrees.  One condition of a contract, one contract of a route, one
\* owner of a fleet and one supplier of a person in each role is in force, and none outlives
\* its contract; a started trip runs on the route plan that was current then, and a scheduled
\* one on the last plan published; and while nobody sets its policy by hand, an item of a
\* dossier says what became of its current version.
RecordsAgree ==
    /\ part = "periods" => Catalogue!OneInForce /\ Catalogue!PeriodsWithinContract
    /\ part = "trips" => T!RoutePlanIsFrozen /\ T!PlanIsPublished
    /\ part = "dossiers" => D!StatusIsEarned

\* What ended stays.  A trip stays as it ended, a published plan as published and the
\* decision on a version of a document as it was taken.
WhatEndedStays == T!EndedStays /\ D!DecisionStands

\* What the import of a history holds is whole: a file that was received is the file that
\* was sent, and a batch that says it was applied has every message in the history,
\* whatever stopped it in between.
ImportIsWhole == part = "import" => H!UploadIsTheFile /\ H!AppliedIsComplete
==============================================================================
