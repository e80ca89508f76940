------------------------- MODULE MCSessionLifecycle -------------------------
(***************************************************************************)
(* What the program owes to those who wait, on small instances of which    *)
(* one runs at a time: the lifecycle of a session, the outbox that carries *)
(* what was said, and the imports of trips.  The state of the others stays *)
(* as it was.                                                              *)
(***************************************************************************)
EXTENDS SessionLifecycle

CONSTANTS c1, e1, e2, none, w1, w2, x1, x2, x3, x4

VARIABLES
    part,           \* the instance that runs
    outbox, execution, absorbed, checkpoint, tick, task,
    enabled, source, stored, storedBy, analysed, imports, analyses, lease, turn, edits, faults

Q == INSTANCE AutomationOutbox WITH
       Event <- {e1, e2}, Conversation <- {c1}, Worker <- {w1},
       Execution <- {x1, x2, x3, x4}, NoExecution <- none,
       Arrival <- {<<"inbound", "none">>},
       MaxSequence <- 2, MaxAttempts <- 2, BatchSize <- 1, MaxGenerations <- 0

T == INSTANCE TransportWorker WITH
       Worker <- {w1, w2}, LastDay <- 2, Window <- {<<2, 2>>}, Lookback <- 1,
       MaxAttempts <- 2, MaxImports <- 2, MaxEdits <- 1, MaxFaults <- 2

ASSUME TransportBounds == T!WorkerAssumption

queueVars == <<outbox, execution, absorbed, checkpoint, tick, task>>
tripVars == <<enabled, source, stored, storedBy, analysed, imports, analyses, lease, turn,
              edits, faults>>
waitingVars == <<part, vars, queueVars, tripVars>>

WaitingInit ==
    /\ part \in {"session", "queue", "trips"}
    /\ Init /\ Q!Init /\ T!Init /\ (part # "trips" => enabled)

\* The instance that runs, with the others as they were.
InSession == part = "session" /\ UNCHANGED <<part, queueVars, tripVars>>
InQueue == part = "queue" /\ UNCHANGED <<part, vars, tripVars>>
InTrips == part = "trips" /\ UNCHANGED <<part, vars, queueVars>>

\* Executions and events are interchangeable: they come in the order of their names.
InOrder ==
    /\ x2 \in DOMAIN execution => x1 \in DOMAIN execution
    /\ x3 \in DOMAIN execution => x2 \in DOMAIN execution
    /\ x4 \in DOMAIN execution => x3 \in DOMAIN execution
    /\ e2 \in Q!Rows => e1 \in Q!Rows

\* Faults are followed before the provider and the panel change anything, and a second one
\* where it is the last attempt at an import, which fails.
FaultsFirst ==
    faults' # faults =>
        /\ edits = 0
        /\ faults' > 1 => \E i \in 1 .. Len(imports) : imports'[i].status = "failed"

\* Workers are interchangeable: the second one is followed once the first has faulted.
SecondWorker == faults > 0 \/ turn[w2] = T!Resting

WaitingNext ==
    \/ InSession /\ Next
    \/ InQueue /\ Q!Next /\ InOrder'
    \/ InTrips /\ T!Next /\ FaultsFirst /\ SecondWorker'

\* The fairness of each instance while it runs: as part never changes, the fairness of
\* two steps of different instances is that of either.
Fair ==
    /\ WF_waitingVars(\/ InSession /\ (Record \/ Conflict)
                      \/ InQueue /\ Q!Claim(w1) /\ InOrder'
                      \/ InTrips /\ T!Turn(w1))
    /\ WF_waitingVars(\/ InSession /\ Dispatch
                      \/ InQueue /\ e1 \in Q!Rows /\ Q!TimePasses(e1)
                      \/ InTrips /\ T!Turn(w2) /\ SecondWorker')
    /\ WF_waitingVars(\/ InSession /\ Wait
                      \/ InQueue /\ e2 \in Q!Rows /\ Q!TimePasses(e2)
                      \/ InTrips /\ T!BecomesDue(1))
    /\ WF_waitingVars(\/ InQueue /\ x1 \in Q!Live /\ Q!Progress(x1)
                      \/ InTrips /\ T!BecomesDue(2))
    /\ \A x \in {x2, x3, x4} : WF_waitingVars(InQueue /\ x \in Q!Live /\ Q!Progress(x))
    /\ SF_waitingVars(\/ InSession /\ Begin
                      \/ InQueue /\ e1 \in Q!Rows /\ Q!ClaimOf(w1, e1) /\ InOrder')
    /\ SF_waitingVars(\/ InSession /\ Finish
                      \/ InQueue /\ e2 \in Q!Rows /\ Q!ClaimOf(w1, e2) /\ InOrder')
    /\ SF_waitingVars(InSession /\ \E i \in 1 .. Last : Claim(i))
    /\ SF_waitingVars(InSession /\ \E i \in 1 .. Last : GiveUp(i))

WaitingSpec == WaitingInit /\ [][WaitingNext]_waitingVars /\ Fair

-----------------------------------------------------------------------------

\* Every event of the queue ends delivered or isolated.
EventuallySettled == Q!EventuallySettled

\* No correction of the provider slips behind the cursor of a running analysis.
ChangesAreAnalysed == T!ChangesAreAnalysed

\* An import that was asked for is completed, or fails and says so.
EventuallyImported == T!EventuallyImported
=============================================================================
