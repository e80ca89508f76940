----------------------------- MODULE MCAgentTurn -----------------------------
(* The turn of the agents, and the media they use, on small instances. *)
EXTENDS AgentsAndMedia

CONSTANTS w1, w2        \* the workers

\* Workers are interchangeable: the first attempt at the event is that of w1.
InOrder == event.attempts < 2 => task[w2] = Idle

\* No fault of process or database is followed once a second model was tried.
TurnFollowed == InOrder /\ (faults = 0 \/ \A a \in Agent : Len(execution[a].log) <= 1)

\* What people and agents do with an interpretation changes nothing of how the next is
\* made: it is followed without faults.  What people do, and ask for, is followed for the
\* largest batch.
MediaFollowed ==
    LET followed == batchSize = MediaBatchSize
    IN  /\ followed \/ job["panel"] = M!NoJob
        /\ (followed /\ mishaps = 0) \/ \A a \in M!Asset : correction[a] = {} /\ used[a] = {}

\* The fairness of what runs: the timer of the media worker fires, and what it calls
\* returns or times out.
FairModels ==
    /\ ModelsInit /\ [][(TurnNext /\ TurnFollowed') \/ (MediaNext /\ MediaFollowed')]_modelVars
    /\ WF_modelVars(InMedia /\ M!Tick) /\ WF_modelVars(InMedia /\ M!TakeNext)
    /\ \A p \in M!Runner : WF_modelVars(InMedia /\ M!Work(p))
=============================================================================
