---------------------------- MODULE AgentsAndMedia ----------------------------
(***************************************************************************)
(* What the models of the tenant are asked, and may be asked only once:    *)
(* the turn of the agents on an event, and the interpretation of the media *)
(* that customers send.  They share no row: one of them runs, and the      *)
(* state of the other stays as it was.                                     *)
(***************************************************************************)
EXTENDS AgentTurn

CONSTANTS
    Assets, Correction,     \* number of assets, corrections of people
    MediaRuntimes,          \* runtimes of the media agent
    MediaBatchSize,         \* most assets that a tick of the media worker takes
    MaxMediaFaults          \* bound: faults around the media

VARIABLES
    part,           \* what runs
    preserved, batchSize, asset, copy, conduct, interpretation, requests, correction,
    used, batch, job, mishaps

M == INSTANCE MediaInterpretation WITH
       Runtimes <- MediaRuntimes, MaxBatchSize <- MediaBatchSize,
       MaxFaults <- MaxMediaFaults, control <- conduct, faults <- mishaps

ASSUME MediaBounds == M!MediaAssumption

mediaVars == <<preserved, batchSize, asset, copy, conduct, interpretation, requests,
               correction, used, batch, job, mishaps>>
modelVars == <<part, vars, mediaVars>>

ModelsInit ==
    /\ part \in {"turn", "media"}
    /\ Init /\ M!Init /\ (part = "turn" => preserved = {} /\ batchSize = 1)

InTurn == part = "turn" /\ UNCHANGED <<part, mediaVars>>
InMedia == part = "media" /\ UNCHANGED <<part, vars>>

TurnNext == InTurn /\ Next
MediaNext == InMedia /\ M!Next
ModelsNext == TurnNext \/ MediaNext

ModelsSpec == ModelsInit /\ [][ModelsNext]_modelVars

-----------------------------------------------------------------------------

\* Worker and panel together have an asset interpreted at most once: no runtime of a
\* model is called twice for it.
InterpretedOnce == M!InterpretedOnce

\* A retained asset is interpreted in the end, or its failure is recorded, unless items
\* that the worker cannot handle fill its batches.
EventuallyInterpreted == M!EventuallyInterpreted

\* A damaged item does not keep the worker from the younger ones.
OthersAreInterpreted == M!OthersAreInterpreted
=============================================================================
