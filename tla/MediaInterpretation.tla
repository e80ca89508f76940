------------------------ MODULE MediaInterpretation ------------------------
(***************************************************************************)
(* A picture, an audio or a document of a customer: its binary copy is     *)
(* fetched from the provider, a worker (or a person in the panel) has it   *)
(* interpreted once, a person may correct the interpretation, and the      *)
(* agents use the result.                                                  *)
(*                                                                         *)
(* The row of the asset has two kinds of writers that do not exclude each  *)
(* other: those that retain the copy and those that interpret it.  What a  *)
(* job reads of the asset, its claim, each call to the model and its end   *)
(* are separate steps.                                                     *)
(***************************************************************************)
EXTENDS Naturals, Sequences, FiniteSets, FiniteSetsExt, SequencesExt

CONSTANTS
    Assets,        \* number of assets, in order of their creation
    Correction,    \* texts that people may put in the place of an interpretation
    Runtimes,      \* runtimes of the media agent
    MaxBatchSize,  \* largest number of assets that a tick of the worker takes
    MaxFaults      \* bound: faults of provider, storage, database and process

Asset == 1..Assets

MediaAssumption ==
    /\ Assets \in Nat \ {0}
    /\ Runtimes \in Nat \ {0} /\ MaxBatchSize \in Nat \ {0} /\ MaxFaults \in Nat
    /\ "machine" \notin Correction

VARIABLES
    preserved,      \* the assets that are kept and never interpreted: videos, stickers
    batchSize,      \* assets that a tick of the worker takes, the same at every tick
    asset,          \* media_assets.status
    copy,           \* the binary copy: absent, stored or broken
    control,        \* who holds the session of the message
    interpretation, \* media_interpretations.status
    requests,       \* calls to the model for an asset
    correction,     \* the corrections of an interpretation: none or one
    used,           \* what the agents answered with: nothing, machine or a correction
    batch,          \* the candidates the worker has left in this tick
    job,            \* what the worker and the panel are at
    faults          \* faults so far

vars == <<preserved, batchSize, asset, copy, control, interpretation, requests,
          correction, used, batch, job, faults>>
given == <<preserved, batchSize>>
stored == <<asset, copy>>
result == <<given, interpretation, requests>>
people == <<control, correction, used>>

Status == {"received", "stored", "processing", "interpreted", "failed", "unsupported"}
Runner == {"worker", "panel"}
NoJob == [asset |-> 0, at |-> "idle", runtime |-> 1]

Fault == faults < MaxFaults /\ faults' = faults + 1

Init ==
    /\ preserved \in SUBSET Asset /\ batchSize \in 1..MaxBatchSize
    /\ asset = [a \in Asset |-> "received"] /\ copy = [a \in Asset |-> "absent"]
    /\ control = [a \in Asset |-> "ai"]
    /\ interpretation = [a \in Asset |-> "none"] /\ requests = [a \in Asset |-> 0]
    /\ correction = [a \in Asset |-> {}] /\ used = [a \in Asset |-> {}]
    /\ batch = << >> /\ job = [p \in Runner |-> NoJob]
    /\ faults = 0

-----------------------------------------------------------------------------
(* Retention of the copy *)

\* Whoever asks for the copy fetches it when it is missing.  Requests overlap, and one
\* that began before the copy was there may end at any time after.

\* A copy that is found, or one that a fetch persists, marks the asset stored.
Retain(a) ==
    /\ copy' = [copy EXCEPT ![a] = "stored"]
    /\ asset' = [asset EXCEPT ![a] = "stored"]
    /\ UNCHANGED <<result, people, batch, job, faults>>

\* The provider no longer has it, or it is too large.
Unavailable(a) ==
    /\ Fault
    /\ asset' = [asset EXCEPT ![a] = "failed"]
    /\ UNCHANGED <<copy, result, people, batch, job>>

\* The file is damaged or gone.
Break(a) ==
    /\ copy[a] = "stored" /\ Fault
    /\ copy' = [copy EXCEPT ![a] = "broken"]
    /\ UNCHANGED <<asset, result, people, batch, job>>

-----------------------------------------------------------------------------
(* The tick of the worker *)

Candidates == {a \in Asset \ preserved : asset[a] = "stored" /\ interpretation[a] = "none"}

\* The oldest first, whoever holds their session and whatever became of them before.
Listed ==
    LET order == SetToSortSeq(Candidates, <)
    IN  SubSeq(order, 1, IF Len(order) < batchSize THEN Len(order) ELSE batchSize)

Idle(p) == job[p].at = "idle"
Working(p) == job[p].asset
At(p, place) == job[p].at = place
Goto(p, place) == job' = [job EXCEPT ![p].at = place]
Ends(p) == job' = [job EXCEPT ![p] = NoJob]

Tick ==
    /\ batch = << >> /\ Idle("worker") /\ Candidates # {}
    /\ batch' = Listed
    /\ UNCHANGED <<stored, result, people, job, faults>>

TakeNext ==
    /\ batch # << >> /\ Idle("worker")
    /\ job' = [job EXCEPT !["worker"] = [NoJob EXCEPT !.asset = Head(batch), !.at = "load"]]
    /\ batch' = Tail(batch)
    /\ UNCHANGED <<stored, result, people, faults>>

\* analyzeMessage: a person asks for it.  One that exists is shown, whatever became of it.
Ask(a) ==
    /\ Idle("panel") /\ interpretation[a] = "none"
    /\ job' = [job EXCEPT !["panel"] = [NoJob EXCEPT !.asset = a, !.at = "load"]]
    /\ UNCHANGED <<stored, result, people, batch, faults>>

-----------------------------------------------------------------------------
(* analyzeAsset *)

Deferred(p) == p = "worker" /\ control[Working(p)] = "human"

\* An exception ends this item: the tick goes on with the next.
\* Mutant: it ends the tick.
BadItemEnds(p) == Ends(p) /\ batch' = IF p = "worker" THEN << >> ELSE batch
ItemEnds(p) == Ends(p) /\ UNCHANGED batch

Wanted(p) == Working(p) \notin preserved /\ interpretation[Working(p)] = "none" /\ ~Deferred(p)

\* The stored file is not the one that the row describes.
LoadThrows(p) ==
    /\ At(p, "load") /\ Wanted(p) /\ copy[Working(p)] = "broken"
    /\ ItemEnds(p)
    /\ UNCHANGED <<stored, result, people, faults>>

\* What decideMediaInterpretation and the copy say, without a lock.
Load(p) ==
    LET a == Working(p)
    IN  /\ At(p, "load") /\ ~(Wanted(p) /\ copy[a] = "broken")
        /\ CASE a \in preserved -> Goto(p, "preserve")
             [] Wanted(p) /\ copy[a] = "stored" -> Goto(p, "claim")
             [] OTHER -> Ends(p)
        /\ UNCHANGED <<stored, result, people, batch, faults>>

Preserve(p) ==
    LET a == Working(p)
    IN  /\ At(p, "preserve")
        /\ IF interpretation[a] = "none"
           THEN /\ interpretation' = [interpretation EXCEPT ![a] = "unsupported"]
                /\ asset' = [asset EXCEPT ![a] = "unsupported"]
           ELSE UNCHANGED <<interpretation, asset>>
        /\ Ends(p)
        /\ UNCHANGED <<copy, given, requests, people, batch, faults>>

\* Mutant: the claim relies on what the job loaded.
BadClaim(p) ==
    LET a == Working(p)
    IN  /\ At(p, "claim")
        /\ interpretation' = [interpretation EXCEPT ![a] = "pending"]
        /\ asset' = [asset EXCEPT ![a] = "processing"]
        /\ Goto(p, "call")
        /\ UNCHANGED <<copy, given, requests, people, batch, faults>>
\* The advisory lock of the asset, and its interpretation read again.
Claim(p) ==
    LET a == Working(p)
    IN  /\ At(p, "claim")
        /\ IF interpretation[a] = "none"
           THEN /\ interpretation' = [interpretation EXCEPT ![a] = "pending"]
                /\ asset' = [asset EXCEPT ![a] = "processing"]
                /\ Goto(p, "call")
           ELSE Ends(p) /\ UNCHANGED <<interpretation, asset>>
        /\ UNCHANGED <<copy, given, requests, people, batch, faults>>

AnotherRuntime(p) == job[p].runtime < Runtimes

\* The model answers, or does not and the next runtime is tried.
Call(p) ==
    /\ At(p, "call")
    /\ requests' = [requests EXCEPT ![Working(p)] = @ + 1]
    /\ \/ Goto(p, "complete")
       \/ AnotherRuntime(p) /\ job' = [job EXCEPT ![p].runtime = @ + 1]
       \/ ~AnotherRuntime(p) /\ Goto(p, "fail")
    /\ UNCHANGED <<stored, given, interpretation, people, batch, faults>>

Finish(p, status, assetStatus) ==
    LET a == Working(p)
    IN  /\ interpretation' = [interpretation EXCEPT ![a] = IF @ = "pending" THEN status ELSE @]
        /\ asset' = [asset EXCEPT ![a] = IF interpretation[a] = "pending" THEN assetStatus ELSE @]
        /\ Ends(p)
        /\ UNCHANGED <<copy, given, requests, people, batch, faults>>

Complete(p) == At(p, "complete") /\ Finish(p, "succeeded", "interpreted")
Fail(p) == At(p, "fail") /\ Finish(p, "failed", "failed")

\* A fault of the database, a result that complete() refuses: what was claimed stays.
ItemThrows(p) ==
    /\ ~Idle(p) /\ Fault
    /\ ItemEnds(p)
    /\ UNCHANGED <<stored, result, people>>

\* The process dies with its tick and the requests it was serving.
Crash ==
    /\ Fault
    /\ job' = [p \in Runner |-> NoJob] /\ batch' = << >>
    /\ UNCHANGED <<asset, copy, result, people>>

-----------------------------------------------------------------------------
(* People and agents *)

TakeOver(a) ==
    /\ control[a] = "ai"
    /\ control' = [control EXCEPT ![a] = "human"]
    /\ UNCHANGED <<stored, result, correction, used, batch, job, faults>>

\* The correction is immutable: another one conflicts, the same is replayed.
Correct(a, c) ==
    /\ interpretation[a] = "succeeded" /\ correction[a] = {}
    /\ correction' = [correction EXCEPT ![a] = {c}]
    /\ UNCHANGED <<stored, result, control, used, batch, job, faults>>

\* getDurableBatch waits for an interpretation that is pending or not requested; the
\* execution of the agents takes the correction when there is one.
Use(a) ==
    /\ control[a] = "ai" /\ used[a] = {} /\ interpretation[a] = "succeeded"
    /\ used' = [used EXCEPT ![a] = IF correction[a] # {} THEN correction[a] ELSE {"machine"}]
    /\ UNCHANGED <<stored, result, control, correction, batch, job, faults>>

-----------------------------------------------------------------------------
Work(p) == Load(p) \/ LoadThrows(p) \/ Preserve(p) \/ Claim(p) \/ Call(p) \/ Complete(p) \/ Fail(p)

Next ==
    \/ Tick \/ TakeNext \/ Crash
    \/ \E p \in Runner : Work(p) \/ ItemThrows(p)
    \/ \E a \in Asset : \/ Ask(a) \/ TakeOver(a) \/ Use(a) \/ Break(a)
                        \/ \E c \in Correction : Correct(a, c)
                        \/ Retain(a) \/ Unavailable(a)

Spec == Init /\ [][Next]_vars

\* The timer of the worker fires, and what a job called returns or times out.  Nothing
\* is owed by people or by the provider.
FairSpec ==
    /\ Spec /\ WF_vars(Tick) /\ WF_vars(TakeNext)
    /\ \A p \in Runner : WF_vars(Work(p))

-----------------------------------------------------------------------------
(* Properties *)

\* The rows of the assets, and jobs that stay within their runtimes.
TypeOK ==
    /\ asset \in [Asset -> Status] /\ copy \in [Asset -> {"absent", "stored", "broken"}]
    /\ control \in [Asset -> {"ai", "human"}]
    /\ interpretation \in [Asset -> {"none", "pending", "succeeded", "failed", "unsupported"}]
    /\ requests \in [Asset -> Nat]
    /\ \A a \in Asset : /\ correction[a] \subseteq Correction
                        /\ used[a] \subseteq Correction \cup {"machine"}
    /\ batch \in BoundedSeq(Asset, batchSize)
    /\ job \in [Runner -> [asset : {0} \cup Asset, runtime : 1..Runtimes,
                  at : {"idle", "load", "preserve", "claim", "call", "complete", "fail"}]]
    /\ faults \in 0..MaxFaults

\* Worker and panel together have an asset interpreted at most once: no runtime is called
\* twice for it, nor any for an asset that is only preserved.
InterpretedOnce ==
    \A a \in Asset : requests[a] <= IF a \in preserved THEN 0 ELSE Runtimes

Undisturbed(a) == control[a] = "ai" /\ copy[a] = "stored" /\ asset[a] # "failed"
Settled(a) == interpretation[a] \notin {"none", "pending"}

\* The worker lists the oldest candidates again at every tick, those included that it can
\* only defer (a person holds their session) or that throw (their copy is damaged), and
\* these never leave the list.
Stuck(a) == a \in Candidates /\ (control[a] = "human" \/ copy[a] = "broken")
Crowded(a) == Cardinality({b \in 1..(a - 1) : Stuck(b)}) >= batchSize

Handled(a) == Settled(a) \/ interpretation[a] = "pending" \/ ~Undisturbed(a)

\* A retained asset of a conversation that the agents hold is interpreted in the end, or
\* its failure is recorded, though older items throw or are deferred at every tick, unless
\* these fill the batch again and again; only a fault in its own turn may leave it pending.
EventuallyInterpreted ==
    \A a \in Asset : (a \in Candidates ~> Handled(a)) \/ []<>Crowded(a)

\* "Um item inválido não pode interromper os demais" (media-interpretation.worker.ts): the
\* damaged ones never keep the worker from a younger one.  They do once they fill a batch.
OthersAreInterpreted ==
    \A a \in Asset :
        a \in Candidates ~> (Handled(a) \/ \E b \in 1..(a - 1) : control[b] = "human")
=============================================================================
