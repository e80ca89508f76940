--------------------------- MODULE TransportWorker ---------------------------
(***************************************************************************)
(* The import of trips from the fleet provider and their odometer analysis *)
(* for one vehicle of one tenant (transport-worker.service.ts,             *)
(* transport-import.service.ts).                                           *)
(*                                                                         *)
(* A worker holds the lease of the tenant for two minutes; when it is      *)
(* slower, the lease lapses and another worker runs beside it.  In a turn  *)
(* it reads one page of the oldest import that is due, if the integration  *)
(* was enabled when the turn began, stores it under the lock of the tenant *)
(* if the import is still as it was read, and analyses one page of the     *)
(* oldest analysis.  An import asks the provider for its                   *)
(* window and a margin on both sides; it is analysed over its window and   *)
(* one day on both sides.                                                  *)
(*                                                                         *)
(* Here the vehicle has one record a day, whose content is a number that   *)
(* grows with each correction at the provider, and a page is one record.   *)
(* Left out: the readings, the issues an analysis opens and their          *)
(* verification, quarantined rows, records that move to another day.       *)
(***************************************************************************)
EXTENDS Naturals, Sequences

CONSTANTS
    Worker,       \* processes that run the worker
    LastDay,      \* bound: civil days
    Window,       \* <<from, to>> of the imports asked for
    Lookback,     \* lookbackDays
    MaxAttempts,  \* 5
    MaxImports,   \* bound: imports asked for
    MaxEdits,     \* bound: corrections at the provider, resumptions, configurations
    MaxFaults     \* bound: failed pages, lapsed leases and crashes

Day == 1..LastDay

WorkerAssumption ==
    /\ Window \subseteq Day \X Day /\ \A w \in Window : w[1] <= w[2]
    /\ Lookback \in Nat \ {0} /\ MaxAttempts \in Nat \ {0}
    /\ MaxImports \in Nat /\ MaxEdits \in Nat /\ MaxFaults \in Nat

VARIABLES
    enabled,      \* the panel has the integration enabled
    source,       \* [Day -> the record at the provider]
    stored,       \* [Day -> the copy, 0 before the first]
    storedBy,     \* [Day -> the window of the import that changed the copy last]
    analysed,     \* [Day -> the copy that was analysed last]
    imports,      \* the imports, oldest first
    analyses,     \* the open analyses, oldest first
    lease,        \* the worker that holds it, or "free"
    turn,         \* [Worker -> where it stands and the page it has read]
    edits, faults \* counters of the bounds

store == <<stored, storedBy, analysed>>
vars == <<enabled, source, stored, storedBy, analysed, imports, analyses, lease, turn,
          edits, faults>>

Within(d, w, margin) == d + margin >= w[1] /\ d <= w[2] + margin

\* readPage: the days of an import, in the order of its pages
Fetched(w) == {d \in Day : Within(d, w, Lookback)}
Analysed(w) == {d \in Day : Within(d, w, 1)}
After(days, cursor) == {d \in days : d > cursor}
First(days) == CHOOSE d \in days : \A e \in days : d <= e

Resting == [at |-> "rest", import |-> 0, version |-> 0, cursor |-> 0, content |-> 0]

Init ==
    /\ enabled \in BOOLEAN /\ source = [d \in Day |-> 1]
    /\ stored = [d \in Day |-> 0] /\ analysed = [d \in Day |-> 0]
    /\ storedBy = [d \in Day |-> << >>]
    /\ imports = << >> /\ analyses = << >>
    /\ lease = "free" /\ turn = [k \in Worker |-> Resting]
    /\ edits = 0 /\ faults = 0

-----------------------------------------------------------------------------
(* The provider and the panel *)

Correct(d) ==
    /\ edits < MaxEdits /\ edits' = edits + 1
    /\ source' = [source EXCEPT ![d] = @ + 1]
    /\ UNCHANGED <<enabled, store, imports, analyses, lease, turn, faults>>

\* configure: enables or disables the integration; what is queued stays queued.
Configure ==
    /\ edits < MaxEdits /\ edits' = edits + 1
    /\ enabled' = ~enabled
    /\ UNCHANGED <<source, store, imports, analyses, lease, turn, faults>>

\* createImport, enabled or not; the daily schedule and a verification ask in the same way
Ask(w) ==
    /\ Len(imports) < MaxImports
    /\ imports' = Append(imports, [window |-> w, status |-> "queued", cursor |-> 0,
                                   attempts |-> 0, waits |-> FALSE, version |-> 1])
    /\ UNCHANGED <<enabled, source, store, analyses, lease, turn, edits, faults>>

Resume(i) ==
    /\ edits < MaxEdits /\ edits' = edits + 1
    /\ i \in 1..Len(imports) /\ imports[i].status = "failed"
    /\ imports' = [imports EXCEPT ![i].status = "queued", ![i].attempts = 0,
                                  ![i].version = @ + 1]
    /\ UNCHANGED <<enabled, source, store, analyses, lease, turn, faults>>

-----------------------------------------------------------------------------
(* A turn of a worker *)

At(k, place) == turn[k].at = place
Go(k, place) == turn' = [turn EXCEPT ![k] = [Resting EXCEPT !.at = place]]

\* The integrations are listed, enabled or not, before their leases are asked for.
List(k) ==
    /\ At(k, "rest") /\ Go(k, IF enabled THEN "enabled" ELSE "disabled")
    /\ UNCHANGED <<enabled, source, store, imports, analyses, lease, edits, faults>>

\* A lease that another holds ends the turn; only what was listed as enabled imports.
TakeLease(k) ==
    /\ \/ lease = "free" /\ lease' = k
          /\ \/ At(k, "enabled") /\ Go(k, "import")
             \/ At(k, "disabled") /\ Go(k, "analysis")
       \/ lease # "free" /\ UNCHANGED lease
          /\ (At(k, "enabled") \/ At(k, "disabled")) /\ Go(k, "rest")
    /\ UNCHANGED <<enabled, source, store, imports, analyses, edits, faults>>

\* Mutant: an import that was begun is not found again.
BadDue == {i \in 1..Len(imports) : imports[i].status = "queued" /\ ~imports[i].waits}

Due == {i \in 1..Len(imports) : imports[i].status \in {"queued", "running"} /\ ~imports[i].waits}

\* nextAttemptAt passes.
BecomesDue(i) ==
    /\ i \in 1..Len(imports) /\ imports[i].waits
    /\ imports' = [imports EXCEPT ![i].waits = FALSE]
    /\ UNCHANGED <<enabled, source, store, analyses, lease, turn, edits, faults>>

\* The page is read from the provider before the lock is taken; 0 is an empty one.
ReadPage(k, i) ==
    /\ At(k, "import") /\ i \in Due /\ \A j \in Due : i <= j
    /\ LET rest == After(Fetched(imports[i].window), imports[i].cursor)
       IN  turn' = [turn EXCEPT ![k] =
                [at |-> "page", import |-> i, version |-> imports[i].version,
                 cursor |-> imports[i].cursor, content |-> IF rest = {} THEN 0 ELSE source[First(rest)]]]
    /\ UNCHANGED <<enabled, source, store, imports, analyses, lease, edits, faults>>

\* Mutant: a running analysis of the same window goes on.
BadEnqueued(w) ==
    IF \E a \in 1..Len(analyses) : analyses[a].window = w
    THEN analyses
    ELSE Append(analyses, [window |-> w, cursor |-> 0, status |-> "queued"])

\* enqueueAnalysis: a running analysis of the same window starts again.
Enqueued(w) ==
    IF \E a \in 1..Len(analyses) : analyses[a].window = w
    THEN [a \in 1..Len(analyses) |->
            IF analyses[a].window = w
            THEN [analyses[a] EXCEPT !.cursor = 0, !.status = "queued"] ELSE analyses[a]]
    ELSE Append(analyses, [window |-> w, cursor |-> 0, status |-> "queued"])

StillAsRead(t) == imports[t.import].version = t.version

\* The page, the checkpoint and, at the end, the analysis are stored together.
StorePage(k) ==
    LET t == turn[k]
        job == imports[t.import]
        rest == After(Fetched(job.window), t.cursor)
        d == First(rest)
    IN  /\ At(k, "page") /\ Go(k, "analysis")
        /\ \/ ~StillAsRead(t) /\ UNCHANGED <<store, imports, analyses>>
           \/ /\ StillAsRead(t) /\ t.content # 0 /\ rest # {}
              /\ stored' = [stored EXCEPT ![d] = t.content]
              /\ storedBy' = IF stored[d] = t.content THEN storedBy
                             ELSE [storedBy EXCEPT ![d] = job.window]
              /\ imports' = [imports EXCEPT ![t.import] =
                    [job EXCEPT !.status = "running", !.cursor = d, !.attempts = 0,
                                !.version = @ + 1]]
              /\ UNCHANGED <<analysed, analyses>>
           \/ /\ StillAsRead(t) /\ (t.content = 0 \/ rest = {})
              /\ imports' = [imports EXCEPT ![t.import] =
                    [job EXCEPT !.status = "completed", !.attempts = 0, !.version = @ + 1]]
              /\ analyses' = Enqueued(job.window)
              /\ UNCHANGED store
        /\ UNCHANGED <<enabled, source, lease, edits, faults>>

AfterFailure(attempts) == IF attempts >= MaxAttempts THEN "failed" ELSE "queued"

\* The page cannot be read or stored: the cursor is kept.
PageFails(k) ==
    LET t == turn[k]
        job == imports[t.import]
    IN  /\ At(k, "page") /\ Go(k, "analysis")
        /\ faults < MaxFaults /\ faults' = faults + 1
        /\ imports' = IF job.version # t.version THEN imports
             ELSE [imports EXCEPT ![t.import] =
                    [job EXCEPT !.attempts = @ + 1, !.status = AfterFailure(job.attempts + 1),
                                !.waits = job.attempts + 1 < MaxAttempts, !.version = @ + 1]]
        /\ UNCHANGED <<enabled, source, store, analyses, lease, edits>>

\* analyzePage, under the lock of the tenant; then the turn ends, and the worker
\* gives back its own lease only.
AnalysePage(k) ==
    /\ At(k, "analysis") \/ (At(k, "import") /\ Due = {})
    /\ Go(k, "rest")
    /\ lease' = IF lease = k THEN "free" ELSE lease
    /\ IF analyses = << >> THEN UNCHANGED <<analysed, analyses>>
       ELSE LET job == analyses[1]
                rest == {d \in After(Analysed(job.window), job.cursor) : stored[d] > 0}
            IN  IF rest = {} THEN analyses' = Tail(analyses) /\ UNCHANGED analysed
                ELSE /\ analysed' = [analysed EXCEPT ![First(rest)] = stored[First(rest)]]
                     /\ analyses' = [analyses EXCEPT ![1] =
                            [job EXCEPT !.cursor = First(rest), !.status = "running"]]
    /\ UNCHANGED <<enabled, source, stored, storedBy, imports, edits, faults>>

Lapse(k) ==
    /\ faults < MaxFaults /\ faults' = faults + 1
    /\ lease = k /\ ~At(k, "rest") /\ lease' = "free"
    /\ UNCHANGED <<enabled, source, store, imports, analyses, turn, edits>>

\* The process stops; its lease lapses in time.
Crash(k) ==
    /\ faults < MaxFaults /\ faults' = faults + 1
    /\ ~At(k, "rest") /\ Go(k, "rest")
    /\ lease' = IF lease = k THEN "free" ELSE lease
    /\ UNCHANGED <<enabled, source, store, imports, analyses, edits>>

Turn(k) ==
    \/ List(k) \/ TakeLease(k) \/ (\E i \in 1..MaxImports : ReadPage(k, i))
    \/ StorePage(k) \/ PageFails(k) \/ AnalysePage(k)

Next ==
    \/ Configure \/ \E d \in Day : Correct(d)
    \/ \E w \in Window : Ask(w)
    \/ \E i \in 1..MaxImports : Resume(i) \/ BecomesDue(i)
    \/ \E k \in Worker : Turn(k) \/ Lapse(k) \/ Crash(k)

Spec == Init /\ [][Next]_vars

\* The timer of a process starts a turn again and again, and a turn goes on;
\* time passes for an import that waits.
FairSpec ==
    /\ Spec
    /\ \A k \in Worker : WF_vars(Turn(k))
    /\ \A i \in 1..MaxImports : WF_vars(BecomesDue(i))

-----------------------------------------------------------------------------
(* Properties *)

Quiet == analyses = << >> /\ \A i \in 1..Len(imports) : imports[i].status = "completed"

\* When no import and no analysis is left, what imports changed within their
\* window was analysed as it is stored: no correction slipped behind the
\* cursor of a running analysis.
ChangesAreAnalysed ==
    Quiet => \A d \in Day : stored[d] = analysed[d] \/ d \notin Analysed(storedBy[d])

InStatus(i, S) == i \in 1..Len(imports) /\ imports[i].status \in S

\* An import that was asked for is completed, or fails and says so, as long as the
\* integration stays enabled: an import of a disabled one waits until it is enabled again.
EventuallyImported ==
    \A i \in 1..MaxImports :
        InStatus(i, {"queued", "running"}) ~> (InStatus(i, {"completed", "failed"}) \/ ~enabled)
==============================================================================
