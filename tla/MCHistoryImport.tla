-------------------------- MODULE MCHistoryImport --------------------------
(***************************************************************************)
(* One batch of the history import on small files, with one disturbance of *)
(* its course in each behaviour.  A cancellation may come in all of them.  *)
(***************************************************************************)
EXTENDS HistoryImport

VARIABLE disturbance

Disturbances ==
  {"process stops", "batch expires", "database forgotten", "media forgotten",
   "late error"}

ImportInit == Init /\ disturbance \in Disturbances

ImportNext == Next /\ UNCHANGED disturbance

ImportSpec == ImportInit /\ [][ImportNext]_<<vars, disturbance>>

\* The write that marks the batch as applied went through and threw.
ThrewAfterWrite ==
  row.status = "applied" /\ job["import"] \in {"failing", "marking"}

\* The course each disturbance is followed on.  Blocks of the media are followed
\* once the backup they belong to is confirmed; a backup that refers to no media
\* is the one that may expire or meet a late error, which touch its status
\* only, and its media ZIP is not followed; the media is forgotten while the import
\* runs, and not sent again after it.
OneDisturbance ==
  /\ \A r \in Request : confirming[r] # "idle" => up["media"].content = <<>>
  /\ crashes > 0 => disturbance = "process stops"
  /\ overdue => disturbance = "batch expires"
  /\ lock = "forget database" => disturbance = "database forgotten"
  /\ lock = "forget media" =>
       disturbance = "media forgotten" /\ job["import"] # "idle"
  /\ ThrewAfterWrite => disturbance = "late error"
  /\ disturbance \in {"batch expires", "late error"} => up["media"].content = <<>>
  /\ disturbance = "media forgotten" =>
       ~(up["media"].status = "uploading" /\ row.status # "draft")
  /\ row # NoRow /\ row.android =>
       row.references = (disturbance \notin {"batch expires", "late error"})
=============================================================================
