--------------------------- MODULE KnowledgeBase ---------------------------
(***************************************************************************)
(* The knowledge base (knowledge-management.use-case.ts and                *)
(* prisma-knowledge.repository.ts): one document whose versions are        *)
(* drafted, edited, published and archived by people, the suggestions and  *)
(* gaps the agents report, and the original of an uploaded file.           *)
(*                                                                         *)
(* Every mutation is a command: a READ COMMITTED transaction that locks    *)
(* the command's id, answers a repeated command from the audit and else    *)
(* runs.  The lock keeps apart two calls of one command, nothing keeps     *)
(* apart two commands on one version.  A transaction is split where other  *)
(* commits may come between what it read and what it writes, and it may    *)
(* fail at any point.                                                      *)
(***************************************************************************)
EXTENDS Naturals, FiniteSets

CONSTANTS
  Command,      \* command ids of people and agents
  Call,         \* calls under way at one time
  Text,         \* contents of the article
  MaxVersion    \* bound on the versions of the document

KnowledgeAssumption == MaxVersion \in Nat \ {0}

VARIABLES
  source,       \* "none", "article" or "file": the document
  archived,     \* the document is archived
  version,      \* [1..MaxVersion -> NoVersion or the version]
  original,     \* the original of the file is in the storage
  suggestion,   \* "none", "pending", "approved" or "rejected"
  gap,          \* status and number of observations of the topic
  audit,        \* [Command -> NoOp or the operation recorded for it]
  call          \* [Call -> what the call is doing]

vars == <<source, archived, version, original, suggestion, gap, audit, call>>
content == <<source, archived, version, original>>
reports == <<suggestion, gap>>

Version == 1..MaxVersion
NoText == "no text"
NoVersion == [status |-> "none", text |-> NoText, chunks |-> NoText]
NoOp == [op |-> "none"]
Idle == [at |-> "idle"]

Init ==
  /\ source = "none"
  /\ archived = FALSE
  /\ version = [v \in Version |-> NoVersion]
  /\ original = FALSE
  /\ suggestion = "none"
  /\ gap = [status |-> "none", count |-> 0]
  /\ audit = [c \in Command |-> NoOp]
  /\ call = [k \in Call |-> Idle]

---------------------------------------------------------------------------
(* Commands. *)

Recorded(c) == audit[c] # NoOp

\* A call takes the lock of its command and finds it new.  A recorded one
\* is answered from the audit or refused for its fingerprint, without a
\* write either way.
Starts(k, c) ==
  /\ call[k] = Idle
  /\ ~Recorded(c)
  /\ \A other \in Call : call[other] # Idle => call[other].command # c

Becomes(k, s) == call' = [call EXCEPT ![k] = s]

\* The operation and its audit are committed together.
Commits(k, c, op) ==
  /\ audit' = [audit EXCEPT ![c] = [op |-> op]]
  /\ Becomes(k, Idle)

\* The transaction fails, or the process stops: nothing of it stays.
CallFails(k) ==
  /\ call[k] # Idle
  /\ Becomes(k, Idle)
  /\ UNCHANGED <<content, reports, audit>>

---------------------------------------------------------------------------
(* Drafts. *)

Drafts == {v \in Version : version[v].status = "draft"}
Published == {v \in Version : version[v].status = "published"}
Existing == {v \in Version : version[v] # NoVersion}
Latest == CHOOSE v \in Existing : \A w \in Existing : w <= v

Draft(text, chunks) == [status |-> "draft", text |-> text, chunks |-> chunks]

\* createArticle cuts the chunks from the content it stores.
Article(t) == Draft(t, t)

CreateArticle(k, c, t) ==
  /\ Starts(k, c)
  /\ source = "none"
  /\ source' = "article"
  /\ version' = [version EXCEPT ![1] = Article(t)]
  /\ Commits(k, c, "create")
  /\ UNCHANGED <<archived, original, reports>>

\* uploadOriginal: the original is stored under a key made of its content
\* before the transaction, and stays when that fails.
StoreOriginal(k, c) ==
  /\ Starts(k, c)
  /\ source = "none"
  /\ original' = TRUE
  /\ Becomes(k, [at |-> "stored", command |-> c])
  /\ UNCHANGED <<source, archived, version, reports, audit>>

\* The extraction of a file may leave no text.
Extracted == {Draft(t, t) : t \in Text \cup {NoText}}

CreateFile(k) ==
  /\ call[k].at = "stored"
  /\ source = "none"
  /\ source' = "file"
  /\ \E d \in Extracted : version' = [version EXCEPT ![1] = d]
  /\ Commits(k, call[k].command, "create")
  /\ UNCHANGED <<archived, original, reports>>

MayDraft(expected) ==
  /\ source = "article"
  /\ ~archived
  /\ Latest = expected
  /\ Drafts = {}

\* createNextDraft reads the article; the unique version number refuses a
\* second draft of the same number at the write.
ReadForDraft(k, c) ==
  /\ Starts(k, c)
  /\ \E expected \in Existing :
       /\ MayDraft(expected)
       /\ expected < MaxVersion
       /\ \E t \in Text \cup {version[expected].text} :
            /\ t # NoText
            /\ Becomes(k, [at |-> "drafting", command |-> c,
                           version |-> expected + 1, text |-> t])
  /\ UNCHANGED <<content, reports, audit>>

CreateNextDraft(k) ==
  /\ call[k].at = "drafting"
  /\ LET v == call[k].version IN
       /\ version[v] = NoVersion
       /\ version' = [version EXCEPT ![v] = Article(call[k].text)]
  /\ Commits(k, call[k].command, "draft")
  /\ UNCHANGED <<source, archived, original, reports>>

\* updateDraft reads the draft, whose content is the one the editor saw.
ReadForEdit(k, c, v, t) ==
  /\ Starts(k, c)
  /\ source = "article"
  /\ v \in Drafts
  /\ t # version[v].text
  /\ Becomes(k, [at |-> "editing", command |-> c, version |-> v, text |-> t,
                 seen |-> version[v].text])
  /\ UNCHANGED <<content, reports, audit>>

\* The trigger on the chunks refuses to change those of a version that is
\* not a draft any more; the transaction then fails.
Mutable(v) == version[v].status = "draft"

\* It deletes the chunks, which locks them until its end.
DropChunks(k) ==
  /\ call[k].at = "editing"
  /\ Mutable(call[k].version)
  /\ \A other \in Call :
       call[other].at = "dropped" => call[other].version # call[k].version
  /\ Becomes(k, [call[k] EXCEPT !.at = "dropped"])
  /\ UNCHANGED <<content, reports, audit>>

\* It updates the version, if that is still a draft, and writes the chunks
\* of the new text.
WriteEdit(k) ==
  /\ call[k].at = "dropped"
  /\ Mutable(call[k].version)
  /\ LET v == call[k].version IN
       version' = [version EXCEPT
         ![v].text = IF version[v].status = "draft" THEN call[k].text ELSE @,
         ![v].chunks = call[k].text]
  /\ Commits(k, call[k].command, "edit")
  /\ UNCHANGED <<source, archived, original, reports>>

---------------------------------------------------------------------------
(* Publication and archive. *)

\* publishVersion reads a draft with text and chunks.
ReadForPublish(k, c, v) ==
  /\ Starts(k, c)
  /\ ~archived
  /\ v \in Drafts
  /\ version[v].text # NoText
  /\ version[v].chunks # NoText
  /\ Becomes(k, [at |-> "publishing", command |-> c, version |-> v])
  /\ UNCHANGED <<content, reports, audit>>

\* Its first statement finds and locks the versions to supersede.
FindSuperseded(k) ==
  /\ call[k].at = "publishing"
  /\ \A other \in Call :
       call[other].at = "superseding" =>
         call[other].old \cap Published = {}
  /\ Becomes(k, [at |-> "superseding", command |-> call[k].command,
                 version |-> call[k].version,
                 old |-> Published \ {call[k].version}])
  /\ UNCHANGED <<content, reports, audit>>

\* The draft is published, if it still is one.  The unique index refuses a
\* second published version.
Publish(k) ==
  /\ call[k].at = "superseding"
  /\ Published \subseteq call[k].old \cup {call[k].version}
  /\ LET n == call[k].version IN
       version' = [v \in Version |->
         IF v \in call[k].old THEN [version[v] EXCEPT !.status = "superseded"]
         ELSE IF v = n /\ version[v].status = "draft"
         THEN [version[v] EXCEPT !.status = "published"]
         ELSE version[v]]
  /\ Commits(k, call[k].command, "publish")
  /\ UNCHANGED <<source, archived, original, reports>>

\* A row another transaction has locked is waited for.
Unlocked(v) ==
  \A other \in Call :
    call[other].at = "superseding" => v \notin call[other].old

ArchiveVersion(k, c, v) ==
  /\ Starts(k, c)
  /\ v \in Existing
  /\ Unlocked(v)
  /\ version' = [version EXCEPT ![v].status = "archived"]
  /\ Commits(k, c, "archive version")
  /\ UNCHANGED <<source, archived, original, reports>>

ArchiveDocument(k, c) ==
  /\ Starts(k, c)
  /\ source # "none"
  /\ ~archived
  /\ \A v \in Existing : Unlocked(v)
  /\ archived' = TRUE
  /\ version' = [v \in Version |->
       IF version[v] = NoVersion THEN NoVersion
       ELSE [version[v] EXCEPT !.status = "archived"]]
  /\ Commits(k, c, "archive document")
  /\ UNCHANGED <<source, original, reports>>

---------------------------------------------------------------------------
(* Suggestions and gaps. *)

Suggest(k, c) ==
  /\ Starts(k, c)
  /\ suggestion = "none"
  /\ suggestion' = "pending"
  /\ Commits(k, c, "suggest")
  /\ UNCHANGED <<content, gap>>

\* reviewSuggestion finds the suggestion pending and writes its decision.
ReadForReview(k, c, decision) ==
  /\ Starts(k, c)
  /\ suggestion = "pending"
  /\ Becomes(k, [at |-> "reviewing", command |-> c, decision |-> decision])
  /\ UNCHANGED <<content, reports, audit>>

ReviewSuggestion(k) ==
  /\ call[k].at = "reviewing"
  /\ suggestion' = call[k].decision
  /\ Commits(k, call[k].command, "review")
  /\ UNCHANGED <<content, gap>>

\* observeAgentGap reads the topic's row under a lock on the topic.
ReadGap(k, c) ==
  /\ Starts(k, c)
  /\ \A other \in Call : call[other].at # "observing"
  /\ Becomes(k, [at |-> "observing", command |-> c, count |-> gap.count])
  /\ UNCHANGED <<content, reports, audit>>

\* The row is created open, or its count is moved on; its status is left.
ObserveGap(k) ==
  /\ call[k].at = "observing"
  /\ gap.count = call[k].count
  /\ gap' = IF gap.status = "none" THEN [status |-> "open", count |-> 1]
            ELSE [gap EXCEPT !.count = @ + 1]
  /\ Commits(k, call[k].command, "observe")
  /\ UNCHANGED <<content, suggestion>>

ReviewGap(k, c, decision) ==
  /\ Starts(k, c)
  /\ gap.status # "none"
  /\ gap' = [gap EXCEPT !.status = decision]
  /\ Commits(k, c, "review gap")
  /\ UNCHANGED <<content, suggestion>>

Next ==
  \E k \in Call :
    \/ \E c \in Command :
         \/ \E t \in Text : CreateArticle(k, c, t)
         \/ StoreOriginal(k, c)
         \/ ReadForDraft(k, c)
         \/ \E v \in Version, t \in Text : ReadForEdit(k, c, v, t)
         \/ \E v \in Version : ReadForPublish(k, c, v)
         \/ \E v \in Version : ArchiveVersion(k, c, v)
         \/ ArchiveDocument(k, c)
         \/ Suggest(k, c)
         \/ \E d \in {"approved", "rejected"} : ReadForReview(k, c, d)
         \/ ReadGap(k, c)
         \/ \E d \in {"acknowledged", "resolved", "dismissed"} :
              ReviewGap(k, c, d)
    \/ CreateFile(k)
    \/ CreateNextDraft(k)
    \/ DropChunks(k)
    \/ WriteEdit(k)
    \/ FindSuperseded(k)
    \/ Publish(k)
    \/ ReviewSuggestion(k)
    \/ ObserveGap(k)
    \/ CallFails(k)

Spec == Init /\ [][Next]_vars

---------------------------------------------------------------------------
(* Properties. *)

\* The count of a gap is the number of commands that observed it, however
\* often a command was repeated, lost its answer or met another.
GapCountsCommands ==
  gap.count = Cardinality({c \in Command : audit[c].op = "observe"})

\* What the agents retrieve of a published version stays what was published,
\* whatever edits of the draft were under way when it was published.
PublishedIsNotEdited ==
  [][\A v \in Published :
       (version'[v].status = "published") => version'[v] = version[v]]_vars

\* docs/knowledge-base.md: a draft is edited with the hash of the content the
\* editor saw; an edit then never replaces a text its editor did not see.
EditsAreSeen ==
  [][\A k \in Call :
       (call[k].at = "dropped" /\ call'[k] # call[k] /\ audit' # audit) =>
         version[call[k].version].text = call[k].seen]_vars

\* docs/knowledge-base.md: a publication supersedes the version before it and
\* promotes the draft; it leaves a published version.
PublicationPublishes ==
  [][\A k \in Call :
       (call[k].at = "superseding" /\ call'[k] = Idle /\ audit' # audit) =>
         version'[call[k].version].status = "published"]_vars
=============================================================================
