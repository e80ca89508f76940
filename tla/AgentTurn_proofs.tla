--------------------------- MODULE AgentTurn_proofs ---------------------------
(* Theorems about the turn of the agents, for any number of workers, runtimes, *)
(* tool calls, attempts of the event and faults: the command of a tool call is *)
(* applied once, the audit tells what was applied, and what is decided comes   *)
(* from an execution that succeeded.  And about the media, for any number of   *)
(* assets and runtimes: an asset is interpreted at most once.                  *)
EXTENDS AgentsAndMedia, TLAPS

-----------------------------------------------------------------------------
(* The inductive invariant *)

\* Steps of an execution that is under way, and among them those of a tool call.
Calling == {"begin", "check", "allow", "recheck", "apply", "audit"}
Inside == Calling \cup {"generate", "follow", "record", "complete", "fail"}

\* Steps before the first execution, and before each.
Before == {"idle", "read", "load", "create"}

CallNumber == 1..MaxCalls
Outcomes == {"failed", "succeeded"}
ExecutionRow == [status : {"none", "running", "succeeded", "failed"},
                 runs : {0, 1}, log : Seq(Outcomes)]
TaskRow == [at : Place, agent : Agent, runtime : 1..(Runtimes + 1), asked : 0..MaxCalls,
            seq : 1..(MaxCalls + 1), by : {"orchestrator", "fallback"}]

\* The audit rows, and what else the turn keeps.
AuditTypes ==
    /\ execution \in [Agent -> ExecutionRow]
    /\ call \in [Agent -> [CallNumber -> CallStatus]]
    /\ commands \subseteq Agent \X {1} \X CallNumber
Surroundings ==
    /\ event \in [status : {"pending", "processing", "processed", "dead"},
                  attempts : 0..MaxAttempts, holder : SUBSET Worker]
    /\ control \in {"ai", "human"}
    /\ faults \in 0..MaxFaults
TurnTypes == AuditTypes /\ Surroundings /\ task \in [Worker -> TaskRow]

Applied(a, n) == <<a, 1, n>> \in commands
Untouched(a, n) == call[a][n] = "none" /\ ~Applied(a, n)
Audited(a, n) == /\ call[a][n] \in {"none", "requested", "denied"} => ~Applied(a, n)
                 /\ call[a][n] = "succeeded" => Applied(a, n)

AllFailed(log) == \A i \in 1..Len(log) : log[i] = "failed"
Earned(log) == /\ Len(log) >= 1
               /\ \A i \in 1..Len(log) : log[i] = "succeeded" <=> i = Len(log)

\* An agent runs once, and its calls tell what was applied.
AgentInv(a) ==
    /\ execution[a].status = "none" =>
         /\ execution[a].runs = 0 /\ execution[a].log = << >>
         /\ \A n \in CallNumber : Untouched(a, n)
    /\ execution[a].status # "none" => execution[a].runs = 1
    /\ Len(execution[a].log) <= Runtimes
    /\ \A n \in CallNumber : Audited(a, n)
    /\ execution[a].status = "succeeded" => Earned(execution[a].log)

\* How far the call that t is at has come, with no later one begun.
Stage(t) ==
    LET status == call[t.agent][t.seq]
    IN  /\ t.seq <= t.asked
        /\ \A n \in CallNumber : n > t.seq => Untouched(t.agent, n)
        /\ t.at = "begin" => Untouched(t.agent, t.seq)
        /\ t.at \in {"check", "allow"} => status = "requested"
        /\ t.at \in {"recheck", "apply"} => status = "allowed" /\ ~Applied(t.agent, t.seq)
        /\ t.at = "audit" => status = "allowed" /\ Applied(t.agent, t.seq)

\* How far a worker at t is with an execution.
InsideRow(t) ==
    LET row == execution[t.agent]
    IN  /\ row.status = "running"
        /\ t.at \notin {"complete", "fail"} =>
             AllFailed(row.log) /\ Len(row.log) = t.runtime - 1 /\ t.runtime <= Runtimes
        /\ t.at = "complete" => Earned(row.log)
        /\ t.at = "generate" =>
             t.asked = 0 /\ \A n \in CallNumber : Untouched(t.agent, n)
        /\ t.at \in Calling => Stage(t)
        /\ t.at = "follow" => t.asked >= 1

Served == execution["customer"].status = "succeeded"

\* What a worker outside an execution is on its way to.
OutsideRow(t) ==
    /\ t.at \in Before => t.runtime = 1 /\ t.asked = 0
    /\ t.at = "store" \/ t.agent = "routing" => Served
    /\ t.at = "output" => execution[t.agent].status = "succeeded"

\* One worker at most is at an execution.
Alone == \A v, w \in Worker :
    task[v].at \in Inside /\ task[w].at \in Inside /\ task[v].agent = task[w].agent => v = w

DecisionRows ==
    /\ decision \in {{}} \cup {{d} : d \in [run : {1}, by : {"orchestrator", "fallback"}]}
    /\ reply \in {{}, decision}
DecisionInv == DecisionRows /\ (decision # {} => Served)

TurnInv ==
    /\ TurnTypes
    /\ \A a \in Agent : AgentInv(a)
    /\ \A w \in Worker : task[w].at \in Inside => InsideRow(task[w])
    /\ \A w \in Worker : OutsideRow(task[w])
    /\ Alone
    /\ DecisionInv

LEMMA InvImplies == TurnInv => TypeOK /\ ToolOnce /\ AuditIsTrue /\ DecisionIsEarned
<1> SUFFICES ASSUME TurnInv PROVE TypeOK /\ ToolOnce /\ AuditIsTrue /\ DecisionIsEarned
  OBVIOUS
<1>0. MaxAttempts \in Nat \ {0} /\ Runtimes \in Nat \ {0} /\ MaxCalls \in Nat
  BY TurnAssumption
<1>1. \A a \in Agent :
         execution[a] \in [status : {"none", "running", "succeeded", "failed"},
                           runs : 0..MaxAttempts, log : BoundedSeq(Outcomes, Runtimes)]
  <2> TAKE a \in Agent
  <2>1. /\ execution[a] \in ExecutionRow /\ Len(execution[a].log) <= Runtimes
    BY DEF TurnInv, TurnTypes, AuditTypes, AgentInv
  <2>2. execution[a].log \in Seq(Outcomes)
    BY <2>1 DEF ExecutionRow
  <2>3. execution[a].log \in [1..Len(execution[a].log) -> Outcomes]
        /\ Len(execution[a].log) \in 0..Runtimes
    BY <1>0, <2>1, <2>2
  <2>4. execution[a].log \in BoundedSeq(Outcomes, Runtimes)
    BY <1>0, <2>3 DEF BoundedSeq, SeqOf
  <2> QED
    BY <1>0, <2>1, <2>4 DEF ExecutionRow
<1>2. TypeOK
  <2>1. commands \subseteq Agent \X (1..MaxAttempts) \X (1..MaxCalls)
    BY <1>0 DEF TurnInv, TurnTypes, AuditTypes, CallNumber
  <2>2. /\ decision \in {{}} \cup {{d} : d \in [run : 1..MaxAttempts,
                                              by : {"orchestrator", "fallback"}]}
        /\ reply \in {{}, decision}
    BY <1>0 DEF TurnInv, DecisionInv, DecisionRows
  <2>3. execution \in [Agent -> [status : {"none", "running", "succeeded", "failed"},
                                runs : 0..MaxAttempts,
                                log : BoundedSeq({"failed", "succeeded"}, Runtimes)]]
    BY <1>1 DEF TurnInv, TurnTypes, AuditTypes, Outcomes
  <2> QED
    BY <2>1, <2>2, <2>3
       DEF TypeOK, TurnInv, TurnTypes, AuditTypes, Surroundings, TaskRow, CallNumber
<1>3. ToolOnce
  BY DEF TurnInv, TurnTypes, AuditTypes, ToolOnce
<1>4. AuditIsTrue
  <2> SUFFICES ASSUME NEW a \in Agent, NEW n \in CallNumber
               PROVE  LET applied == <<a, execution[a].runs, n>> \in commands
                      IN  /\ call[a][n] \in {"none", "requested", "denied"} => ~applied
                          /\ call[a][n] = "succeeded" => applied
    BY DEF AuditIsTrue, CallNumber
  <2>1. AgentInv(a) /\ commands \subseteq Agent \X {1} \X CallNumber
    BY DEF TurnInv, TurnTypes, AuditTypes
  <2>2. CASE execution[a].status = "none"
    BY <2>1, <2>2 DEF AgentInv, Untouched
  <2>3. CASE execution[a].status # "none"
    BY <2>1, <2>3 DEF AgentInv, Audited, Applied
  <2> QED
    BY <2>2, <2>3
<1>5. DecisionIsEarned
  <2>1. decision # {} => Served
    BY DEF TurnInv, DecisionInv
  <2>2. reply \subseteq decision
    BY DEF TurnInv, DecisionInv, DecisionRows
  <2>3. "customer" \in Agent
    BY DEF Agent
  <2>4. execution["customer"].log \in Seq(Outcomes)
    BY <2>3 DEF TurnInv, TurnTypes, AuditTypes, ExecutionRow
  <2>5. DOMAIN execution["customer"].log = 1..Len(execution["customer"].log)
    BY <2>4
  <2>6. Served => Earned(execution["customer"].log)
    BY <2>3 DEF TurnInv, AgentInv, Served
  <2> QED
    BY <2>1, <2>2, <2>5, <2>6 DEF DecisionIsEarned, Served, Earned
<1> QED
  BY <1>2, <1>3, <1>4, <1>5

-----------------------------------------------------------------------------
(* What a step of one worker may disturb *)

\* Only the audit of agent a changes.
RestKept(a) ==
    \A b \in Agent \ {a} :
        /\ execution'[b] = execution[b] /\ call'[b] = call[b]
        /\ \A n \in CallNumber : Applied(b, n)' <=> Applied(b, n)

\* Worker w is at an execution of agent a, or nobody was yet.
Owns(w, a) == \/ execution[a].status = "none"
              \/ task[w].at \in Inside /\ task[w].agent = a

LEMMA TurnStep ==
    ASSUME TurnInv, NEW w \in Worker, NEW t \in TaskRow, NEW a \in Agent,
           task' = [task EXCEPT ![w] = t],
           AuditTypes', Surroundings', DecisionRows',
           decision' # {} => decision # {} \/ Served,
           RestKept(a), AgentInv(a)',
           UNCHANGED audit \/ Owns(w, a),
           t.at \in Inside => t.agent = a /\ Owns(w, a) /\ InsideRow(t)',
           OutsideRow(t)'
    PROVE  TurnInv'
<1>0. /\ task \in [Worker -> TaskRow] /\ task' \in [Worker -> TaskRow] /\ task'[w] = t
      /\ \A v \in Worker \ {w} : task'[v] = task[v]
  BY DEF TurnInv, TurnTypes
<1>1. ASSUME NEW b \in Agent PROVE AgentInv(b)'
  <2>1. CASE b = a
    BY <2>1
  <2>2. CASE b # a
    <3>1. /\ AgentInv(b) /\ execution'[b] = execution[b] /\ call'[b] = call[b]
          /\ \A n \in CallNumber : Applied(b, n)' <=> Applied(b, n)
      BY <2>2 DEF TurnInv, RestKept
    <3> QED
      BY <3>1 DEF AgentInv, Untouched, Audited
  <2> QED
    BY <2>1, <2>2
<1>2. \A v \in Worker \ {w} :
         Owns(w, a) /\ task[v].at \in Inside => task[v].agent # a
  BY DEF TurnInv, Owns, Alone, InsideRow
<1>3. \A b \in Agent :
         execution[b].status = "succeeded" => execution'[b].status = "succeeded"
  BY DEF TurnInv, RestKept, Owns, InsideRow, audit
<1>4. Served => Served'
  BY <1>3 DEF Served, Agent
<1>5. ASSUME NEW v \in Worker \ {w}, NEW r \in TaskRow, r = task[v], r.at \in Inside
      PROVE  InsideRow(r)'
  <2>1. InsideRow(r)
    BY <1>5 DEF TurnInv
  <2>2. PICK b \in Agent : b = r.agent
    BY DEF TaskRow
  <2>3. /\ execution'[b] = execution[b] /\ call'[b] = call[b]
        /\ \A n \in CallNumber : Applied(b, n)' <=> Applied(b, n)
    <3>1. CASE UNCHANGED audit
      BY <3>1 DEF audit, Applied
    <3>2. CASE Owns(w, a)
      BY <1>2, <1>5, <2>2, <3>2 DEF RestKept
    <3> QED
      BY <3>1, <3>2
  <2>4. r.at \in Calling => r.seq \in CallNumber
    BY <2>1, TurnAssumption DEF InsideRow, Stage, TaskRow, CallNumber
  <2>5. r.at \in Calling => Stage(r)'
    <3>1. ASSUME r.at \in Calling, Stage(r) PROVE Stage(r)'
      BY <2>2, <2>3, <2>4, <3>1 DEF Stage, Untouched
    <3> QED
      BY <2>1, <3>1 DEF InsideRow
  <2> QED
    BY <2>1, <2>2, <2>3, <2>5 DEF InsideRow, Untouched
<1>6. ASSUME NEW v \in Worker \ {w}, NEW r \in TaskRow, r = task[v]
      PROVE  OutsideRow(r)'
  <2>1. OutsideRow(r)
    BY <1>6 DEF TurnInv
  <2> QED
    BY <1>3, <1>4, <2>1 DEF OutsideRow, TaskRow
<1>10. ASSUME NEW v \in Worker
       PROVE  /\ task'[v].at \in Inside => InsideRow(task[v])'
              /\ OutsideRow(task[v])'
  <2>1. PICK r \in TaskRow : r = task'[v]
    BY <1>0
  <2>2. (r.at \in Inside => InsideRow(r)') /\ OutsideRow(r)'
    BY <1>0, <1>5, <1>6, <2>1
  <2> QED
    BY <2>1, <2>2 DEF InsideRow, OutsideRow, Stage, Untouched, Applied
<1>7. Alone'
  BY <1>0, <1>2 DEF TurnInv, Alone
<1>8. DecisionInv'
  BY <1>4 DEF TurnInv, DecisionInv
<1>9. TurnTypes'
  BY <1>0 DEF TurnTypes
<1> QED
  BY <1>1, <1>7, <1>8, <1>9, <1>10 DEF TurnInv

-----------------------------------------------------------------------------
(* Steps outside an execution *)

LEMMA KeptSurroundings ==
    ASSUME TurnInv, UNCHANGED <<event, control>>, UNCHANGED faults \/ Fault
    PROVE  Surroundings'
BY TurnAssumption DEF TurnInv, TurnTypes, Surroundings, Fault

LEMMA KeptDecision ==
    ASSUME TurnInv, UNCHANGED outcome
    PROVE  DecisionRows' /\ (decision' # {} => decision # {})
BY DEF TurnInv, DecisionInv, DecisionRows, outcome

LEMMA KeptAudit ==
    ASSUME TurnInv, UNCHANGED audit, NEW a \in Agent
    PROVE  AuditTypes' /\ RestKept(a) /\ AgentInv(a)'
<1>1. AgentInv(a) /\ AuditTypes
  BY DEF TurnInv, TurnTypes
<1> QED
  BY <1>1 DEF AuditTypes, audit, RestKept, AgentInv, Untouched, Audited, Applied

\* The decision is unchanged, or made when the customer service has succeeded.
Deciding == DecisionRows' /\ (decision' # {} => decision # {} \/ Served)

LEMMA MoveStep ==
    ASSUME TurnInv, NEW w \in Worker, NEW t \in TaskRow, task' = [task EXCEPT ![w] = t],
           UNCHANGED audit, Surroundings', Deciding, t.at \notin Inside, OutsideRow(t)
    PROVE  TurnInv'
<1>1. PICK a \in Agent : a = t.agent
  BY DEF TaskRow
<1>2. OutsideRow(t)'
  BY DEF OutsideRow, Served, audit
<1> QED
  BY <1>1, <1>2, KeptAudit, TurnStep DEF Deciding

LEMMA RowAt ==
    ASSUME TurnInv, NEW w \in Worker, NEW place \in Place, Goto(w, place)
    PROVE  \E t \in TaskRow :
              /\ task' = [task EXCEPT ![w] = t]
              /\ t = [task[w] EXCEPT !.at = place]
              /\ t.at = place /\ t.agent = task[w].agent /\ t.runtime = task[w].runtime
              /\ t.asked = task[w].asked /\ t.seq = task[w].seq /\ t.by = task[w].by
<1> DEFINE t == [task[w] EXCEPT !.at = place]
<1>1. task[w] \in TaskRow
  BY DEF TurnInv, TurnTypes
<1>2. /\ t \in TaskRow
      /\ t.at = place /\ t.agent = task[w].agent /\ t.runtime = task[w].runtime
      /\ t.asked = task[w].asked /\ t.seq = task[w].seq /\ t.by = task[w].by
  BY <1>1 DEF TaskRow
<1>3. task' = [task EXCEPT ![w] = t]
  BY DEF Goto, TurnInv, TurnTypes
<1> HIDE DEF t
<1> QED
  BY <1>2, <1>3 DEF t

LEMMA GotoStep ==
    ASSUME TurnInv, NEW w \in Worker, NEW place \in Place \ Inside, Goto(w, place),
           UNCHANGED audit, Surroundings', Deciding,
           place \in Before => task[w].at \in Before,
           place = "store" => Served, place # "output"
    PROVE  TurnInv'
<1>1. PICK t \in TaskRow :
         /\ task' = [task EXCEPT ![w] = t]
         /\ t.at = place /\ t.agent = task[w].agent /\ t.runtime = task[w].runtime
         /\ t.asked = task[w].asked
  BY RowAt
<1>2. OutsideRow(task[w])
  BY DEF TurnInv
<1>3. OutsideRow(t)
  BY <1>1, <1>2 DEF OutsideRow
<1> QED
  BY <1>1, <1>3, MoveStep

\* A row that needs nothing of the executions.
SafeRow(t) == /\ t \in TaskRow
              /\ t.at \notin Inside \cup {"store", "output"} /\ t.agent # "routing"
              /\ t.runtime = 1 /\ t.asked = 0

LEMMA SafeOutside == ASSUME NEW t, SafeRow(t) PROVE OutsideRow(t) /\ OutsideRow(t)'
BY DEF SafeRow, OutsideRow

LEMMA IdleSafe ==
    /\ SafeRow(Idle)
    /\ \A place \in {"abort", "conflict"} : SafeRow([Idle EXCEPT !.at = place])
    /\ \A agent \in Agent \ {"routing"}, by \in {"orchestrator", "fallback"} :
          SafeRow([Idle EXCEPT !.at = "load", !.agent = agent, !.by = by])
<1>1. 1 \in 1..(Runtimes + 1) /\ 0 \in 0..MaxCalls /\ 1 \in 1..(MaxCalls + 1)
  BY TurnAssumption
<1>2. ASSUME NEW place \in {"idle", "abort", "conflict", "load"},
             NEW agent \in Agent \ {"routing"}, NEW by \in {"orchestrator", "fallback"},
             NEW t, t = [at |-> place, agent |-> agent, runtime |-> 1, asked |-> 0,
                         seq |-> 1, by |-> by]
      PROVE  SafeRow(t)
  BY <1>1, <1>2 DEF SafeRow, TaskRow, Place, Inside, Calling
<1>3. SafeRow(Idle)
  BY <1>2 DEF Idle, Agent
<1>4. \A place \in {"abort", "conflict"} : SafeRow([Idle EXCEPT !.at = place])
  BY <1>2 DEF Idle, Agent
<1>5. ASSUME NEW agent \in Agent \ {"routing"}, NEW by \in {"orchestrator", "fallback"}
      PROVE  SafeRow([Idle EXCEPT !.at = "load", !.agent = agent, !.by = by])
  <2>1. PICK u : u = [Idle EXCEPT !.at = "load"]
    OBVIOUS
  <2>2. u = [at |-> "load", agent |-> "orchestrator", runtime |-> 1, asked |-> 0,
             seq |-> 1, by |-> "fallback"]
    BY <2>1 DEF Idle
  <2>3. [Idle EXCEPT !.at = "load", !.agent = agent, !.by = by]
          = [u EXCEPT !.agent = agent, !.by = by]
    BY <2>1
  <2>4. PICK v : v = [u EXCEPT !.agent = agent]
    OBVIOUS
  <2>5. v = [at |-> "load", agent |-> agent, runtime |-> 1, asked |-> 0, seq |-> 1,
             by |-> "fallback"]
    BY <2>2, <2>4
  <2>6. [v EXCEPT !.by = by]
          = [at |-> "load", agent |-> agent, runtime |-> 1, asked |-> 0, seq |-> 1, by |-> by]
    BY <2>5
  <2> QED
    BY <1>2, <2>3, <2>4, <2>6
<1> QED
  BY <1>3, <1>4, <1>5

LEMMA UnavailableSafe ==
    ASSUME TurnInv, NEW w \in Worker, NEW code \in {"abort", "conflict"}, Unavailable(w, code)
    PROVE  \E t \in TaskRow : SafeRow(t) /\ task' = [task EXCEPT ![w] = t]
<1>1. task[w].by \in {"orchestrator", "fallback"}
  BY DEF TurnInv, TurnTypes, TaskRow
<1>2. \E t : SafeRow(t) /\ task' = [task EXCEPT ![w] = t]
  BY <1>1, IdleSafe DEF Unavailable, Proceed, Agent
<1> QED
  BY <1>2 DEF SafeRow

LEMMA UnavailableStep ==
    ASSUME TurnInv, NEW w \in Worker, NEW code \in {"abort", "conflict"},
           Unavailable(w, code), UNCHANGED <<audit, outcome>>, Surroundings'
    PROVE  TurnInv'
<1>1. PICK t \in TaskRow : SafeRow(t) /\ task' = [task EXCEPT ![w] = t]
  BY UnavailableSafe
<1>2. OutsideRow(t) /\ t.at \notin Inside
  BY <1>1, SafeOutside DEF SafeRow
<1>3. UNCHANGED audit /\ UNCHANGED outcome
  BY DEF audit, outcome
<1> QED
  BY <1>1, <1>2, <1>3, KeptDecision, MoveStep DEF Deciding

LEMMA SettleStep ==
    ASSUME TurnInv, NEW w \in Worker, NEW status \in {"pending", "processed", "dead"},
           Settle(w, status), UNCHANGED <<control, audit, outcome, faults>>
    PROVE  TurnInv'
<1>1. SafeRow(Idle) /\ OutsideRow(Idle) /\ Idle \in TaskRow /\ Idle.at \notin Inside
  BY IdleSafe, SafeOutside DEF SafeRow
<1>2. task' = [task EXCEPT ![w] = Idle]
  BY DEF Settle
<1>3. Surroundings'
  BY DEF Settle, TurnInv, TurnTypes, Surroundings
<1>4. UNCHANGED audit /\ UNCHANGED outcome
  BY DEF audit, outcome
<1> QED
  BY <1>1, <1>2, <1>3, <1>4, KeptDecision, MoveStep DEF Deciding

LEMMA EventKeeps ==
    ASSUME TurnInv, NEW w \in Worker,
           \/ Claim(w) \/ Abort(w) \/ Superseded(w) \/ NotSuperseded(w) \/ Read(w)
           \/ Deliver(w) \/ DeliveryFails(w) \/ ReplyRefused(w) \/ DecisionFault(w)
    PROVE  TurnInv'
<1>1. CASE Claim(w)
  <2>1. /\ Goto(w, "read") /\ UNCHANGED audit /\ UNCHANGED outcome
        /\ task[w].at \in Before /\ "read" \in Place \ Inside
    BY <1>1 DEF Claim, At, Before, Place, Inside, Calling, audit, outcome
  <2>2. Surroundings'
    BY <1>1, TurnAssumption DEF Claim, TurnInv, TurnTypes, Surroundings
  <2> QED
    BY <2>1, <2>2, KeptDecision, GotoStep DEF Deciding
<1>2. CASE Abort(w) \/ Superseded(w) \/ Deliver(w)
  BY <1>2, SettleStep DEF Abort, Superseded, Deliver
<1>3. CASE NotSuperseded(w) \/ Read(w) \/ DeliveryFails(w) \/ ReplyRefused(w) \/ DecisionFault(w)
  <2>1. PICK place \in {"load", "abort", "conflict", "reply"} :
          Goto(w, place) /\ (place = "load" => task[w].at = "read")
    BY <1>3 DEF NotSuperseded, Read, DeliveryFails, ReplyRefused, DecisionFault, At
  <2>2. place \in Place \ Inside /\ (place \in Before => task[w].at \in Before)
    BY <2>1 DEF Place, Inside, Calling, Before
  <2>3. UNCHANGED audit /\ UNCHANGED outcome
    BY <1>3 DEF NotSuperseded, Read, DeliveryFails, ReplyRefused, DecisionFault,
                audit, outcome
  <2>4. Surroundings'
    BY <1>3, KeptSurroundings
       DEF NotSuperseded, Read, DeliveryFails, ReplyRefused, DecisionFault
  <2> QED
    BY <2>1, <2>2, <2>3, <2>4, KeptDecision, GotoStep DEF Deciding
<1> QED
  BY <1>1, <1>2, <1>3

LEMMA DecisionKeeps ==
    ASSUME TurnInv, NEW w \in Worker, OutputInvalid(w) \/ Output(w) \/ Store(w) \/ Reply(w)
    PROVE  TurnInv'
<1>0. task[w] \in TaskRow /\ OutsideRow(task[w])
  BY DEF TurnInv, TurnTypes
<1>1. UNCHANGED audit /\ Surroundings'
  BY KeptSurroundings DEF OutputInvalid, Output, Store, Reply, audit
<1>2. CASE OutputInvalid(w)
  BY <1>1, <1>2, UnavailableStep DEF OutputInvalid, outcome, audit
<1>3. CASE Output(w)
  <2>0. UNCHANGED outcome /\ Deciding /\ task[w].at = "output"
    BY <1>3, KeptDecision DEF Output, outcome, Deciding, At
  <2>1. ASSUME NEW agent \in {"specialist", "customer"},
               NEW by \in {"orchestrator", "fallback"}, Proceed(w, agent, by)
        PROVE  TurnInv'
    <3>1. PICK t : t = [Idle EXCEPT !.at = "load", !.agent = agent, !.by = by]
      OBVIOUS
    <3>2. SafeRow(t)
      BY <3>1, IdleSafe DEF Agent
    <3>3. task' = [task EXCEPT ![w] = t]
      BY <2>1, <3>1 DEF Proceed
    <3>4. t \in TaskRow /\ t.at \notin Inside /\ OutsideRow(t)
      BY <3>2, SafeOutside DEF SafeRow
    <3> QED
      BY <1>1, <2>0, <3>3, <3>4, MoveStep
  <2>2. ASSUME Goto(w, "store"), task[w].agent \in {"customer", "routing"} PROVE TurnInv'
    <3>1. Served
      BY <1>0, <2>0, <2>2 DEF OutsideRow, Served
    <3>2. "store" \in Place \ Inside /\ "store" \notin Before
      BY DEF Place, Inside, Calling, Before
    <3> QED
      BY <1>1, <2>0, <2>2, <3>1, <3>2, GotoStep
  <2>3. ASSUME Proceed(w, "routing", task[w].by), task[w].agent = "customer" PROVE TurnInv'
    <3>1. PICK t : t = [Idle EXCEPT !.at = "load", !.agent = "routing", !.by = task[w].by]
      OBVIOUS
    <3>2. Served
      BY <1>0, <2>0, <2>3 DEF OutsideRow, Served
    <3>3. Idle \in TaskRow /\ Idle.runtime = 1 /\ Idle.asked = 0
      BY IdleSafe DEF SafeRow
    <3>4. /\ t \in TaskRow /\ t.at = "load" /\ t.runtime = 1 /\ t.asked = 0
      BY ZenonT(40), <1>0, <3>1, <3>3 DEF TaskRow, Agent, Place
    <3>5. t.at \notin Inside /\ OutsideRow(t)
      BY <3>2, <3>4 DEF OutsideRow, Inside, Calling
    <3>6. task' = [task EXCEPT ![w] = t]
      BY <2>3, <3>1 DEF Proceed
    <3> QED
      BY <1>1, <2>0, <3>4, <3>5, <3>6, MoveStep
  <2> QED
    BY <1>0, <1>3, <2>1, <2>2, <2>3 DEF Output, TaskRow, Agent
<1>4. CASE Store(w)
  <2>1. Served
    BY <1>0, <1>4 DEF Store, At, OutsideRow
  <2>2. execution["customer"].runs = 1
    BY <2>1 DEF TurnInv, AgentInv, Served, Agent
  <2>3. Deciding
    <3>1. task[w].by \in {"orchestrator", "fallback"}
      BY <1>0 DEF TaskRow
    <3>2. CASE decision # {}
      BY <1>4, <3>2 DEF Store, Deciding, TurnInv, DecisionInv, DecisionRows
    <3>3. CASE decision = {}
      <4>1. decision' = {[run |-> 1, by |-> task[w].by]} /\ reply' = {}
        BY <1>4, <2>2, <3>3 DEF Store, TurnInv, DecisionInv, DecisionRows
      <4>2. [run |-> 1, by |-> task[w].by] \in [run : {1}, by : {"orchestrator", "fallback"}]
        BY <3>1
      <4> QED
        BY <2>1, <4>1, <4>2 DEF Deciding, DecisionRows
    <3> QED
      BY <3>2, <3>3
  <2>4. Goto(w, "reply") /\ "reply" \in Place \ Inside /\ "reply" \notin Before
    BY <1>4 DEF Store, Place, Inside, Calling, Before
  <2> QED
    BY <1>1, <2>3, <2>4, GotoStep
<1>5. CASE Reply(w)
  <2>1. Deciding
    BY <1>5 DEF Reply, Deciding, TurnInv, DecisionInv, DecisionRows
  <2>2. Goto(w, "deliver") /\ "deliver" \in Place \ Inside /\ "deliver" \notin Before
    BY <1>5 DEF Reply, Place, Inside, Calling, Before
  <2> QED
    BY <1>1, <2>1, <2>2, GotoStep
<1> QED
  BY <1>2, <1>3, <1>4, <1>5

\* Steps that leave an execution, or do not enter one.
LEMMA OutKeeps ==
    ASSUME TurnInv, NEW w \in Worker, Load(w) \/ ExecutionFault(w) \/ Crash(w)
    PROVE  TurnInv'
<1>1. UNCHANGED audit /\ UNCHANGED outcome /\ Surroundings' /\ Deciding
  BY KeptSurroundings, KeptDecision DEF Load, ExecutionFault, Crash, audit, outcome, Deciding
<1>2. UNCHANGED <<audit, outcome>>
  BY <1>1
<1>3. CASE Goto(w, "create") /\ At(w, "load")
  <2>1. "create" \in Place \ Inside /\ task[w].at \in Before
    BY <1>3 DEF Place, Inside, Calling, Before, At
  <2> QED
    BY <1>1, <1>3, <2>1, GotoStep
<1>4. CASE Unavailable(w, "abort")
  BY <1>1, <1>2, <1>4, UnavailableStep
<1>5. CASE task' = [task EXCEPT ![w] = Idle]
  <2>1. Idle \in TaskRow /\ OutsideRow(Idle) /\ Idle.at \notin Inside
    BY IdleSafe, SafeOutside DEF SafeRow
  <2> QED
    BY <1>1, <1>5, <2>1, MoveStep
<1> QED
  BY <1>3, <1>4, <1>5 DEF Load, ExecutionFault, Crash

-----------------------------------------------------------------------------
(* Steps of an execution *)

\* What a worker inside knows of its row, and of the calls.
LEMMA InsideFacts ==
    ASSUME TurnInv, NEW w \in Worker, task[w].at \in Inside
    PROVE  /\ task[w] \in TaskRow /\ InsideRow(task[w]) /\ OutsideRow(task[w])
           /\ task[w].agent \in Agent /\ Owns(w, task[w].agent)
           /\ AgentInv(task[w].agent) /\ execution[task[w].agent].status = "running"
           /\ execution[task[w].agent].runs = 1
           /\ execution[task[w].agent] \in ExecutionRow
           /\ task[w].at \in Calling => task[w].seq \in CallNumber /\ task[w].asked >= 1
<1>1. /\ task[w] \in TaskRow /\ InsideRow(task[w]) /\ OutsideRow(task[w])
      /\ Owns(w, task[w].agent) /\ task[w].agent \in Agent
  BY DEF TurnInv, TurnTypes, TaskRow, Owns
<1>2. AgentInv(task[w].agent) /\ execution[task[w].agent].status = "running"
      /\ execution[task[w].agent] \in ExecutionRow
  BY <1>1 DEF TurnInv, TurnTypes, AuditTypes, InsideRow
<1>3. execution[task[w].agent].runs = 1
  BY <1>2 DEF AgentInv
<1>4. task[w].at \in Calling => task[w].seq <= task[w].asked
  BY <1>1 DEF InsideRow, Stage
<1>5. task[w].at \in Calling => task[w].seq \in CallNumber /\ task[w].asked >= 1
  BY <1>1, <1>4, TurnAssumption DEF TaskRow, CallNumber
<1> QED
  BY <1>1, <1>2, <1>3, <1>5

\* The calls and commands of agent a may change, and still tell what was applied.
CallsOf(a) ==
    /\ call' \in [Agent -> [CallNumber -> CallStatus]]
    /\ commands' \subseteq Agent \X {1} \X CallNumber
    /\ \A b \in Agent \ {a} : call'[b] = call[b]
                              /\ \A n \in CallNumber : Applied(b, n)' <=> Applied(b, n)
    /\ \A n \in CallNumber : Audited(a, n)'

LEMMA StillCalls ==
    ASSUME TurnInv, UNCHANGED <<call, commands>>, NEW a \in Agent PROVE CallsOf(a)
<1>1. AgentInv(a)
  BY DEF TurnInv
<1> QED
  BY <1>1 DEF CallsOf, TurnInv, TurnTypes, AuditTypes, AgentInv, Audited, Applied

\* The execution of worker w goes on at t, its row unchanged.
LEMMA GoOn ==
    ASSUME TurnInv, NEW w \in Worker, NEW t \in TaskRow, task' = [task EXCEPT ![w] = t],
           task[w].at \in Inside, t.at \in Inside, t.agent = task[w].agent,
           UNCHANGED <<execution, outcome>>, Surroundings', CallsOf(t.agent), InsideRow(t)'
    PROVE  TurnInv'
<1> DEFINE a == t.agent
<1>1. /\ a \in Agent /\ Owns(w, a) /\ AgentInv(a) /\ execution[a].status = "running"
      /\ OutsideRow(task[w])
  BY InsideFacts
<1>2. AgentInv(a)'
  BY <1>1 DEF AgentInv, CallsOf
<1>3. AuditTypes' /\ RestKept(a)
  BY DEF TurnInv, TurnTypes, AuditTypes, CallsOf, RestKept
<1>4. OutsideRow(t)'
  BY <1>1 DEF OutsideRow, Served, Inside, Calling, Before
<1>5. UNCHANGED outcome
  BY DEF outcome
<1> QED
  BY <1>1, <1>2, <1>3, <1>4, <1>5, KeptDecision, TurnStep

\* A row inside at the next step.
LEMMA InsideAt ==
    ASSUME TurnInv, NEW w \in Worker, NEW place \in Inside, task[w].at \in Inside,
           Goto(w, place), UNCHANGED outcome, Surroundings'
    PROVE  \E t \in TaskRow :
              /\ task' = [task EXCEPT ![w] = t] /\ t.at = place
              /\ t.agent = task[w].agent /\ t.runtime = task[w].runtime
              /\ t.asked = task[w].asked /\ t.seq = task[w].seq
<1>1. place \in Place
  BY DEF Inside, Calling, Place
<1> QED
  BY <1>1, RowAt

\* A tool call goes on to place.
LEMMA CallGoesOn ==
    ASSUME TurnInv, NEW w \in Worker, NEW place \in Calling, task[w].at \in Calling,
           NEW a \in Agent, NEW n \in CallNumber, a = task[w].agent, n = task[w].seq,
           Goto(w, place), UNCHANGED <<execution, outcome>>, Surroundings', CallsOf(a),
           \A m \in CallNumber : m > n => Untouched(a, m)',
           place = "begin" => Untouched(a, n)',
           place \in {"check", "allow"} => call'[a][n] = "requested",
           place \in {"recheck", "apply"} => call'[a][n] = "allowed" /\ ~Applied(a, n)',
           place = "audit" => call'[a][n] = "allowed" /\ Applied(a, n)'
    PROVE  TurnInv'
<1>0. task[w].at \in Inside /\ place \in Inside
      /\ task[w].at \notin {"complete", "fail", "generate", "follow"}
      /\ place \notin {"complete", "fail", "generate", "follow"}
  BY DEF Inside, Calling
<1>1. PICK t \in TaskRow :
        /\ task' = [task EXCEPT ![w] = t] /\ t.at = place
        /\ t.agent = task[w].agent /\ t.runtime = task[w].runtime
        /\ t.asked = task[w].asked /\ t.seq = task[w].seq
  BY <1>0, InsideAt DEF outcome
<1>2. InsideRow(task[w]) /\ n <= task[w].asked
  BY <1>0, InsideFacts DEF InsideRow, Stage
<1>3. Stage(t)'
  BY <1>1, <1>2 DEF Stage, Untouched, Applied
<1>4. InsideRow(t)'
  BY <1>0, <1>1, <1>2, <1>3 DEF InsideRow
<1> QED
  BY <1>0, <1>1, <1>4, GoOn

\* What SetCall writes.
LEMMA SetCallFacts ==
    ASSUME TurnInv, NEW w \in Worker, NEW status \in CallStatus, SetCall(w, status),
           NEW a \in Agent, NEW n \in CallNumber, a = task[w].agent, n = task[w].seq
    PROVE  /\ call' \in [Agent -> [CallNumber -> CallStatus]]
           /\ call'[a][n] = status
           /\ \A m \in CallNumber \ {n} : call'[a][m] = call[a][m]
           /\ \A b \in Agent \ {a} : call'[b] = call[b]
<1>1. call \in [Agent -> [CallNumber -> CallStatus]]
  BY DEF TurnInv, TurnTypes, AuditTypes
<1> QED
  BY <1>1 DEF SetCall

\* The call of worker w gets a status that is true of it.
LEMMA SetCallTrue ==
    ASSUME TurnInv, NEW w \in Worker, task[w].at \in Calling,
           NEW status \in CallStatus \ {"none"}, SetCall(w, status),
           NEW a \in Agent, NEW n \in CallNumber, a = task[w].agent, n = task[w].seq,
           commands' \in {commands, commands \cup {Command(w)}},
           status \in {"requested", "denied"} => UNCHANGED commands /\ ~Applied(a, n),
           status = "succeeded" => Applied(a, n)
    PROVE  /\ CallsOf(a)
           /\ \A m \in CallNumber \ {n} : Untouched(a, m) => Untouched(a, m)'
<1>1. AgentInv(a) /\ execution[a].runs = 1
  BY InsideFacts DEF Inside
<1>2. Command(w) = <<a, 1, n>>
  BY <1>1 DEF Command, Running
<1>3. commands \subseteq Agent \X {1} \X CallNumber
  BY DEF TurnInv, TurnTypes, AuditTypes
<1>4. commands' \subseteq Agent \X {1} \X CallNumber
  BY <1>2, <1>3
<1>5. \A b \in Agent \ {a}, m \in CallNumber : Applied(b, m)' <=> Applied(b, m)
  BY <1>2 DEF Applied
<1>6. \A m \in CallNumber \ {n} : Applied(a, m)' <=> Applied(a, m)
  BY <1>2 DEF Applied
<1>7. \A m \in CallNumber \ {n} : Audited(a, m)' /\ (Untouched(a, m) => Untouched(a, m)')
  BY <1>1, <1>6, SetCallFacts DEF AgentInv, Audited, Untouched
<1>8. Audited(a, n)'
  <2>1. call'[a][n] = status
    BY SetCallFacts
  <2> QED
    BY <2>1 DEF Audited, Applied
<1> QED
  BY <1>4, <1>5, <1>7, <1>8, SetCallFacts DEF CallsOf

LEMMA CallKeeps ==
    ASSUME TurnInv, NEW w \in Worker, Check(w) \/ Allow(w) \/ Apply(w)
    PROVE  TurnInv'
<1>0. task[w].at \in Calling /\ Surroundings' /\ UNCHANGED <<execution, outcome>>
  BY KeptSurroundings DEF Check, Allow, Apply, At, Calling, audit, outcome
<1>1. PICK a \in Agent, n \in CallNumber : a = task[w].agent /\ n = task[w].seq
  BY <1>0, InsideFacts DEF Inside
<1>2. InsideRow(task[w]) /\ AgentInv(a) /\ execution[a].runs = 1
  BY <1>0, <1>1, InsideFacts DEF Inside
<1>3. /\ \A m \in CallNumber : m > n => Untouched(a, m)
      /\ task[w].at \in {"check", "allow"} => call[a][n] = "requested"
      /\ task[w].at = "apply" => call[a][n] = "allowed" /\ ~Applied(a, n)
  BY <1>0, <1>1, <1>2 DEF InsideRow, Stage
<1>4. call[a][n] = "requested" => ~Applied(a, n)
  BY <1>2 DEF AgentInv, Audited
<1>5. CASE Check(w)
  <2>1. UNCHANGED <<call, commands>> /\ Goto(w, "allow") /\ task[w].at = "check"
    BY <1>5 DEF Check, audit, At
  <2>2. CallsOf(a) /\ \A m \in CallNumber : Untouched(a, m) => Untouched(a, m)'
    BY <2>1, StillCalls DEF Untouched, Applied
  <2> QED
    BY <1>0, <1>1, <1>3, <2>1, <2>2, CallGoesOn DEF Calling
<1>6. CASE Allow(w)
  <2>1. /\ SetCall(w, "allowed") /\ UNCHANGED commands /\ Goto(w, "recheck")
        /\ task[w].at = "allow" /\ "allowed" \in CallStatus \ {"none"}
    BY <1>6 DEF Allow, At, CallStatus
  <2>2. /\ CallsOf(a) /\ call'[a][n] = "allowed"
        /\ \A m \in CallNumber \ {n} : Untouched(a, m) => Untouched(a, m)'
    BY <1>0, <1>1, <2>1, SetCallTrue, SetCallFacts
  <2>3. ~Applied(a, n)'
    BY <1>3, <1>4, <2>1 DEF Applied
  <2>4. \A m \in CallNumber : m > n => Untouched(a, m)'
    BY <1>3, <2>2 DEF CallNumber
  <2> QED
    BY <1>0, <1>1, <2>1, <2>2, <2>3, <2>4, CallGoesOn DEF Calling
<1>7. CASE Apply(w)
  <2>1. /\ commands' = commands \cup {<<a, 1, n>>} /\ UNCHANGED call
        /\ Goto(w, "audit") /\ task[w].at = "apply"
    BY <1>1, <1>2, <1>7 DEF Apply, At, Command, Running
  <2>2. Applied(a, n)' /\ call'[a][n] = "allowed"
    BY <1>3, <2>1 DEF Applied
  <2>3. \A b \in Agent, m \in CallNumber :
           <<b, m>> # <<a, n>> => (Applied(b, m)' <=> Applied(b, m))
    BY <2>1 DEF Applied
  <2>4. CallsOf(a)
    <3>1. commands' \subseteq Agent \X {1} \X CallNumber /\ call' = call
          /\ call \in [Agent -> [CallNumber -> CallStatus]]
      BY <2>1 DEF TurnInv, TurnTypes, AuditTypes
    <3>2. \A m \in CallNumber : Audited(a, m)'
      BY <1>2, <2>1, <2>2, <2>3 DEF AgentInv, Audited
    <3> QED
      BY <2>3, <3>1, <3>2 DEF CallsOf
  <2>5. \A m \in CallNumber : m > n => Untouched(a, m)'
    BY <1>3, <2>1, <2>3 DEF Untouched, CallNumber
  <2> QED
    BY <1>0, <1>1, <2>1, <2>2, <2>4, <2>5, CallGoesOn DEF Calling
<1> QED
  BY <1>5, <1>6, <1>7

\* An attempt of the model ends with what it wrote in the log.
LEMMA LogAppend ==
    ASSUME NEW log \in Seq(Outcomes), NEW result \in Outcomes
    PROVE  /\ Append(log, result) \in Seq(Outcomes)
           /\ Len(Append(log, result)) = Len(log) + 1
           /\ AllFailed(log) /\ result = "failed" => AllFailed(Append(log, result))
           /\ AllFailed(log) /\ result = "succeeded" => Earned(Append(log, result))
<1> DEFINE longer == Append(log, result)
<1>1. /\ longer \in Seq(Outcomes) /\ Len(longer) = Len(log) + 1 /\ Len(log) \in Nat
      /\ \A i \in 1..Len(log) : longer[i] = log[i]
      /\ longer[Len(log) + 1] = result
  OBVIOUS
<1> HIDE DEF longer
<1>2. \A i \in 1..Len(longer) : i = Len(log) + 1 \/ i \in 1..Len(log)
  BY <1>1
<1>3. AllFailed(log) /\ result = "failed" => AllFailed(longer)
  BY <1>1, <1>2 DEF AllFailed
<1>4. AllFailed(log) /\ result = "succeeded" => Earned(longer)
  BY <1>1, <1>2 DEF AllFailed, Earned
<1> QED
  BY <1>1, <1>3, <1>4 DEF longer

\* The execution of worker w goes on at t with a longer log, and no other row changes.
LEMMA LogStep ==
    ASSUME TurnInv, NEW w \in Worker, NEW t \in TaskRow, task' = [task EXCEPT ![w] = t],
           task[w].at \in Inside \ {"complete", "fail"}, t.at \in Inside,
           NEW a \in Agent, a = task[w].agent, t.agent = a, NEW result \in Outcomes,
           execution' = [execution EXCEPT ![a].log = Append(@, result)],
           UNCHANGED outcome, Surroundings', CallsOf(a),
           ASSUME NEW row \in ExecutionRow, row = execution'[a],
                  row.status = "running", row.log = Append(execution[a].log, result)
           PROVE  InsideRow(t)'
    PROVE  TurnInv'
<1>1. /\ InsideRow(task[w]) /\ Owns(w, a) /\ AgentInv(a) /\ execution[a].status = "running"
      /\ execution[a] \in ExecutionRow /\ execution[a].runs = 1 /\ OutsideRow(task[w])
  BY InsideFacts
<1>2. execution \in [Agent -> ExecutionRow]
  BY DEF TurnInv, TurnTypes, AuditTypes
<1>3. PICK row : row = [execution[a] EXCEPT !.log = Append(@, result)]
  OBVIOUS
<1>4. /\ execution' = [execution EXCEPT ![a] = row]
      /\ row.status = "running" /\ row.runs = 1
      /\ row.log = Append(execution[a].log, result) /\ row \in ExecutionRow
  BY <1>1, <1>2, <1>3, LogAppend DEF ExecutionRow
<1>5. /\ execution'[a] = row /\ execution' \in [Agent -> ExecutionRow]
      /\ \A b \in Agent \ {a} : execution'[b] = execution[b]
  BY <1>2, <1>4
<1>6. AuditTypes' /\ RestKept(a)
  BY <1>5 DEF AuditTypes, CallsOf, RestKept
<1>7. AgentInv(a)'
  <2>1. Len(execution[a].log) < Runtimes /\ Len(row.log) <= Runtimes
    <3>1. execution[a].log \in Seq(Outcomes) /\ Len(execution[a].log) = task[w].runtime - 1
          /\ task[w].runtime <= Runtimes /\ task[w].runtime \in Nat
      BY <1>1 DEF InsideRow, ExecutionRow, TurnInv, TurnTypes, TaskRow
    <3> QED
      BY <1>4, <3>1, LogAppend, TurnAssumption
  <2> QED
    BY <1>4, <1>5, <2>1 DEF AgentInv, CallsOf
<1>8. InsideRow(t)'
  BY <1>4, <1>5
<1>9. OutsideRow(t)'
  <2>1. t.at \notin Before \cup {"store", "output"}
    BY DEF Inside, Calling, Before
  <2>2. Served => Served'
    BY <1>1, <1>5 DEF Served, Agent
  <2> QED
    BY <1>1, <2>1, <2>2 DEF OutsideRow
<1> QED
  BY <1>1, <1>6, <1>7, <1>8, <1>9, KeptDecision, TurnStep

\* A failed attempt: the next runtime, or the end of the execution.
LEMMA FailedKeeps ==
    ASSUME TurnInv, NEW w \in Worker, FailedAttempt(w),
           task[w].at \in Calling \cup {"generate", "follow"},
           NEW a \in Agent, a = task[w].agent, CallsOf(a),
           task[w].at = "generate" => UNCHANGED <<call, commands>>,
           UNCHANGED outcome, Surroundings'
    PROVE  TurnInv'
<1>1. task[w].at \in Inside \ {"complete", "fail"}
  BY DEF Inside, Calling
<1>2. /\ task[w] \in TaskRow /\ InsideRow(task[w])
      /\ task[w].at \in Calling => task[w].asked >= 1
  BY <1>1, InsideFacts
<1>3. /\ AllFailed(execution[a].log) /\ Len(execution[a].log) = task[w].runtime - 1
      /\ task[w].runtime <= Runtimes
      /\ task[w].at = "follow" => task[w].asked >= 1
      /\ task[w].at = "generate" => \A n \in CallNumber : Untouched(a, n)
  BY <1>1, <1>2 DEF InsideRow
<1>4. PICK place \in {"generate", "fail"} :
         /\ task' = [task EXCEPT ![w].at = place, ![w].runtime = @ + 1]
         /\ place = "generate" => task[w].runtime < Runtimes /\ task[w].asked = 0
  BY DEF FailedAttempt, NextPlace
<1>5. PICK t : t = [task[w] EXCEPT !.at = place, !.runtime = @ + 1]
  OBVIOUS
<1>6. task' = [task EXCEPT ![w] = t]
  BY <1>4, <1>5 DEF TurnInv, TurnTypes
<1>7. /\ t.at = place /\ t.agent = a /\ t.asked = task[w].asked
      /\ t.runtime = task[w].runtime + 1 /\ t \in TaskRow
  <2>1. place \in Place
    BY DEF Place
  <2>2. task[w].runtime + 1 \in 1..(Runtimes + 1)
    BY <1>2, <1>3, TurnAssumption DEF TaskRow
  <2> QED
    BY <1>2, <1>5, <2>1, <2>2 DEF TaskRow
<1>8. t.at \in Inside /\ t.at \notin Calling \cup {"follow", "complete"}
  BY <1>7 DEF Inside, Calling
<1>9. ASSUME NEW row \in ExecutionRow, row = execution'[a], row.status = "running",
             row.log = Append(execution[a].log, "failed")
      PROVE  InsideRow(t)'
  <2>1. execution[a].log \in Seq(Outcomes)
    BY DEF TurnInv, TurnTypes, AuditTypes, ExecutionRow
  <2>2. AllFailed(row.log) /\ Len(row.log) = task[w].runtime
    BY <1>2, <1>3, <1>9, <2>1, LogAppend DEF Outcomes, TaskRow
  <2>3. t.at # "fail" => t.runtime <= Runtimes /\ t.asked = 0
    BY <1>2, <1>4, <1>7, TurnAssumption DEF TaskRow
  <2>4. t.at # "fail" => \A n \in CallNumber : Untouched(a, n)'
    <3>1. t.at # "fail" => task[w].at = "generate"
      BY <1>2, <1>3, <1>4, <1>7 DEF TaskRow
    <3> QED
      BY <1>3, <3>1 DEF Untouched, Applied
  <2>5. t.runtime - 1 = task[w].runtime
    BY <1>2, <1>7 DEF TaskRow
  <2> QED
    BY <1>7, <1>8, <1>9, <2>2, <2>3, <2>4, <2>5 DEF InsideRow
<1>10. execution' = [execution EXCEPT ![a].log = Append(@, "failed")]
  BY DEF FailedAttempt
<1> QED
  BY <1>1, <1>6, <1>7, <1>8, <1>9, <1>10, LogStep DEF Outcomes

LEMMA ErrorKeeps ==
    ASSUME TurnInv, NEW w \in Worker,
           ModelFails(w) \/ Deny(w) \/ ApplyFails(w) \/ AllowFault(w) \/ AuditFault(w)
    PROVE  TurnInv'
<1>0. /\ task[w].at \in Calling \cup {"generate", "follow"} /\ FailedAttempt(w)
      /\ Surroundings' /\ UNCHANGED outcome
  <2>1. UNCHANGED <<event, control, outcome>> /\ (UNCHANGED faults \/ Fault)
    BY DEF ModelFails, Deny, ApplyFails, AllowFault, AuditFault
  <2>2. Surroundings'
    BY <2>1, KeptSurroundings
  <2> QED
    BY <2>1, <2>2 DEF ModelFails, Deny, ApplyFails, AllowFault, AuditFault, ToolError, At, Calling
<1>1. PICK a \in Agent : a = task[w].agent
  BY DEF TurnInv, TurnTypes, TaskRow
<1>2. CASE ModelFails(w) \/ AuditFault(w)
  <2>1. UNCHANGED <<call, commands>>
    BY <1>2 DEF ModelFails, AuditFault
  <2> QED
    BY <1>0, <1>1, <2>1, StillCalls, FailedKeeps
<1>3. ASSUME Deny(w) \/ ApplyFails(w) \/ AllowFault(w) PROVE TurnInv'
  <2>1. task[w].at \in Calling /\ task[w].at # "generate"
    BY <1>3 DEF Deny, ApplyFails, AllowFault, At, Calling
  <2>2. PICK n \in CallNumber : n = task[w].seq
    BY <2>1, InsideFacts DEF Inside
  <2>3. AgentInv(a) /\ Stage(task[w])
    BY <1>1, <2>1, InsideFacts DEF Inside, InsideRow
  <2>4. task[w].at \in {"check", "allow"} => ~Applied(a, n)
    BY <1>1, <2>2, <2>3 DEF Stage, AgentInv, Audited
  <2>5. CallsOf(a)
    <3>1. CASE Deny(w) \/ AllowFault(w)
      <4>1. /\ SetCall(w, "denied") /\ UNCHANGED commands /\ ~Applied(a, n)
            /\ "denied" \in CallStatus \ {"none"}
        BY <2>4, <3>1 DEF Deny, AllowFault, At, CallStatus
      <4> QED
        BY <1>1, <2>1, <2>2, <4>1, SetCallTrue
    <3>2. CASE ApplyFails(w)
      <4>1. /\ SetCall(w, "failed") /\ "failed" \in CallStatus \ {"none"}
            /\ commands' \in {commands, commands \cup {Command(w)}}
        BY <3>2 DEF ApplyFails, CallStatus
      <4> QED
        BY <1>1, <2>1, <2>2, <4>1, SetCallTrue
    <3> QED
      BY <1>3, <3>1, <3>2
  <2> QED
    BY <1>0, <1>1, <2>1, <2>5, FailedKeeps
<1> QED
  BY <1>2, <1>3

LEMMA BeginKeeps ==
    ASSUME TurnInv, NEW w \in Worker, Begin(w) \/ Recheck(w) PROVE TurnInv'
<1>0. task[w].at \in Calling /\ Surroundings' /\ UNCHANGED <<outcome, commands>>
  BY KeptSurroundings DEF Begin, Recheck, At, Calling, outcome
<1>1. PICK a \in Agent, n \in CallNumber : a = task[w].agent /\ n = task[w].seq
  BY <1>0, InsideFacts DEF Inside
<1>2. Stage(task[w]) /\ execution[a].status = "running" /\ task[w].at # "generate"
  BY <1>0, <1>1, InsideFacts DEF Inside, InsideRow, Calling
<1>3. \A m \in CallNumber : m > n => Untouched(a, m) /\ m # n
  BY <1>1, <1>2 DEF Stage, CallNumber
<1>4. CASE Begin(w)
  <2>1. Untouched(a, n)
    BY <1>1, <1>2, <1>4 DEF Begin, At, Stage
  <2>2. SetCall(w, "requested") /\ Goto(w, "check") /\ UNCHANGED execution
    BY <1>1, <1>2, <1>4, <2>1 DEF Begin, Running, Called, Untouched
  <2>3. "requested" \in CallStatus \ {"none"} /\ "check" \in Calling
    BY DEF CallStatus, Calling
  <2>4. /\ CallsOf(a) /\ call'[a][n] = "requested"
        /\ \A m \in CallNumber : m > n => Untouched(a, m)'
    BY <1>0, <1>1, <1>3, <2>1, <2>2, <2>3, SetCallTrue, SetCallFacts DEF Untouched
  <2> QED
    BY <1>0, <1>1, <2>2, <2>3, <2>4, CallGoesOn
<1>5. CASE Recheck(w) /\ control = "ai"
  <2>1. UNCHANGED <<call, commands>> /\ Goto(w, "apply") /\ UNCHANGED execution
    BY <1>5 DEF Recheck
  <2>2. CallsOf(a) /\ \A m \in CallNumber : m > n => Untouched(a, m)'
    BY <1>3, <2>1, StillCalls DEF Untouched, Applied
  <2>3. call'[a][n] = "allowed" /\ ~Applied(a, n)' /\ "apply" \in Calling
    BY <1>1, <1>2, <1>5, <2>1 DEF Recheck, At, Stage, Applied, Calling
  <2> QED
    BY <1>0, <1>1, <2>1, <2>2, <2>3, CallGoesOn
<1>6. CASE Recheck(w) /\ control # "ai"
  <2>1. /\ SetCall(w, "failed") /\ FailedAttempt(w) /\ "failed" \in CallStatus \ {"none"}
    BY <1>6 DEF Recheck, ToolError, CallStatus
  <2>2. CallsOf(a)
    BY <1>0, <1>1, <2>1, SetCallTrue
  <2> QED
    BY <1>0, <1>1, <1>2, <2>1, <2>2, FailedKeeps
<1> QED
  BY <1>4, <1>5, <1>6

LEMMA AuditKeeps ==
    ASSUME TurnInv, NEW w \in Worker, Audit(w) PROVE TurnInv'
<1>0. task[w].at = "audit" /\ Surroundings' /\ UNCHANGED <<execution, commands, outcome>>
  BY KeptSurroundings DEF Audit, At, outcome
<1>1. PICK a \in Agent, n \in CallNumber : a = task[w].agent /\ n = task[w].seq
  BY <1>0, InsideFacts DEF Inside, Calling
<1>2. Stage(task[w]) /\ InsideRow(task[w]) /\ task[w] \in TaskRow
  BY <1>0, InsideFacts DEF Inside, Calling, InsideRow
<1>3. /\ Applied(a, n) /\ n <= task[w].asked
      /\ \A m \in CallNumber : m > n => Untouched(a, m) /\ m # n
  BY <1>0, <1>1, <1>2 DEF Stage, CallNumber
<1>4. SetCall(w, "succeeded") /\ "succeeded" \in CallStatus \ {"none"}
  BY DEF Audit, CallStatus
<1>5. CallsOf(a) /\ \A m \in CallNumber : m > n => Untouched(a, m)'
  BY <1>0, <1>1, <1>3, <1>4, SetCallTrue DEF Calling
<1>6. PICK place \in {"follow", "begin"}, next \in {n, n + 1} :
         /\ task' = [task EXCEPT ![w].at = place, ![w].seq = next]
         /\ place = "follow" => next = n
         /\ place = "begin" => next = n + 1 /\ n # task[w].asked
  BY <1>1 DEF Audit
<1>7. PICK t : t = [task[w] EXCEPT !.at = place, !.seq = next]
  OBVIOUS
<1>8. task' = [task EXCEPT ![w] = t]
  BY <1>6, <1>7 DEF TurnInv, TurnTypes
<1>9. /\ t.at = place /\ t.agent = a /\ t.runtime = task[w].runtime
      /\ t.asked = task[w].asked /\ t.seq = next /\ t \in TaskRow
  <2>1. place \in Place /\ next \in 1..(MaxCalls + 1)
    BY <1>1, <1>6, TurnAssumption DEF Place, CallNumber
  <2> QED
    BY <1>1, <1>2, <1>7, <2>1 DEF TaskRow
<1>10. t.asked >= 1 /\ t.asked \in 0..MaxCalls
  BY <1>1, <1>2, <1>3, <1>9 DEF TaskRow, CallNumber
<1>11. place = "begin" => Stage(t)'
  <2> HAVE place = "begin"
  <2>1. next = n + 1 /\ next <= t.asked /\ next \in CallNumber
    BY <1>1, <1>3, <1>6, <1>9, <1>10, TurnAssumption DEF CallNumber
  <2>2. \A m \in CallNumber : m >= next => Untouched(a, m)'
    BY <1>5, <2>1, <1>1 DEF CallNumber
  <2>3. Untouched(a, next)' /\ \A m \in CallNumber : m > next => Untouched(a, m)'
    BY <2>1, <2>2 DEF CallNumber
  <2> QED
    BY <1>9, <2>1, <2>3 DEF Stage, Untouched, Applied
<1>12. InsideRow(t)'
  BY <1>0, <1>1, <1>2, <1>6, <1>9, <1>10, <1>11 DEF InsideRow, Calling
<1>13. task[w].at \in Inside /\ t.at \in Inside
  BY <1>0, <1>9 DEF Inside, Calling
<1> QED
  BY <1>0, <1>1, <1>5, <1>8, <1>9, <1>12, <1>13, GoOn DEF outcome

LEMMA ModelKeeps ==
    ASSUME TurnInv, NEW w \in Worker, Generate(w) \/ Follow(w) \/ RecordAttempt(w)
    PROVE  TurnInv'
<1>0. /\ task[w].at \in {"generate", "follow", "record"} /\ Surroundings'
      /\ UNCHANGED <<call, commands, outcome>>
  BY KeptSurroundings DEF Generate, Follow, RecordAttempt, At, audit, outcome
<1>1. task[w].at \in Inside \ {"complete", "fail"}
  BY <1>0 DEF Inside
<1>2. PICK a \in Agent : a = task[w].agent
  BY <1>1, InsideFacts
<1>3. InsideRow(task[w]) /\ task[w] \in TaskRow
  BY <1>1, InsideFacts
<1>4. CallsOf(a)
  BY <1>0, StillCalls
<1>5. CASE Generate(w)
  <2>1. UNCHANGED execution /\ task[w].at = "generate"
    BY <1>5 DEF Generate, audit, At
  <2>2. PICK n \in 0..MaxCalls :
           task' = [task EXCEPT ![w].at = IF n = 0 THEN "record" ELSE "begin",
                                ![w].asked = n, ![w].seq = 1]
    <3>1. (0..(IF task[w].agent \in Caller THEN MaxCalls ELSE 0)) \subseteq 0..MaxCalls
      BY TurnAssumption
    <3> QED
      BY <1>5, <3>1 DEF Generate
  <2>3. PICK place \in {"record", "begin"} :
           /\ place = "begin" => n >= 1
           /\ task' = [task EXCEPT ![w].at = place, ![w].asked = n, ![w].seq = 1]
    <3>1. n # 0 => n >= 1
      OBVIOUS
    <3> QED
      BY <2>2, <3>1
  <2>4. PICK t : t = [task[w] EXCEPT !.at = place, !.asked = n, !.seq = 1]
    OBVIOUS
  <2>5. task' = [task EXCEPT ![w] = t]
    BY <2>3, <2>4 DEF TurnInv, TurnTypes
  <2>6. /\ t.at = place /\ t.agent = a /\ t.runtime = task[w].runtime
        /\ t.asked = n /\ t.seq = 1 /\ t \in TaskRow
    <3>1. place \in Place /\ 1 \in 1..(MaxCalls + 1)
      BY TurnAssumption DEF Place
    <3> QED
      BY <1>2, <1>3, <2>4, <3>1 DEF TaskRow
  <2>7. \A m \in CallNumber : Untouched(a, m) /\ Untouched(a, m)'
    BY <1>0, <1>2, <1>3, <2>1 DEF InsideRow, Untouched, Applied
  <2>8. place = "begin" => Stage(t)'
    <3> HAVE place = "begin"
    <3>1. 1 \in CallNumber
      BY <2>3, TurnAssumption DEF CallNumber
    <3> QED
      BY <2>3, <2>6, <2>7, <3>1 DEF Stage, Untouched, Applied
  <2>9. InsideRow(t)'
    BY <1>1, <1>2, <1>3, <2>1, <2>6, <2>8 DEF InsideRow, Calling
  <2>10. t.at \in Inside
    BY <2>6 DEF Inside, Calling
  <2> QED
    BY <1>0, <1>1, <1>2, <1>4, <2>1, <2>5, <2>6, <2>9, <2>10, GoOn
<1>6. CASE Follow(w)
  <2>1. UNCHANGED execution /\ Goto(w, "record") /\ "record" \in Inside
    BY <1>6 DEF Follow, audit, Inside
  <2>2. PICK t \in TaskRow :
          /\ task' = [task EXCEPT ![w] = t] /\ t.at = "record"
          /\ t.agent = task[w].agent /\ t.runtime = task[w].runtime
    BY <1>0, <1>1, <2>1, InsideAt
  <2>3. InsideRow(t)'
    BY <1>1, <1>2, <1>3, <2>1, <2>2 DEF InsideRow, Calling
  <2> QED
    BY <1>0, <1>1, <1>2, <1>4, <2>1, <2>2, <2>3, GoOn
<1>7. CASE RecordAttempt(w)
  <2>1. /\ execution' = [execution EXCEPT ![a].log = Append(@, "succeeded")]
        /\ Goto(w, "complete") /\ "complete" \in Inside
    BY <1>2, <1>7 DEF RecordAttempt, Inside
  <2>2. PICK t \in TaskRow :
          /\ task' = [task EXCEPT ![w] = t] /\ t.at = "complete" /\ t.agent = task[w].agent
    BY <1>0, <1>1, <2>1, InsideAt
  <2>3. ASSUME NEW row \in ExecutionRow, row = execution'[a], row.status = "running",
               row.log = Append(execution[a].log, "succeeded")
        PROVE  InsideRow(t)'
    <3>1. execution[a].log \in Seq(Outcomes) /\ AllFailed(execution[a].log)
      BY <1>1, <1>2, <1>3 DEF InsideRow, TurnInv, TurnTypes, AuditTypes, ExecutionRow
    <3>2. Earned(row.log)
      BY <2>3, <3>1, LogAppend DEF Outcomes
    <3> QED
      BY <1>2, <2>2, <2>3, <3>2 DEF InsideRow, Calling
  <2> QED
    BY <1>0, <1>1, <1>2, <1>4, <2>1, <2>2, <2>3, LogStep DEF Outcomes
<1> QED
  BY SMTT(40), <1>5, <1>6, <1>7

\* The row of an execution gets a status, and worker w leaves it at t.
LEMMA EndStep ==
    ASSUME TurnInv, NEW w \in Worker, NEW t \in TaskRow, task' = [task EXCEPT ![w] = t],
           task[w].at \in Inside, t.at \notin Inside, NEW a \in Agent, a = task[w].agent,
           NEW status \in {"succeeded", "failed"},
           execution' = [execution EXCEPT ![a].status = status],
           UNCHANGED <<call, commands, outcome>>, Surroundings',
           status = "succeeded" => Earned(execution[a].log),
           ASSUME execution'[a].status = status, Served => Served' PROVE OutsideRow(t)'
    PROVE  TurnInv'
<1>1. /\ Owns(w, a) /\ AgentInv(a) /\ execution[a].status = "running"
      /\ execution[a] \in ExecutionRow /\ execution[a].runs = 1
  BY InsideFacts
<1>2. execution \in [Agent -> ExecutionRow]
  BY DEF TurnInv, TurnTypes, AuditTypes
<1>3. PICK row : row = [execution[a] EXCEPT !.status = status]
  OBVIOUS
<1>4. /\ execution' = [execution EXCEPT ![a] = row]
      /\ row.status = status /\ row.runs = 1 /\ row.log = execution[a].log
      /\ row \in ExecutionRow
  BY <1>1, <1>2, <1>3 DEF ExecutionRow
<1>5. /\ execution'[a] = row /\ execution' \in [Agent -> ExecutionRow]
      /\ \A b \in Agent \ {a} : execution'[b] = execution[b]
  BY <1>2, <1>4
<1>6. CallsOf(a)
  BY StillCalls
<1>7. AuditTypes' /\ RestKept(a)
  BY <1>5, <1>6 DEF AuditTypes, CallsOf, RestKept
<1>8. AgentInv(a)'
  BY <1>1, <1>4, <1>5, <1>6 DEF AgentInv, CallsOf
<1>9. OutsideRow(t)'
  BY <1>1, <1>4, <1>5 DEF Served, Agent
<1> QED
  BY <1>1, <1>7, <1>8, <1>9, KeptDecision, TurnStep

LEMMA EndKeeps ==
    ASSUME TurnInv, NEW w \in Worker, Complete(w) \/ FailExecution(w) PROVE TurnInv'
<1>0. /\ task[w].at \in {"complete", "fail"} /\ task[w].at \in Inside /\ Surroundings'
      /\ UNCHANGED <<call, commands, outcome>>
  BY KeptSurroundings DEF Complete, FailExecution, At, Inside, outcome
<1>1. PICK a \in Agent : a = task[w].agent
  BY <1>0, InsideFacts
<1>2. InsideRow(task[w]) /\ OutsideRow(task[w]) /\ task[w] \in TaskRow
  BY <1>0, InsideFacts
<1>3. CASE Complete(w)
  <2>1. Earned(execution[a].log)
    BY <1>1, <1>2, <1>3 DEF Complete, At, InsideRow
  <2>2. PICK t : t = [Idle EXCEPT !.at = "output", !.agent = a, !.by = task[w].by]
    OBVIOUS
  <2>3. task' = [task EXCEPT ![w] = t] /\ execution' = [execution EXCEPT ![a].status = "succeeded"]
    BY <1>1, <1>3, <2>2 DEF Complete
  <2>4. t \in TaskRow /\ t.at = "output" /\ t.agent = a
    <3>1. Idle \in TaskRow
      BY IdleSafe DEF SafeRow
    <3> QED
      BY <1>2, <2>2, <3>1 DEF TaskRow, Place
  <2>5. t.at \notin Inside
    BY <2>4 DEF Inside, Calling
  <2>6. ASSUME execution'[a].status = "succeeded", Served => Served' PROVE OutsideRow(t)'
    BY <1>1, <1>2, <2>4, <2>6 DEF OutsideRow, Before
  <2> QED
    BY <1>0, <1>1, <2>1, <2>3, <2>4, <2>5, <2>6, EndStep
<1>4. CASE FailExecution(w)
  <2>1. execution' = [execution EXCEPT ![a].status = "failed"] /\ Unavailable(w, "abort")
    BY <1>1, <1>4 DEF FailExecution
  <2>2. PICK t \in TaskRow : SafeRow(t) /\ task' = [task EXCEPT ![w] = t]
    BY <2>1, UnavailableSafe
  <2>3. OutsideRow(t)' /\ t.at \notin Inside
    BY <2>2, SafeOutside DEF SafeRow
  <2> QED
    BY <1>0, <1>1, <2>1, <2>2, <2>3, EndStep
<1> QED
  BY <1>3, <1>4

LEMMA CreateKeeps ==
    ASSUME TurnInv, NEW w \in Worker, Create(w) PROVE TurnInv'
<1>0. task[w].at = "create" /\ Surroundings' /\ UNCHANGED <<call, commands, outcome>>
  BY KeptSurroundings DEF Create, At, outcome
<1>1. PICK a \in Agent : a = task[w].agent
  BY DEF TurnInv, TurnTypes, TaskRow
<1>2. CASE execution[a].status # "none"
  <2>1. Unavailable(w, "conflict") /\ UNCHANGED <<audit, outcome>>
    BY <1>1, <1>2 DEF Create, audit
  <2> QED
    BY <1>0, <2>1, UnavailableStep
<1>3. CASE execution[a].status = "none"
  <2>1. /\ execution' = [execution EXCEPT ![a].status = "running", ![a].runs = @ + 1]
        /\ Goto(w, "generate") /\ "generate" \in Place /\ "generate" \in Inside \ Calling
    BY <1>1, <1>3 DEF Create, Place, Inside, Calling
  <2>2. PICK t \in TaskRow :
          /\ task' = [task EXCEPT ![w] = t] /\ t.at = "generate" /\ t.agent = a
          /\ t.runtime = task[w].runtime /\ t.asked = task[w].asked
    BY <1>1, <2>1, RowAt
  <2>3. t.runtime = 1 /\ t.asked = 0 /\ (t.agent = "routing" => Served)
    BY <1>0, <1>1, <2>2 DEF TurnInv, OutsideRow, Before
  <2>4. AgentInv(a) /\ execution[a] \in ExecutionRow /\ execution \in [Agent -> ExecutionRow]
    BY DEF TurnInv, TurnTypes, AuditTypes
  <2>5. PICK row : row = [execution[a] EXCEPT !.status = "running", !.runs = @ + 1]
    OBVIOUS
  <2>6. /\ execution' = [execution EXCEPT ![a] = row]
        /\ row.status = "running" /\ row.runs = 1 /\ row.log = << >>
        /\ row \in ExecutionRow
    BY <1>3, <2>1, <2>4, <2>5 DEF ExecutionRow, AgentInv
  <2>7. /\ execution'[a] = row /\ execution' \in [Agent -> ExecutionRow]
        /\ \A b \in Agent \ {a} : execution'[b] = execution[b]
    BY <2>4, <2>6
  <2>8. CallsOf(a)
    BY <1>0, StillCalls
  <2>9. AuditTypes' /\ RestKept(a)
    BY <2>7, <2>8 DEF AuditTypes, CallsOf, RestKept
  <2>10. Len(row.log) = 0 /\ AllFailed(row.log)
    BY <2>6 DEF AllFailed
  <2>11. AgentInv(a)'
    BY <2>6, <2>7, <2>8, <2>10, TurnAssumption DEF AgentInv, CallsOf
  <2>12. \A n \in CallNumber : Untouched(a, n)'
    BY <1>0, <1>3, <2>4 DEF AgentInv, Untouched, Applied
  <2>13. InsideRow(t)'
    <3>1. t.runtime <= Runtimes /\ Len(row.log) = t.runtime - 1
      BY <2>3, <2>10, TurnAssumption
    <3> QED
      BY <2>1, <2>2, <2>3, <2>6, <2>7, <2>10, <2>12, <3>1 DEF InsideRow, Calling
  <2>14. OutsideRow(t)'
    <3>1. Served => Served'
      BY <1>3, <2>7 DEF Served, Agent
    <3> QED
      BY <2>2, <2>3, <3>1 DEF OutsideRow, Before
  <2>15. Owns(w, a)
    BY <1>3 DEF Owns
  <2> QED
    BY <1>0, <2>2, <2>9, <2>11, <2>13, <2>14, <2>15, KeptDecision, TurnStep
<1> QED
  BY <1>2, <1>3

-----------------------------------------------------------------------------
(* Theorems *)

LEMMA OthersKeep ==
    ASSUME TurnInv, Bury \/ Assume \/ UNCHANGED vars PROVE TurnInv'
<1>1. UNCHANGED <<execution, call, commands, decision, reply, task>>
  BY DEF Bury, Assume, vars, audit, outcome
<1>2. Surroundings'
  BY DEF TurnInv, TurnTypes, Surroundings, Bury, Assume, vars
<1>3. TurnTypes'
  BY <1>1, <1>2 DEF TurnInv, TurnTypes, AuditTypes
<1>4. \A a \in Agent : AgentInv(a)'
  BY <1>1 DEF TurnInv, AgentInv, Untouched, Audited, Applied
<1>5. \A w \in Worker : (task[w].at \in Inside => InsideRow(task[w]))'
  BY <1>1 DEF TurnInv, InsideRow, Stage, Untouched, Applied
<1>6. \A w \in Worker : OutsideRow(task[w])'
  BY <1>1 DEF TurnInv, OutsideRow, Served
<1>7. Alone' /\ DecisionInv'
  BY <1>1 DEF TurnInv, Alone, DecisionInv, DecisionRows, Served
<1> QED
  BY <1>3, <1>4, <1>5, <1>6, <1>7 DEF TurnInv

LEMMA InitTurn == Init => TurnInv
<1> SUFFICES ASSUME Init PROVE TurnInv
  OBVIOUS
<1>1. Idle \in TaskRow /\ OutsideRow(Idle) /\ Idle.at \notin Inside
  BY IdleSafe, SafeOutside DEF SafeRow
<1>2. PICK row : row = [status |-> "none", runs |-> 0, log |-> << >>]
  OBVIOUS
<1>3. row \in ExecutionRow /\ row.status = "none" /\ row.runs = 0 /\ row.log = << >>
  BY <1>2 DEF ExecutionRow
<1>4. \A a \in Agent : execution[a] = row /\ call[a] = NoCalls
  BY <1>2 DEF Init
<1>5. TurnTypes
  <2>1. AuditTypes
    BY <1>2, <1>3 DEF Init, AuditTypes, NoCalls, CallNumber, CallStatus
  <2>2. Surroundings
    BY TurnAssumption DEF Init, Surroundings
  <2> QED
    BY <1>1, <2>1, <2>2 DEF Init, TurnTypes
<1>6. \A a \in Agent : AgentInv(a)
  <2>1. Len(row.log) = 0 /\ commands = {}
    BY <1>3 DEF Init
  <2> QED
    BY <1>3, <1>4, <2>1, TurnAssumption
       DEF AgentInv, Untouched, Audited, Applied, NoCalls, CallNumber
<1>7. \A w \in Worker : task[w] = Idle
  BY DEF Init
<1>8. Alone /\ DecisionInv
  BY <1>1, <1>7 DEF Init, Alone, DecisionInv, DecisionRows
<1> QED
  BY <1>1, <1>5, <1>6, <1>7, <1>8 DEF TurnInv

LEMMA StepKeeps == TurnInv /\ [Next]_vars => TurnInv'
<1> SUFFICES ASSUME TurnInv, [Next]_vars PROVE TurnInv'
  OBVIOUS
<1>1. CASE Bury \/ Assume \/ UNCHANGED vars
  BY <1>1, OthersKeep
<1>2. ASSUME NEW w \in Worker, Turn(w) PROVE TurnInv'
  BY <1>2, EventKeeps, OutKeeps, CreateKeeps, ModelKeeps, ErrorKeeps, EndKeeps, BeginKeeps,
     CallKeeps, AuditKeeps, DecisionKeeps DEF Turn
<1>3. ASSUME NEW w \in Worker, Trouble(w) PROVE TurnInv'
  BY <1>3, OutKeeps, ErrorKeeps, EventKeeps DEF Trouble
<1> QED
  BY <1>1, <1>2, <1>3 DEF Next

LEMMA SpecTurn == Spec => []TurnInv
<1> QED
  BY InitTurn, StepKeeps, PTL DEF Spec

\* The rows of a turn have their types, with one execution of an agent at most and no
\* more attempts of the model than it has runtimes (agent-executor.ts, executeInternal).
THEOREM TypeCorrect == Spec => []TypeOK
<1> QED
  BY SpecTurn, InvImplies, PTL

\* However often the event is retried, and by however many workers at a time, the
\* command of a tool call of an agent is applied at most once (agent-executor.ts,
\* executeTool).
THEOREM ToolAppliedOnce == Spec => []ToolOnce
<1> QED
  BY SpecTurn, InvImplies, PTL

\* A call that the audit shows as denied did not touch the domain, and one that it shows
\* as succeeded did, whatever the faults and deaths in between.
THEOREM AuditTellsTruth == Spec => []AuditIsTrue
<1> QED
  BY SpecTurn, InvImplies, PTL

\* What is decided comes from an execution of the customer service that succeeded on its
\* last attempt, after all that failed, and a worker that lost its lease cannot replace
\* it (agent-orchestration.service.ts).
THEOREM DecisionEarned == Spec => []DecisionIsEarned
<1> QED
  BY SpecTurn, InvImplies, PTL

-----------------------------------------------------------------------------
(* The media: an asset is interpreted once *)

\* Steps of a job that has the asset to itself.
Answering == {"call", "complete", "fail"}

\* A job tries its first runtime until it has claimed the asset.
IsJob(j) ==
    /\ j = [asset |-> j.asset, at |-> j.at, runtime |-> j.runtime]
    /\ j.runtime \in 1..MediaRuntimes
    /\ j.at \in {"load", "preserve", "claim"} => j.runtime = 1

MediaTypes ==
    /\ interpretation \in
         [M!Asset -> {"none", "pending", "succeeded", "failed", "unsupported"}]
    /\ requests \in [M!Asset -> Nat]
    /\ job = [p \in M!Runner |-> job[p]] /\ \A p \in M!Runner : IsJob(job[p])

\* What was not claimed was never sent to a model.
AssetInv(a) ==
    /\ interpretation[a] = "none" \/ a \in preserved => requests[a] = 0
    /\ requests[a] <= MediaRuntimes

\* How far the asset has come that a job is at.
JobInv(j) ==
    /\ j.at = "claim" => j.asset \notin preserved
    /\ j.at \in Answering =>
         interpretation[j.asset] = "pending" /\ j.asset \notin preserved
    /\ j.at = "call" => requests[j.asset] = j.runtime - 1

\* No other job has the asset that p is at.
HasAlone(p) ==
    \A q \in M!Runner :
        job[q].at \in Answering /\ job[q].asset = job[p].asset => q = p

\* The order in which a tick lists the assets says nothing of them, so nothing is asked
\* of a job whose asset is not known to be one.
MediaInv ==
    /\ MediaTypes
    /\ \A a \in M!Asset : AssetInv(a)
    /\ \A p \in M!Runner : job[p].asset \in M!Asset =>
         JobInv(job[p]) /\ (job[p].at \in Answering => HasAlone(p))

LEMMA MediaConstants == MediaRuntimes \in Nat \ {0}
BY MediaBounds DEF M!MediaAssumption

LEMMA IdleJob == IsJob(M!NoJob) /\ M!NoJob.at = "idle"
BY MediaConstants DEF IsJob, M!NoJob

\* A job goes on or ends: what it changed of its asset nobody else relies on.
LEMMA JobMoves ==
    ASSUME MediaInv, NEW p \in M!Runner, NEW row, IsJob(row),
           job' = [job EXCEPT ![p] = row], UNCHANGED preserved,
           interpretation' \in
             [M!Asset -> {"none", "pending", "succeeded", "failed", "unsupported"}],
           requests' \in [M!Asset -> Nat],
           \A a \in M!Asset : AssetInv(a)' /\
              (a # job[p].asset => interpretation'[a] = interpretation[a]
                                   /\ requests'[a] = requests[a]),
           row.asset \in M!Asset => JobInv(row)',
           row.asset \in M!Asset /\ row.at \in Answering => row.asset = job[p].asset,
           \/ row.at \notin Answering /\ UNCHANGED <<interpretation, requests>>
           \/ job[p].asset \in M!Asset => HasAlone(p)
    PROVE  MediaInv'
<1>1. job'[p] = row /\ \A q \in M!Runner : q # p => job'[q] = job[q]
  BY DEF MediaInv, MediaTypes
<1>2. MediaTypes'
  BY <1>1 DEF MediaInv, MediaTypes, IsJob
<1>3. ASSUME NEW q \in M!Runner, job'[q].asset \in M!Asset
      PROVE  JobInv(job[q])' /\ (job'[q].at \in Answering => HasAlone(q)')
  <2>1. CASE q = p
    <3>1. JobInv(job[q])'
      BY <1>1, <1>3, <2>1 DEF JobInv
    <3>2. job'[q].at \in Answering => HasAlone(q)'
      BY <1>1, <1>3, <2>1 DEF HasAlone
    <3> QED
      BY <3>1, <3>2
  <2>2. CASE q # p
    <3>1. job'[q] = job[q] /\ JobInv(job[q]) /\ (job[q].at \in Answering => HasAlone(q))
      BY <1>1, <1>3, <2>2 DEF MediaInv
    <3>2. job[q].at \in Answering /\ job[q].asset = job[p].asset =>
             row.at \notin Answering /\ UNCHANGED <<interpretation, requests>>
      BY <1>3, <2>2, <3>1 DEF HasAlone
    <3>3. job[q].at \in Answering =>
             /\ interpretation'[job[q].asset] = interpretation[job[q].asset]
             /\ requests'[job[q].asset] = requests[job[q].asset]
      BY <1>3, <3>1, <3>2
    <3>4. JobInv(job[q])'
      BY <3>1, <3>3 DEF JobInv, Answering
    <3>5. job'[q].at \in Answering => HasAlone(q)'
      BY <1>1, <1>3, <3>1, <3>2 DEF HasAlone
    <3> QED
      BY <3>4, <3>5
  <2> QED
    BY <2>1, <2>2
<1> QED
  BY <1>2, <1>3 DEF MediaInv

\* A step that has no asset to itself, and changes nothing of any.
LEMMA JobReads ==
    ASSUME MediaInv, NEW p \in M!Runner, NEW row, IsJob(row), row.at \notin Answering,
           row.at = "claim" => row.asset \notin preserved,
           job' = [job EXCEPT ![p] = row],
           UNCHANGED <<preserved, interpretation, requests>>
    PROVE  MediaInv'
<1>1. \A a \in M!Asset : AssetInv(a)'
  BY DEF MediaInv, AssetInv
<1>2. JobInv(row)'
  BY DEF JobInv, Answering
<1>3. /\ interpretation' \in
            [M!Asset -> {"none", "pending", "succeeded", "failed", "unsupported"}]
      /\ requests' \in [M!Asset -> Nat]
  BY DEF MediaInv, MediaTypes
<1> QED
  BY <1>1, <1>2, <1>3, JobMoves

LEMMA MediaStays ==
    ASSUME MediaInv, UNCHANGED <<preserved, interpretation, requests, job>> PROVE MediaInv'
BY DEF MediaInv, MediaTypes, AssetInv, JobInv, HasAlone

LEMMA JobEnds ==
    ASSUME MediaInv, NEW p \in M!Runner, M!Ends(p),
           UNCHANGED <<preserved, interpretation, requests>>
    PROVE  MediaInv'
<1>1. M!NoJob.at \notin Answering /\ M!NoJob.at # "claim"
  BY IdleJob DEF Answering
<1> QED
  BY <1>1, IdleJob, JobReads DEF M!Ends

LEMMA TakeReads ==
    ASSUME MediaInv, NEW p \in M!Runner, NEW a,
           job' = [job EXCEPT ![p] = [M!NoJob EXCEPT !.asset = a, !.at = "load"]],
           UNCHANGED <<preserved, interpretation, requests>>
    PROVE  MediaInv'
<1>1. PICK row : row = [M!NoJob EXCEPT !.asset = a, !.at = "load"]
  OBVIOUS
<1>2. row.asset = a /\ row.at = "load" /\ row.runtime = 1
      /\ row = [asset |-> row.asset, at |-> row.at, runtime |-> row.runtime]
  BY <1>1 DEF M!NoJob
<1>3. IsJob(row) /\ row.at \notin Answering /\ row.at # "claim"
  BY <1>2, MediaConstants DEF IsJob, Answering
<1>4. job' = [job EXCEPT ![p] = row]
  BY <1>1
<1> QED
  BY <1>3, <1>4, JobReads

LEMMA LoadReads ==
    ASSUME MediaInv, NEW p \in M!Runner, M!Load(p) PROVE MediaInv'
<1>0. UNCHANGED <<preserved, interpretation, requests>> /\ job[p].at = "load"
  BY DEF M!Load, M!At, M!result, M!given
<1>1. IsJob(job[p])
  BY DEF MediaInv, MediaTypes
<1>2. CASE M!Ends(p)
  BY <1>0, <1>2, JobEnds
<1>3. ASSUME NEW place \in {"preserve", "claim"}, M!Goto(p, place),
             place = "claim" => job[p].asset \notin preserved
      PROVE  MediaInv'
  <2>1. PICK row : row = [job[p] EXCEPT !.at = place]
    OBVIOUS
  <2>2. row = [asset |-> job[p].asset, at |-> place, runtime |-> job[p].runtime]
    BY <1>1, <2>1 DEF IsJob
  <2>3. IsJob(row) /\ row.at \notin Answering
    BY <1>0, <1>1, <2>2 DEF IsJob, Answering
  <2>4. job' = [job EXCEPT ![p] = row]
    BY <1>3, <2>1 DEF M!Goto
  <2> QED
    BY <1>0, <1>3, <2>2, <2>3, <2>4, JobReads
<1>4. M!Goto(p, "preserve") \/ M!Ends(p)
        \/ (M!Goto(p, "claim") /\ job[p].asset \notin preserved)
  BY DEF M!Load, M!Wanted, M!Working
<1>5. "claim" \in {"preserve", "claim"} /\ "preserve" \in {"preserve", "claim"}
  OBVIOUS
<1> QED
  BY <1>2, <1>3, <1>4, <1>5

LEMMA PreserveKeeps ==
    ASSUME MediaInv, NEW p \in M!Runner, M!Preserve(p) PROVE MediaInv'
<1>1. CASE interpretation[job[p].asset] # "none"
  BY <1>1, JobEnds DEF M!Preserve, M!Working, M!given
<1>2. CASE interpretation[job[p].asset] = "none"
  <2>1. /\ interpretation' = [interpretation EXCEPT ![job[p].asset] = "unsupported"]
        /\ UNCHANGED <<preserved, requests>> /\ job' = [job EXCEPT ![p] = M!NoJob]
    BY <1>2 DEF M!Preserve, M!Working, M!given, M!Ends
  <2>2. \A a \in M!Asset : AssetInv(a)' /\
           (a # job[p].asset => interpretation'[a] = interpretation[a]
                                /\ requests'[a] = requests[a])
    BY <2>1 DEF MediaInv, MediaTypes, AssetInv
  <2>3. job[p].asset \in M!Asset => HasAlone(p)
    BY <1>2 DEF MediaInv, JobInv, HasAlone
  <2>4. JobInv(M!NoJob)' /\ M!NoJob.at \notin Answering
    BY IdleJob DEF JobInv, Answering
  <2>5. /\ interpretation' \in
              [M!Asset -> {"none", "pending", "succeeded", "failed", "unsupported"}]
        /\ requests' \in [M!Asset -> Nat]
    BY <2>1 DEF MediaInv, MediaTypes
  <2> QED
    BY <2>1, <2>2, <2>3, <2>4, <2>5, IdleJob, JobMoves
<1> QED
  BY <1>1, <1>2

LEMMA ClaimKeeps ==
    ASSUME MediaInv, NEW p \in M!Runner, M!Claim(p) PROVE MediaInv'
<1>1. CASE interpretation[job[p].asset] # "none"
  BY <1>1, JobEnds DEF M!Claim, M!Working, M!given
<1>2. CASE interpretation[job[p].asset] = "none"
  <2>0. job[p].at = "claim" /\ IsJob(job[p])
    BY DEF M!Claim, M!At, MediaInv, MediaTypes
  <2>1. PICK row : row = [asset |-> job[p].asset, at |-> "call", runtime |-> job[p].runtime]
    OBVIOUS
  <2>2. /\ interpretation' = [interpretation EXCEPT ![job[p].asset] = "pending"]
        /\ UNCHANGED <<preserved, requests>> /\ job' = [job EXCEPT ![p] = row]
    BY <1>2, <2>0, <2>1 DEF M!Claim, M!Working, M!given, M!Goto, IsJob
  <2>3. \A a \in M!Asset : AssetInv(a)' /\
           (a # job[p].asset => interpretation'[a] = interpretation[a]
                                /\ requests'[a] = requests[a])
    BY <2>2 DEF MediaInv, MediaTypes, AssetInv
  <2>4. job[p].asset \in M!Asset => HasAlone(p)
    BY <1>2 DEF MediaInv, JobInv, HasAlone
  <2>5. IsJob(row)
    BY <2>0, <2>1 DEF IsJob
  <2>6. row.asset \in M!Asset => JobInv(row)'
    <3> SUFFICES ASSUME job[p].asset \in M!Asset PROVE JobInv(row)'
      BY <2>1
    <3>1. requests[job[p].asset] = 0 /\ job[p].runtime = 1 /\ job[p].asset \notin preserved
      BY <1>2, <2>0 DEF MediaInv, AssetInv, JobInv, IsJob
    <3>2. interpretation'[job[p].asset] = "pending"
      BY <2>2 DEF MediaInv, MediaTypes
    <3> QED
      BY <2>1, <2>2, <3>1, <3>2 DEF JobInv
  <2>7. /\ interpretation' \in
              [M!Asset -> {"none", "pending", "succeeded", "failed", "unsupported"}]
        /\ requests' \in [M!Asset -> Nat]
    BY <2>2 DEF MediaInv, MediaTypes
  <2> QED
    BY <2>1, <2>2, <2>3, <2>4, <2>5, <2>6, <2>7, JobMoves
<1> QED
  BY <1>1, <1>2

LEMMA CallCounts ==
    ASSUME MediaInv, NEW p \in M!Runner, M!Call(p) PROVE MediaInv'
<1>0. job[p].at = "call" /\ IsJob(job[p]) /\ job[p].at \in Answering
  BY DEF M!Call, M!At, MediaInv, MediaTypes, Answering
<1>1. PICK row : /\ row.asset = job[p].asset /\ IsJob(row) /\ row.at \in Answering
                 /\ row.at = "call" => row.runtime = job[p].runtime + 1
                 /\ job' = [job EXCEPT ![p] = row]
  <2>1. ASSUME NEW place \in {"complete", "fail"}, M!Goto(p, place)
        PROVE  LET row == [job[p] EXCEPT !.at = place]
               IN  /\ row.asset = job[p].asset /\ IsJob(row) /\ row.at \in Answering
                   /\ row.at = "call" => row.runtime = job[p].runtime + 1
                   /\ job' = [job EXCEPT ![p] = row]
    BY <1>0, <2>1 DEF M!Goto, IsJob, Answering
  <2>2. ASSUME M!AnotherRuntime(p), job' = [job EXCEPT ![p].runtime = @ + 1]
        PROVE  LET row == [job[p] EXCEPT !.runtime = @ + 1]
               IN  /\ row.asset = job[p].asset /\ IsJob(row) /\ row.at \in Answering
                   /\ row.at = "call" => row.runtime = job[p].runtime + 1
                   /\ job' = [job EXCEPT ![p] = row]
    BY <1>0, <2>2, MediaConstants DEF M!AnotherRuntime, IsJob, Answering
  <2>3. \/ M!Goto(p, "complete") \/ M!Goto(p, "fail")
        \/ M!AnotherRuntime(p) /\ job' = [job EXCEPT ![p].runtime = @ + 1]
    BY DEF M!Call
  <2>4. CASE M!AnotherRuntime(p) /\ job' = [job EXCEPT ![p].runtime = @ + 1]
    BY <2>2, <2>4
  <2>5. CASE M!Goto(p, "complete") \/ M!Goto(p, "fail")
    BY <2>1, <2>5
  <2> QED
    BY <2>3, <2>4, <2>5
<1>2. /\ requests' = [requests EXCEPT ![job[p].asset] = @ + 1]
      /\ UNCHANGED <<preserved, interpretation>>
  BY DEF M!Call, M!Working, M!given
<1>3. ASSUME job[p].asset \in M!Asset
      PROVE  /\ JobInv(job[p]) /\ HasAlone(p) /\ requests[job[p].asset] = job[p].runtime - 1
             /\ requests'[job[p].asset] = requests[job[p].asset] + 1
             /\ interpretation[job[p].asset] = "pending" /\ job[p].asset \notin preserved
  BY <1>0, <1>2, <1>3 DEF MediaInv, MediaTypes, JobInv
<1>4. ASSUME NEW a \in M!Asset
      PROVE  /\ AssetInv(a)'
             /\ a # job[p].asset =>
                  interpretation'[a] = interpretation[a] /\ requests'[a] = requests[a]
  <2>1. CASE a = job[p].asset
    BY <1>0, <1>2, <1>3, <2>1, MediaConstants DEF AssetInv, IsJob
  <2>2. CASE a # job[p].asset
    BY <1>2, <2>2 DEF MediaInv, MediaTypes, AssetInv
  <2> QED
    BY <2>1, <2>2
<1>5. row.asset \in M!Asset => JobInv(row)'
  BY <1>0, <1>1, <1>2, <1>3 DEF JobInv, IsJob, Answering
<1>6. /\ interpretation' \in
            [M!Asset -> {"none", "pending", "succeeded", "failed", "unsupported"}]
      /\ requests' \in [M!Asset -> Nat]
  <2>1. \A a \in M!Asset : requests[a] \in Nat /\ requests[a] + 1 \in Nat
    BY DEF MediaInv, MediaTypes
  <2> QED
    BY <1>2, <2>1 DEF MediaInv, MediaTypes
<1> QED
  BY <1>1, <1>2, <1>3, <1>4, <1>5, <1>6, JobMoves

LEMMA FinishKeeps ==
    ASSUME MediaInv, NEW p \in M!Runner, job[p].at \in Answering,
           NEW status \in {"succeeded", "failed"}, NEW assetStatus,
           M!Finish(p, status, assetStatus)
    PROVE  MediaInv'
<1>1. /\ interpretation' =
           [interpretation EXCEPT ![job[p].asset] = IF @ = "pending" THEN status ELSE @]
      /\ UNCHANGED <<preserved, requests>> /\ job' = [job EXCEPT ![p] = M!NoJob]
  BY DEF M!Finish, M!Working, M!given, M!Ends
<1>2. \A a \in M!Asset : AssetInv(a)' /\
         (a # job[p].asset => interpretation'[a] = interpretation[a]
                              /\ requests'[a] = requests[a])
  BY <1>1 DEF MediaInv, MediaTypes, AssetInv
<1>3. job[p].asset \in M!Asset => HasAlone(p)
  BY DEF MediaInv
<1>4. JobInv(M!NoJob)' /\ M!NoJob.at \notin Answering
  BY IdleJob DEF JobInv, Answering
<1>5. /\ interpretation' \in
            [M!Asset -> {"none", "pending", "succeeded", "failed", "unsupported"}]
      /\ requests' \in [M!Asset -> Nat]
  BY <1>1 DEF MediaInv, MediaTypes
<1> QED
  BY <1>1, <1>2, <1>3, <1>4, <1>5, IdleJob, JobMoves

LEMMA CrashEnds == ASSUME MediaInv, M!Crash PROVE MediaInv'
<1>1. /\ UNCHANGED <<preserved, interpretation, requests>>
      /\ job' = [p \in M!Runner |-> M!NoJob]
  BY DEF M!Crash, M!result, M!given
<1>2. MediaTypes' /\ \A a \in M!Asset : AssetInv(a)'
  BY <1>1, IdleJob DEF MediaInv, MediaTypes, AssetInv
<1>3. \A p \in M!Runner : JobInv(job[p])' /\ job'[p].at \notin Answering
  BY <1>1, IdleJob DEF JobInv, Answering
<1> QED
  BY <1>2, <1>3 DEF MediaInv

LEMMA MediaKeeps == MediaInv /\ M!Next => MediaInv'
<1> SUFFICES ASSUME MediaInv, M!Next PROVE MediaInv'
  OBVIOUS
<1>1. CASE M!Tick
  BY <1>1, MediaStays DEF M!Tick, M!result, M!given
<1>2. CASE M!TakeNext
  <2>1. "worker" \in M!Runner
    BY DEF M!Runner
  <2>2. PICK a : a = Head(batch)
    OBVIOUS
  <2> QED
    BY <1>2, <2>1, <2>2, TakeReads DEF M!TakeNext, M!result, M!given
<1>3. CASE M!Crash
  BY <1>3, CrashEnds
<1>4. ASSUME NEW p \in M!Runner, M!Work(p) PROVE MediaInv'
  <2>1. CASE M!LoadThrows(p)
    BY <2>1, JobEnds DEF M!LoadThrows, M!ItemEnds, M!result, M!given
  <2>2. CASE M!Complete(p)
    BY <2>2, FinishKeeps DEF M!Complete, M!At, Answering
  <2>3. CASE M!Fail(p)
    BY <2>3, FinishKeeps DEF M!Fail, M!At, Answering
  <2> QED
    BY <1>4, <2>1, <2>2, <2>3, LoadReads, PreserveKeeps, ClaimKeeps, CallCounts DEF M!Work
<1>5. ASSUME NEW p \in M!Runner, M!ItemThrows(p) PROVE MediaInv'
  BY <1>5, JobEnds DEF M!ItemThrows, M!ItemEnds, M!result, M!given
<1>6. ASSUME NEW a \in M!Asset, M!Ask(a) PROVE MediaInv'
  <2>1. "panel" \in M!Runner
    BY DEF M!Runner
  <2> QED
    BY <1>6, <2>1, TakeReads DEF M!Ask, M!result, M!given
<1>7. ASSUME NEW a \in M!Asset,
             \/ M!TakeOver(a) \/ M!Use(a) \/ M!Break(a) \/ M!Retain(a) \/ M!Unavailable(a)
             \/ \E c \in Correction : M!Correct(a, c)
      PROVE  MediaInv'
  BY <1>7, MediaStays
     DEF M!TakeOver, M!Use, M!Break, M!Retain, M!Unavailable, M!Correct, M!result, M!given
<1> QED
  BY <1>1, <1>2, <1>3, <1>4, <1>5, <1>6, <1>7 DEF M!Next

LEMMA InitMedia == ModelsInit => MediaInv
<1> SUFFICES ASSUME M!Init PROVE MediaInv
  BY DEF ModelsInit
<1>1. MediaTypes
  BY IdleJob DEF M!Init, MediaTypes
<1>2. \A a \in M!Asset : AssetInv(a)
  BY MediaConstants DEF M!Init, AssetInv
<1>3. \A p \in M!Runner : JobInv(job[p]) /\ job[p].at \notin Answering
  BY IdleJob DEF M!Init, JobInv, Answering
<1> QED
  BY <1>1, <1>2, <1>3 DEF MediaInv

\* Worker and panel together have an asset interpreted at most once: no runtime of a model
\* is called twice for it, and none for one that is only preserved, wherever they stop and
\* whoever asks at the same time (media-interpretation.service.ts, analyzeAsset).
THEOREM MediaInterpretedOnce == ModelsSpec => []InterpretedOnce
<1>1. MediaInv /\ [ModelsNext]_modelVars => MediaInv'
  <2> SUFFICES ASSUME MediaInv, [ModelsNext]_modelVars PROVE MediaInv'
    OBVIOUS
  <2>1. CASE InMedia /\ M!Next
    BY <2>1, MediaKeeps
  <2>2. CASE (InTurn /\ Next) \/ UNCHANGED modelVars
    BY <2>2, MediaStays DEF InTurn, modelVars, mediaVars
  <2> QED
    BY <2>1, <2>2 DEF ModelsNext, TurnNext, MediaNext
<1>2. MediaInv => InterpretedOnce
  BY DEF MediaInv, AssetInv, MediaTypes, InterpretedOnce, M!InterpretedOnce
<1> QED
  BY <1>1, <1>2, InitMedia, PTL DEF ModelsSpec
=============================================================================
