----------------------- MODULE ChannelAdministration -----------------------
(***************************************************************************)
(* A WhatsApp channel of a company and the Evolution instance behind it    *)
(* (manage-whatsapp-channels.use-case.ts, whatsapp-channel.ts,             *)
(* prisma-whatsapp-channel-management.repository.ts and                    *)
(* evolution-instance-management.client.ts).                               *)
(*                                                                         *)
(* A request reads the channel, writes it under a command and an expected  *)
(* version, and talks to Evolution, in an order that differs from one      *)
(* operation to the next.  Every write is one serializable transaction     *)
(* that records an event; Evolution may do what it is asked and still fail *)
(* to answer in time.                                                      *)
(*                                                                         *)
(* Left out: the name of the instance, which never changes; the rows of    *)
(* the provider and the checks of departments; the QR image; an answer of  *)
(* Evolution that arrives after the request gave up.                       *)
(***************************************************************************)
EXTENDS Naturals

CONSTANTS
    Channel,     \* channels that can be created
    Call,        \* requests under way at one time
    Command,     \* command identifiers
    Settings,    \* name, department, routing, targets and agents of a channel
    MaxVersion,  \* bound on the version of a channel
    None         \* no event

ChannelAssumption ==
    /\ MaxVersion \in Nat \ {0}
    /\ None \notin Settings

VARIABLES
    channel,   \* row of each channel
    instance,  \* Evolution's instance of each channel
    event,     \* recorded event of each command and step of it
    call       \* requests under way

vars == <<channel, instance, event, call>>

ChannelOrganizationalStatus == {"pending", "active", "cancelled", "disabled"}
ChannelConnectionStatus == {"unknown", "connected", "disconnected", "connecting", "error"}
Row == [status : ChannelOrganizationalStatus \cup {"absent"},
        link : ChannelConnectionStatus, settings : Settings, version : 0..MaxVersion]
Step == {"started", "whole", "provider-ready", "provider-failed"}
Operation == {"create", "request-qr", "reconnect", "synchronize", "disconnect",
              "cancel-setup", "disable", "update", "pairing"}

Retired(row) == row.status \in {"cancelled", "disabled"}
Idle == [step |-> "idle"]

TypeOK ==
    /\ channel \in [Channel -> Row]
    /\ instance \in [Channel -> {"none", "connecting", "connected", "disconnected"}]
    /\ DOMAIN event = Command \X Step
    /\ \A k \in Call : call[k].step \in {"idle", "write", "ask", "record"}

Init ==
    /\ channel \in [Channel -> [status : {"absent"}, link : {"disconnected"},
                                settings : Settings, version : {0}]]
    /\ instance = [h \in Channel |-> "none"]
    /\ event = [e \in Command \X Step |-> None]
    /\ call = [k \in Call |-> Idle]

-----------------------------------------------------------------------------
\* Changes of status

\* What the domain makes of a row; TLC is never asked for one it refuses.
Accepts(row, action, admin) ==
    CASE action \in {"request-qr", "connected"} -> ~Retired(row)
      [] action = "cancel-pending" -> row.status = "pending"
      [] action = "disable-operational" -> admin /\ row.status = "active"
      [] OTHER -> TRUE

evolveChannelStatus(row, action) ==
    CASE action = "request-qr" -> [row EXCEPT !.link = "connecting"]
      [] action = "connected" -> [row EXCEPT !.status = "active", !.link = "connected"]
      [] action = "disconnected" -> [row EXCEPT !.link = "disconnected"]
      [] action = "cancel-pending" ->
             [row EXCEPT !.status = "cancelled", !.link = "disconnected"]
      [] action = "disable-operational" -> [row EXCEPT !.status = "disabled"]

\* A state Evolution reports, applied to the row the request holds.
synchronizeProviderState(row, state) ==
    IF state \in {"connected", "disconnected"}
    THEN evolveChannelStatus(row, state)
    ELSE [row EXCEPT !.link = state]

-----------------------------------------------------------------------------
\* The transaction every write goes through

\* Mutant: the write no longer depends on the version.
BadStillAsRead(row, expected) == TRUE

StillAsRead(row, expected) == row.version = expected

Recorded(patch, expected) == [patch |-> patch, expected |-> expected]

Writes(h, e, patch, expected) ==
    /\ event[e] = None
    /\ StillAsRead(channel[h], expected)
    /\ channel[h].version < MaxVersion
    /\ channel' = [channel EXCEPT ![h] =
          [f \in DOMAIN @ |-> IF f = "version" THEN @[f] + 1
                              ELSE IF f \in DOMAIN patch THEN patch[f] ELSE @[f]]]
    /\ event' = [event EXCEPT ![e] = Recorded(patch, expected)]

\* The same command again answers with the channel as it is now.
Repeats(h, e, patch, expected) ==
    /\ event[e] = Recorded(patch, expected)
    /\ UNCHANGED <<channel, event>>

Refuses(h, e, patch, expected) ==
    /\ IF event[e] = None
       THEN ~StillAsRead(channel[h], expected)
       ELSE event[e] # Recorded(patch, expected)
    /\ UNCHANGED <<channel, event>>

Mutates(h, e, patch, expected) ==
    Writes(h, e, patch, expected) \/ Repeats(h, e, patch, expected)

-----------------------------------------------------------------------------
\* Requests

Goes(k, next) == call' = [call EXCEPT ![k] = next]
Begin(k, step, op, h, c, expected, row) ==
    /\ call[k].step = "idle"
    /\ Goes(k, [step |-> step, op |-> op, channel |-> h, command |-> c,
                expected |-> expected, row |-> row, state |-> "none",
                fresh |-> FALSE])

\* Creation writes the pending channel before Evolution hears of it.  A repeat
\* finds the channel of its command and continues there.
Create(k, h, c, settings) ==
    LET e == <<c, "whole">>
        patch == [status |-> "pending", link |-> "disconnected", settings |-> settings]
    IN
    /\ call[k].step = "idle"
    /\ \/ channel[h].status = "absent" /\ Writes(h, e, patch, 0)
       \/ channel[h].status # "absent" /\ Repeats(h, e, patch, 0)
    /\ Goes(k, [step |-> "ask", op |-> "create", channel |-> h, command |-> c,
                expected |-> channel'[h].version, row |-> channel'[h],
                state |-> "none", fresh |-> event[e] = None])
    /\ UNCHANGED instance

\* The panel sends a version it has seen: the current one, or the one before.
Seen(h) == {channel[h].version, channel[h].version - 1} \ {0}

\* A read of the channel under a version; the request goes on with a write or
\* with a question to Evolution.
Reads(k, step, op, h, c, expected) ==
    /\ channel[h].status # "absent" /\ expected \in Seen(h)
    /\ Begin(k, step, op, h, c, expected, channel[h])
    /\ UNCHANGED <<channel, instance, event>>

Connect(k, op, h, c, expected) ==
    /\ op \in {"request-qr", "reconnect"}
    /\ Accepts(channel[h], "request-qr", FALSE)
    /\ Reads(k, "write", op, h, c, expected)

CancelSetup(k, h, c, expected) ==
    /\ Accepts(channel[h], "cancel-pending", FALSE)
    /\ Reads(k, "write", "cancel-setup", h, c, expected)

Disable(k, h, c, expected, admin) ==
    /\ Accepts(channel[h], "disable-operational", admin)
    /\ Reads(k, "write", "disable", h, c, expected)

\* These two talk to Evolution before they write.
SynchronizeConnection(k, h, c, expected) ==
    Reads(k, "ask", "synchronize", h, c, expected)

Disconnect(k, h, c, expected) == Reads(k, "ask", "disconnect", h, c, expected)

\* The panel's view of the code: no command, and nothing is written.
Pairing(k, h) ==
    /\ channel[h].status # "absent" /\ ~Retired(channel[h])
    /\ Begin(k, "ask", "pairing", h, None, channel[h].version, channel[h])
    /\ UNCHANGED <<channel, instance, event>>

UpdateConfiguration(k, h, c, expected, settings) ==
    LET row == [channel[h] EXCEPT !.settings = settings] IN
    /\ channel[h].status # "absent" /\ expected \in Seen(h)
    /\ Begin(k, "write", "update", h, c, expected, row)
    /\ UNCHANGED <<channel, instance, event>>

\* What the first write of a request changes.
FirstPatch(q) ==
    CASE q.op \in {"request-qr", "reconnect"} ->
             [link |-> evolveChannelStatus(q.row, "request-qr").link]
      [] q.op = "cancel-setup" ->
             LET row == evolveChannelStatus(q.row, "cancel-pending") IN
             [status |-> row.status, link |-> row.link]
      [] q.op = "disable" ->
             [status |-> evolveChannelStatus(q.row, "disable-operational").status]
      [] q.op = "update" -> [settings |-> q.row.settings]

FirstEvent(q) ==
    <<q.command, IF q.op \in {"request-qr", "reconnect"} THEN "started" ELSE "whole">>

FirstWrite(k) ==
    LET q == call[k] IN
    /\ q.step = "write"
    /\ Mutates(q.channel, FirstEvent(q), FirstPatch(q), q.expected)
    /\ Goes(k, IF q.op = "update" THEN Idle
               ELSE [q EXCEPT !.step = "ask", !.row = channel'[q.channel],
                              !.expected = channel'[q.channel].version])
    /\ UNCHANGED instance

FirstWriteRefused(k) ==
    LET q == call[k] IN
    /\ q.step = "write"
    /\ Refuses(q.channel, FirstEvent(q), FirstPatch(q), q.expected)
    /\ Goes(k, Idle)
    /\ UNCHANGED instance

-----------------------------------------------------------------------------
\* Evolution

\* What Evolution makes of its instance when it carries a request out.
Carried(q, state) ==
    CASE q.op = "cancel-setup" -> "none"
      [] q.op \in {"disconnect", "disable"} -> "disconnected"
      [] q.op = "synchronize" -> state
      [] OTHER -> IF state = "connected" THEN "connected" ELSE "connecting"

\* A creation needs the name to be free, everything else an instance.
CanCarry(q, state) == (state = "none") <=> (q.op = "create" /\ q.fresh)

\* The last operations write nothing after Evolution has answered.
After(q, state) ==
    IF q.op \in {"cancel-setup", "disable", "pairing"} THEN Idle
    ELSE [q EXCEPT !.step = "record", !.state = state]

Answers(k) ==
    LET q == call[k]
        next == Carried(q, instance[q.channel]) IN
    /\ q.step = "ask" /\ CanCarry(q, instance[q.channel])
    /\ instance' = [instance EXCEPT ![q.channel] = next]
    /\ Goes(k, After(q, next))
    /\ UNCHANGED <<channel, event>>

\* A refusal, an outage, or an answer that came too late.
Fails(k) ==
    LET q == call[k] IN
    /\ q.step = "ask"
    /\ \/ UNCHANGED instance
       \/ /\ CanCarry(q, instance[q.channel])
          /\ instance' = [instance EXCEPT ![q.channel] = Carried(q, @)]
    /\ Goes(k, After(q, "failed"))
    /\ UNCHANGED <<channel, event>>

\* The phone reads the code, or leaves.
PhonePairs(h) ==
    /\ instance[h] = "connecting"
    /\ instance' = [instance EXCEPT ![h] = "connected"]
    /\ UNCHANGED <<channel, event, call>>

PhoneLeaves(h) ==
    /\ instance[h] = "connected"
    /\ instance' = [instance EXCEPT ![h] = "disconnected"]
    /\ UNCHANGED <<channel, event, call>>

-----------------------------------------------------------------------------
\* The write after Evolution's answer

LastPatch(q) ==
    LET row == synchronizeProviderState(q.row, q.state) IN
    IF q.state = "failed" THEN [link |-> "error"]
    ELSE IF q.op = "disconnect" THEN [link |-> "disconnected"]
    ELSE [status |-> row.status, link |-> row.link]

LastEvent(q) ==
    <<q.command, CASE q.state = "failed" -> "provider-failed"
                   [] q.op \in {"synchronize", "disconnect"} -> "whole"
                   [] OTHER -> "provider-ready">>

Applies(q) == q.state = "connected" => Accepts(q.row, "connected", FALSE)

LastWrite(k) ==
    LET q == call[k] IN
    /\ q.step = "record" /\ Applies(q)
    /\ Mutates(q.channel, LastEvent(q), LastPatch(q), q.expected)
    /\ Goes(k, Idle)
    /\ UNCHANGED instance

LastWriteRefused(k) ==
    LET q == call[k] IN
    /\ q.step = "record"
    /\ \/ ~Applies(q) /\ UNCHANGED <<channel, event>>
       \/ Applies(q) /\ Refuses(q.channel, LastEvent(q), LastPatch(q), q.expected)
    /\ Goes(k, Idle)
    /\ UNCHANGED instance

Next ==
    \/ \E k \in Call, h \in Channel, c \in Command :
          \/ \E s \in Settings : Create(k, h, c, s)
          \/ \E v \in 1..MaxVersion :
                \/ \E op \in Operation : Connect(k, op, h, c, v)
                \/ CancelSetup(k, h, c, v)
                \/ \E admin \in BOOLEAN : Disable(k, h, c, v, admin)
                \/ SynchronizeConnection(k, h, c, v) \/ Disconnect(k, h, c, v)
                \/ \E s \in Settings : UpdateConfiguration(k, h, c, v, s)
    \/ \E k \in Call, h \in Channel : Pairing(k, h)
    \/ \E k \in Call :
          \/ FirstWrite(k) \/ FirstWriteRefused(k)
          \/ Answers(k) \/ Fails(k)
          \/ LastWrite(k) \/ LastWriteRefused(k)
    \/ \E h \in Channel : PhonePairs(h) \/ PhoneLeaves(h)

Spec == Init /\ [][Next]_vars

-----------------------------------------------------------------------------
\* A cancelled or disabled channel never comes back, whatever a request that
\* read it earlier hears from Evolution: the new status is decided on the row
\* the request holds, and only the version of the write protects that decision.
KeepsRetired ==
    \A h \in Channel :
        Retired(channel[h]) => channel'[h].status = channel[h].status

RetiredStays == [][KeepsRetired]_vars
=============================================================================
