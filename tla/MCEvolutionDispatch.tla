------------------------- MODULE MCEvolutionDispatch -------------------------
(***************************************************************************)
(* What the program hands out to others and may hand out only once, on     *)
(* small instances of which one runs at a time: the dispatch of one        *)
(* message to Evolution, the life of a channel there, and the links sent   *)
(* to people before their admission.  The state of the others stays as it  *)
(* was.                                                                    *)
(***************************************************************************)
EXTENDS EvolutionDispatch, TLC

CONSTANTS
    k1, k2,                 \* requests under way
    d1, d2, d3,             \* commands
    h1, plain,              \* a channel and its settings
    p1, a1, a2, manager,    \* a person, its links and who manages them
    None

VARIABLES
    part,           \* the instance that runs
    channel, instance, event, request,
    access, actions, active, manages, now, visit

C == INSTANCE ChannelAdministration WITH
       Channel <- {h1}, Call <- {k1, k2}, Command <- {d1, d2}, Settings <- {plain},
       MaxVersion <- 3, call <- request

P == INSTANCE PreAdmissionAccess WITH
       Person <- {p1}, Access <- {a1, a2}, Manager <- {manager}, Call <- {k1, k2},
       Command <- {d1, d2, d3}, Validity <- 1, MaxVersion <- 3, MaxTime <- 1,
       history <- actions, call <- visit

ASSUME ChannelBounds == C!ChannelAssumption
ASSUME AccessBounds == P!PreAdmissionAssumption

channelVars == <<channel, instance, event, request>>
accessVars == <<access, actions, active, manages, now, visit>>

OutsideInit ==
    /\ part \in {"dispatch", "channel", "links"}
    /\ Init /\ C!Init /\ P!Init

OutsideNext ==
    /\ UNCHANGED part
    /\ \/ part = "dispatch" /\ Next /\ UNCHANGED <<channelVars, accessVars>>
       \/ part = "channel" /\ C!Next /\ UNCHANGED <<dispatchVars, accessVars>>
       \/ part = "links" /\ P!Next /\ UNCHANGED <<dispatchVars, channelVars>>

outsideVars == <<part, dispatchVars, channelVars, accessVars>>
OutsideSpec == OutsideInit /\ [][OutsideNext]_outsideVars

\* At its last version a channel is followed with one request at a time.
LastRequest == channel[h1].version = 3 => \E k \in {k1, k2} : request[k].step = "idle"

OutsideSymmetry ==
    Permutations({k1, k2}) \cup Permutations({d1, d2}) \cup Permutations({a1, a2})

-----------------------------------------------------------------------------

\* A cancelled or disabled channel never comes back, and a token that was rotated or
\* revoked never opens its link again, whatever a request that read them earlier does.
RetiredStays == C!RetiredStays /\ P!TokensStayRetired
=============================================================================
