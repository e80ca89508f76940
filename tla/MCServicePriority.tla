------------------------- MODULE MCServicePriority -------------------------
(* A small instance of the sessions of one thread for TLC. *)
EXTENDS ServicePriority, TLC

QueueWeight == [q \in Queue |-> 1]

\* Every urgency, and commands that overtake messages, are each followed between two
\* sessions; three are followed with neither.
Overtaken == parted \/ (arriving # None /\ arriving.stale)
FewHazards ==
    LET two == \E s \in Session : session[s].status = "absent"
        even == \A s \in Session : session[s].urgency = Normal
    IN  (even /\ ~Overtaken) \/ (two /\ (even \/ ~Overtaken))

SessionSymmetry == Permutations(Session)
=============================================================================
