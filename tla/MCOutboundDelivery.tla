------------------------- MODULE MCOutboundDelivery -------------------------
(***************************************************************************)
(* The queue and the dispatch on small instances: of one process, and of   *)
(* two that overlap while a deploy replaces the first.                     *)
(***************************************************************************)
EXTENDS OutboundDelivery, TLC

OutboundOnly == {<<"outbound", "none">>}

PipelineSymmetry == Permutations(Execution) \cup Permutations(Worker)
=============================================================================
