------------------------- MODULE MCSchedulerMetrics -------------------------
(* SchedulerMetrics for TLC: two prefills and two decodes contend. *)
EXTENDS SchedulerMetrics, TLC

CONSTANTS p1, p2, d1, d2

MCRequests == {p1, p2, d1, d2}
MCClass == [r \in Requests |-> IF r \in {p1, p2} THEN "prefill" ELSE "decode"]
MCPhase == MCClass
MCPair == {p1, d1}
Nobody == {}

\* The prefills are interchangeable, and so are the decodes.
MCSymmetry == Permutations({p1, p2}) \cup Permutations({d1, d2})
=============================================================================
