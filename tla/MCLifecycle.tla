---------------------------- MODULE MCLifecycle ----------------------------
(* Lifecycle for TLC: two requests on one slot; an id is named after a request. *)
EXTENDS Lifecycle

CONSTANTS a, b

Both == {a, b}
OnlyA == {a}
OwnId == [r \in Requests |-> r]
SharedId == [r \in Requests |-> a]
AllPrefill == [r \in Requests |-> "prefill"]
Nobody == {}
=============================================================================
