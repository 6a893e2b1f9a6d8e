---------------------------- MODULE MCScheduler ----------------------------
(* Scheduler for TLC: one request of each kind the server admits. *)
EXTENDS Scheduler

CONSTANTS
    prefill,    \* a long prompt
    stream,     \* a short prompt, streamed: decode class, prefill phase
    decode      \* a short prompt, not streamed

MCRequests == {prefill, stream, decode}
MCCancellable == {prefill}
Nobody == {}
MCClass == [r \in Requests |-> IF r = prefill THEN "prefill" ELSE "decode"]
MCPhase == [r \in Requests |-> IF r = decode THEN "decode" ELSE "prefill"]
=============================================================================
