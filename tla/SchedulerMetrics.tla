-------------------------- MODULE SchedulerMetrics --------------------------
(***************************************************************************)
(* The counters ModelSchedulerState keeps for /admin/metrics beside the    *)
(* ones Scheduler needs, and history variables that measure how long a     *)
(* queued request is passed over.                                          *)
(***************************************************************************)
EXTENDS Scheduler

VARIABLES
    admitted,       \* admitted_prefill and admitted_decode
    yields,         \* prefill_yields and prefill_yields_to_decode
    starved,        \* decode_starvation_events and decode_starvation_waits
    starving,       \* QueuedSchedulerTicket.decode_starvation
    decodeBefore,   \* PrefillYieldRelease.admitted_decode_before
    decodeAt,       \* history: admitted_decode when the yield was re-admitted
    ahead,          \* history: older prefills queued when the request was queued
    overtaken       \* history: younger tickets admitted since it was queued

metrics == <<admitted, yields, starved, starving, decodeBefore>>
history == <<decodeAt, ahead, overtaken>>
mvars == <<vars, metrics, history>>

MetricsInit ==
    /\ Init
    /\ admitted = [c \in Classes |-> 0]
    /\ yields = [all |-> 0, toDecode |-> 0]
    /\ starved = [events |-> 0, waits |-> 0]
    /\ starving = [r \in Requests |-> FALSE]
    /\ decodeBefore = [r \in Requests |-> 0]
    /\ decodeAt = [r \in Requests |-> 0]
    /\ ahead = [r \in Requests |-> 0]
    /\ overtaken = [r \in Requests |-> 0]

has_prefill_pressure == active["prefill"] > 0 \/ queue["prefill"] # <<>>

\* The events of a step of r that the counters record.
Admitted(r) == permit[r] = "none" /\ permit'[r] # "none"
Enqueued(r) == ticket[r] = 0 /\ ticket'[r] # 0
Released(r) == pc[r] = "held" /\ pc'[r] = "acquire"
Recorded(r) == pc[r] = "readmitted" /\ pc'[r] = "held"

CountAdmission(r) ==
    admitted' = IF Admitted(r) THEN [admitted EXCEPT ![class(r)] = @ + 1] ELSE admitted

\* The wait is recorded after the critical section that admits the ticket.
CountStarvation(r) ==
    LET starves == Enqueued(r) /\ class(r) = "decode" /\ has_prefill_pressure
        waited == pc[r] = "admitting" /\ pc'[r] # "admitting" /\ starving[r]
    IN /\ starving' = CASE Enqueued(r) -> [starving EXCEPT ![r] = starves]
                        [] waited -> [starving EXCEPT ![r] = FALSE]
                        [] OTHER -> starving
       /\ starved' = [events |-> starved.events + IF starves THEN 1 ELSE 0,
                      waits |-> starved.waits + IF waited THEN 1 ELSE 0]

\* A yield went to decode when a decode was admitted since the release; the code
\* looks in the critical section that records the yield.
WentToDecode(r) == admitted["decode"] > decodeBefore[r]

CountYield(r) ==
    /\ decodeBefore' = IF Released(r)
                       THEN [decodeBefore EXCEPT ![r] = admitted["decode"]]
                       ELSE decodeBefore
    /\ yields' = IF Recorded(r)
                 THEN [all |-> yields.all + 1,
                       toDecode |-> yields.toDecode + IF WentToDecode(r) THEN 1 ELSE 0]
                 ELSE yields

Observe(r) ==
    /\ decodeAt' = IF Admitted(r) THEN [decodeAt EXCEPT ![r] = admitted["decode"]]
                                  ELSE decodeAt
    /\ ahead' = IF Enqueued(r) THEN [ahead EXCEPT ![r] = Len(queue["prefill"])] ELSE ahead
    /\ overtaken' =
          [s \in Requests |->
              CASE s = r /\ Enqueued(r) -> 0
                [] s # r /\ Admitted(r) /\ ticket[s] # 0
                         /\ (ticket[r] = 0 \/ ticket[r] > ticket[s]) -> overtaken[s] + 1
                [] OTHER -> overtaken[s]]

MetricsNext ==
    \E r \in Requests :
        /\ Step(r)
        /\ CountAdmission(r) /\ CountStarvation(r) /\ CountYield(r) /\ Observe(r)

MetricsSpec == MetricsInit /\ [][MetricsNext]_mvars
-----------------------------------------------------------------------------
\* A queued prefill is passed over by younger tickets at most once, and once more
\* for every PrefillBurst older prefills that were ahead of it; a queued decode
\* is never passed over.
OvertakingBounded ==
    \A r \in Requests :
        ticket[r] # 0 =>
            overtaken[r] <= IF class(r) = "decode" THEN 0
                            ELSE 1 + ahead[r] \div PrefillBurst

\* docs/http-api-reference.md on scheduler_prefill_yields_to_decode: a yield is
\* counted when a decode was admitted before the prefill was re-admitted.
YieldsToDecodeDocumented ==
    [][\A r \in Requests :
          Recorded(r) /\ yields'.toDecode > yields.toDecode =>
              decodeAt[r] > decodeBefore[r]]_mvars
=============================================================================
