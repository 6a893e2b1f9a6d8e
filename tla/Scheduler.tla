----------------------------- MODULE Scheduler -----------------------------
(***************************************************************************)
(* The model scheduler of crates/llm-server/src/engine/scheduler.rs: the   *)
(* admission queues, the permits, the queue tickets and the Notify that    *)
(* wakes queued requests.                                                  *)
(*                                                                         *)
(* Every critical section of the scheduler mutex is one step, and so is    *)
(* every read of a cancellation token and every call of notify_waiters:    *)
(* the code releases the mutex before it notifies, so another task can run *)
(* in between (variable owes).  A request is one task: it acquires a       *)
(* permit, may give it up and re-acquire it between two prefill chunks     *)
(* (yield_prefill_chunk), and finally drops it.                            *)
(***************************************************************************)
EXTENDS Integers, Sequences, SequencesExt, FiniteSets

CONSTANTS
    Requests,           \* the requests that reach the scheduler
    Class,              \* the admission class of a request
    InitialPhase,       \* the phase it is admitted in
    ConcurrencyLimit,   \* options.concurrency_limit
    QueueLimit,         \* options.queue_limit
    PrefillBurst,       \* options.prefill_burst
    HasQueueTimeout,    \* options.queue_timeout.is_some()
    Cancellable,        \* bound: the requests that somebody may cancel
    MaxYields           \* bound: prefill chunk boundaries of one request

ASSUME RequestsAssumption == IsFiniteSet(Requests)
\* Only a streaming request starts a decode-class request in the prefill phase,
\* and no request starts a prefill-class one in the decode phase.
ASSUME ClassAssumption ==
    /\ Class \in [Requests -> {"prefill", "decode"}]
    /\ InitialPhase \in [Requests -> {"prefill", "decode"}]
    /\ \A r \in Requests : Class[r] = "prefill" => InitialPhase[r] = "prefill"
ASSUME LimitAssumption == ConcurrencyLimit \in Nat \ {0} /\ QueueLimit \in Nat
ASSUME BurstAssumption == PrefillBurst \in Nat \ {0}
ASSUME TimeoutAssumption == HasQueueTimeout \in BOOLEAN
ASSUME BoundsAssumption == Cancellable \subseteq Requests /\ MaxYields \in Nat

VARIABLES
    queue,          \* queued_prefill and queued_decode: the queued tickets
    nextTicket,     \* next_ticket
    active,         \* active_prefill and active_decode
    sinceDecode,    \* prefill_admissions_since_decode
    count,          \* completed, cancelled, failed, queued_cancelled, queue_timeouts
    pc,             \* where the task of a request is
    permit,         \* its SchedulerPermit: the phase while it is active, or "none"
    outcome,        \* the outcome of that permit, "none" before the first one
    ticket,         \* its QueuedSchedulerTicket: the id, 0 without one
    cancelled,      \* its CancellationToken
    notified,       \* its Notified future has been woken
    owes,           \* it has released the mutex and not yet called notify_waiters
    yielding,       \* it is re-acquiring a permit it gave up at a chunk boundary
    chunks          \* chunk boundaries it has left

Classes == {"prefill", "decode"}
Outcomes == {"completed", "cancelled", "failed"}
Counters == Outcomes \cup {"queued_cancelled", "queue_timeouts"}
Locations == {"idle", "acquire", "enqueue", "loop", "admit", "looked", "waiting",
              "admitting", "readmitted", "held", "closing", "done"}

schedulerState == <<queue, nextTicket, active, sinceDecode, count>>
taskState == <<pc, permit, outcome, ticket, cancelled, notified, owes, yielding, chunks>>
vars == <<schedulerState, taskState>>

Init ==
    /\ queue = [c \in Classes |-> <<>>]
    /\ nextTicket = 0
    /\ active = [c \in Classes |-> 0]
    /\ sinceDecode = 0
    /\ count = [o \in Counters |-> 0]
    /\ pc = [r \in Requests |-> "idle"]
    /\ permit = [r \in Requests |-> "none"]
    /\ outcome = [r \in Requests |-> "none"]
    /\ ticket = [r \in Requests |-> 0]
    /\ cancelled = [r \in Requests |-> FALSE]
    /\ notified = [r \in Requests |-> FALSE]
    /\ owes = [r \in Requests |-> FALSE]
    /\ yielding = [r \in Requests |-> FALSE]
    /\ chunks = [r \in Requests |-> MaxYields]
-----------------------------------------------------------------------------
(* ModelSchedulerState *)

active_total == active["prefill"] + active["decode"]
\* Mutant: only the decode queue counts.
queued_total_DecodeOnly == Len(queue["decode"])

queued_total == Len(queue["prefill"]) + Len(queue["decode"])

saturating_sub(n) == IF n = 0 THEN 0 ELSE n - 1

\* Mutant: prefill goes first until its burst is spent, whatever the tickets say.
next_admissible_class_PrefillFirst ==
    CASE queue["decode"] = <<>> -> "prefill"
      [] queue["prefill"] = <<>> -> "decode"
      [] OTHER -> IF sinceDecode >= PrefillBurst THEN "decode" ELSE "prefill"

\* Mutant: a queued decode always goes first.
next_admissible_class_DecodeFirst ==
    IF queue["decode"] = <<>> THEN "prefill" ELSE "decode"

\* The class whose front ticket is admitted next; a class without tickets never is.
next_admissible_class ==
    CASE queue["decode"] = <<>> -> "prefill"
      [] queue["prefill"] = <<>> -> "decode"
      [] OTHER -> IF \/ sinceDecode >= PrefillBurst
                     \/ Head(queue["decode"]) < Head(queue["prefill"])
                  THEN "decode" ELSE "prefill"

\* The class and the initial phase r acquires with: a yield asks for prefill.
class(r) == IF yielding[r] THEN "prefill" ELSE Class[r]
phase(r) == IF yielding[r] THEN "prefill" ELSE InitialPhase[r]

start_active(r) ==
    /\ active' = [active EXCEPT ![phase(r)] = @ + 1]
    /\ sinceDecode' = IF class(r) = "prefill" THEN sinceDecode + 1 ELSE 0
    /\ permit' = [permit EXCEPT ![r] = phase(r)]
    /\ outcome' = [outcome EXCEPT ![r] = "completed"]

\* Mutant: the slot of a decode is given back to the prefill counter.
finish_active_AsPrefill(p, o) ==
    /\ active' = [active EXCEPT !["prefill"] = saturating_sub(@)]
    /\ count' = [count EXCEPT ![o] = @ + 1]

\* Mutant: the same, and the subtraction does not saturate.
finish_active_Underflow(p, o) ==
    /\ active' = [active EXCEPT !["prefill"] = @ - 1]
    /\ count' = [count EXCEPT ![o] = @ + 1]

finish_active(p, o) ==
    /\ active' = [active EXCEPT ![p] = saturating_sub(@)]
    /\ count' = [count EXCEPT ![o] = @ + 1]

finish_inactive(o) ==
    /\ count' = [count EXCEPT ![o] = @ + 1]
    /\ UNCHANGED active
-----------------------------------------------------------------------------
(* QueuedSchedulerTicket *)

\* Mutant: the ticket stays in its queue.
DropTicket_Leak(r, counter) ==
    /\ count' = [count EXCEPT ![counter] = @ + 1]
    /\ ticket' = [ticket EXCEPT ![r] = 0]
    /\ notified' = [notified EXCEPT ![r] = FALSE]
    /\ owes' = [owes EXCEPT ![r] = TRUE]
    /\ UNCHANGED queue

\* Drop of a ticket that was not admitted, counted as a timeout or a cancellation.
\* The code looks the ticket up and skips the rest when it is gone; TicketsQueued
\* shows that it never is.
DropTicket(r, counter) ==
    /\ \E i \in DOMAIN queue[class(r)] :
          /\ queue[class(r)][i] = ticket[r]
          /\ queue' = [queue EXCEPT ![class(r)] = RemoveAt(@, i)]
    /\ count' = [count EXCEPT ![counter] = @ + 1]
    /\ ticket' = [ticket EXCEPT ![r] = 0]
    /\ notified' = [notified EXCEPT ![r] = FALSE]
    /\ owes' = [owes EXCEPT ![r] = TRUE]
-----------------------------------------------------------------------------
Goto(r, l) == pc' = [pc EXCEPT ![r] = l]

\* Mutant: the permit of a failed yield drops without being counted.
FailAcquire_Uncounted(r, o) ==
    /\ outcome' = IF yielding[r] THEN [outcome EXCEPT ![r] = o] ELSE outcome
    /\ Goto(r, "done")

\* The error of acquire reaches its caller.  A first acquire ends the request;
\* complete_readmission_error makes the permit of a yield count when it drops.
FailAcquire(r, o) ==
    IF yielding[r]
    THEN outcome' = [outcome EXCEPT ![r] = o] /\ Goto(r, "closing")
    ELSE Goto(r, "done") /\ UNCHANGED outcome
-----------------------------------------------------------------------------
(* ModelScheduler::acquire *)

\* The token is read before the mutex is taken, and again once admitted.
try_acquire_immediate(r) ==
    /\ pc[r] \in {"idle", "acquire"} /\ ~owes[r]
    /\ \/ /\ cancelled[r]
          /\ FailAcquire(r, "cancelled")
          /\ UNCHANGED <<active, sinceDecode, permit>>
       \/ /\ ~cancelled[r]
          /\ active_total >= ConcurrencyLimit \/ queued_total > 0
          /\ Goto(r, "enqueue")
          /\ UNCHANGED <<active, sinceDecode, permit, outcome>>
       \/ /\ ~cancelled[r]
          /\ active_total < ConcurrencyLimit /\ queued_total = 0
          /\ start_active(r)
          /\ Goto(r, "admitting")
    /\ UNCHANGED <<queue, nextTicket, count, ticket, cancelled, notified, owes,
                   yielding, chunks>>

QueueFull(r) ==
    /\ pc[r] = "enqueue"
    /\ queued_total >= QueueLimit
    /\ FailAcquire(r, "failed")
    /\ UNCHANGED <<schedulerState, permit, ticket, cancelled, notified, owes,
                   yielding, chunks>>

enqueue(r) ==
    /\ pc[r] = "enqueue"
    /\ queued_total < QueueLimit
    /\ nextTicket' = nextTicket + 1
    /\ ticket' = [ticket EXCEPT ![r] = nextTicket']
    /\ queue' = [queue EXCEPT ![class(r)] = Append(@, nextTicket')]
    /\ owes' = [owes EXCEPT ![r] = TRUE]
    /\ Goto(r, "loop")
    /\ UNCHANGED <<active, sinceDecode, count, permit, outcome, cancelled,
                   notified, yielding, chunks>>

\* The top of the loop: the cancellation check, then the Notified future, which
\* is created before the queue is looked at.
RegisterNotified(r) ==
    /\ pc[r] = "loop" /\ ~owes[r] /\ ~cancelled[r]
    /\ Goto(r, "admit")
    /\ UNCHANGED <<schedulerState, permit, outcome, ticket, cancelled, notified,
                   owes, yielding, chunks>>

IsNext(r) ==
    /\ active_total < ConcurrencyLimit
    /\ next_admissible_class = class(r)
    /\ queue[class(r)] # <<>> /\ Head(queue[class(r)]) = ticket[r]

try_admit_queued(r) ==
    /\ pc[r] = "admit"
    /\ IF IsNext(r)
       THEN /\ queue' = [queue EXCEPT ![class(r)] = Tail(@)]
            /\ start_active(r)
            /\ ticket' = [ticket EXCEPT ![r] = 0]
            /\ notified' = [notified EXCEPT ![r] = FALSE]
            /\ Goto(r, "admitting")
       ELSE /\ Goto(r, "looked")
            /\ UNCHANGED <<queue, active, sinceDecode, permit, outcome, ticket,
                           notified>>
    /\ UNCHANGED <<nextTicket, count, cancelled, owes, yielding, chunks>>

\* The select is polled: from here on the task sleeps.
Await(r) ==
    /\ pc[r] = "looked"
    /\ Goto(r, "waiting")
    /\ UNCHANGED <<schedulerState, permit, outcome, ticket, cancelled, notified,
                   owes, yielding, chunks>>

WakeUp(r) ==
    /\ pc[r] = "waiting" /\ notified[r]
    /\ notified' = [notified EXCEPT ![r] = FALSE]
    /\ Goto(r, "loop")
    /\ UNCHANGED <<schedulerState, permit, outcome, ticket, cancelled, owes,
                   yielding, chunks>>

\* The token is seen cancelled at the top of the loop or by the select.
CancelQueued(r) ==
    /\ pc[r] \in {"loop", "waiting"} /\ ~owes[r] /\ cancelled[r]
    /\ DropTicket(r, "queued_cancelled")
    /\ FailAcquire(r, "cancelled")
    /\ UNCHANGED <<nextTicket, active, sinceDecode, permit, cancelled, yielding,
                   chunks>>

TimeOutQueued(r) ==
    /\ HasQueueTimeout
    /\ pc[r] = "waiting"
    /\ DropTicket(r, "queue_timeouts")
    /\ FailAcquire(r, "failed")
    /\ UNCHANGED <<nextTicket, active, sinceDecode, permit, cancelled, yielding,
                   chunks>>

\* The future of a first acquire is dropped at its await: the client went away.
\* A yield runs on the backend's blocking thread, which nothing drops.
AbandonQueued(r) ==
    /\ pc[r] = "waiting" /\ ~yielding[r]
    /\ DropTicket(r, "queued_cancelled")
    /\ Goto(r, "done")
    /\ UNCHANGED <<nextTicket, active, sinceDecode, permit, outcome, cancelled,
                   yielding, chunks>>

admit_unless_cancelled(r) ==
    /\ pc[r] = "admitting"
    /\ IF cancelled[r]
       THEN /\ outcome' = [outcome EXCEPT ![r] = "cancelled"]
            /\ Goto(r, "closing")
       ELSE /\ Goto(r, IF yielding[r] THEN "readmitted" ELSE "held")
            /\ UNCHANGED outcome
    /\ UNCHANGED <<schedulerState, permit, ticket, cancelled, notified, owes,
                   yielding, chunks>>
-----------------------------------------------------------------------------
(* SchedulerPermit *)

transition_to_decode(r) ==
    /\ pc[r] = "held" /\ permit[r] = "prefill"
    /\ active' = [active EXCEPT !["prefill"] = saturating_sub(@),
                                !["decode"] = @ + 1]
    /\ permit' = [permit EXCEPT ![r] = "decode"]
    /\ UNCHANGED <<queue, nextTicket, sinceDecode, count, pc, outcome, ticket,
                   cancelled, notified, owes, yielding, chunks>>

\* The owner settles the outcome the permit will be counted under.
mark_outcome(r, o) ==
    /\ pc[r] = "held"
    /\ outcome' = [outcome EXCEPT ![r] = o]
    /\ UNCHANGED <<schedulerState, pc, permit, ticket, cancelled, notified,
                   owes, yielding, chunks>>

SettleOutcome(r) == \E o \in {"cancelled", "failed"} : mark_outcome(r, o)

\* A chunk boundary: the slot is given up before it is asked for again.  The
\* shared permit drops the permit when the yield fails.
yield_prefill_chunk(r) ==
    /\ pc[r] = "held" /\ permit[r] = "prefill" /\ chunks[r] > 0
    /\ chunks' = [chunks EXCEPT ![r] = @ - 1]
    /\ IF cancelled[r]
       THEN /\ outcome' = [outcome EXCEPT ![r] = "cancelled"]
            /\ Goto(r, "closing")
            /\ UNCHANGED <<active, permit, owes, yielding>>
       ELSE /\ active' = [active EXCEPT !["prefill"] = saturating_sub(@)]
            /\ permit' = [permit EXCEPT ![r] = "none"]
            /\ yielding' = [yielding EXCEPT ![r] = TRUE]
            /\ owes' = [owes EXCEPT ![r] = TRUE]
            /\ Goto(r, "acquire")
            /\ UNCHANGED outcome
    /\ UNCHANGED <<queue, nextTicket, sinceDecode, count, ticket, cancelled,
                   notified>>

\* The yield took a critical section of its own after the one that re-admitted it.
record_prefill_yield_success(r) ==
    /\ pc[r] = "readmitted"
    /\ yielding' = [yielding EXCEPT ![r] = FALSE]
    /\ Goto(r, "held")
    /\ UNCHANGED <<queue, nextTicket, active, sinceDecode, count, permit,
                   outcome, ticket, cancelled, notified, owes, chunks>>

\* Mutant: nobody is told of the slot that a drop frees.
DropPermit_Silent(r) ==
    /\ pc[r] \in {"held", "closing"} /\ ~owes[r]
    /\ IF permit[r] # "none" THEN finish_active(permit[r], outcome[r])
                             ELSE finish_inactive(outcome[r])
    /\ permit' = [permit EXCEPT ![r] = "none"]
    /\ Goto(r, "done")
    /\ UNCHANGED <<queue, nextTicket, sinceDecode, outcome, ticket, cancelled,
                   notified, owes, yielding, chunks>>

DropPermit(r) ==
    /\ pc[r] \in {"held", "closing"} /\ ~owes[r]
    /\ IF permit[r] # "none" THEN finish_active(permit[r], outcome[r])
                             ELSE finish_inactive(outcome[r])
    /\ permit' = [permit EXCEPT ![r] = "none"]
    /\ owes' = [owes EXCEPT ![r] = TRUE]
    /\ Goto(r, "done")
    /\ UNCHANGED <<queue, nextTicket, sinceDecode, outcome, ticket, cancelled,
                   notified, yielding, chunks>>
-----------------------------------------------------------------------------
(* tokio: Notify and CancellationToken *)

\* Mutant: the future exists only once the task waits for it.
Registered_Late(s) == pc[s] = "waiting"

\* The Notified futures that exist when notify_waiters is called.
Registered(s) == pc[s] \in {"admit", "looked", "waiting"}

notify_waiters(r) ==
    /\ owes[r]
    /\ owes' = [owes EXCEPT ![r] = FALSE]
    /\ notified' = [s \in Requests |-> notified[s] \/ Registered(s)]
    /\ UNCHANGED <<schedulerState, pc, permit, outcome, ticket, cancelled,
                   yielding, chunks>>

\* Somebody cancels the request: the admin route, a stall, a disconnect.
Cancel(r) ==
    /\ r \in Cancellable /\ ~cancelled[r]
    /\ cancelled' = [cancelled EXCEPT ![r] = TRUE]
    /\ UNCHANGED <<schedulerState, pc, permit, outcome, ticket, notified, owes,
                   yielding, chunks>>
-----------------------------------------------------------------------------
Acquire(r) ==
    \/ try_acquire_immediate(r) \/ QueueFull(r) \/ enqueue(r)
    \/ RegisterNotified(r) \/ try_admit_queued(r) \/ Await(r) \/ WakeUp(r)
    \/ CancelQueued(r) \/ admit_unless_cancelled(r)

Step(r) ==
    \/ Acquire(r) \/ TimeOutQueued(r) \/ AbandonQueued(r)
    \/ transition_to_decode(r) \/ SettleOutcome(r)
    \/ yield_prefill_chunk(r) \/ record_prefill_yield_success(r)
    \/ DropPermit(r) \/ notify_waiters(r) \/ Cancel(r)

Next == \E r \in Requests : Step(r)

Spec == Init /\ [][Next]_vars

\* A runnable task is polled again, and a request that holds a permit finishes:
\* its generation is bounded by its token budget.  Nothing makes a client send a
\* request, cancel one or wait for a timeout.
Fairness ==
    \A r \in Requests :
        /\ WF_vars(pc[r] # "idle" /\ Acquire(r))
        /\ WF_vars(record_prefill_yield_success(r))
        /\ WF_vars(DropPermit(r))
        /\ WF_vars(notify_waiters(r))

FairSpec == Spec /\ Fairness
-----------------------------------------------------------------------------
(* Properties *)

Holders(p) == {r \in Requests : permit[r] = p}
InQueue(c) == {r \in Requests : class(r) = c /\ pc[r] \in {"loop", "admit", "looked", "waiting"}}
Settled(o) == {r \in Requests : pc[r] = "done" /\ outcome[r] = o}

\* The types of the scheduler's state; the counters are unsigned, so no release
\* may take one below zero.
TypeOK ==
    /\ queue \in [Classes -> Seq(Nat)]
    /\ nextTicket \in Nat
    /\ active \in [Classes -> Nat]
    /\ sinceDecode \in Nat
    /\ count \in [Counters -> Nat]
    /\ pc \in [Requests -> Locations]
    /\ permit \in [Requests -> Classes \cup {"none"}]
    /\ outcome \in [Requests -> Outcomes \cup {"none"}]
    /\ ticket \in [Requests -> Nat]
    /\ chunks \in [Requests -> 0 .. MaxYields]
    /\ cancelled \in [Requests -> BOOLEAN]
    /\ notified \in [Requests -> BOOLEAN]
    /\ owes \in [Requests -> BOOLEAN]
    /\ yielding \in [Requests -> BOOLEAN]

\* The slots in use never exceed the limit, and each phase counter is the number
\* of live permits in that phase: no path leaks a slot, and no saturating_sub of
\* the counters ever saturates.
SlotsCounted ==
    /\ \A p \in Classes : active[p] = Cardinality(Holders(p))
    /\ active_total <= ConcurrencyLimit

\* A queue holds exactly the tickets of the requests inside acquire's loop, in
\* the order they were issued, and the two together stay within the limit: no
\* exit of the loop leaves a ticket behind.
TicketsQueued ==
    /\ \A c \in Classes :
          /\ Range(queue[c]) = {ticket[r] : r \in InQueue(c)}
          /\ Len(queue[c]) = Cardinality(InQueue(c))
          /\ \A i, j \in DOMAIN queue[c] : i < j => queue[c][i] < queue[c][j]
    /\ queued_total <= QueueLimit

\* A request that was ever admitted is counted once, under the outcome of its
\* last permit, however many times it yielded and however the last yield ended.
CountedOnce ==
    \A o \in Outcomes : count[o] = Cardinality(Settled(o))

\* A request whose turn it is never sleeps unnoticed: it was notified, or some
\* task is about to notify, or an active permit is left whose drop will.
NoLostWakeup ==
    \A r \in Requests :
        pc[r] = "waiting" /\ ~notified[r] /\ IsNext(r) =>
            (\E s \in Requests : owes[s]) \/ active_total > 0

\* An admission never passes an older decode ticket: a younger prefill and a
\* newcomer that was not queued both wait for every queued decode.
DecodeNotOvertaken ==
    [][\A r, s \in Requests :
          permit[r] = "none" /\ permit'[r] # "none" /\ s \in InQueue("decode") =>
              ticket[r] # 0 /\ ticket[r] <= ticket[s]]_vars

\* What the scheduler promises its callers, whatever its queues and wakeups do.
Gate == INSTANCE AdmissionGate WITH
    holders <- Holders("prefill") \cup Holders("decode"),
    waiting <- InQueue("prefill") \cup InQueue("decode")

\* The scheduler implements the admission gate: a semaphore of ConcurrencyLimit
\* slots with a bounded waiting room that no newcomer passes.
ImplementsGate == Gate!Spec

\* A queued request is eventually admitted or turned away, even when nothing
\* times out.
QueuedSettles ==
    \A r \in Requests : ticket[r] # 0 ~> ticket[r] = 0
=============================================================================
