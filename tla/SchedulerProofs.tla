-------------------------- MODULE SchedulerProofs --------------------------
(***************************************************************************)
(* Proofs about Scheduler, for every set of requests and every value of    *)
(* the options.                                                            *)
(***************************************************************************)
EXTENDS Scheduler, FiniteSetTheorems, TLAPS

\* Removing a ticket leaves a queue of tickets.
LEMMA RemoveAtType ==
  ASSUME NEW q \in Seq(Nat), NEW i \in DOMAIN q
  PROVE  RemoveAt(q, i) \in Seq(Nat)
  BY DEF RemoveAt

\* Counting an outcome keeps the counters natural, also when the outcome has none.
LEMMA IncrementType ==
  ASSUME NEW S, NEW f \in [S -> Nat], NEW x
  PROVE  [f EXCEPT ![x] = @ + 1] \in [S -> Nat]
<1>1. CASE x \in S
  BY <1>1
<1>2. CASE x \notin S
  <2>1. [f EXCEPT ![x] = @ + 1] = f
    BY <1>2
  <2> QED
    BY <2>1
<1> QED
  BY <1>1, <1>2

\* A request acquires with an admission class and a phase, yielding or not.
LEMMA ClassType ==
  ASSUME NEW r \in Requests
  PROVE  class(r) \in Classes /\ phase(r) \in Classes
<1>1. CASE yielding[r]
  BY <1>1 DEF class, phase, Classes
<1>2. CASE ~yielding[r]
  BY <1>2, ClassAssumption DEF class, phase, Classes
<1> QED
  BY <1>1, <1>2

\* start_active counts and records a permit of the type.
LEMMA StartActiveType ==
  ASSUME TypeOK, NEW r \in Requests, start_active(r)
  PROVE  /\ active' \in [Classes -> Nat]
         /\ sinceDecode' \in Nat
         /\ permit' \in [Requests -> Classes \cup {"none"}]
         /\ outcome' \in [Requests -> Outcomes \cup {"none"}]
  BY ClassType DEF TypeOK, start_active, Outcomes

\* The error path of acquire settles an outcome and a location of the type.
LEMMA FailAcquireType ==
  ASSUME TypeOK, NEW r \in Requests, NEW o \in Outcomes, FailAcquire(r, o)
  PROVE  /\ outcome' \in [Requests -> Outcomes \cup {"none"}]
         /\ pc' \in [Requests -> Locations]
<1>1. CASE yielding[r]
  BY <1>1 DEF TypeOK, FailAcquire, Goto, Locations
<1>2. CASE ~yielding[r]
  BY <1>2 DEF TypeOK, FailAcquire, Goto, Locations
<1> QED
  BY <1>1, <1>2

\* Dropping a ticket leaves queues, counters and flags of the type.
LEMMA DropTicketType ==
  ASSUME TypeOK, NEW r \in Requests, NEW c \in Counters, DropTicket(r, c)
  PROVE  /\ queue' \in [Classes -> Seq(Nat)]
         /\ count' \in [Counters -> Nat]
         /\ ticket' \in [Requests -> Nat]
         /\ notified' \in [Requests -> BOOLEAN]
         /\ owes' \in [Requests -> BOOLEAN]
<1>1. class(r) \in Classes
  BY ClassType
<1>2. queue' \in [Classes -> Seq(Nat)]
  BY <1>1, RemoveAtType DEF TypeOK, DropTicket
<1> QED
  BY <1>2 DEF TypeOK, DropTicket

\* The initial state has the type.
LEMMA InitTypeOK == Init => TypeOK
  BY BoundsAssumption DEF Init, TypeOK, Classes, Outcomes, Counters, Locations

\* Every step of a request keeps the type.
LEMMA StepTypeOK ==
  ASSUME TypeOK, NEW r \in Requests, Step(r)
  PROVE  TypeOK'
<1> "cancelled" \in Outcomes /\ "failed" \in Outcomes /\ Outcomes \subseteq Counters
    /\ "queued_cancelled" \in Counters /\ "queue_timeouts" \in Counters
  BY DEF Outcomes, Counters
<1>1. CASE try_acquire_immediate(r)
  <2>1. CASE cancelled[r]
    <3>1. FailAcquire(r, "cancelled")
      BY <1>1, <2>1 DEF try_acquire_immediate
    <3> QED
      BY <1>1, <2>1, <3>1, FailAcquireType DEF TypeOK, try_acquire_immediate
  <2>2. CASE ~cancelled[r] /\ Goto(r, "enqueue")
               /\ UNCHANGED <<active, sinceDecode, permit, outcome>>
    BY <1>1, <2>2 DEF TypeOK, try_acquire_immediate, Goto, Locations
  <2>3. CASE ~cancelled[r] /\ start_active(r) /\ Goto(r, "admitting")
    BY <1>1, <2>3, StartActiveType DEF TypeOK, try_acquire_immediate, Goto, Locations
  <2> QED
    BY <1>1, <2>1, <2>2, <2>3 DEF try_acquire_immediate
<1>2. CASE QueueFull(r)
  BY <1>2, FailAcquireType DEF TypeOK, QueueFull, schedulerState
<1>3. CASE enqueue(r)
  <2>1. nextTicket' \in Nat /\ class(r) \in Classes
    BY <1>3, ClassType DEF TypeOK, enqueue
  <2>2. queue' = [queue EXCEPT ![class(r)] = Append(@, nextTicket')]
    BY <1>3 DEF enqueue
  <2>3. queue' \in [Classes -> Seq(Nat)]
    BY <2>1, <2>2 DEF TypeOK
  <2> QED
    BY <1>3, <2>1, <2>3 DEF TypeOK, enqueue, Goto, Locations
<1>4. CASE RegisterNotified(r)
  BY <1>4 DEF TypeOK, RegisterNotified, Goto, Locations, schedulerState
<1>5. CASE try_admit_queued(r)
  <2>1. CASE IsNext(r)
    <3>1. /\ queue' = [queue EXCEPT ![class(r)] = Tail(@)]
          /\ queue[class(r)] # <<>> /\ start_active(r) /\ Goto(r, "admitting")
          /\ ticket' = [ticket EXCEPT ![r] = 0]
          /\ notified' = [notified EXCEPT ![r] = FALSE]
          /\ UNCHANGED <<nextTicket, count, cancelled, owes, yielding, chunks>>
      BY <1>5, <2>1 DEF try_admit_queued, IsNext
    <3>2. queue' \in [Classes -> Seq(Nat)]
      BY <3>1, ClassType DEF TypeOK
    <3> QED
      BY <3>1, <3>2, StartActiveType DEF TypeOK, Goto, Locations
  <2>2. CASE ~IsNext(r)
    BY <1>5, <2>2 DEF TypeOK, try_admit_queued, Goto, Locations
  <2> QED
    BY <2>1, <2>2
<1>6. CASE WakeUp(r)
  BY <1>6 DEF TypeOK, WakeUp, Goto, Locations, schedulerState
<1>18. CASE Await(r)
  BY <1>18 DEF TypeOK, Await, Goto, Locations, schedulerState
<1>7. CASE CancelQueued(r)
  BY <1>7, DropTicketType, FailAcquireType DEF TypeOK, CancelQueued
<1>8. CASE admit_unless_cancelled(r)
  <2>1. CASE cancelled[r]
    <3>1. outcome' = [outcome EXCEPT ![r] = "cancelled"] /\ Goto(r, "closing")
      BY <1>8, <2>1 DEF admit_unless_cancelled
    <3> QED
      BY <1>8, <3>1 DEF TypeOK, admit_unless_cancelled, Goto, Locations, schedulerState
  <2>2. CASE ~cancelled[r]
    BY <1>8, <2>2 DEF TypeOK, admit_unless_cancelled, Goto, Locations, schedulerState
  <2> QED
    BY <2>1, <2>2
<1>9. CASE TimeOutQueued(r)
  BY <1>9, DropTicketType, FailAcquireType DEF TypeOK, TimeOutQueued
<1>10. CASE AbandonQueued(r)
  BY <1>10, DropTicketType DEF TypeOK, AbandonQueued, Goto, Locations
<1>11. CASE transition_to_decode(r)
  BY <1>11 DEF TypeOK, transition_to_decode, saturating_sub, Classes
<1>12. CASE SettleOutcome(r)
  BY <1>12 DEF TypeOK, SettleOutcome, mark_outcome, schedulerState
<1>13. CASE yield_prefill_chunk(r)
  <2>0. chunks' \in [Requests -> 0 .. MaxYields]
    BY <1>13, BoundsAssumption DEF TypeOK, yield_prefill_chunk
  <2>1. CASE cancelled[r]
    <3>1. /\ outcome' = [outcome EXCEPT ![r] = "cancelled"] /\ Goto(r, "closing")
          /\ UNCHANGED <<active, permit, owes, yielding>>
          /\ UNCHANGED <<queue, nextTicket, sinceDecode, count, ticket, cancelled, notified>>
      BY <1>13, <2>1 DEF yield_prefill_chunk
    <3> QED
      BY <2>0, <3>1 DEF TypeOK, Goto, Locations
  <2>2. CASE ~cancelled[r]
    <3>1. active' \in [Classes -> Nat]
      BY <1>13, <2>2 DEF TypeOK, yield_prefill_chunk, saturating_sub, Classes
    <3> QED
      BY <1>13, <2>0, <2>2, <3>1 DEF TypeOK, yield_prefill_chunk, Goto, Locations
  <2> QED
    BY <2>1, <2>2
<1>14. CASE record_prefill_yield_success(r)
  BY <1>14 DEF TypeOK, record_prefill_yield_success, Goto, Locations
<1>15. CASE DropPermit(r)
  <2>1. active' \in [Classes -> Nat] /\ count' \in [Counters -> Nat]
    <3>1. CASE permit[r] # "none"
      <4>1. permit[r] \in Classes /\ finish_active(permit[r], outcome[r])
        BY <1>15, <3>1 DEF TypeOK, DropPermit
      <4>2. active' \in [Classes -> Nat]
        BY <4>1 DEF TypeOK, finish_active, saturating_sub
      <4>3. count' \in [Counters -> Nat]
        BY <4>1, IncrementType DEF TypeOK, finish_active
      <4> QED
        BY <4>2, <4>3
    <3>2. CASE permit[r] = "none"
      BY <1>15, <3>2 DEF TypeOK, DropPermit, finish_inactive
    <3> QED
      BY <3>1, <3>2
  <2> QED
    BY <1>15, <2>1 DEF TypeOK, DropPermit, Goto, Locations
<1>16. CASE notify_waiters(r)
  BY <1>16 DEF TypeOK, notify_waiters, schedulerState
<1>17. CASE Cancel(r)
  BY <1>17 DEF TypeOK, Cancel, schedulerState
<1> QED
  BY <1>1, <1>2, <1>3, <1>4, <1>5, <1>6, <1>7, <1>8, <1>9, <1>10, <1>11, <1>12,
     <1>13, <1>14, <1>15, <1>16, <1>17, <1>18 DEF Step, Acquire

\* A stuttering step keeps the type.
LEMMA StutterTypeOK == TypeOK /\ UNCHANGED vars => TypeOK'
  BY DEF TypeOK, vars, schedulerState, taskState

\* Every behaviour of the scheduler is well typed: no counter underflows and no
\* permit or outcome leaves its enumeration.
THEOREM TypeCorrect == Spec => []TypeOK
<1>1. TypeOK /\ [Next]_vars => TypeOK'
  BY StepTypeOK, StutterTypeOK DEF Next
<1> QED
  BY <1>1, InitTypeOK, PTL DEF Spec
-----------------------------------------------------------------------------
(* Slot accounting *)

Outside == {"idle", "acquire", "enqueue", "loop", "admit", "looked", "waiting",
            "done"}
Inside == {"admitting", "readmitted", "held"}

\* A task holds a permit where the code gives it one, and none elsewhere; only a
\* closing task may have either, after a failed admission or a failed yield.
PermitAt ==
    \A r \in Requests :
        /\ pc[r] \in Inside => permit[r] # "none"
        /\ pc[r] \in Outside => permit[r] = "none"

SlotInv == TypeOK /\ PermitAt /\ SlotsCounted

\* The permits of a phase are finitely many.
LEMMA HoldersFinite ==
  ASSUME NEW p
  PROVE  IsFiniteSet(Holders(p)) /\ Cardinality(Holders(p)) \in Nat
  BY RequestsAssumption, FS_Subset, FS_CardinalityType DEF Holders

\* start_active, for the counters: the phase gains its new permit.
LEMMA GainPermit ==
  ASSUME TypeOK, SlotsCounted, NEW r \in Requests, NEW p \in Classes,
         permit[r] = "none", permit' = [permit EXCEPT ![r] = p],
         active' = [active EXCEPT ![p] = @ + 1], active_total < ConcurrencyLimit
  PROVE  SlotsCounted'
<1>1. Holders(p)' = Holders(p) \cup {r} /\ r \notin Holders(p)
  BY DEF Holders, TypeOK, Classes
<1>2. \A q \in Classes \ {p} : Holders(q)' = Holders(q)
  BY DEF Holders, TypeOK, Classes
<1>3. Cardinality(Holders(p)') = Cardinality(Holders(p)) + 1
  BY <1>1, HoldersFinite, FS_AddElement
<1>4. \A q \in Classes : active'[q] = Cardinality(Holders(q)')
  BY <1>2, <1>3 DEF SlotsCounted, TypeOK
<1>5. active_total' <= ConcurrencyLimit
  BY LimitAssumption DEF active_total, TypeOK, Classes
<1> QED
  BY <1>4, <1>5 DEF SlotsCounted

\* finish_active and release_prefill_for_yield, for the counters: the phase loses
\* the permit, and the subtraction does not saturate.
LEMMA LosePermit ==
  ASSUME TypeOK, SlotsCounted, NEW r \in Requests, NEW p \in Classes,
         permit[r] = p, permit' = [permit EXCEPT ![r] = "none"],
         active' = [active EXCEPT ![p] = saturating_sub(@)]
  PROVE  SlotsCounted'
<1>1. Holders(p)' = Holders(p) \ {r} /\ r \in Holders(p)
  BY DEF Holders, TypeOK, Classes
<1>2. \A q \in Classes \ {p} : Holders(q)' = Holders(q)
  BY DEF Holders, TypeOK, Classes
<1>3. Cardinality(Holders(p)') = Cardinality(Holders(p)) - 1
  BY <1>1, HoldersFinite, FS_RemoveElement
<1>4. active[p] = Cardinality(Holders(p)) /\ active[p] \in Nat
  BY DEF SlotsCounted, TypeOK
<1>5. active[p] # 0
  BY <1>1, <1>4, HoldersFinite, FS_EmptySet
<1>6. active' = [active EXCEPT ![p] = @ - 1]
  BY <1>5 DEF saturating_sub, TypeOK
<1>7. \A q \in Classes : active'[q] = Cardinality(Holders(q)')
  BY <1>2, <1>3, <1>6 DEF SlotsCounted, TypeOK
<1>8. active_total' <= ConcurrencyLimit
  BY <1>4, <1>6, LimitAssumption DEF active_total, TypeOK, Classes, SlotsCounted
<1> QED
  BY <1>7, <1>8 DEF SlotsCounted

\* transition_to_decode, for the counters: the permit changes phase and the slot
\* stays taken.
LEMMA MovePermit ==
  ASSUME TypeOK, SlotsCounted, NEW r \in Requests, transition_to_decode(r)
  PROVE  SlotsCounted'
<1>1. /\ Holders("prefill")' = Holders("prefill") \ {r} /\ r \in Holders("prefill")
      /\ Holders("decode")' = Holders("decode") \cup {r} /\ r \notin Holders("decode")
  BY DEF transition_to_decode, Holders, TypeOK, Classes
<1>2. /\ Cardinality(Holders("prefill")') = Cardinality(Holders("prefill")) - 1
      /\ Cardinality(Holders("decode")') = Cardinality(Holders("decode")) + 1
  BY <1>1, HoldersFinite, FS_RemoveElement, FS_AddElement
<1>3. active["prefill"] # 0
  BY <1>1, HoldersFinite, FS_EmptySet DEF SlotsCounted, Classes
<1>4. active'["prefill"] = active["prefill"] - 1 /\ active'["decode"] = active["decode"] + 1
  BY <1>3 DEF transition_to_decode, saturating_sub, TypeOK, Classes
<1> QED
  BY <1>2, <1>4, LimitAssumption DEF SlotsCounted, active_total, TypeOK, Classes

\* The counters and the permits unchanged, so is the accounting.
LEMMA KeepPermits ==
  ASSUME SlotsCounted, UNCHANGED <<active, permit>>
  PROVE  SlotsCounted'
  BY DEF SlotsCounted, Holders, active_total

\* The step moves only r, and not between the inside and the outside.
LEMMA KeepPermitAt ==
  ASSUME TypeOK, PermitAt, NEW r \in Requests, NEW l, UNCHANGED permit, Goto(r, l),
         \/ l = "closing"
         \/ pc[r] \in Outside /\ l \in Outside
         \/ pc[r] \in Inside /\ l \in Inside
  PROVE  PermitAt'
  BY DEF TypeOK, PermitAt, Goto, Outside, Inside

\* An error of acquire leaves the task outside, or closing.
LEMMA FailAcquirePermitAt ==
  ASSUME TypeOK, PermitAt, NEW r \in Requests, NEW o, UNCHANGED permit,
         FailAcquire(r, o), pc[r] \in Outside
  PROVE  PermitAt'
<1>1. Goto(r, "closing") \/ Goto(r, "done")
  BY DEF FailAcquire
<1> QED
  BY <1>1, KeepPermitAt DEF Outside

\* An admission gives the task its permit and counts the slot.
LEMMA StartActiveSlots ==
  ASSUME SlotInv, NEW r \in Requests, start_active(r), Goto(r, "admitting"),
         pc[r] \in Outside, active_total < ConcurrencyLimit
  PROVE  PermitAt' /\ SlotsCounted'
<1>1. permit[r] = "none" /\ phase(r) \in Classes
  BY ClassType DEF SlotInv, PermitAt
<1>2. SlotsCounted'
  BY <1>1, GainPermit DEF SlotInv, start_active
<1>3. PermitAt'
  BY <1>1 DEF SlotInv, TypeOK, PermitAt, start_active, Goto, Outside, Inside, Classes
<1> QED
  BY <1>2, <1>3

\* Every step of a request keeps the slot accounting.
LEMMA StepSlots ==
  ASSUME SlotInv, NEW r \in Requests, Step(r)
  PROVE  PermitAt' /\ SlotsCounted'
<1> TypeOK /\ PermitAt /\ SlotsCounted
  BY DEF SlotInv
<1>1. CASE try_acquire_immediate(r)
  <2>0. pc[r] \in Outside
    BY <1>1 DEF try_acquire_immediate, Outside
  <2>1. CASE FailAcquire(r, "cancelled") /\ UNCHANGED <<active, permit>>
    BY <2>0, <2>1, FailAcquirePermitAt, KeepPermits
  <2>2. CASE Goto(r, "enqueue") /\ UNCHANGED <<active, permit>>
    BY <2>0, <2>2, KeepPermitAt, KeepPermits DEF Outside
  <2>3. CASE active_total < ConcurrencyLimit /\ start_active(r) /\ Goto(r, "admitting")
    BY <2>0, <2>3, StartActiveSlots
  <2> QED
    BY <1>1, <2>1, <2>2, <2>3 DEF try_acquire_immediate
<1>2. CASE QueueFull(r)
  BY <1>2, FailAcquirePermitAt, KeepPermits DEF QueueFull, schedulerState, Outside
<1>3. CASE enqueue(r)
  BY <1>3, KeepPermitAt, KeepPermits DEF enqueue, Outside
<1>4. CASE RegisterNotified(r)
  BY <1>4, KeepPermitAt, KeepPermits DEF RegisterNotified, schedulerState, Outside
<1>5. CASE try_admit_queued(r)
  <2>1. CASE IsNext(r)
    BY <1>5, <2>1, StartActiveSlots DEF try_admit_queued, IsNext, Outside
  <2>2. CASE ~IsNext(r)
    BY <1>5, <2>2, KeepPermitAt, KeepPermits DEF try_admit_queued, Outside
  <2> QED
    BY <2>1, <2>2
<1>6. CASE WakeUp(r)
  BY <1>6, KeepPermitAt, KeepPermits DEF WakeUp, schedulerState, Outside
<1>18. CASE Await(r)
  BY <1>18, KeepPermitAt, KeepPermits DEF Await, schedulerState, Outside
<1>7. CASE CancelQueued(r)
  BY <1>7, FailAcquirePermitAt, KeepPermits DEF CancelQueued, Outside
<1>8. CASE admit_unless_cancelled(r)
  <2>1. Goto(r, "closing") \/ Goto(r, "readmitted") \/ Goto(r, "held")
    BY <1>8 DEF admit_unless_cancelled
  <2> QED
    BY <1>8, <2>1, KeepPermitAt, KeepPermits DEF admit_unless_cancelled, schedulerState, Inside
<1>9. CASE TimeOutQueued(r)
  BY <1>9, FailAcquirePermitAt, KeepPermits DEF TimeOutQueued, Outside
<1>10. CASE AbandonQueued(r)
  BY <1>10, KeepPermitAt, KeepPermits DEF AbandonQueued, Outside
<1>11. CASE transition_to_decode(r)
  <2>1. PermitAt'
    BY <1>11 DEF transition_to_decode, TypeOK, PermitAt, Outside, Inside
  <2> QED
    BY <1>11, <2>1, MovePermit
<1>12. CASE SettleOutcome(r)
  BY <1>12, KeepPermits DEF SettleOutcome, mark_outcome, schedulerState, PermitAt
<1>13. CASE yield_prefill_chunk(r)
  <2>1. CASE cancelled[r]
    BY <1>13, <2>1, KeepPermitAt, KeepPermits DEF yield_prefill_chunk
  <2>2. CASE ~cancelled[r]
    <3>1. SlotsCounted'
      BY <1>13, <2>2, LosePermit DEF yield_prefill_chunk, Classes
    <3>2. PermitAt'
      BY <1>13, <2>2 DEF yield_prefill_chunk, Goto, TypeOK, PermitAt, Outside, Inside
    <3> QED
      BY <3>1, <3>2
  <2> QED
    BY <2>1, <2>2
<1>14. CASE record_prefill_yield_success(r)
  BY <1>14, KeepPermitAt, KeepPermits DEF record_prefill_yield_success, Inside
<1>15. CASE DropPermit(r)
  <2>1. PermitAt'
    BY <1>15 DEF DropPermit, Goto, TypeOK, PermitAt, Outside, Inside
  <2>2. CASE permit[r] # "none"
    <3>1. permit[r] \in Classes /\ finish_active(permit[r], outcome[r])
      BY <1>15, <2>2 DEF TypeOK, DropPermit
    <3> QED
      BY <1>15, <2>1, <3>1, LosePermit DEF DropPermit, finish_active
  <2>3. CASE permit[r] = "none"
    <3>1. UNCHANGED <<active, permit>>
      BY <1>15, <2>3 DEF DropPermit, finish_inactive, TypeOK
    <3> QED
      BY <2>1, <3>1, KeepPermits
  <2> QED
    BY <2>2, <2>3
<1>16. CASE notify_waiters(r)
  BY <1>16, KeepPermits DEF notify_waiters, schedulerState, PermitAt
<1>17. CASE Cancel(r)
  BY <1>17, KeepPermits DEF Cancel, schedulerState, PermitAt
<1> QED
  BY <1>1, <1>2, <1>3, <1>4, <1>5, <1>6, <1>7, <1>8, <1>9, <1>10, <1>11, <1>12,
     <1>13, <1>14, <1>15, <1>16, <1>17, <1>18 DEF Step, Acquire

\* Whatever the requests do, each phase counter is the number of live permits in
\* that phase and the slots in use stay within the concurrency limit.
THEOREM SlotsBounded == Spec => []SlotsCounted
<1>1. Init => SlotInv
  <2> SUFFICES ASSUME Init PROVE SlotInv
    OBVIOUS
  <2>1. \A p \in Classes : Holders(p) = {}
    BY DEF Init, Holders, Classes
  <2>2. SlotsCounted
    <3>1. \A p \in Classes : active[p] = 0 /\ Cardinality(Holders(p)) = 0
      BY <2>1, FS_EmptySet DEF Init
    <3> QED
      BY <3>1, LimitAssumption DEF SlotsCounted, active_total, Classes
  <2> QED
    BY <2>2, InitTypeOK DEF Init, SlotInv, PermitAt, Inside, Outside
<1>2. SlotInv /\ [Next]_vars => SlotInv'
  <2> SUFFICES ASSUME SlotInv, [Next]_vars PROVE SlotInv'
    OBVIOUS
  <2>1. CASE Next
    BY <2>1, StepTypeOK, StepSlots DEF Next, SlotInv
  <2>2. CASE UNCHANGED vars
    BY <2>2, StutterTypeOK, KeepPermits
    DEF SlotInv, PermitAt, vars, schedulerState, taskState
  <2> QED
    BY <2>1, <2>2
<1>3. SlotInv => SlotsCounted
  BY DEF SlotInv
<1> QED
  BY <1>1, <1>2, <1>3, PTL DEF Spec
-----------------------------------------------------------------------------
(* Outcome accounting *)

\* An outcome is settled by an admission: a task that was never admitted has none.
OutcomeAt ==
    \A r \in Requests :
        /\ ~yielding[r] /\ pc[r] \in Outside \ {"done"} => outcome[r] = "none"
        /\ pc[r] \in Inside \cup {"closing"} => outcome[r] \in Outcomes

CountInv == TypeOK /\ OutcomeAt /\ CountedOnce

\* The step of r that ends no admitted request and counts no outcome.
LEMMA KeepCounted ==
  ASSUME TypeOK, CountedOnce, NEW r \in Requests,
         pc[r] # "done" /\ (pc'[r] # "done" \/ outcome'[r] = "none"),
         \A s \in Requests \ {r} : pc'[s] = pc[s] /\ outcome'[s] = outcome[s],
         \A o \in Outcomes : count'[o] = count[o]
  PROVE  CountedOnce'
<1>1. \A o \in Outcomes : Settled(o)' = Settled(o)
  BY DEF Settled, Outcomes
<1> QED
  BY <1>1 DEF CountedOnce

\* Dropping a ticket counts no outcome of a permit.
LEMMA DropTicketCount ==
  ASSUME TypeOK, NEW r \in Requests, NEW c \in Counters \ Outcomes, DropTicket(r, c)
  PROVE  \A o \in Outcomes : count'[o] = count[o]
  BY DEF TypeOK, DropTicket, Counters

\* An error of acquire ends a request that was never admitted, or leaves the
\* permit of a yield to be counted when it drops.
LEMMA FailAcquireCounted ==
  ASSUME CountInv, NEW r \in Requests, NEW o \in Outcomes, FailAcquire(r, o),
         pc[r] \in Outside \ {"done"}, UNCHANGED yielding,
         \A x \in Outcomes : count'[x] = count[x]
  PROVE  OutcomeAt' /\ CountedOnce'
<1> TypeOK /\ OutcomeAt /\ CountedOnce
  BY DEF CountInv
<1>1. CASE yielding[r]
  <2>1. outcome' = [outcome EXCEPT ![r] = o] /\ pc' = [pc EXCEPT ![r] = "closing"]
    BY <1>1 DEF FailAcquire, Goto
  <2>2. OutcomeAt'
    BY <2>1 DEF TypeOK, OutcomeAt, Outside, Inside
  <2> QED
    BY <2>1, <2>2, KeepCounted DEF TypeOK
<1>2. CASE ~yielding[r]
  <2>1. outcome' = outcome /\ pc' = [pc EXCEPT ![r] = "done"] /\ outcome[r] = "none"
    BY <1>2 DEF FailAcquire, Goto, OutcomeAt
  <2>2. OutcomeAt'
    BY <2>1 DEF TypeOK, OutcomeAt, Outside, Inside
  <2> QED
    BY <2>1, <2>2, KeepCounted DEF TypeOK
<1> QED
  BY <1>1, <1>2

\* An admission gives the permit the outcome a drop without a mark would count.
LEMMA StartActiveCounted ==
  ASSUME CountInv, NEW r \in Requests, start_active(r), Goto(r, "admitting"),
         pc[r] \in Outside \ {"done"}, UNCHANGED <<yielding, count>>
  PROVE  OutcomeAt' /\ CountedOnce'
<1> TypeOK /\ OutcomeAt /\ CountedOnce
  BY DEF CountInv
<1>1. outcome' = [outcome EXCEPT ![r] = "completed"] /\ pc' = [pc EXCEPT ![r] = "admitting"]
  BY DEF start_active, Goto
<1>2. OutcomeAt'
  BY <1>1 DEF TypeOK, OutcomeAt, Outside, Inside, Outcomes
<1> QED
  BY <1>1, <1>2, KeepCounted DEF TypeOK

\* The step moves r without touching an outcome or a counter.
LEMMA MoveCounted ==
  ASSUME CountInv, NEW r \in Requests, NEW l, Goto(r, l), UNCHANGED <<outcome, yielding, count>>,
         \/ pc[r] \in Outside \ {"done"} /\ l \in Outside \ {"done"}
         \/ pc[r] \in Inside /\ l \in Inside
  PROVE  OutcomeAt' /\ CountedOnce'
<1> TypeOK /\ OutcomeAt /\ CountedOnce
  BY DEF CountInv
<1>1. OutcomeAt'
  BY DEF TypeOK, OutcomeAt, Goto, Outside, Inside
<1> QED
  BY <1>1, KeepCounted DEF TypeOK, Goto, Outside, Inside

\* The drop of a permit counts its outcome and ends the request in one step.
LEMMA DropPermitCounted ==
  ASSUME CountInv, NEW r \in Requests, DropPermit(r)
  PROVE  OutcomeAt' /\ CountedOnce'
<1> TypeOK /\ OutcomeAt /\ CountedOnce
  BY DEF CountInv
<1> DEFINE o == outcome[r]
<1>1. /\ o \in Outcomes /\ pc[r] # "done"
      /\ count' = [count EXCEPT ![o] = @ + 1]
      /\ pc' = [pc EXCEPT ![r] = "done"] /\ outcome' = outcome /\ yielding' = yielding
  BY DEF DropPermit, finish_active, finish_inactive, Goto, OutcomeAt, Inside
<1>2. OutcomeAt'
  BY <1>1 DEF TypeOK, OutcomeAt, Outside, Inside
<1>3. Settled(o)' = Settled(o) \cup {r} /\ r \notin Settled(o)
  BY <1>1 DEF Settled, TypeOK
<1>4. \A x \in Outcomes \ {o} : Settled(x)' = Settled(x)
  BY <1>1 DEF Settled, TypeOK
<1>5. IsFiniteSet(Settled(o))
  BY RequestsAssumption, FS_Subset DEF Settled
<1>6. Cardinality(Settled(o)') = Cardinality(Settled(o)) + 1
  BY <1>3, <1>5, FS_AddElement
<1>7. \A x \in Outcomes : x \in Counters
  BY DEF Counters
<1>8. \A x \in Outcomes : count'[x] = Cardinality(Settled(x)')
  BY <1>1, <1>4, <1>6, <1>7 DEF CountedOnce, TypeOK
<1> QED
  BY <1>2, <1>8 DEF CountedOnce

\* Every step of a request keeps the outcome accounting.
LEMMA StepCounted ==
  ASSUME CountInv, NEW r \in Requests, Step(r)
  PROVE  OutcomeAt' /\ CountedOnce'
<1> TypeOK /\ OutcomeAt /\ CountedOnce
  BY DEF CountInv
<1> /\ "cancelled" \in Outcomes /\ "failed" \in Outcomes
    /\ "queued_cancelled" \in Counters \ Outcomes /\ "queue_timeouts" \in Counters \ Outcomes
  BY DEF Outcomes, Counters
<1>1. CASE try_acquire_immediate(r)
  <2>0. pc[r] \in Outside \ {"done"} /\ UNCHANGED <<yielding, count>>
    BY <1>1 DEF try_acquire_immediate, Outside
  <2>1. CASE FailAcquire(r, "cancelled")
    BY <2>0, <2>1, FailAcquireCounted
  <2>2. CASE Goto(r, "enqueue") /\ UNCHANGED outcome
    BY <2>0, <2>2, MoveCounted DEF Outside
  <2>3. CASE start_active(r) /\ Goto(r, "admitting")
    BY <2>0, <2>3, StartActiveCounted
  <2> QED
    BY <1>1, <2>1, <2>2, <2>3 DEF try_acquire_immediate
<1>2. CASE QueueFull(r)
  BY <1>2, FailAcquireCounted DEF QueueFull, schedulerState, Outside
<1>3. CASE enqueue(r)
  BY <1>3, MoveCounted DEF enqueue, Outside
<1>4. CASE RegisterNotified(r)
  BY <1>4, MoveCounted DEF RegisterNotified, schedulerState, Outside
<1>5. CASE try_admit_queued(r)
  <2>1. CASE IsNext(r)
    BY <1>5, <2>1, StartActiveCounted DEF try_admit_queued, Outside
  <2>2. CASE ~IsNext(r)
    BY <1>5, <2>2, MoveCounted DEF try_admit_queued, Outside
  <2> QED
    BY <2>1, <2>2
<1>6. CASE WakeUp(r)
  BY <1>6, MoveCounted DEF WakeUp, schedulerState, Outside
<1>18. CASE Await(r)
  BY <1>18, MoveCounted DEF Await, schedulerState, Outside
<1>7. CASE CancelQueued(r)
  BY <1>7, DropTicketCount, FailAcquireCounted DEF CancelQueued, Outside
<1>8. CASE admit_unless_cancelled(r)
  <2>1. CASE cancelled[r]
    <3>1. /\ outcome' = [outcome EXCEPT ![r] = "cancelled"]
          /\ pc' = [pc EXCEPT ![r] = "closing"] /\ pc[r] = "admitting"
          /\ UNCHANGED <<yielding, count>>
      BY <1>8, <2>1 DEF admit_unless_cancelled, Goto, schedulerState
    <3>2. OutcomeAt'
      BY <3>1 DEF TypeOK, OutcomeAt, Outside, Inside
    <3> QED
      BY <3>1, <3>2, KeepCounted DEF TypeOK
  <2>2. CASE ~cancelled[r]
    <3>1. Goto(r, "readmitted") \/ Goto(r, "held")
      BY <1>8, <2>2 DEF admit_unless_cancelled
    <3> QED
      BY <1>8, <2>2, <3>1, MoveCounted DEF admit_unless_cancelled, schedulerState, Inside
  <2> QED
    BY <2>1, <2>2
<1>9. CASE TimeOutQueued(r)
  BY <1>9, DropTicketCount, FailAcquireCounted DEF TimeOutQueued, Outside
<1>10. CASE AbandonQueued(r)
  <2>1. outcome[r] = "none"
    BY <1>10 DEF AbandonQueued, OutcomeAt, Outside
  <2>2. OutcomeAt'
    BY <1>10, <2>1 DEF AbandonQueued, Goto, TypeOK, OutcomeAt, Outside, Inside
  <2> QED
    BY <1>10, <2>1, <2>2, DropTicketCount, KeepCounted DEF AbandonQueued, Goto, TypeOK
<1>11. CASE transition_to_decode(r)
  <2>1. UNCHANGED <<pc, outcome, yielding, count>> /\ pc[r] = "held"
    BY <1>11 DEF transition_to_decode
  <2> QED
    BY <2>1, KeepCounted DEF OutcomeAt
<1>12. CASE SettleOutcome(r)
  <2>1. PICK o \in Outcomes : outcome' = [outcome EXCEPT ![r] = o]
    BY <1>12 DEF SettleOutcome, mark_outcome
  <2>2. UNCHANGED <<pc, yielding, count>> /\ pc[r] = "held"
    BY <1>12 DEF SettleOutcome, mark_outcome, schedulerState
  <2>3. OutcomeAt'
    BY <2>1, <2>2 DEF TypeOK, OutcomeAt, Outside, Inside
  <2> QED
    BY <2>1, <2>2, <2>3, KeepCounted DEF TypeOK
<1>13. CASE yield_prefill_chunk(r)
  <2>1. CASE cancelled[r]
    <3>1. /\ outcome' = [outcome EXCEPT ![r] = "cancelled"]
          /\ pc' = [pc EXCEPT ![r] = "closing"] /\ pc[r] = "held"
          /\ UNCHANGED <<yielding, count>>
      BY <1>13, <2>1 DEF yield_prefill_chunk, Goto
    <3>2. OutcomeAt'
      BY <3>1 DEF TypeOK, OutcomeAt, Outside, Inside
    <3> QED
      BY <3>1, <3>2, KeepCounted DEF TypeOK
  <2>2. CASE ~cancelled[r]
    <3>1. /\ yielding' = [yielding EXCEPT ![r] = TRUE]
          /\ pc' = [pc EXCEPT ![r] = "acquire"] /\ pc[r] = "held"
          /\ UNCHANGED <<outcome, count>>
      BY <1>13, <2>2 DEF yield_prefill_chunk, Goto
    <3>2. OutcomeAt'
      BY <3>1 DEF TypeOK, OutcomeAt, Outside, Inside
    <3> QED
      BY <3>1, <3>2, KeepCounted DEF TypeOK
  <2> QED
    BY <2>1, <2>2
<1>14. CASE record_prefill_yield_success(r)
  <2>1. OutcomeAt'
    BY <1>14 DEF record_prefill_yield_success, Goto, TypeOK, OutcomeAt, Outside, Inside
  <2> QED
    BY <1>14, <2>1, KeepCounted DEF record_prefill_yield_success, Goto, TypeOK
<1>15. CASE DropPermit(r)
  BY <1>15, DropPermitCounted
<1>16. CASE notify_waiters(r)
  BY <1>16 DEF notify_waiters, schedulerState, OutcomeAt, CountedOnce, Settled
<1>17. CASE Cancel(r)
  BY <1>17 DEF Cancel, schedulerState, OutcomeAt, CountedOnce, Settled
<1> QED
  BY <1>1, <1>2, <1>3, <1>4, <1>5, <1>6, <1>7, <1>8, <1>9, <1>10, <1>11, <1>12,
     <1>13, <1>14, <1>15, <1>16, <1>17, <1>18 DEF Step, Acquire

\* Every request that was ever admitted is counted exactly once, under the outcome
\* of its last permit: yields that fail are neither lost nor counted twice.
THEOREM OutcomesCounted == Spec => []CountedOnce
<1>1. Init => CountInv
  <2> SUFFICES ASSUME Init PROVE CountInv
    OBVIOUS
  <2>1. \A o \in Outcomes : Settled(o) = {}
    BY DEF Init, Settled
  <2>2. \A o \in Outcomes : count[o] = 0
    BY DEF Init, Counters
  <2>3. CountedOnce
    BY <2>1, <2>2, FS_EmptySet DEF CountedOnce
  <2> QED
    BY <2>3, InitTypeOK DEF Init, CountInv, OutcomeAt, Inside, Outside
<1>2. CountInv /\ [Next]_vars => CountInv'
  <2> SUFFICES ASSUME CountInv, [Next]_vars PROVE CountInv'
    OBVIOUS
  <2>1. CASE Next
    BY <2>1, StepTypeOK, StepCounted DEF Next, CountInv
  <2>2. CASE UNCHANGED vars
    BY <2>2, StutterTypeOK
    DEF CountInv, OutcomeAt, CountedOnce, Settled, vars, schedulerState, taskState
  <2> QED
    BY <2>1, <2>2
<1>3. CountInv => CountedOnce
  BY DEF CountInv
<1> QED
  BY <1>1, <1>2, <1>3, PTL DEF Spec
=============================================================================
