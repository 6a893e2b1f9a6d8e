----------------------------- MODULE Lifecycle -----------------------------
(***************************************************************************)
(* The life of an inference request in crates/llm-server: the registry of  *)
(* active requests (requests.rs), the handler that acquires a slot and     *)
(* runs a generation (lifecycle.rs, inference.rs), the SSE stream and its  *)
(* terminal outcomes (streaming.rs), and the native worker that generates  *)
(* (llm-native-runtime/src/native_text).  It composes them with Scheduler: *)
(* every step of the server is a step of the scheduler or leaves it alone. *)
(*                                                                         *)
(* A request has two tasks.  The handler registers it, acquires the slot   *)
(* and answers; the worker runs on a blocking thread and outlives it.  A   *)
(* streaming request shares its permit: the handler and the worker each    *)
(* hold a handle of SharedSchedulerPermit, the worker empties the cell     *)
(* while it yields, and the last handle dropped drops the permit.          *)
(***************************************************************************)
EXTENDS Scheduler

CONSTANTS
    Ids,        \* the values of x-request-id
    Id,         \* the id of each request
    Streams,    \* the requests with stream: true
    Disturbed   \* bound: the requests that are cancelled, stalled or disconnected

ASSUME IdAssumption == Id \in [Requests -> Ids]
\* A streamed request always starts in the prefill phase.
ASSUME StreamsAssumption ==
    /\ Streams \subseteq Requests
    /\ \A r \in Streams : InitialPhase[r] = "prefill"
ASSUME DisturbedAssumption == Disturbed \subseteq Requests

VARIABLES
    registry,   \* ActiveRequestRegistry.active: the state of the entry of an id,
                \* "queued", "running", "cancelled" or "finished"; "none" without one
    entry,      \* the request holds its ActiveRequest
    acked,      \* history: the admin route answered "cancelled" for it
    http,       \* where the handler is
    handles,    \* who holds the permit, or a handle of the shared one
    generationPhase, \* its GenerationPhaseGuard, "none" without one
    deadline,   \* its StreamStallDeadline is armed
    terminal,   \* why it finishes, StreamTerminalOutcome: "success", "error" (of the
                \* runtime), "cancelled_error", "cancellation", "stall", "disconnect"
    finish,     \* what mark_finished answered
    recorded,   \* the request metrics it was recorded under, in order
    worker,     \* where the worker is
    outgoing,   \* the item or the error the worker is about to send
    channel     \* what the worker has sent and the handler not yet received

registryState == <<registry, entry, acked>>
handlerState == <<http, handles, generationPhase, deadline, terminal, finish, recorded>>
workerState == <<worker, outgoing, channel>>
server == <<registryState, handlerState, workerState>>
lvars == <<vars, server>>

LifecycleInit ==
    /\ Init
    /\ registry = [i \in Ids |-> "none"]
    /\ entry = [r \in Requests |-> FALSE]
    /\ acked = [r \in Requests |-> FALSE]
    /\ http = [r \in Requests |-> "start"]
    /\ handles = [r \in Requests |-> {}]
    /\ generationPhase = [r \in Requests |-> "none"]
    /\ deadline = [r \in Requests |-> FALSE]
    /\ terminal = [r \in Requests |-> "none"]
    /\ finish = [r \in Requests |-> "none"]
    /\ recorded = [r \in Requests |-> <<>>]
    /\ worker = [r \in Requests |-> "none"]
    /\ outgoing = [r \in Requests |-> "none"]
    /\ channel = [r \in Requests |-> "empty"]
-----------------------------------------------------------------------------
HttpGoto(r, l) == http' = [http EXCEPT ![r] = l]
WorkerGoto(r, l) == worker' = [worker EXCEPT ![r] = l]
Send(r, item) == channel' = [channel EXCEPT ![r] = item]
Record(r, m) == recorded' = [recorded EXCEPT ![r] = Append(@, m)]

\* The stream or the handler returns; the stall deadline is not looked at again.
Finishing(r, t) ==
    /\ terminal' = [terminal EXCEPT ![r] = t]
    /\ deadline' = [deadline EXCEPT ![r] = FALSE]
    /\ HttpGoto(r, "finishing")

\* CancellationToken::cancel is idempotent.
CancelToken(r) == IF cancelled[r] THEN UNCHANGED vars ELSE Cancel(r)

\* The receiver of the worker's channel, or the JoinHandle of its result, lives.
Listening(r) ==
    /\ http[r] \in {"streaming", "awaiting", "finishing", "marking", "leaving"}
    /\ terminal[r] # "disconnect"

\* Mutant: the permit goes with the handler's handle only.
ReleaseHandle_Handler(r, who) ==
    /\ handles' = [handles EXCEPT ![r] = @ \ {who}]
    /\ IF handles[r] = {"http"} /\ pc[r] = "held" THEN DropPermit(r) ELSE UNCHANGED vars

\* Mutant: the permit is not shared, the first handle dropped drops it.
ReleaseHandle_First(r, who) ==
    /\ handles' = [handles EXCEPT ![r] = @ \ {who}]
    /\ IF pc[r] = "held" THEN DropPermit(r) ELSE UNCHANGED vars

\* The permit or a handle of it is dropped: the last one drops the permit, unless
\* a failed yield has already done so.
ReleaseHandle(r, who) ==
    /\ handles' = [handles EXCEPT ![r] = @ \ {who}]
    /\ IF handles[r] = {who} /\ pc[r] = "held" THEN DropPermit(r) ELSE UNCHANGED vars
-----------------------------------------------------------------------------
(* ActiveRequestRegistry *)

\* Mutant: an entry that exists is overwritten.
register_Overwrite(r) ==
    /\ http[r] = "start"
    /\ registry' = [registry EXCEPT ![Id[r]] = "queued"]
    /\ entry' = [entry EXCEPT ![r] = TRUE]
    /\ HttpGoto(r, "acquire")
    /\ UNCHANGED <<vars, acked, handles, generationPhase, deadline, terminal, finish,
                   recorded, workerState>>

register(r) ==
    /\ http[r] = "start"
    /\ IF registry[Id[r]] # "none"
       THEN /\ Record(r, "failure")
            /\ HttpGoto(r, "end")
            /\ UNCHANGED <<registry, entry>>
       ELSE /\ registry' = [registry EXCEPT ![Id[r]] = "queued"]
            /\ entry' = [entry EXCEPT ![r] = TRUE]
            /\ HttpGoto(r, "acquire")
            /\ UNCHANGED recorded
    /\ UNCHANGED <<vars, acked, handles, generationPhase, deadline, terminal, finish, workerState>>

\* POST /admin/requests/{id}/cancel.  Only the first one changes the entry.
cancel(r) ==
    /\ r \in Disturbed /\ entry[r] /\ registry[Id[r]] \in {"queued", "running"}
    /\ registry' = [registry EXCEPT ![Id[r]] = "cancelled"]
    /\ acked' = [acked EXCEPT ![r] = TRUE]
    /\ CancelToken(r)
    /\ UNCHANGED <<entry, handlerState, workerState>>

\* Mutant: a cancelled entry is finished like any other.
mark_finished_Always(r) ==
    /\ finish' = [finish EXCEPT ![r] = "finished"]
    /\ registry' = [registry EXCEPT ![Id[r]] = "finished"]

\* The state mark_finished leaves, and what it answers.
mark_finished(r) ==
    /\ finish' = [finish EXCEPT ![r] =
                     CASE registry[Id[r]] = "none" -> "missing"
                       [] registry[Id[r]] = "cancelled" -> "cancelled"
                       [] OTHER -> "finished"]
    /\ registry' = [registry EXCEPT ![Id[r]] =
                       IF @ \in {"queued", "running"} THEN "finished" ELSE @]
-----------------------------------------------------------------------------
(* start_generation *)

\* The handler runs the first acquire, the worker every later one.
Acquiring(r) == http[r] = "acquire" \/ worker[r] = "yielding"

AcquireSlot(r) ==
    /\ Acquiring(r)
    /\ Acquire(r) \/ TimeOutQueued(r) \/ record_prefill_yield_success(r)
    /\ UNCHANGED server

\* The permit of a failed acquire is dropped inside it.
DropFailedPermit(r) ==
    /\ Acquiring(r) /\ pc[r] = "closing"
    /\ DropPermit(r)
    /\ UNCHANGED server

acquire_scheduler_slot_error(r) ==
    /\ http[r] = "acquire" /\ pc[r] = "done" /\ ~owes[r]
    /\ Record(r, "failure")
    /\ HttpGoto(r, "closing_entry")
    /\ UNCHANGED <<vars, registryState, handles, generationPhase, deadline, terminal, finish,
                   workerState>>

\* The client leaves while its request is queued.
AbandonAcquire(r) ==
    /\ r \in Disturbed /\ http[r] = "acquire"
    /\ AbandonQueued(r)
    /\ HttpGoto(r, "closing_entry")
    /\ UNCHANGED <<registryState, handles, generationPhase, deadline, terminal, finish, recorded,
                   workerState>>

mark_active_request_running(r) ==
    /\ http[r] = "acquire" /\ pc[r] = "held"
    /\ handles' = [handles EXCEPT ![r] = {"http"}]
    /\ IF registry[Id[r]] \in {"queued", "running"}
       THEN /\ registry' = [registry EXCEPT ![Id[r]] = "running"]
            /\ generationPhase' = [generationPhase EXCEPT ![r] = InitialPhase[r]]
            /\ HttpGoto(r, "calling")
            /\ UNCHANGED <<vars, recorded>>
       ELSE /\ mark_outcome(r, IF registry[Id[r]] = "cancelled" THEN "cancelled" ELSE "failed")
            /\ Record(r, "failure")
            /\ HttpGoto(r, "closing_slot")
            /\ UNCHANGED <<registry, generationPhase>>
    /\ UNCHANGED <<entry, acked, deadline, terminal, finish, workerState>>

\* The handler calls the runtime: a stream on the first poll of its body.
CallRuntime(r) ==
    /\ http[r] = "calling"
    /\ \/ Finishing(r, "error") /\ UNCHANGED <<handles, worker>>
       \/ /\ IF r \in Streams
             THEN /\ \E l \in {"prefill", "decode"} : WorkerGoto(r, l)
                  /\ handles' = [handles EXCEPT ![r] = @ \cup {"worker"}]
                  /\ HttpGoto(r, "streaming")
             ELSE /\ WorkerGoto(r, "decode")
                  /\ HttpGoto(r, "awaiting")
                  /\ UNCHANGED handles
          /\ UNCHANGED <<terminal, deadline>>
    /\ UNCHANGED <<vars, registryState, generationPhase, finish, recorded, outgoing, channel>>

\* The client leaves before the first poll: the StreamingGenerationRun is dropped.
DropBody(r) ==
    /\ r \in Disturbed /\ r \in Streams /\ http[r] = "calling"
    /\ HttpGoto(r, "closing_slot")
    /\ UNCHANGED <<vars, registryState, handles, generationPhase, deadline, terminal, finish,
                   recorded, workerState>>
-----------------------------------------------------------------------------
(* The stream, StreamRunLifecycle, and the handler of a request without one *)

\* Mutant: any chunk moves the request to decode, prefill progress included.
ReceiveChunk_Any(r) ==
    /\ http[r] = "streaming" /\ ~cancelled[r]
    /\ channel[r] \in {"progress", "internal", "text"}
    /\ Send(r, "empty")
    /\ deadline' = [deadline EXCEPT ![r] = @ \/ channel[r] # "progress"]
    /\ generationPhase' = [generationPhase EXCEPT ![r] = "decode"]
    /\ IF pc[r] = "held" /\ permit[r] = "prefill"
       THEN transition_to_decode(r) ELSE UNCHANGED vars
    /\ UNCHANGED <<registryState, http, handles, terminal, finish, recorded, worker, outgoing>>

\* A chunk the stream passes on.  The first text moves the request to decode; text
\* and progress on withheld text arm the stall deadline.
ReceiveChunk(r) ==
    /\ http[r] = "streaming" /\ ~cancelled[r]
    /\ channel[r] \in {"progress", "internal", "text"}
    /\ Send(r, "empty")
    /\ deadline' = [deadline EXCEPT ![r] = @ \/ channel[r] # "progress"]
    /\ generationPhase' = IF channel[r] = "text" THEN [generationPhase EXCEPT ![r] = "decode"]
                                                 ELSE generationPhase
    /\ IF channel[r] = "text" /\ pc[r] = "held" /\ permit[r] = "prefill"
       THEN transition_to_decode(r) ELSE UNCHANGED vars
    /\ UNCHANGED <<registryState, http, handles, terminal, finish, recorded, worker, outgoing>>

\* What the runtime makes of an item that ends the generation.  Text may complete a
\* stop sequence; an answer that ends, there or with the last item, may still fail
\* validation or make no progress.
TerminalOf(item) ==
    CASE item \in {"text", "complete"} -> {"success", "error"}
      [] item = "error" -> {"error"}
      [] item = "cancelled" -> {"cancelled_error"}
      [] OTHER -> {}

ReceiveEnd(r) ==
    /\ \/ http[r] = "streaming" /\ ~cancelled[r]
       \/ http[r] = "awaiting"
    /\ \E t \in TerminalOf(channel[r]) : Finishing(r, t)
    /\ Send(r, "empty")
    /\ UNCHANGED <<vars, registryState, handles, generationPhase, finish, recorded, worker,
                   outgoing>>

SeeCancelled(r) ==
    /\ http[r] = "streaming" /\ cancelled[r]
    /\ Finishing(r, "cancellation")
    /\ UNCHANGED <<vars, registryState, handles, generationPhase, finish, recorded,
                   workerState>>

Stall(r) ==
    /\ r \in Disturbed /\ http[r] = "streaming" /\ deadline[r] /\ ~cancelled[r]
    /\ CancelToken(r)
    /\ Finishing(r, "stall")
    /\ UNCHANGED <<registryState, handles, generationPhase, finish, recorded, workerState>>

\* Mutant: the Drop does not ask whether the stream has finished.
Disconnect_Finished(r) ==
    /\ r \in Disturbed
    /\ \/ http[r] \in {"streaming", "leaving"} /\ Finishing(r, "disconnect")
       \/ /\ http[r] = "awaiting"
          /\ HttpGoto(r, "closing_slot")
          /\ UNCHANGED <<terminal, deadline>>
    /\ CancelToken(r)
    /\ Send(r, "empty")
    /\ UNCHANGED <<registryState, handles, generationPhase, finish, recorded, worker,
                   outgoing>>

\* The client leaves.  Dropping the runtime's future or stream cancels the token;
\* only a stream finishes the request, in the Drop of StreamRunLifecycle.
Disconnect(r) ==
    /\ r \in Disturbed
    /\ \/ http[r] = "streaming" /\ Finishing(r, "disconnect")
       \/ /\ http[r] = "awaiting"
          /\ HttpGoto(r, "closing_slot")
          /\ UNCHANGED <<terminal, deadline>>
    /\ CancelToken(r)
    /\ Send(r, "empty")
    /\ UNCHANGED <<registryState, handles, generationPhase, finish, recorded, worker,
                   outgoing>>

MarkFinished(r) ==
    /\ http[r] = "finishing"
    /\ mark_finished(r)
    /\ HttpGoto(r, "marking")
    /\ UNCHANGED <<vars, entry, acked, handles, generationPhase, deadline, terminal,
                   recorded, workerState>>

\* The outcome the permit is marked with; a success leaves it "completed".
MarkedOutcome(r) ==
    CASE finish[r] = "cancelled" -> "cancelled"
      [] finish[r] = "missing" -> "failed"
      [] terminal[r] = "success" -> "completed"
      [] terminal[r] \in {"error", "stall"} -> "failed"
      [] OTHER -> "cancelled"

MetricOf(r) ==
    CASE finish[r] = "cancelled" -> "failure"
      [] terminal[r] = "disconnect" -> "disconnect"
      [] finish[r] = "missing" -> "failure"
      [] terminal[r] \in {"success", "stall"} -> terminal[r]
      [] OTHER -> "failure"

\* mark_failed and mark_cancelled find the cell empty while the worker yields.  The
\* success of a request that is not streamed is recorded later, without its entry.
MarkPermit(r) ==
    LET recordsLater == r \notin Streams /\ MarkedOutcome(r) = "completed" IN
    /\ http[r] = "marking"
    /\ IF MarkedOutcome(r) # "completed" /\ pc[r] = "held"
       THEN mark_outcome(r, MarkedOutcome(r)) ELSE UNCHANGED vars
    /\ IF recordsLater
       THEN UNCHANGED <<recorded, terminal>>
       ELSE Record(r, MetricOf(r)) /\ terminal' = [terminal EXCEPT ![r] = "none"]
    /\ HttpGoto(r, CASE /\ r \in Streams /\ worker[r] # "none"
                        /\ terminal[r] # "disconnect" -> "leaving"
                     [] r \notin Streams /\ terminal[r] # "success" -> "closing_slot"
                     [] OTHER -> "closing_entry")
    /\ finish' = [finish EXCEPT ![r] = "none"]
    /\ UNCHANGED <<registryState, handles, generationPhase, deadline, workerState>>

\* The stream returns: the runtime's stream is dropped first, and cancels the token.
DropEvents(r) ==
    /\ http[r] = "leaving"
    /\ CancelToken(r)
    /\ Send(r, "empty")
    /\ HttpGoto(r, "closing_entry")
    /\ UNCHANGED <<registryState, handles, generationPhase, deadline, terminal, finish,
                   recorded, worker, outgoing>>

\* Drop of the ActiveRequest.
Unregister(r) ==
    /\ http[r] = "closing_entry" /\ (handles[r] = {} => ~owes[r])
    /\ registry' = [registry EXCEPT ![Id[r]] = "none"]
    /\ entry' = [entry EXCEPT ![r] = FALSE]
    /\ HttpGoto(r, CASE terminal[r] = "success" -> "recording"
                     [] terminal[r] # "success" /\ "http" \in handles[r] -> "closing_slot"
                     [] OTHER -> "end")
    /\ UNCHANGED <<vars, acked, handles, generationPhase, deadline, terminal, finish,
                   recorded, workerState>>

record_success_metrics(r) ==
    /\ http[r] = "recording"
    /\ Record(r, "success")
    /\ terminal' = [terminal EXCEPT ![r] = "none"]
    /\ HttpGoto(r, "closing_slot")
    /\ UNCHANGED <<vars, registryState, handles, generationPhase, deadline, finish,
                   workerState>>

ReleaseSlot(r) ==
    /\ http[r] = "closing_slot"
    /\ ReleaseHandle(r, "http")
    /\ generationPhase' = [generationPhase EXCEPT ![r] = "none"]
    /\ HttpGoto(r, IF entry[r] THEN "closing_entry" ELSE "end")
    /\ UNCHANGED <<registryState, deadline, terminal, finish, recorded, workerState>>
-----------------------------------------------------------------------------
(* The native worker.  Its channel holds one chunk; the worker of a request that *)
(* is not streamed only returns a result.                                        *)

CanSend(r) == Listening(r) /\ channel[r] = "empty"

\* The worker has read its token for the last time before it waits in a send.
StartSend(r, item) ==
    /\ WorkerGoto(r, "sending")
    /\ outgoing' = [outgoing EXCEPT ![r] = item]

WorkerFails(r, e) ==
    /\ WorkerGoto(r, "failing")
    /\ outgoing' = [outgoing EXCEPT ![r] = e]

\* Mutant: the token is read only while tokens are decoded.
WorkerSeesCancel_Decode(r) ==
    /\ worker[r] = "decode" /\ cancelled[r]
    /\ WorkerFails(r, "cancelled")
    /\ UNCHANGED <<vars, registryState, handlerState, channel>>

\* The token is read before every chunk, token and send, never during a send.
WorkerSeesCancel(r) ==
    /\ worker[r] \in {"prefill", "decode"} /\ cancelled[r]
    /\ WorkerFails(r, "cancelled")
    /\ UNCHANGED <<vars, registryState, handlerState, channel>>

\* The model fails.
WorkerError(r) ==
    /\ worker[r] \in {"prefill", "decode"}
    /\ WorkerFails(r, "error")
    /\ UNCHANGED <<vars, registryState, handlerState, channel>>

PrefillChunk(r) ==
    /\ worker[r] = "prefill" /\ ~cancelled[r]
    /\ StartSend(r, "progress")
    /\ UNCHANGED <<vars, registryState, handlerState, channel>>

DecodeToken(r) ==
    /\ worker[r] = "decode" /\ r \in Streams /\ ~cancelled[r]
    /\ \E item \in {"internal", "text"} : StartSend(r, item)
    /\ UNCHANGED <<vars, registryState, handlerState, channel>>

Complete(r) ==
    /\ worker[r] = "decode" /\ ~cancelled[r]
    /\ StartSend(r, "complete")
    /\ UNCHANGED <<vars, registryState, handlerState, channel>>

\* A prefill chunk is reported before the worker yields; the last one does not yield.
SendItem(r) ==
    /\ worker[r] = "sending" /\ CanSend(r)
    /\ Send(r, outgoing[r])
    /\ \/ outgoing[r] = "progress" /\ chunks[r] > 0 /\ WorkerGoto(r, "yield")
       \/ outgoing[r] # "complete" /\ WorkerGoto(r, "decode")
       \/ outgoing[r] = "complete" /\ WorkerGoto(r, "finishing")
    /\ outgoing' = [outgoing EXCEPT ![r] = "none"]
    /\ UNCHANGED <<vars, registryState, handlerState>>

\* The receiver is gone.
SendFails(r) ==
    /\ worker[r] = "sending" /\ ~Listening(r)
    /\ WorkerFails(r, "error")
    /\ UNCHANGED <<vars, registryState, handlerState, channel>>

wait_for_next_chunk(r) ==
    /\ worker[r] = "yield"
    /\ yield_prefill_chunk(r)
    /\ WorkerGoto(r, "yielding")
    /\ UNCHANGED <<registryState, handlerState, outgoing, channel>>

ChunkAdmitted(r) ==
    /\ worker[r] = "yielding" /\ pc[r] = "held"
    /\ WorkerGoto(r, "prefill")
    /\ UNCHANGED <<vars, registryState, handlerState, outgoing, channel>>

prefill_readmission_backend_error(r) ==
    /\ worker[r] = "yielding" /\ pc[r] = "done" /\ ~owes[r]
    /\ WorkerFails(r, IF outcome[r] = "cancelled" THEN "cancelled" ELSE "error")
    /\ UNCHANGED <<vars, registryState, handlerState, channel>>

\* The request, and with it the hook that shares the permit, is dropped when the
\* generation returns: before an error is reported, after the last chunk.
DropHook(r) ==
    /\ worker[r] \in {"finishing", "failing"}
    /\ IF "worker" \in handles[r] THEN ReleaseHandle(r, "worker")
                                  ELSE UNCHANGED <<vars, handles>>
    /\ WorkerGoto(r, IF worker[r] = "failing" THEN "reporting" ELSE "ended")
    /\ UNCHANGED <<registryState, http, generationPhase, deadline, terminal, finish,
                   recorded, outgoing, channel>>

ReportError(r) ==
    /\ worker[r] = "reporting"
    /\ IF Listening(r) THEN channel[r] = "empty" /\ Send(r, outgoing[r])
                       ELSE UNCHANGED channel
    /\ outgoing' = [outgoing EXCEPT ![r] = "none"]
    /\ WorkerGoto(r, "ended")
    /\ UNCHANGED <<vars, registryState, handlerState>>
-----------------------------------------------------------------------------
Notify(r) == notify_waiters(r) /\ UNCHANGED server

\* What the server does by itself once the client has sent the request.
HandlerStep(r) ==
    \/ AcquireSlot(r) \/ DropFailedPermit(r) \/ Notify(r)
    \/ acquire_scheduler_slot_error(r) \/ mark_active_request_running(r)
    \/ CallRuntime(r) \/ ReceiveChunk(r) \/ ReceiveEnd(r) \/ SeeCancelled(r)
    \/ MarkFinished(r) \/ MarkPermit(r) \/ DropEvents(r)
    \/ Unregister(r) \/ record_success_metrics(r) \/ ReleaseSlot(r)

WorkerStep(r) ==
    \/ WorkerSeesCancel(r) \/ PrefillChunk(r) \/ DecodeToken(r) \/ Complete(r)
    \/ SendItem(r) \/ SendFails(r) \/ wait_for_next_chunk(r) \/ ChunkAdmitted(r)
    \/ prefill_readmission_backend_error(r) \/ DropHook(r) \/ ReportError(r)

\* What clients, operators, clocks and a failing model do to it.
Environment(r) ==
    \/ register(r) \/ cancel(r) \/ AbandonAcquire(r) \/ DropBody(r)
    \/ Stall(r) \/ Disconnect(r) \/ WorkerError(r)

LifecycleNext ==
    \E r \in Requests : HandlerStep(r) \/ WorkerStep(r) \/ Environment(r)

LifecycleSpec == LifecycleInit /\ [][LifecycleNext]_lvars

\* Runnable tasks are polled and a client that stays connected reads its stream.
\* Nothing makes a generation end by itself.
LifecycleFairSpec ==
    /\ LifecycleSpec
    /\ \A r \in Requests :
          WF_lvars(HandlerStep(r)) /\ WF_lvars(Notify(r)) /\ WF_lvars(WorkerStep(r))
-----------------------------------------------------------------------------
(* Properties *)

\* The metrics count a request once: the handler, the end of the stream and the Drop
\* of its lifecycle never record it a second time, and none of them leaves out a
\* request whose client stays.
RecordedOnce ==
    \A r \in Requests :
        /\ Len(recorded[r]) <= 1
        /\ http[r] = "end" /\ r \notin Disturbed => recorded[r] # <<>>

\* A slot lives no longer than the last handle of it, and whoever ends first,
\* the handler or the worker, nothing of the request is left when both have ended.
SlotFollowsHandles ==
    \A r \in Requests :
        /\ http[r] \notin {"start", "acquire"} /\ handles[r] = {} => permit[r] = "none"
        /\ http[r] = "end" /\ worker[r] \in {"none", "ended"} =>
              handles[r] = {} /\ ~entry[r] /\ generationPhase[r] = "none"

\* An entry of the registry belongs to exactly one request that is still running:
\* no drop removes the entry of another request that uses the same id.
EntriesOwned ==
    \A i \in Ids :
        Cardinality({r \in Requests : entry[r] /\ Id[r] = i}) =
            IF registry[i] = "none" THEN 0 ELSE 1

\* A cancellation the admin route acknowledged is never followed by a successful
\* answer, however late it came.
CancelHonoured == \A r \in Requests : acked[r] => "success" \notin Range(recorded[r])

\* The handler's generation phase and the phase of the permit agree: the first
\* text never meets a permit that a yield has taken out of the shared cell.
PhasesAgree ==
    \A r \in Requests :
        generationPhase[r] = "decode" /\ r \in Streams => permit[r] # "prefill"

Computing(r) == worker[r] \in {"prefill", "sending", "yield", "decode"}

\* rust-metal-inference-engine-north-star.md, Scheduler: "No detached decode job
\* after client disconnect."  A worker that still generates holds a slot.
NoDetachedJob == \A r \in Requests : Computing(r) => permit[r] # "none"

\* An acknowledged cancellation ends both tasks of the request, gives its slot
\* back and frees its id.
CancelReleases ==
    \A r \in Requests :
        acked[r] ~> /\ http[r] = "end" /\ worker[r] \in {"none", "ended"}
                    /\ permit[r] = "none" /\ ~entry[r]

\* docs/http-api-reference.md on scheduler_cancelled_requests: "Requests cancelled
\* while active in the scheduler."  A request that answered that it was cancelled is
\* not counted as completed.
CancelledCounted ==
    \A r \in Requests :
        acked[r] /\ recorded[r] # <<>> /\ pc[r] = "done" => outcome[r] # "completed"

\* docs/http-api-reference.md on scheduler_completed_requests: "Requests completed
\* by the scheduler."  A request counted as completed was answered with success.
CompletedCounted ==
    \A r \in Requests :
        pc[r] = "done" /\ outcome[r] = "completed" => "success" \in Range(recorded[r])
=============================================================================
