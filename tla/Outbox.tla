------------------------------- MODULE Outbox -------------------------------
(***************************************************************************)
(* The outbox: events written with a state change and delivered to their   *)
(* handlers by any number of workers.  A worker claims a batch of due      *)
(* events under fresh, never reused claim versions, handles them one after *)
(* the other, extends the claim of the event it is handling with a         *)
(* heartbeat and settles it by an update that compares the claim.  Claims  *)
(* that expire are taken over by the recovery at the start of a batch.     *)
(*                                                                         *)
(* Repository calls are single statements or short transactions, so each   *)
(* is one action; everything between two calls interleaves.  Time is two   *)
(* flags of an event: expired (claimUntil has passed) and due              *)
(* (nextAttemptAt has passed).                                             *)
(***************************************************************************)
EXTENDS Integers, FiniteSets

CONSTANTS
  Event,        \* the outbox events, numbered in claim order (occurredAt, id)
  Worker,       \* worker processes
  Available,    \* Available[w]: events w has a handler for
  Unsupported,  \* Unsupported[w]: events of a type w knows, in a version it does not
  Reconciles,   \* events whose handler asks for retries beyond the budget
  MaxAttempts,  \* an event's maxAttempts
  BatchLimit,   \* events a worker claims at once
  Takeover,     \* REVIEW_ROUTER_OUTBOX_FENCED_TAKEOVER_ENABLED
  MaxTrouble,   \* bound: crashes, errors, late heartbeats, manual retries
  MaxClaim      \* bound: claim versions the sequence hands out

ASSUME EventAssumption == Event \subseteq Nat /\ IsFiniteSet(Event)
ASSUME HandlerAssumption ==
  /\ Available \in [Worker -> SUBSET Event] /\ Unsupported \in [Worker -> SUBSET Event]
  /\ \A w \in Worker : Available[w] \cap Unsupported[w] = {}
ASSUME BoundAssumption ==
  /\ MaxAttempts \in Nat \ {0} /\ BatchLimit \in Nat \ {0}
  /\ Takeover \in BOOLEAN /\ MaxTrouble \in Nat /\ MaxClaim \in Nat

VARIABLES
  event,    \* the OutboxEvent rows
  claims,   \* last value of the claim version sequence
  worker,   \* what each worker process remembers of its batch
  handled,  \* claims under which a handler ran to its end
  spared,   \* retries an event got beyond its attempt budget
  trouble   \* troubles so far, at most MaxTrouble

vars == <<event, claims, worker, handled, spared, trouble>>

AbsentEvent ==
  [status |-> "absent", attempts |-> 0, version |-> 0, expired |-> FALSE, due |-> FALSE]
NoClaim == [event |-> 0, version |-> 0, attempts |-> 0]
IdleWorker ==
  [step |-> "idle", batch |-> {}, current |-> NoClaim, stale |-> FALSE, error |-> "none"]
\* A worker between two events of its batch
WithBatch(batch) ==
  [step |-> "batch", batch |-> batch, current |-> NoClaim, stale |-> FALSE, error |-> "none"]

Init ==
  /\ event = [e \in Event |-> AbsentEvent]
  /\ claims = 0
  /\ worker = [w \in Worker |-> IdleWorker]
  /\ handled = {}
  /\ spared = [e \in Event |-> 0]
  /\ trouble = 0

-----------------------------------------------------------------------------
(* Deliberate mistakes, each a wrong version of the operator it names. *)

\* Current: the claim version is not compared.
CurrentById(c) == event[c.event].status = "processing"
\* Current: the status is not compared.
CurrentAnyStatus(c) == event[c.event].version = c.version
\* Recoverable: the claim may still be live.
RecoverableLive(e) == Takeover /\ event[e].status = "processing"
\* Recoverable: an event out of attempts is left alone.
RecoverableInBudget(e) ==
  /\ Takeover /\ event[e].status = "processing" /\ event[e].expired
  /\ event[e].attempts < MaxAttempts
\* OutOfAttempts: one attempt too many.
OutOfAttemptsLate(c) == c.attempts > MaxAttempts
\* Drawn: one version for the whole batch.
DrawnOnce(batch) == claims + 1
\* Remaining: a worker forgets to leave an exhausted batch.
RemainingInBatch(w, c) == WithBatch(worker[w].batch \ {c})

-----------------------------------------------------------------------------
\* claimWhere: the row is still processing under the claim a worker holds.
Current(c) == event[c.event].status = "processing" /\ event[c.event].version = c.version

\* The rows after a settlement under claim c: nothing changes if c is stale.
Settled(c, status) ==
  IF Current(c)
  THEN [event EXCEPT ![c.event] =
          [@ EXCEPT !.status = status, !.expired = FALSE, !.due = FALSE]]
  ELSE event

\* The worker goes on with the rest of its batch.
Remaining(w, c) ==
  IF worker[w].batch = {c} THEN IdleWorker ELSE WithBatch(worker[w].batch \ {c})

Trouble == trouble < MaxTrouble /\ trouble' = trouble + 1

\* An answer was lost: the statement took effect, or it did not.
LostAnswer(c, status) == event' \in {event, Settled(c, status)}

-----------------------------------------------------------------------------
(* Producers and operators. *)

\* enqueue: a second call with the same idempotency key changes nothing.
Enqueue(e) ==
  /\ event[e].status = "absent"
  /\ event' = [event EXCEPT ![e].status = "pending"]
  /\ UNCHANGED <<claims, worker, handled, spared, trouble>>

\* retryDeadLetter, from the dashboard
RetryDeadLetter(e) ==
  /\ event[e].status = "dead_letter"
  /\ Trouble
  /\ event' = [event EXCEPT ![e].status = "pending", ![e].attempts = 0]
  /\ spared' = [spared EXCEPT ![e] = 0]
  /\ UNCHANGED <<claims, worker, handled>>

-----------------------------------------------------------------------------
(* Claiming. *)

Recoverable(e) == Takeover /\ event[e].status = "processing" /\ event[e].expired

\* recoverStaleProcessing, at the start of a batch: the update compares the
\* claim the listing saw and that it is still expired.
Recover(w, e) ==
  /\ worker[w].step = "idle" /\ Recoverable(e)
  /\ event' = [event EXCEPT ![e].status = "retry_wait", ![e].expired = FALSE, ![e].due = TRUE]
  /\ spared' = [spared EXCEPT ![e] = @ + 1]
  /\ UNCHANGED <<claims, worker, handled, trouble>>

Claimable(w) ==
  {e \in Available[w] \cup Unsupported[w] :
     \/ event[e].status = "pending"
     \/ event[e].status = "retry_wait" /\ event[e].due}

FirstOf(E) == {e \in E : Cardinality({d \in E : d < e}) < BatchLimit}

\* The sequence after every event of the batch has drawn a version.
Drawn(batch) == claims + Cardinality(batch)

\* claimDue: the oldest due events, without the ones other transactions have
\* locked, each under a new version of the sequence.
ClaimBatch(w, locked) ==
  LET batch == FirstOf(Claimable(w) \ locked)
  IN /\ worker[w].step = "idle" /\ batch # {}
     /\ Drawn(batch) <= MaxClaim
     /\ \E version \in [batch -> claims + 1 .. claims + Cardinality(batch)] :
          /\ \A d, e \in batch : version[d] = version[e] => d = e
          /\ event' = [e \in Event |->
               IF e \in batch
               THEN [status |-> "processing", attempts |-> event[e].attempts + 1,
                     version |-> version[e], expired |-> FALSE, due |-> FALSE]
               ELSE event[e]]
          /\ worker' = [worker EXCEPT ![w] =
               WithBatch({[event |-> e, version |-> version[e],
                           attempts |-> event[e].attempts + 1] : e \in batch})]
     /\ claims' = Drawn(batch)
     /\ UNCHANGED <<handled, spared, trouble>>

-----------------------------------------------------------------------------
(* Handling: processOutboxBatch. *)

\* The worker turns to the next event of its batch and starts the heartbeat;
\* whether the claim is still its own is not looked at.
StartHandling(w, c) ==
  /\ worker[w].step = "batch" /\ c \in worker[w].batch
  /\ c.event \in Available[w]
  /\ worker' = [worker EXCEPT ![w].step = "handling", ![w].current = c]
  /\ UNCHANGED <<event, claims, handled, spared, trouble>>

\* No handler for this version: dead letter.
Quarantine(w, c) ==
  /\ worker[w].step = "batch" /\ c \in worker[w].batch
  /\ c.event \notin Available[w]
  /\ event' = Settled(c, "dead_letter")
  /\ worker' = [worker EXCEPT ![w] = Remaining(w, c)]
  /\ UNCHANGED <<claims, handled, spared, trouble>>

\* The database does not answer that either: the batch is abandoned.
QuarantineFails(w, c) ==
  /\ worker[w].step = "batch" /\ c \in worker[w].batch
  /\ c.event \notin Available[w]
  /\ Trouble
  /\ LostAnswer(c, "dead_letter")
  /\ worker' = [worker EXCEPT ![w] = IdleWorker]
  /\ UNCHANGED <<claims, handled, spared>>

\* The rows after claim c has been extended.
Renewed(c) == IF Current(c) THEN [event EXCEPT ![c.event].expired = FALSE] ELSE event

\* renewClaim: an expired claim nobody took over is extended as well.
Renew(w) ==
  LET c == worker[w].current
  IN /\ worker[w].step = "handling" /\ ~worker[w].stale
     /\ event' = Renewed(c)
     /\ worker' = [worker EXCEPT ![w].stale = ~Current(c)]
     /\ UNCHANGED <<claims, handled, spared, trouble>>

\* A heartbeat that fails counts as stale even if it took effect; there is no
\* further one.
RenewFails(w) ==
  /\ worker[w].step = "handling" /\ ~worker[w].stale
  /\ Trouble
  /\ event' \in {event, Renewed(worker[w].current)}
  /\ worker' = [worker EXCEPT ![w].stale = TRUE]
  /\ UNCHANGED <<claims, handled, spared>>

\* The handler returns; a worker that saw its claim stale leaves the event alone.
HandlerReturns(w) ==
  LET c == worker[w].current
  IN /\ worker[w].step = "handling"
     /\ handled' = handled \cup {c}
     /\ worker' = [worker EXCEPT ![w] =
          IF worker[w].stale THEN Remaining(w, c) ELSE [@ EXCEPT !.step = "returned"]]
     /\ UNCHANGED <<event, claims, spared, trouble>>

\* The handler throws.
HandlerThrows(w) ==
  /\ worker[w].step = "handling"
  /\ \E error \in {"retryable", "permanent"} :
       worker' = [worker EXCEPT ![w].step = "threw", ![w].error = error]
  /\ UNCHANGED <<event, claims, handled, spared, trouble>>

\* The handler throws an error with preserveReconciliation.
HandlerReconciles(w) ==
  /\ worker[w].step = "handling" /\ worker[w].current.event \in Reconciles
  /\ Trouble
  /\ worker' = [worker EXCEPT ![w].step = "threw", ![w].error = "reconciling"]
  /\ UNCHANGED <<event, claims, handled, spared>>

-----------------------------------------------------------------------------
(* Settling. *)

MarkProcessed(w) ==
  LET c == worker[w].current
  IN /\ worker[w].step = "returned"
     /\ event' = Settled(c, "processed")
     /\ worker' = [worker EXCEPT ![w] = Remaining(w, c)]
     /\ UNCHANGED <<claims, handled, spared, trouble>>

\* The database does not answer markProcessed: that error is caught like one
\* of the handler.
MarkProcessedFails(w) ==
  /\ worker[w].step = "returned"
  /\ Trouble
  /\ LostAnswer(worker[w].current, "processed")
  /\ worker' = [worker EXCEPT ![w].step = "threw", ![w].error = "retryable"]
  /\ UNCHANGED <<claims, handled, spared>>

OutOfAttempts(c) == c.attempts >= MaxAttempts

\* The status after an error
Verdict(w) ==
  LET error == worker[w].error
  IN IF error = "permanent" \/ (error = "retryable" /\ OutOfAttempts(worker[w].current))
     THEN "dead_letter" ELSE "retry_wait"

\* An applied retry of a reconciling handler does not count.
Sparing(w) ==
  spared' = IF worker[w].error = "reconciling" /\ event' # event
            THEN [spared EXCEPT ![worker[w].current.event] = @ + 1] ELSE spared

\* markDeadLetter or markRetry
SettleError(w) ==
  LET c == worker[w].current
  IN /\ worker[w].step = "threw"
     /\ event' = Settled(c, Verdict(w))
     /\ Sparing(w)
     /\ worker' = [worker EXCEPT ![w] = Remaining(w, c)]
     /\ UNCHANGED <<claims, handled, trouble>>

\* The database does not answer: the whole batch is abandoned, its other
\* claims stay as they are.
SettleFails(w) ==
  LET c == worker[w].current
  IN /\ worker[w].step = "threw"
     /\ Trouble
     /\ LostAnswer(c, Verdict(w))
     /\ Sparing(w)
     /\ worker' = [worker EXCEPT ![w] = IdleWorker]
     /\ UNCHANGED <<claims, handled>>

\* The process dies; the one that replaces it has another claimOwnerHash.
Crash(w) ==
  /\ worker[w].step # "idle"
  /\ Trouble
  /\ worker' = [worker EXCEPT ![w] = IdleWorker]
  /\ UNCHANGED <<event, claims, handled, spared>>

-----------------------------------------------------------------------------
(* Time. *)

\* A live worker has the claim of e in its batch.
Attended(e) == \E w \in Worker : \E c \in worker[w].batch : c.event = e /\ Current(c)

\* claimUntil passes.  Of a live worker's claim too: the heartbeat was late, or
\* the event waited for its turn in the batch.
ClaimExpires(e) ==
  /\ event[e].status = "processing" /\ ~event[e].expired
  /\ event' = [event EXCEPT ![e].expired = TRUE]
  /\ IF Attended(e) THEN Trouble ELSE UNCHANGED trouble
  /\ UNCHANGED <<claims, worker, handled, spared>>

\* nextAttemptAt passes.
RetryDue(e) ==
  /\ event[e].status = "retry_wait" /\ ~event[e].due
  /\ event' = [event EXCEPT ![e].due = TRUE]
  /\ UNCHANGED <<claims, worker, handled, spared, trouble>>

-----------------------------------------------------------------------------
Claiming(w) ==
  \/ \E e \in Event : Recover(w, e)
  \/ \E locked \in SUBSET Event : ClaimBatch(w, locked)
Handling(w) ==
  \/ \E c \in worker[w].batch : StartHandling(w, c) \/ Quarantine(w, c) \/ QuarantineFails(w, c)
  \/ Renew(w) \/ RenewFails(w)
  \/ HandlerReturns(w) \/ HandlerThrows(w) \/ HandlerReconciles(w)
Settling(w) ==
  MarkProcessed(w) \/ MarkProcessedFails(w) \/ SettleError(w) \/ SettleFails(w)

Next ==
  \/ \E e \in Event : Enqueue(e) \/ RetryDeadLetter(e) \/ ClaimExpires(e) \/ RetryDue(e)
  \/ \E w \in Worker : Claiming(w) \/ Handling(w) \/ Settling(w) \/ Crash(w)

Spec == Init /\ [][Next]_vars
-----------------------------------------------------------------------------
(* What delivery promises. *)

Status == {"absent", "pending", "processing", "retry_wait", "processed", "dead_letter"}
EventRow == [status : Status, attempts : Nat, version : Nat, expired : BOOLEAN, due : BOOLEAN]
Claim == [event : Event, version : Nat \ {0}, attempts : Nat \ {0}]
ErrorKind == {"retryable", "permanent", "reconciling"}
\* A worker between two events has no current claim, one at work has.
WorkerRow ==
  {IdleWorker}
  \cup [step : {"batch"}, batch : (SUBSET Claim) \ {{}}, current : {NoClaim}, stale : {FALSE},
        error : {"none"}]
  \cup [step : {"handling", "returned"}, batch : SUBSET Claim, current : Claim,
        stale : BOOLEAN, error : {"none"}]
  \cup [step : {"threw"}, batch : SUBSET Claim, current : Claim,
        stale : BOOLEAN, error : ErrorKind]

TypeOK ==
  /\ event \in [Event -> EventRow]
  /\ claims \in Nat
  /\ worker \in [Worker -> WorkerRow]
  /\ \A w \in Worker : worker[w].current # NoClaim => worker[w].current \in worker[w].batch
  /\ handled \subseteq Claim
  /\ spared \in [Event -> Nat]
  /\ trouble \in 0 .. MaxTrouble

\* No claim is in the hands of two workers, and the row of a claim in somebody's
\* hands has that version or a later one.
ClaimsExclusive ==
  /\ \A v, w \in Worker : v # w =>
       \A c \in worker[v].batch, d \in worker[w].batch : c.version # d.version
  /\ \A w \in Worker : \A c \in worker[w].batch : c.version <= event[c.event].version

\* An event is processed only if its handler ran to the end under the very
\* claim that settled it: a worker that lost its claim cannot acknowledge the
\* work of the one that took over.
ProcessedWasHandled ==
  \A e \in Event : event[e].status = "processed" =>
    [event |-> e, version |-> event[e].version, attempts |-> event[e].attempts] \in handled

\* Nobody but its holder touches an event whose claim has not expired, whatever
\* stale workers, lost answers and recoveries are still under way.
LiveClaimUndisturbed ==
  [][\A w \in Worker : \A c \in worker[w].batch :
       Current(c) /\ ~event[c.event].expired /\ worker'[w] = worker[w] =>
         [event'[c.event] EXCEPT !.expired = FALSE] = event[c.event]]_vars

\* A settled event stays settled: a processed one for ever, a dead letter until
\* an operator queues it again with a fresh budget.
SettledStays ==
  [][\A e \in Event :
       /\ event[e].status = "processed" => event'[e] = event[e]
       /\ event[e].status = "dead_letter" =>
            event'[e] = event[e] \/ (event'[e].status = "pending" /\ event'[e].attempts = 0)]_vars

\* Beyond its budget an event is claimed only for a takeover or for a handler
\* that asked for reconciliation.
AttemptsAccounted == \A e \in Event : event[e].attempts <= MaxAttempts + spared[e]

\* A job is not tried more often than its budget.
AttemptsWithinMax == \A e \in Event : event[e].attempts <= MaxAttempts

-----------------------------------------------------------------------------
(* Every worker process keeps running batches (a crashed one is restarted),  *)
(* handlers return or throw, and time passes.  Troubles are finitely many.   *)
Fairness ==
  /\ \A w \in Worker :
       /\ WF_vars(ClaimBatch(w, {}))
       /\ WF_vars(\E c \in worker[w].batch : StartHandling(w, c) \/ Quarantine(w, c))
       /\ WF_vars(HandlerReturns(w) \/ HandlerThrows(w))
       /\ WF_vars(MarkProcessed(w) \/ SettleError(w))
  /\ \A e \in Event :
       /\ WF_vars(\E w \in Worker : Recover(w, e))
       /\ WF_vars(ClaimExpires(e) /\ ~Attended(e))
       /\ WF_vars(RetryDue(e))
LiveSpec == Spec /\ Fairness

\* An event some worker can claim does not stay unsettled, whatever crashes,
\* lost answers and late heartbeats its delivery meets.
EventSettles ==
  \A w \in Worker : \A e \in Available[w] \cup Unsupported[w] :
    event[e].status = "pending" ~> event[e].status \in {"processed", "dead_letter"}
=============================================================================
