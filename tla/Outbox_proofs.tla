---------------------------- MODULE Outbox_proofs ----------------------------
(***************************************************************************)
(* Proofs, for every set of events and workers, every division of handlers *)
(* between them, every budget and every number of troubles, that delivery  *)
(* is fenced: claims are exclusive, an event is acknowledged only for a    *)
(* handler that ran under its last claim, and attempts are accounted for.  *)
(***************************************************************************)
EXTENDS Outbox, FiniteSetTheorems, TLAPS

-----------------------------------------------------------------------------
(* What a worker remembers, and what a settlement does to the rows. *)

LEMMA WorkerFacts ==
  ASSUME TypeOK, NEW w \in Worker
  PROVE  /\ worker[w].batch \subseteq Claim
         /\ worker[w].step = "idle" => worker[w] = IdleWorker /\ worker[w].batch = {}
         /\ worker[w].step = "batch" => worker[w] \in
              [step : {"batch"}, batch : (SUBSET Claim) \ {{}}, current : {NoClaim},
               stale : {FALSE}, error : {"none"}]
         /\ worker[w].step \in {"handling", "returned"} => worker[w] \in
              [step : {"handling", "returned"}, batch : SUBSET Claim, current : Claim,
               stale : BOOLEAN, error : {"none"}]
         /\ worker[w].step = "threw" => worker[w] \in
              [step : {"threw"}, batch : SUBSET Claim, current : Claim,
               stale : BOOLEAN, error : ErrorKind]
<1> DEFINE between == [step : {"batch"}, batch : (SUBSET Claim) \ {{}}, current : {NoClaim},
                       stale : {FALSE}, error : {"none"}]
           busy == [step : {"handling", "returned"}, batch : SUBSET Claim, current : Claim,
                    stale : BOOLEAN, error : {"none"}]
           failed == [step : {"threw"}, batch : SUBSET Claim, current : Claim,
                      stale : BOOLEAN, error : ErrorKind]
<1>1. worker[w] \in WorkerRow
  BY DEF TypeOK
<1>2. worker[w] = IdleWorker \/ worker[w] \in between \/ worker[w] \in busy
      \/ worker[w] \in failed
  BY <1>1 DEF WorkerRow
<1>3. CASE worker[w] = IdleWorker
  BY <1>3 DEF IdleWorker
<1>4. CASE worker[w] \in between
  BY <1>4
<1>5. CASE worker[w] \in busy
  BY <1>5
<1>6. CASE worker[w] \in failed
  BY <1>6
<1> QED
  BY <1>2, <1>3, <1>4, <1>5, <1>6

LEMMA CurrentHeld ==
  ASSUME TypeOK, NEW w \in Worker, worker[w].step \in {"handling", "returned", "threw"}
  PROVE  worker[w].current \in worker[w].batch /\ worker[w].current \in Claim
<1>1. worker[w].current \in Claim
  BY WorkerFacts
<1>2. worker[w].current # NoClaim
  BY <1>1 DEF Claim, NoClaim
<1> QED
  BY <1>1, <1>2 DEF TypeOK

LEMMA IdleRow == IdleWorker \in WorkerRow /\ IdleWorker.current = NoClaim
  BY DEF WorkerRow, IdleWorker

LEMMA RemainingRow ==
  ASSUME TypeOK, NEW w \in Worker, NEW c \in worker[w].batch
  PROVE  /\ Remaining(w, c) \in WorkerRow
         /\ Remaining(w, c).current = NoClaim
         /\ Remaining(w, c).step # "returned"
         /\ Remaining(w, c).batch \subseteq worker[w].batch
<1>1. worker[w].batch \subseteq Claim
  BY WorkerFacts
<1>2. CASE worker[w].batch = {c}
  BY <1>1, <1>2, IdleRow DEF Remaining, IdleWorker
<1>3. CASE worker[w].batch # {c}
  <2> DEFINE rest == worker[w].batch \ {c}
  <2>1. rest \in (SUBSET Claim) \ {{}}
    BY <1>1, <1>3
  <2>2. Remaining(w, c) = [step |-> "batch", batch |-> rest, current |-> NoClaim,
                           stale |-> FALSE, error |-> "none"]
    BY <1>3 DEF Remaining, WithBatch
  <2> HIDE DEF rest
  <2>3. Remaining(w, c) \in WorkerRow
    BY <2>1, <2>2 DEF WorkerRow
  <2> QED
    BY <2>2, <2>3 DEF rest
<1> QED
  BY <1>2, <1>3

LEMMA SettledRows ==
  ASSUME TypeOK, NEW c \in Claim, NEW status \in Status
  PROVE  /\ Settled(c, status) \in [Event -> EventRow]
         /\ \A e \in Event :
              /\ Settled(c, status)[e].version = event[e].version
              /\ Settled(c, status)[e].attempts = event[e].attempts
              /\ \/ Settled(c, status)[e].status = event[e].status
                 \/ e = c.event /\ Current(c) /\ Settled(c, status)[e].status = status
<1>1. c.event \in Event
  BY DEF Claim
<1>2. event[c.event] \in EventRow
  BY <1>1 DEF TypeOK
<1>3. [event[c.event] EXCEPT !.status = status, !.expired = FALSE, !.due = FALSE] \in EventRow
  BY <1>2 DEF EventRow
<1> QED
  BY <1>1, <1>2, <1>3 DEF Settled, TypeOK, EventRow

LEMMA RenewedRows ==
  ASSUME TypeOK, NEW c \in Claim
  PROVE  /\ Renewed(c) \in [Event -> EventRow]
         /\ \A e \in Event :
              /\ Renewed(c)[e].version = event[e].version
              /\ Renewed(c)[e].attempts = event[e].attempts
              /\ Renewed(c)[e].status = event[e].status
<1>1. c.event \in Event
  BY DEF Claim
<1>2. [event[c.event] EXCEPT !.expired = FALSE] \in EventRow
  BY <1>1 DEF TypeOK, EventRow
<1> QED
  BY <1>1, <1>2 DEF Renewed, TypeOK, EventRow

LEMMA WrittenStatus ==
  /\ {"pending", "processing", "retry_wait", "processed", "dead_letter"} \subseteq Status
  /\ \A w \in Worker : Verdict(w) \in {"retry_wait", "dead_letter"}
  BY DEF Status, Verdict

\* One worker's memory changes.
LEMMA WorkerUpdate ==
  ASSUME TypeOK, NEW w \in Worker, NEW r \in WorkerRow,
         worker' = [worker EXCEPT ![w] = r],
         r.current = NoClaim \/ r.current \in r.batch
  PROVE  /\ worker' \in [Worker -> WorkerRow]
         /\ \A v \in Worker : worker'[v].current # NoClaim =>
              worker'[v].current \in worker'[v].batch
  BY DEF TypeOK

LEMMA TroubleType == TypeOK /\ Trouble => trouble' \in 0 .. MaxTrouble
  BY BoundAssumption DEF TypeOK, Trouble

-----------------------------------------------------------------------------
(* Claiming: the facts of claimDue that do not depend on which rows it found. *)

Claims(w, batch, version) ==
  /\ batch \subseteq Claimable(w)
  /\ worker[w].step = "idle" /\ batch # {}
  /\ claims' \in Nat /\ claims' >= claims
  /\ version \in [batch -> Nat]
  /\ \A e \in batch : version[e] > claims /\ version[e] <= claims'
  /\ \A d, e \in batch : version[d] = version[e] => d = e
  /\ event' = [e \in Event |->
       IF e \in batch
       THEN [status |-> "processing", attempts |-> event[e].attempts + 1,
             version |-> version[e], expired |-> FALSE, due |-> FALSE]
       ELSE event[e]]
  /\ worker' = [worker EXCEPT ![w] =
       WithBatch({[event |-> e, version |-> version[e],
                   attempts |-> event[e].attempts + 1] : e \in batch})]
  /\ UNCHANGED <<handled, spared, trouble>>

LEMMA ClaimableEvents ==
  ASSUME NEW w \in Worker
  PROVE  /\ Claimable(w) \subseteq Event
         /\ \A e \in Claimable(w) : event[e].status \in {"pending", "retry_wait"}
  BY HandlerAssumption DEF Claimable

LEMMA ClaimFacts ==
  ASSUME TypeOK, NEW w \in Worker, NEW locked, ClaimBatch(w, locked)
  PROVE  \E batch \in SUBSET Event : \E version : Claims(w, batch, version)
<1> DEFINE batch == FirstOf(Claimable(w) \ locked)
<1>1. batch \subseteq Claimable(w)
  BY DEF FirstOf
<1>2. batch \subseteq Event
  BY <1>1, ClaimableEvents
<1>3. Cardinality(batch) \in Nat
  <2>1. IsFiniteSet(batch)
    BY <1>2, EventAssumption, FS_Subset
  <2> QED
    BY <2>1, FS_CardinalityType
<1>4. PICK version \in [batch -> claims + 1 .. claims + Cardinality(batch)] :
        /\ \A d, e \in batch : version[d] = version[e] => d = e
        /\ event' = [e \in Event |->
             IF e \in batch
             THEN [status |-> "processing", attempts |-> event[e].attempts + 1,
                   version |-> version[e], expired |-> FALSE, due |-> FALSE]
             ELSE event[e]]
        /\ worker' = [worker EXCEPT ![w] =
             WithBatch({[event |-> e, version |-> version[e],
                         attempts |-> event[e].attempts + 1] : e \in batch})]
  BY DEF ClaimBatch
<1>5. /\ worker[w].step = "idle" /\ batch # {}
      /\ claims' = claims + Cardinality(batch)
      /\ UNCHANGED <<handled, spared, trouble>>
  BY DEF ClaimBatch, Drawn
<1>6. claims \in Nat
  BY DEF TypeOK
<1> HIDE DEF batch
<1>8. /\ version \in [batch -> Nat]
      /\ \A e \in batch : version[e] > claims /\ version[e] <= claims + Cardinality(batch)
  <2> DEFINE n == Cardinality(batch)
  <2>1. version \in [batch -> claims + 1 .. claims + n]
    BY <1>4
  <2>2. n \in Nat
    BY <1>3
  <2> HIDE DEF n
  <2>3. \A e \in batch : version[e] \in Nat /\ version[e] > claims /\ version[e] <= claims + n
    BY <2>1, <2>2, <1>6
  <2>4. version \in [batch -> Nat]
    BY <2>1, <2>3
  <2> QED
    BY <2>3, <2>4 DEF n
<1>9. claims' \in Nat /\ claims' >= claims
  BY <1>3, <1>5, <1>6
<1>10. \A e \in batch : version[e] > claims /\ version[e] <= claims'
  BY <1>5, <1>8
<1>11. Claims(w, batch, version)
  BY <1>1, <1>4, <1>5, <1>8, <1>9, <1>10, Zenon DEF Claims
<1> QED
  BY <1>2, <1>11

LEMMA ClaimedRows ==
  ASSUME TypeOK, NEW w \in Worker, NEW batch \in SUBSET Event, NEW version,
         Claims(w, batch, version), NEW e \in batch
  PROVE  /\ [status |-> "processing", attempts |-> event[e].attempts + 1,
             version |-> version[e], expired |-> FALSE, due |-> FALSE] \in EventRow
         /\ [event |-> e, version |-> version[e], attempts |-> event[e].attempts + 1] \in Claim
<1>1. event[e].attempts \in Nat
  BY DEF TypeOK, EventRow
<1>2. version[e] \in Nat \ {0}
  BY DEF Claims, TypeOK
<1> QED
  BY <1>1, <1>2, WrittenStatus DEF EventRow, Claim

-----------------------------------------------------------------------------
(* Types. *)

LEMMA InitType == Init => TypeOK
  BY BoundAssumption DEF Init, TypeOK, AbsentEvent, IdleWorker, WorkerRow, EventRow, Status

LEMMA ClaimType ==
  ASSUME TypeOK, NEW w \in Worker, NEW locked, ClaimBatch(w, locked)
  PROVE  TypeOK'
<1>1. PICK batch \in SUBSET Event : \E version : Claims(w, batch, version)
  BY ClaimFacts
<1>2. PICK version : Claims(w, batch, version)
  BY <1>1
<1>3. event' \in [Event -> EventRow]
  BY <1>2, ClaimedRows DEF Claims, TypeOK
<1> DEFINE mine == {[event |-> e, version |-> version[e],
                     attempts |-> event[e].attempts + 1] : e \in batch}
           r == WithBatch(mine)
<1>4. mine \in (SUBSET Claim) \ {{}}
  <2>1. mine \subseteq Claim
    BY <1>2, ClaimedRows
  <2>2. batch # {}
    BY <1>2 DEF Claims
  <2> QED
    BY <2>1, <2>2
<1>5. worker' = [worker EXCEPT ![w] = r]
  BY <1>2 DEF Claims
<1> HIDE DEF mine
<1>6. r \in WorkerRow /\ r.current = NoClaim
  BY <1>4 DEF WorkerRow, WithBatch
<1>7. /\ worker' \in [Worker -> WorkerRow]
      /\ \A v \in Worker : worker'[v].current # NoClaim => worker'[v].current \in worker'[v].batch
  BY <1>5, <1>6, WorkerUpdate
<1> QED
  BY <1>2, <1>3, <1>7 DEF Claims, TypeOK

LEMMA ProducingType ==
  ASSUME TypeOK, NEW e \in Event,
         Enqueue(e) \/ RetryDeadLetter(e) \/ ClaimExpires(e) \/ RetryDue(e)
  PROVE  TypeOK'
<1>1. event[e] \in EventRow
  BY DEF TypeOK
<1>2. CASE Enqueue(e)
  BY <1>1, <1>2, WrittenStatus DEF Enqueue, TypeOK, EventRow
<1>3. CASE RetryDeadLetter(e)
  <2>1. event' \in [Event -> EventRow]
    BY <1>1, <1>3, WrittenStatus DEF RetryDeadLetter, TypeOK, EventRow
  <2> QED
    BY <1>3, <2>1, TroubleType DEF RetryDeadLetter, TypeOK
<1>4. CASE ClaimExpires(e)
  <2>1. event' \in [Event -> EventRow]
    BY <1>1, <1>4 DEF ClaimExpires, TypeOK, EventRow
  <2>2. trouble' \in 0 .. MaxTrouble
    BY <1>4, TroubleType DEF ClaimExpires, TypeOK
  <2> QED
    BY <1>4, <2>1, <2>2 DEF ClaimExpires, TypeOK
<1>5. CASE RetryDue(e)
  BY <1>1, <1>5 DEF RetryDue, TypeOK, EventRow
<1> QED
  BY <1>2, <1>3, <1>4, <1>5

LEMMA RecoverType ==
  ASSUME TypeOK, NEW w \in Worker, NEW e \in Event, Recover(w, e)
  PROVE  TypeOK'
<1>1. event[e] \in EventRow
  BY DEF TypeOK
<1>2. event' \in [Event -> EventRow]
  BY <1>1, WrittenStatus DEF Recover, TypeOK, EventRow
<1>3. spared' \in [Event -> Nat]
  BY DEF Recover, TypeOK
<1> QED
  BY <1>2, <1>3 DEF Recover, TypeOK

LEMMA HandlingType ==
  ASSUME TypeOK, NEW w \in Worker, Handling(w)
  PROVE  TypeOK'
<1>1. ASSUME NEW c \in worker[w].batch, StartHandling(w, c) PROVE TypeOK'
  <2> DEFINE r == [worker[w] EXCEPT !.step = "handling", !.current = c]
  <2>1. c \in Claim
    BY WorkerFacts
  <2>2. worker[w] \in [step : {"batch"}, batch : (SUBSET Claim) \ {{}}, current : {NoClaim},
                       stale : {FALSE}, error : {"none"}]
    BY <1>1, WorkerFacts DEF StartHandling
  <2>3. r \in [step : {"handling", "returned"}, batch : SUBSET Claim, current : Claim,
               stale : BOOLEAN, error : {"none"}]
    BY <2>1, <2>2
  <2>4. r \in WorkerRow /\ r.current \in r.batch
    BY <2>2, <2>3 DEF WorkerRow
  <2>5. worker' = [worker EXCEPT ![w] = r]
    BY <1>1 DEF StartHandling, TypeOK
  <2> HIDE DEF r
  <2>6. /\ worker' \in [Worker -> WorkerRow]
        /\ \A v \in Worker : worker'[v].current # NoClaim => worker'[v].current \in worker'[v].batch
    BY <2>4, <2>5, WorkerUpdate
  <2> QED
    BY <1>1, <2>6 DEF StartHandling, TypeOK
<1>2. ASSUME NEW c \in worker[w].batch, Quarantine(w, c) \/ QuarantineFails(w, c) PROVE TypeOK'
  <2>1. c \in Claim
    BY WorkerFacts
  <2>2. event' \in {event, Settled(c, "dead_letter")}
    BY <1>2 DEF Quarantine, QuarantineFails, LostAnswer
  <2>3. event' \in [Event -> EventRow]
    BY <2>1, <2>2, SettledRows, WrittenStatus DEF TypeOK
  <2>4. PICK r \in {Remaining(w, c), IdleWorker} : worker' = [worker EXCEPT ![w] = r]
    BY <1>2 DEF Quarantine, QuarantineFails
  <2>5. r \in WorkerRow /\ r.current = NoClaim
    <3>1. Remaining(w, c) \in WorkerRow /\ Remaining(w, c).current = NoClaim
      BY RemainingRow
    <3> QED
      BY <2>4, <3>1, IdleRow
  <2>6. /\ worker' \in [Worker -> WorkerRow]
        /\ \A v \in Worker : worker'[v].current # NoClaim => worker'[v].current \in worker'[v].batch
    BY <2>4, <2>5, WorkerUpdate
  <2>7. trouble' \in 0 .. MaxTrouble
    BY <1>2, TroubleType DEF Quarantine, QuarantineFails, TypeOK
  <2> QED
    BY <1>2, <2>3, <2>6, <2>7 DEF Quarantine, QuarantineFails, TypeOK
<1>3. ASSUME worker[w].step = "handling",
             NEW r \in WorkerRow, worker' = [worker EXCEPT ![w] = r],
             r.current = NoClaim \/ r.current \in r.batch,
             event' \in {event, Renewed(worker[w].current)},
             handled' \in {handled, handled \cup {worker[w].current}},
             trouble' \in 0 .. MaxTrouble, UNCHANGED <<claims, spared>>
      PROVE  TypeOK'
  <2>1. worker[w].current \in Claim
    BY <1>3, CurrentHeld
  <2>2. event' \in [Event -> EventRow]
    BY <1>3, <2>1, RenewedRows DEF TypeOK
  <2>3. handled' \subseteq Claim
    BY <1>3, <2>1 DEF TypeOK
  <2>4. /\ worker' \in [Worker -> WorkerRow]
        /\ \A v \in Worker : worker'[v].current # NoClaim => worker'[v].current \in worker'[v].batch
    BY <1>3, WorkerUpdate
  <2> QED
    BY <1>3, <2>2, <2>3, <2>4 DEF TypeOK
<1>4. worker[w].step = "handling" =>
        /\ worker[w] \in [step : {"handling", "returned"}, batch : SUBSET Claim, current : Claim,
                         stale : BOOLEAN, error : {"none"}]
        /\ worker[w].current \in worker[w].batch
  BY WorkerFacts, CurrentHeld
<1>5. worker \in [Worker -> WorkerRow]
  BY DEF TypeOK
<1>6. trouble \in 0 .. MaxTrouble
  BY DEF TypeOK
<1>7. CASE Renew(w)
  <2> DEFINE r == [worker[w] EXCEPT !.stale = ~Current(worker[w].current)]
  <2>1. worker' = [worker EXCEPT ![w] = r]
    BY <1>5, <1>7 DEF Renew
  <2>2. r \in WorkerRow /\ r.current \in r.batch
    BY <1>4, <1>7 DEF Renew, WorkerRow
  <2> HIDE DEF r
  <2> QED
    BY <1>3, <1>6, <1>7, <2>1, <2>2 DEF Renew
<1>8. CASE RenewFails(w)
  <2> DEFINE r == [worker[w] EXCEPT !.stale = TRUE]
  <2>1. worker' = [worker EXCEPT ![w] = r]
    BY <1>5, <1>8 DEF RenewFails
  <2>2. r \in WorkerRow /\ r.current \in r.batch
    BY <1>4, <1>8 DEF RenewFails, WorkerRow
  <2>3. trouble' \in 0 .. MaxTrouble
    BY <1>8, TroubleType DEF RenewFails
  <2> HIDE DEF r
  <2> QED
    BY <1>3, <1>8, <2>1, <2>2, <2>3 DEF RenewFails
<1>9. CASE HandlerReturns(w)
  <2> DEFINE done == [worker[w] EXCEPT !.step = "returned"]
             r == IF worker[w].stale THEN Remaining(w, worker[w].current) ELSE done
  <2>1. worker' = [worker EXCEPT ![w] = r]
    BY <1>5, <1>9 DEF HandlerReturns
  <2>2. done \in WorkerRow /\ done.current \in done.batch
    BY <1>4, <1>9 DEF HandlerReturns, WorkerRow
  <2>3. /\ Remaining(w, worker[w].current) \in WorkerRow
        /\ Remaining(w, worker[w].current).current = NoClaim
    BY <1>9, CurrentHeld, RemainingRow DEF HandlerReturns
  <2> HIDE DEF done
  <2>4. r \in WorkerRow /\ (r.current = NoClaim \/ r.current \in r.batch)
    BY <2>2, <2>3
  <2> HIDE DEF r
  <2> QED
    BY <1>3, <1>6, <1>9, <2>1, <2>4 DEF HandlerReturns
<1>10. CASE HandlerThrows(w) \/ HandlerReconciles(w)
  <2>1. PICK error \in ErrorKind :
          worker' = [worker EXCEPT ![w].step = "threw", ![w].error = error]
    BY <1>10 DEF HandlerThrows, HandlerReconciles, ErrorKind
  <2> DEFINE r == [worker[w] EXCEPT !.step = "threw", !.error = error]
  <2>2. worker[w].step = "handling"
    BY <1>10 DEF HandlerThrows, HandlerReconciles
  <2>3. worker' = [worker EXCEPT ![w] = r]
    BY <1>5, <2>1
  <2>4. r \in WorkerRow /\ r.current \in r.batch
    BY <1>4, <2>2 DEF WorkerRow
  <2>5. trouble' \in 0 .. MaxTrouble
    BY <1>6, <1>10, TroubleType DEF HandlerThrows, HandlerReconciles
  <2> HIDE DEF r
  <2> QED
    BY <1>3, <1>10, <2>2, <2>3, <2>4, <2>5 DEF HandlerThrows, HandlerReconciles
<1> QED
  BY <1>1, <1>2, <1>7, <1>8, <1>9, <1>10 DEF Handling

LEMMA SettlingType ==
  ASSUME TypeOK, NEW w \in Worker, Settling(w) \/ Crash(w)
  PROVE  TypeOK'
<1> DEFINE c == worker[w].current
<1>1. ASSUME worker[w].step \in {"returned", "threw"} PROVE c \in Claim /\ c \in worker[w].batch
  BY <1>1, CurrentHeld
<1>2. ASSUME Settling(w)
      PROVE  \E status \in Status : event' \in {event, Settled(c, status)}
  BY <1>2, WrittenStatus
  DEF Settling, MarkProcessed, MarkProcessedFails, SettleError, SettleFails, LostAnswer
<1>3. event' \in [Event -> EventRow]
  <2>1. CASE Settling(w)
    <3>1. worker[w].step \in {"returned", "threw"}
      BY <2>1 DEF Settling, MarkProcessed, MarkProcessedFails, SettleError, SettleFails
    <3> QED
      BY <1>1, <1>2, <2>1, <3>1, SettledRows DEF TypeOK
  <2>2. CASE Crash(w)
    BY <2>2 DEF Crash, TypeOK
  <2> QED
    BY <2>1, <2>2
<1>4. /\ worker' \in [Worker -> WorkerRow]
      /\ \A v \in Worker : worker'[v].current # NoClaim => worker'[v].current \in worker'[v].batch
  <2>1. CASE MarkProcessed(w) \/ SettleError(w)
    <3>1. c \in worker[w].batch
      BY <1>1, <2>1 DEF MarkProcessed, SettleError
    <3> QED
      BY <2>1, <3>1, RemainingRow, WorkerUpdate DEF MarkProcessed, SettleError
  <2>2. CASE SettleFails(w) \/ Crash(w)
    BY <2>2, IdleRow, WorkerUpdate DEF SettleFails, Crash
  <2>3. CASE MarkProcessedFails(w)
    <3> DEFINE r == [worker[w] EXCEPT !.step = "threw", !.error = "retryable"]
    <3>1. worker[w] \in [step : {"handling", "returned"}, batch : SUBSET Claim, current : Claim,
                         stale : BOOLEAN, error : {"none"}]
      BY <2>3, WorkerFacts DEF MarkProcessedFails
    <3>2. r \in WorkerRow /\ r.current \in r.batch
      BY <1>1, <2>3, <3>1 DEF MarkProcessedFails, WorkerRow, ErrorKind
    <3>3. worker' = [worker EXCEPT ![w] = r]
      BY <2>3 DEF MarkProcessedFails, TypeOK
    <3> HIDE DEF r
    <3> QED
      BY <3>2, <3>3, WorkerUpdate
  <2> QED
    BY <2>1, <2>2, <2>3 DEF Settling
<1>5. trouble' \in 0 .. MaxTrouble
  BY TroubleType
  DEF Settling, MarkProcessed, MarkProcessedFails, SettleError, SettleFails, Crash, TypeOK
<1>6. spared' \in [Event -> Nat]
  <2>1. ASSUME Sparing(w), worker[w].step = "threw" PROVE spared' \in [Event -> Nat]
    <3>1. c.event \in Event
      BY <1>1, <2>1 DEF Claim
    <3>2. spared \in [Event -> Nat]
      BY DEF TypeOK
    <3> HIDE DEF c
    <3>3. [spared EXCEPT ![c.event] = @ + 1] \in [Event -> Nat]
      BY <3>1, <3>2
    <3> QED
      BY <2>1, <3>2, <3>3 DEF Sparing, c
  <2> QED
    BY <2>1 DEF Settling, MarkProcessed, MarkProcessedFails, SettleError, SettleFails, Crash, TypeOK
<1>7. UNCHANGED <<claims, handled>>
  BY DEF Settling, MarkProcessed, MarkProcessedFails, SettleError, SettleFails, Crash
<1> QED
  BY <1>3, <1>4, <1>5, <1>6, <1>7 DEF TypeOK

LEMMA NextType == TypeOK /\ [Next]_vars => TypeOK'
<1> SUFFICES ASSUME TypeOK, [Next]_vars PROVE TypeOK'
  OBVIOUS
<1>1. CASE UNCHANGED vars
  BY <1>1 DEF vars, TypeOK
<1> QED
  BY <1>1, ProducingType, RecoverType, ClaimType, HandlingType, SettlingType DEF Next, Claiming

\* Rows, claims and the workers' memories keep their types, whatever crashes and
\* lost answers occur.
THEOREM TypeCorrect == Spec => []TypeOK
  BY InitType, NextType, PTL DEF Spec

-----------------------------------------------------------------------------
(* Fencing.  Every step either claims a batch or does to each event one of   *)
(* five things (EventStep); the invariants are proved from that.             *)

\* What a step other than a claim does to an event.

SameDelivery(e) ==
  event'[e].version = event[e].version /\ event'[e].attempts = event[e].attempts

Kept(e) ==
  SameDelivery(e) /\ event'[e].status = event[e].status /\ spared'[e] = spared[e]
Queued(e) ==
  /\ event[e].status = "absent" /\ event'[e].status = "pending"
  /\ SameDelivery(e) /\ spared'[e] = spared[e]
Requeued(e) ==
  /\ event[e].status = "dead_letter" /\ event'[e].status = "pending"
  /\ event'[e].version = event[e].version /\ event'[e].attempts = 0 /\ spared'[e] = 0
Recovered(e) ==
  /\ event[e].status = "processing" /\ event'[e].status = "retry_wait"
  /\ SameDelivery(e) /\ spared'[e] = spared[e] + 1
SettledBy(e, w, c) ==
  /\ c.event = e /\ Current(c) /\ SameDelivery(e)
  /\ \/ /\ event'[e].status = "processed" /\ spared'[e] = spared[e]
        /\ worker[w].step = "returned" /\ c = worker[w].current
     \/ event'[e].status = "dead_letter" /\ spared'[e] = spared[e]
     \/ event'[e].status = "retry_wait" /\ spared'[e] = spared[e] + 1
     \/ event'[e].status = "retry_wait" /\ spared'[e] = spared[e] /\ c.attempts < MaxAttempts

EventStep(e) ==
  \/ Kept(e) \/ Queued(e) \/ Requeued(e) \/ Recovered(e)
  \/ \E w \in Worker : \E c \in worker[w].batch : SettledBy(e, w, c)

\* What it does to the workers: their batches shrink, and one that has just
\* finished a handler has recorded it.
WorkerStep(w) ==
  /\ worker'[w].batch \subseteq worker[w].batch
  /\ worker'[w].step = "returned" =>
       \/ worker[w].step = "returned" /\ worker'[w].current = worker[w].current
       \/ worker'[w].current \in handled'

Undrawn ==
  /\ claims' = claims /\ handled \subseteq handled'
  /\ \A e \in Event : EventStep(e)
  /\ \A w \in Worker : WorkerStep(w)

-----------------------------------------------------------------------------
LEMMA RowFacts ==
  ASSUME TypeOK, NEW e \in Event
  PROVE  /\ event[e] \in EventRow
         /\ event[e].attempts \in Nat /\ event[e].version \in Nat
         /\ spared[e] \in Nat
  BY DEF TypeOK, EventRow

LEMMA SettledOne ==
  ASSUME TypeOK, NEW c \in Claim, NEW status
  PROVE  /\ ~Current(c) => Settled(c, status) = event
         /\ \A e \in Event : e # c.event => Settled(c, status)[e] = event[e]
         /\ Current(c) => /\ Settled(c, status)[c.event].status = status
                          /\ Settled(c, status)[c.event].version = event[c.event].version
                          /\ Settled(c, status)[c.event].attempts = event[c.event].attempts
<1>1. c.event \in Event
  BY DEF Claim
<1>2. event[c.event] \in EventRow
  BY <1>1, RowFacts
<1> QED
  BY <1>1, <1>2 DEF Settled, TypeOK, EventRow

LEMMA EventsAlone ==
  ASSUME TypeOK, event' = event, spared' = spared
  PROVE  \A e \in Event : EventStep(e)
  BY DEF EventStep, Kept, SameDelivery

LEMMA WorkersAlone ==
  ASSUME worker' = worker
  PROVE  \A w \in Worker : WorkerStep(w)
  BY DEF WorkerStep

\* One worker moves; its row is known.
LEMMA OneWorker ==
  ASSUME TypeOK, NEW w \in Worker, NEW r, worker' = [worker EXCEPT ![w] = r],
         r.batch \subseteq worker[w].batch,
         r.step = "returned" => r.current \in handled'
  PROVE  \A v \in Worker : WorkerStep(v)
<1> SUFFICES ASSUME NEW v \in Worker PROVE WorkerStep(v)
  OBVIOUS
<1>1. CASE v = w
  <2>1. worker'[v] = r
    BY <1>1 DEF TypeOK
  <2> QED
    BY <1>1, <2>1 DEF WorkerStep
<1>2. CASE v # w
  <2>1. worker'[v] = worker[v]
    BY <1>2 DEF TypeOK
  <2> QED
    BY <2>1 DEF WorkerStep
<1> QED
  BY <1>1, <1>2

\* A settlement that was applied or not, with the retries it spares.
LEMMA OneSettled ==
  ASSUME TypeOK, NEW w \in Worker, NEW c \in worker[w].batch, NEW status,
         event' \in {event, Settled(c, status)},
         event' = event => spared' = spared,
         \A e \in Event : e # c.event => spared'[e] = spared[e],
         event' # event =>
           \/ /\ status = "processed" /\ spared' = spared
              /\ worker[w].step = "returned" /\ c = worker[w].current
           \/ status = "dead_letter" /\ spared' = spared
           \/ status = "retry_wait" /\ spared'[c.event] = spared[c.event] + 1
           \/ status = "retry_wait" /\ spared' = spared /\ c.attempts < MaxAttempts
  PROVE  \A e \in Event : EventStep(e)
<1>1. c \in Claim
  BY WorkerFacts
<1>2. CASE event' = event
  BY <1>2, EventsAlone
<1>3. CASE event' # event
  <2>1. event' = Settled(c, status) /\ Current(c)
    BY <1>1, <1>3, SettledOne
  <2>2. ASSUME NEW e \in Event, e # c.event PROVE EventStep(e)
    <3>1. event'[e] = event[e] /\ spared'[e] = spared[e]
      BY <1>1, <2>1, <2>2, SettledOne
    <3> QED
      BY <3>1 DEF EventStep, Kept, SameDelivery
  <2>3. ASSUME NEW e \in Event, e = c.event PROVE EventStep(e)
    <3>1. SameDelivery(e) /\ event'[e].status = status
      BY <1>1, <2>1, <2>3, SettledOne DEF SameDelivery
    <3>2. SettledBy(e, w, c)
      BY <1>3, <2>1, <2>3, <3>1 DEF SettledBy
    <3> QED
      BY <3>2 DEF EventStep
  <2> QED
    BY <2>2, <2>3
<1> QED
  BY <1>2, <1>3

-----------------------------------------------------------------------------
(* Every action but a claim is such a step. *)

LEMMA ProducingStep ==
  ASSUME TypeOK, NEW d \in Event,
         Enqueue(d) \/ RetryDeadLetter(d) \/ ClaimExpires(d) \/ RetryDue(d)
  PROVE  Undrawn
<1>1. event[d] \in EventRow
  BY RowFacts
<1>2. claims' = claims /\ handled' = handled /\ worker' = worker
  BY DEF Enqueue, RetryDeadLetter, ClaimExpires, RetryDue
<1>3. ASSUME NEW e \in Event, e # d PROVE EventStep(e)
  <2>1. event'[e] = event[e] /\ spared'[e] = spared[e]
    BY <1>3 DEF Enqueue, RetryDeadLetter, ClaimExpires, RetryDue, TypeOK
  <2> QED
    BY <2>1 DEF EventStep, Kept, SameDelivery
<1>4. CASE Enqueue(d)
  <2>1. Queued(d)
    BY <1>1, <1>4 DEF Enqueue, Queued, SameDelivery, TypeOK, EventRow
  <2> QED
    BY <1>2, <1>3, <2>1, WorkersAlone DEF EventStep, Undrawn
<1>5. CASE RetryDeadLetter(d)
  <2>1. Requeued(d)
    BY <1>1, <1>5 DEF RetryDeadLetter, Requeued, TypeOK, EventRow
  <2> QED
    BY <1>2, <1>3, <2>1, WorkersAlone DEF EventStep, Undrawn
<1>6. CASE ClaimExpires(d) \/ RetryDue(d)
  <2>1. Kept(d)
    BY <1>1, <1>6 DEF ClaimExpires, RetryDue, Kept, SameDelivery, TypeOK, EventRow
  <2> QED
    BY <1>2, <1>3, <2>1, WorkersAlone DEF EventStep, Undrawn
<1> QED
  BY <1>4, <1>5, <1>6

LEMMA RecoverStep ==
  ASSUME TypeOK, NEW w \in Worker, NEW d \in Event, Recover(w, d)
  PROVE  Undrawn
<1>1. event[d] \in EventRow /\ spared \in [Event -> Nat]
  BY RowFacts DEF TypeOK
<1>2. claims' = claims /\ handled' = handled /\ worker' = worker
  BY DEF Recover
<1>3. ASSUME NEW e \in Event, e # d PROVE Kept(e)
  BY <1>3 DEF Recover, TypeOK, Kept, SameDelivery
<1>4. Recovered(d)
  BY <1>1 DEF Recover, Recoverable, Recovered, SameDelivery, TypeOK, EventRow
<1> QED
  BY <1>2, <1>3, <1>4, WorkersAlone DEF EventStep, Undrawn

LEMMA QuarantineStep ==
  ASSUME TypeOK, NEW w \in Worker, NEW c \in worker[w].batch,
         Quarantine(w, c) \/ QuarantineFails(w, c)
  PROVE  Undrawn
<1>1. /\ event' \in {event, Settled(c, "dead_letter")} /\ spared' = spared
      /\ claims' = claims /\ handled' = handled
  BY DEF Quarantine, QuarantineFails, LostAnswer
<1>2. \A e \in Event : EventStep(e)
  BY <1>1, OneSettled
<1>3. PICK r \in {Remaining(w, c), IdleWorker} : worker' = [worker EXCEPT ![w] = r]
  BY DEF Quarantine, QuarantineFails
<1>4. r.batch \subseteq worker[w].batch /\ r.step # "returned"
  <2>1. Remaining(w, c).batch \subseteq worker[w].batch /\ Remaining(w, c).step # "returned"
    BY RemainingRow
  <2>2. IdleWorker.batch = {} /\ IdleWorker.step = "idle"
    BY DEF IdleWorker
  <2> QED
    BY <1>3, <2>1, <2>2
<1>5. \A v \in Worker : WorkerStep(v)
  BY <1>3, <1>4, OneWorker
<1> QED
  BY <1>1, <1>2, <1>5 DEF Undrawn

LEMMA HandlerStep ==
  ASSUME TypeOK, NEW w \in Worker,
         \/ \E c \in worker[w].batch : StartHandling(w, c)
         \/ Renew(w) \/ RenewFails(w)
         \/ HandlerReturns(w) \/ HandlerThrows(w) \/ HandlerReconciles(w)
  PROVE  Undrawn
<1> DEFINE c == worker[w].current
<1>1. spared' = spared /\ claims' = claims /\ handled \subseteq handled'
  BY DEF StartHandling, Renew, RenewFails, HandlerReturns, HandlerThrows, HandlerReconciles
<1>2. worker[w].step = "handling" => c \in Claim /\ c \in worker[w].batch
  BY CurrentHeld
<1>3. \A e \in Event : EventStep(e)
  <2>1. CASE event' = event
    BY <1>1, <2>1, EventsAlone
  <2>2. CASE Renew(w) \/ RenewFails(w)
    <3>1. event' \in {event, Renewed(c)} /\ c \in Claim
      BY <1>2, <2>2 DEF Renew, RenewFails
    <3> HIDE DEF c
    <3>2. \A e \in Event : Kept(e)
      BY <1>1, <3>1, RenewedRows DEF Kept, SameDelivery
    <3> QED
      BY <3>2 DEF EventStep
  <2> QED
    BY <2>1, <2>2 DEF StartHandling, HandlerReturns, HandlerThrows, HandlerReconciles
<1>5. \A v \in Worker : WorkerStep(v)
  <2>1. ASSUME NEW d \in worker[w].batch, StartHandling(w, d)
        PROVE  \A v \in Worker : WorkerStep(v)
    <3> DEFINE r == [worker[w] EXCEPT !.step = "handling", !.current = d]
    <3>1. worker' = [worker EXCEPT ![w] = r]
      BY <2>1 DEF StartHandling, TypeOK
    <3>2. r.batch = worker[w].batch /\ r.step = "handling"
      BY <2>1, WorkerFacts DEF StartHandling
    <3> HIDE DEF r
    <3> QED
      BY <3>1, <3>2, OneWorker
  <2>2. CASE Renew(w) \/ RenewFails(w)
    <3>1. PICK b : worker' = [worker EXCEPT ![w].stale = b]
      BY <2>2 DEF Renew, RenewFails
    <3> DEFINE r == [worker[w] EXCEPT !.stale = b]
    <3>2. worker' = [worker EXCEPT ![w] = r]
      BY <3>1 DEF TypeOK
    <3>3. r.batch = worker[w].batch /\ r.step = "handling"
      BY <2>2, WorkerFacts DEF Renew, RenewFails
    <3> HIDE DEF r
    <3> QED
      BY <3>2, <3>3, OneWorker
  <2>3. CASE HandlerThrows(w) \/ HandlerReconciles(w)
    <3>1. PICK error : worker' = [worker EXCEPT ![w].step = "threw", ![w].error = error]
      BY <2>3 DEF HandlerThrows, HandlerReconciles
    <3> DEFINE r == [worker[w] EXCEPT !.step = "threw", !.error = error]
    <3>2. worker' = [worker EXCEPT ![w] = r]
      BY <3>1 DEF TypeOK
    <3>3. r.batch = worker[w].batch /\ r.step = "threw"
      BY <2>3, WorkerFacts DEF HandlerThrows, HandlerReconciles
    <3> HIDE DEF r
    <3> QED
      BY <3>2, <3>3, OneWorker
  <2>4. CASE HandlerReturns(w)
    <3> DEFINE done == [worker[w] EXCEPT !.step = "returned"]
               r == IF worker[w].stale THEN Remaining(w, c) ELSE done
    <3>1. worker' = [worker EXCEPT ![w] = r]
      BY <2>4 DEF HandlerReturns, TypeOK
    <3>2. done.batch = worker[w].batch /\ done.current = c
      BY <2>4, WorkerFacts DEF HandlerReturns
    <3>3. c \in handled'
      BY <2>4 DEF HandlerReturns
    <3>4. Remaining(w, c).batch \subseteq worker[w].batch /\ Remaining(w, c).step # "returned"
      BY <1>2, <2>4, RemainingRow DEF HandlerReturns
    <3> HIDE DEF done, c
    <3>5. r.batch \subseteq worker[w].batch /\ (r.step = "returned" => r.current \in handled')
      BY <3>2, <3>3, <3>4
    <3> HIDE DEF r
    <3> QED
      BY <3>1, <3>5, OneWorker
  <2> QED
    BY <2>1, <2>2, <2>3, <2>4
<1> QED
  BY <1>1, <1>3, <1>5 DEF Undrawn

LEMMA SettlingStep ==
  ASSUME TypeOK, NEW w \in Worker, Settling(w) \/ Crash(w)
  PROVE  Undrawn
<1> DEFINE c == worker[w].current
<1>1. claims' = claims /\ handled' = handled
  BY DEF Settling, MarkProcessed, MarkProcessedFails, SettleError, SettleFails, Crash
<1>2. Settling(w) => c \in worker[w].batch /\ c \in Claim
  BY CurrentHeld DEF Settling, MarkProcessed, MarkProcessedFails, SettleError, SettleFails
<1>3. \A e \in Event : EventStep(e)
  <2>1. CASE MarkProcessed(w) \/ MarkProcessedFails(w)
    <3>1. /\ event' \in {event, Settled(c, "processed")} /\ spared' = spared
          /\ worker[w].step = "returned"
      BY <2>1 DEF MarkProcessed, MarkProcessedFails, LostAnswer
    <3>2. c \in worker[w].batch /\ c = worker[w].current
      BY <1>2, <2>1 DEF Settling
    <3> HIDE DEF c
    <3> QED
      BY <3>1, <3>2, OneSettled
  <2>2. CASE SettleError(w) \/ SettleFails(w)
    <3> DEFINE status == Verdict(w)
    <3>1. event' \in {event, Settled(c, status)} /\ Sparing(w) /\ worker[w].step = "threw"
      BY <2>2 DEF SettleError, SettleFails, LostAnswer
    <3>2. c \in worker[w].batch /\ c \in Claim
      BY <1>2, <2>2 DEF Settling
    <3>3. c.event \in Event /\ c.attempts \in Nat /\ spared \in [Event -> Nat]
      BY <3>2 DEF Claim, TypeOK
    <3>4. worker[w].error \in ErrorKind
      BY <3>1, WorkerFacts
    <3>5. CASE worker[w].error = "reconciling" /\ event' # event
      <4>1. spared' = [spared EXCEPT ![c.event] = @ + 1]
        BY <3>1, <3>5 DEF Sparing
      <4>2. status = "retry_wait"
        BY <3>5 DEF Verdict
      <4> HIDE DEF c, status
      <4>3. spared'[c.event] = spared[c.event] + 1
            /\ \A e \in Event : e # c.event => spared'[e] = spared[e]
        BY <3>3, <4>1
      <4> QED
        BY <3>1, <3>2, <3>5, <4>2, <4>3, OneSettled
    <3>6. CASE ~(worker[w].error = "reconciling" /\ event' # event)
      <4>1. spared' = spared
        BY <3>1, <3>6 DEF Sparing
      <4>2. event' # event => status = "dead_letter" \/ (status = "retry_wait" /\ c.attempts < MaxAttempts)
        BY <3>3, <3>4, <3>6, BoundAssumption DEF Verdict, OutOfAttempts, ErrorKind
      <4> HIDE DEF c, status
      <4> QED
        BY <3>1, <3>2, <4>1, <4>2, OneSettled
    <3> QED
      BY <3>5, <3>6
  <2>3. CASE Crash(w)
    BY <2>3, EventsAlone DEF Crash
  <2> QED
    BY <2>1, <2>2, <2>3 DEF Settling
<1>4. \A v \in Worker : WorkerStep(v)
  <2>1. CASE MarkProcessed(w) \/ SettleError(w)
    <3>1. worker' = [worker EXCEPT ![w] = Remaining(w, c)]
      BY <2>1 DEF MarkProcessed, SettleError
    <3>2. Remaining(w, c).batch \subseteq worker[w].batch /\ Remaining(w, c).step # "returned"
      BY <1>2, <2>1, RemainingRow DEF Settling
    <3> QED
      BY <3>1, <3>2, OneWorker
  <2>2. CASE SettleFails(w) \/ Crash(w)
    <3>1. worker' = [worker EXCEPT ![w] = IdleWorker]
      BY <2>2 DEF SettleFails, Crash
    <3>2. IdleWorker.batch = {} /\ IdleWorker.step = "idle"
      BY DEF IdleWorker
    <3> QED
      BY <3>1, <3>2, OneWorker
  <2>3. CASE MarkProcessedFails(w)
    <3> DEFINE r == [worker[w] EXCEPT !.step = "threw", !.error = "retryable"]
    <3>1. worker' = [worker EXCEPT ![w] = r]
      BY <2>3 DEF MarkProcessedFails, TypeOK
    <3>2. r.batch = worker[w].batch /\ r.step = "threw"
      BY <2>3, WorkerFacts DEF MarkProcessedFails
    <3> HIDE DEF r
    <3> QED
      BY <3>1, <3>2, OneWorker
  <2> QED
    BY <2>1, <2>2, <2>3 DEF Settling
<1> QED
  BY <1>1, <1>3, <1>4 DEF Undrawn

LEMMA Steps ==
  ASSUME TypeOK, [Next]_vars
  PROVE  Undrawn \/ \E w \in Worker : \E locked \in SUBSET Event : ClaimBatch(w, locked)
<1>1. CASE UNCHANGED vars
  <2>1. event' = event /\ spared' = spared /\ worker' = worker /\ claims' = claims
        /\ handled' = handled
    BY <1>1 DEF vars
  <2> QED
    BY <2>1, EventsAlone, WorkersAlone DEF Undrawn
<1> QED
  BY <1>1, ProducingStep, RecoverStep, QuarantineStep, HandlerStep, SettlingStep
  DEF Next, Claiming, Handling

-----------------------------------------------------------------------------
(* Claims are exclusive: versions come from a sequence that only grows. *)

ClaimsDrawn == \A e \in Event : event[e].version <= claims
ExclusiveInv == TypeOK /\ ClaimsDrawn /\ ClaimsExclusive

LEMMA InitExclusive == Init => ExclusiveInv
<1> SUFFICES ASSUME Init PROVE ClaimsDrawn /\ ClaimsExclusive
  BY InitType DEF ExclusiveInv
<1>1. \A w \in Worker : worker[w].batch = {}
  BY DEF Init, IdleWorker
<1>2. \A e \in Event : event[e].version = 0 /\ claims = 0
  BY DEF Init, AbsentEvent
<1> QED
  BY <1>1, <1>2 DEF ClaimsDrawn, ClaimsExclusive

LEMMA UndrawnVersions ==
  ASSUME Undrawn, NEW e \in Event
  PROVE  event'[e].version = event[e].version
  BY DEF Undrawn, EventStep, Kept, Queued, Requeued, Recovered, SettledBy, SameDelivery

LEMMA HeldClaims ==
  ASSUME ExclusiveInv, NEW w \in Worker, NEW c \in worker[w].batch
  PROVE  /\ c.event \in Event /\ c.version \in Nat /\ c.version <= claims
         /\ c.version <= event[c.event].version
<1>1. c.event \in Event /\ c.version \in Nat
  BY WorkerFacts DEF ExclusiveInv, Claim
<1>2. event[c.event].version \in Nat /\ claims \in Nat
  BY <1>1, RowFacts DEF ExclusiveInv, TypeOK
<1> QED
  BY <1>1, <1>2 DEF ExclusiveInv, ClaimsDrawn, ClaimsExclusive

\* The workers and rows after a claim.
Claimed(w, batch, version) ==
  /\ \A v \in Worker : v # w => worker'[v] = worker[v]
  /\ worker'[w].step = "batch"
  /\ \A c \in worker'[w].batch :
       /\ c.event \in batch /\ c.version = version[c.event]
       /\ c.attempts = event[c.event].attempts + 1
  /\ \A e \in batch :
       /\ event'[e].status = "processing" /\ event'[e].version = version[e]
       /\ event'[e].attempts = event[e].attempts + 1
       /\ version[e] \in Nat /\ version[e] > claims /\ version[e] <= claims'
       /\ event[e].status \in {"pending", "retry_wait"}
  /\ \A e \in Event \ batch : event'[e] = event[e]
  /\ claims \in Nat /\ claims' \in Nat /\ claims <= claims'
  /\ handled' = handled /\ spared' = spared

LEMMA AfterClaim ==
  ASSUME TypeOK, NEW w \in Worker, NEW batch \in SUBSET Event, NEW version,
         Claims(w, batch, version)
  PROVE  Claimed(w, batch, version)
<1> DEFINE mine == {[event |-> e, version |-> version[e],
                     attempts |-> event[e].attempts + 1] : e \in batch}
<1>1. worker' = [worker EXCEPT ![w] = WithBatch(mine)]
  BY DEF Claims
<1>2. \A c \in mine : /\ c.event \in batch /\ c.version = version[c.event]
                      /\ c.attempts = event[c.event].attempts + 1
  OBVIOUS
<1> HIDE DEF mine
<1>3. worker'[w].batch = mine /\ worker'[w].step = "batch"
  BY <1>1 DEF WithBatch, TypeOK
<1>4. \A v \in Worker : v # w => worker'[v] = worker[v]
  BY <1>1 DEF TypeOK
<1>5. \A e \in batch : event[e].status \in {"pending", "retry_wait"}
  BY ClaimableEvents DEF Claims
<1>6. /\ \A e \in batch :
           /\ event'[e].status = "processing" /\ event'[e].version = version[e]
           /\ event'[e].attempts = event[e].attempts + 1
      /\ \A e \in Event \ batch : event'[e] = event[e]
  BY DEF Claims
<1>7. \A e \in batch : version[e] \in Nat /\ version[e] > claims /\ version[e] <= claims'
  BY DEF Claims
<1>8. /\ claims \in Nat /\ claims' \in Nat /\ claims <= claims'
      /\ handled' = handled /\ spared' = spared
  BY DEF Claims, TypeOK
<1> QED
  BY <1>2, <1>3, <1>4, <1>5, <1>6, <1>7, <1>8 DEF Claimed

LEMMA NextExclusive ==
  ASSUME ExclusiveInv, [Next]_vars
  PROVE  ExclusiveInv'
<1>1. TypeOK /\ TypeOK'
  BY NextType DEF ExclusiveInv
<1>2. CASE Undrawn
  <2>1. ClaimsDrawn'
    BY <1>2, UndrawnVersions DEF ExclusiveInv, ClaimsDrawn, Undrawn
  <2>2. \A w \in Worker : worker'[w].batch \subseteq worker[w].batch
    BY <1>2 DEF Undrawn, WorkerStep
  <2>3. \A v, w \in Worker : v # w =>
          \A c \in worker'[v].batch, d \in worker'[w].batch : c.version # d.version
    BY <2>2 DEF ExclusiveInv, ClaimsExclusive
  <2>4. ASSUME NEW w \in Worker, NEW c \in worker'[w].batch
        PROVE  c.version <= event'[c.event].version
    <3>1. c \in worker[w].batch
      BY <2>2
    <3>2. c.event \in Event /\ c.version <= event[c.event].version
      BY <3>1, HeldClaims
    <3> QED
      BY <1>2, <3>2, UndrawnVersions
  <2> QED
    BY <1>1, <2>1, <2>3, <2>4 DEF ExclusiveInv, ClaimsExclusive
<1>3. ASSUME NEW w \in Worker, NEW batch \in SUBSET Event, NEW version,
             Claimed(w, batch, version)
      PROVE  ExclusiveInv'
  <2>1. ClaimsDrawn'
    <3> SUFFICES ASSUME NEW e \in Event PROVE event'[e].version <= claims'
      BY DEF ClaimsDrawn
    <3>1. event[e].version \in Nat /\ event[e].version <= claims
      BY <1>1, RowFacts DEF ExclusiveInv, ClaimsDrawn
    <3> QED
      BY <1>3, <3>1 DEF Claimed
  <2>2. ASSUME NEW v \in Worker, v # w, NEW c \in worker'[v].batch
        PROVE  /\ c \in worker[v].batch /\ c.version \in Nat /\ c.version <= claims
               /\ c.event \in Event /\ c.version <= event'[c.event].version
    <3>1. c \in worker[v].batch
      BY <1>3, <2>2 DEF Claimed
    <3>2. /\ c.event \in Event /\ c.version \in Nat /\ c.version <= claims
          /\ c.version <= event[c.event].version
      BY <3>1, HeldClaims
    <3>3. CASE c.event \in batch
      BY <1>3, <3>1, <3>2, <3>3 DEF Claimed
    <3>4. CASE c.event \notin batch
      BY <1>3, <3>1, <3>2, <3>4 DEF Claimed
    <3> QED
      BY <3>3, <3>4
  <2>3. ASSUME NEW d \in worker'[w].batch
        PROVE  /\ d.version \in Nat /\ d.version > claims
               /\ d.version = event'[d.event].version
    BY <1>3 DEF Claimed
  <2>4. ASSUME NEW u \in Worker, NEW v \in Worker, u # v,
               NEW c \in worker'[u].batch, NEW d \in worker'[v].batch
        PROVE  c.version # d.version
    <3>1. claims \in Nat
      BY <1>1 DEF TypeOK
    <3>2. CASE u = w
      BY <2>2, <2>3, <2>4, <3>1, <3>2
    <3>3. CASE v = w
      BY <2>2, <2>3, <2>4, <3>1, <3>3
    <3>4. CASE u # w /\ v # w
      BY <2>2, <2>4, <3>4 DEF ExclusiveInv, ClaimsExclusive
    <3> QED
      BY <3>2, <3>3, <3>4
  <2>5. ASSUME NEW v \in Worker, NEW c \in worker'[v].batch
        PROVE  c.version <= event'[c.event].version
    <3>1. CASE v = w
      BY <2>3, <2>5, <3>1
    <3>2. CASE v # w
      BY <2>2, <2>5, <3>2
    <3> QED
      BY <3>1, <3>2
  <2> QED
    BY <1>1, <2>1, <2>4, <2>5 DEF ExclusiveInv, ClaimsExclusive
<1> QED
  BY <1>1, <1>2, <1>3, Steps, ClaimFacts, AfterClaim

\* claimDue and recoverStaleProcessing never leave one claim to two workers: no
\* two workers hold the same version, and a row's version is never behind one
\* that somebody holds.
THEOREM ClaimsAreExclusive == Spec => []ClaimsExclusive
<1>1. ExclusiveInv => ClaimsExclusive
  BY DEF ExclusiveInv
<1>2. ExclusiveInv /\ [Next]_vars => ExclusiveInv'
  BY NextExclusive
<1> QED
  BY InitExclusive, <1>1, <1>2, PTL DEF Spec

-----------------------------------------------------------------------------
(* Acknowledgement: what a worker holds matches the row while the claim is *)
(* current.                                                                *)

HeldMatches ==
  \A w \in Worker : \A c \in worker[w].batch :
    Current(c) => event[c.event].attempts = c.attempts
ReturnedHandled ==
  \A w \in Worker : worker[w].step = "returned" => worker[w].current \in handled
FenceInv == ExclusiveInv /\ HeldMatches /\ ReturnedHandled /\ ProcessedWasHandled

LEMMA InitFence == Init => FenceInv
<1> SUFFICES ASSUME Init PROVE HeldMatches /\ ReturnedHandled /\ ProcessedWasHandled
  BY InitExclusive DEF FenceInv
<1>1. \A w \in Worker : worker[w].batch = {} /\ worker[w].step = "idle"
  BY DEF Init, IdleWorker
<1>2. \A e \in Event : event[e].status = "absent"
  BY DEF Init, AbsentEvent
<1> QED
  BY <1>1, <1>2 DEF HeldMatches, ReturnedHandled, ProcessedWasHandled

LEMMA UndrawnFence ==
  ASSUME FenceInv, Undrawn
  PROVE  HeldMatches' /\ ReturnedHandled' /\ ProcessedWasHandled'
<1>1. TypeOK /\ ExclusiveInv
  BY DEF FenceInv, ExclusiveInv
<1>2. \A w \in Worker : WorkerStep(w) /\ worker'[w].batch \subseteq worker[w].batch
  BY DEF Undrawn, WorkerStep
<1>3. HeldMatches'
  <2> SUFFICES ASSUME NEW w \in Worker, NEW c \in worker'[w].batch, Current(c)'
               PROVE  event'[c.event].attempts = c.attempts
    BY DEF HeldMatches
  <2>1. c \in worker[w].batch /\ c.event \in Event
    BY <1>1, <1>2, HeldClaims
  <2>2. event'[c.event].status = "processing" /\ event'[c.event].version = c.version
    BY DEF Current
  <2>3. EventStep(c.event)
    BY <2>1 DEF Undrawn
  <2>4. Kept(c.event)
    BY <2>2, <2>3 DEF EventStep, Queued, Requeued, Recovered, SettledBy
  <2>5. Current(c)
    BY <2>2, <2>4 DEF Kept, SameDelivery, Current
  <2> QED
    BY <2>1, <2>4, <2>5 DEF FenceInv, HeldMatches, Kept, SameDelivery
<1>4. ReturnedHandled'
  BY <1>2 DEF FenceInv, ReturnedHandled, WorkerStep, Undrawn
<1>5. ProcessedWasHandled'
  <2> SUFFICES ASSUME NEW e \in Event, event'[e].status = "processed"
               PROVE  [event |-> e, version |-> event'[e].version,
                       attempts |-> event'[e].attempts] \in handled'
    BY DEF ProcessedWasHandled
  <2>1. EventStep(e) /\ handled \subseteq handled'
    BY DEF Undrawn
  <2>2. CASE Kept(e)
    BY <2>1, <2>2 DEF Kept, SameDelivery, FenceInv, ProcessedWasHandled
  <2>3. ASSUME NEW w \in Worker, NEW c \in worker[w].batch, SettledBy(e, w, c)
        PROVE  [event |-> e, version |-> event'[e].version,
                attempts |-> event'[e].attempts] \in handled'
    <3>1. c.event = e /\ Current(c) /\ SameDelivery(e) /\ worker[w].step = "returned"
          /\ c = worker[w].current
      BY <2>3 DEF SettledBy
    <3>2. c \in handled
      BY <3>1 DEF FenceInv, ReturnedHandled
    <3>3. event[e].version = c.version /\ event[e].attempts = c.attempts
      BY <3>1 DEF FenceInv, HeldMatches, Current
    <3>4. c \in Claim
      BY <1>1, WorkerFacts
    <3>5. c = [event |-> e, version |-> event'[e].version, attempts |-> event'[e].attempts]
      BY <3>1, <3>3, <3>4 DEF SameDelivery, Claim
    <3> QED
      BY <2>1, <3>2, <3>5
  <2> QED
    BY <2>1, <2>2, <2>3 DEF EventStep, Queued, Requeued, Recovered
<1> QED
  BY <1>3, <1>4, <1>5

LEMMA ClaimFence ==
  ASSUME FenceInv, NEW w \in Worker, NEW batch \in SUBSET Event, NEW version,
         Claimed(w, batch, version)
  PROVE  HeldMatches' /\ ReturnedHandled' /\ ProcessedWasHandled'
<1>1. TypeOK /\ ExclusiveInv
  BY DEF FenceInv, ExclusiveInv
<1>2. HeldMatches'
  <2> SUFFICES ASSUME NEW v \in Worker, NEW c \in worker'[v].batch, Current(c)'
               PROVE  event'[c.event].attempts = c.attempts
    BY DEF HeldMatches
  <2>1. CASE v = w
    BY <2>1 DEF Claimed
  <2>2. CASE v # w
    <3>1. c \in worker[v].batch
      BY <2>2 DEF Claimed
    <3>2. c.event \in Event /\ c.version \in Nat /\ c.version <= claims
      BY <1>1, <3>1, HeldClaims
    <3>3. c.event \notin batch
      BY <3>2 DEF Claimed, Current
    <3>4. event'[c.event] = event[c.event]
      BY <3>2, <3>3 DEF Claimed
    <3> QED
      BY <3>1, <3>4 DEF Current, FenceInv, HeldMatches
  <2> QED
    BY <2>1, <2>2
<1>3. ReturnedHandled'
  <2> SUFFICES ASSUME NEW v \in Worker, worker'[v].step = "returned"
               PROVE  worker'[v].current \in handled'
    BY DEF ReturnedHandled
  <2>1. worker'[v] = worker[v] /\ handled' = handled
    BY DEF Claimed
  <2> QED
    BY <2>1 DEF FenceInv, ReturnedHandled
<1>4. ProcessedWasHandled'
  <2> SUFFICES ASSUME NEW e \in Event, event'[e].status = "processed"
               PROVE  [event |-> e, version |-> event'[e].version,
                       attempts |-> event'[e].attempts] \in handled'
    BY DEF ProcessedWasHandled
  <2>1. event'[e] = event[e] /\ handled' = handled
    BY DEF Claimed
  <2> QED
    BY <2>1 DEF FenceInv, ProcessedWasHandled
<1> QED
  BY <1>2, <1>3, <1>4

LEMMA NextFence ==
  ASSUME FenceInv, [Next]_vars
  PROVE  FenceInv'
<1>1. TypeOK /\ ExclusiveInv /\ ExclusiveInv'
  BY NextExclusive DEF FenceInv, ExclusiveInv
<1> QED
  BY <1>1, Steps, ClaimFacts, AfterClaim, UndrawnFence, ClaimFence DEF FenceInv

\* markProcessed acknowledges an event only for a handler that ran to its end
\* under the claim the row then had, whatever stale workers come back.
THEOREM AcknowledgedWasHandled == Spec => []ProcessedWasHandled
<1>1. FenceInv => ProcessedWasHandled
  BY DEF FenceInv
<1>2. FenceInv /\ [Next]_vars => FenceInv'
  BY NextFence
<1> QED
  BY InitFence, <1>1, <1>2, PTL DEF Spec

-----------------------------------------------------------------------------
(* Attempts: a queued event is at its start, a waiting one has an attempt left. *)

WaitingHasAttempt ==
  \A e \in Event :
    /\ event[e].status \in {"absent", "pending"} => event[e].attempts = 0
    /\ event[e].status = "retry_wait" => event[e].attempts < MaxAttempts + spared[e]
AttemptsInv == FenceInv /\ WaitingHasAttempt /\ AttemptsAccounted

LEMMA InitAttempts == Init => AttemptsInv
<1> SUFFICES ASSUME Init PROVE WaitingHasAttempt /\ AttemptsAccounted
  BY InitFence DEF AttemptsInv
<1>1. \A e \in Event : event[e].status = "absent" /\ event[e].attempts = 0 /\ spared[e] = 0
  BY DEF Init, AbsentEvent
<1> QED
  BY <1>1, BoundAssumption DEF WaitingHasAttempt, AttemptsAccounted

LEMMA NextAttempts ==
  ASSUME AttemptsInv, [Next]_vars
  PROVE  AttemptsInv'
<1>1. TypeOK /\ FenceInv /\ FenceInv'
  BY NextFence DEF AttemptsInv, FenceInv, ExclusiveInv
<1>2. ASSUME NEW e \in Event
      PROVE  /\ event[e].attempts \in Nat /\ spared[e] \in Nat /\ MaxAttempts \in Nat \ {0}
             /\ event[e].status \in {"absent", "pending"} => event[e].attempts = 0
             /\ event[e].status = "retry_wait" => event[e].attempts < MaxAttempts + spared[e]
             /\ event[e].attempts <= MaxAttempts + spared[e]
  BY <1>1, RowFacts, BoundAssumption DEF AttemptsInv, WaitingHasAttempt, AttemptsAccounted
<1>3. CASE Undrawn
  <2> SUFFICES ASSUME NEW e \in Event
               PROVE  /\ event'[e].status \in {"absent", "pending"} => event'[e].attempts = 0
                      /\ event'[e].status = "retry_wait" =>
                           event'[e].attempts < MaxAttempts + spared'[e]
                      /\ event'[e].attempts <= MaxAttempts + spared'[e]
    BY <1>1 DEF AttemptsInv, WaitingHasAttempt, AttemptsAccounted
  <2>1. EventStep(e)
    BY <1>3 DEF Undrawn
  <2>2. CASE Kept(e)
    BY <1>2, <2>2 DEF Kept, SameDelivery
  <2>3. CASE Queued(e)
    BY <1>2, <2>3 DEF Queued, SameDelivery
  <2>4. CASE Requeued(e)
    BY <1>2, <2>4 DEF Requeued
  <2>5. CASE Recovered(e)
    BY <1>2, <2>5 DEF Recovered, SameDelivery
  <2>6. ASSUME NEW w \in Worker, NEW c \in worker[w].batch, SettledBy(e, w, c)
        PROVE  /\ event'[e].status \in {"absent", "pending"} => event'[e].attempts = 0
               /\ event'[e].status = "retry_wait" =>
                    event'[e].attempts < MaxAttempts + spared'[e]
               /\ event'[e].attempts <= MaxAttempts + spared'[e]
    <3>1. event[e].attempts = c.attempts
      BY <1>1, <2>6 DEF SettledBy, FenceInv, HeldMatches
    <3> QED
      BY <1>2, <2>6, <3>1 DEF SettledBy, SameDelivery
  <2> QED
    BY <2>1, <2>2, <2>3, <2>4, <2>5, <2>6 DEF EventStep
<1>4. ASSUME NEW w \in Worker, NEW batch \in SUBSET Event, NEW version,
             Claimed(w, batch, version)
      PROVE  AttemptsInv'
  <2> SUFFICES ASSUME NEW e \in Event
               PROVE  /\ event'[e].status \in {"absent", "pending"} => event'[e].attempts = 0
                      /\ event'[e].status = "retry_wait" =>
                           event'[e].attempts < MaxAttempts + spared'[e]
                      /\ event'[e].attempts <= MaxAttempts + spared'[e]
    BY <1>1 DEF AttemptsInv, WaitingHasAttempt, AttemptsAccounted
  <2>1. spared' = spared
    BY <1>4 DEF Claimed
  <2>2. CASE e \in batch
    <3>1. /\ event'[e].status = "processing" /\ event'[e].attempts = event[e].attempts + 1
          /\ event[e].status \in {"pending", "retry_wait"}
      BY <1>4, <2>2 DEF Claimed
    <3> QED
      BY <1>2, <2>1, <3>1
  <2>3. CASE e \notin batch
    <3>1. event'[e] = event[e]
      BY <1>4, <2>3 DEF Claimed
    <3> QED
      BY <1>2, <2>1, <3>1
  <2> QED
    BY <2>2, <2>3
<1> QED
  BY <1>1, <1>3, <1>4, Steps, ClaimFacts, AfterClaim

\* Attempts beyond maxAttempts are takeovers of claims that expired or retries a
\* reconciling handler asked for: processOutboxBatch adds none of its own.
THEOREM AttemptsAreAccounted == Spec => []AttemptsAccounted
<1>1. AttemptsInv => AttemptsAccounted
  BY DEF AttemptsInv
<1>2. AttemptsInv /\ [Next]_vars => AttemptsInv'
  BY NextAttempts
<1> QED
  BY InitAttempts, <1>1, <1>2, PTL DEF Spec

-----------------------------------------------------------------------------
(* Who may change a row.  An event that is being processed is changed by a   *)
(* worker that holds its current claim, by a recovery once the claim has     *)
(* expired, or only in whether it has expired; one that is settled, by an    *)
(* operator.                                                                 *)

Unexpired(row) == [row EXCEPT !.expired = FALSE]

RowStep(e) ==
  \/ event'[e] = event[e]
  \/ event[e].status \in {"absent", "pending", "retry_wait"}
  \/ event[e].status = "dead_letter" /\ event'[e].status = "pending" /\ event'[e].attempts = 0
  \/ event[e].status = "processing" /\ event[e].expired
  \/ event[e].status = "processing" /\ Unexpired(event'[e]) = Unexpired(event[e])
  \/ \E w \in Worker : \E c \in worker[w].batch :
       c.event = e /\ Current(c) /\ worker'[w] # worker[w]

LEMMA SettledRowStep ==
  ASSUME TypeOK, NEW w \in Worker, NEW c \in worker[w].batch, NEW status,
         event' \in {event, Settled(c, status)}, worker'[w] # worker[w]
  PROVE  \A e \in Event : RowStep(e)
<1> SUFFICES ASSUME NEW e \in Event, event'[e] # event[e] PROVE RowStep(e)
  BY DEF RowStep
<1>1. c \in Claim
  BY WorkerFacts
<1>2. e = c.event /\ Current(c)
  BY <1>1, SettledOne
<1> QED
  BY <1>2 DEF RowStep

LEMMA RemainingDiffers ==
  ASSUME NEW w \in Worker, NEW c \in worker[w].batch
  PROVE  Remaining(w, c) # worker[w] /\ IdleWorker # worker[w]
<1>1. IdleWorker.batch = {} /\ WithBatch(worker[w].batch \ {c}).batch = worker[w].batch \ {c}
  BY DEF IdleWorker, WithBatch
<1> QED
  BY <1>1 DEF Remaining

LEMMA RenewedRowStep ==
  ASSUME TypeOK, NEW w \in Worker, Renew(w) \/ RenewFails(w)
  PROVE  \A e \in Event : RowStep(e)
<1> SUFFICES ASSUME NEW e \in Event, event'[e] # event[e] PROVE RowStep(e)
  BY DEF RowStep
<1>1. PICK c \in Claim : event' \in {event, Renewed(c)}
  BY CurrentHeld DEF Renew, RenewFails
<1>2. event \in [Event -> EventRow] /\ event[e] \in EventRow /\ c.event \in Event
  BY <1>1 DEF TypeOK, Claim
<1>3. Current(c) /\ event' = [event EXCEPT ![c.event].expired = FALSE]
  BY <1>1 DEF Renewed
<1>4. e = c.event /\ event'[e] = [event[e] EXCEPT !.expired = FALSE]
  BY <1>2, <1>3
<1>5. Unexpired(event'[e]) = Unexpired(event[e])
  BY <1>2, <1>4 DEF Unexpired, EventRow
<1> QED
  BY <1>3, <1>4, <1>5 DEF RowStep, Current

LEMMA EveryRowStep ==
  ASSUME TypeOK, [Next]_vars
  PROVE  \A e \in Event : RowStep(e)
<1>0. event \in [Event -> EventRow] /\ worker \in [Worker -> WorkerRow]
  BY DEF TypeOK
<1>1. ASSUME event' = event PROVE \A e \in Event : RowStep(e)
  BY <1>1 DEF RowStep
<1>2. ASSUME NEW d \in Event, Enqueue(d) \/ RetryDeadLetter(d) \/ ClaimExpires(d) \/ RetryDue(d)
      PROVE  \A e \in Event : RowStep(e)
  <2>1. \A e \in Event : e # d => event'[e] = event[e]
    BY <1>0, <1>2 DEF Enqueue, RetryDeadLetter, ClaimExpires, RetryDue
  <2>2. CASE Enqueue(d) \/ RetryDue(d)
    BY <2>1, <2>2 DEF RowStep, Enqueue, RetryDue
  <2>3. CASE RetryDeadLetter(d)
    <3>1. event'[d].status = "pending" /\ event'[d].attempts = 0 /\ event[d].status = "dead_letter"
      BY <1>0, <2>3 DEF RetryDeadLetter, EventRow
    <3> QED
      BY <2>1, <3>1 DEF RowStep
  <2>4. CASE ClaimExpires(d)
    <3>1. event[d] \in EventRow /\ event'[d] = [event[d] EXCEPT !.expired = TRUE]
      BY <1>0, <2>4 DEF ClaimExpires
    <3>2. Unexpired(event'[d]) = Unexpired(event[d]) /\ event[d].status = "processing"
      BY <2>4, <3>1 DEF ClaimExpires, Unexpired, EventRow
    <3> QED
      BY <2>1, <3>2 DEF RowStep
  <2> QED
    BY <1>2, <2>2, <2>3, <2>4
<1>3. ASSUME NEW w \in Worker, NEW d \in Event, Recover(w, d)
      PROVE  \A e \in Event : RowStep(e)
  <2>1. \A e \in Event : e # d => event'[e] = event[e]
    BY <1>0, <1>3 DEF Recover
  <2> QED
    BY <1>3, <2>1 DEF RowStep, Recover, Recoverable
<1>4. ASSUME NEW w \in Worker, NEW locked \in SUBSET Event, ClaimBatch(w, locked)
      PROVE  \A e \in Event : RowStep(e)
  <2>1. PICK batch \in SUBSET Event : \E version : Claimed(w, batch, version)
    BY <1>4, ClaimFacts, AfterClaim
  <2>2. /\ \A e \in batch : event[e].status \in {"pending", "retry_wait"}
        /\ \A e \in Event \ batch : event'[e] = event[e]
    BY <2>1 DEF Claimed
  <2> QED
    BY <2>2 DEF RowStep
<1>5. ASSUME NEW w \in Worker, NEW c \in worker[w].batch, Quarantine(w, c) \/ QuarantineFails(w, c)
      PROVE  \A e \in Event : RowStep(e)
  <2>1. event' \in {event, Settled(c, "dead_letter")} /\ worker'[w] \in {Remaining(w, c), IdleWorker}
    BY <1>0, <1>5 DEF Quarantine, QuarantineFails, LostAnswer
  <2> QED
    BY <2>1, SettledRowStep, RemainingDiffers
<1>6. ASSUME NEW w \in Worker, Settling(w)
      PROVE  \A e \in Event : RowStep(e)
  <2>1. PICK c \in worker[w].batch : c = worker[w].current
    BY <1>6, CurrentHeld DEF Settling, MarkProcessed, MarkProcessedFails, SettleError, SettleFails
  <2>2. PICK status : event' \in {event, Settled(c, status)}
    BY <1>6, <2>1
    DEF Settling, MarkProcessed, MarkProcessedFails, SettleError, SettleFails, LostAnswer
  <2>3. worker'[w] # worker[w]
    <3>1. CASE MarkProcessedFails(w)
      <4>1. worker'[w].step = "threw" /\ worker[w].step = "returned"
        BY <1>0, <3>1, WorkerFacts DEF MarkProcessedFails
      <4> QED
        BY <4>1
    <3>2. CASE MarkProcessed(w) \/ SettleError(w) \/ SettleFails(w)
      <4>1. worker'[w] \in {Remaining(w, c), IdleWorker}
        BY <1>0, <2>1, <3>2 DEF MarkProcessed, SettleError, SettleFails
      <4> QED
        BY <4>1, RemainingDiffers
    <3> QED
      BY <1>6, <3>1, <3>2 DEF Settling
  <2> QED
    BY <2>2, <2>3, SettledRowStep
<1>7. CASE UNCHANGED vars
  BY <1>1, <1>7 DEF vars
<1>8. ASSUME NEW w \in Worker, Crash(w) PROVE \A e \in Event : RowStep(e)
  BY <1>1, <1>8 DEF Crash
<1>9. ASSUME NEW w \in Worker, Handling(w) PROVE \A e \in Event : RowStep(e)
  BY <1>1, <1>5, <1>9, RenewedRowStep
  DEF Handling, StartHandling, HandlerReturns, HandlerThrows, HandlerReconciles
<1> QED
  BY <1>2, <1>3, <1>4, <1>6, <1>7, <1>8, <1>9 DEF Next, Claiming

\* A settled event stays settled, whatever late settlements and recoveries are
\* still under way; only retryDeadLetter queues a dead letter again.
THEOREM SettledHolds == Spec => SettledStays
<1> DEFINE A == \A e \in Event :
                  /\ event[e].status = "processed" => event'[e] = event[e]
                  /\ event[e].status = "dead_letter" =>
                       event'[e] = event[e] \/ (event'[e].status = "pending" /\ event'[e].attempts = 0)
<1>1. ASSUME ExclusiveInv, [Next]_vars, NEW e \in Event,
             event[e].status \in {"processed", "dead_letter"}
      PROVE  \/ event'[e] = event[e]
             \/ event[e].status = "dead_letter" /\ event'[e].status = "pending"
                /\ event'[e].attempts = 0
  BY <1>1, EveryRowStep DEF ExclusiveInv, RowStep, Current
<1>2. ExclusiveInv /\ [Next]_vars => [A]_vars
  BY <1>1
<1>3. ExclusiveInv /\ [Next]_vars => ExclusiveInv'
  BY NextExclusive
<1> QED
  BY <1>2, <1>3, InitExclusive, PTL DEF Spec, SettledStays

\* A claim that has not expired is its holder's: no recovery, no other worker
\* and no stale settlement changes the row.
THEOREM LiveClaimsHold == Spec => LiveClaimUndisturbed
<1> DEFINE A == \A w \in Worker : \A c \in worker[w].batch :
                  Current(c) /\ ~event[c.event].expired /\ worker'[w] = worker[w] =>
                    [event'[c.event] EXCEPT !.expired = FALSE] = event[c.event]
<1>1. ASSUME ExclusiveInv, [Next]_vars, NEW w \in Worker, NEW c \in worker[w].batch,
             Current(c), ~event[c.event].expired, worker'[w] = worker[w]
      PROVE  [event'[c.event] EXCEPT !.expired = FALSE] = event[c.event]
  <2>1. PICK e \in Event : e = c.event
    BY <1>1, HeldClaims
  <2>2. event[e] \in EventRow /\ RowStep(e) /\ event[e].status = "processing" /\ ~event[e].expired
    BY <1>1, <2>1, EveryRowStep, RowFacts DEF ExclusiveInv, Current
  <2>3. Unexpired(event[e]) = event[e]
    BY <2>2 DEF Unexpired, EventRow
  <2>4. ASSUME NEW v \in Worker, NEW d \in worker[v].batch, d.event = e, Current(d),
               worker'[v] # worker[v]
        PROVE  FALSE
    <3>1. v # w /\ d.version = c.version
      BY <1>1, <2>1, <2>4 DEF Current
    <3> QED
      BY <1>1, <2>4, <3>1 DEF ExclusiveInv, ClaimsExclusive
  <2>5. Unexpired(event'[e]) = event[e]
    BY <2>2, <2>3, <2>4 DEF RowStep
  <2> QED
    BY <2>1, <2>5 DEF Unexpired
<1>2. ExclusiveInv /\ [Next]_vars => [A]_vars
  BY <1>1
<1>3. ExclusiveInv /\ [Next]_vars => ExclusiveInv'
  BY NextExclusive
<1> QED
  BY <1>2, <1>3, InitExclusive, PTL DEF Spec, LiveClaimUndisturbed

=============================================================================
