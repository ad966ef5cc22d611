-------------------------- MODULE PublicationAttempt --------------------------
(* The publication of one finalized review on its pull request.  The attempt, *)
(* its operations, claims, operation attempts ("tries"), reported effects and *)
(* receipts are rows of the database, changed by the serializable             *)
(* transactions of prisma-review-publication-repository.ts; between them the  *)
(* workers' executor (review-v2-publication-executor.ts) mutates and reads    *)
(* the pull request on GitHub, which may answer late, wrongly or never.       *)
EXTENDS Integers, Sequences, FiniteSets

Seqs == INSTANCE SequencesExt

CONSTANTS
  Worker,       \* worker processes
  Op,           \* the operations of the attempt, numbered in their order
  Required,     \* those the attempt cannot succeed without
  DependsOn,    \* [Op -> Op \cup {0}]: the operation whose object this one needs
  MaxClaim,     \* bound: claim terms taken over the life of the attempt
  MaxMutation   \* [Op -> Nat], bound: mutations sent for every operation

ASSUME OpAssumption == Op \subseteq Nat \ {0} /\ Required \subseteq Op /\ Required # {}
ASSUME DependsOnAssumption == \A o \in Op : DependsOn[o] \in {0} \cup {p \in Op : p < o}
ASSUME BoundAssumption == MaxClaim \in Nat /\ MaxMutation \in [Op -> Nat]

VARIABLES
  attempt,   \* [state, version, claim, outcome] of the aggregate
  op,        \* state of every operation
  claim,     \* claim terms: [owner, state, live]; live until expiresAt
  try,       \* state of the operation attempt of an operation under a claim
  effects,   \* per operation, the reported objects in the order of their observedAt
  receipt,   \* per operation, the canonical object it was completed with
  request,   \* per operation, the fate of every mutation sent for it
  visible,   \* per operation, the objects to be seen on the pull request
  fresh,     \* are the facts the permit was issued for still the live ones?
  over,      \* has reconcileUntil passed?
  worker     \* what every worker is doing

rows == <<attempt, op, claim, try, effects, receipt>>
outside == <<request, visible>>
clock == <<fresh, over>>
vars == <<rows, outside, clock, worker>>

Claim == 1 .. MaxClaim
NoClaim == 0
\* A mutation is on its way, ended without effect, or created the n-th object.
Flying == 0
Void == -1
NoEffect == {"superseded_no_effect", "failed_no_effect"}
Stale == {"stale_compensated", "stale_visible"}
Active == {"planned", "in_flight", "reconciling"}

Idle == [step |-> "idle", op |-> 0, version |-> 0, risky |-> FALSE,
         claim |-> NoClaim, cap |-> NoClaim, object |-> 0, seen |-> {}, outcome |-> "none"]

Init ==
  /\ attempt = [state |-> "absent", version |-> 0, claim |-> NoClaim, outcome |-> "none"]
  /\ op = [o \in Op |-> "planned"]
  /\ claim = [c \in Claim |-> [owner |-> "none", state |-> "free", live |-> FALSE]]
  /\ try = [o \in Op |-> [c \in Claim |-> "none"]]
  /\ effects = [o \in Op |-> <<>>]
  /\ receipt = [o \in Op |-> 0]
  /\ request = [o \in Op |-> <<>>]
  /\ visible = [o \in Op |-> {}]
  /\ fresh = TRUE /\ over = FALSE
  /\ worker = [w \in Worker |-> Idle]

-----------------------------------------------------------------------------
(* What the rows say about external effects. *)

RiskStates == {"reconciling", "completed", "terminal_unknown"} \cup Stale

Tried(o) == {c \in Claim : try[o][c] # "none"}
Proven(o) == {c \in Claim : try[o][c] = "no_effect_proven"}

\* Mutant: only what has left a visible trace is taken for a risk.
AtRiskVisible ==
  {o \in Op :
     \/ op[o] \in RiskStates
     \/ effects[o] # <<>>
     \/ receipt[o] # 0}

\* Operations that may have reached the pull request: anything but the proof of
\* every try of the contrary counts.
AtRisk ==
  {o \in Op :
     \/ op[o] \in RiskStates
     \/ Tried(o) \ Proven(o) # {}
     \/ effects[o] # <<>>
     \/ receipt[o] # 0
     \/ op[o] = "in_flight" /\ Tried(o) = {}}

\* Mutant: only the siblings of an unknown outcome are told apart.
SiblingPlanUniform(o, outcome) ==
  [s \in {s \in Op \ {o} :
            \/ op[s] = "planned"
            \/ op[s] = "in_flight" /\ Proven(s) # {} /\ s \notin AtRisk
            \/ outcome = "terminal_unknown" /\ s \in AtRisk} |->
     IF outcome = "terminal_unknown" THEN "superseded_no_effect" ELSE outcome]

\* What becomes of the siblings of o when the attempt closes with an outcome.
SiblingPlan(o, outcome) ==
  [s \in {s \in Op \ {o} :
            \/ op[s] = "planned"
            \/ op[s] = "in_flight" /\ Proven(s) # {} /\ s \notin AtRisk
            \/ outcome = "terminal_unknown" /\ s \in AtRisk} |->
     IF op[s] = "planned"
     THEN IF outcome \in NoEffect THEN outcome ELSE "superseded_no_effect"
     ELSE IF s \in AtRisk THEN "terminal_unknown" ELSE "failed_no_effect"]

\* The claim is the attempt's, unexpired.
Holds(c) ==
  /\ c # NoClaim /\ attempt.claim = c
  /\ claim[c].state = "active" /\ claim[c].live

Latest(o) == CHOOSE c \in Tried(o) : \A d \in Tried(o) : d <= c
Oldest(objects) == CHOOSE b \in objects : \A d \in objects : b <= d
Canonical(o) == effects[o][1].object
Reported(o) == {effects[o][i].object : i \in 1 .. Len(effects[o])}

\* The oldest report whose object is among those seen, 0 when there is none.
CanonicalSeen(o, seen) ==
  LET at == {i \in 1 .. Len(effects[o]) : effects[o][i].object \in seen}
  IN IF at = {} THEN 0 ELSE effects[o][Oldest(at)].object

-----------------------------------------------------------------------------
(* The executor: one pass of a worker over one operation.  A pass that meets *)
(* an unavailable fact, a busy claim or a refused command ends and the       *)
(* operation is tried again later; so does one whose process dies (GiveUp).  *)

Go(w, record) == worker' = [worker EXCEPT ![w] = record]
Step(w, step) == Go(w, [worker[w] EXCEPT !.step = step])
End(w) == Go(w, Idle)
Closing(w, outcome) ==
  Go(w, [Idle EXCEPT !.step = "closing", !.op = worker[w].op, !.claim = worker[w].claim,
                     !.outcome = outcome])
\* What a pass carries once it has found or made an object.
Found(w, step, object, seen) ==
  Go(w, [Idle EXCEPT !.step = step, !.op = worker[w].op, !.claim = worker[w].claim,
                     !.cap = worker[w].cap, !.object = object, !.seen = seen])
\* The objects with the marker of the operation are listed, then dealt with.
Settling(w) == Found(w, "settling", 0, visible[worker[w].op])

\* terminalizeOrRetry: an outcome nobody knows is terminal only once the
\* reconciliation window is over.
Ambiguous(w) == IF over THEN Closing(w, "terminal_unknown") ELSE End(w)

GiveUp(w) ==
  /\ worker[w].step # "idle"
  /\ End(w)
  /\ UNCHANGED <<rows, outside, clock>>

\* The first look: terminal or completed work is left alone, stale facts route
\* the pass to an operation that needs reconciliation, a live claim of another
\* worker ends it and a claim of one's own is used again.
Look(w, o) ==
  LET routed == IF o \notin AtRisk /\ AtRisk # {} /\ ~fresh THEN Oldest(AtRisk) ELSE o
      c == attempt.claim
      seen == [Idle EXCEPT !.op = routed, !.risky = routed \in AtRisk]
  IN /\ worker[w].step = "idle" /\ op[o] \in Active
     /\ attempt.state \in {"pending", "publishing"}
     /\ \/ Holds(c) /\ claim[c].owner = w
           /\ Go(w, [seen EXCEPT !.step = "claimed", !.claim = c])
        \/ ~Holds(c) /\ Go(w, [seen EXCEPT !.step = "claiming", !.version = attempt.version])
     /\ UNCHANGED <<rows, outside, clock>>

\* Mutants: a claim is taken over without its tries; the tries get the state of
\* their claim.
ExpireWorkForgotten(c) == UNCHANGED <<try, op>>
ExpireWorkLikeClaim(c) ==
  LET lost == {o \in Op : try[o][c] = "active"}
  IN /\ try' = [o \in Op |-> IF o \in lost THEN [try[o] EXCEPT ![c] = "expired"] ELSE try[o]]
     /\ op' = [o \in Op |-> IF o \in lost /\ op[o] = "in_flight" THEN "reconciling" ELSE op[o]]

\* A first claim is refused when the facts have changed, one for reconciliation
\* is not.  The claim it replaces has expired, and with it its tries.
ExpireWork(c) ==
  LET lost == {o \in Op : try[o][c] = "active"}
  IN /\ try' = [o \in Op |-> IF o \in lost THEN [try[o] EXCEPT ![c] = "stale"] ELSE try[o]]
     /\ op' = [o \in Op |-> IF o \in lost /\ op[o] = "in_flight" THEN "reconciling" ELSE op[o]]

TakeClaim(w) ==
  \E c \in Claim :
    /\ worker[w].step = "claiming"
    /\ worker[w].risky \/ Proven(worker[w].op) # {} \/ fresh
    /\ attempt.state # "terminal" /\ attempt.version = worker[w].version
    /\ ~Holds(attempt.claim)
    /\ claim[c].state = "free" /\ \A d \in Claim : d < c => claim[d].state # "free"
    /\ IF attempt.claim # NoClaim THEN ExpireWork(attempt.claim) ELSE UNCHANGED <<try, op>>
    /\ claim' = [d \in Claim |->
         IF d = c THEN [owner |-> w, state |-> "active", live |-> TRUE]
         ELSE IF d = attempt.claim THEN [claim[d] EXCEPT !.state = "expired"]
         ELSE claim[d]]
    /\ attempt' = [attempt EXCEPT !.state = "publishing", !.claim = c,
                                  !.version = attempt.version + 1]
    /\ Go(w, [worker[w] EXCEPT !.step = "claimed", !.claim = c, !.version = 0])
    /\ UNCHANGED <<effects, receipt, outside, clock>>

\* A refusal of the gate, for stale facts or for reasons of its own, and any other
\* failure of a first claim lead to the attempt's end, if nobody ever claimed it.
ClaimRefused(w) ==
  /\ worker[w].step = "claiming"
  /\ ~worker[w].risky /\ Proven(worker[w].op) = {}
  /\ Step(w, "unclaimed")
  /\ UNCHANGED <<rows, outside, clock>>

\* After the claim: a proven try only has to be closed, an earlier try has to be
\* reconciled before anything is sent again.
Proceed(w) ==
  LET o == worker[w].op
  IN /\ worker[w].step = "claimed" /\ Holds(worker[w].claim)
     /\ IF Proven(o) # {} THEN Closing(w, "failed_no_effect")
        ELSE Go(w, [worker[w] EXCEPT
                      !.step = IF Tried(o) # {} THEN "reconciling" ELSE "beginning",
                      !.cap = IF Tried(o) # {} THEN Latest(o) ELSE NoClaim,
                      !.version = IF Tried(o) # {} THEN 0 ELSE attempt.version])
     /\ UNCHANGED <<rows, outside, clock>>

\* reconcileBeforeRetry: look for the marker of the operation before sending
\* anything, and go on with the try that is there only under its own claim.
Reconcile(w) ==
  LET o == worker[w].op
  IN /\ worker[w].step = "reconciling"
     /\ \/ over /\ Ambiguous(w)
        \/ Holds(worker[w].claim) /\ Ambiguous(w)
        \/ ~over /\ Holds(worker[w].claim) /\ visible[o] # {} /\ Settling(w)
        \/ ~over /\ Holds(worker[w].claim) /\ visible[o] = {} /\ fresh
           /\ IF worker[w].cap = worker[w].claim THEN Step(w, "mutating")
              ELSE Go(w, [worker[w] EXCEPT !.step = "beginning", !.version = attempt.version])
     /\ UNCHANGED <<rows, outside, clock>>

\* Before BeginOperation the facts and the window are read once more; a gate that
\* refuses, and any failure of the command, are taken like changed facts.
BeginRefused(w) ==
  /\ worker[w].step = "beginning"
  /\ \/ worker[w].risky /\ Ambiguous(w)
     \/ ~worker[w].risky /\ Closing(w, "superseded_no_effect")
     \/ ~worker[w].risky /\ over /\ Closing(w, "failed_no_effect")
  /\ UNCHANGED <<rows, outside, clock>>

Begin(w) ==
  LET o == worker[w].op  c == worker[w].claim
  IN /\ worker[w].step = "beginning" /\ fresh /\ ~over
     /\ attempt.state # "terminal" /\ attempt.version = worker[w].version /\ Holds(c)
     /\ op[o] # "completed"
     /\ op[o] = "in_flight" => Proven(o) = {} /\ try[o][c] \in {"none", "stale"}
     /\ DependsOn[o] # 0 => receipt[DependsOn[o]] # 0
     /\ try[o][c] = "none"
     /\ try' = [try EXCEPT ![o][c] = "active"]
     /\ op' = [op EXCEPT ![o] = "in_flight"]
     /\ attempt' = [attempt EXCEPT !.version = attempt.version + 1]
     /\ Go(w, [worker[w] EXCEPT !.step = "mutating", !.cap = c, !.version = 0])
     /\ UNCHANGED <<claim, effects, receipt, outside, clock>>

\* Up to the mutation the claim is renewed and the facts, the inventory and the
\* effect gate are read again.  A gate that is closed before anything was sent
\* is proof that nothing happened.
Prepare(w) ==
  LET o == worker[w].op
  IN /\ worker[w].step = "mutating" /\ Holds(worker[w].claim)
     /\ \/ ~fresh /\ IF worker[w].risky THEN Ambiguous(w)
                     ELSE Closing(w, "superseded_no_effect")
        \/ fresh /\ visible[o] # {} /\ Settling(w)
        \/ fresh /\ visible[o] = {}
           /\ \/ Step(w, "sending")
              \/ worker[w].risky /\ Ambiguous(w)
              \/ ~worker[w].risky /\ Step(w, "proving")
     /\ UNCHANGED <<rows, outside, clock>>

\* The request leaves; by now the claim may be gone.
Send(w) ==
  LET o == worker[w].op
  IN /\ worker[w].step = "sending" /\ Len(request[o]) < MaxMutation[o]
     /\ request' = [request EXCEPT ![o] = Append(request[o], Flying)]
     /\ Go(w, [worker[w] EXCEPT !.step = "waiting", !.object = Len(request[o]) + 1])
     /\ UNCHANGED <<rows, visible, clock>>

Fate(w) == request[worker[w].op][worker[w].object]

\* GitHub refused the mutation for certain.  That proves something only if
\* nothing else of the operation can have had an effect.
Refused(w) ==
  LET o == worker[w].op
  IN /\ worker[w].step = "waiting" /\ Fate(w) = Flying
     /\ request' = [request EXCEPT ![o][worker[w].object] = Void]
     /\ IF worker[w].risky
        THEN IF visible[o] # {} THEN Settling(w) ELSE Ambiguous(w)
        ELSE End(w) \/ Step(w, "proving")
     /\ UNCHANGED <<rows, visible, clock>>

\* No answer: the marker decides.
Unanswered(w) ==
  /\ worker[w].step = "waiting"
  /\ IF visible[worker[w].op] # {} THEN Settling(w) ELSE Ambiguous(w)
  /\ UNCHANGED <<rows, outside, clock>>

\* recordOrRestoreEffect: a try reports one effect, in time and not against its
\* own proof.  Reports are accepted whoever holds the claim by now.
Reportable(w, b) ==
  LET o == worker[w].op  cap == worker[w].cap
  IN \/ b \in Reported(o)
     \/ /\ try[o][cap] # "no_effect_proven" /\ ~over
        /\ \A i \in 1 .. Len(effects[o]) : effects[o][i].cap # cap

\* observedAt is the worker's clock before the transaction: a report of a worker
\* that was delayed, or whose clock is behind, comes late and takes its place
\* before reports that were recorded earlier.
Report(w, b) ==
  LET o == worker[w].op
  IN IF b \in Reported(o) THEN UNCHANGED effects
     ELSE \E k \in 1 .. Len(effects[o]) + 1 :
       effects' = [effects EXCEPT ![o] =
         Seqs!InsertAt(@, k, [cap |-> worker[w].cap, object |-> b, late |-> k <= Len(@)])]

\* The mutation was acknowledged: its effect is reported before anything else.
Record(w) ==
  LET o == worker[w].op  b == Fate(w)
  IN /\ worker[w].step = "waiting" /\ b > 0
     /\ IF Reportable(w, b)
        THEN /\ Report(w, b)
             /\ Found(w, IF fresh THEN "settling" ELSE "compensating", 0, visible[o] \cup {b})
        ELSE Ambiguous(w) /\ UNCHANGED effects
     /\ UNCHANGED <<attempt, op, claim, try, receipt, outside, clock>>

\* settleInventory: the oldest report among the objects seen is canonical, the
\* others are duplicates; without a report the oldest object is reported.
Settle(w) ==
  LET o == worker[w].op
      seen == worker[w].seen
      b == IF CanonicalSeen(o, seen) # 0 THEN CanonicalSeen(o, seen) ELSE Oldest(seen)
      next == IF ~fresh THEN "compensating" ELSE IF seen = {b} THEN "completing" ELSE "cleaning"
  IN /\ worker[w].step = "settling"
     /\ IF Reportable(w, b)
        THEN /\ Report(w, b)
             /\ IF ~fresh /\ AtRisk # {o} THEN Ambiguous(w) ELSE Found(w, next, b, seen)
        ELSE Ambiguous(w) /\ UNCHANGED effects
     /\ UNCHANGED <<attempt, op, claim, try, receipt, outside, clock>>

\* Duplicates are deleted under a renewed claim and unchanged facts.
Clean(w) ==
  /\ worker[w].step = "cleaning" /\ Holds(worker[w].claim)
  /\ Step(w, IF fresh THEN "deleting" ELSE "compensating")
  /\ UNCHANGED <<rows, outside, clock>>

\* Mutant: the oldest object is kept, not the one reported first.
DeleteDuplicatesByAge(w) ==
  LET o == worker[w].op
      younger == worker[w].seen \ {Oldest(worker[w].seen)}
  IN /\ worker[w].step = "deleting"
     /\ visible' = [visible EXCEPT ![o] = visible[o] \ younger]
     /\ Step(w, "completing")
     /\ UNCHANGED <<rows, request, clock>>

DeleteDuplicates(w) ==
  LET o == worker[w].op
  IN /\ worker[w].step = "deleting"
     /\ \E gone \in SUBSET (worker[w].seen \ {worker[w].object}) :
          /\ visible' = [visible EXCEPT ![o] = visible[o] \ gone]
          /\ \/ gone = worker[w].seen \ {worker[w].object} /\ Step(w, "completing")
             \/ Ambiguous(w)
     /\ UNCHANGED <<rows, request, clock>>

\* The facts are read for the last time.
LastLook(w) ==
  /\ worker[w].step = "completing"
  /\ IF fresh THEN Step(w, "finishing")
     ELSE IF AtRisk # {worker[w].op} THEN Ambiguous(w) ELSE Step(w, "compensating")
  /\ UNCHANGED <<rows, outside, clock>>

\* completeOperation, which does not ask for them: the receipt names the canonical
\* object, and with the last required receipt the attempt has succeeded.
Complete(w) ==
  LET o == worker[w].op  c == worker[w].claim
      receipts == [receipt EXCEPT ![o] = worker[w].object]
      done == \A r \in Required : receipts[r] # 0
  IN /\ worker[w].step = "finishing"
     /\ attempt.state # "terminal" /\ Holds(c)
     /\ Canonical(o) = worker[w].object /\ receipt[o] = 0
     /\ receipt' = receipts
     /\ op' = [op EXCEPT ![o] = "completed"]
     /\ try' = [try EXCEPT ![o] =
          [d \in Claim |-> IF try[o][d] \in {"none", "no_effect_proven"} THEN try[o][d]
                           ELSE IF d = c THEN "completed" ELSE "stale"]]
     /\ attempt' = [state |-> IF done THEN "terminal" ELSE "publishing",
                    version |-> attempt.version + 1,
                    claim |-> IF done THEN NoClaim ELSE c,
                    outcome |-> IF done THEN "succeeded" ELSE "none"]
     /\ claim' = IF done THEN [claim EXCEPT ![c].state = "released"] ELSE claim
     /\ End(w)
     /\ UNCHANGED <<effects, outside, clock>>

\* handleStaleKnownEffect: what is out of date is taken back if policy, claim
\* and gate allow it, and what cannot be taken back is called visible.
Compensate(w) ==
  /\ worker[w].step = "compensating"
  /\ \/ Holds(worker[w].claim) /\ ~fresh /\ Step(w, "retracting")
     \/ Ambiguous(w)
  /\ UNCHANGED <<rows, outside, clock>>

Retract(w) ==
  LET o == worker[w].op
  IN /\ worker[w].step = "retracting"
     /\ \/ /\ visible' = [visible EXCEPT ![o] = visible[o] \ worker[w].seen]
           /\ Closing(w, "stale_compensated") \/ Ambiguous(w)
        \/ Closing(w, "stale_visible") /\ UNCHANGED visible
     /\ UNCHANGED <<rows, request, clock>>

Prove(w) ==
  LET o == worker[w].op  c == worker[w].cap
  IN /\ worker[w].step = "proving"
     /\ attempt.state # "terminal" /\ Holds(c)
     /\ try[o][c] = "active" /\ \A i \in 1 .. Len(effects[o]) : effects[o][i].cap # c
     /\ try' = [try EXCEPT ![o][c] = "no_effect_proven"]
     /\ Closing(w, "failed_no_effect")
     /\ UNCHANGED <<attempt, op, claim, effects, receipt, outside, clock>>

-----------------------------------------------------------------------------
(* terminalizeUnknown: the attempt closes, and its siblings with it. *)

Settled(o, outcome) ==
  LET siblings == SiblingPlan(o, outcome)
  IN [s \in {o} \cup DOMAIN siblings |-> IF s = o THEN outcome ELSE siblings[s]]

CloseAttempt(o, outcome) ==
  LET closed == Settled(o, outcome)
      ended == [s \in Op |-> [c \in Claim |->
        IF s \notin DOMAIN closed \/ try[s][c] \in {"none", "completed", "no_effect_proven"}
        THEN try[s][c]
        ELSE IF closed[s] = "terminal_unknown" THEN "terminal_unknown" ELSE "stale"]]
  IN /\ \A s \in Op \ DOMAIN closed : op[s] \notin Active
     /\ op' = [s \in Op |-> IF s \in DOMAIN closed THEN closed[s] ELSE op[s]]
     /\ try' = ended
     /\ attempt' = [state |-> "terminal", version |-> attempt.version + 1,
                    claim |-> NoClaim, outcome |-> outcome]

\* What the rows allow a pass to close with.
Closable(o, outcome) ==
  /\ outcome = "terminal_unknown" => over
  /\ outcome \in NoEffect => AtRisk = {}
  /\ outcome \in Stale => AtRisk = {o}

Close(w) ==
  LET o == worker[w].op  c == worker[w].claim
  IN /\ worker[w].step = "closing"
     /\ attempt.state # "terminal" /\ Holds(c)
     /\ Closable(o, worker[w].outcome)
     /\ CloseAttempt(o, worker[w].outcome)
     /\ claim' = [claim EXCEPT ![c].state = "released"]
     /\ End(w)
     /\ UNCHANGED <<effects, receipt, outside, clock>>

\* A stale outcome that leaves out what a sibling did is not known, after all.
CloseConflict(w) ==
  /\ worker[w].step = "closing" /\ worker[w].outcome \in Stale
  /\ AtRisk # {worker[w].op} /\ Ambiguous(w)
  /\ UNCHANGED <<rows, outside, clock>>

\* Without a claim only an attempt that nobody ever claimed can be closed.
CloseUnclaimed(w) ==
  LET o == worker[w].op
  IN /\ worker[w].step = "unclaimed"
     /\ attempt.version = worker[w].version /\ attempt.claim = NoClaim /\ AtRisk = {}
     /\ CloseAttempt(o, "superseded_no_effect")
     /\ End(w)
     /\ UNCHANGED <<claim, effects, receipt, outside, clock>>

-----------------------------------------------------------------------------
(* The surroundings: the completion process requests the publication, GitHub *)
(* carries out mutations in its own time, and deadlines and facts pass.      *)

RequestPublication ==
  /\ attempt.state = "absent"
  /\ attempt' = [attempt EXCEPT !.state = "pending", !.version = 1]
  /\ UNCHANGED <<op, claim, try, effects, receipt, outside, clock, worker>>

Born(o) == {request[o][n] : n \in 1 .. Len(request[o])} \ {Flying, Void}

Land(o) ==
  \E n \in 1 .. Len(request[o]) :
    /\ request[o][n] = Flying
    /\ request' = [request EXCEPT ![o][n] = Cardinality(Born(o)) + 1]
    /\ visible' = [visible EXCEPT ![o] = visible[o] \cup {Cardinality(Born(o)) + 1}]
    /\ UNCHANGED <<rows, clock, worker>>

Vanish(o) ==
  \E n \in 1 .. Len(request[o]) :
    /\ request[o][n] = Flying
    /\ request' = [request EXCEPT ![o][n] = Void]
    /\ UNCHANGED <<rows, visible, clock, worker>>

ClaimRunsOut ==
  \E c \in Claim :
    /\ claim[c].state = "active" /\ claim[c].live
    /\ claim' = [claim EXCEPT ![c].live = FALSE]
    /\ UNCHANGED <<attempt, op, try, effects, receipt, outside, clock, worker>>

FactsChange == fresh /\ fresh' = FALSE /\ UNCHANGED <<rows, outside, over, worker>>
WindowEnds == ~over /\ over' = TRUE /\ UNCHANGED <<rows, outside, fresh, worker>>

Pass(w) ==
  \/ \E o \in Op : Look(w, o)
  \/ TakeClaim(w) \/ ClaimRefused(w) \/ Proceed(w) \/ Reconcile(w)
  \/ BeginRefused(w) \/ Begin(w) \/ Prepare(w) \/ Send(w)
  \/ Refused(w) \/ Unanswered(w) \/ Record(w)
  \/ Settle(w) \/ Clean(w) \/ DeleteDuplicates(w) \/ LastLook(w) \/ Complete(w)
  \/ Compensate(w) \/ Retract(w) \/ Prove(w)
  \/ Close(w) \/ CloseConflict(w) \/ CloseUnclaimed(w)

Next ==
  \/ RequestPublication \/ ClaimRunsOut \/ FactsChange \/ WindowEnds
  \/ \E o \in Op : Land(o) \/ Vanish(o)
  \/ \E w \in Worker : Pass(w) \/ GiveUp(w)

Spec == Init /\ [][Next]_vars
-----------------------------------------------------------------------------
(* What publication promises. *)

Steps ==
  {"idle", "claiming", "unclaimed", "claimed", "reconciling", "beginning", "mutating", "sending",
   "waiting", "settling", "cleaning", "deleting", "completing", "finishing", "compensating",
   "retracting", "proving", "closing"}
Outcomes == NoEffect \cup Stale \cup {"succeeded", "terminal_unknown"}
TryState == {"none", "active", "stale", "no_effect_proven", "completed", "terminal_unknown"}
Object == Nat \ {0}

TypeOK ==
  /\ attempt \in [state : {"absent", "pending", "publishing", "terminal"}, version : Nat,
                  claim : {NoClaim} \cup Claim, outcome : {"none"} \cup Outcomes]
  /\ op \in [Op -> Active \cup NoEffect \cup Stale \cup {"completed", "terminal_unknown"}]
  /\ claim \in [Claim -> [owner : Worker \cup {"none"}, live : BOOLEAN,
                          state : {"free", "active", "expired", "released"}]]
  /\ try \in [Op -> [Claim -> TryState]]
  /\ effects \in [Op -> Seq([cap : Claim, object : Object, late : BOOLEAN])]
  /\ receipt \in [Op -> {0} \cup Object]
  /\ request \in [Op -> Seq({Flying, Void} \cup Object)]
  /\ visible \in [Op -> SUBSET Object]
  /\ fresh \in BOOLEAN /\ over \in BOOLEAN
  /\ worker \in [Worker ->
       [step : Steps, op : {0} \cup Op, version : Nat, risky : BOOLEAN,
        claim : {NoClaim} \cup Claim, cap : {NoClaim} \cup Claim, object : {0} \cup Object,
        seen : SUBSET Object, outcome : {"none"} \cup Outcomes]]

\* A try is active only while the attempt is held by the claim it was begun
\* under, unless the attempt has succeeded without its operation, and an
\* operation is in flight only for a try that is active or proven to have had no
\* effect: work of a lost claim always awaits reconciliation.
TriesFollowTheClaim ==
  /\ \A o \in Op, c \in Claim : try[o][c] = "active" =>
       \/ attempt.claim = c /\ claim[c].state = "active"
       \/ attempt.outcome = "succeeded" /\ o \notin Required
  /\ \A o \in Op : op[o] = "in_flight" =>
       \E c \in Claim : try[o][c] \in {"active", "no_effect_proven"}

\* An operation that was closed as having had no effect, on its own or as the
\* sibling of another one, never has one: nothing of it is on the pull request
\* and no mutation is still on its way there.
NoEffectIsTrue ==
  \A o \in Op : op[o] \in NoEffect => \A n \in 1 .. Len(request[o]) : request[o][n] = Void

\* A successful publication is there to be seen: no late duplicate cleanup or
\* compensation of a fenced worker has taken a canonical object away, as long as
\* the canonical report is the one recorded first and no late one.
SucceededIsVisible ==
  attempt.outcome = "succeeded" =>
    \A r \in Required : ~effects[r][1].late => receipt[r] \in visible[r]

\* The attempt, seen as what the rest of the system is promised.
Lifecycle == INSTANCE PublicationLifecycle WITH
  status <- CASE attempt.state = "absent" -> "absent"
              [] attempt.state = "terminal" -> "closed"
              [] OTHER -> "open",
  outcome <- attempt.outcome,
  touched <- \E o \in Op : Born(o) # {}

\* Every step of workers, GitHub and clocks is a step of the promised lifecycle:
\* the publication closes once, never denies an effect it has had or may still
\* have, and never claims one it has not.
ImplementsLifecycle == Lifecycle!Spec
=============================================================================
