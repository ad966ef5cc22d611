-------------------------- MODULE ReviewExecution --------------------------
(***************************************************************************)
(* The review-executions aggregate for one review scope (one pull request  *)
(* of one repository connection): the scope's stream row, the executions   *)
(* (generations) prepared in it, their work slots, the provider invocation *)
(* leases, the accepted observations and the finalized artifacts.          *)
(*                                                                         *)
(* Every store command runs in one database transaction under the scope's  *)
(* advisory lock, so one command is one action.  What callers read before  *)
(* a command and use in it - the stream version and SCM head of a start,   *)
(* the versions and observation references of a finalization - are steps   *)
(* of their own.  A command whose compare-and-set fails changes nothing.   *)
(*                                                                         *)
(* Time is abstracted to the comparisons the code makes: a lease is past   *)
(* neither, the first or both of expiresAt and resultReportUntil (age = 0, *)
(* 1, 2), an execution is past neither, the first or both of its admission *)
(* and execution deadlines (due = 0, 1, 2).  retainUntil may have passed   *)
(* for anything that is otherwise over.                                    *)
(*                                                                         *)
(* A lease is named by its fencing token, drawn from one sequence; an      *)
(* observation is named by the lease that reported it.                     *)
(***************************************************************************)
EXTENDS Integers, FiniteSets

CONSTANTS
  Execution,      \* execution ids that can be started in the scope
  Slot,           \* the work slots (provider lanes) of a review plan
  Required,       \* the slots whose coverage the plan requires
  Key,            \* provider invocation keys
  Revision,       \* revisions the pull request can have
  AttemptBudget,  \* provider attempts a work slot may use
  MaxFence,       \* bound: fencing tokens the sequence hands out
  None            \* the null pointer, revision, slot or key

ASSUME NoneAssumption == None \notin Execution \cup Revision \cup Slot \cup Key
ASSUME RequiredAssumption == Required \subseteq Slot
ASSUME BudgetAssumption == AttemptBudget \in Nat \ {0}
ASSUME FenceAssumption == MaxFence \in Nat

Lease == 1 .. MaxFence
NoLease == 0

VARIABLES
  head,       \* the revision the SCM currently reports
  pushed,     \* every revision the SCM has reported
  stream,     \* the scope's ReviewExecutionStream row
  execution,  \* the ReviewExecution rows
  slot,       \* their work slots
  lease,      \* the ReviewInvocationLease rows
  fence,      \* last token of the fencing sequence
  observed,   \* leases whose observation review-evidence holds
  start,      \* what each running StartReviewExecution has read
  final,      \* what each running finalization has read
  artifact    \* the finalized projection artifact of each execution

scmVars == <<head, pushed>>
rowVars == <<stream, execution, slot, lease, artifact>>
vars == <<scmVars, rowVars, fence, observed, start, final>>

TerminalExecution == {"superseded", "completed", "partial", "failed"}
TerminalSlot == {"satisfied", "exhausted", "cancelled"}

EmptyStream ==
  [version |-> 0, active |-> None, prepared |-> None, generation |-> 0,
   revision |-> None]
AbsentExecution ==
  [state |-> "absent", version |-> 0, generation |-> 0, revision |-> None,
   by |-> None, due |-> 0]
FreshSlot ==
  [state |-> "pending", lease |-> NoLease, ordinal |-> 1, ref |-> NoLease]
UnusedLease ==
  [state |-> "unused", execution |-> None, slot |-> None, key |-> None,
   purpose |-> "provider", age |-> 0]
NoRefs == [s \in Slot |-> NoLease]
NoArtifact == [coverage |-> "none", refs |-> NoRefs]
IdleStart == [step |-> "idle", version |-> 0, observed |-> None]
IdleFinal == [step |-> "idle", stream |-> 0, execution |-> 0, refs |-> NoRefs]

Init ==
  /\ head \in Revision /\ pushed = {head}
  /\ stream = EmptyStream
  /\ execution = [e \in Execution |-> AbsentExecution]
  /\ slot = [e \in Execution |-> [s \in Slot |-> FreshSlot]]
  /\ lease = [l \in Lease |-> UnusedLease]
  /\ fence = 0
  /\ observed = {}
  /\ start = [e \in Execution |-> IdleStart]
  /\ final = [e \in Execution |-> IdleFinal]
  /\ artifact = [e \in Execution |-> NoArtifact]

-----------------------------------------------------------------------------
(* Deliberate mistakes.  Nothing above or below uses these operators: each   *)
(* is a wrong version of the operator it names, substituted for it to see    *)
(* that a property fails.                                                    *)

\* Coverage: an execution without full coverage stays running.
CoverageKeepsRunning(e) ==
  IF \A s \in Required : slot[e][s].state = "satisfied" THEN "completed" ELSE "running"
\* Revoked: the leases of an execution that ends stay active.
RevokedNone(e) == lease
\* Incumbents: a provider invocation running in another slot is overlooked.
IncumbentsOverlooked(k, c) == {}
\* Vacated: a lease that ends gives its attempt back.
VacatedRefunded(sl) == [sl EXCEPT !.lease = NoLease, !.state = "pending", !.ordinal = @ - 1]
\* Superseded: an execution replaced by another keeps its state.
SupersededKeepsState(e, successor) ==
  [execution[e] EXCEPT !.state = IF successor = None THEN "superseded" ELSE @,
                       !.version = @ + 1, !.by = successor]
\* AdmissionHolds: neither the stream version nor the pointer is compared.
AdmissionUnfenced(e) ==
  start[e].step = "checked" /\ execution[e].state \in {"planned", "superseded"}
\* Attachable: the execution may be over.
AttachableAlways(e, s) == execution[e].state # "absent" /\ slot[e][s].ref = NoLease
\* Cancelled: satisfied slots are cancelled too.
CancelledAll(e) ==
  [s \in Slot |-> [slot[e][s] EXCEPT !.state = "cancelled", !.lease = NoLease]]
\* Finalizable: the execution's version is not compared.
FinalizableStale(e) ==
  /\ final[e].stream = stream.version
  /\ stream.active = e /\ execution[e].state = "running"
  /\ stream.revision = execution[e].revision /\ artifact[e] = NoArtifact
\* PruneObservation: references are not looked at.
PruneReferenced(l) ==
  /\ l \in observed /\ lease[l].age = 2
  /\ observed' = observed \ {l}
  /\ UNCHANGED <<scmVars, rowVars, fence, start, final>>
\* Touched: a slot change leaves the execution's version.
TouchedKeepsVersion(e) == execution
\* PermitCurrent: the generation is not compared.
PermitAnyGeneration(e) ==
  /\ artifact[e] # NoArtifact /\ stream.active = e
  /\ stream.revision = execution[e].revision
\* FailExpiredRunning: recovery leaves an execution alone while another is
\* prepared to replace it.
FailExpiredUnlessPrepared(e) ==
  /\ stream.active = e /\ execution[e].state = "running" /\ execution[e].due = 2
  /\ stream.prepared = None
  /\ execution' = [execution EXCEPT ![e].state = "failed", ![e].version = @ + 1]
  /\ slot' = [slot EXCEPT ![e] = CancelledAll(e)]
  /\ lease' = [l \in Lease |-> IF lease[l].state = "active"
                               THEN [lease[l] EXCEPT !.state = "revoked"] ELSE lease[l]]
  /\ stream' = [stream EXCEPT !.version = @ + 1, !.active = None]
  /\ UNCHANGED <<scmVars, fence, observed, start, final, artifact>>

-----------------------------------------------------------------------------
(* Predicates and row updates the commands share. *)

\* isCurrentRunning
CurrentRunning(e) == stream.active = e /\ execution[e].state = "running"

\* The stream's revision has not moved away from e's.
CurrentRevision(e) == stream.revision = execution[e].revision

\* The lease is past its expiresAt.
Expired(l) == lease[l].age > 0

\* Every change of an execution or of its slots moves its version.
Touched(e) == [execution EXCEPT ![e].version = @ + 1]

\* transitionExecutionToSuperseded, the execution's own row
Superseded(e, successor) ==
  [execution[e] EXCEPT !.state = "superseded", !.version = @ + 1, !.by = successor]

\* The row of an execution that fails
Failed(e) == [execution[e] EXCEPT !.state = "failed", !.version = @ + 1]

\* cancelNonTerminalWorkSlots
Cancelled(e) ==
  [s \in Slot |-> IF slot[e][s].state \in TerminalSlot THEN slot[e][s]
                  ELSE [slot[e][s] EXCEPT !.state = "cancelled", !.lease = NoLease]]

\* revokeActiveLeases, for the active leases of e
Revoked(e) ==
  [l \in Lease |-> IF lease[l].state = "active" /\ lease[l].execution = e
                   THEN [lease[l] EXCEPT !.state = "revoked"] ELSE lease[l]]

\* The work slot of lease l, once l no longer holds it: pending, or exhausted
\* when the attempt that ended was the last of the budget.
Vacated(sl) ==
  [sl EXCEPT !.lease = NoLease,
             !.state = IF sl.ordinal > AttemptBudget THEN "exhausted" ELSE "pending"]

\* clearLeaseFromExecution acts only on a slot that still points at the lease.
Holds(l) == slot[lease[l].execution][lease[l].slot].lease = l
FreedSlots(l) ==
  IF Holds(l) THEN [slot EXCEPT ![lease[l].execution][lease[l].slot] = Vacated(@)]
  ELSE slot
FreedExecutions(l) == IF Holds(l) THEN Touched(lease[l].execution) ELSE execution

\* The slot of e once observation o is attached to it.
Satisfied(e, s, o) ==
  [slot EXCEPT ![e][s] = [@ EXCEPT !.state = "satisfied", !.lease = NoLease, !.ref = o]]

-----------------------------------------------------------------------------
(* The SCM (external): the head of the pull request moves. *)
Push(r) ==
  /\ r # head
  /\ head' = r /\ pushed' = pushed \cup {r}
  /\ UNCHANGED <<rowVars, fence, observed, start, final>>

-----------------------------------------------------------------------------
(* Preparation and admission: StartReviewExecution. *)

\* prepareExecution: allocate the next generation, replace the prepared
\* execution.  r passed the SCM precheck, so it has been the head.
Prepare(e, r) ==
  LET displaced == {x \in Execution : stream.prepared = x /\ execution[x].state = "planned"}
  IN /\ execution[e].state = "absent"
     /\ r \in pushed
     /\ execution' = [x \in Execution |->
          IF x = e
          THEN [AbsentExecution EXCEPT !.state = "planned", !.version = 1,
                  !.generation = stream.generation + 1, !.revision = r]
          ELSE IF x \in displaced THEN Superseded(x, e) ELSE execution[x]]
     /\ slot' = [x \in Execution |-> IF x \in displaced THEN Cancelled(x) ELSE slot[x]]
     /\ stream' = [stream EXCEPT !.version = @ + 1, !.prepared = e, !.generation = @ + 1]
     /\ start' = [start EXCEPT ![e] =
          [step |-> "loaded", version |-> stream.version + 1, observed |-> None]]
     /\ UNCHANGED <<scmVars, lease, fence, observed, final, artifact>>

\* A retry, or a replayed start after a crash, reads the snapshot again.
Reload(e) ==
  /\ execution[e].state = "planned"
  /\ start' = [start EXCEPT ![e] =
       [step |-> "loaded", version |-> stream.version, observed |-> None]]
  /\ UNCHANGED <<scmVars, rowVars, fence, observed, final>>

\* The SCM postcheck, outside any transaction; it may find the SCM unavailable.
Postcheck(e) ==
  /\ start[e].step = "loaded"
  /\ \E r \in {head, None} :
       start' = [start EXCEPT ![e].step = "checked", ![e].observed = r]
  /\ UNCHANGED <<scmVars, rowVars, fence, observed, final>>

\* confirmAdmission reaches a decision that writes: e is still the prepared
\* execution and the stream has not moved since the snapshot was read.
AdmissionHolds(e) ==
  /\ start[e].step = "checked"
  /\ start[e].version = stream.version
  /\ execution[e].state = "planned" /\ stream.prepared = e

\* The postcheck found e's revision: e replaces the running execution, whose
\* open slots are cancelled and whose leases are revoked.
Admit(e) ==
  LET displaced == {x \in Execution : stream.active = x /\ x # e
                                      /\ execution[x].state \notin TerminalExecution}
  IN /\ AdmissionHolds(e)
     /\ start[e].observed = execution[e].revision
     /\ execution' = [x \in Execution |->
          IF x = e THEN [execution[e] EXCEPT !.state = "running", !.version = @ + 1]
          ELSE IF x \in displaced THEN Superseded(x, e) ELSE execution[x]]
     /\ slot' = [x \in Execution |-> IF x \in displaced THEN Cancelled(x) ELSE slot[x]]
     /\ lease' = IF displaced = {} THEN lease ELSE Revoked(stream.active)
     /\ stream' = [stream EXCEPT !.version = @ + 1, !.active = e, !.prepared = None,
                                 !.revision = execution[e].revision]
     /\ start' = [start EXCEPT ![e] = IdleStart]
     /\ UNCHANGED <<scmVars, fence, observed, final, artifact>>

\* The postcheck found another revision: the prepared execution is superseded.
RejectStale(e) ==
  /\ AdmissionHolds(e)
  /\ start[e].observed \notin {None, execution[e].revision}
  /\ execution' = [execution EXCEPT ![e] = Superseded(e, None)]
  /\ slot' = [slot EXCEPT ![e] = Cancelled(e)]
  /\ stream' = [stream EXCEPT !.version = @ + 1, !.prepared = None]
  /\ start' = [start EXCEPT ![e] = IdleStart]
  /\ UNCHANGED <<scmVars, lease, fence, observed, final, artifact>>

\* The SCM was unavailable, e is no longer prepared or the stream moved.
DeferAdmission(e) ==
  /\ start[e].step = "checked"
  /\ AdmissionHolds(e) => start[e].observed = None
  /\ start' = [start EXCEPT ![e] = IdleStart]
  /\ UNCHANGED <<scmVars, rowVars, fence, observed, final>>

-----------------------------------------------------------------------------
(* Invocation leases. *)

\* Active leases on the same provider invocation, in whatever slot they are.
Incumbents(k, c) ==
  {l \in Lease : lease[l].state = "active" /\ lease[l].key = k
                 /\ lease[l].purpose = "provider"} \ {c}

\* decideLeaseAcquire refuses before it looks at other leases: the slot is
\* settled, or another worker holds an unexpired lease on it.
Acquirable(e, s) ==
  /\ CurrentRunning(e)
  /\ slot[e][s].state \notin TerminalSlot
  /\ slot[e][s].lease # NoLease => Expired(slot[e][s].lease)

ExpiredLeases(X) ==
  [l \in Lease |-> IF l \in X /\ lease[l].state = "active"
                   THEN [lease[l] EXCEPT !.state = "expired"] ELSE lease[l]]

\* acquireLease with no attempt left settles the slot as exhausted.
ExhaustSlot(e, s) ==
  /\ Acquirable(e, s)
  /\ slot[e][s].ordinal > AttemptBudget
  /\ slot' = [slot EXCEPT ![e][s] = [@ EXCEPT !.state = "exhausted", !.lease = NoLease]]
  /\ lease' = ExpiredLeases({slot[e][s].lease})
  /\ execution' = Touched(e)
  /\ UNCHANGED <<scmVars, stream, fence, observed, start, final, artifact>>

\* acquireLease: the slot's expired lease, and an expired incumbent i that
\* holds the same provider invocation in another slot, end in the same
\* transaction; a live incumbent makes the caller wait.
AcquireLease(e, s, k) ==
  LET c == slot[e][s].lease
      f == fence + 1
  IN /\ Acquirable(e, s)
     /\ slot[e][s].ordinal <= AttemptBudget
     /\ fence < MaxFence
     /\ \A l \in Incumbents(k, c) : Expired(l)
     /\ \E i \in IF Incumbents(k, c) = {} THEN {NoLease} ELSE Incumbents(k, c) :
          LET slots == IF i = NoLease THEN slot ELSE FreedSlots(i)
              executions == IF i = NoLease THEN execution ELSE FreedExecutions(i)
              taken == [slots[e][s] EXCEPT !.state = "leased", !.lease = f, !.ordinal = @ + 1]
          IN /\ slot' = [slots EXCEPT ![e][s] = taken]
             /\ execution' = [executions EXCEPT ![e].version = @ + 1]
             /\ lease' = [ExpiredLeases({c, i}) EXCEPT ![f] =
                  [state |-> "active", execution |-> e, slot |-> s, key |-> k,
                   purpose |-> "provider", age |-> 0]]
     /\ fence' = f
     /\ UNCHANGED <<scmVars, stream, observed, start, final, artifact>>

\* expiresAt passes, then resultReportUntil; once the lease is over only the
\* latter is ever compared.
LeaseAges(l) ==
  /\ lease[l].state # "unused" /\ lease[l].age < 2
  /\ lease' = [lease EXCEPT ![l].age = IF lease[l].state = "active" THEN @ + 1 ELSE 2]
  /\ UNCHANGED <<scmVars, stream, execution, slot, fence, observed, start, final, artifact>>

\* expireLeaseDecision: a renewal or release that arrives late expires the
\* lease.  (A renewal in time moves expiresAt and nothing else.)
ExpireLease(l) ==
  /\ lease[l].state = "active" /\ Expired(l)
  /\ lease' = [lease EXCEPT ![l].state = "expired"]
  /\ slot' = FreedSlots(l) /\ execution' = FreedExecutions(l)
  /\ UNCHANGED <<scmVars, stream, fence, observed, start, final, artifact>>

ReleaseLease(l) ==
  /\ lease[l].state = "active" /\ ~Expired(l)
  /\ lease' = [lease EXCEPT ![l].state = "released"]
  /\ slot' = FreedSlots(l) /\ execution' = FreedExecutions(l)
  /\ UNCHANGED <<scmVars, stream, fence, observed, start, final, artifact>>

-----------------------------------------------------------------------------
(* Observations. *)

\* review-evidence accepts the provider's result while the report window is
\* open, whatever has become of the lease or of its execution.
CommitObservation(l) ==
  /\ lease[l].state # "unused" /\ lease[l].purpose = "provider"
  /\ lease[l].age < 2 /\ l \notin observed
  /\ observed' = observed \cup {l}
  /\ UNCHANGED <<scmVars, rowVars, fence, start, final>>

\* The slot can take an observation: e runs and the slot has no reference yet.
Attachable(e, s) == CurrentRunning(e) /\ slot[e][s].ref = NoLease

\* attachObservation: the holder of an unexpired lease attaches its result.
AttachFresh(l) ==
  LET e == lease[l].execution
      s == lease[l].slot
  IN /\ lease[l].state = "active" /\ ~Expired(l) /\ l \in observed
     /\ Attachable(e, s) /\ slot[e][s].lease = l
     /\ slot' = Satisfied(e, s, l)
     /\ execution' = Touched(e)
     /\ lease' = [lease EXCEPT ![l].state = "released"]
     /\ UNCHANGED <<scmVars, stream, fence, observed, start, final, artifact>>

\* attachReusableObservation: the result of another execution's lease.
AttachReusable(e, l) ==
  LET s == lease[l].slot
  IN /\ l \in observed /\ lease[l].execution # e
     /\ Attachable(e, s) /\ slot[e][s].lease = NoLease
     /\ slot' = Satisfied(e, s, l)
     /\ execution' = Touched(e)
     /\ UNCHANGED <<scmVars, stream, lease, fence, observed, start, final, artifact>>

\* adoptObservation: a result reported after the lease ended is taken through
\* a new, already released lease with a fresh token.
AdoptObservation(l) ==
  LET e == lease[l].execution
      s == lease[l].slot
      f == fence + 1
      source == IF lease[l].state # "active" THEN lease[l].state
                ELSE IF Expired(l) THEN "expired" ELSE "released"
  IN /\ l \in observed /\ lease[l].age < 2 /\ lease[l].state \in {"active", "released", "expired"}
     /\ Attachable(e, s) /\ slot[e][s].lease \in {NoLease, l}
     /\ fence < MaxFence
     /\ slot' = Satisfied(e, s, l)
     /\ execution' = Touched(e)
     /\ lease' = [lease EXCEPT ![l].state = source,
                               ![f] = [state |-> "released", execution |-> e, slot |-> s,
                                       key |-> lease[l].key, purpose |-> "adoption",
                                       age |-> 2]]
     /\ fence' = f
     /\ UNCHANGED <<scmVars, stream, observed, start, final, artifact>>

-----------------------------------------------------------------------------
(* Finalization. *)

\* The caller of finalizeExecution reads the versions it will expect.
ExpectVersions(e) ==
  /\ CurrentRunning(e)
  /\ final' = [final EXCEPT ![e] = [step |-> "expected", stream |-> stream.version,
                                    execution |-> execution[e].version, refs |-> NoRefs]]
  /\ UNCHANGED <<scmVars, rowVars, fence, observed, start>>

\* The server loads the execution and the observation references from which the
\* projection facts are derived.
ReadReferences(e) ==
  /\ final[e].step = "expected"
  /\ final' = [final EXCEPT ![e].step = "read",
                            ![e].refs = [s \in Slot |-> slot[e][s].ref]]
  /\ UNCHANGED <<scmVars, rowVars, fence, observed, start>>

\* Then it asks the SCM whether the execution's revision is still the head.
CheckHead(e) ==
  /\ final[e].step = "read"
  /\ head = execution[e].revision
  /\ final' = [final EXCEPT ![e].step = "resolved"]
  /\ UNCHANGED <<scmVars, rowVars, fence, observed, start>>

\* deriveCoverageState
Coverage(e) ==
  IF \A s \in Required : slot[e][s].state = "satisfied" THEN "completed" ELSE "partial"

\* The decision finalizeExecution makes under the lock.
Finalizable(e) ==
  /\ final[e].stream = stream.version
  /\ final[e].execution = execution[e].version
  /\ CurrentRunning(e) /\ CurrentRevision(e)
  /\ artifact[e] = NoArtifact

\* finalizeExecution commits: the artifact, its outbox event, the terminal
\* execution, its cancelled slots and revoked leases in one transaction.
Finalize(e) ==
  /\ final[e].step = "resolved" /\ Finalizable(e)
  /\ artifact' = [artifact EXCEPT ![e] = [coverage |-> Coverage(e), refs |-> final[e].refs]]
  /\ execution' = [execution EXCEPT ![e].state = Coverage(e), ![e].version = @ + 1]
  /\ slot' = [slot EXCEPT ![e] = Cancelled(e)]
  /\ lease' = Revoked(e)
  /\ stream' = [stream EXCEPT !.version = @ + 1]
  /\ final' = [final EXCEPT ![e] = IdleFinal]
  /\ UNCHANGED <<scmVars, fence, observed, start>>

\* finalizeExecution answers conflict or not_runnable, or a caller that does
\* not allow a partial result is told that coverage is incomplete.
RefuseFinalize(e) ==
  /\ final[e].step = "resolved"
  /\ Finalizable(e) => Coverage(e) = "partial"
  /\ final' = [final EXCEPT ![e] = IdleFinal]
  /\ UNCHANGED <<scmVars, rowVars, fence, observed, start>>

-----------------------------------------------------------------------------
(* Lifecycle commands. *)

\* supersedeExecution: asked for by the client with the execution's own
\* revision, or by a start whose request link conflicts with the head it saw.
Supersede(e, r) ==
  /\ execution[e].state \in {"planned", "running"}
  /\ e \in {stream.active, stream.prepared}
  /\ r \in {execution[e].revision, head}
  /\ execution' = [execution EXCEPT ![e] = Superseded(e, None)]
  /\ slot' = [slot EXCEPT ![e] = Cancelled(e)]
  /\ lease' = Revoked(e)
  /\ stream' = [stream EXCEPT !.version = @ + 1, !.revision = r,
                  !.active = IF @ = e THEN None ELSE @,
                  !.prepared = IF @ = e THEN None ELSE @]
  /\ UNCHANGED <<scmVars, fence, observed, start, final, artifact>>

\* failAbandonedPreparedExecution
FailAbandoned(e) ==
  /\ execution[e].state = "planned" /\ stream.prepared = e
  /\ execution[e].due >= 1
  /\ execution' = [execution EXCEPT ![e] = Failed(e)]
  /\ slot' = [slot EXCEPT ![e] = Cancelled(e)]
  /\ stream' = [stream EXCEPT !.version = @ + 1, !.prepared = None]
  /\ UNCHANGED <<scmVars, lease, fence, observed, start, final, artifact>>

\* failExpiredRunningExecution, called by the recovery worker for each row
\* its listing returned.
FailExpiredRunning(e) ==
  /\ CurrentRunning(e) /\ execution[e].due = 2
  /\ execution' = [execution EXCEPT ![e] = Failed(e)]
  /\ slot' = [slot EXCEPT ![e] = Cancelled(e)]
  /\ lease' = Revoked(e)
  /\ stream' = [stream EXCEPT !.version = @ + 1, !.active = None]
  /\ UNCHANGED <<scmVars, fence, observed, start, final, artifact>>

\* terminalizeWorkSlot: the client reports the slot's budget or deadline used.
TerminalizeSlot(e, s) ==
  /\ CurrentRunning(e) /\ CurrentRevision(e)
  /\ slot[e][s].state \notin TerminalSlot /\ slot[e][s].lease = NoLease
  /\ \E t \in {"exhausted", "cancelled"} : slot' = [slot EXCEPT ![e][s].state = t]
  /\ execution' = Touched(e)
  /\ UNCHANGED <<scmVars, stream, lease, fence, observed, start, final, artifact>>

\* The next deadline of e passes.  The API asks for leases that end with the
\* execution deadline, but the store counts their time from its own clock and
\* compares the two nowhere: a lease may outlive the deadline.
DeadlinePasses(e) ==
  /\ execution[e].state \in {"planned", "running"} /\ execution[e].due < 2
  /\ execution' = [execution EXCEPT ![e].due = @ + 1]
  /\ UNCHANGED <<scmVars, stream, slot, lease, fence, observed, start, final, artifact>>

-----------------------------------------------------------------------------
(* Retention. *)

\* review-evidence prunes an observation no execution references.
PruneObservation(l) ==
  /\ l \in observed /\ lease[l].age = 2
  /\ \A e \in Execution, s \in Slot : slot[e][s].ref # l
  /\ observed' = observed \ {l}
  /\ UNCHANGED <<scmVars, rowVars, fence, start, final>>

\* compactRetainedLeases replaces the row with a tombstone.
CompactLease(l) ==
  /\ lease[l].state \in {"released", "expired", "revoked"} /\ lease[l].age = 2
  /\ \A e \in Execution, s \in Slot : slot[e][s].lease # l
  /\ l \notin observed
  /\ lease' = [lease EXCEPT ![l].state = "compacted"]
  /\ UNCHANGED <<scmVars, stream, execution, slot, fence, observed, start, final, artifact>>

\* terminalPruneCandidates and executionIdsWithoutDependents: the stream does
\* not point at the execution and no lease row belongs to it.
Prunable(e) ==
  /\ execution[e].state \in TerminalExecution
  /\ e \notin {stream.active, stream.prepared}
  /\ \A l \in Lease : lease[l].execution = e => lease[l].state = "compacted"

PruneExecution(e) ==
  /\ Prunable(e)
  /\ execution' = [execution EXCEPT ![e].state = "pruned"]
  /\ slot' = [slot EXCEPT ![e] = [s \in Slot |-> FreshSlot]]
  /\ artifact' = [artifact EXCEPT ![e] = NoArtifact]
  /\ UNCHANGED <<scmVars, stream, lease, fence, observed, start, final>>

-----------------------------------------------------------------------------
Starting(e) == (\E r \in Revision : Prepare(e, r)) \/ Reload(e) \/ Postcheck(e)
               \/ Admit(e) \/ RejectStale(e) \/ DeferAdmission(e)
Leasing(e, s) == ExhaustSlot(e, s) \/ \E k \in Key : AcquireLease(e, s, k)
Holding(l) == LeaseAges(l) \/ ExpireLease(l) \/ ReleaseLease(l)
Reporting(l) == CommitObservation(l) \/ AttachFresh(l) \/ AdoptObservation(l)
                \/ \E e \in Execution : AttachReusable(e, l)
Finalizing(e) == ExpectVersions(e) \/ ReadReferences(e) \/ CheckHead(e)
                 \/ Finalize(e) \/ RefuseFinalize(e)
Ending(e) == (\E r \in Revision : Supersede(e, r)) \/ FailAbandoned(e)
             \/ FailExpiredRunning(e) \/ DeadlinePasses(e)
Retaining == \/ \E l \in Lease : PruneObservation(l) \/ CompactLease(l)
             \/ \E e \in Execution : PruneExecution(e)

Next ==
  \/ \E r \in Revision : Push(r)
  \/ \E e \in Execution : Starting(e) \/ Finalizing(e) \/ Ending(e)
  \/ \E e \in Execution, s \in Slot : Leasing(e, s) \/ TerminalizeSlot(e, s)
  \/ \E l \in Lease : Holding(l) \/ Reporting(l)
  \/ Retaining

Spec == Init /\ [][Next]_vars
-----------------------------------------------------------------------------
(* What the aggregate promises. *)

StreamRow == [version : Nat, active : Execution \cup {None},
              prepared : Execution \cup {None}, generation : Nat,
              revision : Revision \cup {None}]
ExecutionState == TerminalExecution \cup {"absent", "planned", "running", "pruned"}
ExecutionRow ==
  [state : ExecutionState, version : Nat, generation : Nat, revision : Revision \cup {None},
   by : Execution \cup {None}, due : 0 .. 2]
SlotState == TerminalSlot \cup {"pending", "leased"}
SlotRow == [state : SlotState, lease : Lease \cup {NoLease},
            ordinal : Nat, ref : Lease \cup {NoLease}]
LeaseState == {"active", "released", "expired", "revoked", "compacted"}
GrantedLease ==
  [state : LeaseState, execution : Execution, slot : Slot, key : Key,
   purpose : {"provider", "adoption"}, age : 0 .. 2]
LeaseRow == GrantedLease \cup {UnusedLease}
Refs == [Slot -> Lease \cup {NoLease}]
StartRow == [step : {"idle", "loaded", "checked"}, version : Nat,
             observed : Revision \cup {None}]
FinalRow == [step : {"idle", "expected", "read", "resolved"}, stream : Nat, execution : Nat,
             refs : Refs]
ArtifactRow == [coverage : {"none", "completed", "partial"}, refs : Refs]

TypeOK ==
  /\ head \in Revision /\ pushed \subseteq Revision
  /\ stream \in StreamRow
  /\ execution \in [Execution -> ExecutionRow]
  /\ slot \in [Execution -> [Slot -> SlotRow]]
  /\ lease \in [Lease -> LeaseRow]
  /\ fence \in 0 .. MaxFence
  /\ observed \subseteq Lease
  /\ start \in [Execution -> StartRow]
  /\ final \in [Execution -> FinalRow]
  /\ artifact \in [Execution -> ArtifactRow]

\* A work slot points at a lease exactly when that lease is active, and only
\* the running execution of the stream has active leases: supersession,
\* finalization, expiry and failure leave no holder behind.
LeaseSlotCoupling ==
  /\ \A l \in Lease : lease[l].state = "active" =>
       CurrentRunning(lease[l].execution) /\ Holds(l)
  /\ \A e \in Execution, s \in Slot :
       LET l == slot[e][s].lease
       IN /\ l # NoLease <=> slot[e][s].state = "leased"
          /\ l # NoLease => /\ lease[l].state = "active"
                            /\ lease[l].execution = e /\ lease[l].slot = s

\* A holder is never overtaken: every other provider lease granted for its
\* slot, or for its provider invocation in any slot, has a smaller token and
\* is over.
HolderIsNewest ==
  \A l, m \in Lease :
    /\ lease[l].state = "active" /\ l # m
    /\ lease[m].state # "unused" /\ lease[m].purpose = "provider"
    /\ \/ lease[m].key = lease[l].key
       \/ lease[m].execution = lease[l].execution /\ lease[m].slot = lease[l].slot
    => m < l /\ lease[m].state # "active"

\* A work slot never gets more provider leases than its attempt budget, across
\* expiries, releases and takeovers, and its next ordinal counts them.
AttemptsWithinBudget ==
  \A e \in Execution, s \in Slot :
    LET attempts == {l \in Lease : lease[l].execution = e /\ lease[l].slot = s
                                   /\ lease[l].purpose = "provider"}
    IN /\ Cardinality(attempts) <= AttemptBudget
       /\ execution[e].state # "pruned" => slot[e][s].ordinal = Cardinality(attempts) + 1

\* The stream's pointers and the execution states agree: the prepared pointer
\* names the one planned execution and the newest generation, the active
\* pointer names the one running execution or the last one finalized.
PointersAgree ==
  /\ \A e \in Execution : execution[e].state = "planned" <=> stream.prepared = e
  /\ \A e \in Execution : execution[e].state = "running" => stream.active = e
  /\ stream.active # None =>
       execution[stream.active].state \in {"running", "completed", "partial"}
  /\ stream.prepared # None =>
       execution[stream.prepared].generation = stream.generation

\* The execution that becomes active is the newest generation ever allocated:
\* a delayed start cannot take the stream back to an older one.
OnlyNewestAdmitted ==
  [][stream'.active \notin {None, stream.active} =>
       \A x \in Execution :
         execution[x].generation <= execution[stream'.active].generation]_vars

\* An execution that ended stays as it ended, with its slots and its artifact,
\* until retention removes it whole: no late report, retry or admission
\* reopens it.
TerminalFrozen ==
  [][\A e \in Execution : execution[e].state \in TerminalExecution =>
       \/ execution'[e].state = "pruned"
       \/ execution'[e] = execution[e] /\ slot'[e] = slot[e] /\ artifact'[e] = artifact[e]]_vars

\* A satisfied slot keeps the observation it accepted.
AcceptedStays ==
  [][\A e \in Execution, s \in Slot :
       slot[e][s].ref # NoLease /\ execution'[e].state # "pruned" =>
         slot'[e][s].ref = slot[e][s].ref /\ slot'[e][s].state = "satisfied"]_vars

\* The artifact was derived from exactly the observations the execution ended
\* with, although they were read before the transaction, and its coverage is
\* what those observations cover.
ArtifactMatchesEvidence ==
  \A e \in Execution : artifact[e].coverage # "none" =>
    /\ execution[e].state = artifact[e].coverage
    /\ artifact[e].refs = [s \in Slot |-> slot[e][s].ref]
    /\ artifact[e].coverage = "completed" <=>
         \A s \in Required : artifact[e].refs[s] # NoLease

\* What an execution refers to is still there: the observation, the row of the
\* lease that reported it and that lease's execution.
ReferencesResolve ==
  \A e \in Execution, s \in Slot :
    LET l == slot[e][s].ref
    IN l # NoLease => /\ l \in observed
                      /\ lease[l].state \notin {"unused", "compacted"}
                      /\ execution[lease[l].execution].state \notin {"absent", "pruned"}

\* The compare-and-set of the commands is sound: no change of a stream row,
\* of an execution or of one of its slots leaves the version it had.
VersionsMove ==
  [][/\ stream' # stream => stream'.version > stream.version
     /\ \A e \in Execution :
          \/ execution'[e].version > execution[e].version
          \/ execution'[e].state = "pruned"
          \/ slot'[e] = slot[e] /\ [execution'[e] EXCEPT !.due = 0]
                                     = [execution[e] EXCEPT !.due = 0]]_vars

\* validatePublicationPermit, the checks made against the stream.
PermitCurrent(e) ==
  /\ artifact[e] # NoArtifact
  /\ stream.active = e /\ stream.generation = execution[e].generation
  /\ CurrentRevision(e)

\* A publication permit that was refused as superseded or for another revision
\* is refused for ever: publication of an old review cannot come back.
PermitNeverRevives ==
  [][\A e \in Execution :
       artifact[e] # NoArtifact /\ ~PermitCurrent(e) => ~PermitCurrent(e)']_vars

-----------------------------------------------------------------------------
(* The recovery worker lists expired running executions on every tick, and   *)
(* deadlines pass; nothing obliges a client to take another step.            *)
Fairness == \A e \in Execution : WF_vars(DeadlinePasses(e)) /\ WF_vars(FailExpiredRunning(e))
LiveSpec == Spec /\ Fairness

\* No execution runs for ever: whatever its workers do, it is finalized,
\* superseded, or failed by recovery.
RunningEnds ==
  \A e \in Execution : execution[e].state = "running" ~> execution[e].state # "running"

\* A prepared execution whose start died is failed by a sweeper once its
\* admission deadline has passed, and its stream pointer is cleared.
PlannedEnds ==
  \A e \in Execution : execution[e].state = "planned" ~> execution[e].state # "planned"

\* Retention keeps running, on leases, observations and executions alike.
RetentionSpec ==
  /\ LiveSpec
  /\ \A l \in Lease : /\ WF_vars(LeaseAges(l))
                      /\ WF_vars(PruneObservation(l)) /\ WF_vars(CompactLease(l))
  /\ \A e \in Execution : WF_vars(PruneExecution(e))

\* A terminal execution the stream no longer points at is eventually pruned.
RetentionDrains ==
  \A e \in Execution :
    execution[e].state \in TerminalExecution /\ e \notin {stream.active, stream.prepared}
      ~> execution[e].state = "pruned"
=============================================================================
