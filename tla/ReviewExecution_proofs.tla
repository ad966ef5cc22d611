---------------------- MODULE ReviewExecution_proofs ----------------------
(***************************************************************************)
(* Proofs, for every set of executions, slots, keys and revisions, every   *)
(* attempt budget and every number of leases, that the rows of the         *)
(* ReviewExecution aggregate keep their types, that the stream's pointers  *)
(* and the execution states agree, and that only the newest generation is  *)
(* admitted.                                                               *)
(***************************************************************************)
EXTENDS ReviewExecution, TLAPS

-----------------------------------------------------------------------------
(* The row updates the commands share keep the rows' types. *)

LEMMA NoLeaseIsNoToken == NoLease \notin Lease
  BY DEF NoLease, Lease

LEMMA NextToken == TypeOK /\ fence < MaxFence => fence + 1 \in Lease
  BY FenceAssumption DEF TypeOK, Lease

\* The states a command writes.
LEMMA WrittenStates ==
  /\ {"planned", "running", "superseded", "completed", "partial", "failed", "pruned", "absent"}
       \subseteq ExecutionState
  /\ {"pending", "leased", "satisfied", "exhausted", "cancelled"} \subseteq SlotState
  /\ {"active", "released", "expired", "revoked", "compacted"} \subseteq LeaseState
  BY DEF ExecutionState, SlotState, LeaseState, TerminalExecution, TerminalSlot

\* A lease row that is not unused names an execution, a slot and a key.
LEMMA GrantedRow ==
  ASSUME TypeOK, NEW l \in Lease, lease[l].state # "unused"
  PROVE  lease[l] \in GrantedLease
  BY DEF TypeOK, LeaseRow, UnusedLease

LEMMA GrantedState ==
  ASSUME NEW r \in GrantedLease, NEW st \in LeaseState
  PROVE  [r EXCEPT !.state = st] \in LeaseRow
  BY DEF GrantedLease, LeaseRow

\* A row of an execution after one of the commands.
LEMMA NextExecutionRow ==
  ASSUME NEW r \in ExecutionRow, NEW st \in ExecutionState, NEW x \in Execution \cup {None}
  PROVE  /\ [r EXCEPT !.state = st] \in ExecutionRow
         /\ [r EXCEPT !.version = @ + 1] \in ExecutionRow
         /\ [r EXCEPT !.state = st, !.version = @ + 1] \in ExecutionRow
         /\ [r EXCEPT !.state = st, !.version = @ + 1, !.by = x] \in ExecutionRow
<1>1. r.version + 1 \in Nat
  BY DEF ExecutionRow
<1> QED
  BY <1>1 DEF ExecutionRow

LEMMA EndedExecutionRow ==
  ASSUME TypeOK, NEW e \in Execution, NEW x \in Execution \cup {None}
  PROVE  /\ Superseded(e, x) \in ExecutionRow
         /\ Failed(e) \in ExecutionRow
         /\ Touched(e) \in [Execution -> ExecutionRow]
<1>1. execution[e] \in ExecutionRow
  BY DEF TypeOK
<1>2. "superseded" \in ExecutionState /\ "failed" \in ExecutionState
  BY WrittenStates
<1>3. Superseded(e, x) \in ExecutionRow
  BY <1>1, <1>2, NextExecutionRow DEF Superseded
<1>4. Failed(e) \in ExecutionRow
  BY <1>1, <1>2, NextExecutionRow DEF Failed
<1>5. [execution[e] EXCEPT !.version = @ + 1] \in ExecutionRow
  BY <1>1, <1>2, NextExecutionRow
<1>6. Touched(e) \in [Execution -> ExecutionRow]
  BY <1>5 DEF TypeOK, Touched
<1> QED
  BY <1>3, <1>4, <1>6

\* A work slot row after one of the commands.
LEMMA NextSlotRow ==
  ASSUME NEW r \in SlotRow, NEW st \in SlotState, NEW l \in Lease \cup {NoLease},
         NEW o \in Lease \cup {NoLease}
  PROVE  /\ [r EXCEPT !.state = st] \in SlotRow
         /\ [r EXCEPT !.state = st, !.lease = l] \in SlotRow
         /\ [r EXCEPT !.lease = l, !.state = st] \in SlotRow
         /\ [r EXCEPT !.state = st, !.lease = l, !.ref = o] \in SlotRow
         /\ [r EXCEPT !.state = st, !.lease = l, !.ordinal = @ + 1] \in SlotRow
<1>1. r.ordinal + 1 \in Nat
  BY DEF SlotRow
<1> QED
  BY <1>1 DEF SlotRow

LEMMA CancelledSlots ==
  ASSUME TypeOK, NEW e \in Execution
  PROVE  Cancelled(e) \in [Slot -> SlotRow]
<1>1. \A s \in Slot : slot[e][s] \in SlotRow
  BY DEF TypeOK
<1>2. "cancelled" \in SlotState
  BY WrittenStates
<1>3. \A s \in Slot : [slot[e][s] EXCEPT !.state = "cancelled", !.lease = NoLease] \in SlotRow
  BY <1>1, <1>2, NextSlotRow
<1> QED
  BY <1>1, <1>3 DEF Cancelled

LEMMA EndedLeases ==
  ASSUME TypeOK, NEW e, NEW X
  PROVE  /\ Revoked(e) \in [Lease -> LeaseRow]
         /\ ExpiredLeases(X) \in [Lease -> LeaseRow]
<1>1. ASSUME NEW l \in Lease, lease[l].state = "active"
      PROVE  /\ [lease[l] EXCEPT !.state = "revoked"] \in LeaseRow
             /\ [lease[l] EXCEPT !.state = "expired"] \in LeaseRow
  BY <1>1, GrantedRow, GrantedState, WrittenStates
<1> QED
  BY <1>1 DEF TypeOK, Revoked, ExpiredLeases

LEMMA FreedRows ==
  ASSUME TypeOK, NEW l \in Lease, lease[l].state = "active"
  PROVE  /\ FreedSlots(l) \in [Execution -> [Slot -> SlotRow]]
         /\ FreedExecutions(l) \in [Execution -> ExecutionRow]
<1>1. lease[l].execution \in Execution /\ lease[l].slot \in Slot
  BY GrantedRow DEF GrantedLease
<1>2. ASSUME NEW sl \in SlotRow
      PROVE  Vacated(sl) \in SlotRow
  BY NextSlotRow, WrittenStates DEF Vacated
<1>3. FreedSlots(l) \in [Execution -> [Slot -> SlotRow]]
  BY <1>1, <1>2 DEF FreedSlots, TypeOK
<1>4. FreedExecutions(l) \in [Execution -> ExecutionRow]
  BY <1>1, EndedExecutionRow DEF FreedExecutions, TypeOK
<1> QED
  BY <1>3, <1>4

LEMMA SlotUpdate ==
  ASSUME NEW f \in [Execution -> [Slot -> SlotRow]], NEW e \in Execution, NEW s \in Slot,
         NEW r \in SlotRow
  PROVE  [f EXCEPT ![e][s] = r] \in [Execution -> [Slot -> SlotRow]]
  OBVIOUS

LEMMA SatisfiedSlots ==
  ASSUME TypeOK, NEW e \in Execution, NEW s, NEW l \in Lease
  PROVE  Satisfied(e, s, l) \in [Execution -> [Slot -> SlotRow]]
<1>1. CASE s \in Slot
  <2>1. slot[e][s] \in SlotRow
    BY <1>1 DEF TypeOK
  <2>2. [slot[e][s] EXCEPT !.state = "satisfied", !.lease = NoLease, !.ref = l] \in SlotRow
    BY <2>1, NextSlotRow, WrittenStates
  <2> QED
    BY <1>1, <2>2 DEF TypeOK, Satisfied
<1>2. CASE s \notin Slot
  BY <1>2 DEF TypeOK, Satisfied
<1> QED
  BY <1>1, <1>2

-----------------------------------------------------------------------------
(* Type correctness. *)

LEMMA InitType == Init => TypeOK
  BY FenceAssumption
  DEF Init, TypeOK, StreamRow, ExecutionRow, SlotRow, LeaseRow, StartRow, FinalRow,
      ArtifactRow, Refs, EmptyStream, AbsentExecution, FreshSlot, NoRefs, NoArtifact,
      IdleStart, IdleFinal, ExecutionState, SlotState

\* What the commands write to a stream row and to what a start has read.
LEMMA NextStreamRow ==
  ASSUME NEW r \in StreamRow, NEW a \in Execution \cup {None},
         NEW p \in Execution \cup {None}, NEW v \in Revision \cup {None}
  PROVE  /\ [r EXCEPT !.version = @ + 1] \in StreamRow
         /\ [r EXCEPT !.version = @ + 1, !.active = a] \in StreamRow
         /\ [r EXCEPT !.version = @ + 1, !.prepared = p] \in StreamRow
         /\ [r EXCEPT !.version = @ + 1, !.prepared = p, !.generation = @ + 1] \in StreamRow
         /\ [r EXCEPT !.version = @ + 1, !.active = a, !.prepared = p, !.revision = v]
              \in StreamRow
         /\ [r EXCEPT !.version = @ + 1, !.revision = v, !.active = a, !.prepared = p]
              \in StreamRow
<1>1. r.version + 1 \in Nat /\ r.generation + 1 \in Nat
  BY DEF StreamRow
<1> QED
  BY <1>1 DEF StreamRow

LEMMA StartRows ==
  /\ IdleStart \in StartRow
  /\ \A v \in Nat : [step |-> "loaded", version |-> v, observed |-> None] \in StartRow
  /\ \A r \in StartRow, o \in Revision \cup {None} :
       [r EXCEPT !.step = "checked", !.observed = o] \in StartRow
  BY DEF StartRow, IdleStart

LEMMA StartingType ==
  ASSUME TypeOK, NEW e \in Execution, Starting(e)
  PROVE  TypeOK'
<1> USE DEF scmVars, rowVars
<1>1. stream.version \in Nat /\ stream.version + 1 \in Nat /\ stream.generation + 1 \in Nat
  BY DEF TypeOK, StreamRow
<1>2. execution[e] \in ExecutionRow /\ execution[e].revision \in Revision \cup {None}
  BY DEF TypeOK, ExecutionRow
<1>3. ASSUME NEW r \in Revision, Prepare(e, r) PROVE TypeOK'
  <2>1. stream' \in StreamRow
    BY <1>3, NextStreamRow DEF Prepare, TypeOK
  <2>2. start' \in [Execution -> StartRow]
    BY <1>1, <1>3, StartRows DEF Prepare, TypeOK
  <2>3. [AbsentExecution EXCEPT !.state = "planned", !.version = 1,
           !.generation = stream.generation + 1, !.revision = r] \in ExecutionRow
    <3>1. "planned" \in ExecutionState /\ "absent" \in ExecutionState
      BY WrittenStates
    <3>2. AbsentExecution \in ExecutionRow
      BY <3>1 DEF ExecutionRow, AbsentExecution
    <3> QED
      BY <1>1, <3>1, <3>2 DEF ExecutionRow
  <2>4. execution' \in [Execution -> ExecutionRow]
    BY <1>3, <2>3, EndedExecutionRow DEF Prepare, TypeOK
  <2>5. slot' \in [Execution -> [Slot -> SlotRow]]
    BY <1>3, CancelledSlots DEF Prepare, TypeOK
  <2> QED
    BY <1>3, <2>1, <2>2, <2>4, <2>5 DEF Prepare, TypeOK
<1>4. CASE Reload(e)
  <2>1. start' \in [Execution -> StartRow]
    BY <1>1, <1>4, StartRows DEF Reload, TypeOK
  <2> QED
    BY <1>4, <2>1 DEF Reload, TypeOK
<1>5. CASE Postcheck(e)
  <2>1. PICK r \in {head, None} :
          start' = [start EXCEPT ![e].step = "checked", ![e].observed = r]
    BY <1>5 DEF Postcheck
  <2>2. [start[e] EXCEPT !.step = "checked", !.observed = r] \in StartRow
    BY StartRows DEF TypeOK
  <2>3. start' = [start EXCEPT ![e] = [start[e] EXCEPT !.step = "checked", !.observed = r]]
    BY <2>1 DEF TypeOK
  <2>4. start' \in [Execution -> StartRow]
    BY <2>2, <2>3 DEF TypeOK
  <2> QED
    BY <1>5, <2>4 DEF Postcheck, TypeOK
<1>6. CASE Admit(e)
  <2>1. stream' \in StreamRow
    BY <1>2, <1>6, NextStreamRow DEF Admit, TypeOK
  <2>2. start' \in [Execution -> StartRow]
    BY <1>6, StartRows DEF Admit, TypeOK
  <2>3. [execution[e] EXCEPT !.state = "running", !.version = @ + 1] \in ExecutionRow
    BY <1>2, NextExecutionRow, WrittenStates
  <2>4. execution' \in [Execution -> ExecutionRow]
    BY <1>6, <2>3, EndedExecutionRow DEF Admit, TypeOK
  <2>5. slot' \in [Execution -> [Slot -> SlotRow]]
    BY <1>6, CancelledSlots DEF Admit, TypeOK
  <2>6. lease' \in [Lease -> LeaseRow]
    BY <1>6, EndedLeases DEF Admit, TypeOK
  <2> QED
    BY <1>6, <2>1, <2>2, <2>4, <2>5, <2>6 DEF Admit, TypeOK
<1>7. CASE RejectStale(e)
  <2>1. stream' \in StreamRow
    BY <1>7, NextStreamRow DEF RejectStale, TypeOK
  <2>2. start' \in [Execution -> StartRow]
    BY <1>7, StartRows DEF RejectStale, TypeOK
  <2>3. execution' \in [Execution -> ExecutionRow]
    BY <1>7, EndedExecutionRow DEF RejectStale, TypeOK
  <2>4. slot' \in [Execution -> [Slot -> SlotRow]]
    BY <1>7, CancelledSlots DEF RejectStale, TypeOK
  <2> QED
    BY <1>7, <2>1, <2>2, <2>3, <2>4 DEF RejectStale, TypeOK
<1>8. CASE DeferAdmission(e)
  <2>1. start' \in [Execution -> StartRow]
    BY <1>8, StartRows DEF DeferAdmission, TypeOK
  <2> QED
    BY <1>8, <2>1 DEF DeferAdmission, TypeOK
<1> QED
  BY <1>3, <1>4, <1>5, <1>6, <1>7, <1>8 DEF Starting
LEMMA LeasingType ==
  ASSUME TypeOK, NEW e \in Execution, NEW s \in Slot, Leasing(e, s)
  PROVE  TypeOK'
<1> USE DEF scmVars
<1>1. slot[e][s] \in SlotRow
  BY DEF TypeOK
<1>2. CASE ExhaustSlot(e, s)
  <2>1. [slot[e][s] EXCEPT !.state = "exhausted", !.lease = NoLease] \in SlotRow
    BY <1>1, NextSlotRow, WrittenStates
  <2>2. slot' \in [Execution -> [Slot -> SlotRow]]
    BY <1>2, <2>1 DEF ExhaustSlot, TypeOK
  <2>3. lease' \in [Lease -> LeaseRow] /\ execution' \in [Execution -> ExecutionRow]
    BY <1>2, EndedLeases, EndedExecutionRow DEF ExhaustSlot
  <2> QED
    BY <1>2, <2>2, <2>3 DEF ExhaustSlot, TypeOK
<1>3. ASSUME NEW k \in Key, AcquireLease(e, s, k) PROVE TypeOK'
  <2> DEFINE c == slot[e][s].lease
             f == fence + 1
             slots(i) == IF i = NoLease THEN slot ELSE FreedSlots(i)
             executions(i) == IF i = NoLease THEN execution ELSE FreedExecutions(i)
             granted == [state |-> "active", execution |-> e, slot |-> s, key |-> k,
                         purpose |-> "provider", age |-> 0]
  <2>1. f \in Lease /\ f \in 0 .. MaxFence
    BY <1>3, NextToken, FenceAssumption DEF AcquireLease, Lease
  <2>2. PICK i \in IF Incumbents(k, c) = {} THEN {NoLease} ELSE Incumbents(k, c) :
          /\ slot' = [slots(i) EXCEPT ![e][s] =
               [slots(i)[e][s] EXCEPT !.state = "leased", !.lease = f, !.ordinal = @ + 1]]
          /\ execution' = [executions(i) EXCEPT ![e].version = @ + 1]
          /\ lease' = [ExpiredLeases({c, i}) EXCEPT ![f] = granted]
    BY <1>3 DEF AcquireLease
  <2>3. i # NoLease => i \in Lease /\ lease[i].state = "active"
    BY DEF Incumbents
  <2>4. slots(i) \in [Execution -> [Slot -> SlotRow]]
    BY <2>3, FreedRows DEF TypeOK
  <2>5. executions(i) \in [Execution -> ExecutionRow]
    BY <2>3, FreedRows DEF TypeOK
  <2>6. slot' \in [Execution -> [Slot -> SlotRow]]
    <3> HIDE DEF slots
    <3>1. slots(i)[e][s] \in SlotRow
      BY <2>4
    <3>2. [slots(i)[e][s] EXCEPT !.state = "leased", !.lease = f, !.ordinal = @ + 1] \in SlotRow
      BY <2>1, <3>1, NextSlotRow, WrittenStates
    <3> QED
      BY <2>2, <2>4, <3>2, SlotUpdate
  <2>7. execution' \in [Execution -> ExecutionRow]
    <3> HIDE DEF executions
    <3>1. executions(i)[e] \in ExecutionRow
      BY <2>5
    <3>2. [executions(i)[e] EXCEPT !.version = @ + 1] \in ExecutionRow
      BY <3>1, NextExecutionRow, WrittenStates
    <3> QED
      BY <2>2, <2>5, <3>2
  <2>8. granted \in LeaseRow
    <3>1. "active" \in LeaseState
      BY WrittenStates
    <3> QED
      BY <3>1 DEF LeaseRow, GrantedLease
  <2>9. lease' \in [Lease -> LeaseRow]
    BY <2>1, <2>2, <2>8, EndedLeases
  <2> QED
    BY <1>3, <2>1, <2>6, <2>7, <2>9 DEF AcquireLease, TypeOK
<1> QED
  BY <1>2, <1>3 DEF Leasing

LEMMA HoldingType ==
  ASSUME TypeOK, NEW l \in Lease, Holding(l)
  PROVE  TypeOK'
<1> USE DEF scmVars
<1>1. CASE LeaseAges(l)
  <2>1. lease[l] \in GrantedLease
    BY <1>1, GrantedRow DEF LeaseAges
  <2>2. lease[l].age \in 0 .. 2 /\ lease[l].age < 2
    BY <1>1, <2>1 DEF LeaseAges, GrantedLease
  <2>3. \A a \in 0 .. 2 : [lease[l] EXCEPT !.age = a] \in LeaseRow
    BY <2>1 DEF GrantedLease, LeaseRow
  <2>4. lease[l].age + 1 \in 0 .. 2
    BY <2>2
  <2> DEFINE a == IF lease[l].state = "active" THEN lease[l].age + 1 ELSE 2
  <2>5. a \in 0 .. 2 /\ lease' = [lease EXCEPT ![l].age = a]
    BY <1>1, <2>4 DEF LeaseAges
  <2>6. lease' \in [Lease -> LeaseRow]
    BY <2>3, <2>5 DEF TypeOK
  <2> QED
    BY <1>1, <2>6 DEF LeaseAges, TypeOK
<1>2. CASE ExpireLease(l)
  <2>1. [lease[l] EXCEPT !.state = "expired"] \in LeaseRow
    BY <1>2, GrantedRow, GrantedState, WrittenStates DEF ExpireLease
  <2> QED
    BY <1>2, <2>1, FreedRows DEF ExpireLease, TypeOK
<1>3. CASE ReleaseLease(l)
  <2>1. [lease[l] EXCEPT !.state = "released"] \in LeaseRow
    BY <1>3, GrantedRow, GrantedState, WrittenStates DEF ReleaseLease
  <2> QED
    BY <1>3, <2>1, FreedRows DEF ReleaseLease, TypeOK
<1> QED
  BY <1>1, <1>2, <1>3 DEF Holding

LEMMA ReportingType ==
  ASSUME TypeOK, NEW l \in Lease, Reporting(l)
  PROVE  TypeOK'
<1> USE DEF scmVars, rowVars
<1>1. CASE CommitObservation(l)
  BY <1>1 DEF CommitObservation, TypeOK
<1>2. CASE AttachFresh(l)
  <2>1. lease[l] \in GrantedLease
    BY <1>2, GrantedRow DEF AttachFresh
  <2>2. lease[l].execution \in Execution /\ lease[l].slot \in Slot
    BY <2>1 DEF GrantedLease
  <2>3. [lease[l] EXCEPT !.state = "released"] \in LeaseRow
    BY <2>1, GrantedState, WrittenStates
  <2> QED
    BY <1>2, <2>2, <2>3, SatisfiedSlots, EndedExecutionRow DEF AttachFresh, TypeOK
<1>3. CASE AdoptObservation(l)
  <2> DEFINE f == fence + 1
             source == IF lease[l].state # "active" THEN lease[l].state
                       ELSE IF Expired(l) THEN "expired" ELSE "released"
             adopted == [state |-> "released", execution |-> lease[l].execution,
                         slot |-> lease[l].slot, key |-> lease[l].key,
                         purpose |-> "adoption", age |-> 2]
  <2>1. lease[l] \in GrantedLease
    BY <1>3, GrantedRow DEF AdoptObservation
  <2>2. /\ lease[l].execution \in Execution /\ lease[l].slot \in Slot
        /\ lease[l].key \in Key /\ lease[l].state \in LeaseState
    BY <2>1 DEF GrantedLease
  <2>3. f \in Lease /\ f \in 0 .. MaxFence
    BY <1>3, NextToken, FenceAssumption DEF AdoptObservation, Lease
  <2>4. source \in LeaseState
    BY <2>2, WrittenStates
  <2>5. [lease[l] EXCEPT !.state = source] \in LeaseRow
    BY <2>1, <2>4, GrantedState
  <2>6. adopted \in LeaseRow
    <3>1. "released" \in LeaseState
      BY WrittenStates
    <3> QED
      BY <2>2, <3>1 DEF LeaseRow, GrantedLease
  <2>7. lease' = [lease EXCEPT ![l].state = source, ![f] = adopted]
    BY <1>3 DEF AdoptObservation
  <2>8. lease' \in [Lease -> LeaseRow]
    BY <2>3, <2>5, <2>6, <2>7 DEF TypeOK
  <2>9. /\ slot' \in [Execution -> [Slot -> SlotRow]]
        /\ execution' \in [Execution -> ExecutionRow]
    BY <1>3, <2>2, SatisfiedSlots, EndedExecutionRow DEF AdoptObservation
  <2> QED
    BY <1>3, <2>3, <2>8, <2>9 DEF AdoptObservation, TypeOK
<1>4. ASSUME NEW e \in Execution, AttachReusable(e, l) PROVE TypeOK'
  BY <1>4, SatisfiedSlots, EndedExecutionRow DEF AttachReusable, TypeOK
<1> QED
  BY <1>1, <1>2, <1>3, <1>4 DEF Reporting

LEMMA FinalizingType ==
  ASSUME TypeOK, NEW e \in Execution, Finalizing(e)
  PROVE  TypeOK'
<1> USE DEF scmVars, rowVars
<1>1. stream.version \in Nat /\ execution[e].version \in Nat
  BY DEF TypeOK, StreamRow, ExecutionRow
<1>2. NoRefs \in Refs /\ [s \in Slot |-> slot[e][s].ref] \in Refs /\ final[e].refs \in Refs
  BY DEF TypeOK, NoRefs, Refs, SlotRow, FinalRow
<1>3. IdleFinal \in FinalRow
  BY <1>2 DEF IdleFinal, FinalRow
<1>4. CASE ExpectVersions(e)
  <2>1. [step |-> "expected", stream |-> stream.version, execution |-> execution[e].version,
         refs |-> NoRefs] \in FinalRow
    BY <1>1, <1>2 DEF FinalRow
  <2> QED
    BY <1>4, <2>1 DEF ExpectVersions, TypeOK
<1>5. CASE ReadReferences(e)
  <2> DEFINE refs == [s \in Slot |-> slot[e][s].ref]
  <2>1. [final[e] EXCEPT !.step = "read", !.refs = refs] \in FinalRow
    BY <1>2 DEF TypeOK, FinalRow
  <2>2. final' = [final EXCEPT ![e] = [final[e] EXCEPT !.step = "read", !.refs = refs]]
    BY <1>5 DEF ReadReferences, TypeOK
  <2>3. final' \in [Execution -> FinalRow]
    BY <2>1, <2>2 DEF TypeOK
  <2> QED
    BY <1>5, <2>3 DEF ReadReferences, TypeOK
<1>6. CASE CheckHead(e)
  <2>1. [final[e] EXCEPT !.step = "resolved"] \in FinalRow
    BY DEF TypeOK, FinalRow
  <2>2. final' = [final EXCEPT ![e] = [final[e] EXCEPT !.step = "resolved"]]
    BY <1>6 DEF CheckHead, TypeOK
  <2>3. final' \in [Execution -> FinalRow]
    BY <2>1, <2>2 DEF TypeOK
  <2> QED
    BY <1>6, <2>3 DEF CheckHead, TypeOK
<1>7. CASE Finalize(e)
  <2>1. Coverage(e) \in {"completed", "partial"} /\ Coverage(e) \in ExecutionState
    BY WrittenStates DEF Coverage
  <2>2. [coverage |-> Coverage(e), refs |-> final[e].refs] \in ArtifactRow
    BY <1>2, <2>1 DEF ArtifactRow
  <2>3. [execution[e] EXCEPT !.state = Coverage(e), !.version = @ + 1] \in ExecutionRow
    BY <2>1, NextExecutionRow DEF TypeOK
  <2>4. execution' = [execution EXCEPT ![e] =
                       [execution[e] EXCEPT !.state = Coverage(e), !.version = @ + 1]]
    BY <1>7 DEF Finalize, TypeOK
  <2>5. execution' \in [Execution -> ExecutionRow]
    BY <2>3, <2>4 DEF TypeOK
  <2>6. stream' \in StreamRow
    BY <1>7, NextStreamRow DEF Finalize, TypeOK
  <2>7. slot' \in [Execution -> [Slot -> SlotRow]] /\ lease' \in [Lease -> LeaseRow]
    BY <1>7, CancelledSlots, EndedLeases DEF Finalize, TypeOK
  <2> QED
    BY <1>3, <1>7, <2>2, <2>5, <2>6, <2>7 DEF Finalize, TypeOK
<1>8. CASE RefuseFinalize(e)
  BY <1>3, <1>8 DEF RefuseFinalize, TypeOK
<1> QED
  BY <1>4, <1>5, <1>6, <1>7, <1>8 DEF Finalizing

LEMMA EndingType ==
  ASSUME TypeOK, NEW e \in Execution, Ending(e)
  PROVE  TypeOK'
<1> USE DEF scmVars
<1>1. ASSUME NEW r \in Revision, Supersede(e, r) PROVE TypeOK'
  <2>1. stream' \in StreamRow
    <3> DEFINE a == IF stream.active = e THEN None ELSE stream.active
               p == IF stream.prepared = e THEN None ELSE stream.prepared
    <3>1. stream \in StreamRow /\ a \in Execution \cup {None} /\ p \in Execution \cup {None}
      BY DEF TypeOK, StreamRow
    <3>2. stream' = [stream EXCEPT !.version = @ + 1, !.revision = r,
                                   !.active = a, !.prepared = p]
      BY <1>1, <3>1 DEF Supersede, StreamRow
    <3> QED
      BY <3>1, <3>2, NextStreamRow
  <2> QED
    BY <1>1, <2>1, EndedExecutionRow, CancelledSlots, EndedLeases DEF Supersede, TypeOK
<1>2. CASE FailAbandoned(e)
  BY <1>2, NextStreamRow, EndedExecutionRow, CancelledSlots DEF FailAbandoned, TypeOK
<1>3. CASE FailExpiredRunning(e)
  BY <1>3, NextStreamRow, EndedExecutionRow, CancelledSlots, EndedLeases
  DEF FailExpiredRunning, TypeOK
<1>4. CASE DeadlinePasses(e)
  <2>1. execution[e].due + 1 \in 0 .. 2 /\ execution[e] \in ExecutionRow
    BY <1>4 DEF DeadlinePasses, TypeOK, ExecutionRow
  <2>2. [execution[e] EXCEPT !.due = @ + 1] \in ExecutionRow
    BY <2>1 DEF ExecutionRow
  <2>3. execution' \in [Execution -> ExecutionRow]
    BY <1>4, <2>2 DEF DeadlinePasses, TypeOK
  <2> QED
    BY <1>4, <2>3 DEF DeadlinePasses, TypeOK
<1> QED
  BY <1>1, <1>2, <1>3, <1>4 DEF Ending

LEMMA RetainingType == ASSUME TypeOK, Retaining PROVE TypeOK'
<1> USE DEF scmVars, rowVars
<1>1. ASSUME NEW l \in Lease, PruneObservation(l) PROVE TypeOK'
  BY <1>1 DEF PruneObservation, TypeOK
<1>2. ASSUME NEW l \in Lease, CompactLease(l) PROVE TypeOK'
  <2>1. [lease[l] EXCEPT !.state = "compacted"] \in LeaseRow
    BY <1>2, GrantedRow, GrantedState, WrittenStates DEF CompactLease
  <2> QED
    BY <1>2, <2>1 DEF CompactLease, TypeOK
<1>3. ASSUME NEW e \in Execution, PruneExecution(e) PROVE TypeOK'
  <2>1. [execution[e] EXCEPT !.state = "pruned"] \in ExecutionRow
    BY NextExecutionRow, WrittenStates DEF TypeOK
  <2>2. FreshSlot \in SlotRow
    BY WrittenStates DEF FreshSlot, SlotRow
  <2>3. NoArtifact \in ArtifactRow
    BY DEF NoArtifact, ArtifactRow, NoRefs, Refs
  <2> QED
    BY <1>3, <2>1, <2>2, <2>3 DEF PruneExecution, TypeOK
<1> QED
  BY <1>1, <1>2, <1>3 DEF Retaining

LEMMA NextType == TypeOK /\ [Next]_vars => TypeOK'
<1> SUFFICES ASSUME TypeOK, [Next]_vars PROVE TypeOK'
  OBVIOUS
<1>1. ASSUME NEW r \in Revision, Push(r) PROVE TypeOK'
  BY <1>1 DEF Push, rowVars, TypeOK
<1>2. ASSUME NEW e \in Execution, NEW s \in Slot, TerminalizeSlot(e, s) PROVE TypeOK'
  <2>1. PICK t \in {"exhausted", "cancelled"} : slot' = [slot EXCEPT ![e][s].state = t]
    BY <1>2 DEF TerminalizeSlot
  <2>2. slot[e][s] \in SlotRow
    BY DEF TypeOK
  <2>3. [slot[e][s] EXCEPT !.state = t] \in SlotRow
    BY <2>2, NextSlotRow, WrittenStates
  <2>4. slot' = [slot EXCEPT ![e][s] = [slot[e][s] EXCEPT !.state = t]]
    BY <2>1 DEF TypeOK
  <2>5. slot' \in [Execution -> [Slot -> SlotRow]]
    BY <2>3, <2>4, SlotUpdate DEF TypeOK
  <2> QED
    BY <1>2, <2>5, EndedExecutionRow DEF TerminalizeSlot, TypeOK, scmVars
<1>3. CASE UNCHANGED vars
  BY <1>3 DEF vars, scmVars, rowVars, TypeOK
<1> QED
  BY <1>1, <1>2, <1>3, StartingType, FinalizingType, EndingType, LeasingType, HoldingType,
     ReportingType, RetainingType
  DEF Next

\* Every row of the aggregate keeps its type, whatever commands run and in
\* whatever order.
THEOREM TypeCorrect == Spec => []TypeOK
  BY InitType, NextType, PTL DEF Spec

-----------------------------------------------------------------------------
(* The pointers of the stream. *)

\* No execution has a generation the stream has not allocated.
GenerationsAllocated ==
  \A x \in Execution : execution[x].generation <= stream.generation

PointerInv == TypeOK /\ PointersAgree /\ GenerationsAllocated

-----------------------------------------------------------------------------
(* Most commands leave the stream and the executions' lifecycle alone. *)

Lifecycle(x) == <<x.state, x.generation, x.revision>>
Quiet ==
  /\ stream' = stream
  /\ \A x \in Execution : Lifecycle(execution'[x]) = Lifecycle(execution[x])

\* The commands that do not.
Moving(e) ==
  \/ \E r \in Revision : Prepare(e, r) \/ Supersede(e, r)
  \/ Admit(e) \/ RejectStale(e) \/ Finalize(e)
  \/ FailAbandoned(e) \/ FailExpiredRunning(e) \/ PruneExecution(e)

LEMMA TouchedLifecycle ==
  ASSUME TypeOK
  PROVE  \A e, x \in Execution : Lifecycle(Touched(e)[x]) = Lifecycle(execution[x])
  BY DEF TypeOK, ExecutionRow, Touched, Lifecycle

LEMMA FreedLifecycle ==
  ASSUME TypeOK, NEW l \in Lease, lease[l].state = "active"
  PROVE  \A x \in Execution : Lifecycle(FreedExecutions(l)[x]) = Lifecycle(execution[x])
<1>1. lease[l].execution \in Execution
  BY GrantedRow DEF GrantedLease
<1> QED
  BY <1>1, TouchedLifecycle DEF FreedExecutions

LEMMA UntouchedQuiet == UNCHANGED <<stream, execution>> => Quiet
  BY DEF Quiet

LEMMA TouchedQuiet ==
  ASSUME TypeOK, stream' = stream, NEW e \in Execution, execution' = Touched(e)
  PROVE  Quiet
  BY TouchedLifecycle DEF Quiet

\* What workers do to leases, slots and observations is quiet.
LEMMA WorkQuiet ==
  ASSUME TypeOK,
         \/ \E e \in Execution, s \in Slot : Leasing(e, s) \/ TerminalizeSlot(e, s)
         \/ \E l \in Lease : Holding(l) \/ Reporting(l)
  PROVE  Quiet
<1>1. ASSUME NEW e \in Execution, NEW s \in Slot, Leasing(e, s) PROVE Quiet
  <2>1. CASE ExhaustSlot(e, s)
    BY <2>1, TouchedQuiet DEF ExhaustSlot
  <2>2. ASSUME NEW k \in Key, AcquireLease(e, s, k) PROVE Quiet
    <3> DEFINE executions(i) == IF i = NoLease THEN execution ELSE FreedExecutions(i)
    <3>1. PICK i \in IF Incumbents(k, slot[e][s].lease) = {} THEN {NoLease}
                     ELSE Incumbents(k, slot[e][s].lease) :
            execution' = [executions(i) EXCEPT ![e].version = @ + 1]
      BY <2>2 DEF AcquireLease
    <3>2. i # NoLease => i \in Lease /\ lease[i].state = "active"
      BY DEF Incumbents
    <3>3. \A x \in Execution : Lifecycle(executions(i)[x]) = Lifecycle(execution[x])
      BY <3>2, FreedLifecycle
    <3>4. executions(i) \in [Execution -> ExecutionRow]
      BY <3>2, FreedRows DEF TypeOK
    <3>5. \A x \in Execution : Lifecycle(execution'[x]) = Lifecycle(executions(i)[x])
      BY <3>1, <3>4 DEF Lifecycle, ExecutionRow
    <3> QED
      BY <2>2, <3>3, <3>5 DEF AcquireLease, Quiet
  <2> QED
    BY <1>1, <2>1, <2>2 DEF Leasing
<1>2. ASSUME NEW e \in Execution, NEW s \in Slot, TerminalizeSlot(e, s) PROVE Quiet
  BY <1>2, TouchedQuiet DEF TerminalizeSlot
<1>3. ASSUME NEW l \in Lease, Holding(l) PROVE Quiet
  BY <1>3, UntouchedQuiet, FreedLifecycle
  DEF Holding, LeaseAges, ExpireLease, ReleaseLease, Quiet
<1>4. ASSUME NEW l \in Lease, Reporting(l) PROVE Quiet
  <2>1. CASE CommitObservation(l)
    BY <2>1, UntouchedQuiet DEF CommitObservation, rowVars
  <2>2. CASE AttachFresh(l) \/ AdoptObservation(l)
    <3>1. lease[l].execution \in Execution
      BY <2>2, GrantedRow DEF AttachFresh, AdoptObservation, GrantedLease
    <3> QED
      BY <2>2, <3>1, TouchedQuiet DEF AttachFresh, AdoptObservation
  <2>3. ASSUME NEW e \in Execution, AttachReusable(e, l) PROVE Quiet
    BY <2>3, TouchedQuiet DEF AttachReusable
  <2> QED
    BY <1>4, <2>1, <2>2, <2>3 DEF Reporting
<1> QED
  BY <1>1, <1>2, <1>3, <1>4

LEMMA QuietOrMoving ==
  TypeOK /\ [Next]_vars => Quiet \/ \E e \in Execution : Moving(e)
<1> SUFFICES ASSUME TypeOK, [Next]_vars PROVE Quiet \/ \E e \in Execution : Moving(e)
  OBVIOUS
<1>1. CASE (\E r \in Revision : Push(r)) \/ UNCHANGED vars
  BY <1>1, UntouchedQuiet DEF Push, vars, rowVars
<1>2. ASSUME NEW e \in Execution, Starting(e) PROVE Quiet \/ Moving(e)
  BY <1>2, UntouchedQuiet DEF Starting, Moving, Reload, Postcheck, DeferAdmission, rowVars
<1>3. ASSUME NEW e \in Execution, Finalizing(e) PROVE Quiet \/ Moving(e)
  BY <1>3, UntouchedQuiet
  DEF Finalizing, Moving, ExpectVersions, ReadReferences, CheckHead, RefuseFinalize, rowVars
<1>4. ASSUME NEW e \in Execution, Ending(e) PROVE Quiet \/ Moving(e)
  <2>1. CASE DeadlinePasses(e)
    BY <2>1 DEF DeadlinePasses, Quiet, Lifecycle, TypeOK, ExecutionRow
  <2> QED
    BY <1>4, <2>1 DEF Ending, Moving
<1>5. CASE Retaining
  BY <1>5, UntouchedQuiet DEF Retaining, PruneObservation, CompactLease, Moving, rowVars
<1> QED
  BY <1>1, <1>2, <1>3, <1>4, <1>5, WorkQuiet DEF Next

-----------------------------------------------------------------------------
(* The pointers and the lifecycle of the executions. *)

\* What the moving commands write.
LEMMA EndedLifecycle ==
  ASSUME TypeOK, NEW e \in Execution, NEW x
  PROVE  /\ Superseded(e, x).state = "superseded" /\ Failed(e).state = "failed"
         /\ Superseded(e, x).generation = execution[e].generation
         /\ Failed(e).generation = execution[e].generation
         /\ Superseded(e, x).revision = execution[e].revision
         /\ Failed(e).revision = execution[e].revision
  BY DEF TypeOK, ExecutionRow, Superseded, Failed

LEMMA InitPointers == Init => PointerInv
  BY InitType, NoneAssumption
  DEF Init, PointerInv, PointersAgree, GenerationsAllocated, EmptyStream, AbsentExecution

\* The typing facts every case below uses.
LEMMA PointerTypes ==
  ASSUME TypeOK
  PROVE  /\ stream \in StreamRow /\ stream.generation \in Nat
         /\ stream.active \in Execution \cup {None} /\ stream.prepared \in Execution \cup {None}
         /\ \A x \in Execution : execution[x] \in ExecutionRow /\ execution[x].generation \in Nat
         /\ execution \in [Execution -> ExecutionRow]
  BY DEF TypeOK, StreamRow, ExecutionRow

LEMMA NextPointers == PointerInv /\ [Next]_vars => PointerInv'
<1> SUFFICES ASSUME PointerInv, [Next]_vars PROVE (PointersAgree /\ GenerationsAllocated)'
  BY NextType DEF PointerInv
<1> USE NoneAssumption DEF PointerInv
<1>1. CASE Quiet
  <2>1. \A x \in Execution : /\ execution'[x].state = execution[x].state
                             /\ execution'[x].generation = execution[x].generation
    BY <1>1 DEF Quiet, Lifecycle
  <2> QED
    BY <1>1, <2>1, PointerTypes DEF Quiet, PointersAgree, GenerationsAllocated
<1>2. ASSUME NEW e \in Execution, NEW r \in Revision, Prepare(e, r)
      PROVE  (PointersAgree /\ GenerationsAllocated)'
  <2>1. /\ stream'.active = stream.active /\ stream'.prepared = e
        /\ stream'.generation = stream.generation + 1
    BY <1>2, PointerTypes DEF Prepare, StreamRow
  <2>2. execution[e].state = "absent"
    BY <1>2 DEF Prepare
  <2>3. execution'[e].state = "planned" /\ execution'[e].generation = stream.generation + 1
    BY <1>2 DEF Prepare, AbsentExecution
  <2>4. \A x \in Execution \ {e} :
          /\ execution'[x].generation = execution[x].generation
          /\ execution'[x].state = IF execution[x].state = "planned" THEN "superseded"
                                   ELSE execution[x].state
    BY <1>2, EndedLifecycle DEF Prepare, PointersAgree
  <2> QED
    BY <2>1, <2>2, <2>3, <2>4, PointerTypes DEF PointersAgree, GenerationsAllocated
<1>3. ASSUME NEW e \in Execution, Admit(e) PROVE (PointersAgree /\ GenerationsAllocated)'
  <2>1. /\ stream'.active = e /\ stream'.prepared = None
        /\ stream'.generation = stream.generation
    BY <1>3, PointerTypes DEF Admit, StreamRow
  <2>2. execution[e].state = "planned" /\ stream.prepared = e
    BY <1>3 DEF Admit, AdmissionHolds
  <2>3. execution'[e].state = "running" /\ execution'[e].generation = execution[e].generation
    BY <1>3, PointerTypes DEF Admit, ExecutionRow
  <2>4. \A x \in Execution \ {e} :
          /\ execution'[x].generation = execution[x].generation
          /\ execution'[x].state = IF execution[x].state = "running" THEN "superseded"
                                   ELSE execution[x].state
    BY <1>3, EndedLifecycle DEF Admit, PointersAgree, TerminalExecution
  <2> QED
    BY <2>1, <2>2, <2>3, <2>4, PointerTypes DEF PointersAgree, GenerationsAllocated
<1>4. ASSUME NEW e \in Execution,
             RejectStale(e) \/ FailAbandoned(e) \/ (\E r \in Revision : Supersede(e, r))
                            \/ FailExpiredRunning(e)
      PROVE  (PointersAgree /\ GenerationsAllocated)'
  <2> DEFINE Dropped ==
        /\ stream'.active = (IF stream.active = e THEN None ELSE stream.active)
        /\ stream'.prepared = (IF stream.prepared = e THEN None ELSE stream.prepared)
        /\ stream'.generation = stream.generation
  <2>1. Dropped
    <3>1. CASE RejectStale(e) \/ FailAbandoned(e)
      <4>1. stream.prepared = e /\ stream.active # e
        BY <3>1 DEF RejectStale, FailAbandoned, AdmissionHolds, PointersAgree
      <4> QED
        BY <3>1, <4>1, PointerTypes DEF RejectStale, FailAbandoned, StreamRow
    <3>2. ASSUME NEW r \in Revision, Supersede(e, r)
          PROVE  Dropped
      BY <3>2, PointerTypes DEF Supersede, StreamRow
    <3>3. CASE FailExpiredRunning(e)
      <4>1. stream.active = e /\ stream.prepared # e
        BY <3>3 DEF FailExpiredRunning, CurrentRunning, PointersAgree
      <4> QED
        BY <3>3, <4>1, PointerTypes DEF FailExpiredRunning, StreamRow
    <3> QED
      BY <1>4, <3>1, <3>2, <3>3
  <2>2. /\ execution[e].state \in {"planned", "running"}
        /\ execution'[e].state \in {"superseded", "failed"}
        /\ execution'[e].generation = execution[e].generation
    <3>1. execution[e].state \in {"planned", "running"}
      BY <1>4
      DEF RejectStale, FailAbandoned, Supersede, FailExpiredRunning, AdmissionHolds, CurrentRunning
    <3>2. execution'[e] \in {Superseded(e, None), Failed(e)}
      BY <1>4, PointerTypes DEF RejectStale, FailAbandoned, Supersede, FailExpiredRunning
    <3> QED
      BY <3>1, <3>2, EndedLifecycle
  <2>3. \A x \in Execution \ {e} : execution'[x] = execution[x]
    BY <1>4, PointerTypes DEF RejectStale, FailAbandoned, Supersede, FailExpiredRunning
  <2> QED
    BY <2>1, <2>2, <2>3, PointerTypes DEF PointersAgree, GenerationsAllocated
<1>5. ASSUME NEW e \in Execution, Finalize(e) PROVE (PointersAgree /\ GenerationsAllocated)'
  <2>1. /\ stream'.active = stream.active /\ stream'.prepared = stream.prepared
        /\ stream'.generation = stream.generation
    BY <1>5, PointerTypes DEF Finalize, StreamRow
  <2>2. stream.active = e /\ execution[e].state = "running"
    BY <1>5 DEF Finalize, Finalizable, CurrentRunning
  <2>3. /\ execution'[e].state \in {"completed", "partial"}
        /\ execution'[e].generation = execution[e].generation
    BY <1>5, PointerTypes DEF Finalize, Coverage, ExecutionRow
  <2>4. \A x \in Execution \ {e} : execution'[x] = execution[x]
    BY <1>5, PointerTypes DEF Finalize
  <2> QED
    BY <2>1, <2>2, <2>3, <2>4, PointerTypes DEF PointersAgree, GenerationsAllocated
<1>6. ASSUME NEW e \in Execution, PruneExecution(e) PROVE (PointersAgree /\ GenerationsAllocated)'
  <2>1. stream' = stream /\ e \notin {stream.active, stream.prepared}
    BY <1>6 DEF PruneExecution, Prunable
  <2>2. /\ execution[e].state \in TerminalExecution /\ execution'[e].state = "pruned"
        /\ execution'[e].generation = execution[e].generation
    BY <1>6, PointerTypes DEF PruneExecution, Prunable, ExecutionRow
  <2>3. \A x \in Execution \ {e} : execution'[x] = execution[x]
    BY <1>6, PointerTypes DEF PruneExecution
  <2> QED
    BY <2>1, <2>2, <2>3, PointerTypes DEF PointersAgree, GenerationsAllocated
<1> QED
  BY <1>1, <1>2, <1>3, <1>4, <1>5, <1>6, QuietOrMoving DEF Moving

\* The stream's pointers and the executions' states agree after any number of
\* commands: at most one execution is planned and at most one is running, and
\* the stream points at them.
THEOREM PointersCorrect == Spec => []PointersAgree
<1>1. PointerInv => PointersAgree
  BY DEF PointerInv
<1> QED
  BY <1>1, InitPointers, NextPointers, PTL DEF Spec

\* A start that was delayed, retried or replayed never makes an execution
\* active when a newer generation has been allocated.
THEOREM AdmissionsNewest == Spec => OnlyNewestAdmitted
<1> DEFINE A == stream'.active \notin {None, stream.active} =>
                 \A x \in Execution :
                   execution[x].generation <= execution[stream'.active].generation
<1>1. PointerInv /\ [Next]_vars => [A]_vars
  <2> SUFFICES ASSUME PointerInv, [Next]_vars, stream'.active \notin {None, stream.active}
               PROVE  \A x \in Execution :
                        execution[x].generation <= execution[stream'.active].generation
    OBVIOUS
  <2>1. ASSUME NEW e \in Execution, Moving(e) PROVE Admit(e)
    BY <2>1, PointerTypes
    DEF PointerInv, Moving, Prepare, Supersede, RejectStale, Finalize, FailAbandoned,
        FailExpiredRunning, PruneExecution, StreamRow
  <2>2. PICK e \in Execution : Admit(e)
    BY <2>1, QuietOrMoving DEF PointerInv, Quiet
  <2>3. stream'.active = e /\ stream.prepared = e
    BY <2>2, PointerTypes DEF PointerInv, Admit, AdmissionHolds, StreamRow
  <2>4. execution[e].generation = stream.generation
    BY <2>3, NoneAssumption DEF PointerInv, PointersAgree
  <2> QED
    BY <2>3, <2>4 DEF PointerInv, GenerationsAllocated
<1> QED
  BY <1>1, InitPointers, NextPointers, PTL DEF Spec, OnlyNewestAdmitted
=============================================================================
