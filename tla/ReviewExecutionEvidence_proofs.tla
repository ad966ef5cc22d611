------------------ MODULE ReviewExecutionEvidence_proofs ------------------
(***************************************************************************)
(* Proofs about what ReviewExecution does with observations: what an       *)
(* execution refers to is there, an accepted observation stays accepted,   *)
(* an ended execution stays as it ended, every change moves a version, and *)
(* an artifact was made from what its execution ended with.  From these:   *)
(* a refused publication permit stays refused, and no work slot uses more  *)
(* attempts than its budget.                                               *)
(***************************************************************************)
EXTENDS ReviewExecutionLeases_proofs, FiniteSetTheorems

\* A slot is satisfied by the observation it refers to, and held by nobody then.
SlotFine(e, s) ==
  /\ slot[e][s].ref # NoLease <=> slot[e][s].state = "satisfied"
  /\ slot[e][s].ref # NoLease => slot[e][s].lease = NoLease /\ slot[e][s].ref \in observed

\* A lease row belongs to an execution row, also when its observation is all
\* that is left to ask for.
LeaseFine(l) ==
  /\ lease[l].state \notin {"unused", "compacted"} =>
       /\ lease[l].execution \in Execution
       /\ execution[lease[l].execution].state \notin {"absent", "pruned"}
  /\ lease[l].state = "compacted" => lease[l].age = 2
  /\ l \in observed => lease[l].state \notin {"unused", "compacted"}

\* What a finalization has read is old, or it is what the execution refers to.
FinalFine(e) ==
  /\ final[e].execution <= execution[e].version
  /\ /\ final[e].step \in {"read", "resolved"}
     /\ final[e].execution = execution[e].version /\ execution[e].state = "running"
     => final[e].refs = [s \in Slot |-> slot[e][s].ref]

ArtifactFine(e) ==
  artifact[e].coverage # "none" =>
    /\ execution[e].state = artifact[e].coverage
    /\ artifact[e].refs = [s \in Slot |-> slot[e][s].ref]
    /\ artifact[e].coverage = "completed" <=>
         \A s \in Required : artifact[e].refs[s] # NoLease

ExecutionFine(e) == execution[e].state = "absent" => execution[e].version = 0

EvidenceInv ==
  /\ LeaseInv
  /\ \A e \in Execution, s \in Slot : SlotFine(e, s)
  /\ \A l \in Lease : LeaseFine(l)
  /\ \A e \in Execution : FinalFine(e) /\ ArtifactFine(e) /\ ExecutionFine(e)

-----------------------------------------------------------------------------
(* What a step can do to a slot and to an execution. *)

SlotMove(e, s) ==
  \/ slot'[e][s] = slot[e][s]
  \/ slot[e][s].ref = NoLease /\ slot'[e][s].ref = NoLease /\ slot'[e][s].state # "satisfied"
  \/ /\ slot[e][s].ref = NoLease
     /\ slot'[e][s].ref \in observed /\ observed' = observed
     /\ slot'[e][s].state = "satisfied" /\ slot'[e][s].lease = NoLease
  \/ PruneExecution(e)

VersionMove(e) ==
  \/ /\ execution'[e].version > execution[e].version
     /\ execution[e].state \in {"absent", "planned", "running"}
     /\ execution'[e].state \notin {"absent", "pruned"}
  \/ PruneExecution(e)
  \/ /\ slot'[e] = slot[e]
     /\ [execution'[e] EXCEPT !.due = 0] = [execution[e] EXCEPT !.due = 0]
     /\ execution'[e].version = execution[e].version
     /\ execution'[e].state = execution[e].state
     /\ execution'[e] = execution[e] \/ execution[e].state \in {"planned", "running"}

Moves == \A e \in Execution : VersionMove(e) /\ \A s \in Slot : SlotMove(e, s)

LEMMA Rows ==
  ASSUME EvidenceInv
  PROVE  /\ execution \in [Execution -> ExecutionRow] /\ slot \in [Execution -> [Slot -> SlotRow]]
         /\ \A e \in Execution : execution[e] \in ExecutionRow /\ execution[e].version \in Nat
         /\ \A e \in Execution, s \in Slot : slot[e][s] \in SlotRow
         /\ lease \in [Lease -> LeaseRow] /\ TypeOK /\ PointerInv /\ PointersAgree
  BY DEF EvidenceInv, LeaseInv, PointerInv, TypeOK, ExecutionRow

LEMMA NothingMoves ==
  ASSUME UNCHANGED <<execution, slot>>
  PROVE  Moves
  BY DEF Moves, VersionMove, SlotMove

\* A slot that is not satisfied has no reference.
LEMMA OpenSlot ==
  ASSUME EvidenceInv, NEW e \in Execution, NEW s \in Slot,
         slot[e][s].state # "satisfied" \/ slot[e][s].lease # NoLease
  PROVE  slot[e][s].ref = NoLease
  BY DEF EvidenceInv, SlotFine

LEMMA TouchedRow ==
  ASSUME EvidenceInv, NEW e \in Execution
  PROVE  /\ Touched(e)[e].version > execution[e].version
         /\ Touched(e)[e].state = execution[e].state
         /\ \A x \in Execution : x # e => Touched(e)[x] = execution[x]
<1>1. execution \in [Execution -> ExecutionRow] /\ execution[e] \in ExecutionRow
      /\ execution[e].version \in Nat
  BY Rows
<1>2. Touched(e)[e] = [execution[e] EXCEPT !.version = execution[e].version + 1]
  BY <1>1 DEF Touched
<1> QED
  BY <1>1, <1>2 DEF Touched, ExecutionRow

\* A change of slots of a running execution that moves its version.
LEMMA RunningMoves ==
  ASSUME EvidenceInv, NEW e \in Execution, execution[e].state = "running",
         execution' = Touched(e),
         \A x \in Execution : x # e => slot'[x] = slot[x],
         \A s \in Slot : SlotMove(e, s)
  PROVE  Moves
<1>1. VersionMove(e)
  BY TouchedRow DEF VersionMove
<1>2. ASSUME NEW x \in Execution, x # e
      PROVE  VersionMove(x) /\ \A s \in Slot : SlotMove(x, s)
  BY <1>2, TouchedRow DEF VersionMove, SlotMove
<1> QED
  BY <1>1, <1>2 DEF Moves

\* A lease that ends leaves the slot it held, which was not satisfied.
LEMMA Freed ==
  ASSUME EvidenceInv, NEW l \in Lease, lease[l].state = "active"
  PROVE  LET e == lease[l].execution
         IN /\ e \in Execution /\ execution[e].state = "running"
            /\ FreedExecutions(l) = Touched(e)
            /\ \A x \in Execution : x # e => FreedSlots(l)[x] = slot[x]
            /\ \A s \in Slot :
                 \/ FreedSlots(l)[e][s] = slot[e][s]
                 \/ /\ slot[e][s].ref = NoLease /\ FreedSlots(l)[e][s].ref = NoLease
                    /\ FreedSlots(l)[e][s].state # "satisfied"
<1> DEFINE e == lease[l].execution
           s == lease[l].slot
<1>1. /\ e \in Execution /\ s \in Slot /\ execution[e].state = "running" /\ slot[e][s].lease = l
  BY ActiveRow DEF EvidenceInv
<1>2. slot[e][s] \in SlotRow /\ slot \in [Execution -> [Slot -> SlotRow]] /\ l # NoLease
  BY <1>1, Rows, NoLeaseIsNoToken
<1>3. FreedExecutions(l) = Touched(e)
  BY <1>1 DEF FreedExecutions, Holds
<1>4. FreedSlots(l) = [slot EXCEPT ![e][s] = Vacated(slot[e][s])]
  BY <1>1, <1>2 DEF FreedSlots, Holds
<1>5. slot[e][s].ref = NoLease
  BY <1>1, <1>2, OpenSlot
<1>6. Vacated(slot[e][s]).ref = NoLease /\ Vacated(slot[e][s]).state # "satisfied"
  BY <1>2, <1>5 DEF Vacated, SlotRow
<1>7. \A x \in Execution : x # e => FreedSlots(l)[x] = slot[x]
  BY <1>1, <1>2, <1>4
<1>8. \A t \in Slot : FreedSlots(l)[e][t] = IF t = s THEN Vacated(slot[e][s]) ELSE slot[e][t]
  BY <1>1, <1>2, <1>4
<1> QED
  BY <1>1, <1>3, <1>5, <1>6, <1>7, <1>8

LEMMA HoldingMoves ==
  ASSUME EvidenceInv, NEW l \in Lease, Holding(l)
  PROVE  Moves
<1>1. CASE LeaseAges(l)
  BY <1>1, NothingMoves DEF LeaseAges
<1>2. CASE ExpireLease(l) \/ ReleaseLease(l)
  <2>1. lease[l].state = "active" /\ slot' = FreedSlots(l) /\ execution' = FreedExecutions(l)
    BY <1>2 DEF ExpireLease, ReleaseLease
  <2>2. PICK e \in Execution : e = lease[l].execution
    BY <2>1, Freed
  <2> QED
    BY <2>1, <2>2, Freed, RunningMoves DEF SlotMove
<1> QED
  BY <1>1, <1>2 DEF Holding

LEMMA LeasingMoves ==
  ASSUME EvidenceInv, NEW e \in Execution, NEW s \in Slot, Leasing(e, s)
  PROVE  Moves
<1>1. execution[e].state = "running" /\ slot[e][s].state \notin TerminalSlot
  BY DEF Leasing, ExhaustSlot, AcquireLease, Acquirable, CurrentRunning
<1>2. slot[e][s].ref = NoLease /\ slot[e][s] \in SlotRow /\ slot \in [Execution -> [Slot -> SlotRow]]
      /\ execution \in [Execution -> ExecutionRow]
  BY <1>1, OpenSlot, Rows DEF TerminalSlot
<1>3. CASE ExhaustSlot(e, s)
  <2>1. /\ slot'[e][s].ref = NoLease /\ slot'[e][s].state = "exhausted"
        /\ \A t \in Slot : t # s => slot'[e][t] = slot[e][t]
        /\ \A x \in Execution : x # e => slot'[x] = slot[x]
        /\ execution' = Touched(e)
    BY <1>2, <1>3 DEF ExhaustSlot, SlotRow
  <2> QED
    BY <1>1, <1>2, <2>1, RunningMoves DEF SlotMove
<1>4. ASSUME NEW k \in Key, AcquireLease(e, s, k)
      PROVE  Moves
  <2> DEFINE slots(i) == IF i = NoLease THEN slot ELSE FreedSlots(i)
             executions(i) == IF i = NoLease THEN execution ELSE FreedExecutions(i)
  <2>1. PICK i \in {NoLease} \cup Lease :
          /\ i # NoLease => lease[i].state = "active"
          /\ slot' = [slots(i) EXCEPT ![e][s] =
               [slots(i)[e][s] EXCEPT !.state = "leased", !.lease = fence + 1, !.ordinal = @ + 1]]
          /\ execution' = [executions(i) EXCEPT ![e].version = @ + 1]
    BY <1>4 DEF AcquireLease, Incumbents
  <2>2. /\ slots(i) \in [Execution -> [Slot -> SlotRow]]
        /\ executions(i) \in [Execution -> ExecutionRow]
    BY <1>2, <2>1, FreedRows, Rows
  <2>3. ASSUME NEW x \in Execution
        PROVE  /\ \/ executions(i)[x] = execution[x] /\ slots(i)[x] = slot[x]
                  \/ /\ executions(i)[x].version > execution[x].version
                     /\ execution[x].state = "running" /\ executions(i)[x].state = "running"
               /\ \A t \in Slot :
                    \/ slots(i)[x][t] = slot[x][t]
                    \/ /\ slot[x][t].ref = NoLease /\ slots(i)[x][t].ref = NoLease
                       /\ slots(i)[x][t].state # "satisfied"
    <3>1. CASE i = NoLease
      BY <3>1
    <3>2. CASE i # NoLease
      <4>1. i \in Lease /\ lease[i].state = "active"
        BY <2>1, <3>2
      <4>2. PICK d \in Execution : d = lease[i].execution
        BY <4>1, Freed
      <4>3. CASE x = d
        BY <3>2, <4>1, <4>2, <4>3, Freed, TouchedRow
      <4>4. CASE x # d
        BY <3>2, <4>1, <4>2, <4>4, Freed, TouchedRow
      <4> QED
        BY <4>3, <4>4
    <3> QED
      BY <3>1, <3>2
  <2> HIDE DEF slots, executions
  <2>4. /\ slot'[e][s].ref = slots(i)[e][s].ref /\ slot'[e][s].state = "leased"
        /\ \A t \in Slot : t # s => slot'[e][t] = slots(i)[e][t]
        /\ \A x \in Execution : x # e => slot'[x] = slots(i)[x] /\ execution'[x] = executions(i)[x]
        /\ execution'[e].version = executions(i)[e].version + 1
        /\ execution'[e].state = executions(i)[e].state
    BY <2>1, <2>2 DEF SlotRow, ExecutionRow
  <2>5. slots(i)[e][s].ref = NoLease
    BY <1>2, <2>3
  <2>6. ASSUME NEW t \in Slot
        PROVE  SlotMove(e, t)
    BY <1>2, <2>3, <2>4, <2>5 DEF SlotMove
  <2>7. VersionMove(e)
    <3>1. executions(i)[e].version \in Nat /\ execution[e].version \in Nat
      BY <1>2, <2>2 DEF ExecutionRow
    <3>2. execution'[e].version > execution[e].version
      BY <2>3, <2>4, <3>1
    <3>3. execution'[e].state = "running"
      BY <1>1, <2>3, <2>4
    <3> QED
      BY <1>1, <3>2, <3>3 DEF VersionMove
  <2>8. ASSUME NEW x \in Execution, x # e
        PROVE  VersionMove(x) /\ \A t \in Slot : SlotMove(x, t)
    <3>1. \A t \in Slot : SlotMove(x, t)
      BY <2>3, <2>4, <2>8 DEF SlotMove
    <3>2. VersionMove(x)
      BY <2>3, <2>4, <2>8 DEF VersionMove
    <3> QED
      BY <3>1, <3>2
  <2> QED
    BY <2>6, <2>7, <2>8 DEF Moves
<1> QED
  BY <1>3, <1>4 DEF Leasing

LEMMA AcceptedMoves ==
  ASSUME EvidenceInv, NEW e \in Execution, NEW s \in Slot, NEW l \in observed,
         CurrentRunning(e), slot[e][s].ref = NoLease,
         slot' = Satisfied(e, s, l), execution' = Touched(e), observed' = observed
  PROVE  Moves
<1>1. slot[e][s] \in SlotRow /\ slot \in [Execution -> [Slot -> SlotRow]]
  BY Rows
<1>2. /\ slot'[e][s].ref = l /\ slot'[e][s].state = "satisfied" /\ slot'[e][s].lease = NoLease
      /\ \A t \in Slot : t # s => slot'[e][t] = slot[e][t]
      /\ \A x \in Execution : x # e => slot'[x] = slot[x]
  BY <1>1 DEF Satisfied, SlotRow
<1>3. \A t \in Slot : SlotMove(e, t)
  BY <1>2 DEF SlotMove
<1> QED
  BY <1>2, <1>3, RunningMoves DEF CurrentRunning

LEMMA ReportingMoves ==
  ASSUME EvidenceInv, NEW l \in Lease, Reporting(l)
  PROVE  Moves
<1>1. CASE CommitObservation(l)
  BY <1>1, NothingMoves DEF CommitObservation, rowVars
<1>2. lease[l].state # "unused" => lease[l].execution \in Execution /\ lease[l].slot \in Slot
  BY GrantedRow, Rows DEF GrantedLease
<1>3. CASE AttachFresh(l) \/ AdoptObservation(l)
  <2>1. PICK e \in Execution, s \in Slot : e = lease[l].execution /\ s = lease[l].slot
    BY <1>2, <1>3 DEF AttachFresh, AdoptObservation
  <2>2. /\ CurrentRunning(e) /\ slot[e][s].ref = NoLease /\ l \in observed
        /\ slot' = Satisfied(e, s, l) /\ execution' = Touched(e) /\ observed' = observed
    BY <1>3, <2>1 DEF AttachFresh, AdoptObservation, Attachable
  <2> QED
    BY <2>2, AcceptedMoves
<1>4. ASSUME NEW e \in Execution, AttachReusable(e, l)
      PROVE  Moves
  <2>1. l \in observed /\ lease[l].state # "unused"
    BY <1>4 DEF AttachReusable, EvidenceInv, LeaseFine
  <2>2. PICK s \in Slot : s = lease[l].slot
    BY <1>2, <2>1
  <2>3. /\ CurrentRunning(e) /\ slot[e][s].ref = NoLease
        /\ slot' = Satisfied(e, s, l) /\ execution' = Touched(e) /\ observed' = observed
    BY <1>4, <2>2 DEF AttachReusable, Attachable
  <2> QED
    BY <2>1, <2>3, AcceptedMoves
<1> QED
  BY <1>1, <1>3, <1>4 DEF Reporting

\* Cancellation leaves the satisfied slots alone.
LEMMA CancelledKeeps ==
  ASSUME EvidenceInv, NEW e \in Execution, NEW s \in Slot
  PROVE  /\ Cancelled(e)[s].ref = slot[e][s].ref
         /\ \/ Cancelled(e)[s] = slot[e][s]
            \/ slot[e][s].ref = NoLease /\ Cancelled(e)[s].state # "satisfied"
<1>1. slot[e][s] \in SlotRow
  BY Rows
<1>2. CASE slot[e][s].state \in TerminalSlot
  BY <1>2 DEF Cancelled
<1>3. CASE slot[e][s].state \notin TerminalSlot
  <2>1. slot[e][s].ref = NoLease
    BY <1>3, OpenSlot DEF TerminalSlot
  <2> QED
    BY <1>1, <1>3, <2>1 DEF Cancelled, SlotRow
<1> QED
  BY <1>2, <1>3

LEMMA EndedMoves ==
  ASSUME EvidenceInv, NEW x \in Execution, execution[x].state \in {"planned", "running"},
         execution'[x].version > execution[x].version,
         execution'[x].state \notin {"absent", "pruned"},
         slot'[x] = Cancelled(x)
  PROVE  VersionMove(x) /\ \A s \in Slot : SlotMove(x, s)
<1>1. VersionMove(x)
  BY DEF VersionMove
<1>2. ASSUME NEW s \in Slot
      PROVE  SlotMove(x, s)
  BY CancelledKeeps DEF SlotMove
<1> QED
  BY <1>1, <1>2

LEMMA StaysMoves ==
  ASSUME NEW x \in Execution, execution'[x] = execution[x], slot'[x] = slot[x]
  PROVE  VersionMove(x) /\ \A s \in Slot : SlotMove(x, s)
  BY DEF VersionMove, SlotMove

LEMMA EndedRows ==
  ASSUME EvidenceInv, NEW e \in Execution, NEW y
  PROVE  /\ Superseded(e, y).version > execution[e].version /\ Superseded(e, y).state = "superseded"
         /\ Failed(e).version > execution[e].version /\ Failed(e).state = "failed"
<1>1. execution[e] \in ExecutionRow /\ execution[e].version \in Nat
  BY Rows
<1> QED
  BY <1>1 DEF Superseded, Failed, ExecutionRow

LEMMA StartingMoves ==
  ASSUME EvidenceInv, NEW e \in Execution, Starting(e)
  PROVE  Moves
<1>0. /\ execution \in [Execution -> ExecutionRow] /\ slot \in [Execution -> [Slot -> SlotRow]]
      /\ execution[e] \in ExecutionRow /\ execution[e].version \in Nat
  BY Rows
<1>1. ASSUME NEW r \in Revision, Prepare(e, r)
      PROVE  Moves
  <2> DEFINE displaced == {x \in Execution : stream.prepared = x /\ execution[x].state = "planned"}
  <2>1. /\ execution[e].state = "absent" /\ e \notin displaced
        /\ execution'[e].version = 1 /\ execution'[e].state = "planned" /\ slot'[e] = slot[e]
    BY <1>1 DEF Prepare, AbsentExecution
  <2>2. execution[e].version = 0
    BY <2>1 DEF EvidenceInv, ExecutionFine
  <2>3. VersionMove(e) /\ \A s \in Slot : SlotMove(e, s)
    BY <2>1, <2>2 DEF VersionMove, SlotMove
  <2>4. ASSUME NEW x \in Execution, x # e
        PROVE  VersionMove(x) /\ \A s \in Slot : SlotMove(x, s)
    <3>1. CASE x \in displaced
      <4>1. execution'[x] = Superseded(x, e) /\ slot'[x] = Cancelled(x)
            /\ execution[x].state = "planned"
        BY <1>1, <2>4, <3>1 DEF Prepare
      <4> QED
        BY <4>1, EndedRows, EndedMoves
    <3>2. CASE x \notin displaced
      <4>1. execution'[x] = execution[x] /\ slot'[x] = slot[x]
        BY <1>1, <2>4, <3>2 DEF Prepare
      <4> QED
        BY <4>1, StaysMoves
    <3> QED
      BY <3>1, <3>2
  <2> QED
    BY <2>3, <2>4 DEF Moves
<1>2. CASE Admit(e)
  <2> DEFINE displaced == {x \in Execution : stream.active = x /\ x # e
                                             /\ execution[x].state \notin TerminalExecution}
  <2>1. /\ execution[e].state = "planned" /\ e \notin displaced /\ slot'[e] = slot[e]
        /\ execution'[e] = [execution[e] EXCEPT !.state = "running", !.version = execution[e].version + 1]
    BY <1>2 DEF Admit, AdmissionHolds
  <2>2. execution'[e].version > execution[e].version /\ execution'[e].state = "running"
    BY <1>0, <2>1 DEF ExecutionRow
  <2>3. VersionMove(e) /\ \A s \in Slot : SlotMove(e, s)
    BY <2>1, <2>2 DEF VersionMove, SlotMove
  <2>4. ASSUME NEW x \in Execution, x # e
        PROVE  VersionMove(x) /\ \A s \in Slot : SlotMove(x, s)
    <3>1. CASE x \in displaced
      <4>1. execution'[x] = Superseded(x, e) /\ slot'[x] = Cancelled(x)
        BY <1>2, <2>4, <3>1 DEF Admit
      <4>2. execution[x].state = "running"
        <5>1. stream.active = x /\ stream.active # None
          BY <3>1, NoneAssumption
        <5> QED
          BY <3>1, <5>1, Rows DEF PointersAgree, TerminalExecution
      <4> QED
        BY <4>1, <4>2, EndedRows, EndedMoves
    <3>2. CASE x \notin displaced
      <4>1. execution'[x] = execution[x] /\ slot'[x] = slot[x]
        BY <1>2, <2>4, <3>2 DEF Admit
      <4> QED
        BY <4>1, StaysMoves
    <3> QED
      BY <3>1, <3>2
  <2> QED
    BY <2>3, <2>4 DEF Moves
<1>3. CASE RejectStale(e)
  <2>1. /\ execution[e].state = "planned"
        /\ execution'[e] = Superseded(e, None) /\ slot'[e] = Cancelled(e)
        /\ \A x \in Execution : x # e => execution'[x] = execution[x] /\ slot'[x] = slot[x]
    BY <1>0, <1>3 DEF RejectStale, AdmissionHolds
  <2> QED
    BY <2>1, EndedRows, EndedMoves, StaysMoves DEF Moves
<1>4. CASE Reload(e) \/ Postcheck(e) \/ DeferAdmission(e)
  BY <1>4, NothingMoves DEF Reload, Postcheck, DeferAdmission, rowVars
<1> QED
  BY <1>1, <1>2, <1>3, <1>4 DEF Starting

LEMMA EndingMoves ==
  ASSUME EvidenceInv, NEW e \in Execution, Ending(e) \/ Finalizing(e)
  PROVE  Moves
<1>0. /\ execution \in [Execution -> ExecutionRow] /\ slot \in [Execution -> [Slot -> SlotRow]]
      /\ execution[e] \in ExecutionRow /\ execution[e].version \in Nat
  BY Rows
<1>1. ASSUME execution[e].state \in {"planned", "running"},
             execution'[e].version > execution[e].version,
             execution'[e].state \notin {"absent", "pruned"},
             slot'[e] = Cancelled(e),
             \A x \in Execution : x # e => execution'[x] = execution[x] /\ slot'[x] = slot[x]
      PROVE  Moves
  BY <1>1, EndedMoves, StaysMoves DEF Moves
<1>2. CASE (\E r \in Revision : Supersede(e, r)) \/ FailAbandoned(e) \/ FailExpiredRunning(e)
  <2>1. /\ execution[e].state \in {"planned", "running"}
        /\ execution'[e] \in {Superseded(e, None), Failed(e)} /\ slot'[e] = Cancelled(e)
        /\ \A x \in Execution : x # e => execution'[x] = execution[x] /\ slot'[x] = slot[x]
    BY <1>0, <1>2 DEF Supersede, FailAbandoned, FailExpiredRunning, CurrentRunning
  <2> QED
    BY <1>1, <2>1, EndedRows
<1>3. CASE Finalize(e)
  <2>1. /\ execution[e].state = "running" /\ slot'[e] = Cancelled(e)
        /\ execution'[e] = [execution[e] EXCEPT !.state = Coverage(e), !.version = execution[e].version + 1]
        /\ \A x \in Execution : x # e => execution'[x] = execution[x] /\ slot'[x] = slot[x]
    BY <1>0, <1>3 DEF Finalize, Finalizable, CurrentRunning
  <2>2. execution'[e].version > execution[e].version /\ execution'[e].state \in {"completed", "partial"}
    BY <1>0, <2>1 DEF ExecutionRow, Coverage
  <2> QED
    BY <1>1, <2>1, <2>2
<1>4. CASE DeadlinePasses(e)
  <2>1. /\ execution[e].state \in {"planned", "running"} /\ slot' = slot
        /\ execution'[e] = [execution[e] EXCEPT !.due = execution[e].due + 1]
        /\ \A x \in Execution : x # e => execution'[x] = execution[x]
    BY <1>0, <1>4 DEF DeadlinePasses
  <2>2. /\ [execution'[e] EXCEPT !.due = 0] = [execution[e] EXCEPT !.due = 0]
        /\ execution'[e].version = execution[e].version /\ execution'[e].state = execution[e].state
    BY <1>0, <2>1 DEF ExecutionRow
  <2>3. VersionMove(e) /\ \A s \in Slot : SlotMove(e, s)
    BY <2>1, <2>2 DEF VersionMove, SlotMove
  <2> QED
    BY <2>1, <2>3, StaysMoves DEF Moves
<1>5. CASE ExpectVersions(e) \/ ReadReferences(e) \/ CheckHead(e) \/ RefuseFinalize(e)
  BY <1>5, NothingMoves DEF ExpectVersions, ReadReferences, CheckHead, RefuseFinalize, rowVars
<1> QED
  BY <1>2, <1>3, <1>4, <1>5 DEF Ending, Finalizing

LEMMA EveryStepMoves ==
  ASSUME EvidenceInv, [Next]_vars
  PROVE  Moves
<1>1. CASE (\E r \in Revision : Push(r)) \/ UNCHANGED vars
  BY <1>1, NothingMoves DEF Push, vars, rowVars
<1>2. ASSUME NEW e \in Execution, NEW s \in Slot, TerminalizeSlot(e, s)
      PROVE  Moves
  <2>1. slot[e][s] \in SlotRow /\ slot \in [Execution -> [Slot -> SlotRow]]
    BY Rows
  <2>2. slot[e][s].ref = NoLease /\ execution[e].state = "running" /\ execution' = Touched(e)
    BY <1>2, OpenSlot DEF TerminalizeSlot, TerminalSlot, CurrentRunning
  <2>3. PICK t \in {"exhausted", "cancelled"} : slot' = [slot EXCEPT ![e][s].state = t]
    BY <1>2 DEF TerminalizeSlot
  <2>4. /\ slot'[e][s].ref = NoLease /\ slot'[e][s].state = t
        /\ \A u \in Slot : u # s => slot'[e][u] = slot[e][u]
        /\ \A x \in Execution : x # e => slot'[x] = slot[x]
    BY <2>1, <2>2, <2>3 DEF SlotRow
  <2>5. \A u \in Slot : SlotMove(e, u)
    BY <2>2, <2>4 DEF SlotMove
  <2> QED
    BY <2>2, <2>4, <2>5, RunningMoves
<1>3. ASSUME NEW l \in Lease, PruneObservation(l) \/ CompactLease(l)
      PROVE  Moves
  BY <1>3, NothingMoves DEF PruneObservation, CompactLease, rowVars
<1>4. ASSUME NEW e \in Execution, PruneExecution(e)
      PROVE  Moves
  <2>1. \A x \in Execution : x # e => execution'[x] = execution[x] /\ slot'[x] = slot[x]
    BY <1>4, Rows DEF PruneExecution
  <2> QED
    BY <1>4, <2>1, StaysMoves DEF Moves, VersionMove, SlotMove
<1> QED
  BY <1>1, <1>2, <1>3, <1>4, StartingMoves, EndingMoves, LeasingMoves, HoldingMoves, ReportingMoves
  DEF Next, Retaining

-----------------------------------------------------------------------------
(* What a step can do to a lease, to the observations, to a finalization and *)
(* to the artifacts.                                                         *)

Row(l) == lease[l].state \notin {"unused", "compacted"}

LeaseMove(l) ==
  \/ lease'[l] = lease[l]
  \/ /\ Row(l) /\ lease'[l].state \notin {"unused", "compacted"}
     /\ lease'[l].execution = lease[l].execution
  \/ CompactLease(l) /\ lease'[l] = [lease[l] EXCEPT !.state = "compacted"]
  \/ /\ lease[l].state = "unused" /\ lease'[l].state \in {"active", "released"}
     /\ lease'[l].execution \in Execution
     /\ execution[lease'[l].execution].state = "running"

LeaseMoves == \A l \in Lease : LeaseMove(l)

LEMMA LeasesOver ==
  ASSUME EvidenceInv, NEW e, NEW X, lease' \in {lease, Revoked(e), ExpiredLeases(X)}
  PROVE  LeaseMoves
<1>1. \A l \in Lease : lease[l].state = "active" => lease[l] \in GrantedLease
  BY GrantedRow, Rows
<1> QED
  BY <1>1 DEF LeaseMoves, LeaseMove, Row, Revoked, ExpiredLeases, GrantedLease

LEMMA OneOver ==
  ASSUME EvidenceInv, NEW l \in Lease, lease[l].state = "active",
         \E st \in {"released", "expired"} : lease' = [lease EXCEPT ![l].state = st]
  PROVE  LeaseMoves
<1>1. lease[l] \in GrantedLease /\ lease \in [Lease -> LeaseRow]
  BY GrantedRow, Rows
<1> QED
  BY <1>1 DEF LeaseMoves, LeaseMove, Row, GrantedLease

LEMMA AcquiredMoves ==
  ASSUME EvidenceInv, NEW e \in Execution, NEW s \in Slot, NEW k \in Key, AcquireLease(e, s, k)
  PROVE  LeaseMoves
<1> DEFINE f == fence + 1
           c == slot[e][s].lease
           granted == [state |-> "active", execution |-> e, slot |-> s, key |-> k,
                       purpose |-> "provider", age |-> 0]
<1>1. f \in Lease /\ lease[f].state = "unused"
  BY NextToken DEF AcquireLease, EvidenceInv, LeaseInv, PointerInv, TokensInOrder, TypeOK
<1>2. PICK i \in IF Incumbents(k, c) = {} THEN {NoLease} ELSE Incumbents(k, c) :
        lease' = [ExpiredLeases({c, i}) EXCEPT ![f] = granted]
  BY DEF AcquireLease
<1>3. lease'[f] = granted /\ \A l \in Lease \ {f} : lease'[l] = ExpiredLeases({c, i})[l]
  BY <1>1, <1>2 DEF ExpiredLeases
<1>4. \A l \in Lease : lease[l].state = "active" => lease[l] \in GrantedLease
  BY GrantedRow, Rows
<1>5. execution[e].state = "running"
  BY DEF AcquireLease, Acquirable, CurrentRunning
<1>6. LeaseMove(f)
  BY <1>1, <1>3, <1>5 DEF LeaseMove
<1>7. ASSUME NEW l \in Lease \ {f}
      PROVE  LeaseMove(l)
  BY <1>3, <1>4 DEF LeaseMove, Row, ExpiredLeases, GrantedLease
<1> QED
  BY <1>6, <1>7 DEF LeaseMoves

LEMMA AdoptedMoves ==
  ASSUME EvidenceInv, NEW l \in Lease, AdoptObservation(l)
  PROVE  LeaseMoves
<1> DEFINE f == fence + 1
           source == IF lease[l].state # "active" THEN lease[l].state
                     ELSE IF Expired(l) THEN "expired" ELSE "released"
           adopted == [state |-> "released", execution |-> lease[l].execution,
                       slot |-> lease[l].slot, key |-> lease[l].key,
                       purpose |-> "adoption", age |-> 2]
<1>1. f \in Lease /\ lease[f].state = "unused" /\ lease \in [Lease -> LeaseRow]
  BY NextToken, Rows DEF AdoptObservation, EvidenceInv, LeaseInv, TokensInOrder, TypeOK
<1>2. /\ lease[l].state \in {"active", "released", "expired"}
      /\ lease' = [lease EXCEPT ![l].state = source, ![f] = adopted]
      /\ CurrentRunning(lease[l].execution)
  BY DEF AdoptObservation, Attachable
<1>3. lease[l] \in GrantedLease /\ l # f
  BY <1>1, <1>2, GrantedRow, Rows
<1>4. source \in {"released", "expired"}
  BY <1>2
<1>5. lease'[f] = adopted /\ \A m \in Lease \ {l, f} : lease'[m] = lease[m]
  BY <1>1, <1>2
<1>6. lease'[l].state = source /\ lease'[l].execution = lease[l].execution
  <2> HIDE DEF source
  <2> QED
    BY <1>1, <1>2, <1>3 DEF GrantedLease
<1>7. LeaseMove(f)
  BY <1>1, <1>2, <1>3, <1>5 DEF LeaseMove, GrantedLease, CurrentRunning
<1>8. LeaseMove(l)
  BY <1>2, <1>4, <1>6 DEF LeaseMove, Row
<1>9. \A m \in Lease \ {l, f} : LeaseMove(m)
  BY <1>5 DEF LeaseMove
<1> QED
  BY <1>7, <1>8, <1>9 DEF LeaseMoves

LEMMA HeldMoves ==
  ASSUME EvidenceInv, NEW l \in Lease, Holding(l) \/ CompactLease(l)
  PROVE  LeaseMoves
<1>1. lease[l] \in GrantedLease /\ lease \in [Lease -> LeaseRow] /\ lease[l].state # "unused"
  BY GrantedRow, Rows DEF Holding, LeaseAges, ExpireLease, ReleaseLease, CompactLease
<1>2. CASE LeaseAges(l)
  <2>1. Row(l)
    BY <1>1, <1>2 DEF LeaseAges, EvidenceInv, LeaseFine, Row
  <2>2. /\ lease'[l].state = lease[l].state /\ lease'[l].execution = lease[l].execution
        /\ \A m \in Lease \ {l} : lease'[m] = lease[m]
    BY <1>1, <1>2 DEF LeaseAges, GrantedLease
  <2> QED
    BY <2>1, <2>2 DEF LeaseMoves, LeaseMove, Row
<1>3. CASE ExpireLease(l) \/ ReleaseLease(l)
  BY <1>3, OneOver DEF ExpireLease, ReleaseLease
<1>4. CASE CompactLease(l)
  <2>1. /\ lease'[l] = [lease[l] EXCEPT !.state = "compacted"]
        /\ \A m \in Lease \ {l} : lease'[m] = lease[m]
    BY <1>1, <1>4 DEF CompactLease
  <2> QED
    BY <1>4, <2>1 DEF LeaseMoves, LeaseMove
<1> QED
  BY <1>2, <1>3, <1>4 DEF Holding

LEMMA EveryLeaseMoves ==
  ASSUME EvidenceInv, [Next]_vars
  PROVE  LeaseMoves
<1>1. CASE lease' = lease
  BY <1>1, LeasesOver
<1>2. CASE (\E r \in Revision : Push(r)) \/ UNCHANGED vars
  BY <1>1, <1>2 DEF Push, vars, rowVars
<1>3. ASSUME NEW e \in Execution, Starting(e) PROVE LeaseMoves
  <2>1. CASE Admit(e)
    BY <2>1, LeasesOver DEF Admit
  <2> QED
    BY <1>1, <1>3, <2>1
    DEF Starting, Prepare, Reload, Postcheck, RejectStale, DeferAdmission, rowVars
<1>4. ASSUME NEW e \in Execution, Finalizing(e) PROVE LeaseMoves
  <2>1. CASE Finalize(e)
    BY <2>1, LeasesOver DEF Finalize
  <2> QED
    BY <1>1, <1>4, <2>1
    DEF Finalizing, ExpectVersions, ReadReferences, CheckHead, RefuseFinalize, rowVars
<1>5. ASSUME NEW e \in Execution, Ending(e) PROVE LeaseMoves
  <2>1. ASSUME NEW r \in Revision, Supersede(e, r) PROVE LeaseMoves
    BY <2>1, LeasesOver DEF Supersede
  <2>2. CASE FailExpiredRunning(e)
    BY <2>2, LeasesOver DEF FailExpiredRunning
  <2>3. CASE FailAbandoned(e)
    BY <1>1, <2>3 DEF FailAbandoned
  <2>4. CASE DeadlinePasses(e)
    BY <1>1, <2>4 DEF DeadlinePasses
  <2> QED
    BY <1>5, <2>1, <2>2, <2>3, <2>4 DEF Ending
<1>6. ASSUME NEW e \in Execution, NEW s \in Slot, Leasing(e, s) \/ TerminalizeSlot(e, s)
      PROVE  LeaseMoves
  <2>1. CASE ExhaustSlot(e, s)
    BY <2>1, LeasesOver DEF ExhaustSlot
  <2>2. CASE TerminalizeSlot(e, s)
    BY <1>1, <2>2 DEF TerminalizeSlot
  <2> QED
    BY <1>6, <2>1, <2>2, AcquiredMoves DEF Leasing
<1>7. ASSUME NEW l \in Lease, Reporting(l) PROVE LeaseMoves
  <2>1. CASE CommitObservation(l)
    BY <1>1, <2>1 DEF CommitObservation, rowVars
  <2>2. CASE AttachFresh(l)
    <3>1. lease' = [lease EXCEPT ![l].state = "released"] /\ lease[l].state = "active"
      BY <2>2 DEF AttachFresh
    <3> QED
      BY <3>1, OneOver
  <2>3. ASSUME NEW e \in Execution, AttachReusable(e, l) PROVE LeaseMoves
    BY <1>1, <2>3 DEF AttachReusable
  <2> QED
    BY <1>7, <2>1, <2>2, <2>3, AdoptedMoves DEF Reporting
<1>8. CASE Retaining
  BY <1>1, <1>8, HeldMoves DEF Retaining, PruneObservation, PruneExecution, rowVars
<1> QED
  BY <1>2, <1>3, <1>4, <1>5, <1>6, <1>7, <1>8, HeldMoves DEF Next

ObservedMoves ==
  \/ observed' = observed
  \/ \E l \in Lease : CommitObservation(l) \/ PruneObservation(l)
FinalMoves ==
  \/ final' = final
  \/ \E e \in Execution : Finalizing(e)
ArtifactMoves ==
  \/ artifact' = artifact
  \/ \E e \in Execution : Finalize(e) \/ PruneExecution(e)

LEMMA EveryEvidenceMoves ==
  ASSUME [Next]_vars
  PROVE  ObservedMoves /\ FinalMoves /\ ArtifactMoves
<1>1. CASE (\E r \in Revision : Push(r)) \/ UNCHANGED vars
  BY <1>1 DEF Push, vars, rowVars, ObservedMoves, FinalMoves, ArtifactMoves
<1>2. ASSUME NEW e \in Execution, Starting(e) PROVE UNCHANGED <<observed, final, artifact>>
  BY <1>2 DEF Starting, Prepare, Reload, Postcheck, Admit, RejectStale, DeferAdmission, rowVars
<1>3. ASSUME NEW e \in Execution, Finalizing(e)
      PROVE  observed' = observed /\ (artifact' = artifact \/ Finalize(e))
  BY <1>3 DEF Finalizing, ExpectVersions, ReadReferences, CheckHead, RefuseFinalize, Finalize, rowVars
<1>4. ASSUME NEW e \in Execution, Ending(e) PROVE UNCHANGED <<observed, final, artifact>>
  BY <1>4 DEF Ending, Supersede, FailAbandoned, FailExpiredRunning, DeadlinePasses
<1>5. ASSUME NEW e \in Execution, NEW s \in Slot, Leasing(e, s) \/ TerminalizeSlot(e, s)
      PROVE  UNCHANGED <<observed, final, artifact>>
  BY <1>5 DEF Leasing, ExhaustSlot, AcquireLease, TerminalizeSlot
<1>6. ASSUME NEW l \in Lease, Holding(l) PROVE UNCHANGED <<observed, final, artifact>>
  BY <1>6 DEF Holding, LeaseAges, ExpireLease, ReleaseLease
<1>7. ASSUME NEW l \in Lease, Reporting(l)
      PROVE  UNCHANGED <<final, artifact>> /\ (observed' = observed \/ CommitObservation(l))
  BY <1>7 DEF Reporting, CommitObservation, AttachFresh, AttachReusable, AdoptObservation, rowVars
<1>8. CASE Retaining
  BY <1>8 DEF Retaining, PruneObservation, CompactLease, PruneExecution, rowVars,
              ObservedMoves, FinalMoves, ArtifactMoves
<1> QED
  BY <1>1, <1>2, <1>3, <1>4, <1>5, <1>6, <1>7, <1>8
  DEF Next, ObservedMoves, FinalMoves, ArtifactMoves

-----------------------------------------------------------------------------
(* The invariant is inductive. *)

EvidenceIInv == EvidenceInv /\ IInv

LEMMA InitEvidence == Init => EvidenceIInv
<1> SUFFICES ASSUME Init PROVE EvidenceIInv
  OBVIOUS
<1>1. IInv
  BY InitLeases
<1>2. /\ \A e \in Execution, s \in Slot : slot[e][s] = FreshSlot
      /\ \A l \in Lease : lease[l] = UnusedLease
      /\ \A e \in Execution : /\ execution[e] = AbsentExecution /\ final[e] = IdleFinal
                              /\ artifact[e] = NoArtifact
      /\ observed = {}
  BY DEF Init
<1>3. \A e \in Execution, s \in Slot : SlotFine(e, s)
  BY <1>2 DEF SlotFine, FreshSlot
<1>4. \A l \in Lease : LeaseFine(l)
  BY <1>2 DEF LeaseFine, UnusedLease
<1>5. \A e \in Execution : FinalFine(e) /\ ArtifactFine(e) /\ ExecutionFine(e)
  BY <1>2 DEF FinalFine, ArtifactFine, ExecutionFine, AbsentExecution, IdleFinal, NoArtifact
<1> QED
  BY <1>1, <1>3, <1>4, <1>5 DEF EvidenceIInv, EvidenceInv, IInv

LEMMA NextSlotFine ==
  ASSUME EvidenceInv, [Next]_vars, NEW e \in Execution, NEW s \in Slot
  PROVE  SlotFine(e, s)'
<1>1. SlotMove(e, s) /\ SlotFine(e, s) /\ slot \in [Execution -> [Slot -> SlotRow]]
  BY EveryStepMoves, Rows DEF Moves, EvidenceInv
<1>2. slot[e][s].ref \in observed => slot[e][s].ref \in observed'
  BY EveryEvidenceMoves DEF ObservedMoves, CommitObservation, PruneObservation
<1>3. CASE slot'[e][s] = slot[e][s]
  BY <1>1, <1>2, <1>3 DEF SlotFine
<1>4. CASE slot'[e][s].ref = NoLease /\ slot'[e][s].state # "satisfied"
  BY <1>4 DEF SlotFine
<1>5. CASE /\ slot'[e][s].ref \in observed /\ observed' = observed
           /\ slot'[e][s].state = "satisfied" /\ slot'[e][s].lease = NoLease
  BY <1>5, Rows, NoLeaseIsNoToken DEF SlotFine, TypeOK
<1>6. CASE PruneExecution(e)
  <2>1. slot'[e][s] = FreshSlot
    BY <1>1, <1>6 DEF PruneExecution
  <2> QED
    BY <2>1 DEF SlotFine, FreshSlot
<1> QED
  BY <1>1, <1>3, <1>4, <1>5, <1>6 DEF SlotMove

\* The execution of a lease that is still a row stays a row.
LEMMA OwnerStays ==
  ASSUME EvidenceInv, [Next]_vars, NEW l \in Lease, Row(l)
  PROVE  /\ lease[l].execution \in Execution
         /\ execution'[lease[l].execution].state \notin {"absent", "pruned"}
<1>1. PICK e \in Execution : e = lease[l].execution
  BY DEF EvidenceInv, LeaseFine, Row
<1>2. execution[e].state \notin {"absent", "pruned"}
  BY <1>1 DEF EvidenceInv, LeaseFine, Row
<1>3. ~PruneExecution(e)
  BY <1>1 DEF PruneExecution, Prunable, Row
<1>4. VersionMove(e)
  BY EveryStepMoves DEF Moves
<1> QED
  BY <1>1, <1>2, <1>3, <1>4 DEF VersionMove

LEMMA NextLeaseFine ==
  ASSUME EvidenceInv, [Next]_vars, NEW l \in Lease
  PROVE  LeaseFine(l)'
<1>1. LeaseMove(l) /\ LeaseFine(l) /\ lease[l] \in LeaseRow
  BY EveryLeaseMoves, Rows DEF LeaseMoves, EvidenceInv
<1>2. l \in observed' => l \in observed \/ Row(l)
  BY EveryEvidenceMoves DEF ObservedMoves, CommitObservation, PruneObservation, LeaseFine,
                            EvidenceInv, Row
<1>3. CASE lease'[l] = lease[l]
  BY <1>1, <1>2, <1>3, OwnerStays DEF LeaseFine, Row
<1>4. CASE /\ Row(l) /\ lease'[l].state \notin {"unused", "compacted"}
           /\ lease'[l].execution = lease[l].execution
  BY <1>4, OwnerStays DEF LeaseFine
<1>5. CASE CompactLease(l) /\ lease'[l] = [lease[l] EXCEPT !.state = "compacted"]
  <2>1. lease[l] \in GrantedLease /\ lease[l].age = 2 /\ l \notin observed /\ observed' = observed
    BY <1>5, GrantedRow, Rows DEF CompactLease
  <2>2. lease'[l].state = "compacted" /\ lease'[l].age = 2
    BY <1>5, <2>1 DEF GrantedLease
  <2> QED
    BY <2>1, <2>2 DEF LeaseFine
<1>6. CASE /\ lease[l].state = "unused" /\ lease'[l].state \in {"active", "released"}
           /\ lease'[l].execution \in Execution
           /\ execution[lease'[l].execution].state = "running"
  <2>1. PICK e \in Execution : e = lease'[l].execution
    BY <1>6
  <2>2. VersionMove(e) /\ ~PruneExecution(e)
    BY <1>6, <2>1, EveryStepMoves DEF Moves, PruneExecution, Prunable, TerminalExecution
  <2>3. execution'[e].state \notin {"absent", "pruned"}
    BY <1>6, <2>1, <2>2 DEF VersionMove
  <2> QED
    BY <1>1, <1>2, <1>6, <2>1, <2>3 DEF LeaseFine, Row
<1> QED
  BY <1>1, <1>3, <1>4, <1>5, <1>6 DEF LeaseMove

LEMMA NextFinalFine ==
  ASSUME EvidenceInv, [Next]_vars, NEW e \in Execution
  PROVE  FinalFine(e)'
<1>1. /\ VersionMove(e) /\ FinalFine(e)
      /\ execution[e].version \in Nat /\ final \in [Execution -> FinalRow]
      /\ final[e] \in FinalRow /\ final[e].execution \in Nat
  BY EveryStepMoves, Rows DEF Moves, EvidenceInv, TypeOK, FinalRow
<1>2. TypeOK'
  BY NextType, Rows
<1>3. execution'[e].version \in Nat
  BY <1>2 DEF TypeOK, ExecutionRow
<1>4. CASE final'[e] = final[e]
  <2>1. CASE execution'[e].version > execution[e].version
    BY <1>1, <1>3, <1>4, <2>1 DEF FinalFine
  <2>2. CASE PruneExecution(e)
    <3>1. execution'[e].version = execution[e].version /\ execution'[e].state = "pruned"
      BY <2>2, Rows DEF PruneExecution, ExecutionRow
    <3> QED
      BY <1>1, <1>4, <3>1 DEF FinalFine
  <2>3. CASE slot'[e] = slot[e] /\ execution'[e].version = execution[e].version
             /\ execution'[e].state = execution[e].state
    BY <1>1, <1>4, <2>3 DEF FinalFine
  <2> QED
    BY <1>1, <2>1, <2>2, <2>3 DEF VersionMove
<1>5. ASSUME NEW x \in Execution, Finalizing(x), final'[e] # final[e]
      PROVE  FinalFine(e)'
  <2>1. x = e
    BY <1>1, <1>5
    DEF Finalizing, ExpectVersions, ReadReferences, CheckHead, Finalize, RefuseFinalize
  <2>2. CASE final'[e] = IdleFinal
    BY <1>3, <2>2 DEF FinalFine, IdleFinal
  <2>3. CASE ExpectVersions(e)
    BY <1>1, <2>3 DEF ExpectVersions, FinalFine, rowVars
  <2>4. CASE ReadReferences(e)
    <3>1. /\ final'[e].refs = [s \in Slot |-> slot[e][s].ref]
          /\ final'[e].execution = final[e].execution /\ execution' = execution /\ slot' = slot
      BY <1>1, <2>4 DEF ReadReferences, rowVars, FinalRow
    <3> QED
      BY <1>1, <3>1 DEF FinalFine
  <2>5. CASE CheckHead(e)
    <3>1. /\ final'[e].refs = final[e].refs /\ final[e].step = "read"
          /\ final'[e].execution = final[e].execution /\ execution' = execution /\ slot' = slot
      BY <1>1, <2>5 DEF CheckHead, rowVars, FinalRow
    <3> QED
      BY <1>1, <3>1 DEF FinalFine
  <2> QED
    BY <1>1, <1>5, <2>1, <2>2, <2>3, <2>4, <2>5 DEF Finalizing, Finalize, RefuseFinalize
<1> QED
  BY <1>4, <1>5, EveryEvidenceMoves DEF FinalMoves

\* A finalization writes what the slots refer to.
LEMMA FinalizeFine ==
  ASSUME EvidenceInv, NEW e \in Execution, Finalize(e)
  PROVE  ArtifactFine(e)'
<1>1. /\ artifact \in [Execution -> ArtifactRow] /\ execution \in [Execution -> ExecutionRow]
      /\ slot \in [Execution -> [Slot -> SlotRow]]
  BY Rows DEF TypeOK
<1>2. PICK c \in {"completed", "partial"} : c = Coverage(e)
  BY DEF Coverage
<1>3. final[e].refs = [s \in Slot |-> slot[e][s].ref]
  BY DEF EvidenceInv, FinalFine, Finalize, Finalizable, CurrentRunning
<1>4. /\ artifact'[e] = [coverage |-> c, refs |-> final[e].refs]
      /\ execution'[e].state = c
      /\ slot'[e] = Cancelled(e)
  BY <1>1, <1>2 DEF Finalize, ExecutionRow
<1>5. \A s \in Slot : slot'[e][s].ref = slot[e][s].ref
  BY <1>4, CancelledKeeps
<1>6. artifact'[e].refs = [s \in Slot |-> slot'[e][s].ref]
  BY <1>3, <1>4, <1>5
<1>7. c = "completed" <=> \A s \in Required : slot[e][s].ref # NoLease
  BY <1>2, RequiredAssumption DEF Coverage, EvidenceInv, SlotFine
<1>8. \A s \in Required : artifact'[e].refs[s] = slot[e][s].ref
  BY <1>3, <1>4, RequiredAssumption
<1> QED
  BY <1>4, <1>6, <1>7, <1>8 DEF ArtifactFine

LEMMA NextArtifactFine ==
  ASSUME EvidenceInv, [Next]_vars, NEW e \in Execution
  PROVE  ArtifactFine(e)'
<1>1. /\ artifact \in [Execution -> ArtifactRow] /\ ArtifactFine(e) /\ VersionMove(e)
  BY EveryStepMoves, Rows DEF TypeOK, Moves, EvidenceInv
<1>2. CASE Finalize(e)
  BY <1>2, FinalizeFine
<1>3. CASE PruneExecution(e)
  <2>1. artifact'[e] = NoArtifact
    BY <1>1, <1>3 DEF PruneExecution
  <2> QED
    BY <2>1 DEF ArtifactFine, NoArtifact
<1>4. CASE ~Finalize(e) /\ ~PruneExecution(e)
  <2>1. artifact'[e] = artifact[e]
    BY <1>1, <1>4, EveryEvidenceMoves DEF ArtifactMoves, Finalize, PruneExecution
  <2>2. artifact[e].coverage \in {"none", "completed", "partial"}
    BY <1>1 DEF ArtifactRow
  <2>3. CASE execution[e].state \in {"absent", "planned", "running"}
    BY <1>1, <2>1, <2>2, <2>3 DEF ArtifactFine
  <2>4. CASE slot'[e] = slot[e] /\ execution'[e].state = execution[e].state
    BY <1>1, <2>1, <2>4 DEF ArtifactFine
  <2> QED
    BY <1>1, <1>4, <2>3, <2>4 DEF VersionMove
<1> QED
  BY <1>2, <1>3, <1>4

LEMMA NextExecutionFine ==
  ASSUME EvidenceInv, [Next]_vars, NEW e \in Execution
  PROVE  ExecutionFine(e)'
<1>1. VersionMove(e) /\ ExecutionFine(e) /\ execution \in [Execution -> ExecutionRow]
  BY EveryStepMoves, Rows DEF Moves, EvidenceInv
<1>2. PruneExecution(e) => execution'[e].state = "pruned"
  BY <1>1 DEF PruneExecution, ExecutionRow
<1> QED
  BY <1>1, <1>2 DEF VersionMove, ExecutionFine

LEMMA NextEvidence == EvidenceIInv /\ [Next]_vars => EvidenceIInv'
<1> SUFFICES ASSUME EvidenceIInv, [Next]_vars PROVE EvidenceIInv'
  OBVIOUS
<1>1. EvidenceInv /\ IInv
  BY DEF EvidenceIInv
<1>2. IInv'
  BY <1>1, NextLeases
<1>3. \A e \in Execution, s \in Slot : SlotFine(e, s)'
  BY <1>1, NextSlotFine
<1>4. \A l \in Lease : LeaseFine(l)'
  BY <1>1, NextLeaseFine
<1>5. \A e \in Execution : (FinalFine(e) /\ ArtifactFine(e) /\ ExecutionFine(e))'
  BY <1>1, NextFinalFine, NextArtifactFine, NextExecutionFine
<1> QED
  BY <1>2, <1>3, <1>4, <1>5 DEF EvidenceIInv, EvidenceInv, IInv

-----------------------------------------------------------------------------
(* What follows. *)

\* What an execution refers to is still there: no retention step removes an
\* observation, a lease row or an execution that something refers to.
THEOREM ReferencesHold == Spec => []ReferencesResolve
<1>1. ASSUME EvidenceIInv PROVE ReferencesResolve
  BY <1>1 DEF ReferencesResolve, EvidenceIInv, EvidenceInv, SlotFine, LeaseFine, LeaseInv,
              PointerInv, TypeOK
<1> QED
  BY <1>1, InitEvidence, NextEvidence, PTL DEF Spec

\* An artifact lists the observations its execution ended with and says what
\* they cover, although they were read before the transaction.
THEOREM ArtifactsMatch == Spec => []ArtifactMatchesEvidence
<1>1. EvidenceIInv => ArtifactMatchesEvidence
  BY DEF ArtifactMatchesEvidence, EvidenceIInv, EvidenceInv, ArtifactFine
<1> QED
  BY <1>1, InitEvidence, NextEvidence, PTL DEF Spec

LEMMA PrunedRow ==
  ASSUME EvidenceInv, NEW e \in Execution, PruneExecution(e)
  PROVE  execution'[e].state = "pruned"
  BY Rows DEF PruneExecution, ExecutionRow

\* A satisfied slot keeps the observation it accepted: no late report, no
\* cancellation and no other lease replaces it.
THEOREM AcceptedHolds == Spec => AcceptedStays
<1> DEFINE A == \A e \in Execution, s \in Slot :
                  slot[e][s].ref # NoLease /\ execution'[e].state # "pruned" =>
                    slot'[e][s].ref = slot[e][s].ref /\ slot'[e][s].state = "satisfied"
<1>1. ASSUME EvidenceIInv, [Next]_vars, NEW e \in Execution, NEW s \in Slot,
             slot[e][s].ref # NoLease, execution'[e].state # "pruned"
      PROVE  slot'[e][s].ref = slot[e][s].ref /\ slot'[e][s].state = "satisfied"
  <2>1. EvidenceInv /\ SlotMove(e, s) /\ SlotFine(e, s)
    BY <1>1, EveryStepMoves DEF EvidenceIInv, EvidenceInv, Moves
  <2> QED
    BY <1>1, <2>1, PrunedRow DEF SlotMove, SlotFine
<1>2. EvidenceIInv /\ [Next]_vars => [A]_vars
  BY <1>1
<1> QED
  BY <1>2, InitEvidence, NextEvidence, PTL DEF Spec, AcceptedStays

\* An execution that ended stays as it ended, with its slots and its artifact,
\* until retention removes it whole.
THEOREM TerminalHolds == Spec => TerminalFrozen
<1> DEFINE A == \A e \in Execution : execution[e].state \in TerminalExecution =>
                  \/ execution'[e].state = "pruned"
                  \/ execution'[e] = execution[e] /\ slot'[e] = slot[e] /\ artifact'[e] = artifact[e]
<1>1. ASSUME EvidenceIInv, [Next]_vars, NEW e \in Execution,
             execution[e].state \in TerminalExecution
      PROVE  \/ execution'[e].state = "pruned"
             \/ execution'[e] = execution[e] /\ slot'[e] = slot[e] /\ artifact'[e] = artifact[e]
  <2>1. EvidenceInv /\ VersionMove(e) /\ artifact \in [Execution -> ArtifactRow]
    BY <1>1, EveryStepMoves, Rows DEF EvidenceIInv, Moves, TypeOK
  <2>2. CASE PruneExecution(e)
    BY <2>1, <2>2, PrunedRow
  <2>3. CASE ~PruneExecution(e)
    <3>1. execution'[e] = execution[e] /\ slot'[e] = slot[e]
      BY <1>1, <2>1, <2>3 DEF VersionMove, TerminalExecution
    <3>2. ~Finalize(e)
      BY <1>1 DEF Finalize, Finalizable, CurrentRunning, TerminalExecution
    <3>3. artifact'[e] = artifact[e]
      BY <1>1, <2>1, <2>3, <3>2, EveryEvidenceMoves DEF ArtifactMoves, Finalize, PruneExecution
    <3> QED
      BY <3>1, <3>3
  <2> QED
    BY <2>2, <2>3
<1>2. EvidenceIInv /\ [Next]_vars => [A]_vars
  BY <1>1
<1> QED
  BY <1>2, InitEvidence, NextEvidence, PTL DEF Spec, TerminalFrozen

LEMMA StreamMoves ==
  ASSUME TypeOK, [Next]_vars
  PROVE  stream' # stream => stream'.version > stream.version
<1>1. stream \in StreamRow /\ stream.version \in Nat
  BY DEF TypeOK, StreamRow
<1>2. ASSUME NEW e \in Execution, Moving(e), stream' # stream
      PROVE  stream'.version = stream.version + 1
  BY <1>1, <1>2 DEF Moving, Prepare, Supersede, Admit, RejectStale, Finalize, FailAbandoned,
                    FailExpiredRunning, PruneExecution, StreamRow
<1> QED
  BY <1>1, <1>2, QuietOrMoving DEF Quiet

\* The compare-and-set of the commands is sound: whatever changes a stream
\* row, an execution or one of its slots moves the version that is compared.
THEOREM VersionsHold == Spec => VersionsMove
<1> DEFINE A == /\ stream' # stream => stream'.version > stream.version
                /\ \A e \in Execution :
                     \/ execution'[e].version > execution[e].version
                     \/ execution'[e].state = "pruned"
                     \/ slot'[e] = slot[e] /\ [execution'[e] EXCEPT !.due = 0]
                                                = [execution[e] EXCEPT !.due = 0]
<1>1. ASSUME EvidenceIInv, [Next]_vars
      PROVE  stream' # stream => stream'.version > stream.version
  BY <1>1, StreamMoves, Rows DEF EvidenceIInv
<1>2. ASSUME EvidenceIInv, [Next]_vars, NEW e \in Execution
      PROVE  \/ execution'[e].version > execution[e].version
             \/ execution'[e].state = "pruned"
             \/ slot'[e] = slot[e] /\ [execution'[e] EXCEPT !.due = 0]
                                        = [execution[e] EXCEPT !.due = 0]
  BY <1>2, EveryStepMoves, PrunedRow DEF EvidenceIInv, Moves, VersionMove
<1>3. EvidenceIInv /\ [Next]_vars => [A]_vars
  BY <1>1, <1>2
<1> QED
  BY <1>3, InitEvidence, NextEvidence, PTL DEF Spec, VersionsMove

-----------------------------------------------------------------------------
(* Permits.  A refused permit stays refused because generations differ: no   *)
(* execution prepared later can bring the generation of an older one back.   *)

GenerationsDiffer ==
  \A x, y \in Execution :
    x # y /\ execution[x].state # "absent" /\ execution[y].state # "absent" =>
      execution[x].generation # execution[y].generation

ArtifactsWritten == \A e \in Execution : artifact[e] # NoArtifact => artifact[e].coverage # "none"

PermitInv == EvidenceIInv /\ GenerationsDiffer /\ ArtifactsWritten

\* Only a preparation gives an execution its generation.
LEMMA GenerationMoves ==
  ASSUME EvidenceInv, [Next]_vars, NEW x \in Execution
  PROVE  \/ \E r \in Revision : Prepare(x, r)
         \/ /\ execution'[x].generation = execution[x].generation
            /\ execution'[x].state = "absent" <=> execution[x].state = "absent"
<1>1. /\ execution \in [Execution -> ExecutionRow] /\ execution[x] \in ExecutionRow
      /\ TypeOK /\ PointersAgree
  BY Rows
<1>2. CASE Quiet
  BY <1>2 DEF Quiet, Lifecycle
<1>3. ASSUME NEW e \in Execution, Moving(e)
      PROVE  \/ \E r \in Revision : Prepare(x, r)
             \/ /\ execution'[x].generation = execution[x].generation
                /\ execution'[x].state = "absent" <=> execution[x].state = "absent"
  <2>1. ASSUME NEW r \in Revision, Prepare(e, r), x # e
        PROVE  \/ execution'[x] = execution[x]
               \/ execution[x].state = "planned" /\ execution'[x] = Superseded(x, e)
    <3> DEFINE displaced == {y \in Execution : stream.prepared = y /\ execution[y].state = "planned"}
    <3>1. execution'[x] = IF x \in displaced THEN Superseded(x, e) ELSE execution[x]
      BY <2>1 DEF Prepare
    <3> QED
      BY <3>1
  <2>2. CASE Admit(e)
    <3> DEFINE displaced == {y \in Execution : stream.active = y /\ y # e
                                               /\ execution[y].state \notin TerminalExecution}
    <3>1. /\ execution[e].state = "planned"
          /\ x = e => execution'[x] = [execution[x] EXCEPT !.state = "running", !.version = @ + 1]
          /\ x # e => execution'[x] = IF x \in displaced THEN Superseded(x, e) ELSE execution[x]
      BY <2>2 DEF Admit, AdmissionHolds
    <3>2. x \in displaced => execution[x].state = "running"
      BY <1>1, NoneAssumption DEF PointersAgree, TerminalExecution
    <3> HIDE DEF displaced
    <3>3. CASE x = e
      BY <1>1, <3>1, <3>3 DEF ExecutionRow
    <3>4. CASE x # e
      <4>1. Superseded(x, e).generation = execution[x].generation
            /\ Superseded(x, e).state = "superseded"
        BY <1>1, EndedLifecycle
      <4> QED
        BY <3>1, <3>2, <3>4, <4>1
    <3> QED
      BY <3>3, <3>4
  <2>3. ASSUME NEW r \in Revision, Supersede(e, r)
        PROVE  /\ execution'[x].generation = execution[x].generation
               /\ execution'[x].state = "absent" <=> execution[x].state = "absent"
    BY <1>1, <2>3, EndedLifecycle DEF Supersede
  <2>4. CASE RejectStale(e) \/ FailAbandoned(e) \/ FailExpiredRunning(e)
    BY <1>1, <2>4, EndedLifecycle
    DEF RejectStale, AdmissionHolds, FailAbandoned, FailExpiredRunning, CurrentRunning
  <2>5. CASE Finalize(e) \/ PruneExecution(e)
    BY <1>1, <2>5 DEF Finalize, Finalizable, CurrentRunning, Coverage, PruneExecution, Prunable,
                      TerminalExecution, ExecutionRow
  <2>6. ASSUME NEW r \in Revision, Prepare(e, r), x # e
        PROVE  /\ execution'[x].generation = execution[x].generation
               /\ execution'[x].state = "absent" <=> execution[x].state = "absent"
    <3>1. Superseded(x, e).generation = execution[x].generation
          /\ Superseded(x, e).state = "superseded"
      BY <1>1, EndedLifecycle
    <3> QED
      BY <2>1, <2>6, <3>1
  <2> QED
    BY <1>3, <2>2, <2>3, <2>4, <2>5, <2>6 DEF Moving
<1> QED
  BY <1>1, <1>2, <1>3, QuietOrMoving

LEMMA NextPermit == PermitInv /\ [Next]_vars => PermitInv'
<1> SUFFICES ASSUME PermitInv, [Next]_vars PROVE PermitInv'
  OBVIOUS
<1>1. EvidenceInv /\ EvidenceIInv /\ EvidenceIInv' /\ TypeOK
  BY NextEvidence, Rows DEF PermitInv, EvidenceIInv
<1>2. ArtifactsWritten'
  <2> SUFFICES ASSUME NEW e \in Execution, artifact'[e] # NoArtifact
               PROVE  artifact'[e].coverage # "none"
    BY DEF ArtifactsWritten
  <2>1. CASE artifact'[e] = artifact[e]
    BY <2>1 DEF PermitInv, ArtifactsWritten
  <2>2. CASE Finalize(e)
    <3>1. artifact'[e].coverage = Coverage(e)
      BY <1>1, <2>2 DEF Finalize, TypeOK
    <3> QED
      BY <3>1 DEF Coverage
  <2>3. CASE PruneExecution(e)
    BY <1>1, <2>3 DEF PruneExecution, TypeOK
  <2>4. \/ artifact'[e] = artifact[e]
        \/ Finalize(e) \/ PruneExecution(e)
    <3>1. artifact \in [Execution -> ArtifactRow]
      BY <1>1 DEF TypeOK
    <3> QED
      BY <3>1, EveryEvidenceMoves DEF ArtifactMoves, Finalize, PruneExecution
  <2> QED
    BY <2>1, <2>2, <2>3, <2>4
<1>3. GenerationsDiffer'
  <2>1. \A x \in Execution : execution[x].generation \in Nat /\ stream.generation \in Nat
    BY <1>1 DEF TypeOK, ExecutionRow, StreamRow
  <2>2. ASSUME NEW x \in Execution, NEW r \in Revision, Prepare(x, r),
               NEW y \in Execution, y # x
        PROVE  execution'[x].generation # execution'[y].generation
    <3>1. execution'[x].generation = stream.generation + 1
      BY <1>1, <2>2 DEF Prepare, AbsentExecution, TypeOK
    <3>2. execution'[y].generation = execution[y].generation
      BY <1>1, <2>2, EndedLifecycle DEF Prepare
    <3>3. execution[y].generation <= stream.generation
      BY <1>1, Rows DEF PointerInv, GenerationsAllocated
    <3> QED
      BY <2>1, <3>1, <3>2, <3>3
  <2> SUFFICES ASSUME NEW x \in Execution, NEW y \in Execution, x # y,
                      execution'[x].state # "absent", execution'[y].state # "absent"
               PROVE  execution'[x].generation # execution'[y].generation
    BY DEF GenerationsDiffer
  <2>3. CASE \E r \in Revision : Prepare(x, r) \/ Prepare(y, r)
    BY <2>2, <2>3
  <2>4. CASE ~\E r \in Revision : Prepare(x, r) \/ Prepare(y, r)
    BY <1>1, <2>4, GenerationMoves DEF PermitInv, GenerationsDiffer
  <2> QED
    BY <2>3, <2>4
<1> QED
  BY <1>1, <1>2, <1>3 DEF PermitInv

LEMMA InitPermit == Init => PermitInv
<1>1. Init => \A e \in Execution : execution[e].state = "absent" /\ artifact[e] = NoArtifact
  BY DEF Init, AbsentExecution
<1> QED
  BY <1>1, InitEvidence DEF PermitInv, GenerationsDiffer, ArtifactsWritten

\* A stream that moves gives no old permit back.
LEMMA StreamKeepsRefusing ==
  ASSUME PermitInv, NEW e \in Execution, execution[e].state \in {"completed", "partial"},
         NEW x \in Execution, Moving(x), stream'.active = e,
         stream'.generation = execution[e].generation,
         stream'.revision = execution[e].revision
  PROVE  stream.active = e /\ stream.generation = execution[e].generation
         /\ stream.revision = execution[e].revision
<1>1. /\ stream \in StreamRow /\ PointersAgree /\ GenerationsAllocated /\ TypeOK
      /\ stream.generation \in Nat /\ execution[e].generation \in Nat
      /\ e # None /\ x # None
  BY Rows, NoneAssumption
  DEF PermitInv, EvidenceIInv, PointerInv, TypeOK, StreamRow, ExecutionRow
<1>2. ASSUME NEW r \in Revision, Prepare(x, r)
      PROVE  FALSE
  <2>1. stream'.generation = stream.generation + 1
    BY <1>1, <1>2 DEF Prepare, StreamRow
  <2>2. execution[e].generation <= stream.generation
    BY <1>1 DEF GenerationsAllocated
  <2> QED
    BY <1>1, <2>1, <2>2
<1>3. ASSUME NEW r \in Revision, Supersede(x, r)
      PROVE  FALSE
  <2>1. execution[x].state \in {"planned", "running"} /\ x # e
    BY <1>3 DEF Supersede
  <2>2. CASE execution[x].state = "running"
    <3>1. stream.active = x /\ stream'.active = None
      BY <1>1, <1>3, <2>2 DEF Supersede, PointersAgree, StreamRow
    <3> QED
      BY <1>1, <3>1
  <2>3. CASE execution[x].state = "planned"
    <3>1. stream.prepared = x /\ execution[x].generation = stream.generation
      BY <1>1, <2>3 DEF PointersAgree
    <3>2. stream'.generation = stream.generation
      BY <1>1, <1>3 DEF Supersede, StreamRow
    <3> QED
      BY <2>1, <3>1, <3>2 DEF PermitInv, GenerationsDiffer
  <2> QED
    BY <2>1, <2>2, <2>3
<1>4. CASE Admit(x) \/ Finalize(x) \/ FailExpiredRunning(x)
  <2>1. x # e
    BY <1>4 DEF Admit, AdmissionHolds, Finalize, Finalizable, FailExpiredRunning, CurrentRunning
  <2>2. stream'.active \in {x, None}
    BY <1>1, <1>4 DEF Admit, Finalize, Finalizable, FailExpiredRunning, CurrentRunning, StreamRow
  <2> QED
    BY <1>1, <2>1, <2>2
<1>5. CASE RejectStale(x) \/ FailAbandoned(x) \/ PruneExecution(x)
  BY <1>1, <1>5 DEF RejectStale, FailAbandoned, PruneExecution, StreamRow
<1> QED
  BY <1>2, <1>3, <1>4, <1>5 DEF Moving

\* A publication permit that was refused because its execution was replaced or
\* its revision moved is refused for ever, whatever is superseded later.
THEOREM RefusedForEver == Spec => PermitNeverRevives
<1> DEFINE A == \A e \in Execution :
                  artifact[e] # NoArtifact /\ ~PermitCurrent(e) => ~PermitCurrent(e)'
<1>1. ASSUME PermitInv, [Next]_vars, NEW e \in Execution,
             artifact[e] # NoArtifact, ~PermitCurrent(e)
      PROVE  ~PermitCurrent(e)'
  <2> SUFFICES ASSUME PermitCurrent(e)' PROVE FALSE
    OBVIOUS
  <2>1. EvidenceInv /\ TypeOK /\ VersionMove(e)
    BY <1>1, Rows, EveryStepMoves DEF PermitInv, EvidenceIInv, Moves
  <2>2. execution[e].state \in {"completed", "partial"}
    <3>1. artifact[e].coverage \in {"completed", "partial"}
      BY <1>1, <2>1 DEF PermitInv, ArtifactsWritten, TypeOK, ArtifactRow
    <3> QED
      BY <2>1, <3>1 DEF EvidenceInv, ArtifactFine
  <2>3. ~PruneExecution(e)
    BY <2>1 DEF PruneExecution, PermitCurrent, TypeOK
  <2>4. execution'[e] = execution[e]
    BY <2>1, <2>2, <2>3 DEF VersionMove
  <2>5. CASE stream' = stream
    BY <1>1, <2>4, <2>5 DEF PermitCurrent, CurrentRevision
  <2>6. ASSUME NEW x \in Execution, Moving(x) PROVE FALSE
    BY <1>1, <2>2, <2>4, <2>6, StreamKeepsRefusing DEF PermitCurrent, CurrentRevision
  <2> QED
    BY <1>1, <2>1, <2>5, <2>6, QuietOrMoving DEF Quiet
<1>2. PermitInv /\ [Next]_vars => [A]_vars
  BY <1>1
<1> QED
  BY <1>2, InitPermit, NextPermit, PTL DEF Spec, PermitNeverRevives

-----------------------------------------------------------------------------
(* Attempts.  The next ordinal of a work slot counts the provider leases     *)
(* granted for it, whatever became of them.                                  *)

Attempts(e, s) ==
  {l \in Lease : lease[l].execution = e /\ lease[l].slot = s /\ lease[l].purpose = "provider"}

OrdinalsKept == \A e \in Execution, s \in Slot : slot'[e][s].ordinal = slot[e][s].ordinal

LEMMA RowsKeepOrdinals ==
  ASSUME EvidenceInv, NEW e \in Execution, NEW s \in Slot
  PROVE  /\ Cancelled(e)[s].ordinal = slot[e][s].ordinal
         /\ Vacated(slot[e][s]).ordinal = slot[e][s].ordinal
         /\ \A o \in Lease, x \in Execution, t \in Slot :
              Satisfied(e, s, o)[x][t].ordinal = slot[x][t].ordinal
<1>1. slot \in [Execution -> [Slot -> SlotRow]] /\ slot[e][s] \in SlotRow
  BY Rows
<1>2. \A o \in Lease, x \in Execution, t \in Slot :
        Satisfied(e, s, o)[x][t].ordinal = slot[x][t].ordinal
  BY <1>1 DEF Satisfied, SlotRow
<1> QED
  BY <1>1, <1>2 DEF Cancelled, Vacated, SlotRow

LEMMA FreedKeepsOrdinals ==
  ASSUME EvidenceInv, NEW l \in Lease, lease[l].state = "active"
  PROVE  \A x \in Execution, t \in Slot : FreedSlots(l)[x][t].ordinal = slot[x][t].ordinal
<1>1. PICK e \in Execution, s \in Slot : e = lease[l].execution /\ s = lease[l].slot
                                         /\ slot[e][s].lease = l
  BY ActiveRow DEF EvidenceInv
<1>2. slot \in [Execution -> [Slot -> SlotRow]]
  BY Rows
<1>3. FreedSlots(l) = [slot EXCEPT ![e][s] = Vacated(slot[e][s])]
  BY <1>1, <1>2 DEF FreedSlots, Holds
<1> QED
  BY <1>1, <1>2, <1>3, RowsKeepOrdinals

LEMMA AcquireOrdinals ==
  ASSUME EvidenceInv, NEW e \in Execution, NEW s \in Slot, NEW k \in Key, AcquireLease(e, s, k)
  PROVE  /\ slot'[e][s].ordinal = slot[e][s].ordinal + 1
         /\ \A x \in Execution, t \in Slot :
              x # e \/ t # s => slot'[x][t].ordinal = slot[x][t].ordinal
<1> DEFINE slots(i) == IF i = NoLease THEN slot ELSE FreedSlots(i)
<1>1. PICK i \in {NoLease} \cup Lease :
        /\ i # NoLease => lease[i].state = "active"
        /\ slot' = [slots(i) EXCEPT ![e][s] =
             [slots(i)[e][s] EXCEPT !.state = "leased", !.lease = fence + 1, !.ordinal = @ + 1]]
  BY DEF AcquireLease, Incumbents
<1>2. slots(i) \in [Execution -> [Slot -> SlotRow]]
  BY <1>1, FreedRows, Rows
<1>3. \A x \in Execution, t \in Slot : slots(i)[x][t].ordinal = slot[x][t].ordinal
  BY <1>1, FreedKeepsOrdinals
<1> HIDE DEF slots
<1>4. slots(i)[e][s] \in SlotRow
  BY <1>2
<1>5. slot'[e][s].ordinal = slots(i)[e][s].ordinal + 1
  BY <1>1, <1>2, <1>4 DEF SlotRow
<1>6. \A x \in Execution, t \in Slot : x # e \/ t # s => slot'[x][t] = slots(i)[x][t]
  BY <1>1, <1>2
<1> QED
  BY <1>3, <1>5, <1>6

LEMMA EveryOrdinal ==
  ASSUME EvidenceInv, [Next]_vars
  PROVE  \/ OrdinalsKept
         \/ \E e \in Execution, s \in Slot, k \in Key : AcquireLease(e, s, k)
         \/ \E e \in Execution : PruneExecution(e)
<1>0. slot \in [Execution -> [Slot -> SlotRow]]
  BY Rows
<1>1. ASSUME slot' = slot PROVE OrdinalsKept
  BY <1>1 DEF OrdinalsKept
<1>2. CASE (\E r \in Revision : Push(r)) \/ UNCHANGED vars
  BY <1>1, <1>2 DEF Push, vars, rowVars
<1>3. ASSUME NEW e \in Execution, \A x \in Execution : slot'[x] \in {slot[x], Cancelled(x)}
      PROVE  OrdinalsKept
  BY <1>3, RowsKeepOrdinals DEF OrdinalsKept
<1>4. ASSUME NEW e \in Execution, Starting(e) PROVE OrdinalsKept
  <2>1. ASSUME NEW r \in Revision, Prepare(e, r) PROVE OrdinalsKept
    BY <1>3, <2>1 DEF Prepare
  <2>2. CASE Admit(e)
    BY <1>3, <2>2 DEF Admit
  <2>3. CASE RejectStale(e)
    BY <1>0, <1>3, <2>3 DEF RejectStale
  <2> QED
    BY <1>1, <1>4, <2>1, <2>2, <2>3 DEF Starting, Reload, Postcheck, DeferAdmission, rowVars
<1>5. ASSUME NEW e \in Execution, Finalizing(e) PROVE OrdinalsKept
  <2>1. CASE Finalize(e)
    BY <1>0, <1>3, <2>1 DEF Finalize
  <2> QED
    BY <1>1, <1>5, <2>1
    DEF Finalizing, ExpectVersions, ReadReferences, CheckHead, RefuseFinalize, rowVars
<1>6. ASSUME NEW e \in Execution, Ending(e) PROVE OrdinalsKept
  <2>1. CASE DeadlinePasses(e)
    BY <1>1, <2>1 DEF DeadlinePasses
  <2> QED
    BY <1>0, <1>3, <1>6, <2>1 DEF Ending, Supersede, FailAbandoned, FailExpiredRunning
<1>7. ASSUME NEW e \in Execution, NEW s \in Slot, ExhaustSlot(e, s) \/ TerminalizeSlot(e, s)
      PROVE  OrdinalsKept
  <2>1. slot[e][s] \in SlotRow
    BY <1>0
  <2>2. PICK row \in {[slot[e][s] EXCEPT !.state = t] : t \in {"exhausted", "cancelled"}}
                     \cup {[slot[e][s] EXCEPT !.state = "exhausted", !.lease = NoLease]} :
          slot' = [slot EXCEPT ![e][s] = row]
    <3>1. CASE ExhaustSlot(e, s)
      BY <3>1 DEF ExhaustSlot
    <3>2. CASE TerminalizeSlot(e, s)
      BY <3>2 DEF TerminalizeSlot
    <3> QED
      BY <1>7, <3>1, <3>2
  <2>3. row.ordinal = slot[e][s].ordinal
    BY <2>1, <2>2 DEF SlotRow
  <2> QED
    BY <1>0, <2>2, <2>3 DEF OrdinalsKept
<1>8. ASSUME NEW l \in Lease, Holding(l) PROVE OrdinalsKept
  BY <1>1, <1>8, FreedKeepsOrdinals
  DEF Holding, LeaseAges, ExpireLease, ReleaseLease, OrdinalsKept
<1>9. ASSUME NEW l \in Lease, Reporting(l) PROVE OrdinalsKept
  <2>1. ASSUME NEW e \in Execution, NEW s \in Slot, slot' = Satisfied(e, s, l)
        PROVE  OrdinalsKept
    BY <2>1, RowsKeepOrdinals DEF OrdinalsKept
  <2>2. lease[l].state # "unused" => lease[l].execution \in Execution /\ lease[l].slot \in Slot
    BY GrantedRow, Rows DEF GrantedLease
  <2>3. CASE CommitObservation(l)
    BY <1>1, <2>3 DEF CommitObservation, rowVars
  <2>4. CASE AttachFresh(l) \/ AdoptObservation(l)
    BY <2>1, <2>2, <2>4 DEF AttachFresh, AdoptObservation
  <2>5. ASSUME NEW e \in Execution, AttachReusable(e, l) PROVE OrdinalsKept
    <3>1. lease[l].state # "unused"
      BY <2>5 DEF AttachReusable, EvidenceInv, LeaseFine
    <3> QED
      BY <2>1, <2>2, <2>5, <3>1 DEF AttachReusable
  <2> QED
    BY <1>9, <2>3, <2>4, <2>5 DEF Reporting
<1>10. CASE Retaining
  BY <1>1, <1>10 DEF Retaining, PruneObservation, CompactLease, rowVars
<1> QED
  BY <1>2, <1>4, <1>5, <1>6, <1>7, <1>8, <1>9, <1>10 DEF Next, Leasing

LEMMA EveryAttempt ==
  ASSUME EvidenceIInv, [Next]_vars, NEW e \in Execution, NEW s \in Slot
  PROVE  \/ Attempts(e, s)' = Attempts(e, s) /\ ~\E k \in Key : AcquireLease(e, s, k)
         \/ /\ \E k \in Key : AcquireLease(e, s, k)
            /\ fence + 1 \in Lease \ Attempts(e, s)
            /\ Attempts(e, s)' = Attempts(e, s) \cup {fence + 1}
<1>1. LeaseInv /\ HolderIsNewest /\ TypeOK /\ lease \in [Lease -> LeaseRow]
  BY Rows DEF EvidenceIInv, IInv
<1>2. \A l \in Lease : lease[l].state = "unused" => lease[l].execution = None
  BY <1>1 DEF LeaseRow, GrantedLease, LeaseState, UnusedLease
<1>3. e # None
  BY NoneAssumption
<1>4. CASE LeasesOnlyEnd
  <2>1. ~\E k \in Key : AcquireLease(e, s, k)
    <3> SUFFICES ASSUME NEW k \in Key, AcquireLease(e, s, k) PROVE FALSE
      OBVIOUS
    <3>1. fence' = fence + 1 /\ fence \in Nat
      BY <1>1, FenceAssumption DEF AcquireLease, TypeOK
    <3> QED
      BY <1>4, <3>1 DEF LeasesOnlyEnd
  <2> QED
    BY <1>4, <2>1 DEF LeasesOnlyEnd, SameGrant, Attempts
<1>5. ASSUME NEW l \in Lease, AdoptObservation(l)
      PROVE  Attempts(e, s)' = Attempts(e, s) /\ ~\E k \in Key : AcquireLease(e, s, k)
  <2> DEFINE f == fence + 1
  <2>1. /\ f \in Lease /\ lease[f].state = "unused" /\ lease'[f].purpose = "adoption"
        /\ lease'[f].state = "released"
        /\ \A m \in Lease \ {f} : SameGrant(lease'[m], lease[m])
    BY <1>1, <1>5, AdoptedLease
  <2>2. ASSUME NEW k \in Key, AcquireLease(e, s, k) PROVE FALSE
    <3>1. lease'[f] = [state |-> "active", execution |-> e, slot |-> s, key |-> k,
                       purpose |-> "provider", age |-> 0]
      BY <1>1, <2>2, AcquiredLease
    <3> QED
      BY <2>1, <3>1
  <2>3. f \notin Attempts(e, s)
    BY <1>2, <1>3, <2>1 DEF Attempts
  <2> QED
    BY <2>1, <2>2, <2>3 DEF Attempts, SameGrant
<1>6. ASSUME NEW x \in Execution, NEW t \in Slot, NEW k \in Key, AcquireLease(x, t, k)
      PROVE  IF x = e /\ t = s
             THEN /\ fence + 1 \in Lease \ Attempts(e, s)
                  /\ Attempts(e, s)' = Attempts(e, s) \cup {fence + 1}
             ELSE Attempts(e, s)' = Attempts(e, s) /\ ~\E j \in Key : AcquireLease(e, s, j)
  <2> DEFINE f == fence + 1
  <2>1. /\ f \in Lease /\ lease[f].state = "unused"
        /\ lease'[f] = [state |-> "active", execution |-> x, slot |-> t, key |-> k,
                        purpose |-> "provider", age |-> 0]
        /\ \A m \in Lease \ {f} : SameGrant(lease'[m], lease[m])
    BY <1>1, <1>6, AcquiredLease
  <2>2. /\ lease'[f].execution = x /\ lease'[f].slot = t /\ lease'[f].purpose = "provider"
    BY <2>1
  <2>3. f \notin Attempts(e, s)
    BY <1>2, <1>3, <2>1 DEF Attempts
  <2>4. ASSUME NEW j \in Key, AcquireLease(e, s, j) PROVE x = e /\ t = s
    <3>1. lease'[f] = [state |-> "active", execution |-> e, slot |-> s, key |-> j,
                       purpose |-> "provider", age |-> 0]
      BY <1>1, <2>4, AcquiredLease
    <3> QED
      BY <2>2, <3>1
  <2>5. Attempts(e, s)' = IF x = e /\ t = s THEN Attempts(e, s) \cup {f} ELSE Attempts(e, s)
    <3> HIDE DEF f
    <3> QED
      BY <2>1, <2>2, <2>3 DEF Attempts, SameGrant
  <2> QED
    BY <2>1, <2>3, <2>4, <2>5
<1> QED
  BY <1>1, <1>4, <1>5, <1>6, EndingOrGranting DEF Granting

BudgetInv == EvidenceIInv /\ AttemptsWithinBudget

LEMMA AttemptsFinite ==
  \A e \in Execution, s \in Slot : IsFiniteSet(Attempts(e, s))
<1>1. IsFiniteSet(Lease)
  BY FenceAssumption, FS_Interval DEF Lease
<1> QED
  BY <1>1, FS_Subset DEF Attempts

LEMMA InitBudget == Init => BudgetInv
<1> SUFFICES ASSUME Init PROVE AttemptsWithinBudget
  BY InitEvidence DEF BudgetInv
<1> SUFFICES ASSUME NEW e \in Execution, NEW s \in Slot
             PROVE  /\ Cardinality(Attempts(e, s)) <= AttemptBudget
                    /\ slot[e][s].ordinal = Cardinality(Attempts(e, s)) + 1
  BY DEF AttemptsWithinBudget, Attempts
<1>1. Attempts(e, s) = {}
  BY NoneAssumption DEF Init, UnusedLease, Attempts
<1>2. Cardinality(Attempts(e, s)) = 0 /\ slot[e][s].ordinal = 1
  BY <1>1, FS_EmptySet DEF Init, FreshSlot
<1> QED
  BY <1>2, BudgetAssumption

LEMMA NextBudget == BudgetInv /\ [Next]_vars => BudgetInv'
<1> SUFFICES ASSUME BudgetInv, [Next]_vars PROVE AttemptsWithinBudget'
  BY NextEvidence DEF BudgetInv
<1> SUFFICES ASSUME NEW e \in Execution, NEW s \in Slot
             PROVE  /\ Cardinality(Attempts(e, s)') <= AttemptBudget
                    /\ execution'[e].state # "pruned" =>
                         slot'[e][s].ordinal = Cardinality(Attempts(e, s)') + 1
  BY DEF AttemptsWithinBudget, Attempts
<1>1. EvidenceIInv /\ EvidenceInv /\ VersionMove(e)
  BY EveryStepMoves DEF BudgetInv, EvidenceIInv, Moves
<1>2. /\ Cardinality(Attempts(e, s)) <= AttemptBudget
      /\ execution[e].state # "pruned" => slot[e][s].ordinal = Cardinality(Attempts(e, s)) + 1
  BY DEF BudgetInv, AttemptsWithinBudget, Attempts
<1>3. Cardinality(Attempts(e, s)) \in Nat /\ IsFiniteSet(Attempts(e, s))
  BY AttemptsFinite, FS_CardinalityType
<1>4. execution'[e].state # "pruned" => execution[e].state # "pruned" /\ ~PruneExecution(e)
  BY <1>1, PrunedRow DEF VersionMove
<1>5. ASSUME NEW k \in Key, AcquireLease(e, s, k),
             fence + 1 \in Lease \ Attempts(e, s),
             Attempts(e, s)' = Attempts(e, s) \cup {fence + 1}
      PROVE  /\ Cardinality(Attempts(e, s)') <= AttemptBudget
             /\ slot'[e][s].ordinal = Cardinality(Attempts(e, s)') + 1
  <2>1. Cardinality(Attempts(e, s)') = Cardinality(Attempts(e, s)) + 1
    BY <1>3, <1>5, FS_AddElement
  <2>2. execution[e].state = "running" /\ slot[e][s].ordinal <= AttemptBudget
    BY <1>5 DEF AcquireLease, Acquirable, CurrentRunning
  <2>3. slot'[e][s].ordinal = slot[e][s].ordinal + 1
    BY <1>1, <1>5, AcquireOrdinals
  <2> QED
    BY <1>2, <1>3, <2>1, <2>2, <2>3
<1>6. ASSUME ~\E k \in Key : AcquireLease(e, s, k), ~PruneExecution(e)
      PROVE  slot'[e][s].ordinal = slot[e][s].ordinal
  <2>1. CASE OrdinalsKept
    BY <2>1 DEF OrdinalsKept
  <2>2. ASSUME NEW x \in Execution, NEW t \in Slot, NEW k \in Key, AcquireLease(x, t, k)
        PROVE  slot'[e][s].ordinal = slot[e][s].ordinal
    BY <1>1, <1>6, <2>2, AcquireOrdinals
  <2>3. ASSUME NEW x \in Execution, PruneExecution(x)
        PROVE  slot'[e][s].ordinal = slot[e][s].ordinal
    <3>1. x # e /\ slot \in [Execution -> [Slot -> SlotRow]]
      BY <1>1, <1>6, <2>3, Rows
    <3> QED
      BY <2>3, <3>1 DEF PruneExecution
  <2> QED
    BY <1>1, <2>1, <2>2, <2>3, EveryOrdinal
<1> QED
  BY <1>1, <1>2, <1>4, <1>5, <1>6, EveryAttempt

\* A work slot never gets more provider leases than its attempt budget, across
\* expiries, releases and takeovers by other slots.
THEOREM BudgetHolds == Spec => []AttemptsWithinBudget
<1>1. BudgetInv => AttemptsWithinBudget
  BY DEF BudgetInv
<1> QED
  BY <1>1, InitBudget, NextBudget, PTL DEF Spec

=============================================================================
