------------------- MODULE ReviewExecutionLeases_proofs -------------------
(***************************************************************************)
(* Proofs about the leases of ReviewExecution: a work slot and the lease   *)
(* that holds it always agree, and a holder is never overtaken.            *)
(***************************************************************************)
EXTENDS ReviewExecution_proofs

\* The rows of the leases granted so far are the tokens handed out.
TokensInOrder == \A l \in Lease : lease[l].state = "unused" <=> l > fence

\* An adopted lease is born released.
HoldersRun == \A l \in Lease : lease[l].state = "active" => lease[l].purpose = "provider"

LeaseInv == PointerInv /\ LeaseSlotCoupling /\ TokensInOrder /\ HoldersRun

-----------------------------------------------------------------------------
(* Consequences of the coupling. *)

\* The lease that is active names its holder.
LEMMA ActiveRow ==
  ASSUME LeaseInv, NEW l \in Lease, lease[l].state = "active"
  PROVE  /\ lease[l].execution \in Execution /\ lease[l].slot \in Slot
         /\ stream.active = lease[l].execution /\ execution[lease[l].execution].state = "running"
         /\ slot[lease[l].execution][lease[l].slot].lease = l
<1>1. lease[l].execution \in Execution /\ lease[l].slot \in Slot
  BY GrantedRow DEF LeaseInv, PointerInv, GrantedLease
<1> QED
  BY <1>1 DEF LeaseInv, LeaseSlotCoupling, CurrentRunning, Holds

\* Only the current running execution has held slots.
LEMMA OthersHoldNothing ==
  ASSUME LeaseInv, NEW e \in Execution, ~CurrentRunning(e), NEW s \in Slot
  PROVE  slot[e][s].lease = NoLease /\ slot[e][s].state # "leased"
<1> DEFINE l == slot[e][s].lease
<1>1. l \in Lease \cup {NoLease}
  BY DEF LeaseInv, PointerInv, TypeOK, SlotRow
<1>2. CASE l # NoLease
  <2>1. l \in Lease /\ lease[l].state = "active" /\ lease[l].execution = e
    BY <1>1, <1>2 DEF LeaseInv, LeaseSlotCoupling
  <2> QED
    BY <2>1, ActiveRow DEF CurrentRunning
<1> QED
  BY <1>2 DEF LeaseInv, LeaseSlotCoupling

\* When every lease is over and no slot is held, they agree.
LEMMA NoHoldersCoupled ==
  ASSUME \A l \in Lease : lease'[l].state # "active",
         \A e \in Execution, s \in Slot :
           slot'[e][s].lease = NoLease /\ slot'[e][s].state # "leased"
  PROVE  LeaseSlotCoupling'
  BY DEF LeaseSlotCoupling

\* No lease becomes active, is over or changes hands.
LeasesStand ==
  \A l \in Lease : /\ lease'[l].state = "active" <=> lease[l].state = "active"
                   /\ lease'[l].execution = lease[l].execution
                   /\ lease'[l].slot = lease[l].slot

\* Leases stay as they are, and so does whatever the running execution holds.
LEMMA HoldersKept ==
  ASSUME LeaseInv, LeasesStand,
         stream'.active = stream.active,
         \A e \in Execution : CurrentRunning(e) =>
           /\ execution'[e].state = "running"
           /\ \A s \in Slot : /\ slot'[e][s].lease = slot[e][s].lease
                              /\ slot'[e][s].state = "leased" <=> slot[e][s].state = "leased",
         \A e \in Execution : ~CurrentRunning(e) => \A s \in Slot :
           slot'[e][s].lease = NoLease /\ slot'[e][s].state # "leased"
  PROVE  LeaseSlotCoupling'
<1>1. ASSUME NEW l \in Lease, lease'[l].state = "active"
      PROVE  (CurrentRunning(lease[l].execution) /\ Holds(l))'
  BY <1>1, ActiveRow DEF CurrentRunning, Holds, LeasesStand
<1>2. ASSUME NEW e \in Execution, NEW s \in Slot
      PROVE  LET l == slot'[e][s].lease
             IN /\ l # NoLease <=> slot'[e][s].state = "leased"
                /\ l # NoLease => /\ lease'[l].state = "active"
                                  /\ lease'[l].execution = e /\ lease'[l].slot = s
  <2>1. CASE CurrentRunning(e)
    <3>1. slot[e][s].lease \in Lease \cup {NoLease}
      BY DEF LeaseInv, PointerInv, TypeOK, SlotRow
    <3> QED
      BY <2>1, <3>1 DEF LeaseInv, LeaseSlotCoupling, LeasesStand
  <2> QED
    BY <2>1
<1> QED
  BY <1>1, <1>2 DEF LeaseSlotCoupling, CurrentRunning, Holds

LEMMA SlotsKept ==
  ASSUME LeaseInv, LeasesStand, stream' = stream, slot' = slot,
         \A x \in Execution : execution'[x].state = execution[x].state
  PROVE  LeaseSlotCoupling'
  BY HoldersKept, OthersHoldNothing DEF CurrentRunning

\* The running execution ends: its slots are cancelled and its leases revoked.
LEMMA CancelledRow ==
  ASSUME LeaseInv, NEW e \in Execution, NEW s \in Slot
  PROVE  Cancelled(e)[s].lease = NoLease /\ Cancelled(e)[s].state # "leased"
<1>1. slot[e][s] \in SlotRow
  BY DEF LeaseInv, PointerInv, TypeOK
<1>2. CASE slot[e][s].state \in TerminalSlot
  BY <1>2 DEF LeaseInv, LeaseSlotCoupling, TerminalSlot, Cancelled
<1>3. CASE slot[e][s].state \notin TerminalSlot
  BY <1>1, <1>3 DEF Cancelled, SlotRow
<1> QED
  BY <1>2, <1>3

LEMMA RunningEnded ==
  ASSUME LeaseInv, NEW e \in Execution, CurrentRunning(e),
         slot' = [slot EXCEPT ![e] = Cancelled(e)], lease' = Revoked(e)
  PROVE  LeaseSlotCoupling'
<1>1. \A l \in Lease : lease'[l].state # "active"
  <2> SUFFICES ASSUME NEW l \in Lease, lease[l].state = "active"
               PROVE  Revoked(e)[l].state # "active"
    BY DEF Revoked
  <2>1. lease[l].execution = e /\ lease[l] \in GrantedLease
    BY ActiveRow, GrantedRow DEF CurrentRunning, LeaseInv, PointerInv
  <2> QED
    BY <2>1 DEF Revoked, GrantedLease
<1>2. ASSUME NEW x \in Execution, NEW s \in Slot
      PROVE  slot'[x][s].lease = NoLease /\ slot'[x][s].state # "leased"
  <2>1. CASE x = e
    BY <2>1, CancelledRow DEF LeaseInv, PointerInv, TypeOK
  <2>2. CASE x # e
    <3>1. ~CurrentRunning(x)
      BY <2>2 DEF CurrentRunning
    <3> QED
      BY <2>2, <3>1, OthersHoldNothing DEF LeaseInv, PointerInv, TypeOK
  <2> QED
    BY <2>1, <2>2
<1> QED
  BY <1>1, <1>2, NoHoldersCoupled

\* A lease that ends vacates exactly the slot it held.
LEMMA HolderFreed ==
  ASSUME LeaseInv, NEW l \in Lease, lease[l].state = "active"
  PROVE  LET e == lease[l].execution
             s == lease[l].slot
         IN /\ FreedSlots(l) = [slot EXCEPT ![e] = [slot[e] EXCEPT ![s] = Vacated(slot[e][s])]]
            /\ Vacated(slot[e][s]).lease = NoLease /\ Vacated(slot[e][s]).state # "leased"
<1> DEFINE e == lease[l].execution
           s == lease[l].slot
<1>1. e \in Execution /\ s \in Slot /\ slot[e][s].lease = l
  BY ActiveRow
<1>2. slot \in [Execution -> [Slot -> SlotRow]] /\ slot[e][s] \in SlotRow
  BY <1>1 DEF LeaseInv, PointerInv, TypeOK
<1>3. FreedSlots(l) = [slot EXCEPT ![e] = [slot[e] EXCEPT ![s] = Vacated(slot[e][s])]]
  BY <1>1, <1>2 DEF FreedSlots, Holds
<1>4. Vacated(slot[e][s]).lease = NoLease /\ Vacated(slot[e][s]).state # "leased"
  BY <1>2 DEF Vacated, SlotRow
<1> QED
  BY <1>3, <1>4

-----------------------------------------------------------------------------
(* Every command keeps the coupling. *)

\* The leases that are active after a step are those active before, without h.
ActiveWithout(h) ==
  \A l \in Lease :
    /\ lease'[l].state = "active" <=> lease[l].state = "active" /\ l # h
    /\ lease[l].state = "active" =>
         lease'[l].execution = lease[l].execution /\ lease'[l].slot = lease[l].slot

\* The holder of one slot goes: its slot is left without a lease.
LEMMA OneHolderGone ==
  ASSUME LeaseInv, Quiet, NEW e \in Execution, NEW s \in Slot, CurrentRunning(e),
         NEW row, row.lease = NoLease, row.state # "leased",
         slot' = [slot EXCEPT ![e] = [slot[e] EXCEPT ![s] = row]],
         ActiveWithout(slot[e][s].lease)
  PROVE  LeaseSlotCoupling'
<1>1. slot \in [Execution -> [Slot -> SlotRow]]
  BY DEF LeaseInv, PointerInv, TypeOK
<1>2. \A x \in Execution : CurrentRunning(x) <=> CurrentRunning(x)'
  BY DEF Quiet, Lifecycle, CurrentRunning
<1>3. ASSUME NEW l \in Lease, lease'[l].state = "active"
      PROVE  (CurrentRunning(lease[l].execution) /\ Holds(l))'
  <2>1. /\ lease[l].state = "active" /\ l # slot[e][s].lease
        /\ lease'[l].execution = lease[l].execution /\ lease'[l].slot = lease[l].slot
    BY <1>3 DEF ActiveWithout
  <2>2. /\ lease[l].execution \in Execution /\ lease[l].slot \in Slot
        /\ slot[lease[l].execution][lease[l].slot].lease = l
        /\ CurrentRunning(lease[l].execution)
    BY <2>1, ActiveRow DEF CurrentRunning
  <2>3. slot'[lease[l].execution][lease[l].slot].lease = l
    BY <1>1, <2>1, <2>2
  <2> QED
    BY <1>2, <2>1, <2>2, <2>3 DEF Holds, CurrentRunning
<1>4. ASSUME NEW x \in Execution, NEW t \in Slot
      PROVE  LET l == slot'[x][t].lease
             IN /\ l # NoLease <=> slot'[x][t].state = "leased"
                /\ l # NoLease => /\ lease'[l].state = "active"
                                  /\ lease'[l].execution = x /\ lease'[l].slot = t
  <2>1. CASE x = e /\ t = s
    BY <1>1, <2>1
  <2>2. CASE ~(x = e /\ t = s)
    <3> DEFINE l == slot[x][t].lease
    <3>1. slot'[x][t] = slot[x][t]
      BY <1>1, <2>2
    <3>2. l # NoLease <=> slot[x][t].state = "leased"
      BY DEF LeaseInv, LeaseSlotCoupling
    <3>3. ASSUME l # NoLease
          PROVE  lease'[l].state = "active" /\ lease'[l].execution = x /\ lease'[l].slot = t
      <4>1. l \in Lease
        BY <1>1, <3>3 DEF SlotRow
      <4>2. lease[l].state = "active" /\ lease[l].execution = x /\ lease[l].slot = t
        BY <3>3 DEF LeaseInv, LeaseSlotCoupling
      <4>3. l # slot[e][s].lease
        <5> SUFFICES ASSUME l = slot[e][s].lease PROVE FALSE
          OBVIOUS
        <5>1. lease[l].execution = e /\ lease[l].slot = s
          BY <3>3 DEF LeaseInv, LeaseSlotCoupling
        <5> QED
          BY <2>2, <4>2, <5>1
      <4> QED
        BY <4>1, <4>2, <4>3 DEF ActiveWithout
    <3> QED
      BY <3>1, <3>2, <3>3
  <2> QED
    BY <2>1, <2>2
<1> QED
  BY <1>3, <1>4 DEF LeaseSlotCoupling

\* A granted lease takes its slot; the leases that ended for it leave theirs.
LEMMA AcquireCoupled ==
  ASSUME LeaseInv, Quiet, NEW e \in Execution, NEW s \in Slot, NEW k \in Key,
         AcquireLease(e, s, k)
  PROVE  LeaseSlotCoupling'
<1> DEFINE c == slot[e][s].lease
           f == fence + 1
           slots(i) == IF i = NoLease THEN slot ELSE FreedSlots(i)
           taken(i) == [slots(i)[e][s] EXCEPT !.state = "leased", !.lease = f, !.ordinal = @ + 1]
           granted == [state |-> "active", execution |-> e, slot |-> s, key |-> k,
                       purpose |-> "provider", age |-> 0]
<1>1. PICK i \in IF Incumbents(k, c) = {} THEN {NoLease} ELSE Incumbents(k, c) :
        /\ slot' = [slots(i) EXCEPT ![e][s] = taken(i)]
        /\ lease' = [ExpiredLeases({c, i}) EXCEPT ![f] = granted]
  BY DEF AcquireLease
<1>2. i # NoLease => i \in Lease /\ lease[i].state = "active" /\ i # c
  BY DEF Incumbents
<1>3. f \in Lease /\ f # NoLease /\ lease[f].state = "unused"
  BY NextToken, NoLeaseIsNoToken DEF AcquireLease, LeaseInv, PointerInv, TokensInOrder, TypeOK
<1>4. CurrentRunning(e)
  BY DEF AcquireLease, Acquirable
<1>5. i # NoLease =>
        /\ lease[i].execution = e /\ lease[i].slot \in Slot /\ lease[i].slot # s
        /\ slot[e][lease[i].slot].lease = i
  BY <1>2, <1>4, ActiveRow DEF CurrentRunning
<1>6. slot \in [Execution -> [Slot -> SlotRow]]
  BY DEF LeaseInv, PointerInv, TypeOK
<1>7. slots(i) \in [Execution -> [Slot -> SlotRow]]
  BY <1>2, <1>6, FreedRows DEF LeaseInv, PointerInv
<1>8. /\ \A x \in Execution, t \in Slot :
          ~(x = e /\ t = s) /\ ~(x = e /\ i # NoLease /\ t = lease[i].slot)
            => slot'[x][t] = slot[x][t]
      /\ slot'[e][s].lease = f /\ slot'[e][s].state = "leased"
      /\ i # NoLease => /\ slot'[e][lease[i].slot].lease = NoLease
                        /\ slot'[e][lease[i].slot].state # "leased"
  <2>1. \A x \in Execution, t \in Slot :
          ~(x = e /\ t = s) => slot'[x][t] = slots(i)[x][t]
    <3> HIDE DEF slots
    <3> QED
      BY <1>1, <1>7
  <2>2. slot'[e][s] = taken(i) /\ slots(i)[e][s] \in SlotRow
    <3> HIDE DEF slots
    <3> QED
      BY <1>1, <1>7
  <2>3. slot'[e][s].lease = f /\ slot'[e][s].state = "leased"
    <3> HIDE DEF slots
    <3> QED
      BY <2>2 DEF SlotRow
  <2>4. CASE i = NoLease
    BY <2>1, <2>3, <2>4
  <2>5. CASE i # NoLease
    <3>1. slots(i) = [slot EXCEPT ![e] = [slot[e] EXCEPT ![lease[i].slot] =
                                            Vacated(slot[e][lease[i].slot])]]
      BY <1>2, <1>5, <2>5, HolderFreed
    <3>2. /\ Vacated(slot[e][lease[i].slot]).lease = NoLease
          /\ Vacated(slot[e][lease[i].slot]).state # "leased"
      BY <1>2, <1>5, <2>5, HolderFreed
    <3> QED
      BY <1>5, <1>6, <2>1, <2>3, <2>5, <3>1, <3>2
  <2> QED
    BY <2>4, <2>5
<1>9. /\ lease'[f].state = "active" /\ lease'[f].execution = e /\ lease'[f].slot = s
      /\ \A l \in Lease \ {f} :
           /\ lease'[l].state = "active" <=> lease[l].state = "active" /\ l \notin {c, i}
           /\ lease[l].state = "active" =>
                lease'[l].execution = lease[l].execution /\ lease'[l].slot = lease[l].slot
  <2>1. ExpiredLeases({c, i}) \in [Lease -> LeaseRow]
    BY EndedLeases DEF LeaseInv, PointerInv
  <2>2. \A l \in Lease : lease[l].state = "active" => lease[l] \in GrantedLease
    BY GrantedRow DEF LeaseInv, PointerInv
  <2>3. \A l \in Lease :
          /\ ExpiredLeases({c, i})[l].state = "active" <=>
               lease[l].state = "active" /\ l \notin {c, i}
          /\ lease[l].state = "active" =>
               /\ ExpiredLeases({c, i})[l].execution = lease[l].execution
               /\ ExpiredLeases({c, i})[l].slot = lease[l].slot
    BY <2>2 DEF ExpiredLeases, GrantedLease
  <2> QED
    BY <1>1, <1>3, <2>1, <2>3
<1>10. \A x \in Execution : CurrentRunning(x) <=> CurrentRunning(x)'
  BY DEF Quiet, Lifecycle, CurrentRunning
<1> HIDE DEF slots, taken, granted
<1>11. ASSUME NEW l \in Lease, lease'[l].state = "active"
       PROVE  (CurrentRunning(lease[l].execution) /\ Holds(l))'
  <2>1. CASE l = f
    BY <1>4, <1>8, <1>9, <1>10, <2>1 DEF Holds, CurrentRunning
  <2>2. CASE l # f
    <3>1. /\ lease[l].state = "active" /\ l # c /\ l # i
          /\ lease'[l].execution = lease[l].execution /\ lease'[l].slot = lease[l].slot
      BY <1>9, <1>11, <2>2
    <3>2. /\ lease[l].execution = e /\ lease[l].slot \in Slot /\ slot[e][lease[l].slot].lease = l
      BY <1>4, <3>1, ActiveRow DEF CurrentRunning
    <3>3. lease[l].slot # s /\ (i # NoLease => lease[l].slot # lease[i].slot)
      BY <1>5, <3>1, <3>2
    <3>4. slot'[e][lease[l].slot] = slot[e][lease[l].slot]
      BY <1>8, <3>2, <3>3
    <3> QED
      BY <1>4, <1>10, <3>1, <3>2, <3>4 DEF Holds, CurrentRunning
  <2> QED
    BY <2>1, <2>2
<1>12. ASSUME NEW x \in Execution, NEW t \in Slot
       PROVE  LET l == slot'[x][t].lease
              IN /\ l # NoLease <=> slot'[x][t].state = "leased"
                 /\ l # NoLease => /\ lease'[l].state = "active"
                                   /\ lease'[l].execution = x /\ lease'[l].slot = t
  <2>1. CASE x = e /\ t = s
    BY <1>3, <1>8, <1>9, <2>1
  <2>2. CASE x = e /\ i # NoLease /\ t = lease[i].slot
    BY <1>8, <2>2
  <2>3. CASE ~(x = e /\ t = s) /\ ~(x = e /\ i # NoLease /\ t = lease[i].slot)
    <3> DEFINE l == slot[x][t].lease
    <3>1. slot'[x][t] = slot[x][t]
      BY <1>8, <2>3
    <3>2. l # NoLease <=> slot[x][t].state = "leased"
      BY DEF LeaseInv, LeaseSlotCoupling
    <3>3. ASSUME l # NoLease
          PROVE  lease'[l].state = "active" /\ lease'[l].execution = x /\ lease'[l].slot = t
      <4>1. l \in Lease
        BY <1>6, <3>3 DEF SlotRow
      <4>2. lease[l].state = "active" /\ lease[l].execution = x /\ lease[l].slot = t
        BY <3>3 DEF LeaseInv, LeaseSlotCoupling
      <4>3. l # c
        <5>1. c # NoLease => lease[c].execution = e /\ lease[c].slot = s
          BY DEF LeaseInv, LeaseSlotCoupling
        <5> QED
          BY <2>3, <3>3, <4>2, <5>1
      <4>4. l # i
        BY <1>5, <2>3, <3>3, <4>2
      <4>5. l # f
        BY <1>3, <4>2
      <4> QED
        BY <1>9, <4>1, <4>2, <4>3, <4>4, <4>5
    <3> QED
      BY <3>1, <3>2, <3>3
  <2> QED
    BY <2>1, <2>2, <2>3
<1> QED
  BY <1>11, <1>12 DEF LeaseSlotCoupling

LEMMA WorkCoupled ==
  ASSUME LeaseInv, NEW e \in Execution, NEW s \in Slot,
         Leasing(e, s) \/ TerminalizeSlot(e, s)
  PROVE  LeaseSlotCoupling'
<1>1. Quiet
  BY WorkQuiet DEF LeaseInv, PointerInv
<1>2. slot[e][s] \in SlotRow /\ slot \in [Execution -> [Slot -> SlotRow]]
  BY DEF LeaseInv, PointerInv, TypeOK
<1>3. CASE ExhaustSlot(e, s)
  <2> DEFINE row == [slot[e][s] EXCEPT !.state = "exhausted", !.lease = NoLease]
  <2>1. slot' = [slot EXCEPT ![e] = [slot[e] EXCEPT ![s] = row]]
    BY <1>2, <1>3 DEF ExhaustSlot
  <2>2. row.lease = NoLease /\ row.state # "leased"
    BY <1>2 DEF SlotRow
  <2>3. \A l \in Lease : lease[l].state = "active" => lease[l] \in GrantedLease
    BY GrantedRow DEF LeaseInv, PointerInv
  <2>4. lease' = ExpiredLeases({slot[e][s].lease}) /\ CurrentRunning(e)
    BY <1>3 DEF ExhaustSlot, Acquirable
  <2>5. ActiveWithout(slot[e][s].lease)
    BY <2>3, <2>4 DEF ActiveWithout, ExpiredLeases, GrantedLease
  <2> HIDE DEF row
  <2> QED
    BY <1>1, <2>1, <2>2, <2>4, <2>5, OneHolderGone
<1>4. ASSUME NEW k \in Key, AcquireLease(e, s, k) PROVE LeaseSlotCoupling'
  BY <1>1, <1>4, AcquireCoupled
<1>5. CASE TerminalizeSlot(e, s)
  <2>1. PICK t \in {"exhausted", "cancelled"} : slot' = [slot EXCEPT ![e][s].state = t]
    BY <1>5 DEF TerminalizeSlot
  <2> DEFINE row == [slot[e][s] EXCEPT !.state = t]
  <2>2. slot' = [slot EXCEPT ![e] = [slot[e] EXCEPT ![s] = row]]
    BY <1>2, <2>1
  <2>3. CurrentRunning(e) /\ slot[e][s].lease = NoLease /\ lease' = lease
    BY <1>5 DEF TerminalizeSlot
  <2>4. row.lease = NoLease /\ row.state # "leased"
    BY <1>2, <2>3 DEF SlotRow
  <2>5. ActiveWithout(slot[e][s].lease)
    BY <2>3, NoLeaseIsNoToken DEF ActiveWithout
  <2> HIDE DEF row
  <2> QED
    BY <1>1, <2>2, <2>3, <2>4, <2>5, OneHolderGone
<1> QED
  BY <1>3, <1>4, <1>5 DEF Leasing

LEMMA HoldingCoupled ==
  ASSUME LeaseInv, NEW l \in Lease, Holding(l)
  PROVE  LeaseSlotCoupling'
<1>1. Quiet
  BY WorkQuiet DEF LeaseInv, PointerInv
<1>2. TypeOK /\ lease \in [Lease -> LeaseRow]
  BY DEF LeaseInv, PointerInv, TypeOK
<1>3. CASE LeaseAges(l)
  <2>1. lease[l] \in GrantedLease
    BY <1>2, <1>3, GrantedRow DEF LeaseAges
  <2>2. LeasesStand
    BY <1>2, <1>3, <2>1 DEF LeaseAges, GrantedLease, LeasesStand
  <2> QED
    BY <1>3, <2>2, SlotsKept DEF LeaseAges
<1>4. ASSUME NEW st \in {"expired", "released"}, lease[l].state = "active",
             lease' = [lease EXCEPT ![l].state = st], slot' = FreedSlots(l)
      PROVE  LeaseSlotCoupling'
  <2> DEFINE e == lease[l].execution
             s == lease[l].slot
  <2>1. e \in Execution /\ s \in Slot /\ slot[e][s].lease = l /\ CurrentRunning(e)
    BY <1>4, ActiveRow DEF CurrentRunning
  <2>2. lease[l] \in GrantedLease
    BY <1>2, <1>4, GrantedRow
  <2>3. ActiveWithout(slot[e][s].lease)
    BY <1>2, <1>4, <2>1, <2>2 DEF ActiveWithout, GrantedLease
  <2>4. /\ slot' = [slot EXCEPT ![e] = [slot[e] EXCEPT ![s] = Vacated(slot[e][s])]]
        /\ Vacated(slot[e][s]).lease = NoLease /\ Vacated(slot[e][s]).state # "leased"
    BY <1>4, HolderFreed
  <2> HIDE DEF e, s
  <2> QED
    BY <1>1, <2>1, <2>3, <2>4, OneHolderGone
<1> QED
  BY <1>3, <1>4 DEF Holding, ExpireLease, ReleaseLease

LEMMA ReportingCoupled ==
  ASSUME LeaseInv, NEW l \in Lease, Reporting(l)
  PROVE  LeaseSlotCoupling'
<1>1. Quiet
  BY WorkQuiet DEF LeaseInv, PointerInv
<1>2. /\ TypeOK /\ lease \in [Lease -> LeaseRow] /\ slot \in [Execution -> [Slot -> SlotRow]]
      /\ \A m \in Lease : lease[m].state # "unused" => lease[m] \in GrantedLease
  BY GrantedRow DEF LeaseInv, PointerInv, TypeOK
\* An observation satisfies a slot of the running execution, and the lease it
\* had, if any, is over.
<1>3. ASSUME NEW e \in Execution, NEW s \in Slot, CurrentRunning(e), slot' = Satisfied(e, s, l),
             ActiveWithout(slot[e][s].lease)
      PROVE  LeaseSlotCoupling'
  <2> DEFINE row == [slot[e][s] EXCEPT !.state = "satisfied", !.lease = NoLease, !.ref = l]
  <2>1. slot' = [slot EXCEPT ![e] = [slot[e] EXCEPT ![s] = row]]
    BY <1>2, <1>3 DEF Satisfied
  <2>2. row.lease = NoLease /\ row.state # "leased"
    BY <1>2 DEF SlotRow
  <2> HIDE DEF row
  <2> QED
    BY <1>1, <1>3, <2>1, <2>2, OneHolderGone
<1>4. CASE CommitObservation(l)
  BY <1>4 DEF CommitObservation, rowVars, LeaseInv, LeaseSlotCoupling, CurrentRunning, Holds
<1>5. CASE AttachFresh(l)
  <2> DEFINE e == lease[l].execution
             s == lease[l].slot
  <2>1. e \in Execution /\ s \in Slot
    BY <1>5, ActiveRow DEF AttachFresh
  <2>2. /\ CurrentRunning(e) /\ slot[e][s].lease = l /\ slot' = Satisfied(e, s, l)
        /\ lease' = [lease EXCEPT ![l].state = "released"] /\ lease[l] \in GrantedLease
    BY <1>2, <1>5 DEF AttachFresh, Attachable
  <2>3. ActiveWithout(slot[e][s].lease)
    BY <1>2, <2>2 DEF ActiveWithout, GrantedLease
  <2> HIDE DEF e, s
  <2> QED
    BY <1>3, <2>1, <2>2, <2>3
<1>6. CASE AdoptObservation(l)
  <2> DEFINE e == lease[l].execution
             s == lease[l].slot
             f == fence + 1
             source == IF lease[l].state # "active" THEN lease[l].state
                       ELSE IF Expired(l) THEN "expired" ELSE "released"
             adopted == [state |-> "released", execution |-> e, slot |-> s,
                         key |-> lease[l].key, purpose |-> "adoption", age |-> 2]
  <2>1. /\ lease[l].state \in {"active", "released", "expired"} /\ lease[l] \in GrantedLease
        /\ CurrentRunning(e) /\ slot[e][s].lease \in {NoLease, l} /\ slot' = Satisfied(e, s, l)
        /\ lease' = [lease EXCEPT ![l].state = source, ![f] = adopted]
    BY <1>2, <1>6 DEF AdoptObservation, Attachable
  <2>2. e \in Execution /\ s \in Slot
    BY <2>1 DEF GrantedLease
  <2>3. f \in Lease /\ lease[f].state = "unused"
    BY <1>2, <1>6, NextToken DEF AdoptObservation, LeaseInv, TokensInOrder, TypeOK
  <2>4. source # "active" /\ (lease[l].state = "active" <=> slot[e][s].lease = l)
    <3>1. lease[l].state = "active" => slot[e][s].lease = l
      BY ActiveRow
    <3>2. slot[e][s].lease = l => lease[l].state = "active"
      BY <2>2, NoLeaseIsNoToken DEF LeaseInv, LeaseSlotCoupling
    <3> QED
      BY <3>1, <3>2
  <2>5. \A m \in Lease \ {l, f} : lease'[m] = lease[m]
    BY <1>2, <2>1
  <2>6. lease'[l].state = source /\ lease'[l].execution = e /\ lease'[l].slot = s /\ l # f
    <3>1. l # f
      BY <2>1, <2>3
    <3> HIDE DEF source
    <3> QED
      BY <1>2, <2>1, <3>1 DEF GrantedLease
  <2>7. lease'[f].state = "released"
    BY <1>2, <2>1, <2>3
  <2>8. ActiveWithout(slot[e][s].lease)
    BY <2>1, <2>3, <2>4, <2>5, <2>6, <2>7, NoLeaseIsNoToken DEF ActiveWithout
  <2> HIDE DEF e, s
  <2> QED
    BY <1>3, <2>1, <2>2, <2>8
<1>7. ASSUME NEW e \in Execution, AttachReusable(e, l) PROVE LeaseSlotCoupling'
  <2> DEFINE s == lease[l].slot
  <2>1. /\ CurrentRunning(e) /\ slot[e][s].lease = NoLease /\ slot' = Satisfied(e, s, l)
        /\ lease' = lease
    BY <1>7 DEF AttachReusable, Attachable
  <2>2. CASE s \in Slot
    <3>1. ActiveWithout(slot[e][s].lease)
      BY <2>1, NoLeaseIsNoToken DEF ActiveWithout
    <3> QED
      BY <1>3, <2>1, <2>2, <3>1
  <2>3. CASE s \notin Slot
    <3>1. slot' = slot
      BY <1>2, <2>1, <2>3 DEF Satisfied
    <3> QED
      BY <1>1, <2>1, <3>1 DEF LeaseInv, LeaseSlotCoupling, CurrentRunning, Holds, Quiet, Lifecycle
  <2> QED
    BY <2>2, <2>3
<1> QED
  BY <1>4, <1>5, <1>6, <1>7 DEF Reporting

\* Executions that do not run end, and the holders stay.
LEMMA IdleEndCoupled ==
  ASSUME LeaseInv, NEW D \in SUBSET Execution, \A x \in D : ~CurrentRunning(x),
         slot' = [x \in Execution |-> IF x \in D THEN Cancelled(x) ELSE slot[x]],
         lease' = lease, stream'.active = stream.active,
         \A x \in Execution : CurrentRunning(x) => execution'[x].state = "running"
  PROVE  LeaseSlotCoupling'
<1>1. \A x \in Execution : CurrentRunning(x) => slot'[x] = slot[x]
  OBVIOUS
<1>2. \A x \in Execution : ~CurrentRunning(x) => \A s \in Slot :
        slot'[x][s].lease = NoLease /\ slot'[x][s].state # "leased"
  BY OthersHoldNothing, CancelledRow
<1>3. LeasesStand
  BY DEF LeasesStand
<1> QED
  BY <1>1, <1>2, <1>3, HoldersKept

\* One execution that does not run ends.
LEMMA PlannedEndCoupled ==
  ASSUME LeaseInv, NEW e \in Execution, execution[e].state = "planned",
         slot' = [slot EXCEPT ![e] = Cancelled(e)], lease' = lease,
         stream'.active = stream.active,
         \A x \in Execution \ {e} : execution'[x] = execution[x]
  PROVE  LeaseSlotCoupling'
<1>1. slot' = [x \in Execution |-> IF x \in {e} THEN Cancelled(x) ELSE slot[x]]
  BY DEF LeaseInv, PointerInv, TypeOK
<1>2. {e} \in SUBSET Execution /\ \A x \in {e} : ~CurrentRunning(x)
  BY DEF CurrentRunning
<1>3. \A x \in Execution : CurrentRunning(x) => execution'[x].state = "running"
  BY DEF CurrentRunning
<1> QED
  BY <1>1, <1>2, <1>3, IdleEndCoupled

LEMMA StartingCoupled ==
  ASSUME LeaseInv, NEW e \in Execution, Starting(e)
  PROVE  LeaseSlotCoupling'
<1>1. /\ TypeOK /\ PointersAgree /\ slot \in [Execution -> [Slot -> SlotRow]]
      /\ execution \in [Execution -> ExecutionRow] /\ stream \in StreamRow
  BY DEF LeaseInv, PointerInv, TypeOK
<1>2. CASE Reload(e) \/ Postcheck(e) \/ DeferAdmission(e)
  BY <1>2
  DEF Reload, Postcheck, DeferAdmission, rowVars, LeaseInv, LeaseSlotCoupling, CurrentRunning, Holds
<1>3. ASSUME NEW r \in Revision, Prepare(e, r) PROVE LeaseSlotCoupling'
  <2> DEFINE D == {x \in Execution : stream.prepared = x /\ execution[x].state = "planned"}
  <2>1. /\ slot' = [x \in Execution |-> IF x \in D THEN Cancelled(x) ELSE slot[x]]
        /\ lease' = lease /\ stream'.active = stream.active
    BY <1>1, <1>3 DEF Prepare, StreamRow
  <2>2. \A x \in D : ~CurrentRunning(x)
    BY DEF CurrentRunning
  <2>3. \A x \in Execution : CurrentRunning(x) => execution'[x].state = "running"
    BY <1>3, <2>2 DEF Prepare, CurrentRunning
  <2>4. D \in SUBSET Execution
    OBVIOUS
  <2> HIDE DEF D
  <2> QED
    BY <2>1, <2>2, <2>3, <2>4, IdleEndCoupled
<1>4. CASE Admit(e)
  <2> DEFINE D == {x \in Execution : stream.active = x /\ x # e
                                     /\ execution[x].state \notin TerminalExecution}
  <2>1. /\ slot' = [x \in Execution |-> IF x \in D THEN Cancelled(x) ELSE slot[x]]
        /\ lease' = IF D = {} THEN lease ELSE Revoked(stream.active)
        /\ execution[e].state = "planned"
    BY <1>4 DEF Admit, AdmissionHolds
  <2>2. \A x \in Execution : CurrentRunning(x) <=> x \in D
    BY <1>1, <2>1, NoneAssumption DEF CurrentRunning, PointersAgree, TerminalExecution
  <2>3. \A l \in Lease : lease'[l].state # "active"
    <3> SUFFICES ASSUME NEW l \in Lease, lease[l].state = "active"
                 PROVE  lease'[l].state # "active"
      BY <2>1 DEF Revoked
    <3>1. lease[l].execution = stream.active /\ lease[l].execution \in D /\ lease[l] \in GrantedLease
      BY <1>1, <2>2, ActiveRow, GrantedRow DEF CurrentRunning
    <3>2. lease' = Revoked(stream.active)
      BY <2>1, <3>1
    <3> HIDE DEF D
    <3> QED
      BY <3>1, <3>2 DEF Revoked, GrantedLease
  <2>4. \A x \in Execution, s \in Slot :
          slot'[x][s].lease = NoLease /\ slot'[x][s].state # "leased"
    <3> HIDE DEF D
    <3> QED
      BY <2>1, <2>2, OthersHoldNothing, CancelledRow
  <2> QED
    BY <2>3, <2>4, NoHoldersCoupled
<1>5. CASE RejectStale(e)
  BY <1>1, <1>5, PlannedEndCoupled DEF RejectStale, AdmissionHolds, StreamRow
<1> QED
  BY <1>2, <1>3, <1>4, <1>5 DEF Starting

LEMMA EndingCoupled ==
  ASSUME LeaseInv, NEW e \in Execution, Ending(e) \/ Finalizing(e) \/ PruneExecution(e)
  PROVE  LeaseSlotCoupling'
<1>1. /\ TypeOK /\ PointersAgree /\ slot \in [Execution -> [Slot -> SlotRow]]
      /\ execution \in [Execution -> ExecutionRow] /\ stream \in StreamRow
      /\ lease \in [Lease -> LeaseRow]
  BY DEF LeaseInv, PointerInv, TypeOK
<1>2. CASE ExpectVersions(e) \/ ReadReferences(e) \/ CheckHead(e) \/ RefuseFinalize(e)
  BY <1>2
  DEF ExpectVersions, ReadReferences, CheckHead, RefuseFinalize, rowVars, LeaseInv,
      LeaseSlotCoupling, CurrentRunning, Holds
<1>3. CASE Finalize(e) \/ FailExpiredRunning(e)
  BY <1>3, RunningEnded DEF Finalize, Finalizable, FailExpiredRunning
<1>4. ASSUME NEW r \in Revision, Supersede(e, r) PROVE LeaseSlotCoupling'
  <2>1. /\ slot' = [slot EXCEPT ![e] = Cancelled(e)] /\ lease' = Revoked(e)
        /\ e \in {stream.active, stream.prepared} /\ execution[e].state \in {"planned", "running"}
        /\ \A x \in Execution \ {e} : execution'[x] = execution[x]
    BY <1>1, <1>4 DEF Supersede
  <2>2. CASE execution[e].state = "running"
    BY <1>1, <2>1, <2>2, RunningEnded DEF CurrentRunning, PointersAgree
  <2>3. CASE execution[e].state = "planned"
    <3>1. ~CurrentRunning(e) /\ stream.active # e
      BY <1>1, <2>3, NoneAssumption DEF CurrentRunning, PointersAgree
    <3>2. stream'.active = stream.active
      BY <1>1, <1>4, <3>1 DEF Supersede, StreamRow
    <3>3. \A l \in Lease : ~(lease[l].state = "active" /\ lease[l].execution = e)
      BY <3>1, ActiveRow
    <3>4. lease' = lease
      BY <1>1, <2>1, <3>3 DEF Revoked
    <3> QED
      BY <2>1, <2>3, <3>2, <3>4, PlannedEndCoupled
  <2> QED
    BY <2>1, <2>2, <2>3
<1>5. CASE FailAbandoned(e)
  BY <1>1, <1>5, PlannedEndCoupled DEF FailAbandoned, StreamRow
<1>6. CASE DeadlinePasses(e)
  <2>1. \A x \in Execution : execution'[x].state = execution[x].state
    BY <1>1, <1>6 DEF DeadlinePasses, ExecutionRow
  <2>2. LeasesStand
    BY <1>6 DEF DeadlinePasses, LeasesStand
  <2> QED
    BY <1>6, <2>1, <2>2, SlotsKept DEF DeadlinePasses
<1>7. CASE PruneExecution(e)
  <2>1. ~CurrentRunning(e)
    BY <1>7 DEF PruneExecution, Prunable, CurrentRunning
  <2>2. /\ stream' = stream /\ lease' = lease
        /\ \A x \in Execution \ {e} : slot'[x] = slot[x] /\ execution'[x] = execution[x]
        /\ \A s \in Slot : slot'[e][s] = FreshSlot
    BY <1>1, <1>7 DEF PruneExecution
  <2>3. \A x \in Execution : ~CurrentRunning(x) => \A s \in Slot :
          slot'[x][s].lease = NoLease /\ slot'[x][s].state # "leased"
    BY <2>2, OthersHoldNothing DEF FreshSlot
  <2>4. \A x \in Execution : CurrentRunning(x) =>
          execution'[x].state = "running" /\ \A s \in Slot : slot'[x][s] = slot[x][s]
    BY <2>1, <2>2 DEF CurrentRunning
  <2>5. LeasesStand
    BY <2>2 DEF LeasesStand
  <2> QED
    BY <2>2, <2>3, <2>4, <2>5, HoldersKept
<1> QED
  BY <1>2, <1>3, <1>4, <1>5, <1>6, <1>7 DEF Ending, Finalizing

LEMMA NextCoupled == LeaseInv /\ [Next]_vars => LeaseSlotCoupling'
<1> SUFFICES ASSUME LeaseInv, [Next]_vars PROVE LeaseSlotCoupling'
  OBVIOUS
<1>1. CASE UNCHANGED <<stream, execution, slot, lease>>
  BY <1>1 DEF LeaseInv, LeaseSlotCoupling, CurrentRunning, Holds
<1>2. CASE (\E r \in Revision : Push(r)) \/ UNCHANGED vars
             \/ \E l \in Lease : PruneObservation(l)
  BY <1>1, <1>2 DEF Push, PruneObservation, vars, rowVars
<1>3. ASSUME NEW l \in Lease, CompactLease(l) PROVE LeaseSlotCoupling'
  <2>1. lease[l].state # "active" /\ lease[l].state # "unused"
    BY <1>3 DEF CompactLease
  <2>2. LeasesStand
    BY <1>3, <2>1, GrantedRow
    DEF CompactLease, LeaseInv, PointerInv, TypeOK, GrantedLease, LeasesStand
  <2> QED
    BY <1>3, <2>2, SlotsKept DEF CompactLease
<1> QED
  BY <1>2, <1>3, StartingCoupled, EndingCoupled, WorkCoupled, HoldingCoupled, ReportingCoupled
  DEF Next, Retaining

-----------------------------------------------------------------------------
(* Fencing tokens. *)

\* No lease is granted or reopened, and the rows keep what they name.
SameGrant(r, q) ==
  r.execution = q.execution /\ r.slot = q.slot /\ r.key = q.key /\ r.purpose = q.purpose
LeasesOnlyEnd ==
  /\ fence' = fence
  /\ \A l \in Lease :
       /\ lease'[l].state = "unused" <=> lease[l].state = "unused"
       /\ lease'[l].state = "active" => lease[l].state = "active"
       /\ SameGrant(lease'[l], lease[l])

LEMMA EndedOnly ==
  ASSUME TypeOK, fence' = fence, NEW e, NEW X,
         lease' \in {lease, Revoked(e), ExpiredLeases(X)}
  PROVE  LeasesOnlyEnd
<1>1. \A l \in Lease : lease[l].state = "active" => lease[l] \in GrantedLease
  BY GrantedRow
<1> QED
  BY <1>1 DEF LeasesOnlyEnd, SameGrant, Revoked, ExpiredLeases, GrantedLease

LEMMA OneEnded ==
  ASSUME TypeOK, fence' = fence, NEW l \in Lease, lease[l].state # "unused",
         \E st \in {"released", "expired", "compacted"} : lease' = [lease EXCEPT ![l].state = st]
  PROVE  LeasesOnlyEnd
<1>1. lease[l] \in GrantedLease /\ lease \in [Lease -> LeaseRow]
  BY GrantedRow DEF TypeOK
<1> QED
  BY <1>1 DEF LeasesOnlyEnd, SameGrant, GrantedLease

\* Only an acquisition and an adoption draw a token.
Granting ==
  \/ \E e \in Execution, s \in Slot, k \in Key : AcquireLease(e, s, k)
  \/ \E l \in Lease : AdoptObservation(l)

LEMMA EndingOrGranting == TypeOK /\ [Next]_vars => LeasesOnlyEnd \/ Granting
<1> SUFFICES ASSUME TypeOK, [Next]_vars PROVE LeasesOnlyEnd \/ Granting
  OBVIOUS
<1>1. ASSUME UNCHANGED <<lease, fence>> PROVE LeasesOnlyEnd
  BY <1>1, EndedOnly
<1>2. CASE (\E r \in Revision : Push(r)) \/ UNCHANGED vars
  BY <1>1, <1>2 DEF Push, vars, rowVars
<1>3. ASSUME NEW e \in Execution, Starting(e) PROVE LeasesOnlyEnd
  <2>1. CASE Admit(e)
    BY <2>1, EndedOnly DEF Admit
  <2> QED
    BY <1>1, <1>3, <2>1
    DEF Starting, Prepare, Reload, Postcheck, RejectStale, DeferAdmission, rowVars
<1>4. ASSUME NEW e \in Execution, Finalizing(e) PROVE LeasesOnlyEnd
  <2>1. CASE Finalize(e)
    BY <2>1, EndedOnly DEF Finalize
  <2> QED
    BY <1>1, <1>4, <2>1
    DEF Finalizing, ExpectVersions, ReadReferences, CheckHead, RefuseFinalize, rowVars
<1>5. ASSUME NEW e \in Execution, Ending(e) PROVE LeasesOnlyEnd
  <2>1. ASSUME NEW r \in Revision, Supersede(e, r) PROVE LeasesOnlyEnd
    BY <2>1, EndedOnly DEF Supersede
  <2>2. CASE FailExpiredRunning(e)
    BY <2>2, EndedOnly DEF FailExpiredRunning
  <2>3. CASE FailAbandoned(e)
    BY <1>1, <2>3 DEF FailAbandoned
  <2>4. CASE DeadlinePasses(e)
    BY <2>4 DEF DeadlinePasses, LeasesOnlyEnd, SameGrant
  <2> QED
    BY <1>5, <2>1, <2>2, <2>3, <2>4 DEF Ending
<1>6. ASSUME NEW e \in Execution, NEW s \in Slot, Leasing(e, s) \/ TerminalizeSlot(e, s)
      PROVE  LeasesOnlyEnd \/ Granting
  <2>1. CASE ExhaustSlot(e, s)
    BY <2>1, EndedOnly DEF ExhaustSlot
  <2>2. CASE TerminalizeSlot(e, s)
    BY <1>1, <2>2 DEF TerminalizeSlot
  <2> QED
    BY <1>6, <2>1, <2>2 DEF Leasing, Granting
<1>7. ASSUME NEW l \in Lease, Holding(l) PROVE LeasesOnlyEnd
  <2>1. CASE LeaseAges(l)
    <3>1. lease[l] \in GrantedLease /\ lease \in [Lease -> LeaseRow]
      BY <2>1, GrantedRow DEF LeaseAges, TypeOK
    <3> QED
      BY <2>1, <3>1 DEF LeaseAges, LeasesOnlyEnd, SameGrant, GrantedLease
  <2>2. CASE ExpireLease(l) \/ ReleaseLease(l)
    BY <2>2, OneEnded DEF ExpireLease, ReleaseLease
  <2> QED
    BY <1>7, <2>1, <2>2 DEF Holding
<1>8. ASSUME NEW l \in Lease, Reporting(l) PROVE LeasesOnlyEnd \/ Granting
  <2>1. CASE CommitObservation(l)
    BY <1>1, <2>1 DEF CommitObservation, rowVars
  <2>2. CASE AttachFresh(l)
    <3>1. /\ lease' = [lease EXCEPT ![l].state = "released"] /\ fence' = fence
          /\ lease[l].state = "active"
      BY <2>2 DEF AttachFresh
    <3> QED
      BY <3>1, OneEnded
  <2>3. ASSUME NEW e \in Execution, AttachReusable(e, l) PROVE LeasesOnlyEnd
    BY <1>1, <2>3 DEF AttachReusable
  <2> QED
    BY <1>8, <2>1, <2>2, <2>3 DEF Reporting, Granting
<1>9. CASE Retaining
  <2>1. ASSUME NEW l \in Lease, CompactLease(l) PROVE LeasesOnlyEnd
    <3>1. /\ lease' = [lease EXCEPT ![l].state = "compacted"] /\ fence' = fence
          /\ lease[l].state # "unused"
      BY <2>1 DEF CompactLease
    <3> QED
      BY <3>1, OneEnded
  <2> QED
    BY <1>1, <1>9, <2>1 DEF Retaining, PruneObservation, PruneExecution, rowVars
<1> QED
  BY <1>2, <1>3, <1>4, <1>5, <1>6, <1>7, <1>8, <1>9 DEF Next

\* An acquisition grants the next token; the others are as before or over.
LEMMA AcquiredLease ==
  ASSUME LeaseInv, HolderIsNewest, NEW e \in Execution, NEW s \in Slot, NEW k \in Key,
         AcquireLease(e, s, k)
  PROVE  LET f == fence + 1
         IN /\ f \in Lease /\ lease[f].state = "unused" /\ fence' = f
            /\ lease'[f] = [state |-> "active", execution |-> e, slot |-> s, key |-> k,
                            purpose |-> "provider", age |-> 0]
            /\ \A l \in Lease \ {f} :
                 /\ lease'[l].state = "unused" <=> lease[l].state = "unused"
                 /\ lease'[l].state = "active" =>
                      lease[l].state = "active" /\ l # slot[e][s].lease /\ lease[l].key # k
                 /\ SameGrant(lease'[l], lease[l])
<1> DEFINE f == fence + 1
           c == slot[e][s].lease
           granted == [state |-> "active", execution |-> e, slot |-> s, key |-> k,
                       purpose |-> "provider", age |-> 0]
<1>1. f \in Lease /\ lease[f].state = "unused"
  BY NextToken DEF AcquireLease, LeaseInv, PointerInv, TokensInOrder, TypeOK
<1>2. PICK i \in IF Incumbents(k, c) = {} THEN {NoLease} ELSE Incumbents(k, c) :
        lease' = [ExpiredLeases({c, i}) EXCEPT ![f] = granted]
  BY DEF AcquireLease
<1>3. lease'[f] = granted /\ \A l \in Lease \ {f} : lease'[l] = ExpiredLeases({c, i})[l]
  BY <1>1, <1>2 DEF ExpiredLeases
<1>4. \A l \in Lease : lease[l].state = "active" => lease[l] \in GrantedLease
  BY GrantedRow DEF LeaseInv, PointerInv
<1>5. \A l \in Lease :
        /\ ExpiredLeases({c, i})[l].state = "unused" <=> lease[l].state = "unused"
        /\ ExpiredLeases({c, i})[l].state = "active" <=> lease[l].state = "active" /\ l \notin {c, i}
        /\ SameGrant(ExpiredLeases({c, i})[l], lease[l])
  BY <1>4 DEF ExpiredLeases, SameGrant, GrantedLease
\* At most one active lease runs a provider invocation.
<1>6. ASSUME NEW l \in Lease, lease[l].state = "active", l \notin {c, i}, lease[l].key = k
      PROVE  FALSE
  <2>1. l \in Incumbents(k, c)
    BY <1>6 DEF Incumbents, LeaseInv, HoldersRun
  <2>2. i \in Lease /\ lease[i].state = "active" /\ lease[i].key = k /\ lease[i].purpose = "provider"
    BY <2>1 DEF Incumbents
  <2> QED
    BY <1>6, <2>2 DEF HolderIsNewest
<1> QED
  BY <1>1, <1>3, <1>5, <1>6 DEF AcquireLease

\* An adoption draws the next token for a row that is over from the start.
LEMMA AdoptedLease ==
  ASSUME LeaseInv, NEW l \in Lease, AdoptObservation(l)
  PROVE  LET f == fence + 1
         IN /\ f \in Lease /\ lease[f].state = "unused" /\ fence' = f
            /\ lease'[f].state = "released" /\ lease'[f].purpose = "adoption"
            /\ \A m \in Lease \ {f} :
                 /\ lease'[m].state = "unused" <=> lease[m].state = "unused"
                 /\ lease'[m].state = "active" => lease[m].state = "active"
                 /\ SameGrant(lease'[m], lease[m])
<1> DEFINE f == fence + 1
           source == IF lease[l].state # "active" THEN lease[l].state
                     ELSE IF Expired(l) THEN "expired" ELSE "released"
           adopted == [state |-> "released", execution |-> lease[l].execution,
                       slot |-> lease[l].slot, key |-> lease[l].key,
                       purpose |-> "adoption", age |-> 2]
<1>1. f \in Lease /\ lease[f].state = "unused" /\ lease \in [Lease -> LeaseRow]
  BY NextToken DEF AdoptObservation, LeaseInv, PointerInv, TokensInOrder, TypeOK
<1>2. /\ lease[l].state \in {"active", "released", "expired"}
      /\ lease' = [lease EXCEPT ![l].state = source, ![f] = adopted]
  BY DEF AdoptObservation
<1>3. lease[l] \in GrantedLease /\ l # f
  BY <1>1, <1>2, GrantedRow DEF LeaseInv, PointerInv
<1>4. source \notin {"active", "unused"}
  BY <1>2
<1>5. lease'[f] = adopted /\ \A m \in Lease \ {l, f} : lease'[m] = lease[m]
  BY <1>1, <1>2
<1>6. lease'[l].state = source /\ SameGrant(lease'[l], lease[l])
  <2> HIDE DEF source
  <2> QED
    BY <1>1, <1>2, <1>3 DEF GrantedLease, SameGrant
<1>7. fence' = f
  BY DEF AdoptObservation
<1> QED
  BY <1>1, <1>2, <1>3, <1>4, <1>5, <1>6, <1>7 DEF SameGrant

IInv == LeaseInv /\ HolderIsNewest

LEMMA InitLeases == Init => IInv
<1> SUFFICES ASSUME Init PROVE IInv
  OBVIOUS
<1>1. \A l \in Lease : lease[l].state = "unused" /\ l > fence
  BY FenceAssumption DEF Init, UnusedLease, Lease
<1>2. \A e \in Execution, s \in Slot :
        slot[e][s].lease = NoLease /\ slot[e][s].state = "pending"
  BY DEF Init, FreshSlot
<1> QED
  BY <1>1, <1>2, InitPointers
  DEF IInv, LeaseInv, LeaseSlotCoupling, TokensInOrder, HoldersRun, HolderIsNewest

LEMMA NextTokens == IInv /\ [Next]_vars => (TokensInOrder /\ HoldersRun /\ HolderIsNewest)'
<1> SUFFICES ASSUME IInv, [Next]_vars PROVE (TokensInOrder /\ HoldersRun /\ HolderIsNewest)'
  OBVIOUS
<1>1. fence \in Nat /\ \A l \in Lease : l \in Nat
  BY FenceAssumption DEF IInv, LeaseInv, PointerInv, TypeOK, Lease
<1>2. CASE LeasesOnlyEnd
  <2>1. TokensInOrder' /\ HoldersRun'
    BY <1>2 DEF IInv, LeaseInv, TokensInOrder, HoldersRun, LeasesOnlyEnd, SameGrant
  <2>2. HolderIsNewest'
    BY <1>2 DEF IInv, HolderIsNewest, LeasesOnlyEnd, SameGrant
  <2> QED
    BY <2>1, <2>2
<1>3. ASSUME NEW e \in Execution, NEW s \in Slot, NEW k \in Key, AcquireLease(e, s, k)
      PROVE  (TokensInOrder /\ HoldersRun /\ HolderIsNewest)'
  <2> DEFINE f == fence + 1
             c == slot[e][s].lease
  <2>1. /\ f \in Lease /\ fence' = f
        /\ lease'[f].state = "active" /\ lease'[f].execution = e /\ lease'[f].slot = s
        /\ lease'[f].key = k /\ lease'[f].purpose = "provider"
    <3>1. /\ f \in Lease /\ fence' = f
          /\ lease'[f] = [state |-> "active", execution |-> e, slot |-> s, key |-> k,
                          purpose |-> "provider", age |-> 0]
      BY <1>3, AcquiredLease DEF IInv
    <3> QED
      BY <3>1
  <2>2. \A l \in Lease \ {f} :
          /\ lease'[l].state = "unused" <=> lease[l].state = "unused"
          /\ lease'[l].state = "active" => lease[l].state = "active" /\ l # c /\ lease[l].key # k
          /\ SameGrant(lease'[l], lease[l])
    BY <1>3, AcquiredLease DEF IInv
  <2>3. \A l \in Lease \ {f} : lease'[l].state # "unused" => l < f
    BY <1>1, <2>2 DEF IInv, LeaseInv, TokensInOrder
  <2>4. TokensInOrder' /\ HoldersRun'
    BY <1>1, <2>1, <2>2 DEF IInv, LeaseInv, TokensInOrder, HoldersRun, SameGrant
  <2>5. \A l \in Lease \ {f} : lease'[l].state = "active" =>
          ~(lease'[l].execution = e /\ lease'[l].slot = s)
    BY <2>2, ActiveRow DEF IInv, SameGrant
  <2>6. \A l \in Lease \ {f} : lease'[l].state = "active" => lease'[l].key # k
    BY <2>2 DEF SameGrant
  <2>7. HolderIsNewest'
    BY <2>1, <2>2, <2>3, <2>5, <2>6 DEF IInv, HolderIsNewest, SameGrant
  <2> QED
    BY <2>4, <2>7
<1>4. ASSUME NEW l \in Lease, AdoptObservation(l)
      PROVE  (TokensInOrder /\ HoldersRun /\ HolderIsNewest)'
  <2> DEFINE f == fence + 1
  <2>1. /\ f \in Lease /\ fence' = f
        /\ lease'[f].state = "released" /\ lease'[f].purpose = "adoption"
        /\ \A m \in Lease \ {f} :
             /\ lease'[m].state = "unused" <=> lease[m].state = "unused"
             /\ lease'[m].state = "active" => lease[m].state = "active"
             /\ SameGrant(lease'[m], lease[m])
    BY <1>4, AdoptedLease DEF IInv
  <2>2. TokensInOrder' /\ HoldersRun'
    BY <1>1, <2>1 DEF IInv, LeaseInv, TokensInOrder, HoldersRun, SameGrant
  <2>3. HolderIsNewest'
    BY <2>1 DEF IInv, HolderIsNewest, SameGrant
  <2> QED
    BY <2>2, <2>3
<1>5. TypeOK
  BY DEF IInv, LeaseInv, PointerInv
<1> QED
  BY <1>2, <1>3, <1>4, <1>5, EndingOrGranting DEF Granting

LEMMA NextLeases == IInv /\ [Next]_vars => IInv'
  BY NextPointers, NextCoupled, NextTokens DEF IInv, LeaseInv

\* Whatever ends - a lease, an execution, a generation - no work slot and no
\* lease ever disagree about who holds what.
THEOREM CouplingHolds == Spec => []LeaseSlotCoupling
<1>1. IInv => LeaseSlotCoupling
  BY DEF IInv, LeaseInv
<1> QED
  BY <1>1, InitLeases, NextLeases, PTL DEF Spec

\* A lease holder is never overtaken: a newer token for its slot or for its
\* provider invocation exists only once the holder's lease is over.
THEOREM HoldersNewest == Spec => []HolderIsNewest
<1>1. IInv => HolderIsNewest
  BY DEF IInv
<1> QED
  BY <1>1, InitLeases, NextLeases, PTL DEF Spec
=============================================================================
