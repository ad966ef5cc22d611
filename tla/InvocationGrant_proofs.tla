----------------------- MODULE InvocationGrant_proofs -----------------------
(***************************************************************************)
(* Proofs, for every set of requests and exchanges, every budget and every *)
(* number of troubles, that a grant keeps to its budget and dispatches     *)
(* nothing once a request is recorded as unknown.                          *)
(***************************************************************************)
EXTENDS InvocationGrant, FiniteSetTheorems, SequenceTheorems, TLAPS

EffectState ==
  Live \cup {"succeeded", "failed_no_effect", "failed_classified", "terminal_unknown"}
EffectRow == [account : Account, live : BOOLEAN, reply : Reply \cup {"none"}, state : EffectState]
GrantRow ==
  [status : {"issued", "exhausted", "revoked", "expired"}, active : Account,
   failover : Request \cup {"none"}, count : Nat, inFlight : Int]
DriverRow ==
  [step : Step, request : Request \cup {"none"}, account : Account, ordinal : Nat,
   switched : BOOLEAN]
RequestState == Open \cup {"none", "succeeded", "failed", "not_started", "terminal_unknown"}

\* The steps at which a driver has an effect of its own.
Owning == {"prepared", "dispatching", "answered", "lost", "switching", "streaming"}

\* A driver's effect exists; the counter of the open requests may be any integer
\* here, BudgetHeld says which.
TypeInv ==
  /\ grant \in GrantRow
  /\ request \in [Request -> RequestState]
  /\ effect \in [Request -> Seq(EffectRow)]
  /\ driver \in [Driver -> DriverRow]
  /\ over \in BOOLEAN /\ authorized \in BOOLEAN /\ ill \subseteq Account
  /\ trouble \in 0 .. MaxTrouble
  /\ \A d \in Driver :
       /\ driver[d].step \notin {"new", "done"} => driver[d].request \in Request
       /\ driver[d].step \in Owning => driver[d].ordinal \in 1 .. Len(effect[driver[d].request])

-----------------------------------------------------------------------------
(* What a step does to the effects, without the sequences. *)

EffectSet(r, n, e) ==
  /\ r \in Request /\ n \in 1 .. Len(effect[r]) /\ e \in EffectRow
  /\ effect' \in [Request -> Seq(EffectRow)]
  /\ \A q \in Request : Len(effect'[q]) = Len(effect[q])
  /\ \A q \in Request : \A m \in 1 .. Len(effect[q]) :
       effect'[q][m] = IF q = r /\ m = n THEN e ELSE effect[q][m]

EffectAdded(r, e) ==
  /\ r \in Request /\ e \in EffectRow
  /\ effect' \in [Request -> Seq(EffectRow)]
  /\ \A q \in Request : q # r => Len(effect'[q]) = Len(effect[q])
  /\ Len(effect'[r]) = Len(effect[r]) + 1
  /\ \A q \in Request : \A m \in 1 .. Len(effect[q]) : effect'[q][m] = effect[q][m]
  /\ effect'[r][Len(effect[r]) + 1] = e

LEMMA EffectRows ==
  ASSUME TypeInv, NEW r \in Request
  PROVE  /\ effect[r] \in Seq(EffectRow) /\ Len(effect[r]) \in Nat
         /\ DOMAIN effect[r] = 1 .. Len(effect[r])
         /\ (effect[r] = <<>>) <=> (Len(effect[r]) = 0)
         /\ \A n \in 1 .. Len(effect[r]) : effect[r][n] \in EffectRow
<1>1. effect[r] \in Seq(EffectRow)
  BY DEF TypeInv
<1>2. /\ Len(effect[r]) \in Nat /\ DOMAIN effect[r] = 1 .. Len(effect[r])
      /\ (effect[r] = <<>>) <=> (Len(effect[r]) = 0)
  BY <1>1, LenProperties, EmptySeq
<1>3. \A n \in 1 .. Len(effect[r]) : effect[r][n] \in EffectRow
  BY <1>1, ElementOfSeq
<1> QED
  BY <1>1, <1>2, <1>3

LEMMA SetEffectFacts ==
  ASSUME TypeInv, NEW r \in Request, NEW n \in 1 .. Len(effect[r]), NEW e \in EffectRow,
         effect' = SetEffect(r, n, e)
  PROVE  EffectSet(r, n, e)
<1> DEFINE s == [effect[r] EXCEPT ![n] = e]
<1>1. effect[r] \in Seq(EffectRow)
  BY EffectRows
<1>2. /\ s \in Seq(EffectRow) /\ Len(s) = Len(effect[r])
      /\ \A m \in 1 .. Len(effect[r]) : s[m] = IF m = n THEN e ELSE effect[r][m]
  BY <1>1, ExceptSeq
<1>3. effect' = [effect EXCEPT ![r] = s]
  BY DEF SetEffect
<1> HIDE DEF s
<1>4. effect \in [Request -> Seq(EffectRow)]
  BY DEF TypeInv
<1>5. effect' \in [Request -> Seq(EffectRow)]
  BY <1>2, <1>3, <1>4
<1>6. \A q \in Request : effect'[q] = IF q = r THEN s ELSE effect[q]
  BY <1>3, <1>4
<1> QED
  BY <1>2, <1>5, <1>6 DEF EffectSet

LEMMA AppendFacts ==
  ASSUME TypeInv, NEW r \in Request, NEW e \in EffectRow,
         effect' = [effect EXCEPT ![r] = Append(effect[r], e)]
  PROVE  EffectAdded(r, e)
<1> DEFINE s == Append(effect[r], e)
<1>1. effect[r] \in Seq(EffectRow)
  BY EffectRows
<1>2. /\ s \in Seq(EffectRow) /\ Len(s) = Len(effect[r]) + 1
      /\ \A m \in 1 .. Len(effect[r]) : s[m] = effect[r][m]
      /\ s[Len(effect[r]) + 1] = e
  BY <1>1, AppendProperties
<1> HIDE DEF s
<1>3. effect' = [effect EXCEPT ![r] = s]
  BY DEF s
<1>4. effect \in [Request -> Seq(EffectRow)]
  BY DEF TypeInv
<1>5. effect' \in [Request -> Seq(EffectRow)]
  BY <1>2, <1>3, <1>4
<1>6. \A q \in Request : effect'[q] = IF q = r THEN s ELSE effect[q]
  BY <1>3, <1>4
<1>7. \A q \in Request : Len(effect[q]) \in Nat
  BY EffectRows
<1> QED
  BY <1>2, <1>5, <1>6, <1>7 DEF EffectAdded

LEMMA RowTypes ==
  ASSUME NEW e \in EffectRow
  PROVE  /\ \A state \in EffectState : As(e, state) \in EffectRow
         /\ \A reply \in Reply : Replied(e, reply) \in EffectRow
         /\ Expired(e) \in EffectRow
         /\ \A a \in Account : Reserved(a) \in EffectRow
  BY DEF EffectRow, EffectState, Live, As, Replied, Expired, Reserved

\* The effect that the driver of an owning step has.
LEMMA OwnEffect ==
  ASSUME TypeInv, NEW d \in Driver, driver[d].step \in Owning
  PROVE  /\ driver[d].request \in Request
         /\ driver[d].ordinal \in 1 .. Len(effect[driver[d].request])
         /\ Mine(d) \in EffectRow
<1>1. driver[d].request \in Request /\ driver[d].ordinal \in 1 .. Len(effect[driver[d].request])
  BY DEF TypeInv, Owning
<1> QED
  BY <1>1, EffectRows DEF Mine

\* Another state for an effect.
LEMMA WithEffectFacts ==
  ASSUME TypeInv, NEW r \in Request, NEW n \in 1 .. Len(effect[r]), NEW state \in EffectState,
         effect' = WithEffect(r, n, state)
  PROVE  EffectSet(r, n, As(effect[r][n], state))
<1>1. effect[r][n] \in EffectRow
  BY EffectRows
<1>2. As(effect[r][n], state) \in EffectRow
  BY <1>1, RowTypes
<1> QED
  BY <1>2, SetEffectFacts DEF WithEffect

-----------------------------------------------------------------------------
(* Types. *)

\* The drivers stay coupled to their effects when one of them moves on to a row
\* that is, and no effect goes away.
LEMMA DriverMoves ==
  ASSUME TypeInv, NEW d \in Driver, NEW x \in DriverRow,
         driver' = [driver EXCEPT ![d] = x],
         \A q \in Request : Len(effect'[q]) \in Nat /\ Len(effect'[q]) >= Len(effect[q]),
         x.step \notin {"new", "done"} => x.request \in Request,
         x.step \in Owning => x.ordinal \in 1 .. Len(effect'[x.request])
  PROVE  /\ driver' \in [Driver -> DriverRow]
         /\ \A e \in Driver : driver'[e] = IF e = d THEN x ELSE driver[e]
         /\ \A e \in Driver :
              /\ driver'[e].step \notin {"new", "done"} => driver'[e].request \in Request
              /\ driver'[e].step \in Owning =>
                   driver'[e].ordinal \in 1 .. Len(effect'[driver'[e].request])
<1>1. driver \in [Driver -> DriverRow]
  BY DEF TypeInv
<1>2. \A e \in Driver : driver'[e] = IF e = d THEN x ELSE driver[e]
  BY <1>1
<1>3. ASSUME NEW e \in Driver
      PROVE  /\ driver'[e].step \notin {"new", "done"} => driver'[e].request \in Request
             /\ driver'[e].step \in Owning =>
                  driver'[e].ordinal \in 1 .. Len(effect'[driver'[e].request])
  <2>1. CASE e = d
    BY <1>2, <2>1
  <2>2. CASE e # d
    <3>1. driver'[e] = driver[e]
      BY <1>2, <2>2
    <3>2. driver[e].step \notin {"new", "done"} => driver[e].request \in Request
      BY DEF TypeInv
    <3>3. ASSUME driver[e].step \in Owning
          PROVE  driver[e].ordinal \in 1 .. Len(effect'[driver[e].request])
      <4>1. driver[e].request \in Request /\ driver[e].ordinal \in 1 .. Len(effect[driver[e].request])
        BY <3>3, OwnEffect
      <4>2. Len(effect[driver[e].request]) \in Nat
        BY <4>1, EffectRows
      <4> QED
        BY <4>1, <4>2
    <3> QED
      BY <3>1, <3>2, <3>3
  <2> QED
    BY <2>1, <2>2
<1> QED
  BY <1>1, <1>2, <1>3

\* The effects after a step are rows, and none is gone.
Grown ==
  /\ effect' \in [Request -> Seq(EffectRow)]
  /\ \A q \in Request : Len(effect'[q]) \in Nat /\ Len(effect'[q]) >= Len(effect[q])

LEMMA EffectsGrow ==
  ASSUME TypeInv
  PROVE  /\ UNCHANGED effect => Grown
         /\ \A r, n, e : EffectSet(r, n, e) => Grown
         /\ \A r, e : EffectAdded(r, e) => Grown
<1>1. effect \in [Request -> Seq(EffectRow)]
  BY DEF TypeInv
<1>2. \A q \in Request : Len(effect[q]) \in Nat
  BY EffectRows
<1>3. UNCHANGED effect => Grown
  BY <1>1, <1>2 DEF Grown
<1>4. ASSUME NEW r, NEW n, NEW e, EffectSet(r, n, e)
      PROVE  Grown
  BY <1>2, <1>4 DEF EffectSet, Grown
<1>5. ASSUME NEW r, NEW e, EffectAdded(r, e)
      PROVE  Grown
  <2>1. effect' \in [Request -> Seq(EffectRow)] /\ r \in Request
    BY <1>5 DEF EffectAdded
  <2>2. ASSUME NEW q \in Request
        PROVE  Len(effect'[q]) \in Nat /\ Len(effect'[q]) >= Len(effect[q])
    <3>1. Len(effect[q]) \in Nat
      BY <1>2
    <3>2. Len(effect'[q]) = Len(effect[q]) \/ Len(effect'[q]) = Len(effect[q]) + 1
      BY <1>5 DEF EffectAdded
    <3> QED
      BY <3>1, <3>2
  <2> QED
    BY <2>1, <2>2 DEF Grown
<1> QED
  BY <1>3, <1>4, <1>5

\* The part of the type invariant that is about the drivers.
DriversTyped ==
  /\ driver \in [Driver -> DriverRow]
  /\ \A d \in Driver :
       /\ driver[d].step \notin {"new", "done"} => driver[d].request \in Request
       /\ driver[d].step \in Owning => driver[d].ordinal \in 1 .. Len(effect[driver[d].request])

LEMMA DriverStays ==
  ASSUME TypeInv, Grown, UNCHANGED driver
  PROVE  DriversTyped'
<1>1. ASSUME NEW e \in Driver, driver[e].step \in Owning
      PROVE  driver[e].ordinal \in 1 .. Len(effect'[driver[e].request])
  <2>1. driver[e].request \in Request /\ driver[e].ordinal \in 1 .. Len(effect[driver[e].request])
    BY <1>1, OwnEffect
  <2>2. Len(effect[driver[e].request]) \in Nat
    BY <2>1, EffectRows
  <2> QED
    BY <2>1, <2>2 DEF Grown
<1> QED
  BY <1>1 DEF TypeInv, DriversTyped

LEMMA DriverEnds ==
  ASSUME TypeInv, Grown, NEW d \in Driver, Done(d)
  PROVE  DriversTyped'
<1>1. Ended \in DriverRow /\ Ended.step = "done"
  BY DEF Ended, DriverRow, Step, Account
<1> QED
  BY <1>1, DriverMoves DEF Done, Grown, DriversTyped, Owning

LEMMA DriverOpens ==
  ASSUME TypeInv, Grown, NEW d \in Driver, NEW r \in Request, NEW a \in Account,
         NEW switched \in BOOLEAN, Opening(d, r, a, switched)
  PROVE  DriversTyped'
<1> DEFINE x == [step |-> "opening", request |-> r, account |-> a, ordinal |-> 0,
                 switched |-> switched]
<1>1. x \in DriverRow /\ x.step = "opening" /\ x.request = r
  BY DEF DriverRow, Step
<1>2. driver' = [driver EXCEPT ![d] = x]
  BY DEF Opening
<1> QED
  BY <1>1, <1>2, DriverMoves DEF Grown, DriversTyped, Owning

LEMMA DriverGoes ==
  ASSUME TypeInv, Grown, NEW d \in Driver, driver[d].step \notin {"new", "done"},
         NEW step \in Step, step \in Owning => driver[d].step \in Owning, Goto(d, step)
  PROVE  DriversTyped'
<1> DEFINE x == [step |-> step, request |-> driver[d].request, account |-> driver[d].account,
                 ordinal |-> driver[d].ordinal, switched |-> driver[d].switched]
<1>1. driver[d] \in DriverRow /\ driver[d].request \in Request
  BY DEF TypeInv
<1>2. x \in DriverRow
  BY <1>1 DEF DriverRow
<1>3. driver' = [driver EXCEPT ![d] = x]
  BY DEF Goto
<1>4. x.step \in Owning => x.ordinal \in 1 .. Len(effect'[x.request])
  <2> SUFFICES ASSUME step \in Owning
               PROVE  driver[d].ordinal \in 1 .. Len(effect'[driver[d].request])
    OBVIOUS
  <2>1. driver[d].request \in Request /\ driver[d].ordinal \in 1 .. Len(effect[driver[d].request])
    BY OwnEffect
  <2>2. Len(effect[driver[d].request]) \in Nat
    BY <2>1, EffectRows
  <2> QED
    BY <2>1, <2>2 DEF Grown
<1>5. x.step \notin {"new", "done"} => x.request \in Request
  BY <1>1
<1> HIDE DEF x
<1> QED
  BY <1>2, <1>3, <1>4, <1>5, DriverMoves DEF Grown, DriversTyped

\* The part that is about the grant and the requests.
RowsTyped == grant \in GrantRow /\ request \in [Request -> RequestState]

LEMMA CloseTyped ==
  ASSUME TypeInv, NEW r \in Request, NEW status \in RequestState, Close(r, status)
  PROVE  RowsTyped'
<1>1. grant \in GrantRow
  BY DEF TypeInv
<1>2. grant' \in GrantRow
  BY <1>1 DEF Close, Closed, WithGrant, GrantRow
<1>3. request' \in [Request -> RequestState]
  BY DEF TypeInv, Close
<1> QED
  BY <1>2, <1>3 DEF RowsTyped

LEMMA TypeParts ==
  ASSUME RowsTyped', DriversTyped', Grown, over' \in BOOLEAN, authorized' \in BOOLEAN,
         ill' \subseteq Account, trouble' \in 0 .. MaxTrouble
  PROVE  TypeInv'
  BY DEF RowsTyped, DriversTyped, Grown, TypeInv

\* What an effect of a step is, action by action: nothing, another row for one
\* attempt, or a new attempt.
LEMMA EffectOfActions ==
  ASSUME TypeInv, NEW d \in Driver
  PROVE  /\ Prepare(d) => EffectAdded(driver[d].request, Reserved(driver[d].account))
         /\ MarkDispatching(d) => EffectSet(driver[d].request, driver[d].ordinal,
                                            As(Mine(d), "dispatching"))
         /\ ResponseStarted(d) \/ FailureStarted(d) =>
              EffectSet(driver[d].request, driver[d].ordinal, As(Mine(d), "response_started"))
         /\ Finish(d) => EffectSet(driver[d].request, driver[d].ordinal, As(Mine(d), "succeeded"))
         /\ FailBeforeDispatch(d) => \/ UNCHANGED effect
              \/ EffectSet(driver[d].request, driver[d].ordinal, As(Mine(d), "failed_no_effect"))
         /\ Unknown(d) => \/ UNCHANGED effect
              \/ EffectSet(driver[d].request, driver[d].ordinal, As(Mine(d), "terminal_unknown"))
         /\ Send(d) => \/ UNCHANGED effect
              \/ \E reply \in Reply :
                   EffectSet(driver[d].request, driver[d].ordinal, Replied(Mine(d), reply))
         /\ SwitchAfterResponse(d) => \/ UNCHANGED effect
              \/ EffectSet(driver[d].request, driver[d].ordinal, As(Mine(d), "failed_classified"))
         /\ SessionFails(d) => UNCHANGED effect
<1> DEFINE r == driver[d].request
           n == driver[d].ordinal
<1>1. ASSUME driver[d].step \in Owning
      PROVE  r \in Request /\ n \in 1 .. Len(effect[r]) /\ Mine(d) = effect[r][n]
             /\ effect[r][n] \in EffectRow /\ n # 0
  BY <1>1, OwnEffect, EffectRows DEF Mine
<1>2. ASSUME driver[d].step \in Owning, NEW state \in EffectState,
             effect' = WithEffect(r, n, state)
      PROVE  EffectSet(r, n, As(Mine(d), state))
  BY <1>1, <1>2, WithEffectFacts
<1>3. {"dispatching", "response_started", "succeeded", "failed_no_effect",
       "failed_classified", "terminal_unknown"} \subseteq EffectState
  BY DEF EffectState, Live
<1>4. Prepare(d) => EffectAdded(r, Reserved(driver[d].account))
  <2> SUFFICES ASSUME Prepare(d)
               PROVE  EffectAdded(r, Reserved(driver[d].account))
    OBVIOUS
  <2>1. r \in Request /\ driver[d].account \in Account
    BY DEF Prepare, At, TypeInv, DriverRow
  <2>2. Reserved(driver[d].account) \in EffectRow
    BY <2>1 DEF Reserved, EffectRow, EffectState, Live
  <2>3. effect' = [effect EXCEPT ![r] = Append(effect[r], Reserved(driver[d].account))]
    BY DEF Prepare
  <2> QED
    BY <2>1, <2>2, <2>3, AppendFacts
<1>5. MarkDispatching(d) => EffectSet(r, n, As(Mine(d), "dispatching"))
  BY <1>2, <1>3 DEF MarkDispatching, At, Owning
<1>6. ResponseStarted(d) \/ FailureStarted(d) => EffectSet(r, n, As(Mine(d), "response_started"))
  BY <1>2, <1>3 DEF ResponseStarted, FailureStarted, At, Owning
<1>7. Finish(d) => EffectSet(r, n, As(Mine(d), "succeeded"))
  BY <1>2, <1>3 DEF Finish, At, Owning
<1>8. FailBeforeDispatch(d) =>
        UNCHANGED effect \/ EffectSet(r, n, As(Mine(d), "failed_no_effect"))
  BY <1>2, <1>3 DEF FailBeforeDispatch, At, Owning
<1>9. Unknown(d) => UNCHANGED effect \/ EffectSet(r, n, As(Mine(d), "terminal_unknown"))
  BY <1>2, <1>3 DEF Unknown, Owning
<1>10. Send(d) => UNCHANGED effect \/ \E reply \in Reply : EffectSet(r, n, Replied(Mine(d), reply))
  <2> SUFFICES ASSUME Send(d), effect' # effect
               PROVE  \E reply \in Reply : EffectSet(r, n, Replied(Mine(d), reply))
    OBVIOUS
  <2>1. driver[d].step \in Owning
    BY DEF Send, At, Owning
  <2>2. PICK reply \in Reply : effect' = SetEffect(r, n, Replied(effect[r][n], reply))
    BY DEF Send
  <2>3. Replied(effect[r][n], reply) \in EffectRow
    BY <1>1, <2>1, RowTypes
  <2>4. EffectSet(r, n, Replied(effect[r][n], reply))
    BY <1>1, <2>1, <2>2, <2>3, SetEffectFacts
  <2> QED
    BY <1>1, <2>1, <2>4
<1>11. SwitchAfterResponse(d) =>
         UNCHANGED effect \/ EffectSet(r, n, As(Mine(d), "failed_classified"))
  BY <1>1, <1>2, <1>3 DEF SwitchAfterResponse, Switch, At, Owning
<1>12. SessionFails(d) => UNCHANGED effect
  BY DEF SessionFails, Switch
<1> QED
  BY <1>4, <1>5, <1>6, <1>7, <1>8, <1>9, <1>10, <1>11, <1>12

LEMMA EffectOfSweeps ==
  ASSUME TypeInv, NEW r \in Request, NEW n \in DOMAIN effect[r]
  PROVE  /\ LeaseExpires(r, n) => EffectSet(r, n, Expired(effect[r][n]))
         /\ SweepPrepared(r, n) => EffectSet(r, n, As(effect[r][n], "failed_no_effect"))
         /\ SweepDispatched(r, n) => EffectSet(r, n, As(effect[r][n], "terminal_unknown"))
<1>1. n \in 1 .. Len(effect[r]) /\ effect[r][n] \in EffectRow
  BY EffectRows
<1>2. Expired(effect[r][n]) \in EffectRow
  BY <1>1, RowTypes
<1>3. LeaseExpires(r, n) => EffectSet(r, n, Expired(effect[r][n]))
  BY <1>1, <1>2, SetEffectFacts DEF LeaseExpires
<1>4. {"failed_no_effect", "terminal_unknown"} \subseteq EffectState
  BY DEF EffectState
<1>5. SweepPrepared(r, n) => EffectSet(r, n, As(effect[r][n], "failed_no_effect"))
  BY <1>1, <1>4, WithEffectFacts DEF SweepPrepared
<1>6. SweepDispatched(r, n) => EffectSet(r, n, As(effect[r][n], "terminal_unknown"))
  BY <1>1, <1>4, WithEffectFacts DEF SweepDispatched
<1> QED
  BY <1>3, <1>5, <1>6

\* Whose step it is.
DriverStep(d) ==
  \/ \E r \in Request : Admit(d, r) \/ Resume(d, r)
  \/ SessionFails(d) \/ Prepare(d) \/ Refuse(d)
  \/ MarkDispatching(d) \/ FailBeforeDispatch(d) \/ Send(d)
  \/ ResponseStarted(d) \/ FailureStarted(d) \/ SwitchAfterResponse(d)
  \/ Finish(d) \/ Unknown(d) \/ Crash(d)
SweeperStep(r) ==
  \/ SweepOrphan(r)
  \/ \E n \in DOMAIN effect[r] :
       LeaseExpires(r, n) \/ SweepPrepared(r, n) \/ SweepDispatched(r, n)

LEMMA StepCases ==
  ASSUME [Next]_vars
  PROVE  \/ \E d \in Driver : DriverStep(d)
         \/ \E r \in Request : SweeperStep(r)
         \/ TimeOver \/ Expire \/ Withdraw \/ Health \/ UNCHANGED vars
<1>1. CASE Next
  BY <1>1 DEF Next, DriverStep, SweeperStep
<1>2. CASE UNCHANGED vars
  BY <1>2
<1> QED
  BY <1>1, <1>2

LEMMA SwitchGrant ==
  ASSUME NEW d, NEW n, Switch(d, n)
  PROVE  \/ /\ UNCHANGED grant
            /\ grant'.status = grant.status /\ grant'.active = grant.active
            /\ grant'.failover = grant.failover /\ grant'.count = grant.count
            /\ grant'.inFlight = grant.inFlight
         \/ /\ grant' = [status |-> grant.status, active |-> "backup",
                         failover |-> driver[d].request, count |-> grant.count,
                         inFlight |-> grant.inFlight]
            /\ grant'.status = grant.status /\ grant'.active = "backup"
            /\ grant'.failover = driver[d].request /\ grant'.count = grant.count
            /\ grant'.inFlight = grant.inFlight
<1>1. CASE UNCHANGED grant
  BY <1>1
<1>2. CASE grant' = [status |-> grant.status, active |-> "backup", failover |-> driver[d].request,
                     count |-> grant.count, inFlight |-> grant.inFlight]
  BY <1>2
<1> QED
  BY <1>1, <1>2 DEF Switch

LEMMA TypeStep ==
  ASSUME TypeInv, [Next]_vars
  PROVE  TypeInv'
<1>1. /\ grant \in GrantRow /\ request \in [Request -> RequestState]
      /\ effect \in [Request -> Seq(EffectRow)] /\ driver \in [Driver -> DriverRow]
      /\ over \in BOOLEAN /\ authorized \in BOOLEAN /\ ill \subseteq Account
      /\ trouble \in 0 .. MaxTrouble
  BY DEF TypeInv
<1>2. ASSUME UNCHANGED <<grant, request>>
      PROVE  RowsTyped'
  BY <1>1, <1>2 DEF RowsTyped
<1>3. ASSUME Trouble
      PROVE  trouble' \in 0 .. MaxTrouble
  BY <1>1, <1>3, TroubleAssumption DEF Trouble
<1>4. {"processing", "response_started", "succeeded", "failed", "not_started",
       "terminal_unknown"} \subseteq RequestState
  BY DEF RequestState, Open
<1>5. ASSUME NEW d \in Driver
      PROVE  driver[d] \in DriverRow /\ driver[d].account \in Account
             /\ driver[d].switched \in BOOLEAN /\ grant.active \in Account
  BY <1>1 DEF DriverRow, GrantRow
<1>6. ASSUME NEW d \in Driver, driver[d].step \notin {"new", "done"}
      PROVE  driver[d].request \in Request
  BY <1>6 DEF TypeInv
<1>7. UNCHANGED effect => Grown
  BY EffectsGrow
<1>8. ASSUME NEW d \in Driver, NEW r \in Request, Admit(d, r)
      PROVE  TypeInv'
  <2>1. RowsTyped'
    <3>1. grant' \in GrantRow
      BY <1>1, <1>8 DEF Admit, GrantRow
    <3>2. request' \in [Request -> RequestState]
      BY <1>1, <1>4, <1>8 DEF Admit
    <3> QED
      BY <3>1, <3>2 DEF RowsTyped
  <2>2. Grown
    BY <1>7, <1>8 DEF Admit
  <2>3. DriversTyped'
    BY <1>5, <1>8, <2>2, DriverOpens DEF Admit
  <2> QED
    BY <1>1, <1>8, <2>1, <2>2, <2>3, TypeParts DEF Admit
<1>9. ASSUME NEW d \in Driver, NEW r \in Request, Resume(d, r)
      PROVE  TypeInv'
  <2>1. RowsTyped'
    <3>1. grant' \in GrantRow
      BY <1>1, <1>9 DEF Resume, GrantRow, WithGrant
    <3>2. request' \in [Request -> RequestState]
      BY <1>1, <1>4, <1>9 DEF Resume
    <3> QED
      BY <3>1, <3>2 DEF RowsTyped
  <2>2. Grown
    BY <1>7, <1>9 DEF Resume
  <2>3. DriversTyped'
    BY <1>5, <1>9, <2>2, DriverOpens DEF Resume
  <2> QED
    BY <1>1, <1>9, <2>1, <2>2, <2>3, TypeParts DEF Resume
<1>10. ASSUME NEW d \in Driver, NEW n \in Nat, driver[d].step \notin {"new", "done"}, Switch(d, n),
              Grown, n # 0 => driver[d].step \in Owning, UNCHANGED <<request, over, authorized, trouble>>
      PROVE  TypeInv'
  <2>1. driver[d].request \in Request
    BY <1>6, <1>10
  <2>2. RowsTyped'
    <3>1. grant' \in GrantRow
      BY <1>1, <1>10, <2>1, SwitchGrant DEF GrantRow, Account
    <3> QED
      BY <1>1, <1>10, <3>1 DEF RowsTyped
  <2>3. ill' \subseteq Account
    BY <1>1, <1>5, <1>10 DEF Switch
  <2>4. DriversTyped'
    <3>1. CASE Opening(d, driver[d].request, "backup", TRUE)
      BY <1>10, <2>1, <3>1, DriverOpens DEF Account
    <3>2. CASE Goto(d, IF n = 0 THEN "refused" ELSE "lost")
      <4>1. CASE n = 0
        <5>1. Goto(d, "refused") /\ "refused" \in Step /\ "refused" \notin Owning
          BY <3>2, <4>1 DEF Step, Owning
        <5> QED
          BY <1>10, <5>1, DriverGoes
      <4>2. CASE n # 0
        <5>1. Goto(d, "lost") /\ "lost" \in Step
          BY <3>2, <4>2 DEF Step
        <5> QED
          BY <1>10, <4>2, <5>1, DriverGoes
      <4> QED
        BY <4>1, <4>2
    <3> QED
      BY <1>10, <3>1, <3>2 DEF Switch
  <2> QED
    BY <1>1, <1>10, <2>2, <2>3, <2>4, TypeParts
<1>11. ASSUME NEW d \in Driver, SessionFails(d)
       PROVE  TypeInv'
  <2>1. Grown
    BY <1>11, EffectOfActions, EffectsGrow
  <2> QED
    BY <1>10, <1>11, <2>1 DEF SessionFails, At
<1>12. ASSUME NEW d \in Driver, SwitchAfterResponse(d)
       PROVE  TypeInv'
  <2>1. Grown
    BY <1>12, EffectOfActions, EffectsGrow
  <2>2. driver[d].step \in Owning /\ driver[d].step \notin {"new", "done"}
    BY <1>12 DEF SwitchAfterResponse, At, Owning
  <2>3. driver[d].ordinal \in Nat
    BY <1>5 DEF DriverRow
  <2> QED
    BY <1>10, <1>12, <2>1, <2>2, <2>3 DEF SwitchAfterResponse
<1>13. ASSUME NEW d \in Driver, Prepare(d)
       PROVE  TypeInv'
  <2> DEFINE r == driver[d].request
             x == [step |-> "prepared", request |-> r, account |-> driver[d].account,
                   ordinal |-> Len(effect[r]) + 1, switched |-> driver[d].switched]
  <2>1. EffectAdded(r, Reserved(driver[d].account))
    BY <1>13, EffectOfActions
  <2>2. Grown /\ r \in Request /\ Len(effect'[r]) = Len(effect[r]) + 1 /\ Len(effect[r]) \in Nat
    BY <2>1, EffectsGrow, EffectRows DEF EffectAdded
  <2>3. x \in DriverRow
    BY <1>5, <2>2 DEF DriverRow, Step
  <2>4. driver' = [driver EXCEPT ![d] = x]
    BY <1>13 DEF Prepare
  <2>5. x.request \in Request /\ x.ordinal \in 1 .. Len(effect'[x.request])
    BY <2>2
  <2> HIDE DEF x
  <2>6. DriversTyped'
    BY <2>2, <2>3, <2>4, <2>5, DriverMoves DEF DriversTyped, Grown
  <2>7. UNCHANGED <<grant, request, over, authorized, ill, trouble>>
    BY <1>13 DEF Prepare
  <2> QED
    BY <1>1, <1>2, <2>2, <2>6, <2>7, TypeParts
<1>14. ASSUME NEW d \in Driver, Refuse(d)
       PROVE  TypeInv'
  <2>1. driver[d].request \in Request
    BY <1>6, <1>14 DEF Refuse, At
  <2>2. RowsTyped'
    BY <1>2, <1>4, <1>14, <2>1, CloseTyped DEF Refuse
  <2>3. Grown
    BY <1>7, <1>14 DEF Refuse
  <2>4. DriversTyped'
    BY <1>14, <2>3, DriverEnds DEF Refuse
  <2> QED
    BY <1>1, <1>14, <2>2, <2>3, <2>4, TypeParts DEF Refuse
<1>15. ASSUME NEW d \in Driver, NEW step \in Step, driver[d].step \in Owning, Goto(d, step), Grown,
              UNCHANGED <<over, authorized, ill, trouble>>, RowsTyped'
       PROVE  TypeInv'
  <2>1. driver[d].step \notin {"new", "done"}
    BY <1>15 DEF Owning
  <2>2. DriversTyped'
    BY <1>15, <2>1, DriverGoes
  <2> QED
    BY <1>1, <1>15, <2>2, TypeParts
<1>16. ASSUME NEW d \in Driver, MarkDispatching(d)
       PROVE  TypeInv'
  <2>1. Grown
    BY <1>16, EffectOfActions, EffectsGrow
  <2> QED
    BY <1>2, <1>15, <1>16, <2>1 DEF MarkDispatching, At, Owning, Step
<1>17. ASSUME NEW d \in Driver, FailBeforeDispatch(d)
       PROVE  TypeInv'
  <2>1. Grown
    BY <1>17, EffectOfActions, EffectsGrow
  <2>2. driver[d].request \in Request
    BY <1>6, <1>17 DEF FailBeforeDispatch, At
  <2>3. RowsTyped'
    BY <1>2, <1>4, <1>17, <2>2, CloseTyped DEF FailBeforeDispatch
  <2>4. DriversTyped'
    BY <1>17, <2>1, DriverEnds DEF FailBeforeDispatch
  <2> QED
    BY <1>1, <1>17, <2>1, <2>3, <2>4, TypeParts DEF FailBeforeDispatch
<1>18. ASSUME NEW d \in Driver, Send(d)
       PROVE  TypeInv'
  <2>1. Grown
    BY <1>18, EffectOfActions, EffectsGrow
  <2> QED
    BY <1>2, <1>15, <1>18, <2>1 DEF Send, At, Owning, Step
<1>19. ASSUME NEW d \in Driver, ResponseStarted(d)
       PROVE  TypeInv'
  <2>1. Grown
    BY <1>19, EffectOfActions, EffectsGrow
  <2>2. RowsTyped'
    BY <1>1, <1>4, <1>19 DEF ResponseStarted, RowsTyped
  <2> QED
    BY <1>15, <1>19, <2>1, <2>2 DEF ResponseStarted, At, Owning, Step
<1>20. ASSUME NEW d \in Driver, FailureStarted(d)
       PROVE  TypeInv'
  <2>1. Grown
    BY <1>20, EffectOfActions, EffectsGrow
  <2>2. \E step \in Step : Goto(d, step)
    BY <1>20 DEF FailureStarted, Step
  <2> QED
    BY <1>2, <1>15, <1>20, <2>1, <2>2 DEF FailureStarted, At, Owning
<1>21. ASSUME NEW d \in Driver, Finish(d)
       PROVE  TypeInv'
  <2>1. Grown
    BY <1>21, EffectOfActions, EffectsGrow
  <2>2. driver[d].request \in Request
    BY <1>6, <1>21 DEF Finish, At
  <2>3. RowsTyped'
    BY <1>4, <1>21, <2>2, CloseTyped DEF Finish
  <2>4. DriversTyped'
    BY <1>21, <2>1, DriverEnds DEF Finish
  <2> QED
    BY <1>1, <1>21, <2>1, <2>3, <2>4, TypeParts DEF Finish
<1>22. ASSUME NEW d \in Driver, Unknown(d)
       PROVE  TypeInv'
  <2>1. Grown
    BY <1>22, EffectOfActions, EffectsGrow
  <2>2. driver[d].request \in Request
    BY <1>6, <1>22 DEF Unknown
  <2>3. RowsTyped'
    BY <1>2, <1>4, <1>22, <2>2, CloseTyped DEF Unknown
  <2>4. DriversTyped'
    BY <1>22, <2>1, DriverEnds DEF Unknown
  <2> QED
    BY <1>1, <1>22, <2>1, <2>3, <2>4, TypeParts DEF Unknown
<1>23. ASSUME NEW d \in Driver, Crash(d)
       PROVE  TypeInv'
  <2>1. Grown
    BY <1>7, <1>23 DEF Crash
  <2>2. DriversTyped'
    BY <1>23, <2>1, DriverEnds DEF Crash
  <2> QED
    BY <1>1, <1>2, <1>3, <1>23, <2>1, <2>2, TypeParts DEF Crash
<1>24. ASSUME NEW r \in Request, SweepOrphan(r)
       PROVE  TypeInv'
  <2> DEFINE closes == [failed_no_effect |-> "not_started", failed_classified |-> "failed",
                        terminal_unknown |-> "terminal_unknown"]
  <2>1. PICK status \in RequestState : Close(r, status)
    <3>1. Latest(r).state \in {"failed_no_effect", "failed_classified", "terminal_unknown"}
      BY <1>24 DEF SweepOrphan
    <3>2. closes[Latest(r).state] \in RequestState
      BY <1>4, <3>1
    <3> QED
      BY <1>24, <3>2 DEF SweepOrphan
  <2>2. RowsTyped'
    BY <2>1, CloseTyped
  <2>3. Grown
    BY <1>7, <1>24 DEF SweepOrphan
  <2>4. DriversTyped'
    BY <1>24, <2>3, DriverStays DEF SweepOrphan
  <2> QED
    BY <1>1, <1>24, <2>2, <2>3, <2>4, TypeParts DEF SweepOrphan
<1>25. ASSUME NEW r \in Request, NEW n \in DOMAIN effect[r],
              LeaseExpires(r, n) \/ SweepPrepared(r, n) \/ SweepDispatched(r, n)
       PROVE  TypeInv'
  <2>1. Grown
    BY <1>25, EffectOfSweeps, EffectsGrow
  <2>2. RowsTyped'
    BY <1>2, <1>4, <1>25, CloseTyped DEF LeaseExpires, SweepPrepared, SweepDispatched
  <2>3. DriversTyped'
    BY <1>25, <2>1, DriverStays DEF LeaseExpires, SweepPrepared, SweepDispatched
  <2>4. trouble' \in 0 .. MaxTrouble
    BY <1>1, <1>3, <1>25 DEF LeaseExpires, SweepPrepared, SweepDispatched
  <2>5. UNCHANGED <<over, authorized, ill>>
    BY <1>25 DEF LeaseExpires, SweepPrepared, SweepDispatched
  <2> QED
    BY <1>1, <2>1, <2>2, <2>3, <2>4, <2>5, TypeParts
<1>26. ASSUME TimeOver \/ Expire \/ Withdraw \/ Health \/ UNCHANGED vars
       PROVE  TypeInv'
  <2>1. Grown /\ UNCHANGED driver
    BY <1>7, <1>26 DEF TimeOver, Expire, Withdraw, Health, vars
  <2>2. DriversTyped'
    BY <2>1, DriverStays
  <2>3. RowsTyped'
    <3>1. grant' \in GrantRow
      BY <1>1, <1>26 DEF TimeOver, Expire, Withdraw, Health, vars, WithGrant, GrantRow
    <3> QED
      BY <1>1, <1>26, <3>1 DEF TimeOver, Expire, Withdraw, Health, vars, RowsTyped
  <2>4. trouble' \in 0 .. MaxTrouble
    BY <1>1, <1>3, <1>26 DEF TimeOver, Expire, Withdraw, Health, vars
  <2>5. over' \in BOOLEAN /\ authorized' \in BOOLEAN /\ ill' \subseteq Account
    BY <1>1, <1>26 DEF TimeOver, Expire, Withdraw, Health, vars
  <2> QED
    BY <2>1, <2>2, <2>3, <2>4, <2>5, TypeParts
<1> QED
  <2>1. CASE \E d \in Driver : DriverStep(d)
    BY <1>8, <1>9, <1>11, <1>12, <1>13, <1>14, <1>16, <1>17, <1>18, <1>19, <1>20, <1>21, <1>22,
       <1>23, <2>1 DEF DriverStep
  <2>2. CASE \E r \in Request : SweeperStep(r)
    BY <1>24, <1>25, <2>2 DEF SweeperStep
  <2> QED
    BY <1>26, <2>1, <2>2, StepCases

LEMMA TypeInit ==
  ASSUME Init
  PROVE  TypeInv
<1>1. <<>> \in Seq(EffectRow)
  OBVIOUS
<1>2. effect \in [Request -> Seq(EffectRow)]
  BY <1>1 DEF Init
<1>3. driver \in [Driver -> DriverRow] /\ \A d \in Driver : driver[d].step = "new"
  BY DEF Init, NotYet, DriverRow, Step, Account
<1>4. grant \in GrantRow /\ request \in [Request -> RequestState]
  BY DEF Init, GrantRow, RequestState, Account
<1>5. over \in BOOLEAN /\ authorized \in BOOLEAN /\ ill \subseteq Account
      /\ trouble \in 0 .. MaxTrouble
  <2>1. over \in BOOLEAN /\ authorized \in BOOLEAN
    BY DEF Init
  <2>2. ill \subseteq Account /\ trouble = 0
    BY DEF Init
  <2> QED
    BY <2>1, <2>2, TroubleAssumption
<1>6. ASSUME NEW d \in Driver
      PROVE  driver[d].step \in {"new", "done"} /\ driver[d].step \notin Owning
  <2>1. driver[d].step = "new"
    BY <1>3
  <2> QED
    BY <2>1 DEF Owning
<1> QED
  BY <1>2, <1>3, <1>4, <1>5, <1>6 DEF TypeInv

-----------------------------------------------------------------------------
(* The budget. *)

OpenRequests == {r \in Request : IsOpen(r)}
Admitted == {r \in Request : request[r] # "none"}
Counted ==
  /\ grant.inFlight = Cardinality(OpenRequests) /\ grant.inFlight <= MaxConcurrent
  /\ grant.count = Cardinality(Admitted) /\ grant.count <= MaxRequests

LEMMA Finite ==
  /\ IsFiniteSet(OpenRequests) /\ Cardinality(OpenRequests) \in Nat
  /\ IsFiniteSet(Admitted) /\ Cardinality(Admitted) \in Nat
<1>1. OpenRequests \subseteq Request /\ Admitted \subseteq Request
  BY DEF OpenRequests, Admitted
<1> QED
  BY <1>1, RequestAssumption, FS_Subset, FS_CardinalityType

\* A closing takes one request from those in flight, and one from the counter.
LEMMA CountedClose ==
  ASSUME TypeInv, Counted, NEW r \in Request, IsOpen(r),
         NEW status \in {"succeeded", "failed", "not_started", "terminal_unknown"},
         Close(r, status)
  PROVE  Counted'
<1>1. /\ grant'.inFlight = grant.inFlight - 1 /\ grant'.count = grant.count
      /\ request' = [request EXCEPT ![r] = status]
  BY DEF Close, Closed, WithGrant
<1>2. request \in [Request -> RequestState] /\ grant.inFlight \in Int /\ grant.count \in Nat
  BY DEF TypeInv, GrantRow
<1>3. r \in OpenRequests /\ OpenRequests' = OpenRequests \ {r}
  BY <1>1, <1>2 DEF OpenRequests, IsOpen, Open
<1>4. Admitted' = Admitted
  BY <1>1, <1>2 DEF Admitted, IsOpen, Open
<1>5. Cardinality(OpenRequests') = Cardinality(OpenRequests) - 1
  BY <1>3, Finite, FS_RemoveElement
<1> QED
  BY <1>1, <1>2, <1>4, <1>5, BudgetAssumption DEF Counted

\* Opening one adds one to both.
LEMMA CountedOpen ==
  ASSUME TypeInv, Counted, NEW r \in Request, ~IsOpen(r), grant.inFlight < MaxConcurrent,
         request' = [request EXCEPT ![r] = "processing"],
         grant'.inFlight = grant.inFlight + 1,
         \/ request[r] = "none" /\ grant'.count = grant.count + 1 /\ grant.count < MaxRequests
         \/ request[r] # "none" /\ grant'.count = grant.count
  PROVE  Counted'
<1>1. request \in [Request -> RequestState] /\ grant.inFlight \in Int /\ grant.count \in Nat
  BY DEF TypeInv, GrantRow
<1>2. r \notin OpenRequests /\ OpenRequests' = OpenRequests \cup {r}
  BY <1>1 DEF OpenRequests, IsOpen, Open
<1>3. Cardinality(OpenRequests') = Cardinality(OpenRequests) + 1
  BY <1>2, Finite, FS_AddElement
<1>4. Admitted' = Admitted \cup {r}
  BY <1>1 DEF Admitted
<1>5. CASE request[r] = "none" /\ grant'.count = grant.count + 1 /\ grant.count < MaxRequests
  <2>1. r \notin Admitted
    BY <1>5 DEF Admitted
  <2>2. Cardinality(Admitted') = Cardinality(Admitted) + 1
    BY <1>4, <2>1, Finite, FS_AddElement
  <2> QED
    BY <1>1, <1>3, <1>5, <2>2, BudgetAssumption DEF Counted
<1>6. CASE request[r] # "none" /\ grant'.count = grant.count
  <2>1. Admitted' = Admitted
    BY <1>4, <1>6 DEF Admitted
  <2> QED
    BY <1>1, <1>3, <1>6, <2>1, BudgetAssumption DEF Counted
<1> QED
  BY <1>5, <1>6

LEMMA CountedStays ==
  ASSUME TypeInv, Counted, grant'.inFlight = grant.inFlight, grant'.count = grant.count,
         \A r \in Request : IsOpen(r)' <=> IsOpen(r),
         \A r \in Request : request'[r] = "none" <=> request[r] = "none"
  PROVE  Counted'
<1>1. OpenRequests' = OpenRequests
  BY DEF OpenRequests
<1>2. Admitted' = Admitted
  BY DEF Admitted
<1> QED
  BY <1>1, <1>2 DEF Counted

LEMMA CountedStep ==
  ASSUME TypeInv, Counted, [Next]_vars
  PROVE  Counted'
<1>1. request \in [Request -> RequestState]
  BY DEF TypeInv
<1>2. ASSUME UNCHANGED <<grant, request>>
      PROVE  Counted'
  BY <1>2, CountedStays DEF IsOpen
<1>3. ASSUME NEW d \in Driver, driver[d].step \notin {"new", "done"}
      PROVE  driver[d].request \in Request
  BY <1>3 DEF TypeInv
<1>4. ASSUME NEW d \in Driver, DriverStep(d)
      PROVE  Counted'
  <2>1. ASSUME NEW r \in Request, Admit(d, r)
        PROVE  Counted'
    <3>1. ~IsOpen(r)
      BY <2>1 DEF Admit, IsOpen, Open
    <3> QED
      BY <2>1, <3>1, CountedOpen DEF Admit
  <2>2. ASSUME NEW r \in Request, Resume(d, r)
        PROVE  Counted'
    <3>1. ~IsOpen(r)
      BY <2>2 DEF Resume, IsOpen, Open
    <3> QED
      BY <2>2, <3>1, CountedOpen DEF Resume, WithGrant
  <2>3. ASSUME NEW n, Switch(d, n), UNCHANGED request
        PROVE  Counted'
    <3>1. grant'.inFlight = grant.inFlight /\ grant'.count = grant.count
      BY <2>3, SwitchGrant
    <3> QED
      BY <2>3, <3>1, CountedStays DEF IsOpen
  <2>4. CASE SessionFails(d) \/ SwitchAfterResponse(d)
    BY <2>3, <2>4 DEF SessionFails, SwitchAfterResponse
  <2>5. CASE \/ Prepare(d) \/ MarkDispatching(d) \/ Send(d) \/ FailureStarted(d) \/ Crash(d)
    BY <1>2, <2>5 DEF Prepare, MarkDispatching, Send, FailureStarted, Crash
  <2>6. CASE Refuse(d)
    BY <1>2, <1>3, <2>6, CountedClose DEF Refuse, At
  <2>7. CASE FailBeforeDispatch(d)
    BY <1>2, <1>3, <2>7, CountedClose DEF FailBeforeDispatch, At
  <2>8. CASE Finish(d)
    BY <1>3, <2>8, CountedClose DEF Finish, At
  <2>9. CASE Unknown(d)
    BY <1>2, <1>3, <2>9, CountedClose DEF Unknown
  <2>10. CASE ResponseStarted(d)
    <3>1. driver[d].request \in Request
      BY <1>3, <2>10 DEF ResponseStarted, At
    <3>2. \A r \in Request : request'[r] = IF r = driver[d].request THEN "response_started"
                                           ELSE request[r]
      BY <1>1, <2>10 DEF ResponseStarted
    <3>3. request[driver[d].request] = "processing" /\ UNCHANGED grant
      BY <2>10 DEF ResponseStarted
    <3> QED
      BY <3>1, <3>2, <3>3, CountedStays DEF IsOpen, Open
  <2> QED
    BY <1>4, <2>1, <2>2, <2>4, <2>5, <2>6, <2>7, <2>8, <2>9, <2>10 DEF DriverStep
<1>5. ASSUME NEW r \in Request, SweeperStep(r)
      PROVE  Counted'
  <2>1. CASE SweepOrphan(r)
    <3>1. Latest(r).state \in {"failed_no_effect", "failed_classified", "terminal_unknown"}
      BY <2>1 DEF SweepOrphan
    <3>2. \/ Close(r, "not_started") \/ Close(r, "failed") \/ Close(r, "terminal_unknown")
      BY <2>1, <3>1 DEF SweepOrphan
    <3>3. IsOpen(r)
      BY <2>1 DEF SweepOrphan
    <3> QED
      BY <3>2, <3>3, CountedClose
  <2>2. ASSUME NEW n, LeaseExpires(r, n) \/ SweepPrepared(r, n) \/ SweepDispatched(r, n)
        PROVE  Counted'
    <3>1. CASE LeaseExpires(r, n)
      BY <1>2, <3>1 DEF LeaseExpires
    <3>2. CASE SweepPrepared(r, n)
      BY <3>2, CountedClose DEF SweepPrepared, IsOpen, Open
    <3>3. CASE SweepDispatched(r, n)
      BY <1>2, <3>3, CountedClose DEF SweepDispatched
    <3> QED
      BY <2>2, <3>1, <3>2, <3>3
  <2> QED
    BY <1>5, <2>1, <2>2 DEF SweeperStep
<1>6. CASE TimeOver \/ Withdraw \/ Health \/ UNCHANGED vars
  BY <1>2, <1>6 DEF TimeOver, Withdraw, Health, vars
<1>7. CASE Expire
  <2>1. grant'.inFlight = grant.inFlight /\ grant'.count = grant.count /\ UNCHANGED request
    BY <1>7 DEF Expire, WithGrant
  <2> QED
    BY <2>1, CountedStays DEF IsOpen
<1> QED
  BY <1>4, <1>5, <1>6, <1>7, StepCases

LEMMA CountedInit ==
  ASSUME Init
  PROVE  Counted
<1>1. OpenRequests = {} /\ Admitted = {}
  BY DEF Init, OpenRequests, Admitted, IsOpen, Open
<1>2. grant.inFlight = 0 /\ grant.count = 0
  BY DEF Init
<1> QED
  BY <1>1, <1>2, FS_EmptySet, BudgetAssumption DEF Counted

\* The rows and the drivers have their types, whatever happens: in particular
\* the counter of the requests in flight is never negative.
THEOREM TypeCorrect == Spec => []TypeOK
<1>1. Init => TypeInv /\ Counted
  BY TypeInit, CountedInit
<1>2. TypeInv /\ Counted /\ [Next]_vars => (TypeInv /\ Counted)'
  BY TypeStep, CountedStep
<1>3. TypeInv /\ Counted => TypeOK
  <2> SUFFICES ASSUME TypeInv, Counted
               PROVE  TypeOK
    OBVIOUS
  <2>1. grant \in GrantRow /\ grant.inFlight \in Nat
    BY Finite DEF TypeInv, Counted
  <2>2. grant \in [status : {"issued", "exhausted", "revoked", "expired"}, active : Account,
                   failover : Request \cup {"none"}, count : Nat, inFlight : Nat]
    BY <2>1 DEF GrantRow
  <2> QED
    BY <2>2 DEF TypeInv, TypeOK, RequestState, EffectRow, EffectState, DriverRow
<1> QED
  BY <1>1, <1>2, <1>3, PTL DEF Spec

\* Admission trusts a counter that every closing decrements.  For every number of
\* requests and exchanges it is the number of requests in flight, and both budgets
\* hold, although drivers and the sweeper race to close the same request.
THEOREM BudgetIsHeld == Spec => []BudgetHeld
<1>1. Init => TypeInv /\ Counted
  BY TypeInit, CountedInit
<1>2. TypeInv /\ Counted /\ [Next]_vars => (TypeInv /\ Counted)'
  BY TypeStep, CountedStep
<1>3. Counted => BudgetHeld
  BY DEF Counted, BudgetHeld, OpenRequests, Admitted
<1> QED
  BY <1>1, <1>2, <1>3, PTL DEF Spec

-----------------------------------------------------------------------------
(* The end of a grant. *)

\* The transaction that makes an outcome unknown ends the grant.
Poisoned ==
  (\E r \in Request : request[r] = "terminal_unknown") => grant.status \in {"revoked", "expired"}

\* A grant that has ended stays so.
LEMMA GrantStaysEnded ==
  ASSUME TypeInv, [Next]_vars, grant.status \in {"revoked", "expired"}
  PROVE  grant'.status = grant.status
<1>1. ASSUME NEW r, NEW status, Close(r, status)
      PROVE  grant'.status = grant.status
  BY <1>1 DEF Close, Closed, WithGrant
<1>2. ASSUME NEW d \in Driver, DriverStep(d)
      PROVE  grant'.status = grant.status
  <2>1. ASSUME NEW r \in Request, Admit(d, r) \/ Resume(d, r)
        PROVE  grant'.status = grant.status
    <3>1. grant.status # "issued"
      OBVIOUS
    <3>2. CASE Admit(d, r)
      BY <3>1, <3>2 DEF Admit
    <3>3. CASE Resume(d, r)
      BY <3>3 DEF Resume, WithGrant
    <3> QED
      BY <2>1, <3>2, <3>3
  <2>2. CASE SessionFails(d) \/ SwitchAfterResponse(d)
    <3>1. \E n : Switch(d, n)
      BY <2>2 DEF SessionFails, SwitchAfterResponse
    <3> QED
      BY <3>1, SwitchGrant
  <2>3. CASE \/ Prepare(d) \/ MarkDispatching(d) \/ Send(d) \/ ResponseStarted(d)
             \/ FailureStarted(d) \/ Crash(d)
    BY <2>3 DEF Prepare, MarkDispatching, Send, ResponseStarted, FailureStarted, Crash
  <2>4. CASE Refuse(d) \/ FailBeforeDispatch(d) \/ Finish(d) \/ Unknown(d)
    BY <1>1, <2>4 DEF Refuse, FailBeforeDispatch, Finish, Unknown
  <2> QED
    BY <1>2, <2>1, <2>2, <2>3, <2>4 DEF DriverStep
<1>3. ASSUME NEW r \in Request, SweeperStep(r)
      PROVE  grant'.status = grant.status
  BY <1>1, <1>3 DEF SweeperStep, SweepOrphan, LeaseExpires, SweepPrepared, SweepDispatched
<1>4. CASE TimeOver \/ Expire \/ Withdraw \/ Health \/ UNCHANGED vars
  BY <1>4 DEF TimeOver, Expire, Withdraw, Health, vars, WithGrant
<1> QED
  BY <1>2, <1>3, <1>4, StepCases

LEMMA PoisonedStep ==
  ASSUME TypeInv, Poisoned, [Next]_vars
  PROVE  Poisoned'
<1>1. request \in [Request -> RequestState] /\ grant \in GrantRow
  BY DEF TypeInv
<1>2. ASSUME \A r \in Request : request'[r] = "terminal_unknown" => request[r] = "terminal_unknown"
      PROVE  Poisoned'
  BY <1>2, GrantStaysEnded DEF Poisoned
<1>3. ASSUME NEW r \in Request, NEW status, Close(r, status)
      PROVE  Poisoned'
  <2>1. CASE status = "terminal_unknown"
    <3>1. grant'.status \in {"revoked", "expired"}
      BY <1>1, <1>3, <2>1 DEF Close, Closed, WithGrant, GrantRow
    <3> QED
      BY <3>1 DEF Poisoned
  <2>2. CASE status # "terminal_unknown"
    BY <1>1, <1>2, <1>3, <2>2 DEF Close
  <2> QED
    BY <2>1, <2>2
<1>4. ASSUME UNCHANGED request
      PROVE  Poisoned'
  BY <1>2, <1>4
<1>5. ASSUME NEW d \in Driver, driver[d].step \notin {"new", "done"}
      PROVE  driver[d].request \in Request
  BY <1>5 DEF TypeInv
<1>6. ASSUME NEW d \in Driver, DriverStep(d)
      PROVE  Poisoned'
  <2>1. ASSUME NEW r \in Request, Admit(d, r) \/ Resume(d, r)
        PROVE  Poisoned'
    BY <1>1, <1>2, <2>1 DEF Admit, Resume
  <2>2. CASE \/ SessionFails(d) \/ SwitchAfterResponse(d) \/ Prepare(d) \/ MarkDispatching(d)
             \/ Send(d) \/ FailureStarted(d) \/ Crash(d)
    BY <1>4, <2>2 DEF SessionFails, SwitchAfterResponse, Prepare, MarkDispatching, Send,
      FailureStarted, Crash
  <2>3. CASE ResponseStarted(d)
    BY <1>1, <1>2, <2>3 DEF ResponseStarted
  <2>4. CASE Refuse(d) \/ FailBeforeDispatch(d) \/ Finish(d) \/ Unknown(d)
    <3>1. driver[d].request \in Request
      BY <1>5, <2>4 DEF Refuse, FailBeforeDispatch, Finish, Unknown, At
    <3> QED
      BY <1>3, <1>4, <2>4, <3>1 DEF Refuse, FailBeforeDispatch, Finish, Unknown
  <2> QED
    BY <1>6, <2>1, <2>2, <2>3, <2>4 DEF DriverStep
<1>7. ASSUME NEW r \in Request, SweeperStep(r)
      PROVE  Poisoned'
  BY <1>3, <1>4, <1>7 DEF SweeperStep, SweepOrphan, LeaseExpires, SweepPrepared, SweepDispatched
<1>8. CASE TimeOver \/ Expire \/ Withdraw \/ Health \/ UNCHANGED vars
  BY <1>4, <1>8 DEF TimeOver, Expire, Withdraw, Health, vars
<1> QED
  BY <1>6, <1>7, <1>8, StepCases

\* Only MarkDispatching makes an attempt a dispatched one, and it needs a grant
\* that has not ended.
LEMMA DispatchNeedsGrant ==
  ASSUME TypeInv, [Next]_vars, grant.status \in {"revoked", "expired"},
         NEW r \in Request, NEW n \in DOMAIN effect'[r], effect'[r][n].state = "dispatching"
  PROVE  n \in DOMAIN effect[r] /\ effect[r][n].state = "dispatching"
<1> DEFINE Kept == n \in DOMAIN effect[r] /\ effect[r][n].state = "dispatching"
<1>1. effect \in [Request -> Seq(EffectRow)] /\ DOMAIN effect[r] = 1 .. Len(effect[r])
  BY EffectRows DEF TypeInv
<1>2. TypeInv'
  BY TypeStep
<1>3. DOMAIN effect'[r] = 1 .. Len(effect'[r])
  BY <1>2, LenProperties DEF TypeInv
<1>4. ASSUME NEW q, NEW m, NEW e, EffectSet(q, m, e), e.state # "dispatching"
      PROVE  Kept
  BY <1>1, <1>3, <1>4 DEF EffectSet
<1>5. ASSUME NEW q, NEW e, EffectAdded(q, e), e.state # "dispatching"
      PROVE  Kept
  <2>1. CASE r = q /\ n = Len(effect[r]) + 1
    BY <1>5, <2>1 DEF EffectAdded
  <2>2. CASE ~(r = q /\ n = Len(effect[r]) + 1)
    <3>1. Len(effect[r]) \in Nat
      BY EffectRows
    <3>2. n \in 1 .. Len(effect[r])
      BY <1>3, <1>5, <2>2, <3>1 DEF EffectAdded
    <3> QED
      BY <1>1, <1>5, <3>2 DEF EffectAdded
  <2> QED
    BY <2>1, <2>2
<1>6. ASSUME UNCHANGED effect
      PROVE  Kept
  BY <1>6
<1>7. ASSUME NEW q, NEW m, NEW e, EffectSet(q, m, e), e.state = effect[q][m].state
      PROVE  Kept
  BY <1>1, <1>3, <1>7 DEF EffectSet
<1> HIDE DEF Kept
<1>8. ASSUME NEW e, NEW state
      PROVE  As(e, state).state = state
  BY DEF As
<1>9. ASSUME NEW d \in Driver, DriverStep(d)
      PROVE  Kept
  <2>1. CASE \/ \E q \in Request : Admit(d, q) \/ Resume(d, q)
             \/ SessionFails(d) \/ Refuse(d) \/ Crash(d)
    BY <1>6, <2>1, EffectOfActions DEF Admit, Resume, Refuse, Crash
  <2>2. CASE Prepare(d)
    <3>1. Reserved(driver[d].account).state # "dispatching"
      BY DEF Reserved
    <3> QED
      BY <1>5, <2>2, <3>1, EffectOfActions
  <2>3. CASE MarkDispatching(d)
    BY <2>3 DEF MarkDispatching, Authority
  <2>4. CASE Send(d)
    <3>1. CASE UNCHANGED effect
      BY <1>6, <3>1
    <3>2. ASSUME NEW reply, EffectSet(driver[d].request, driver[d].ordinal, Replied(Mine(d), reply))
          PROVE  Kept
      BY <1>7, <3>2 DEF Replied, Mine
    <3> QED
      BY <2>4, <3>1, <3>2, EffectOfActions
  <2>5. CASE ResponseStarted(d) \/ FailureStarted(d)
    BY <1>4, <1>8, <2>5, EffectOfActions
  <2>6. CASE SwitchAfterResponse(d) \/ FailBeforeDispatch(d)
    BY <1>4, <1>6, <1>8, <2>6, EffectOfActions
  <2>7. CASE Finish(d) \/ Unknown(d)
    BY <1>4, <1>6, <1>8, <2>7, EffectOfActions
  <2> QED
    BY <1>9, <2>1, <2>2, <2>3, <2>4, <2>5, <2>6, <2>7 DEF DriverStep
<1>10. ASSUME NEW q \in Request, SweeperStep(q)
       PROVE  Kept
  <2>1. CASE SweepOrphan(q)
    BY <1>6, <2>1 DEF SweepOrphan
  <2>2. ASSUME NEW m \in DOMAIN effect[q], LeaseExpires(q, m)
        PROVE  Kept
    <3>1. Expired(effect[q][m]).state = effect[q][m].state
      BY DEF Expired
    <3> QED
      BY <1>7, <2>2, <3>1, EffectOfSweeps
  <2>3. ASSUME NEW m \in DOMAIN effect[q], SweepPrepared(q, m) \/ SweepDispatched(q, m)
        PROVE  Kept
    BY <1>4, <1>8, <2>3, EffectOfSweeps
  <2> QED
    BY <1>10, <2>1, <2>2, <2>3 DEF SweeperStep
<1>11. ASSUME TimeOver \/ Expire \/ Withdraw \/ Health \/ UNCHANGED vars
       PROVE  Kept
  BY <1>6, <1>11 DEF TimeOver, Expire, Withdraw, Health, vars
<1>12. Kept
  BY <1>9, <1>10, <1>11, StepCases
<1> QED
  BY <1>12 DEF Kept

\* The provider may have charged for a request that is recorded as unknown:
\* nothing more is sent under the grant, however many requests were admitted and
\* are on their way.
THEOREM NothingAfterUnknownHolds == Spec => NothingAfterUnknown
<1>1. Init => TypeInv /\ Poisoned
  <2>1. Init => Poisoned
    BY DEF Init, Poisoned
  <2> QED
    BY <2>1, TypeInit
<1>2. TypeInv /\ Poisoned /\ [Next]_vars => (TypeInv /\ Poisoned)'
  BY TypeStep, PoisonedStep
<1>3. TypeInv /\ Poisoned /\ [Next]_vars =>
        [(\E r \in Request : request[r] = "terminal_unknown") =>
           \A r \in Request : \A n \in DOMAIN effect'[r] :
             effect'[r][n].state = "dispatching" =>
               n \in DOMAIN effect[r] /\ effect[r][n].state = "dispatching"]_vars
  BY DispatchNeedsGrant DEF Poisoned
<1> QED
  BY <1>1, <1>2, <1>3, PTL DEF Spec, NothingAfterUnknown

=============================================================================
