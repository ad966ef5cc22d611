-------------------- MODULE InvocationGrantEffects_proofs --------------------
(***************************************************************************)
(* Proofs, for every set of requests and exchanges, that the ledger of the *)
(* attempts tells the truth about what the provider did: an attempt said   *)
(* to have had no effect had none, a request is sent again only after a    *)
(* refusal and to the other account, and a success is one.  Drivers and    *)
(* the sweeper write the ledger in any order; the invariant relates every  *)
(* attempt to the later ones, to its request, to the grant and to the only *)
(* driver that may still have the provider act on it.                      *)
(***************************************************************************)
EXTENDS InvocationGrant_proofs

\* What a request says of its attempts.
RequestFine(r) ==
  /\ request[r] = "none" => Len(effect[r]) = 0
  /\ request[r] = "not_started" => Len(effect[r]) # 0 /\ Latest(r).state = "failed_no_effect"
  /\ request[r] = "succeeded" => Len(effect[r]) # 0 /\ Latest(r).state = "succeeded"

\* What an attempt says of itself, its request and the grant.
AttemptFine(r, n) ==
  /\ effect[r][n].state \in Live => n = Len(effect[r])
  /\ effect[r][n].state \in {"prepared", "failed_no_effect"} => effect[r][n].reply = "none"
  /\ effect[r][n].state = "succeeded" =>
       effect[r][n].reply = "inferred" /\ request[r] = "succeeded"
  /\ effect[r][n].state = "terminal_unknown" =>
       request[r] \in {"succeeded", "failed", "terminal_unknown"}
  /\ effect[r][n].state = "failed_classified" =>
       effect[r][n].reply = "refused" /\ effect[r][n].account = "primary" /\ grant.failover # "none"
  /\ grant.failover = "none" => effect[r][n].account = "primary"

\* What an attempt says of a later one.
PairFine(r, m, n) ==
  m < n => /\ effect[r][m].state \in {"failed_no_effect", "failed_classified"}
           /\ effect[r][m].state = "failed_classified" => effect[r][n].account = "backup"

History ==
  /\ grant.active = IF grant.failover = "none" THEN "primary" ELSE "backup"
  /\ \A r \in Request : RequestFine(r)
  /\ \A r \in Request : \A n \in 1 .. Len(effect[r]) : AttemptFine(r, n)
  /\ \A r \in Request : \A m, n \in 1 .. Len(effect[r]) : PairFine(r, m, n)

\* What a driver knows of its attempt, although others close it.
DriverFine(d) ==
  /\ driver[d].step = "dispatching" => Mine(d).state \in {"dispatching", "terminal_unknown"}
  /\ driver[d].step = "switching" => Mine(d).reply = "refused"
  /\ driver[d].step = "streaming" => Mine(d).reply = "inferred"

\* An attempt has one driver.
Apart(d, e) ==
  d # e /\ driver[d].step \in Owning /\ driver[e].step \in Owning =>
    driver[d].request # driver[e].request \/ driver[d].ordinal # driver[e].ordinal

Drivers ==
  /\ \A d \in Driver : DriverFine(d)
  /\ \A d, e \in Driver : Apart(d, e)

-----------------------------------------------------------------------------
(* The moves of the rows, whoever makes them. *)

\* Attempt n of r becomes e: its lease runs out, the provider acts on it, or it is
\* closed or advanced while it is live.
EffectMove(r, n, e) ==
  /\ EffectSet(r, n, e) /\ e.account = effect[r][n].account
  /\ \/ /\ e.state = effect[r][n].state
        /\ \/ e.reply = effect[r][n].reply
           \/ effect[r][n].state \in {"dispatching", "terminal_unknown"}
     \/ /\ effect[r][n].state \in Live /\ e.reply = effect[r][n].reply /\ e.state # "prepared"
        /\ e.state = "failed_no_effect" => effect[r][n].state = "prepared"
        /\ e.state = "succeeded" =>
             effect[r][n].reply = "inferred" /\ request'[r] = "succeeded"
        /\ e.state = "terminal_unknown" =>
             request'[r] \in {"succeeded", "failed", "terminal_unknown"}
        /\ e.state = "failed_classified" =>
             /\ effect[r][n].reply = "refused"
             /\ grant.failover = "none" /\ grant'.failover # "none"

\* A new attempt of r on account a.
EffectNew(r, a) ==
  /\ EffectAdded(r, Reserved(a)) /\ UNCHANGED <<grant, request>> /\ grant.active = a
  /\ request[r] = "processing"
  /\ Len(effect[r]) # 0 => Latest(r).state \notin Live

LatestBecomes(r, state) ==
  Len(effect'[r]) # 0 /\ effect'[r][Len(effect'[r])].state = state

RequestMove(r) ==
  \/ request'[r] = request[r]
  \/ request[r] \in {"none", "not_started"} /\ request'[r] = "processing"
  \/ /\ request[r] \in Open
     /\ \/ request'[r] \in {"response_started", "failed", "terminal_unknown"}
        \/ request'[r] = "not_started" /\ LatestBecomes(r, "failed_no_effect")
        \/ request'[r] = "succeeded" /\ LatestBecomes(r, "succeeded")

GrantMove ==
  \/ grant'.active = grant.active /\ grant'.failover = grant.failover
  \/ grant.failover = "none" /\ grant'.failover # "none" /\ grant'.active = "backup"

Moves ==
  /\ GrantMove /\ \A r \in Request : RequestMove(r)
  /\ \/ UNCHANGED effect
     \/ \E r, n, e : EffectMove(r, n, e)
     \/ \E r, a : EffectNew(r, a)

\* What a move leaves of an old attempt.
Kept(q, m) ==
  /\ effect'[q][m].account = effect[q][m].account
  /\ \/ /\ effect'[q][m].state = effect[q][m].state
        /\ \/ effect'[q][m].reply = effect[q][m].reply
           \/ effect[q][m].state \in {"dispatching", "terminal_unknown"}
     \/ effect[q][m].state \in Live

LEMMA MovesKeep ==
  ASSUME TypeInv, Moves, NEW q \in Request, NEW m \in 1 .. Len(effect[q])
  PROVE  Kept(q, m) /\ m \in 1 .. Len(effect'[q])
<1>1. Len(effect[q]) \in Nat
  BY EffectRows
<1>2. CASE UNCHANGED effect
  BY <1>2 DEF Kept
<1>3. ASSUME NEW r, NEW n, NEW e, EffectMove(r, n, e)
      PROVE  Kept(q, m) /\ m \in 1 .. Len(effect'[q])
  <2>1. Len(effect'[q]) = Len(effect[q])
    BY <1>3 DEF EffectMove, EffectSet
  <2>2. CASE q = r /\ m = n
    <3>1. effect'[q][m] = e
      BY <1>3, <2>2 DEF EffectMove, EffectSet
    <3> QED
      BY <1>3, <2>1, <2>2, <3>1 DEF EffectMove, Kept
  <2>3. CASE ~(q = r /\ m = n)
    <3>1. effect'[q][m] = effect[q][m]
      BY <1>3, <2>3 DEF EffectMove, EffectSet
    <3> QED
      BY <2>1, <3>1 DEF Kept
  <2> QED
    BY <2>2, <2>3
<1>4. ASSUME NEW r, NEW a, EffectNew(r, a)
      PROVE  Kept(q, m) /\ m \in 1 .. Len(effect'[q])
  <2>1. effect'[q][m] = effect[q][m]
    BY <1>4 DEF EffectNew, EffectAdded
  <2>2. Len(effect'[q]) = Len(effect[q]) \/ Len(effect'[q]) = Len(effect[q]) + 1
    BY <1>4 DEF EffectNew, EffectAdded
  <2> QED
    BY <1>1, <2>1, <2>2 DEF Kept
<1> QED
  BY <1>2, <1>3, <1>4 DEF Moves

\* A request that is not open gets no new attempt.
LEMMA ClosedKeepsLength ==
  ASSUME TypeInv, Moves, NEW q \in Request, request[q] # "processing"
  PROVE  Len(effect'[q]) = Len(effect[q])
<1>1. ASSUME NEW r, NEW n, NEW e, EffectMove(r, n, e)
      PROVE  Len(effect'[q]) = Len(effect[q])
  BY <1>1 DEF EffectMove, EffectSet
<1>2. ASSUME NEW r, NEW a, EffectNew(r, a)
      PROVE  Len(effect'[q]) = Len(effect[q])
  BY <1>2 DEF EffectNew, EffectAdded
<1> QED
  BY <1>1, <1>2 DEF Moves

LEMMA RequestsStayFine ==
  ASSUME TypeInv, History, Moves, NEW q \in Request
  PROVE  RequestFine(q)'
<1>1. RequestFine(q) /\ RequestMove(q)
  BY DEF History, Moves
<1>2. Len(effect[q]) \in Nat
  BY EffectRows
<1>3. ASSUME request[q] # "processing", Len(effect[q]) # 0, Latest(q).state \notin Live
      PROVE  Len(effect'[q]) # 0 /\ Latest(q)'.state = Latest(q).state
  <2>1. Len(effect'[q]) = Len(effect[q])
    BY <1>3, ClosedKeepsLength
  <2>2. Len(effect[q]) \in 1 .. Len(effect[q])
    BY <1>2, <1>3
  <2>3. Kept(q, Len(effect[q]))
    BY <2>2, MovesKeep
  <2> QED
    BY <1>3, <2>1, <2>3 DEF Kept, Latest
<1>4. ASSUME request'[q] = "none"
      PROVE  Len(effect'[q]) = 0
  <2>1. request[q] = "none"
    BY <1>1, <1>4 DEF RequestMove, Open
  <2> QED
    BY <1>1, <2>1, ClosedKeepsLength DEF RequestFine
<1>5. ASSUME request'[q] = "not_started"
      PROVE  Len(effect'[q]) # 0 /\ Latest(q)'.state = "failed_no_effect"
  <2>1. CASE request[q] = "not_started"
    BY <1>1, <1>3, <2>1 DEF RequestFine, Live
  <2>2. CASE request[q] # "not_started"
    BY <1>1, <1>5, <2>2 DEF RequestMove, LatestBecomes, Latest, Open
  <2> QED
    BY <2>1, <2>2
<1>6. ASSUME request'[q] = "succeeded"
      PROVE  Len(effect'[q]) # 0 /\ Latest(q)'.state = "succeeded"
  <2>1. CASE request[q] = "succeeded"
    BY <1>1, <1>3, <2>1 DEF RequestFine, Live
  <2>2. CASE request[q] # "succeeded"
    BY <1>1, <1>6, <2>2 DEF RequestMove, LatestBecomes, Latest, Open
  <2> QED
    BY <2>1, <2>2
<1> QED
  BY <1>4, <1>5, <1>6 DEF RequestFine

\* A live attempt is the last one, so the earlier ones have ended; an attempt that
\* ended for good ended with its request.
LEMMA OldAttemptsStayFine ==
  ASSUME TypeInv, History, Moves, NEW q \in Request, NEW m \in 1 .. Len(effect[q])
  PROVE  AttemptFine(q, m)'
<1> DEFINE old == effect[q][m]
           new == effect'[q][m]
<1>1. AttemptFine(q, m) /\ RequestMove(q) /\ GrantMove /\ Kept(q, m)
  BY MovesKeep DEF History, Moves
<1>2. \/ new = old
      \/ \E e : EffectMove(q, m, e) /\ new = e
  <2>1. ASSUME NEW r, NEW n, NEW e, EffectMove(r, n, e), new # old
        PROVE  r = q /\ n = m /\ new = e
    BY <2>1 DEF EffectMove, EffectSet
  <2>2. ASSUME NEW r, NEW a, EffectNew(r, a)
        PROVE  new = old
    BY <2>2 DEF EffectNew, EffectAdded
  <2> QED
    BY <2>1, <2>2 DEF Moves
<1>3. new.state \in Live => m = Len(effect'[q])
  <2> SUFFICES ASSUME new.state \in Live
               PROVE  m = Len(effect'[q])
    OBVIOUS
  <2>1. old.state \in Live /\ m = Len(effect[q])
    BY <1>1 DEF Kept, AttemptFine
  <2>2. ASSUME NEW a, EffectNew(q, a)
        PROVE  FALSE
    BY <2>1, <2>2, EffectRows DEF EffectNew, Latest
  <2>3. ASSUME NEW r, NEW a, EffectNew(r, a)
        PROVE  Len(effect'[q]) = Len(effect[q])
    BY <2>2, <2>3 DEF EffectNew, EffectAdded
  <2>4. ASSUME NEW r, NEW n, NEW e, EffectMove(r, n, e)
        PROVE  Len(effect'[q]) = Len(effect[q])
    BY <2>4 DEF EffectMove, EffectSet
  <2> QED
    BY <2>1, <2>3, <2>4 DEF Moves
<1>4. new.state \in {"prepared", "failed_no_effect"} => new.reply = "none"
  <2>1. CASE new = old
    BY <1>1, <2>1 DEF AttemptFine
  <2>2. ASSUME NEW e, EffectMove(q, m, e), new = e
        PROVE  new.state \in {"prepared", "failed_no_effect"} => new.reply = "none"
    BY <1>1, <2>2 DEF AttemptFine, EffectMove
  <2> QED
    BY <1>2, <2>1, <2>2
<1>5. new.state = "succeeded" => new.reply = "inferred" /\ request'[q] = "succeeded"
  <2>1. ASSUME old.state = "succeeded"
        PROVE  old.reply = "inferred" /\ request'[q] = "succeeded"
    BY <1>1, <2>1 DEF AttemptFine, RequestMove, Open
  <2>2. ASSUME NEW e, EffectMove(q, m, e), new = e, new.state = "succeeded"
        PROVE  new.reply = "inferred" /\ request'[q] = "succeeded"
    BY <2>1, <2>2 DEF EffectMove
  <2> QED
    BY <1>2, <2>1, <2>2
<1>6. new.state = "terminal_unknown" => request'[q] \in {"succeeded", "failed", "terminal_unknown"}
  <2>1. ASSUME old.state = "terminal_unknown"
        PROVE  request'[q] \in {"succeeded", "failed", "terminal_unknown"}
    BY <1>1, <2>1 DEF AttemptFine, RequestMove, Open
  <2>2. ASSUME NEW e, EffectMove(q, m, e), new = e, new.state = "terminal_unknown"
        PROVE  request'[q] \in {"succeeded", "failed", "terminal_unknown"}
    BY <2>1, <2>2 DEF EffectMove
  <2> QED
    BY <1>2, <2>1, <2>2
<1>7. ASSUME new.state = "failed_classified"
      PROVE  new.reply = "refused" /\ new.account = "primary" /\ grant'.failover # "none"
  <2>1. CASE old.state = "failed_classified"
    <3>1. grant'.failover # "none"
      BY <1>1, <2>1 DEF AttemptFine, GrantMove
    <3>2. new.reply = old.reply /\ new.account = old.account
      BY <1>1, <2>1 DEF Kept, Live
    <3> QED
      BY <1>1, <2>1, <3>1, <3>2 DEF AttemptFine
  <2>2. CASE old.state # "failed_classified"
    <3>1. PICK e : EffectMove(q, m, e) /\ new = e
      BY <1>2, <1>7, <2>2
    <3>2. new.reply = "refused" /\ grant.failover = "none" /\ grant'.failover # "none"
          /\ new.account = old.account
      BY <1>7, <2>2, <3>1 DEF EffectMove
    <3> QED
      BY <1>1, <3>2 DEF AttemptFine
  <2> QED
    BY <2>1, <2>2
<1>8. grant'.failover = "none" => new.account = "primary"
  BY <1>1 DEF Kept, AttemptFine, GrantMove
<1> QED
  BY <1>3, <1>4, <1>5, <1>6, <1>7, <1>8 DEF AttemptFine

LEMMA OldPairsStayFine ==
  ASSUME TypeInv, History, Moves, NEW q \in Request,
         NEW m \in 1 .. Len(effect[q]), NEW n \in 1 .. Len(effect[q])
  PROVE  PairFine(q, m, n)'
<1> SUFFICES ASSUME m < n
             PROVE  /\ effect'[q][m].state \in {"failed_no_effect", "failed_classified"}
                    /\ effect'[q][m].state = "failed_classified" =>
                         effect'[q][n].account = "backup"
  BY DEF PairFine
<1>1. PairFine(q, m, n)
  BY DEF History
<1>2. Kept(q, m) /\ Kept(q, n)
  BY MovesKeep
<1>3. effect[q][m].state \notin Live
  BY <1>1 DEF PairFine, Live
<1> QED
  BY <1>1, <1>2, <1>3 DEF Kept, PairFine

\* The new attempt: all earlier ones have ended without inferring anything.
LEMMA NewAttemptIsFine ==
  ASSUME TypeInv, History, NEW r, NEW a, EffectNew(r, a), NEW n, n = Len(effect[r]) + 1
  PROVE  /\ AttemptFine(r, n)'
         /\ \A m \in 1 .. Len(effect[r]) : PairFine(r, m, n)'
<1>1. r \in Request /\ Len(effect[r]) \in Nat
  BY EffectRows DEF EffectNew, EffectAdded
<1>2. /\ Len(effect'[r]) = Len(effect[r]) + 1
      /\ effect'[r][n] = Reserved(a)
      /\ \A m \in 1 .. Len(effect[r]) : effect'[r][m] = effect[r][m]
      /\ UNCHANGED <<grant, request>>
  BY <1>1 DEF EffectNew, EffectAdded
<1>3. Reserved(a).account = a /\ Reserved(a).state = "prepared" /\ Reserved(a).reply = "none"
  BY DEF Reserved
<1>4. grant.failover = "none" => a = "primary"
  BY DEF History, EffectNew
<1>5. grant.failover # "none" => a = "backup"
  BY DEF History, EffectNew
<1>6. AttemptFine(r, n)'
  BY <1>2, <1>3, <1>4 DEF AttemptFine
<1>7. ASSUME NEW m \in 1 .. Len(effect[r])
      PROVE  PairFine(r, m, n)'
  <2>1. AttemptFine(r, m)
    BY <1>1 DEF History
  <2>2. effect[r][m].state \in {"failed_no_effect", "failed_classified"}
    <3>1. CASE m < Len(effect[r])
      <4>1. Len(effect[r]) \in 1 .. Len(effect[r])
        BY <1>1
      <4>2. PairFine(r, m, Len(effect[r]))
        BY <1>1, <4>1 DEF History
      <4> QED
        BY <3>1, <4>2 DEF PairFine
    <3>2. CASE m = Len(effect[r])
      <4>1. effect[r][m].state \notin Live
        BY <1>1, <3>2 DEF EffectNew, Latest
      <4>2. effect[r][m].state \in EffectState
        BY <1>1, EffectRows DEF EffectRow
      <4>3. effect[r][m].state \notin {"succeeded", "terminal_unknown"}
        BY <2>1 DEF AttemptFine, EffectNew
      <4> QED
        BY <4>1, <4>2, <4>3 DEF EffectState
    <3> QED
      BY <1>1, <3>1, <3>2
  <2>3. effect[r][m].state = "failed_classified" => a = "backup"
    BY <1>5, <2>1 DEF AttemptFine
  <2> QED
    BY <1>2, <1>3, <2>2, <2>3 DEF PairFine
<1> QED
  BY <1>6, <1>7

LEMMA HistoryKept ==
  ASSUME TypeInv, TypeInv', History, Moves
  PROVE  History'
<1>1. (grant.active = IF grant.failover = "none" THEN "primary" ELSE "backup")'
  BY DEF History, Moves, GrantMove
<1>2. \A r \in Request : RequestFine(r)'
  BY RequestsStayFine
<1>3. ASSUME NEW q \in Request, NEW m \in 1 .. Len(effect'[q]), m \notin 1 .. Len(effect[q])
      PROVE  \E a : EffectNew(q, a) /\ m = Len(effect[q]) + 1
  <2>1. Len(effect[q]) \in Nat
    BY EffectRows
  <2>2. ~UNCHANGED effect
    BY <1>3
  <2>3. ASSUME NEW r, NEW n, NEW e, EffectMove(r, n, e)
        PROVE  FALSE
    BY <1>3, <2>3 DEF EffectMove, EffectSet
  <2>4. PICK r, a : EffectNew(r, a)
    BY <2>2, <2>3 DEF Moves
  <2>5. r = q /\ Len(effect'[q]) = Len(effect[q]) + 1
    BY <1>3, <2>4 DEF EffectNew, EffectAdded
  <2> QED
    BY <1>3, <2>1, <2>4, <2>5
<1>4. ASSUME NEW q \in Request, NEW m \in 1 .. Len(effect'[q])
      PROVE  AttemptFine(q, m)'
  <2>1. CASE m \in 1 .. Len(effect[q])
    BY <2>1, OldAttemptsStayFine
  <2>2. CASE m \notin 1 .. Len(effect[q])
    BY <1>3, <2>2, NewAttemptIsFine
  <2> QED
    BY <2>1, <2>2
<1>5. ASSUME NEW q \in Request, NEW m \in 1 .. Len(effect'[q]), NEW n \in 1 .. Len(effect'[q])
      PROVE  PairFine(q, m, n)'
  <2>1. CASE m \in 1 .. Len(effect[q]) /\ n \in 1 .. Len(effect[q])
    BY <2>1, OldPairsStayFine
  <2>2. CASE m \notin 1 .. Len(effect[q])
    <3>1. ~(m < n)
      <4>1. m = Len(effect[q]) + 1 /\ Len(effect'[q]) = Len(effect[q]) + 1
        BY <1>3, <2>2 DEF EffectNew, EffectAdded
      <4>2. Len(effect[q]) \in Nat
        BY EffectRows
      <4> QED
        BY <4>1, <4>2
    <3> QED
      BY <3>1 DEF PairFine
  <2>3. CASE m \in 1 .. Len(effect[q]) /\ n \notin 1 .. Len(effect[q])
    BY <1>3, <2>3, NewAttemptIsFine
  <2> QED
    BY <2>1, <2>2, <2>3
<1> QED
  BY <1>1, <1>2, <1>4, <1>5 DEF History

-----------------------------------------------------------------------------
(* Every step is such a move. *)

LEMMA CloseMoves ==
  ASSUME TypeInv, NEW r \in Request, IsOpen(r), NEW status, Close(r, status),
         \/ status \in {"failed", "terminal_unknown"}
         \/ status = "not_started" /\ LatestBecomes(r, "failed_no_effect")
         \/ status = "succeeded" /\ LatestBecomes(r, "succeeded")
  PROVE  GrantMove /\ (\A q \in Request : RequestMove(q)) /\ request'[r] = status
<1>1. request \in [Request -> RequestState]
  BY DEF TypeInv
<1>2. \A q \in Request : request'[q] = IF q = r THEN status ELSE request[q]
  BY <1>1 DEF Close
<1>3. GrantMove
  BY DEF Close, Closed, WithGrant, GrantMove
<1>4. ASSUME NEW q \in Request
      PROVE  RequestMove(q)
  BY <1>2 DEF RequestMove, IsOpen
<1> QED
  BY <1>2, <1>3, <1>4

LEMMA SameRows ==
  ASSUME UNCHANGED <<grant, request>>
  PROVE  GrantMove /\ \A q \in Request : RequestMove(q)
  BY DEF GrantMove, RequestMove

\* The n-th attempt of r, which is live, gets another state.
LEMMA LiveMove ==
  ASSUME TypeInv, History, NEW r \in Request, NEW n \in 1 .. Len(effect[r]),
         effect[r][n].state \in Live, NEW state, EffectSet(r, n, As(effect[r][n], state)),
         state # "prepared",
         state = "failed_no_effect" => effect[r][n].state = "prepared",
         state = "succeeded" => effect[r][n].reply = "inferred" /\ request'[r] = "succeeded",
         state = "terminal_unknown" => request'[r] \in {"succeeded", "failed", "terminal_unknown"},
         state = "failed_classified" =>
           effect[r][n].reply = "refused" /\ grant.failover = "none" /\ grant'.failover # "none"
  PROVE  EffectMove(r, n, As(effect[r][n], state)) /\ LatestBecomes(r, state)
<1> DEFINE e == As(effect[r][n], state)
<1>1. e.account = effect[r][n].account /\ e.state = state /\ e.reply = effect[r][n].reply
  BY DEF As
<1>2. n = Len(effect[r])
  BY DEF History, AttemptFine
<1>3. Len(effect'[r]) = n /\ effect'[r][n] = e /\ n # 0
  BY <1>2 DEF EffectSet
<1> QED
  BY <1>1, <1>3 DEF EffectMove, LatestBecomes

LEMMA SwitchMoves ==
  ASSUME TypeInv, NEW d \in Driver, NEW n, driver[d].request \in Request, Switch(d, n)
  PROVE  /\ GrantMove
         /\ effect' # effect => /\ effect' = WithEffect(driver[d].request, n, "failed_classified")
                                /\ grant.failover = "none" /\ grant'.failover # "none"
<1>1. "none" \notin Request
  BY RequestAssumption
<1>2. CASE /\ Switchable(driver[d].request, n)
           /\ effect' = IF n = 0 THEN effect ELSE WithEffect(driver[d].request, n, "failed_classified")
           /\ grant' = [status |-> grant.status, active |-> "backup", failover |-> driver[d].request,
                        count |-> grant.count, inFlight |-> grant.inFlight]
  <2>1. grant'.active = "backup" /\ grant'.failover = driver[d].request
    BY <1>2
  <2>2. grant.failover = "none"
    BY <1>2 DEF Switchable
  <2>3. driver[d].request # "none"
    BY <1>1
  <2> QED
    BY <1>2, <2>1, <2>2, <2>3 DEF GrantMove
<1>3. CASE UNCHANGED <<effect, grant>>
  BY <1>3 DEF GrantMove
<1> QED
  BY <1>2, <1>3 DEF Switch

LEMMA DriverStepMoves ==
  ASSUME TypeInv, History, Drivers, NEW d \in Driver, DriverStep(d)
  PROVE  Moves
<1> DEFINE r == driver[d].request
           n == driver[d].ordinal
<1>1. request \in [Request -> RequestState]
  BY DEF TypeInv
<1>2. ASSUME driver[d].step \notin {"new", "done"}
      PROVE  r \in Request
  BY <1>2 DEF TypeInv
<1>3. ASSUME driver[d].step \in Owning
      PROVE  r \in Request /\ n \in 1 .. Len(effect[r]) /\ Mine(d) = effect[r][n]
  BY <1>3, OwnEffect DEF Mine
<1>4. ASSUME NEW q \in Request, Admit(d, q) \/ Resume(d, q)
      PROVE  Moves
  <2>1. GrantMove
    <3>1. CASE Admit(d, q)
      BY <3>1 DEF Admit, GrantMove
    <3>2. CASE Resume(d, q)
      BY <3>2 DEF Resume, WithGrant, GrantMove
    <3> QED
      BY <1>4, <3>1, <3>2
  <2>2. ASSUME NEW s \in Request
        PROVE  RequestMove(s)
    BY <1>1, <1>4 DEF Admit, Resume, RequestMove
  <2> QED
    BY <1>4, <2>1, <2>2 DEF Admit, Resume, Moves
<1>5. CASE SessionFails(d)
  <2>1. GrantMove /\ UNCHANGED effect
    BY <1>2, <1>5, SwitchMoves, EffectOfActions DEF SessionFails, At
  <2>2. \A q \in Request : RequestMove(q)
    BY <1>5 DEF SessionFails, RequestMove
  <2> QED
    BY <2>1, <2>2 DEF Moves
<1>6. CASE SwitchAfterResponse(d)
  <2>1. r \in Request /\ n \in 1 .. Len(effect[r]) /\ Mine(d) = effect[r][n]
        /\ effect[r][n].state = "response_started"
    BY <1>3, <1>6 DEF SwitchAfterResponse, At, Owning
  <2>2. effect[r][n].reply = "refused"
    BY <1>6, <2>1 DEF Drivers, DriverFine, SwitchAfterResponse, At
  <2>3. \A q \in Request : RequestMove(q)
    BY <1>6 DEF SwitchAfterResponse, RequestMove
  <2>4. GrantMove
    BY <1>6, <2>1, SwitchMoves DEF SwitchAfterResponse
  <2>5. CASE UNCHANGED effect
    BY <2>3, <2>4, <2>5 DEF Moves
  <2>6. CASE effect' # effect
    <3>1. grant.failover = "none" /\ grant'.failover # "none"
      BY <1>6, <2>1, <2>6, SwitchMoves DEF SwitchAfterResponse
    <3>2. EffectSet(r, n, As(effect[r][n], "failed_classified"))
      BY <1>6, <2>1, <2>6, EffectOfActions
    <3>3. EffectMove(r, n, As(effect[r][n], "failed_classified"))
      BY <2>1, <2>2, <3>1, <3>2, LiveMove DEF Live
    <3> QED
      BY <2>3, <2>4, <3>3 DEF Moves
  <2> QED
    BY <2>5, <2>6
<1>7. CASE Prepare(d)
  <2>1. EffectAdded(r, Reserved(driver[d].account)) /\ r \in Request
    BY <1>2, <1>7, EffectOfActions DEF Prepare, At
  <2>2. Len(effect[r]) # 0 => effect[r] # <<>>
    BY <2>1, EffectRows
  <2>3. EffectNew(r, driver[d].account)
    BY <1>7, <2>1, <2>2 DEF Prepare, Authority, EffectNew
  <2> QED
    BY <1>7, <2>3, SameRows DEF Prepare, Moves
<1>8. CASE Refuse(d)
  <2>1. r \in Request /\ UNCHANGED effect
    BY <1>2, <1>8 DEF Refuse, At
  <2>2. GrantMove /\ \A q \in Request : RequestMove(q)
    BY <1>8, <2>1, CloseMoves, SameRows DEF Refuse
  <2> QED
    BY <2>1, <2>2 DEF Moves
<1>9. CASE MarkDispatching(d)
  <2>1. r \in Request /\ n \in 1 .. Len(effect[r]) /\ Mine(d) = effect[r][n]
        /\ effect[r][n].state \in Live
    BY <1>3, <1>9 DEF MarkDispatching, At, Owning, Live
  <2>2. EffectMove(r, n, As(effect[r][n], "dispatching"))
    BY <1>9, <2>1, EffectOfActions, LiveMove
  <2> QED
    BY <1>9, <2>2, SameRows DEF MarkDispatching, Moves
<1>10. CASE FailBeforeDispatch(d)
  <2>1. r \in Request /\ n \in 1 .. Len(effect[r]) /\ Mine(d) = effect[r][n]
    BY <1>3, <1>10 DEF FailBeforeDispatch, At, Owning
  <2>2. CASE UNCHANGED <<effect, request, grant>>
    BY <2>2, SameRows DEF Moves
  <2>3. CASE /\ Mine(d).state = "prepared" /\ IsOpen(r) /\ Close(r, "failed")
             /\ effect' = WithEffect(r, n, "failed_no_effect")
    <3>1. EffectSet(r, n, As(effect[r][n], "failed_no_effect"))
      BY <2>1, <2>3, WithEffectFacts DEF EffectState
    <3>2. EffectMove(r, n, As(effect[r][n], "failed_no_effect"))
      BY <2>1, <2>3, <3>1, LiveMove DEF Live
    <3> QED
      BY <2>1, <2>3, <3>2, CloseMoves DEF Moves
  <2> QED
    BY <1>10, <2>2, <2>3 DEF FailBeforeDispatch
<1>11. CASE Send(d)
  <2>1. r \in Request /\ n \in 1 .. Len(effect[r]) /\ Mine(d) = effect[r][n]
    BY <1>3, <1>11 DEF Send, At, Owning
  <2>2. effect[r][n].state \in {"dispatching", "terminal_unknown"}
    BY <1>11, <2>1 DEF Send, At, Drivers, DriverFine
  <2>3. ASSUME NEW reply, EffectSet(r, n, Replied(Mine(d), reply))
        PROVE  EffectMove(r, n, Replied(Mine(d), reply))
    BY <2>1, <2>2, <2>3 DEF EffectMove, Replied
  <2>4. UNCHANGED effect \/ \E m, e : EffectMove(r, m, e)
    BY <1>11, <2>3, EffectOfActions
  <2> QED
    BY <1>11, <2>4, SameRows DEF Send, Moves
<1>12. CASE ResponseStarted(d)
  <2>1. r \in Request /\ n \in 1 .. Len(effect[r]) /\ Mine(d) = effect[r][n]
        /\ effect[r][n].state \in Live
    BY <1>3, <1>12 DEF ResponseStarted, At, Owning, Live
  <2>2. EffectMove(r, n, As(effect[r][n], "response_started"))
    BY <1>12, <2>1, EffectOfActions, LiveMove
  <2>3. ASSUME NEW q \in Request
        PROVE  RequestMove(q)
    BY <1>1, <1>12 DEF ResponseStarted, RequestMove, Open
  <2>4. GrantMove
    BY <1>12 DEF ResponseStarted, GrantMove
  <2> QED
    BY <2>2, <2>3, <2>4 DEF Moves
<1>13. CASE FailureStarted(d)
  <2>1. r \in Request /\ n \in 1 .. Len(effect[r]) /\ Mine(d) = effect[r][n]
        /\ effect[r][n].state \in Live
    BY <1>3, <1>13 DEF FailureStarted, At, Owning, Live
  <2>2. EffectMove(r, n, As(effect[r][n], "response_started"))
    BY <1>13, <2>1, EffectOfActions, LiveMove
  <2> QED
    BY <1>13, <2>2, SameRows DEF FailureStarted, Moves
<1>14. CASE Finish(d)
  <2>1. r \in Request /\ n \in 1 .. Len(effect[r]) /\ Mine(d) = effect[r][n]
        /\ effect[r][n].state \in Live
    BY <1>3, <1>14 DEF Finish, At, Owning, Live
  <2>2. effect[r][n].reply = "inferred"
    BY <1>14, <2>1 DEF Finish, At, Drivers, DriverFine
  <2>3. request'[r] = "succeeded" /\ IsOpen(r) /\ Close(r, "succeeded")
    BY <1>1, <1>14, <2>1 DEF Finish, Close
  <2>4. /\ EffectMove(r, n, As(effect[r][n], "succeeded"))
        /\ LatestBecomes(r, "succeeded")
    BY <1>14, <2>1, <2>2, <2>3, EffectOfActions, LiveMove
  <2> QED
    BY <2>1, <2>3, <2>4, CloseMoves DEF Moves
<1>15. CASE Unknown(d)
  <2>1. r \in Request /\ n \in 1 .. Len(effect[r]) /\ Mine(d) = effect[r][n]
    BY <1>3, <1>15 DEF Unknown, Owning
  <2>2. CASE UNCHANGED <<effect, request, grant>>
    BY <2>2, SameRows DEF Moves
  <2>3. CASE /\ Mine(d).state \in Dispatched /\ IsOpen(r) /\ Close(r, "terminal_unknown")
             /\ effect' = WithEffect(r, n, "terminal_unknown")
    <3>1. EffectSet(r, n, As(effect[r][n], "terminal_unknown"))
      BY <2>1, <2>3, WithEffectFacts DEF EffectState
    <3>2. GrantMove /\ (\A q \in Request : RequestMove(q)) /\ request'[r] = "terminal_unknown"
      BY <2>1, <2>3, CloseMoves
    <3>3. EffectMove(r, n, As(effect[r][n], "terminal_unknown"))
      BY <2>1, <2>3, <3>1, <3>2, LiveMove DEF Live, Dispatched
    <3> QED
      BY <3>2, <3>3 DEF Moves
  <2> QED
    BY <1>15, <2>2, <2>3 DEF Unknown
<1>16. CASE Crash(d)
  BY <1>16, SameRows DEF Crash, Moves
<1> QED
  BY <1>4, <1>5, <1>6, <1>7, <1>8, <1>9, <1>10, <1>11, <1>12, <1>13, <1>14, <1>15, <1>16
  DEF DriverStep

LEMMA SweeperStepMoves ==
  ASSUME TypeInv, History, NEW r \in Request, SweeperStep(r)
  PROVE  Moves
<1>1. CASE SweepOrphan(r)
  <2>1. UNCHANGED effect /\ IsOpen(r) /\ Len(effect[r]) # 0
    BY <1>1, EffectRows DEF SweepOrphan
  <2>2. Latest(r).state \in {"failed_no_effect", "failed_classified", "terminal_unknown"}
    BY <1>1 DEF SweepOrphan
  <2>3. \/ Latest(r).state = "failed_no_effect" /\ Close(r, "not_started")
        \/ Close(r, "failed") \/ Close(r, "terminal_unknown")
    BY <1>1, <2>2 DEF SweepOrphan
  <2>4. GrantMove /\ \A q \in Request : RequestMove(q)
    BY <2>1, <2>3, CloseMoves DEF LatestBecomes, Latest
  <2> QED
    BY <2>1, <2>4 DEF Moves
<1>2. ASSUME NEW n \in DOMAIN effect[r], LeaseExpires(r, n)
      PROVE  Moves
  <2>1. EffectMove(r, n, Expired(effect[r][n]))
    BY <1>2, EffectOfSweeps DEF EffectMove, Expired
  <2> QED
    BY <1>2, <2>1, SameRows DEF LeaseExpires, Moves
<1>3. ASSUME NEW n \in DOMAIN effect[r], SweepPrepared(r, n)
      PROVE  Moves
  <2>1. n \in 1 .. Len(effect[r]) /\ effect[r][n].state = "prepared"
    BY <1>3, EffectRows DEF SweepPrepared, CertainlyUnsent
  <2>2. EffectSet(r, n, As(effect[r][n], "failed_no_effect"))
    BY <1>3, EffectOfSweeps
  <2>3. /\ EffectMove(r, n, As(effect[r][n], "failed_no_effect"))
        /\ LatestBecomes(r, "failed_no_effect")
    BY <2>1, <2>2, LiveMove DEF Live
  <2>4. IsOpen(r) /\ Close(r, "not_started")
    BY <1>3 DEF SweepPrepared, IsOpen, Open
  <2> QED
    BY <2>3, <2>4, CloseMoves DEF Moves
<1>4. ASSUME NEW n \in DOMAIN effect[r], SweepDispatched(r, n)
      PROVE  Moves
  <2>1. n \in 1 .. Len(effect[r]) /\ effect[r][n].state \in Live
    BY <1>4, EffectRows DEF SweepDispatched
  <2>2. EffectSet(r, n, As(effect[r][n], "terminal_unknown"))
    BY <1>4, EffectOfSweeps
  <2>3. /\ GrantMove /\ \A q \in Request : RequestMove(q)
        /\ request'[r] \in {"succeeded", "failed", "terminal_unknown"}
    <3>1. CASE IsOpen(r)
      BY <1>4, <3>1, CloseMoves DEF SweepDispatched
    <3>2. CASE ~IsOpen(r)
      <4>1. UNCHANGED <<request, grant>>
        BY <1>4, <3>2 DEF SweepDispatched
      <4>2. request[r] \in RequestState /\ RequestFine(r) /\ Len(effect[r]) \in Nat
        BY EffectRows DEF TypeInv, History
      <4>3. n = Len(effect[r]) /\ Latest(r).state \in Live
        BY <2>1 DEF History, AttemptFine, Latest
      <4>4. request[r] \notin {"none", "not_started"}
        BY <2>1, <4>2, <4>3 DEF RequestFine, Live
      <4> QED
        BY <3>2, <4>1, <4>2, <4>4, SameRows DEF RequestState, IsOpen
    <3> QED
      BY <3>1, <3>2
  <2>4. EffectMove(r, n, As(effect[r][n], "terminal_unknown"))
    BY <2>1, <2>2, <2>3, LiveMove
  <2> QED
    BY <2>3, <2>4 DEF Moves
<1> QED
  BY <1>1, <1>2, <1>3, <1>4 DEF SweeperStep

LEMMA HistoryStep ==
  ASSUME TypeInv, History, Drivers, [Next]_vars
  PROVE  History'
<1>1. ASSUME TimeOver \/ Withdraw \/ Health \/ UNCHANGED vars
      PROVE  Moves
  BY <1>1, SameRows DEF TimeOver, Withdraw, Health, vars, Moves
<1>2. ASSUME Expire
      PROVE  Moves
  <2>1. GrantMove
    BY <1>2 DEF Expire, WithGrant, GrantMove
  <2> QED
    BY <1>2, <2>1 DEF Expire, Moves, RequestMove
<1>3. Moves
  BY <1>1, <1>2, DriverStepMoves, SweeperStepMoves, StepCases
<1> QED
  BY <1>3, TypeStep, HistoryKept

-----------------------------------------------------------------------------
(* The drivers. *)

\* A driver keeps its attempt as long as it has one; a new one is nobody else's.
Advance(d) ==
  /\ \A e \in Driver : e # d => driver'[e] = driver[e]
  /\ driver'[d].step \in Owning =>
       \/ /\ driver[d].step \in Owning
          /\ driver'[d].request = driver[d].request /\ driver'[d].ordinal = driver[d].ordinal
       \/ driver'[d].ordinal = Len(effect[driver'[d].request]) + 1

LEMMA EveryAdvance ==
  ASSUME TypeInv, NEW d \in Driver, DriverStep(d)
  PROVE  Advance(d)
<1>1. driver \in [Driver -> DriverRow]
  BY DEF TypeInv
<1>2. ASSUME NEW step, Goto(d, step), step \in Owning => driver[d].step \in Owning
      PROVE  Advance(d)
  BY <1>1, <1>2 DEF Goto, Advance
<1>3. ASSUME Done(d)
      PROVE  Advance(d)
  BY <1>1, <1>3 DEF Done, Ended, Advance, Owning
<1>4. ASSUME NEW r, NEW a, NEW switched, Opening(d, r, a, switched)
      PROVE  Advance(d)
  BY <1>1, <1>4 DEF Opening, Advance, Owning
<1>5. ASSUME NEW n, Switch(d, n), n # 0 => driver[d].step \in Owning
      PROVE  Advance(d)
  <2>1. CASE Opening(d, driver[d].request, "backup", TRUE)
    BY <1>4, <2>1
  <2>2. CASE Goto(d, IF n = 0 THEN "refused" ELSE "lost")
    BY <1>2, <1>5, <2>2 DEF Owning
  <2> QED
    BY <1>5, <2>1, <2>2 DEF Switch
<1>6. CASE \/ \E r \in Request : Admit(d, r) \/ Resume(d, r)
           \/ Refuse(d) \/ FailBeforeDispatch(d) \/ Finish(d) \/ Unknown(d) \/ Crash(d)
  BY <1>3, <1>4, <1>6 DEF Admit, Resume, Refuse, FailBeforeDispatch, Finish, Unknown, Crash
<1>7. CASE SessionFails(d)
  BY <1>5, <1>7 DEF SessionFails
<1>8. CASE SwitchAfterResponse(d)
  BY <1>5, <1>8 DEF SwitchAfterResponse, At, Owning
<1>9. CASE Prepare(d)
  BY <1>1, <1>9 DEF Prepare, Advance
<1>10. CASE MarkDispatching(d) \/ Send(d) \/ ResponseStarted(d) \/ FailureStarted(d)
  <2>1. driver[d].step \in Owning
    BY <1>10 DEF MarkDispatching, Send, ResponseStarted, FailureStarted, At, Owning
  <2>2. \E step : Goto(d, step)
    BY <1>10 DEF MarkDispatching, Send, ResponseStarted, FailureStarted
  <2> QED
    BY <1>2, <2>1, <2>2
<1> QED
  BY <1>6, <1>7, <1>8, <1>9, <1>10 DEF DriverStep

LEMMA StayApart ==
  ASSUME TypeInv, Drivers, NEW d \in Driver, Advance(d), NEW e \in Driver, NEW f \in Driver
  PROVE  Apart(e, f)'
<1>1. ASSUME NEW g \in Driver, g # d, driver'[g].step \in Owning, driver'[d].step \in Owning
      PROVE  driver'[d].request # driver'[g].request \/ driver'[d].ordinal # driver'[g].ordinal
  <2>1. driver'[g] = driver[g]
    BY <1>1 DEF Advance
  <2>2. driver[g].request \in Request /\ driver[g].ordinal \in 1 .. Len(effect[driver[g].request])
    BY <1>1, <2>1, OwnEffect
  <2>3. Len(effect[driver[g].request]) \in Nat
    BY <2>2, EffectRows
  <2>4. Apart(d, g)
    BY DEF Drivers
  <2>5. CASE /\ driver[d].step \in Owning
             /\ driver'[d].request = driver[d].request /\ driver'[d].ordinal = driver[d].ordinal
    BY <1>1, <2>1, <2>4, <2>5 DEF Apart
  <2>6. CASE driver'[d].ordinal = Len(effect[driver'[d].request]) + 1
    BY <2>1, <2>2, <2>3, <2>6
  <2> QED
    BY <1>1, <2>5, <2>6 DEF Advance
<1>2. CASE e # d /\ f # d
  BY <1>2 DEF Apart, Advance, Drivers
<1>3. CASE e = d \/ f = d
  BY <1>1, <1>3 DEF Apart
<1> QED
  BY <1>2, <1>3

\* The attempt of a driver is the same after a step of another one.
LEMMA OthersKeepMine ==
  ASSUME TypeInv, Drivers, NEW d \in Driver, DriverStep(d), NEW e \in Driver, e # d,
         driver[e].step \in Owning
  PROVE  driver'[e] = driver[e] /\ Mine(e)' = Mine(e)
<1> DEFINE r == driver[d].request
           n == driver[d].ordinal
           q == driver[e].request
           m == driver[e].ordinal
<1>1. driver'[e] = driver[e]
  BY EveryAdvance DEF Advance
<1>2. q \in Request /\ m \in 1 .. Len(effect[q])
  BY OwnEffect
<1>3. ASSUME UNCHANGED effect
      PROVE  effect'[q][m] = effect[q][m]
  BY <1>3
<1>4. ASSUME NEW s, NEW a, EffectAdded(s, a)
      PROVE  effect'[q][m] = effect[q][m]
  BY <1>2, <1>4 DEF EffectAdded
<1>5. ASSUME driver[d].step \in Owning, NEW a, EffectSet(r, n, a)
      PROVE  effect'[q][m] = effect[q][m]
  <2>1. q # r \/ m # n
    BY <1>5 DEF Drivers, Apart
  <2> QED
    BY <1>2, <1>5, <2>1 DEF EffectSet
<1>6. effect'[q][m] = effect[q][m]
  <2>1. CASE \/ \E s \in Request : Admit(d, s) \/ Resume(d, s)
             \/ SessionFails(d) \/ Refuse(d) \/ Crash(d)
    BY <1>3, <2>1, EffectOfActions DEF Admit, Resume, Refuse, Crash
  <2>2. CASE Prepare(d)
    BY <1>4, <2>2, EffectOfActions
  <2>3. CASE MarkDispatching(d) \/ ResponseStarted(d) \/ FailureStarted(d) \/ Finish(d)
    <3>1. driver[d].step \in Owning
      BY <2>3 DEF MarkDispatching, ResponseStarted, FailureStarted, Finish, At, Owning
    <3> QED
      BY <1>5, <2>3, <3>1, EffectOfActions
  <2>4. CASE FailBeforeDispatch(d) \/ Unknown(d) \/ Send(d) \/ SwitchAfterResponse(d)
    <3>1. driver[d].step \in Owning
      BY <2>4 DEF FailBeforeDispatch, Unknown, Send, SwitchAfterResponse, At, Owning
    <3>2. UNCHANGED effect \/ \E a : EffectSet(r, n, a)
      BY <2>4, EffectOfActions
    <3> QED
      BY <1>3, <1>5, <3>1, <3>2
  <2> QED
    BY <2>1, <2>2, <2>3, <2>4 DEF DriverStep
<1> QED
  BY <1>1, <1>6 DEF Mine

LEMMA DriverStaysFine ==
  ASSUME TypeInv, Drivers, NEW d \in Driver, DriverStep(d)
  PROVE  DriverFine(d)'
<1>1. driver \in [Driver -> DriverRow]
  BY DEF TypeInv
<1>2. ASSUME driver'[d].step \notin {"dispatching", "switching", "streaming"}
      PROVE  DriverFine(d)'
  BY <1>2 DEF DriverFine
<1>3. ASSUME NEW step, Goto(d, step)
      PROVE  /\ driver'[d].step = step /\ driver'[d].request = driver[d].request
             /\ driver'[d].ordinal = driver[d].ordinal
  BY <1>1, <1>3 DEF Goto
<1>4. ASSUME Done(d)
      PROVE  DriverFine(d)'
  BY <1>1, <1>2, <1>4 DEF Done, Ended
<1>5. ASSUME NEW r, NEW a, NEW switched, Opening(d, r, a, switched)
      PROVE  DriverFine(d)'
  BY <1>1, <1>2, <1>5 DEF Opening
<1>6. ASSUME NEW n, Switch(d, n)
      PROVE  DriverFine(d)'
  <2>1. CASE Opening(d, driver[d].request, "backup", TRUE)
    BY <1>5, <2>1
  <2>2. CASE Goto(d, IF n = 0 THEN "refused" ELSE "lost")
    BY <1>2, <1>3, <2>2
  <2> QED
    BY <1>6, <2>1, <2>2 DEF Switch
<1>7. ASSUME NEW step, Goto(d, step), NEW e,
             EffectSet(driver[d].request, driver[d].ordinal, e)
      PROVE  driver'[d].step = step /\ Mine(d)' = e
  BY <1>3, <1>7 DEF EffectSet, Mine
<1>8. CASE \/ \E r \in Request : Admit(d, r) \/ Resume(d, r)
           \/ Refuse(d) \/ FailBeforeDispatch(d) \/ Finish(d) \/ Unknown(d) \/ Crash(d)
  BY <1>4, <1>5, <1>8 DEF Admit, Resume, Refuse, FailBeforeDispatch, Finish, Unknown, Crash
<1>9. CASE SessionFails(d) \/ SwitchAfterResponse(d)
  BY <1>6, <1>9 DEF SessionFails, SwitchAfterResponse
<1>10. CASE Prepare(d)
  BY <1>1, <1>2, <1>10 DEF Prepare
<1>11. CASE Send(d)
  BY <1>2, <1>3, <1>11 DEF Send
<1>12. CASE MarkDispatching(d)
  <2>1. driver'[d].step = "dispatching" /\ Mine(d)' = As(Mine(d), "dispatching")
    BY <1>7, <1>12, EffectOfActions DEF MarkDispatching
  <2> QED
    BY <2>1 DEF As, DriverFine
<1>13. CASE ResponseStarted(d)
  <2>1. driver'[d].step = "streaming" /\ Mine(d)' = As(Mine(d), "response_started")
    BY <1>7, <1>13, EffectOfActions DEF ResponseStarted
  <2>2. Mine(d).reply = "inferred"
    BY <1>13 DEF ResponseStarted, Answer
  <2> QED
    BY <2>1, <2>2 DEF As, DriverFine
<1>14. CASE FailureStarted(d)
  <2>1. Mine(d)' = As(Mine(d), "response_started")
    BY <1>7, <1>14, EffectOfActions DEF FailureStarted
  <2>2. CASE Mine(d).reply = "refused"
    <3>1. driver'[d].step \in {"switching", "lost"}
      BY <1>3, <1>14 DEF FailureStarted
    <3> QED
      BY <2>1, <2>2, <3>1 DEF As, DriverFine
  <2>3. CASE Mine(d).reply # "refused"
    <3>1. driver'[d].step = "lost"
      BY <1>3, <1>14, <2>3 DEF FailureStarted, Classified
    <3> QED
      BY <1>2, <3>1
  <2> QED
    BY <2>2, <2>3
<1> QED
  BY <1>8, <1>9, <1>10, <1>11, <1>12, <1>13, <1>14 DEF DriverStep

\* What others than the drivers do to attempts under way.
LEMMA SweepsKeepMine ==
  ASSUME TypeInv, Drivers, NEW r \in Request, SweeperStep(r), NEW e \in Driver
  PROVE  DriverFine(e)' /\ UNCHANGED driver
<1>1. UNCHANGED driver
  BY DEF SweeperStep, SweepOrphan, LeaseExpires, SweepPrepared, SweepDispatched
<1>2. CASE driver[e].step \notin Owning
  BY <1>1, <1>2 DEF DriverFine, Owning
<1>3. CASE driver[e].step \in Owning
  <2>1. DriverFine(e) /\ driver[e].request \in Request
        /\ driver[e].ordinal \in 1 .. Len(effect[driver[e].request])
    BY <1>3, OwnEffect DEF Drivers
  <2>2. CASE UNCHANGED effect
    BY <1>1, <2>1, <2>2 DEF DriverFine, Mine
  <2>3. ASSUME NEW n, NEW a, EffectSet(r, n, a), a.reply = effect[r][n].reply,
               \/ a.state = effect[r][n].state
               \/ a.state = "terminal_unknown" \/ effect[r][n].state = "prepared"
        PROVE  DriverFine(e)'
    <3>1. CASE driver[e].request = r /\ driver[e].ordinal = n
      <4>1. Mine(e) = effect[r][n] /\ Mine(e)' = a
        BY <1>1, <2>1, <2>3, <3>1 DEF Mine, EffectSet
      <4> QED
        BY <1>1, <2>1, <2>3, <4>1 DEF DriverFine
    <3>2. CASE ~(driver[e].request = r /\ driver[e].ordinal = n)
      <4>1. Mine(e)' = Mine(e)
        BY <1>1, <2>1, <2>3, <3>2 DEF Mine, EffectSet
      <4> QED
        BY <1>1, <2>1, <4>1 DEF DriverFine
    <3> QED
      BY <3>1, <3>2
  <2>4. ASSUME NEW n \in DOMAIN effect[r],
               LeaseExpires(r, n) \/ SweepPrepared(r, n) \/ SweepDispatched(r, n)
        PROVE  DriverFine(e)'
    <3>1. CASE LeaseExpires(r, n)
      <4>1. /\ Expired(effect[r][n]).reply = effect[r][n].reply
            /\ Expired(effect[r][n]).state = effect[r][n].state
        BY DEF Expired
      <4> QED
        BY <2>3, <3>1, <4>1, EffectOfSweeps
    <3>2. CASE SweepPrepared(r, n)
      <4>1. /\ As(effect[r][n], "failed_no_effect").reply = effect[r][n].reply
            /\ effect[r][n].state = "prepared"
        BY <3>2 DEF As, SweepPrepared, CertainlyUnsent
      <4> QED
        BY <2>3, <3>2, <4>1, EffectOfSweeps
    <3>3. CASE SweepDispatched(r, n)
      <4>1. /\ As(effect[r][n], "terminal_unknown").reply = effect[r][n].reply
            /\ As(effect[r][n], "terminal_unknown").state = "terminal_unknown"
        BY DEF As
      <4> QED
        BY <2>3, <3>3, <4>1, EffectOfSweeps
    <3> QED
      BY <2>4, <3>1, <3>2, <3>3
  <2> QED
    BY <1>1, <2>2, <2>4 DEF SweeperStep, SweepOrphan
<1> QED
  BY <1>1, <1>2, <1>3

LEMMA DriversStep ==
  ASSUME TypeInv, Drivers, [Next]_vars
  PROVE  Drivers'
<1>1. ASSUME UNCHANGED <<driver, effect>>
      PROVE  Drivers'
  BY <1>1 DEF Drivers, DriverFine, Apart, Mine
<1>2. ASSUME NEW d \in Driver, DriverStep(d)
      PROVE  Drivers'
  <2>1. ASSUME NEW e \in Driver
        PROVE  DriverFine(e)'
    <3>1. CASE e = d
      BY <1>2, <3>1, DriverStaysFine
    <3>2. CASE e # d /\ driver[e].step \in Owning
      BY <1>2, <3>2, OthersKeepMine DEF Drivers, DriverFine
    <3>3. CASE e # d /\ driver[e].step \notin Owning
      <4>1. driver'[e] = driver[e]
        BY <1>2, <3>3, EveryAdvance DEF Advance
      <4> QED
        BY <3>3, <4>1 DEF DriverFine, Owning
    <3> QED
      BY <3>1, <3>2, <3>3
  <2>2. \A e, f \in Driver : Apart(e, f)'
    BY <1>2, EveryAdvance, StayApart
  <2> QED
    BY <2>1, <2>2 DEF Drivers
<1>3. ASSUME NEW r \in Request, SweeperStep(r)
      PROVE  Drivers'
  <2>1. \A e \in Driver : DriverFine(e)'
    BY <1>3, SweepsKeepMine
  <2>2. UNCHANGED driver
    BY <1>3 DEF SweeperStep, SweepOrphan, LeaseExpires, SweepPrepared, SweepDispatched
  <2>3. \A e, f \in Driver : Apart(e, f)'
    BY <2>2 DEF Drivers, Apart
  <2> QED
    BY <2>1, <2>3 DEF Drivers
<1>4. ASSUME TimeOver \/ Expire \/ Withdraw \/ Health \/ UNCHANGED vars
      PROVE  UNCHANGED <<driver, effect>>
  BY <1>4 DEF TimeOver, Expire, Withdraw, Health, vars
<1> QED
  BY <1>1, <1>2, <1>3, <1>4, StepCases

-----------------------------------------------------------------------------
(* The invariant and what follows. *)

LedgerInv == TypeInv /\ History /\ Drivers

LEMMA LedgerInit ==
  ASSUME Init
  PROVE  LedgerInv
<1>1. History
  <2>1. \A r \in Request : effect[r] = <<>> /\ request[r] = "none"
    BY DEF Init
  <2>2. \A r \in Request : Len(effect[r]) = 0
    BY <2>1
  <2>3. grant.active = "primary" /\ grant.failover = "none"
    BY DEF Init
  <2> QED
    BY <2>1, <2>2, <2>3 DEF History, RequestFine
<1>2. Drivers
  <2>1. \A d \in Driver : driver[d].step = "new"
    BY DEF Init, NotYet
  <2> QED
    BY <2>1 DEF Drivers, DriverFine, Apart, Owning
<1> QED
  BY <1>1, <1>2, TypeInit DEF LedgerInv

LEMMA LedgerStep ==
  ASSUME LedgerInv, [Next]_vars
  PROVE  LedgerInv'
  BY TypeStep, HistoryStep, DriversStep DEF LedgerInv

\* The relay may make an attempt again that is said to have had no effect,
\* because the provider never saw it.
THEOREM NoEffectIsTrueHolds == Spec => []NoEffectIsTrue
<1>1. LedgerInv => NoEffectIsTrue
  <2> SUFFICES ASSUME LedgerInv, NEW r \in Request, NEW n \in DOMAIN effect[r],
                      effect[r][n].state \in {"prepared", "failed_no_effect"}
               PROVE  effect[r][n].reply = "none"
    BY DEF NoEffectIsTrue
  <2>1. n \in 1 .. Len(effect[r])
    BY EffectRows DEF LedgerInv
  <2> QED
    BY <2>1 DEF LedgerInv, History, AttemptFine
<1> QED
  BY <1>1, LedgerInit, LedgerStep, PTL DEF Spec

\* The provider is paid for at most one inference of a request: it is sent again
\* only after a refusal, once, to the backup.
THEOREM SentAgainOnlyIfRefusedHolds == Spec => []SentAgainOnlyIfRefused
<1>1. LedgerInv => SentAgainOnlyIfRefused
  <2> SUFFICES ASSUME LedgerInv, NEW r \in Request,
                      NEW m \in DOMAIN effect[r], NEW n \in DOMAIN effect[r],
                      m < n, effect[r][m].reply # "none", effect[r][n].reply # "none"
               PROVE  /\ effect[r][m].reply = "refused"
                      /\ effect[r][m].account = "primary" /\ effect[r][n].account = "backup"
    BY DEF SentAgainOnlyIfRefused
  <2>1. m \in 1 .. Len(effect[r]) /\ n \in 1 .. Len(effect[r])
    BY EffectRows DEF LedgerInv
  <2>2. AttemptFine(r, m) /\ PairFine(r, m, n)
    BY <2>1 DEF LedgerInv, History
  <2>3. effect[r][m].state = "failed_classified"
    BY <2>2 DEF AttemptFine, PairFine
  <2> QED
    BY <2>2, <2>3 DEF AttemptFine, PairFine
<1> QED
  BY <1>1, LedgerInit, LedgerStep, PTL DEF Spec

\* A request that succeeded has an attempt that the provider answered as its last
\* one, and no attempt succeeds alone.
THEOREM SuccessIsRealHolds == Spec => []SuccessIsReal
<1>1. LedgerInv => SuccessIsReal
  <2> SUFFICES ASSUME LedgerInv, NEW r \in Request
               PROVE  /\ request[r] = "succeeded" =>
                           effect[r] # <<>> /\ Latest(r).state = "succeeded"
                      /\ \A n \in DOMAIN effect[r] : effect[r][n].state = "succeeded" =>
                           effect[r][n].reply = "inferred" /\ request[r] = "succeeded"
    BY DEF SuccessIsReal
  <2>1. /\ DOMAIN effect[r] = 1 .. Len(effect[r])
        /\ (effect[r] = <<>>) <=> (Len(effect[r]) = 0)
    BY EffectRows DEF LedgerInv
  <2>2. RequestFine(r) /\ \A n \in 1 .. Len(effect[r]) : AttemptFine(r, n)
    BY DEF LedgerInv, History
  <2>3. request[r] = "succeeded" => effect[r] # <<>> /\ Latest(r).state = "succeeded"
    BY <2>1, <2>2 DEF RequestFine
  <2>4. \A n \in DOMAIN effect[r] : effect[r][n].state = "succeeded" =>
          effect[r][n].reply = "inferred" /\ request[r] = "succeeded"
    BY <2>1, <2>2 DEF AttemptFine
  <2> QED
    BY <2>3, <2>4
<1> QED
  BY <1>1, LedgerInit, LedgerStep, PTL DEF Spec

=============================================================================
