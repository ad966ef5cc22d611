--------------------------- MODULE InvocationGrant ---------------------------
(* The requests that a runner relays to the provider under one hosted         *)
(* invocation grant.  The grant has a budget of requests, some of them at a   *)
(* time, a primary account and a backup for one failover.  Grant, requests    *)
(* and upstream effect attempts are rows of the database, changed by the      *)
(* serializable transactions of prisma-invocation-grant-repository.ts and     *)
(* prisma-hosted-codex-upstream-effect-ledger.ts together with the triggers   *)
(* on the tables.  Between them one HTTP exchange of the relay (a driver,     *)
(* prisma-hosted-codex-relay.ts) calls the provider, which charges for what   *)
(* it infers whether or not the answer arrives, and a sweeper closes what     *)
(* drivers leave behind.                                                      *)
EXTENDS Integers, Sequences, FiniteSets

CONSTANTS
  Request,       \* the requests the runner makes: ordinal and idempotency key
  Driver,        \* HTTP exchanges; a request is made again by another exchange
  MaxRequests,   \* budget.maxRequests
  MaxConcurrent, \* budget.maxConcurrentRequests
  MaxTrouble     \* bound: exchanges that die, leases that run out, and whatever
                 \* takes the authority from the grant or gives it back

ASSUME BudgetAssumption == MaxRequests \in Nat \ {0} /\ MaxConcurrent \in Nat \ {0}
ASSUME TroubleAssumption == MaxTrouble \in Nat
ASSUME RequestAssumption == IsFiniteSet(Request) /\ "none" \notin Request

VARIABLES
  grant,       \* [status, active, failover, count, inFlight] of the row
  request,     \* status of every HostedCodexRelayRequest
  effect,      \* its HostedCodexUpstreamEffectAttempts by ordinal:
               \* [account, state, live], and in `reply` what the provider did
  driver,      \* what every exchange is doing
  over,        \* has expiresAt passed?
  authorized,  \* do the binding, the pool and the runtime gate still authorize it?
  ill,         \* accounts in cooldown or quarantine
  trouble      \* troubles so far, at most MaxTrouble

vars == <<grant, request, effect, driver, over, authorized, ill, trouble>>

Account == {"primary", "backup"}
Open == {"processing", "response_started"}
Live == {"prepared", "dispatching", "response_started"}
Dispatched == {"dispatching", "response_started"}
\* What the provider may do with a request that reaches it.
Reply == {"inferred", "refused", "errored"}

NotYet == [step |-> "new", request |-> "none", account |-> "primary", ordinal |-> 0,
           switched |-> FALSE]
Ended == [step |-> "done", request |-> "none", account |-> "primary", ordinal |-> 0,
          switched |-> FALSE]

Init ==
  /\ grant = [status |-> "issued", active |-> "primary", failover |-> "none",
              count |-> 0, inFlight |-> 0]
  /\ request = [r \in Request |-> "none"]
  /\ effect = [r \in Request |-> <<>>]
  /\ driver = [d \in Driver |-> NotYet]
  /\ over = FALSE /\ authorized = TRUE /\ ill = {} /\ trouble = 0

-----------------------------------------------------------------------------
(* What the transactions read. *)

\* Mutant: a request that failed is closed once more.
IsOpenOrFailed(r) == request[r] \in Open \cup {"failed"}
IsOpen(r) == request[r] \in Open
Latest(r) == effect[r][Len(effect[r])]

\* assertCurrentDispatchAuthority
Authority(a) ==
  /\ grant.status \in {"issued", "exhausted"} /\ ~over
  /\ grant.active = a /\ authorized /\ a \notin ill

\* The account may be sent the request: anything but a proof that the last
\* attempt had no effect forbids another one on the same account.
Sendable(r, a) ==
  effect[r] # <<>> => Latest(r).state = "failed_no_effect" \/ Latest(r).account # a

\* Another attempt of the request than its n-th reached the provider.
Sibling(r, n) ==
  \E m \in DOMAIN effect[r] \ {n} :
    effect[r][m].state \in Dispatched \cup {"succeeded", "terminal_unknown"}

Switchable(r, n) ==
  /\ ~Sibling(r, n) /\ request[r] = "processing"
  /\ grant.failover = "none" /\ "backup" \notin ill
\* failoverCurrentRelayRequest decides on the account before it is denied.
Blamed(r, n) == ~Sibling(r, n) /\ IsOpen(r)

-----------------------------------------------------------------------------
(* What the transactions write; the triggers keep the counters. *)

\* The n-th attempt of r becomes e; it gets another state.
SetEffect(r, n, e) == [effect EXCEPT ![r] = [effect[r] EXCEPT ![n] = e]]
As(e, state) == [account |-> e.account, state |-> state, live |-> e.live, reply |-> e.reply]
WithEffect(r, n, state) == SetEffect(r, n, As(effect[r][n], state))
Replied(e, reply) == [account |-> e.account, state |-> e.state, live |-> e.live, reply |-> reply]
Expired(e) == [account |-> e.account, state |-> e.state, live |-> FALSE, reply |-> e.reply]
Reserved(a) == [account |-> a, state |-> "prepared", live |-> TRUE, reply |-> "none"]

WithGrant(status, inFlight) ==
  [status |-> status, active |-> grant.active, failover |-> grant.failover,
   count |-> grant.count, inFlight |-> inFlight]

\* Mutants: the slot of a request with an unknown outcome is kept; only a grant
\* with budget left is withdrawn.
ClosedKeepingUnknown(status) ==
  WithGrant(IF status = "terminal_unknown" /\ grant.status \in {"issued", "exhausted"}
              THEN "revoked" ELSE grant.status,
            IF status = "terminal_unknown" THEN grant.inFlight ELSE grant.inFlight - 1)
ClosedPoisoningIssued(status) ==
  WithGrant(IF status = "terminal_unknown" /\ grant.status = "issued"
              THEN "revoked" ELSE grant.status,
            grant.inFlight - 1)

\* An open request is closed: completion accounting and, for an unknown outcome,
\* the end of the grant.
Closed(status) ==
  WithGrant(IF status = "terminal_unknown" /\ grant.status \in {"issued", "exhausted"}
              THEN "revoked" ELSE grant.status,
            grant.inFlight - 1)

Close(r, status) ==
  /\ request' = [request EXCEPT ![r] = status]
  /\ grant' = Closed(status)

-----------------------------------------------------------------------------
(* The driver. *)

Trouble == trouble < MaxTrouble /\ trouble' = trouble + 1

At(d, step) == driver[d].step = step
Goto(d, step) == driver' = [driver EXCEPT ![d] =
  [step |-> step, request |-> driver[d].request, account |-> driver[d].account,
   ordinal |-> driver[d].ordinal, switched |-> driver[d].switched]]
Opening(d, r, a, switched) == driver' = [driver EXCEPT ![d] =
  [step |-> "opening", request |-> r, account |-> a, ordinal |-> 0, switched |-> switched]]
Done(d) == driver' = [driver EXCEPT ![d] = Ended]

\* What the driver's effect is, as long as it is the driver's.
Mine(d) == effect[driver[d].request][driver[d].ordinal]

\* Admission counts the request and, for the last one, exhausts the grant.  What
\* authorize reads before it - binding, pool, gate and health, good when the grant
\* was issued - may have changed; only the transactions that follow read it again.
Admit(d, r) ==
  /\ At(d, "new") /\ request[r] = "none"
  /\ grant.status = "issued" /\ ~over
  /\ grant.count < MaxRequests /\ grant.inFlight < MaxConcurrent
  /\ request' = [request EXCEPT ![r] = "processing"]
  /\ grant' = [status |-> IF grant.count + 1 = MaxRequests THEN "exhausted" ELSE "issued",
               active |-> grant.active, failover |-> grant.failover,
               count |-> grant.count + 1, inFlight |-> grant.inFlight + 1]
  /\ Opening(d, r, grant.active, FALSE)
  /\ UNCHANGED <<effect, over, authorized, ill, trouble>>

\* A request that certainly was not dispatched is taken up by another exchange;
\* the time it compares is that of authorize.
Resume(d, r) ==
  /\ At(d, "new") /\ request[r] = "not_started"
  /\ Latest(r).state = "failed_no_effect"
  /\ grant.status \in {"issued", "exhausted"} /\ grant.inFlight < MaxConcurrent
  /\ request' = [request EXCEPT ![r] = "processing"]
  /\ grant' = WithGrant(grant.status, grant.inFlight + 1)
  /\ Opening(d, r, grant.active, FALSE)
  /\ UNCHANGED <<effect, over, authorized, ill, trouble>>

\* The failover of the driver's request; its n-th effect, if any, is closed as
\* classified.  The driver goes on with the backup, or a denial stops it.
Switch(d, n) ==
  LET r == driver[d].request
  IN \/ /\ Switchable(r, n)
        /\ effect' = IF n = 0 THEN effect ELSE WithEffect(r, n, "failed_classified")
        /\ grant' = [status |-> grant.status, active |-> "backup", failover |-> r,
                     count |-> grant.count, inFlight |-> grant.inFlight]
        /\ ill' = ill \cup {grant.active}
        /\ Opening(d, r, "backup", TRUE)
     \/ /\ ~Switchable(r, n)
        /\ ill' = IF Blamed(r, n) THEN ill \cup {grant.active} ELSE ill
        /\ Goto(d, IF n = 0 THEN "refused" ELSE "lost")
        /\ UNCHANGED <<effect, grant>>

\* ensureFreshSession fails for a reason that counts against the account.
SessionFails(d) ==
  /\ At(d, "opening") /\ ~driver[d].switched
  /\ Switch(d, 0)
  /\ UNCHANGED <<request, over, authorized, trouble>>

Prepare(d) ==
  LET r == driver[d].request  a == driver[d].account
  IN /\ At(d, "opening") /\ request[r] = "processing"
     /\ effect[r] # <<>> => Latest(r).state \notin Live
     /\ Authority(a) /\ Sendable(r, a)
     /\ effect' = [effect EXCEPT ![r] = Append(effect[r], Reserved(a))]
     /\ driver' = [driver EXCEPT ![d] =
          [step |-> "prepared", request |-> r, account |-> a,
           ordinal |-> Len(effect[r]) + 1, switched |-> driver[d].switched]]
     /\ UNCHANGED <<grant, request, over, authorized, ill, trouble>>

\* Anything that fails before there is an effect closes the request, if it is
\* open; this completion names no effect.
Refuse(d) ==
  LET r == driver[d].request
  IN /\ At(d, "opening") \/ At(d, "refused")
     /\ IF IsOpen(r) THEN Close(r, "failed") ELSE UNCHANGED <<request, grant>>
     /\ Done(d)
     /\ UNCHANGED <<effect, over, authorized, ill, trouble>>

MarkDispatching(d) ==
  /\ At(d, "prepared") /\ Mine(d).state = "prepared" /\ Mine(d).live
  /\ Authority(Mine(d).account)
  /\ effect' = WithEffect(driver[d].request, driver[d].ordinal, "dispatching")
  /\ Goto(d, "dispatching")
  /\ UNCHANGED <<grant, request, over, authorized, ill, trouble>>

\* The dispatch is not allowed, or fails to be recorded.
FailBeforeDispatch(d) ==
  LET r == driver[d].request
  IN /\ At(d, "prepared")
     /\ IF Mine(d).state = "prepared" /\ IsOpen(r)
        THEN effect' = WithEffect(r, driver[d].ordinal, "failed_no_effect") /\ Close(r, "failed")
        ELSE UNCHANGED <<effect, request, grant>>
     /\ Done(d)
     /\ UNCHANGED <<over, authorized, ill, trouble>>

\* The request may reach the provider, and the answer the driver.
Send(d) ==
  LET r == driver[d].request  n == driver[d].ordinal
  IN /\ At(d, "dispatching")
     /\ \/ \E reply \in Reply :
             /\ effect' = SetEffect(r, n, Replied(effect[r][n], reply))
             /\ Goto(d, "answered") \/ Goto(d, "lost")
        \/ Goto(d, "lost") /\ UNCHANGED effect
     /\ UNCHANGED <<grant, request, over, authorized, ill, trouble>>

\* Mutant: what the provider refused is taken for a response, too.
AnswerOfAnyStatus(d) == TRUE
Answer(d) == Mine(d).reply = "inferred"
\* Mutant: the backup is asked after every error.
ClassifiedAnyError(reply) == TRUE
\* 401 and 429 say that nothing was inferred.
Classified(reply) == reply = "refused"

\* markStarted, with a response that has begun well.
ResponseStarted(d) ==
  LET r == driver[d].request
  IN /\ At(d, "answered") /\ Answer(d)
     /\ Mine(d).state = "dispatching" /\ Mine(d).live /\ request[r] = "processing"
     /\ effect' = WithEffect(r, driver[d].ordinal, "response_started")
     /\ request' = [request EXCEPT ![r] = "response_started"]
     /\ Goto(d, "streaming")
     /\ UNCHANGED <<grant, over, authorized, ill, trouble>>

\* markResponseStarted, with any other: what is classified leads to the
\* backup once.
FailureStarted(d) ==
  LET r == driver[d].request
  IN /\ At(d, "answered") /\ ~Answer(d)
     /\ Mine(d).state = "dispatching" /\ Mine(d).live /\ Authority(Mine(d).account)
     /\ effect' = WithEffect(r, driver[d].ordinal, "response_started")
     /\ Goto(d, IF Classified(Mine(d).reply) /\ ~driver[d].switched THEN "switching" ELSE "lost")
     /\ UNCHANGED <<grant, request, over, authorized, ill, trouble>>

SwitchAfterResponse(d) ==
  /\ At(d, "switching") /\ Mine(d).state = "response_started"
  /\ Switch(d, driver[d].ordinal)
  /\ UNCHANGED <<request, over, authorized, trouble>>

\* The stream came to its end.
Finish(d) ==
  LET r == driver[d].request
  IN /\ At(d, "streaming") /\ Mine(d).state = "response_started" /\ IsOpen(r)
     /\ effect' = WithEffect(r, driver[d].ordinal, "succeeded")
     /\ Close(r, "succeeded")
     /\ Done(d)
     /\ UNCHANGED <<over, authorized, ill, trouble>>

\* terminalizeUnknown, for anything that fails after the dispatch.  It expects
\* the grant to be withdrawn by the closing of the request.
Unknown(d) ==
  LET r == driver[d].request
  IN /\ driver[d].step \in {"answered", "lost", "switching", "streaming"}
     /\ IF Mine(d).state \in Dispatched /\ IsOpen(r) /\ grant.status # "expired"
        THEN effect' = WithEffect(r, driver[d].ordinal, "terminal_unknown") /\ Close(r, "terminal_unknown")
        ELSE UNCHANGED <<effect, request, grant>>
     /\ Done(d)
     /\ UNCHANGED <<over, authorized, ill, trouble>>

\* The process dies, or the exchange ends without touching the request: for a
\* reservation that is deferred, a denied historical scope or an answer of the
\* database that got lost.
Crash(d) ==
  /\ driver[d].step \notin {"new", "done"}
  /\ Done(d) /\ Trouble
  /\ UNCHANGED <<grant, request, effect, over, authorized, ill>>

-----------------------------------------------------------------------------
(* The sweeper of the API, one transaction per attempt, and the clock. *)

\* No heartbeat came in time: the driver is gone, slow, or has lost its authority.
LeaseExpires(r, n) ==
  /\ effect[r][n].state \in Live /\ effect[r][n].live /\ Trouble
  /\ effect' = SetEffect(r, n, Expired(effect[r][n]))
  /\ UNCHANGED <<grant, request, driver, over, authorized, ill>>

\* Mutant: an attempt that may have been sent is taken for one that was not.
SweptAsNoEffect == {"prepared", "dispatching"}
CertainlyUnsent == {"prepared"}

\* Not dispatched: the request may be made again.  If it is closed already the
\* transaction fails.
SweepPrepared(r, n) ==
  /\ effect[r][n].state \in CertainlyUnsent /\ ~effect[r][n].live
  /\ request[r] = "processing"
  /\ effect' = WithEffect(r, n, "failed_no_effect")
  /\ Close(r, "not_started")
  /\ UNCHANGED <<driver, over, authorized, ill, trouble>>

SweepDispatched(r, n) ==
  /\ effect[r][n].state \in Live \ CertainlyUnsent /\ ~effect[r][n].live
  /\ effect' = WithEffect(r, n, "terminal_unknown")
  /\ IF IsOpen(r) THEN Close(r, "terminal_unknown") ELSE UNCHANGED <<request, grant>>
  /\ UNCHANGED <<driver, over, authorized, ill, trouble>>

\* A request whose last attempt has ended without it, as a failover that was
\* never completed or a retry that was never prepared leave it.
SweepOrphan(r) ==
  LET closes == [failed_no_effect |-> "not_started", failed_classified |-> "failed",
                 terminal_unknown |-> "terminal_unknown"]
  IN /\ IsOpen(r) /\ effect[r] # <<>> /\ Latest(r).state \in DOMAIN closes
     /\ Close(r, closes[Latest(r).state])
     /\ UNCHANGED <<effect, driver, over, authorized, ill, trouble>>

TimeOver ==
  /\ ~over /\ over' = TRUE /\ Trouble
  /\ UNCHANGED <<grant, request, effect, driver, authorized, ill>>

\* expireIssuedBatch
Expire ==
  /\ grant.status = "issued" /\ over
  /\ grant' = WithGrant("expired", grant.inFlight)
  /\ UNCHANGED <<request, effect, driver, over, authorized, ill, trouble>>

\* The binding is changed, the pool drained or the runtime gate closed.
Withdraw ==
  /\ authorized /\ Trouble
  /\ authorized' = FALSE
  /\ UNCHANGED <<grant, request, effect, driver, over, ill>>

\* Accounts are shared: other grants and operators change their health, and
\* cooldowns end.
Health ==
  \E a \in Account :
    /\ Trouble
    /\ ill' = IF a \in ill THEN ill \ {a} ELSE ill \cup {a}
    /\ UNCHANGED <<grant, request, effect, driver, over, authorized>>

Next ==
  \/ \E d \in Driver :
       \/ \E r \in Request : Admit(d, r) \/ Resume(d, r)
       \/ SessionFails(d) \/ Prepare(d) \/ Refuse(d)
       \/ MarkDispatching(d) \/ FailBeforeDispatch(d) \/ Send(d)
       \/ ResponseStarted(d) \/ FailureStarted(d) \/ SwitchAfterResponse(d)
       \/ Finish(d) \/ Unknown(d) \/ Crash(d)
  \/ \E r \in Request :
       \/ SweepOrphan(r)
       \/ \E n \in DOMAIN effect[r] :
            LeaseExpires(r, n) \/ SweepPrepared(r, n) \/ SweepDispatched(r, n)
  \/ TimeOver \/ Expire \/ Withdraw \/ Health

Spec == Init /\ [][Next]_vars

-----------------------------------------------------------------------------
Step ==
  {"new", "opening", "refused", "prepared", "dispatching", "answered", "lost",
   "switching", "streaming", "done"}

TypeOK ==
  /\ grant \in [status : {"issued", "exhausted", "revoked", "expired"}, active : Account,
       failover : Request \cup {"none"}, count : Nat, inFlight : Nat]
  /\ request \in [Request -> Open \cup
       {"none", "succeeded", "failed", "not_started", "terminal_unknown"}]
  /\ effect \in [Request -> Seq([account : Account, live : BOOLEAN, reply : Reply \cup {"none"},
       state : Live \cup {"succeeded", "failed_no_effect", "failed_classified", "terminal_unknown"}])]
  /\ driver \in [Driver -> [step : Step, request : Request \cup {"none"}, account : Account,
       ordinal : Nat, switched : BOOLEAN]]
  /\ over \in BOOLEAN /\ authorized \in BOOLEAN /\ ill \subseteq Account
  /\ trouble \in 0 .. MaxTrouble

\* The counter that admission trusts is the number of requests in flight, which
\* stays within the budget, whoever closes a request, and how often it is made.
BudgetHeld ==
  /\ grant.inFlight = Cardinality({r \in Request : IsOpen(r)})
  /\ grant.inFlight <= MaxConcurrent
  /\ grant.count = Cardinality({r \in Request : request[r] # "none"})
  /\ grant.count <= MaxRequests

\* What is called an attempt without effect never reached the provider, also when
\* its driver was slow and the sweeper came first: making it again is safe.
NoEffectIsTrue ==
  \A r \in Request : \A n \in DOMAIN effect[r] :
    effect[r][n].state \in {"prepared", "failed_no_effect"} => effect[r][n].reply = "none"

\* The provider gets a request a second time only after it refused it, and then
\* for the other account.
SentAgainOnlyIfRefused ==
  \A r \in Request : \A m, n \in DOMAIN effect[r] :
    m < n /\ effect[r][m].reply # "none" /\ effect[r][n].reply # "none" =>
      /\ effect[r][m].reply = "refused"
      /\ effect[r][m].account = "primary" /\ effect[r][n].account = "backup"

\* A request succeeds with its last attempt, which the provider answered, and an
\* attempt succeeds with its request.
SuccessIsReal ==
  \A r \in Request :
    /\ request[r] = "succeeded" =>
         effect[r] # <<>> /\ Latest(r).state = "succeeded"
    /\ \A n \in DOMAIN effect[r] : effect[r][n].state = "succeeded" =>
         effect[r][n].reply = "inferred" /\ request[r] = "succeeded"

\* Once a request is recorded as unknown nothing more is dispatched under the
\* grant, be it of another request that was admitted long before.
NothingAfterUnknown ==
  [][(\E r \in Request : request[r] = "terminal_unknown") =>
       \A r \in Request : \A n \in DOMAIN effect'[r] :
         effect'[r][n].state = "dispatching" =>
           n \in DOMAIN effect[r] /\ effect[r][n].state = "dispatching"]_vars
=============================================================================
