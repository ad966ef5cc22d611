----------------------- MODULE PublicationAttempt_proofs -----------------------
(***************************************************************************)
(* Proofs, for every set of workers, every set of operations with any      *)
(* dependencies, and any number of claim terms and mutations, that a       *)
(* publication tells the truth about the pull request: tries follow the    *)
(* claim, an operation closed without effect has none and never gets one,  *)
(* a successful publication is there to be seen as long as its canonical   *)
(* report is the one recorded first, and every step of workers, GitHub and *)
(* clocks is a step of the promised lifecycle.                             *)
(***************************************************************************)
EXTENDS PublicationAttempt, FiniteSetTheorems, SequenceTheorems, WellFoundedInduction, TLAPS

WorkerRow ==
  [step : Steps, op : {0} \cup Op, version : Nat, risky : BOOLEAN,
   claim : {NoClaim} \cup Claim, cap : {NoClaim} \cup Claim, object : {0} \cup Object,
   seen : SUBSET Object, outcome : {"none"} \cup Outcomes]
AttemptRow ==
  [state : {"absent", "pending", "publishing", "terminal"}, version : Nat,
   claim : {NoClaim} \cup Claim, outcome : {"none"} \cup Outcomes]
ClaimRow ==
  [owner : Worker \cup {"none"}, live : BOOLEAN,
   state : {"free", "active", "expired", "released"}]
ReportRow == [cap : Claim, object : Object, late : BOOLEAN]
OpStates == Active \cup NoEffect \cup Stale \cup {"completed", "terminal_unknown"}

-----------------------------------------------------------------------------
(* The inductive invariant. *)

\* No try of the operation can have had an effect.
Harmless(o) == \A c \in Claim : try[o][c] \in {"none", "no_effect_proven"}
Untried(o) == \A c \in Claim : try[o][c] = "none"
Unsent(o) == \A n \in 1 .. Len(request[o]) : request[o][n] = Void

ClaimsFit ==
  /\ attempt.claim # NoClaim <=> attempt.state = "publishing"
  /\ attempt.outcome # "none" <=> attempt.state = "terminal"
  /\ \A c \in Claim : claim[c].state = "active" <=> attempt.claim = c
  /\ attempt.state = "absent" \/ attempt.outcome \in NoEffect => \A o \in Op : Harmless(o)
  /\ attempt.outcome = "succeeded" => \A r \in Required : receipt[r] # 0

TriesFine(o) ==
  /\ \A c \in Claim : claim[c].state = "free" => try[o][c] = "none"
  /\ \A c \in Claim : try[o][c] = "active" =>
       /\ op[o] = "in_flight"
       /\ attempt.claim = c \/ (attempt.outcome = "succeeded" /\ o \notin Required)
  /\ receipt[o] # 0 => op[o] \notin Active
  /\ op[o] = "planned" => Untried(o)
  /\ op[o] = "in_flight" => \E c \in Claim : try[o][c] \in {"active", "no_effect_proven"}
  /\ op[o] \in NoEffect => Harmless(o)
  /\ attempt.state # "terminal" => op[o] \in Active \cup {"completed"}

\* The canonical report of the operation is the one that was recorded first.
InOrder(o) == effects[o] # <<>> /\ ~effects[o][1].late

\* Nothing may be taken back: the facts have not changed, the publication has
\* succeeded, or whoever holds its claim read the facts for the last time before.
Finishing == \E w \in Worker : worker[w].step = "finishing" /\ worker[w].claim = attempt.claim
Sealed == fresh \/ attempt.outcome = "succeeded" \/ Finishing

\* Until something may be taken back, what is canonical can be seen.
EffectsFine(o) ==
  /\ Harmless(o) => Unsent(o)
  /\ visible[o] \subseteq Born(o)
  /\ receipt[o] # 0 => effects[o] # <<>> /\ (InOrder(o) => receipt[o] = Canonical(o))
  /\ Sealed => /\ effects[o] = <<>> => visible[o] = Born(o)
               /\ InOrder(o) => Canonical(o) \in visible[o]

Handling ==
  {"settling", "cleaning", "deleting", "completing", "finishing", "compensating", "retracting"}
Mutating == {"mutating", "sending", "waiting", "proving"}

\* What a pass may rely on, whoever holds the claim by now.
PassFine(w) ==
  LET o == worker[w].op  c == worker[w].claim  cap == worker[w].cap  step == worker[w].step
  IN /\ step # "idle" => o \in Op /\ attempt.state # "absent"
     /\ c # NoClaim => claim[c].state # "free" /\ claim[c].owner = w
     /\ step \notin {"idle", "claiming", "unclaimed"} => c # NoClaim
     /\ step \in {"claiming", "unclaimed"} =>
          /\ worker[w].version <= attempt.version
          /\ worker[w].version = attempt.version => attempt.state \in {"pending", "publishing"}
     /\ step = "reconciling" =>
          /\ cap # NoClaim /\ worker[w].risky
          /\ try[o][cap] \notin {"none", "no_effect_proven"}
          /\ cap = c \/ claim[cap].state \in {"expired", "released"}
     /\ step \in Mutating =>
          /\ cap # NoClaim /\ cap = c
          /\ try[o][cap] \notin {"none", "no_effect_proven"}
     /\ step = "proving" => ~worker[w].risky
     /\ step = "waiting" => worker[w].object \in 1 .. Len(request[o])
     /\ step \in Handling =>
          cap # NoClaim /\ worker[w].seen # {} /\ worker[w].seen \subseteq Born(o)
     /\ step \in {"cleaning", "deleting", "completing", "finishing"} => effects[o] # <<>>
     /\ step \in {"cleaning", "deleting"} /\ InOrder(o) =>
          (Canonical(o) \in worker[w].seen => worker[w].object = Canonical(o))
     /\ step = "retracting" => ~Sealed
     /\ step = "closing" =>
          /\ worker[w].outcome \in NoEffect \cup Stale \cup {"terminal_unknown"}
          /\ worker[w].outcome \in Stale => Born(o) # {}

\* A pass that saw no risk is the only one that can have sent anything for the
\* operation, as long as its try is the active one.
RiskFine(w) ==
  LET o == worker[w].op  cap == worker[w].cap  step == worker[w].step
  IN ~worker[w].risky =>
     /\ step = "claiming" /\ worker[w].version = attempt.version => Harmless(o)
     /\ step = "claimed" /\ attempt.claim = worker[w].claim => Harmless(o)
     /\ step = "beginning" /\ attempt.claim = worker[w].claim => Untried(o)
     /\ step \in Mutating /\ try[o][cap] = "active" =>
          /\ \A d \in Claim \ {cap} : try[o][d] = "none"
          /\ \A n \in 1 .. Len(request[o]) :
               request[o][n] = Void \/ (step = "waiting" /\ n = worker[w].object)

Inv ==
  /\ TypeOK
  /\ ClaimsFit
  /\ \A o \in Op : TriesFine(o) /\ EffectsFine(o)
  /\ \A w \in Worker : PassFine(w) /\ RiskFine(w)

-----------------------------------------------------------------------------
(* What the operators of the model yield. *)

\* Every set of operations, objects, reports or claims has a first element.
LEMMA OldestFirst ==
  ASSUME NEW S \in SUBSET Nat, S # {}
  PROVE  Oldest(S) \in S /\ \A d \in S : Oldest(S) <= d
<1>1. PICK b \in S : \A d \in S : <<d, b>> \notin OpToRel(<, Nat)
  BY WFMin, NatLessThanWellFounded, Zenon
<1>2. \A d \in S : ~(d < b)
  BY <1>1, Zenon DEF OpToRel
<1>3. \E x \in S : \A d \in S : x <= d
  BY <1>2
<1> QED
  BY <1>3 DEF Oldest

LEMMA FirstReport ==
  ASSUME NEW S, NEW s \in Seq(S), s # <<>>
  PROVE  s[1] \in S /\ 1 \in 1 .. Len(s)
<1>1. Len(s) \in Nat /\ Len(s) # 0
  OBVIOUS
<1> QED
  BY <1>1

LEMMA LatestTried ==
  ASSUME NEW o \in Op, Tried(o) # {}
  PROVE  Latest(o) \in Claim /\ try[o][Latest(o)] # "none"
<1> DEFINE S == {MaxClaim - c : c \in Tried(o)}
<1>1. MaxClaim \in Nat /\ Tried(o) \subseteq Claim /\ Claim \subseteq Nat
  BY BoundAssumption DEF Claim, Tried
<1>2. S \in SUBSET Nat /\ S # {}
  BY <1>1 DEF Claim
<1>3. PICK b \in S : \A d \in S : b <= d
  BY <1>2, OldestFirst
<1>4. PICK c \in Tried(o) : b = MaxClaim - c
  BY <1>3
<1>5. \A d \in Tried(o) : d <= c
  <2> TAKE d \in Tried(o)
  <2>1. MaxClaim - c <= MaxClaim - d
    BY <1>3, <1>4
  <2>2. c \in Nat /\ d \in Nat
    BY <1>1
  <2> QED
    BY <1>1, <2>1, <2>2
<1>6. Latest(o) \in Tried(o)
  BY <1>5 DEF Latest
<1> QED
  BY <1>6 DEF Tried

LEMMA HarmlessUnlessAtRisk ==
  ASSUME NEW o \in Op, o \notin AtRisk
  PROVE  Harmless(o) /\ effects[o] = <<>> /\ receipt[o] = 0
  BY DEF AtRisk, Harmless, Tried, Proven

LEMMA BornFinite ==
  ASSUME NEW o \in Op, request[o] \in Seq({Flying, Void} \cup Object)
  PROVE  Born(o) \subseteq Object /\ Cardinality(Born(o)) + 1 \in Object
<1> DEFINE N == 1 .. Len(request[o])
           All == {request[o][n] : n \in N}
<1>1. Len(request[o]) \in Nat /\ request[o] \in [N -> {Flying, Void} \cup Object]
  OBVIOUS
<1>2. IsFiniteSet(N)
  BY <1>1, FS_Interval
<1>3. request[o] \in Surjection(N, All)
  BY <1>1 DEF Surjection
<1>4. IsFiniteSet(All)
  BY <1>2, <1>3, FS_Surjection
<1>5. IsFiniteSet(Born(o))
  BY <1>4, FS_Subset DEF Born
<1>6. Cardinality(Born(o)) \in Nat
  BY <1>5, FS_CardinalityType
<1>7. Born(o) \subseteq Object
  BY <1>1 DEF Born
<1> QED
  BY <1>6, <1>7 DEF Object

-----------------------------------------------------------------------------
(* What a step does to the pass of a worker. *)

\* Only worker w does anything: it keeps within its row, and reads the facts before
\* it finishes.
Others(w) ==
  /\ worker' \in [Worker -> WorkerRow]
  /\ worker'[w].step = "finishing" => fresh
  /\ \A v \in Worker \ {w} : worker'[v] = worker[v]

LEMMA Gone ==
  ASSUME TypeOK, NEW w \in Worker, NEW r \in WorkerRow, r.step = "finishing" => fresh, Go(w, r)
  PROVE  Others(w) /\ worker'[w] = r
  BY DEF TypeOK, WorkerRow, Go, Others

LEMMA IdleRow == Idle \in WorkerRow /\ Idle.step = "idle" /\ Idle.claim = NoClaim
  BY DEF Idle, WorkerRow, Steps, Object

LEMMA Ended ==
  ASSUME TypeOK, NEW w \in Worker, End(w)
  PROVE  Others(w) /\ worker'[w].step = "idle" /\ worker'[w].claim = NoClaim
  BY Gone, IdleRow DEF End

LEMMA Stepped ==
  ASSUME TypeOK, NEW w \in Worker, NEW s \in Steps, s = "finishing" => fresh, Step(w, s)
  PROVE  /\ Others(w)
         /\ worker'[w].step = s
         /\ worker'[w].op = worker[w].op /\ worker'[w].claim = worker[w].claim
         /\ worker'[w].cap = worker[w].cap /\ worker'[w].risky = worker[w].risky
         /\ worker'[w].version = worker[w].version /\ worker'[w].object = worker[w].object
         /\ worker'[w].seen = worker[w].seen /\ worker'[w].outcome = worker[w].outcome
<1> DEFINE r == [worker[w] EXCEPT !.step = s]
<1>1. worker[w] \in WorkerRow
  BY DEF TypeOK, WorkerRow
<1>2. /\ r \in WorkerRow
      /\ r.step = s /\ r.op = worker[w].op /\ r.claim = worker[w].claim /\ r.cap = worker[w].cap
      /\ r.risky = worker[w].risky /\ r.version = worker[w].version
      /\ r.object = worker[w].object /\ r.seen = worker[w].seen /\ r.outcome = worker[w].outcome
  BY <1>1 DEF WorkerRow
<1>3. Go(w, r)
  BY DEF Step
<1> QED
  BY <1>2, <1>3, Gone

LEMMA ToClosing ==
  ASSUME TypeOK, NEW w \in Worker, NEW outcome \in Outcomes, Closing(w, outcome)
  PROVE  /\ Others(w)
         /\ worker'[w].step = "closing" /\ worker'[w].outcome = outcome
         /\ worker'[w].op = worker[w].op /\ worker'[w].claim = worker[w].claim
<1> DEFINE r == [Idle EXCEPT !.step = "closing", !.op = worker[w].op,
                             !.claim = worker[w].claim, !.outcome = outcome]
<1>1. worker[w].op \in {0} \cup Op /\ worker[w].claim \in {NoClaim} \cup Claim
  BY DEF TypeOK
<1>2. /\ r \in WorkerRow
      /\ r.step = "closing" /\ r.op = worker[w].op /\ r.claim = worker[w].claim
      /\ r.outcome = outcome
  BY <1>1 DEF WorkerRow, Idle, Steps, Object
<1>3. Go(w, r)
  BY DEF Closing
<1> QED
  BY <1>2, <1>3, Gone

LEMMA ToFound ==
  ASSUME TypeOK, NEW w \in Worker, NEW s \in Steps \ {"finishing"}, NEW b \in {0} \cup Object,
         NEW seen \in SUBSET Object, Found(w, s, b, seen)
  PROVE  /\ Others(w)
         /\ worker'[w].step = s /\ worker'[w].object = b /\ worker'[w].seen = seen
         /\ worker'[w].op = worker[w].op /\ worker'[w].claim = worker[w].claim
         /\ worker'[w].cap = worker[w].cap
<1> DEFINE i == [Idle EXCEPT !.step = s, !.op = worker[w].op, !.claim = worker[w].claim]
           r == [i EXCEPT !.cap = worker[w].cap, !.object = b, !.seen = seen]
<1>1. /\ worker[w].op \in {0} \cup Op /\ worker[w].claim \in {NoClaim} \cup Claim
      /\ worker[w].cap \in {NoClaim} \cup Claim
  BY DEF TypeOK
<1>2. /\ i \in WorkerRow
      /\ i.step = s /\ i.op = worker[w].op /\ i.claim = worker[w].claim
  BY <1>1 DEF WorkerRow, Idle, Object
<1>3. Go(w, r)
  BY DEF Found
<1> HIDE DEF i
<1>4. /\ r \in WorkerRow
      /\ r.step = s /\ r.object = b /\ r.seen = seen
      /\ r.op = worker[w].op /\ r.claim = worker[w].claim /\ r.cap = worker[w].cap
  BY <1>1, <1>2 DEF WorkerRow
<1> QED
  BY <1>3, <1>4, Gone

\* A worker that is idle, or about to close with an outcome that the rows bear
\* out, relies on nothing else.
LEMMA IdleFine ==
  ASSUME NEW w \in Worker, worker'[w].step = "idle", worker'[w].claim = NoClaim
  PROVE  PassFine(w)' /\ RiskFine(w)'
  BY DEF PassFine, RiskFine, Mutating, Handling

-----------------------------------------------------------------------------
(* What no step ever takes back, and what the passes of the others rely on. *)

\* What was reported stays reported, and first what was recorded first, unless a
\* late report comes before it.
ReportsStay(o) ==
  effects[o] # <<>> =>
    effects'[o] # <<>> /\ (InOrder(o)' => InOrder(o) /\ Canonical(o)' = Canonical(o))

Moves ==
  /\ attempt'.version \in Nat /\ attempt'.version >= attempt.version
  /\ attempt'.version = attempt.version => attempt' = attempt
  /\ attempt.state # "absent" => attempt'.state # "absent"
  /\ attempt'.outcome = "succeeded" => attempt.outcome = "succeeded" \/ Finishing
  /\ fresh' => fresh
  /\ \A c \in Claim : claim[c].state # "free" =>
       /\ claim'[c].state # "free" /\ claim'[c].owner = claim[c].owner
       /\ attempt'.claim = c => attempt.claim = c
       /\ claim[c].state \in {"expired", "released"} => claim'[c].state \in {"expired", "released"}
  /\ \A o \in Op :
       /\ Born(o) \subseteq Born(o)' /\ Len(request[o]) <= Len(request'[o])
       /\ ReportsStay(o)

\* The tries of the operation stay what they are, or pass on to an end that is
\* no proof of anything.
TriesPass(o) ==
  \A c \in Claim :
    \/ try'[o][c] = try[o][c]
    \/ /\ try[o][c] \notin {"none", "no_effect_proven"}
       /\ try'[o][c] \notin {"none", "no_effect_proven", "active"}

\* Nothing is sent for the operation, and nothing comes of what has ended.
NothingSent(o) ==
  /\ Len(request'[o]) = Len(request[o])
  /\ \A n \in 1 .. Len(request[o]) : request'[o][n] = request[o][n] \/ request[o][n] # Void

\* Whoever finishes has read the facts before, and under a claim that is not given
\* to anybody again.
FinishFresh ==
  \A v \in Worker : worker'[v] = worker[v] \/ (worker'[v].step = "finishing" => fresh)

LEMMA OthersFinish ==
  ASSUME NEW w \in Worker, Others(w)
  PROVE  FinishFresh
  BY DEF Others, FinishFresh

\* What may be taken back may be taken back from then on.
LEMMA SealedStays ==
  ASSUME Inv, Moves, FinishFresh
  PROVE  Sealed' => Sealed
<1>1. fresh' => Sealed
  BY DEF Moves, Sealed
<1>2. attempt'.outcome = "succeeded" => Sealed
  BY DEF Moves, Sealed
<1>3. ASSUME NEW v \in Worker, worker'[v].step = "finishing", worker'[v].claim = attempt'.claim
      PROVE  Sealed
  <2>1. CASE worker'[v] = worker[v]
    <3>1. worker[v].claim \in Claim /\ claim[worker[v].claim].state # "free"
      BY <1>3, <2>1 DEF Inv, TypeOK, PassFine
    <3>2. attempt.claim = worker[v].claim
      BY <1>3, <2>1, <3>1 DEF Moves
    <3> QED
      BY <1>3, <2>1, <3>2 DEF Sealed, Finishing
  <2>2. CASE fresh
    BY <2>2 DEF Sealed
  <2> QED
    BY <1>3, <2>1, <2>2 DEF FinishFresh
<1> QED
  BY <1>1, <1>2, <1>3 DEF Sealed, Finishing

\* Once the facts have changed, nothing is sealed as long as the attempt is held
\* under the claim of a pass that does not finish.
LEMMA HeldUnsealed ==
  ASSUME Inv, NEW w \in Worker, Holds(worker[w].claim), worker[w].step # "finishing", ~fresh
  PROVE  ~Sealed
<1> DEFINE c == worker[w].claim
<1>1. c # NoClaim /\ attempt.claim = c /\ c \in Claim
  BY DEF Inv, TypeOK, Holds
<1>2. attempt.outcome # "succeeded"
  BY <1>1 DEF Inv, ClaimsFit
<1>3. \A v \in Worker : worker[v].claim = c => claim[c].owner = v
  BY <1>1 DEF Inv, PassFine
<1> QED
  BY <1>1, <1>2, <1>3 DEF Sealed, Finishing

\* What a pass relies on is never taken back by the step of another.
LEMMA PassStays ==
  ASSUME TypeOK, Moves, Sealed' => Sealed,
         NEW v \in Worker, PassFine(v), worker'[v] = worker[v],
         worker[v].step \in Mutating \cup {"reconciling"} =>
           try'[worker[v].op][worker[v].cap] \notin {"none", "no_effect_proven"}
  PROVE  PassFine(v)'
<1> DEFINE r == worker[v]
<1>1. r \in WorkerRow /\ r.op \in {0} \cup Op /\ r.claim \in {0} \cup Claim
      /\ r.cap \in {0} \cup Claim /\ r.version \in Nat /\ r.object \in {0} \cup Object
      /\ attempt.version \in Nat
  BY DEF TypeOK, WorkerRow, NoClaim
<1>2. r.step # "idle" => r.op \in Op /\ attempt'.state # "absent"
  BY DEF Moves, PassFine
<1>3. r.claim # NoClaim => claim'[r.claim].state # "free" /\ claim'[r.claim].owner = v
  BY <1>1 DEF Moves, PassFine, NoClaim
<1>4. r.step \in {"claiming", "unclaimed"} =>
        /\ r.version <= attempt'.version
        /\ r.version = attempt'.version => attempt'.state \in {"pending", "publishing"}
  BY <1>1 DEF Moves, PassFine
<1> QED
  BY <1>1, <1>2, <1>3, <1>4 DEF Moves, ReportsStay, PassFine, Mutating, Handling, NoClaim

\* Nor does such a step touch what a pass that saw no risk knows, if the tries only
\* pass on and nothing is sent.
LEMMA RiskStays ==
  ASSUME TypeOK, Moves, NEW v \in Worker, PassFine(v), RiskFine(v), worker'[v] = worker[v],
         worker[v].step # "idle" => TriesPass(worker[v].op) /\ NothingSent(worker[v].op)
  PROVE  RiskFine(v)'
<1> DEFINE r == worker[v]  o == worker[v].op
<1> SUFFICES ASSUME r.step # "idle", ~r.risky
             PROVE  RiskFine(v)'
  BY DEF RiskFine, Mutating
<1>1. r.op \in Op /\ r.claim \in {0} \cup Claim /\ r.cap \in {0} \cup Claim
      /\ r.version \in Nat /\ attempt.version \in Nat
  BY DEF TypeOK, PassFine, NoClaim
<1>2. Harmless(o) => Harmless(o)'
  BY DEF Harmless, TriesPass
<1>3. Untried(o) => Untried(o)'
  BY DEF Untried, TriesPass
<1>4. r.step = "claiming" /\ r.version = attempt'.version => Harmless(o)'
  <2> HAVE r.step = "claiming" /\ r.version = attempt'.version
  <2>1. r.version = attempt.version
    BY <1>1 DEF PassFine, Moves
  <2> QED
    BY <1>2, <2>1 DEF RiskFine
<1>5. r.step \in {"claimed", "beginning"} /\ attempt'.claim = r.claim => attempt.claim = r.claim
  BY <1>1 DEF PassFine, Moves, NoClaim
<1>6. r.step \in Mutating /\ try'[o][r.cap] = "active" =>
        /\ \A d \in Claim \ {r.cap} : try'[o][d] = "none"
        /\ \A n \in 1 .. Len(request'[o]) :
             request'[o][n] = Void \/ (r.step = "waiting" /\ n = r.object)
  <2> HAVE r.step \in Mutating /\ try'[o][r.cap] = "active"
  <2>1. r.cap \in Claim
    BY <1>1 DEF PassFine, NoClaim
  <2>2. try[o][r.cap] = "active"
    BY <2>1 DEF TriesPass
  <2>3. /\ \A d \in Claim \ {r.cap} : try[o][d] = "none"
        /\ \A n \in 1 .. Len(request[o]) :
             request[o][n] = Void \/ (r.step = "waiting" /\ n = r.object)
    BY <2>2 DEF RiskFine
  <2> QED
    BY <2>3 DEF TriesPass, NothingSent
<1> HIDE DEF r, o
<1> QED
  BY <1>2, <1>3, <1>4, <1>5, <1>6 DEF RiskFine, Harmless, Untried, r, o

\* The rows of the model in one place.
LEMMA Typed ==
  TypeOK <=>
    /\ attempt \in AttemptRow /\ op \in [Op -> OpStates] /\ claim \in [Claim -> ClaimRow]
    /\ try \in [Op -> [Claim -> TryState]]
    /\ effects \in [Op -> Seq(ReportRow)]
    /\ receipt \in [Op -> {0} \cup Object]
    /\ request \in [Op -> Seq({Flying, Void} \cup Object)]
    /\ visible \in [Op -> SUBSET Object]
    /\ fresh \in BOOLEAN /\ over \in BOOLEAN
    /\ worker \in [Worker -> WorkerRow]
  BY DEF TypeOK, AttemptRow, OpStates, ClaimRow, WorkerRow, ReportRow

LEMMA QuietMoves ==
  ASSUME TypeOK, UNCHANGED <<rows, outside, clock>>
  PROVE  Moves
  BY DEF rows, outside, clock, Moves, ReportsStay, Born, Canonical, InOrder, TypeOK

\* A step that changes nothing but the pass of its worker.
LEMMA QuietKeeps ==
  ASSUME Inv, NEW w \in Worker, UNCHANGED <<rows, outside, clock>>, Others(w),
         PassFine(w)', RiskFine(w)'
  PROVE  Inv'
<1>1. /\ attempt' = attempt /\ op' = op /\ claim' = claim /\ try' = try /\ effects' = effects
      /\ receipt' = receipt /\ request' = request /\ visible' = visible
      /\ fresh' = fresh /\ over' = over
  BY DEF rows, outside, clock
<1>2. TypeOK'
  BY <1>1, Typed DEF Inv, Others, TypeOK, WorkerRow
<1>3. Moves /\ (Sealed' => Sealed)
  BY QuietMoves, OthersFinish, SealedStays DEF Inv
<1>4. ClaimsFit' /\ \A o \in Op : TriesFine(o)' /\ EffectsFine(o)'
  BY <1>1, <1>3 DEF Inv, ClaimsFit, TriesFine, EffectsFine, Harmless, Untried, Unsent, Born,
                    Canonical, InOrder
<1>5. ASSUME NEW v \in Worker \ {w}
      PROVE  PassFine(v)' /\ RiskFine(v)'
  <2>1. worker'[v] = worker[v] /\ PassFine(v) /\ RiskFine(v) /\ TypeOK
    BY DEF Others, Inv
  <2>2. PassFine(v)'
    BY <1>1, <1>3, <2>1, PassStays DEF PassFine, Mutating
  <2>3. worker[v].op \in Op => NothingSent(worker[v].op) /\ TriesPass(worker[v].op)
    BY <1>1, <2>1 DEF NothingSent, TriesPass
  <2>4. worker[v].step # "idle" => worker[v].op \in Op
    BY <2>1 DEF PassFine
  <2> QED
    BY <1>3, <2>1, <2>2, <2>3, <2>4, RiskStays
<1> QED
  BY <1>2, <1>4, <1>5 DEF Inv

-----------------------------------------------------------------------------
(* Where a pass goes next, and what it may rely on there. *)

UnderWay(w) == worker[w].step \notin {"idle", "claiming", "unclaimed"}

LEMMA AboutToClose ==
  ASSUME NEW w \in Worker, NEW o \in Op, worker'[w].step = "closing", worker'[w].op = o,
         attempt'.state # "absent", worker'[w].claim # NoClaim,
         claim'[worker'[w].claim].state # "free", claim'[worker'[w].claim].owner = w,
         worker'[w].outcome \in NoEffect \cup Stale \cup {"terminal_unknown"},
         worker'[w].outcome \in Stale => Born(o)' # {}
  PROVE  PassFine(w)'
  BY DEF PassFine, Mutating, Handling, Born

\* A pass may go on to close with an outcome that claims an effect only after it
\* has seen one.
LEMMA ClosingFine ==
  ASSUME TypeOK, Moves, NEW w \in Worker, NEW o \in Op, worker[w].op = o, PassFine(w), UnderWay(w),
         NEW outcome \in NoEffect \cup Stale \cup {"terminal_unknown"}, Closing(w, outcome),
         outcome \in Stale => Born(o) # {}
  PROVE  Others(w) /\ PassFine(w)' /\ RiskFine(w)'
<1>1. outcome \in Outcomes
  BY DEF Outcomes
<1>2. /\ Others(w)
      /\ worker'[w].step = "closing" /\ worker'[w].outcome = outcome
      /\ worker'[w].op = o /\ worker'[w].claim = worker[w].claim
  BY <1>1, ToClosing
<1>3. worker[w].claim \in Claim /\ worker[w].claim # NoClaim /\ attempt'.state # "absent"
  BY DEF TypeOK, PassFine, UnderWay, Moves, NoClaim
<1>4. claim'[worker[w].claim].state # "free" /\ claim'[worker[w].claim].owner = w
  BY <1>3 DEF PassFine, Moves, UnderWay
<1>5. outcome \in Stale => Born(o)' # {}
  BY <1>3 DEF Moves
<1>6. PassFine(w)'
  BY <1>2, <1>3, <1>4, <1>5, AboutToClose
<1>7. RiskFine(w)'
  BY <1>2 DEF RiskFine, Mutating
<1> QED
  BY <1>2, <1>6, <1>7

LEMMA AmbiguousFine ==
  ASSUME TypeOK, Moves, NEW w \in Worker, PassFine(w), UnderWay(w), Ambiguous(w)
  PROVE  Others(w) /\ PassFine(w)' /\ RiskFine(w)'
<1>1. CASE End(w)
  BY <1>1, Ended, IdleFine
<1>2. CASE Closing(w, "terminal_unknown")
  <2>1. worker[w].op \in Op
    BY DEF PassFine, UnderWay
  <2> QED
    BY <1>2, <2>1, ClosingFine DEF Stale
<1> QED
  BY <1>1, <1>2 DEF Ambiguous

\* A pass that has found something handles what was created, the canonical object
\* kept apart.
LEMMA FoundFine ==
  ASSUME TypeOK, Moves, NEW w \in Worker, NEW o \in Op, worker[w].op = o, PassFine(w), UnderWay(w),
         worker[w].cap # NoClaim,
         NEW s \in Handling \ {"finishing", "retracting"}, NEW b \in {0} \cup Object,
         NEW seen \in SUBSET Object, seen # {}, seen \subseteq Born(o),
         s \in {"cleaning", "deleting", "completing"} => effects'[o] # <<>>,
         s \in {"cleaning", "deleting"} /\ InOrder(o)' =>
           (Canonical(o)' \in seen => b = Canonical(o)'),
         Found(w, s, b, seen)
  PROVE  Others(w) /\ PassFine(w)' /\ RiskFine(w)'
<1>1. s \in Steps \ {"finishing"}
  BY DEF Steps, Handling
<1>2. /\ Others(w)
      /\ worker'[w].step = s /\ worker'[w].object = b /\ worker'[w].seen = seen
      /\ worker'[w].op = o /\ worker'[w].claim = worker[w].claim
      /\ worker'[w].cap = worker[w].cap
  BY ONLY <1>1, TypeOK, w \in Worker, worker[w].op = o, b \in {0} \cup Object,
          seen \in SUBSET Object, Found(w, s, b, seen), ToFound
<1>3. worker[w].claim \in Claim /\ attempt'.state # "absent"
  BY DEF TypeOK, PassFine, UnderWay, Moves, NoClaim
<1>4. claim'[worker[w].claim].state # "free" /\ claim'[worker[w].claim].owner = w
  BY <1>3 DEF PassFine, Moves, UnderWay
<1>5. seen \subseteq Born(o)'
  BY <1>3 DEF Moves
<1>6. PassFine(w)'
  BY <1>2, <1>3, <1>4, <1>5 DEF PassFine, Mutating, Handling, Born, Canonical, InOrder, UnderWay
<1>7. RiskFine(w)'
  BY <1>2 DEF RiskFine, Mutating, Handling
<1> QED
  BY <1>2, <1>6, <1>7

LEMMA SettlingFine ==
  ASSUME Inv, Moves, NEW w \in Worker, NEW o \in Op, worker[w].op = o, UnderWay(w),
         worker[w].cap # NoClaim, visible[o] # {}, Settling(w)
  PROVE  Others(w) /\ PassFine(w)' /\ RiskFine(w)'
<1>1. TypeOK /\ PassFine(w)
  BY DEF Inv
<1>2. visible[o] \in SUBSET Object /\ visible[o] \subseteq Born(o)
  BY DEF Inv, TypeOK, EffectsFine
<1>3. "settling" \in Handling \ {"finishing", "retracting"} /\ 0 \in {0} \cup Object
  BY DEF Handling
<1>4. Found(w, "settling", 0, visible[o])
  BY DEF Settling
<1> QED
  BY <1>1, <1>2, <1>3, <1>4, FoundFine

\* A pass whose next step relies on no more than the one it comes from.
LEMMA SteppedFine ==
  ASSUME TypeOK, Moves, NEW w \in Worker, NEW o \in Op, worker[w].op = o, PassFine(w), UnderWay(w),
         NEW s \in Handling, worker[w].step \in Handling, Step(w, s),
         s \in {"cleaning", "deleting", "completing", "finishing"} => effects'[o] # <<>>,
         s \in {"cleaning", "deleting"} => worker[w].step \in {"cleaning", "deleting"},
         s = "finishing" => fresh,
         s = "retracting" => ~Sealed'
  PROVE  Others(w) /\ PassFine(w)' /\ RiskFine(w)'
<1>1. /\ Others(w)
      /\ worker'[w].step = s
      /\ worker'[w].op = o /\ worker'[w].claim = worker[w].claim
      /\ worker'[w].cap = worker[w].cap /\ worker'[w].seen = worker[w].seen
      /\ worker'[w].object = worker[w].object
  BY Stepped DEF Handling, Steps
<1>2. /\ worker[w].claim \in Claim /\ attempt'.state # "absent"
      /\ worker[w].cap # NoClaim
  BY DEF TypeOK, PassFine, UnderWay, Moves, NoClaim, Handling
<1>3. claim'[worker[w].claim].state # "free" /\ claim'[worker[w].claim].owner = w
  BY <1>2 DEF PassFine, Moves, UnderWay
<1>4. worker[w].seen # {} /\ worker[w].seen \subseteq Born(o)'
  BY <1>2 DEF Moves, PassFine
<1>5. s \in {"cleaning", "deleting"} /\ InOrder(o)' =>
        (Canonical(o)' \in worker[w].seen =>
           worker[w].object = Canonical(o)')
  BY <1>2 DEF PassFine, Moves, ReportsStay
<1>6. PassFine(w)'
  BY <1>1, <1>2, <1>3, <1>4, <1>5 DEF PassFine, Mutating, Handling, Born, Canonical, InOrder, UnderWay
<1>7. RiskFine(w)'
  BY <1>1 DEF RiskFine, Mutating, Handling
<1> QED
  BY <1>1, <1>6, <1>7

-----------------------------------------------------------------------------
(* The steps of a pass that only read. *)

LEMMA LookFine ==
  ASSUME Inv, NEW w \in Worker, NEW o \in Op, Look(w, o)
  PROVE  Others(w) /\ PassFine(w)' /\ RiskFine(w)'
<1> DEFINE routed == IF o \notin AtRisk /\ AtRisk # {} /\ ~fresh THEN Oldest(AtRisk) ELSE o
           c == attempt.claim
           risk == routed \in AtRisk
           seen == [Idle EXCEPT !.op = routed, !.risky = risk]
           mine == [seen EXCEPT !.step = "claimed", !.claim = c]
           next == [seen EXCEPT !.step = "claiming", !.version = attempt.version]
<1>1. routed \in Op
  <2>1. AtRisk \subseteq Op /\ Op \subseteq Nat
    BY OpAssumption DEF AtRisk
  <2>2. AtRisk # {} => Oldest(AtRisk) \in AtRisk
    BY <2>1, OldestFirst
  <2> QED
    BY <2>1, <2>2
<1>2. routed \notin AtRisk => Harmless(routed)
  BY <1>1, HarmlessUnlessAtRisk
<1>3. /\ \/ Holds(c) /\ claim[c].owner = w /\ Go(w, mine)
         \/ Go(w, next)
      /\ attempt.state \in {"pending", "publishing"}
      /\ UNCHANGED <<rows, outside, clock>>
  BY DEF Look
<1>4. /\ attempt' = attempt /\ claim' = claim /\ try' = try
  BY <1>3 DEF rows
<1> HIDE DEF routed
<1>5. attempt.version \in Nat /\ c \in {NoClaim} \cup Claim
  BY DEF Inv, TypeOK
<1>6. risk \in BOOLEAN /\ (~risk => Harmless(routed))
  BY <1>2
<1> HIDE DEF risk
<1>7. /\ seen \in WorkerRow /\ seen.op = routed /\ seen.risky = risk
      /\ seen.claim = NoClaim
  BY <1>1, <1>6 DEF WorkerRow, Idle, Steps, Object
<1> HIDE DEF seen
<1>8. CASE Holds(c) /\ claim[c].owner = w /\ Go(w, mine)
  <2>1. /\ mine \in WorkerRow /\ mine.step = "claimed" /\ mine.claim = c /\ mine.op = routed
        /\ mine.risky = risk
    BY <1>5, <1>7 DEF WorkerRow, Steps
  <2> HIDE DEF mine
  <2>2. Others(w) /\ worker'[w] = mine
    BY <1>8, <2>1, Gone DEF Inv
  <2>3. c # NoClaim /\ claim[c].state # "free" /\ claim[c].owner = w
    BY <1>8 DEF Holds
  <2>4. PassFine(w)'
    BY <1>1, <1>3, <1>4, <2>1, <2>2, <2>3 DEF PassFine, Mutating, Handling
  <2>5. RiskFine(w)'
    BY <1>4, <1>6, <2>1, <2>2 DEF RiskFine, Mutating, Harmless
  <2> QED
    BY <2>2, <2>4, <2>5
<1>9. CASE Go(w, next)
  <2>1. /\ next \in WorkerRow /\ next.step = "claiming" /\ next.claim = NoClaim
        /\ next.op = routed /\ next.version = attempt.version /\ next.risky = risk
    BY <1>5, <1>7 DEF WorkerRow, Steps
  <2> HIDE DEF next
  <2>2. Others(w) /\ worker'[w] = next
    BY <1>9, <2>1, Gone DEF Inv
  <2>3. PassFine(w)'
    BY <1>1, <1>3, <1>4, <1>5, <2>1, <2>2 DEF PassFine, Mutating, Handling
  <2>4. RiskFine(w)'
    BY <1>4, <1>6, <2>1, <2>2 DEF RiskFine, Mutating, Harmless
  <2> QED
    BY <2>2, <2>3, <2>4
<1> QED
  BY <1>3, <1>8, <1>9

LEMMA ClaimRefusedFine ==
  ASSUME Inv, NEW w \in Worker, ClaimRefused(w)
  PROVE  Others(w) /\ PassFine(w)' /\ RiskFine(w)'
<1>1. worker[w].step = "claiming" /\ Step(w, "unclaimed") /\ attempt' = attempt /\ claim' = claim
  BY DEF ClaimRefused, rows
<1>2. /\ Others(w)
      /\ worker'[w].step = "unclaimed" /\ worker'[w].op = worker[w].op
      /\ worker'[w].claim = worker[w].claim /\ worker'[w].version = worker[w].version
  BY <1>1, Stepped DEF Inv, Steps
<1>3. PassFine(w)
  BY DEF Inv
<1>4. PassFine(w)'
  BY <1>1, <1>2, <1>3 DEF PassFine, Mutating, Handling
<1>5. RiskFine(w)'
  BY <1>2 DEF RiskFine, Mutating
<1> QED
  BY <1>2, <1>4, <1>5

\* The claim is held, and nothing of an operation without a risk was ever begun.
LEMMA ProceedFine ==
  ASSUME Inv, NEW w \in Worker, Proceed(w)
  PROVE  Others(w) /\ PassFine(w)' /\ RiskFine(w)'
<1> DEFINE next == [worker[w] EXCEPT
                      !.step = IF Tried(worker[w].op) # {} THEN "reconciling" ELSE "beginning",
                      !.cap = IF Tried(worker[w].op) # {} THEN Latest(worker[w].op) ELSE NoClaim,
                      !.version = IF Tried(worker[w].op) # {} THEN 0 ELSE attempt.version]
<1>1. /\ worker[w].step = "claimed" /\ Holds(worker[w].claim)
      /\ IF Proven(worker[w].op) # {} THEN Closing(w, "failed_no_effect") ELSE Go(w, next)
      /\ UNCHANGED <<rows, outside, clock>>
  BY DEF Proceed
<1>2. TypeOK /\ Moves /\ PassFine(w) /\ RiskFine(w)
  BY <1>1, QuietMoves DEF Inv
<1>3. PICK o \in Op : worker[w].op = o
  BY <1>1, <1>2 DEF PassFine
<1>4. CASE Proven(o) # {}
  BY <1>1, <1>2, <1>3, <1>4, ClosingFine DEF NoEffect, Stale, UnderWay
<1>5. CASE Proven(o) = {}
  <2> DEFINE tried == Tried(o) # {}
  <2>1. attempt' = attempt /\ claim' = claim /\ try' = try
    BY <1>1 DEF rows
  <2>2. worker[w] \in WorkerRow /\ attempt.version \in Nat
    BY <1>2 DEF TypeOK, WorkerRow
  <2>3. tried => Latest(o) \in Claim /\ try[o][Latest(o)] # "none"
    BY LatestTried
  <2>4. \A c \in Claim : try[o][c] # "no_effect_proven"
    BY <1>5 DEF Proven
  <2>5. tried => worker[w].risky
    BY <1>1, <1>2, <1>3, <2>4 DEF RiskFine, Holds, Harmless, Tried
  <2>6. tried => Latest(o) = worker[w].claim \/ claim[Latest(o)].state \in {"expired", "released"}
    BY <1>1, <1>2, <2>3 DEF Inv, Holds, TriesFine, ClaimsFit, TypeOK
  <2>7. ~tried => Untried(o)
    BY DEF Tried, Untried
  <2>8. /\ next \in WorkerRow
        /\ next.op = o /\ next.claim = worker[w].claim /\ next.risky = worker[w].risky
        /\ IF tried THEN next.step = "reconciling" /\ next.cap = Latest(o)
           ELSE next.step = "beginning"
    <3>1. CASE tried
      BY <1>3, <2>2, <2>3, <3>1 DEF WorkerRow, Steps
    <3>2. CASE ~tried
      BY <1>3, <2>2, <3>2 DEF WorkerRow, Steps
    <3> QED
      BY <3>1, <3>2
  <2>9. Go(w, next)
    BY <1>1, <1>3, <1>5
  <2> HIDE DEF next, tried
  <2>10. Others(w) /\ worker'[w] = next
    BY <1>2, <2>8, <2>9, Gone
  <2>11. Latest(o) # NoClaim \/ ~tried
    BY <2>3 DEF Claim, NoClaim
  <2>12. PassFine(w)'
    <3>1. CASE tried
      BY <1>1, <1>2, <1>3, <2>1, <2>3, <2>4, <2>5, <2>6, <2>8, <2>10, <2>11, <3>1
      DEF PassFine, Mutating, Handling
    <3>2. CASE ~tried
      BY <1>1, <1>2, <1>3, <2>1, <2>8, <2>10, <3>2 DEF PassFine, Mutating, Handling
    <3> QED
      BY <3>1, <3>2
  <2>13. RiskFine(w)'
    BY <1>3, <2>1, <2>5, <2>7, <2>8, <2>10 DEF RiskFine, Mutating, Untried
  <2> QED
    BY <2>10, <2>12, <2>13
<1> QED
  BY <1>4, <1>5

\* Whoever looks for what was tried before has seen the risk.
LEMMA ReconcileFine ==
  ASSUME Inv, NEW w \in Worker, Reconcile(w)
  PROVE  Others(w) /\ PassFine(w)' /\ RiskFine(w)'
<1> DEFINE again == [worker[w] EXCEPT !.step = "beginning", !.version = attempt.version]
<1>1. worker[w].step = "reconciling" /\ UNCHANGED <<rows, outside, clock>>
  BY DEF Reconcile
<1>2. TypeOK /\ Moves /\ PassFine(w) /\ UnderWay(w)
  BY <1>1, QuietMoves DEF Inv, UnderWay
<1>3. PICK o \in Op : worker[w].op = o
  BY <1>1, <1>2 DEF PassFine
<1>4. worker[w].cap # NoClaim /\ worker[w].risky
  BY <1>1, <1>2 DEF PassFine
<1>5. attempt' = attempt /\ claim' = claim /\ try' = try
  BY <1>1 DEF rows
<1>6. \/ Ambiguous(w)
      \/ visible[o] # {} /\ Settling(w)
      \/ worker[w].cap = worker[w].claim /\ Step(w, "mutating")
      \/ Go(w, again)
  BY <1>3 DEF Reconcile
<1>7. CASE Ambiguous(w)
  BY <1>2, <1>7, AmbiguousFine
<1>8. CASE visible[o] # {} /\ Settling(w)
  BY <1>2, <1>3, <1>4, <1>8, SettlingFine
<1>9. CASE worker[w].cap = worker[w].claim /\ Step(w, "mutating")
  <2>1. /\ Others(w)
        /\ worker'[w].step = "mutating" /\ worker'[w].risky
        /\ worker'[w].op = worker[w].op /\ worker'[w].claim = worker[w].claim
        /\ worker'[w].cap = worker[w].cap
    BY <1>2, <1>4, <1>9, Stepped DEF Steps
  <2>2. PassFine(w)'
    BY <1>1, <1>2, <1>3, <1>5, <1>9, <2>1 DEF PassFine, Mutating, Handling
  <2>3. RiskFine(w)'
    BY <2>1 DEF RiskFine
  <2> QED
    BY <2>1, <2>2, <2>3
<1>10. CASE Go(w, again)
  <2>1. worker[w] \in WorkerRow /\ attempt.version \in Nat
    BY <1>2 DEF TypeOK, WorkerRow
  <2>2. /\ again \in WorkerRow
        /\ again.step = "beginning" /\ again.op = o /\ again.claim = worker[w].claim
        /\ again.risky
    BY <1>3, <1>4, <2>1 DEF WorkerRow, Steps
  <2>3. Others(w) /\ worker'[w] = again
    BY <1>2, <1>10, <2>2, Gone
  <2>4. PassFine(w)'
    BY <1>1, <1>2, <1>3, <1>5, <2>2, <2>3 DEF PassFine, Mutating, Handling
  <2>5. RiskFine(w)'
    BY <2>2, <2>3 DEF RiskFine
  <2> QED
    BY <2>3, <2>4, <2>5
<1> QED
  BY <1>6, <1>7, <1>8, <1>9, <1>10

LEMMA PrepareFine ==
  ASSUME Inv, NEW w \in Worker, Prepare(w)
  PROVE  Others(w) /\ PassFine(w)' /\ RiskFine(w)'
<1>1. worker[w].step = "mutating" /\ UNCHANGED <<rows, outside, clock>>
  BY DEF Prepare
<1>2. TypeOK /\ Moves /\ PassFine(w) /\ RiskFine(w) /\ UnderWay(w)
  BY <1>1, QuietMoves DEF Inv, UnderWay
<1>3. PICK o \in Op : worker[w].op = o
  BY <1>1, <1>2 DEF PassFine
<1>4. worker[w].cap # NoClaim
  BY <1>1, <1>2 DEF PassFine, Mutating
<1>5. attempt' = attempt /\ claim' = claim /\ try' = try /\ request' = request
  BY <1>1 DEF rows, outside
<1>6. \/ Ambiguous(w)
      \/ Closing(w, "superseded_no_effect")
      \/ visible[o] # {} /\ Settling(w)
      \/ \E s \in {"sending", "proving"} : Step(w, s) /\ (s = "proving" => ~worker[w].risky)
  BY <1>3 DEF Prepare
<1>7. CASE Ambiguous(w)
  BY <1>2, <1>7, AmbiguousFine
<1>8. CASE Closing(w, "superseded_no_effect")
  BY <1>2, <1>3, <1>8, ClosingFine DEF NoEffect, Stale
<1>9. CASE visible[o] # {} /\ Settling(w)
  BY <1>2, <1>3, <1>4, <1>9, SettlingFine
<1>10. ASSUME NEW s \in {"sending", "proving"}, Step(w, s), s = "proving" => ~worker[w].risky
       PROVE  Others(w) /\ PassFine(w)' /\ RiskFine(w)'
  <2>1. /\ Others(w)
        /\ worker'[w].step = s /\ worker'[w].risky = worker[w].risky
        /\ worker'[w].op = worker[w].op /\ worker'[w].claim = worker[w].claim
        /\ worker'[w].cap = worker[w].cap
    BY <1>2, <1>10, Stepped DEF Steps
  <2>2. PassFine(w)'
    BY <1>1, <1>2, <1>3, <1>5, <1>10, <2>1 DEF PassFine, Mutating, Handling
  <2>3. RiskFine(w)'
    BY <1>1, <1>2, <1>3, <1>5, <2>1 DEF RiskFine, Mutating
  <2> QED
    BY <2>1, <2>2, <2>3
<1> QED
  BY <1>6, <1>7, <1>8, <1>9, <1>10

\* The answers that leave everything open, or lead on without a word to the rows.
LEMMA OtherReadsFine ==
  ASSUME Inv, NEW w \in Worker,
         BeginRefused(w) \/ Unanswered(w) \/ Clean(w) \/ LastLook(w) \/ Compensate(w)
           \/ CloseConflict(w) \/ GiveUp(w)
  PROVE  Others(w) /\ PassFine(w)' /\ RiskFine(w)'
<1>1. UNCHANGED <<rows, outside, clock>> /\ (UnderWay(w) \/ End(w))
  BY DEF BeginRefused, Unanswered, Clean, LastLook, Compensate, CloseConflict, GiveUp, UnderWay
<1>2. CASE End(w)
  BY <1>2, Ended, IdleFine DEF Inv
<1>3. CASE Ambiguous(w) /\ UnderWay(w)
  <2>1. TypeOK /\ Moves /\ PassFine(w)
    BY <1>1, QuietMoves DEF Inv
  <2> QED
    BY <1>3, <2>1, AmbiguousFine
<1>4. CASE UnderWay(w) /\ ~End(w) /\ ~Ambiguous(w)
  <2>1. TypeOK /\ Moves /\ PassFine(w) /\ UnderWay(w)
    BY <1>1, <1>4, QuietMoves DEF Inv
  <2>2. PICK o \in Op : worker[w].op = o
    BY <2>1 DEF PassFine, UnderWay
  <2>3. effects' = effects /\ fresh' = fresh /\ attempt' = attempt
    BY <1>1 DEF rows, clock
  <2>4. CASE BeginRefused(w)
    <3>1. PICK outcome \in NoEffect : Closing(w, outcome)
      BY <1>4, <2>4 DEF BeginRefused, NoEffect
    <3> QED
      BY <2>1, <2>2, <3>1, ClosingFine DEF NoEffect, Stale
  <2>5. CASE Unanswered(w)
    <3>1. worker[w].step = "waiting" /\ visible[o] # {} /\ Settling(w)
      BY <1>4, <2>2, <2>5 DEF Unanswered
    <3> QED
      BY <2>1, <2>2, <3>1, SettlingFine DEF PassFine, Mutating
  <2>6. CASE Clean(w) \/ LastLook(w) \/ Compensate(w)
    <3>1. PICK s \in {"deleting", "finishing", "compensating", "retracting"} :
            /\ Step(w, s) /\ worker[w].step \in {"cleaning", "completing", "compensating"}
            /\ s = "deleting" => worker[w].step = "cleaning"
            /\ s = "finishing" => worker[w].step = "completing" /\ fresh
            /\ s = "retracting" => ~fresh /\ Holds(worker[w].claim)
      BY <1>4, <2>6 DEF Clean, LastLook, Compensate
    <3>2. s \in {"deleting", "finishing"} => effects[o] # <<>>
      BY <2>1, <2>2, <3>1 DEF PassFine
    <3>3. s = "retracting" => ~Sealed'
      <4>1. Others(w)
        BY <2>1, <3>1, Stepped DEF Steps
      <4>2. Sealed' => Sealed
        BY <2>1, <4>1, OthersFinish, SealedStays
      <4> QED
        BY <3>1, <4>2, HeldUnsealed
    <3> QED
      BY <2>1, <2>2, <2>3, <3>1, <3>2, <3>3, SteppedFine DEF Handling
  <2> QED
    BY <1>4, <2>4, <2>5, <2>6 DEF CloseConflict, GiveUp
<1> QED
  BY <1>1, <1>2, <1>3, <1>4

Reads(w) ==
  \/ \E o \in Op : Look(w, o)
  \/ ClaimRefused(w) \/ Proceed(w) \/ Reconcile(w) \/ Prepare(w)
  \/ BeginRefused(w) \/ Unanswered(w) \/ Clean(w) \/ LastLook(w) \/ Compensate(w)
  \/ CloseConflict(w) \/ GiveUp(w)

LEMMA ReadsKeep ==
  ASSUME Inv, NEW w \in Worker, Reads(w)
  PROVE  Inv' /\ UNCHANGED <<rows, outside, clock>>
<1>1. UNCHANGED <<rows, outside, clock>>
  BY Zenon DEF Reads, Look, ClaimRefused, Proceed, Reconcile, Prepare, BeginRefused, Unanswered,
                Clean, LastLook, Compensate, CloseConflict, GiveUp
<1>2. Others(w) /\ PassFine(w)' /\ RiskFine(w)'
  BY LookFine, ClaimRefusedFine, ProceedFine, ReconcileFine, PrepareFine, OtherReadsFine DEF Reads
<1> QED
  BY <1>1, <1>2, QuietKeeps

-----------------------------------------------------------------------------
(* The transactions on the rows. *)

\* A worker that does nothing stays right, whatever the others do within these
\* bounds.
LEMMA StillFine ==
  ASSUME Inv, Moves, Sealed' => Sealed, NEW v \in Worker, worker'[v] = worker[v],
         \A o \in Op : TriesPass(o) /\ NothingSent(o)
  PROVE  PassFine(v)' /\ RiskFine(v)'
<1>1. PassFine(v) /\ RiskFine(v) /\ TypeOK
  BY DEF Inv
<1>2. worker[v].step \in Mutating \cup {"reconciling"} =>
        try'[worker[v].op][worker[v].cap] \notin {"none", "no_effect_proven"}
  <2> HAVE worker[v].step \in Mutating \cup {"reconciling"}
  <2>1. worker[v].op \in Op /\ worker[v].cap \in Claim
        /\ try[worker[v].op][worker[v].cap] \notin {"none", "no_effect_proven"}
    BY <1>1 DEF PassFine, TypeOK, Mutating
  <2> QED
    BY <2>1 DEF TriesPass
<1>3. PassFine(v)'
  BY <1>1, <1>2, PassStays
<1>4. worker[v].step # "idle" => worker[v].op \in Op
  BY <1>1 DEF PassFine
<1> QED
  BY <1>1, <1>3, <1>4, RiskStays

LEMMA OthersKeep ==
  ASSUME Inv, Moves, NEW w \in Worker, Others(w),
         \A o \in Op : TriesPass(o) /\ NothingSent(o)
  PROVE  \A v \in Worker \ {w} : PassFine(v)' /\ RiskFine(v)'
<1>1. Sealed' => Sealed
  BY OthersFinish, SealedStays
<1> QED
  BY <1>1, StillFine DEF Others

LEMMA HarmlessStays ==
  ASSUME NEW o \in Op, TriesPass(o)
  PROVE  (Harmless(o)' <=> Harmless(o)) /\ (Untried(o)' <=> Untried(o))
  BY DEF TriesPass, Harmless, Untried

\* Steps on the rows alone change nothing about effects.
LEMMA EffectsStay ==
  ASSUME NEW o \in Op, EffectsFine(o), TriesPass(o),
         UNCHANGED <<effects, receipt, request, visible>>, Sealed' => Sealed
  PROVE  EffectsFine(o)'
  BY HarmlessStays DEF EffectsFine, Unsent, Born, Canonical, InOrder

LEMMA RowsMove ==
  ASSUME TypeOK, UNCHANGED <<effects, request>>, fresh' => fresh,
         attempt'.version \in Nat, attempt'.version >= attempt.version,
         attempt'.version = attempt.version => attempt' = attempt,
         attempt.state # "absent" => attempt'.state # "absent",
         attempt'.outcome = "succeeded" => attempt.outcome = "succeeded" \/ Finishing,
         \A c \in Claim : claim[c].state # "free" =>
           /\ claim'[c].state # "free" /\ claim'[c].owner = claim[c].owner
           /\ attempt'.claim = c => attempt.claim = c
           /\ claim[c].state \in {"expired", "released"} =>
                claim'[c].state \in {"expired", "released"}
  PROVE  Moves
<1>1. request \in [Op -> Seq({Flying, Void} \cup Object)]
  BY DEF TypeOK
<1> QED
  BY <1>1 DEF Moves, ReportsStay, Born, Canonical, InOrder

\* The claim that is lost takes its tries with it.
LEMMA ExpireFacts ==
  ASSUME Inv, attempt.state # "terminal",
         IF attempt.claim # NoClaim THEN ExpireWork(attempt.claim) ELSE UNCHANGED <<try, op>>
  PROVE  /\ try' \in [Op -> [Claim -> TryState]] /\ op' \in [Op -> OpStates]
         /\ \A o \in Op :
              /\ \A d \in Claim :
                   /\ try'[o][d] # "active"
                   /\ try'[o][d] = IF try[o][d] = "active" THEN "stale" ELSE try[o][d]
              /\ op'[o] = op[o] \/ (op[o] = "in_flight" /\ op'[o] = "reconciling")
              /\ op'[o] = "in_flight" => \A d \in Claim : try[o][d] # "active"
<1>1. /\ try \in [Op -> [Claim -> TryState]] /\ op \in [Op -> OpStates]
      /\ attempt.claim \in {NoClaim} \cup Claim
  BY DEF Inv, TypeOK, OpStates
<1>2. \A o \in Op : \A d \in Claim : try[o][d] = "active" => attempt.claim = d /\ d # NoClaim
  BY DEF Inv, TriesFine, ClaimsFit, Claim, NoClaim
<1>3. CASE attempt.claim = NoClaim
  <2>1. try' = try /\ op' = op
    BY <1>3
  <2>2. \A o \in Op : \A d \in Claim : try[o][d] # "active"
    BY <1>2, <1>3
  <2> QED
    BY <1>1, <2>1, <2>2
<1>4. CASE attempt.claim # NoClaim
  <2> DEFINE c == attempt.claim
             lost == {o \in Op : try[o][c] = "active"}
  <2>1. /\ c \in Claim
        /\ try' = [o \in Op |-> IF o \in lost THEN [try[o] EXCEPT ![c] = "stale"] ELSE try[o]]
        /\ op' = [o \in Op |-> IF o \in lost /\ op[o] = "in_flight" THEN "reconciling" ELSE op[o]]
    BY <1>1, <1>4 DEF ExpireWork
  <2>2. try' \in [Op -> [Claim -> TryState]] /\ op' \in [Op -> OpStates]
    BY <1>1, <2>1 DEF TryState, OpStates, Active
  <2>3. ASSUME NEW o \in Op, NEW d \in Claim
        PROVE  try'[o][d] = IF try[o][d] = "active" THEN "stale" ELSE try[o][d]
    <3>1. CASE o \in lost
      BY <1>1, <1>2, <2>1, <3>1
    <3>2. CASE o \notin lost
      BY <1>1, <1>2, <2>1, <3>2
    <3> QED
      BY <3>1, <3>2
  <2>4. ASSUME NEW o \in Op
        PROVE  /\ op'[o] = op[o] \/ (op[o] = "in_flight" /\ op'[o] = "reconciling")
               /\ op'[o] = "in_flight" => \A d \in Claim : try[o][d] # "active"
    BY <1>2, <2>1
  <2> QED
    BY <2>2, <2>3, <2>4
<1> QED
  BY <1>3, <1>4

\* A new claim term makes every try of the old one inactive, and its version makes
\* every earlier look an old one.
LEMMA TakeClaimKeeps ==
  ASSUME Inv, NEW w \in Worker, TakeClaim(w)
  PROVE  Inv' /\ Moves
<1> DEFINE old == attempt.claim
<1>1. PICK c \in Claim :
        /\ worker[w].step = "claiming"
        /\ attempt.state # "terminal" /\ attempt.version = worker[w].version
        /\ claim[c].state = "free"
        /\ IF old # NoClaim THEN ExpireWork(old) ELSE UNCHANGED <<try, op>>
        /\ claim' = [d \in Claim |->
             IF d = c THEN [owner |-> w, state |-> "active", live |-> TRUE]
             ELSE IF d = old THEN [claim[d] EXCEPT !.state = "expired"]
             ELSE claim[d]]
        /\ attempt' = [attempt EXCEPT !.state = "publishing", !.claim = c,
                                      !.version = attempt.version + 1]
        /\ Go(w, [worker[w] EXCEPT !.step = "claimed", !.claim = c, !.version = 0])
        /\ UNCHANGED <<effects, receipt, request, visible, fresh, over>>
  BY Zenon DEF TakeClaim, outside, clock
<1> DEFINE next == [worker[w] EXCEPT !.step = "claimed", !.claim = c, !.version = 0]
<1>2. TypeOK /\ ClaimsFit /\ PassFine(w) /\ RiskFine(w) /\ attempt \in AttemptRow
      /\ claim \in [Claim -> ClaimRow] /\ worker[w] \in WorkerRow
  BY Typed DEF Inv
<1>3. PICK o \in Op : worker[w].op = o
  BY <1>1, <1>2 DEF PassFine
<1>4. c # NoClaim /\ c # old
  BY <1>1, <1>2 DEF ClaimsFit, Claim, NoClaim
<1>5. /\ attempt' \in AttemptRow /\ attempt'.state = "publishing" /\ attempt'.claim = c
      /\ attempt'.version = attempt.version + 1 /\ attempt'.outcome = attempt.outcome
      /\ attempt.version \in Nat /\ attempt.outcome = "none"
  <2>1. attempt' = [attempt EXCEPT !.state = "publishing", !.claim = c,
                                   !.version = attempt.version + 1]
    BY <1>1
  <2>2. attempt.outcome = "none"
    BY <1>1, <1>2 DEF ClaimsFit
  <2>3. attempt \in AttemptRow
    BY <1>2
  <2>4. attempt' = [state |-> "publishing", version |-> attempt.version + 1, claim |-> c,
                    outcome |-> attempt.outcome]
    BY <2>1, <2>3 DEF AttemptRow
  <2>5. attempt.version + 1 \in Nat /\ attempt.version \in Nat
    BY <2>3 DEF AttemptRow
  <2> QED
    BY <2>2, <2>3, <2>4, <2>5 DEF AttemptRow
<1>6. /\ claim' \in [Claim -> ClaimRow]
      /\ claim'[c].owner = w /\ claim'[c].state = "active"
      /\ \A d \in Claim \ {c} :
           /\ claim'[d].owner = claim[d].owner
           /\ claim'[d].state = IF d = old THEN "expired" ELSE claim[d].state
  BY <1>1, <1>2 DEF ClaimRow
<1>7. /\ try' \in [Op -> [Claim -> TryState]] /\ op' \in [Op -> OpStates]
      /\ \A s \in Op :
           /\ \A d \in Claim :
                /\ try'[s][d] # "active"
                /\ try'[s][d] = IF try[s][d] = "active" THEN "stale" ELSE try[s][d]
           /\ op'[s] = op[s] \/ (op[s] = "in_flight" /\ op'[s] = "reconciling")
           /\ op'[s] = "in_flight" => \A d \in Claim : try[s][d] # "active"
  BY <1>1, ExpireFacts
<1>8. \A s \in Op : TriesPass(s) /\ NothingSent(s)
  BY <1>1, <1>7 DEF TriesPass, NothingSent
<1>9. /\ next \in WorkerRow /\ next.step = "claimed" /\ next.claim = c /\ next.op = o
      /\ next.risky = worker[w].risky
  BY <1>2, <1>3 DEF WorkerRow, Steps
<1> HIDE DEF next
<1>10. Others(w) /\ worker'[w] = next
  BY <1>1, <1>2, <1>9, Gone DEF next
<1>11. Moves
  <2>1. ASSUME NEW d \in Claim, claim[d].state # "free"
        PROVE  /\ claim'[d].state # "free" /\ claim'[d].owner = claim[d].owner
               /\ attempt'.claim = d => attempt.claim = d
               /\ claim[d].state \in {"expired", "released"} =>
                    claim'[d].state \in {"expired", "released"}
    BY <1>1, <1>5, <1>6, <2>1
  <2>2. effects' = effects /\ request' = request /\ fresh' = fresh
    BY <1>1
  <2> QED
    BY <1>2, <1>5, <2>1, <2>2, RowsMove
<1>12. TypeOK'
  <2>1. worker' \in [Worker -> WorkerRow]
    BY <1>10 DEF Others
  <2> QED
    BY <1>1, <1>2, <1>5, <1>6, <1>7, <2>1 DEF TypeOK, AttemptRow, ClaimRow, WorkerRow, OpStates
<1>13. ClaimsFit'
  <2>1. \A d \in Claim : claim'[d].state = "active" <=> attempt'.claim = d
    BY <1>2, <1>5, <1>6 DEF ClaimsFit
  <2>2. attempt'.outcome \notin NoEffect /\ attempt'.outcome # "succeeded"
    BY <1>5 DEF NoEffect
  <2> QED
    BY <1>4, <1>5, <2>1, <2>2 DEF ClaimsFit
<1>14. ASSUME NEW s \in Op
       PROVE  TriesFine(s)' /\ EffectsFine(s)'
  <2>1. TriesFine(s) /\ EffectsFine(s)
    BY DEF Inv
  <2>2. EffectsFine(s)'
    <3>1. Sealed' => Sealed
      BY <1>10, <1>11, OthersFinish, SealedStays DEF Inv
    <3> QED
      BY <1>1, <1>5, <1>8, <2>1, <3>1, EffectsStay
  <2>3. \A d \in Claim : claim'[d].state = "free" => try'[s][d] = "none"
    BY <1>6, <1>7, <2>1 DEF TriesFine
  <2>4. op'[s] = "in_flight" => \E d \in Claim : try'[s][d] = "no_effect_proven"
    BY <1>7, <2>1 DEF TriesFine
  <2>5. op'[s] = "planned" => Untried(s)'
    BY <1>7, <1>8, <2>1, HarmlessStays DEF TriesFine
  <2>6. op'[s] \in NoEffect => Harmless(s)'
    BY <1>7, <1>8, <2>1, HarmlessStays DEF TriesFine, NoEffect
  <2>7. op'[s] \in Active \cup {"completed"}
    BY <1>1, <1>7, <2>1 DEF TriesFine, Active
  <2>8. receipt'[s] # 0 => op'[s] \notin Active
    BY <1>1, <1>7, <2>1 DEF TriesFine, Active
  <2> QED
    BY <1>7, <2>2, <2>3, <2>4, <2>5, <2>6, <2>7, <2>8 DEF TriesFine
<1>15. PassFine(w)'
  BY <1>3, <1>4, <1>5, <1>6, <1>9, <1>10 DEF PassFine, Mutating, Handling
<1>16. RiskFine(w)'
  <2>1. ~worker[w].risky => Harmless(o)
    BY <1>1, <1>2, <1>3 DEF RiskFine
  <2>2. ~worker[w].risky => Harmless(o)'
    BY <1>8, <2>1, HarmlessStays
  <2> QED
    BY <1>9, <1>10, <2>2 DEF RiskFine, Mutating, Harmless
<1> QED
  BY <1>8, <1>10, <1>11, <1>12, <1>13, <1>14, <1>15, <1>16, OthersKeep DEF Inv

\* Only the worker that holds the claim begins anything under it: whoever else
\* saw no risk in the operation has lost its claim, and its try its activity.
LEMMA BeginKeeps ==
  ASSUME Inv, NEW w \in Worker, Begin(w)
  PROVE  Inv' /\ Moves
<1> DEFINE c == worker[w].claim
           next == [worker[w] EXCEPT !.step = "mutating", !.cap = c, !.version = 0]
<1>1. TypeOK /\ ClaimsFit /\ PassFine(w) /\ RiskFine(w) /\ attempt \in AttemptRow
      /\ claim \in [Claim -> ClaimRow] /\ worker[w] \in WorkerRow
      /\ try \in [Op -> [Claim -> TryState]] /\ op \in [Op -> OpStates]
  BY Typed DEF Inv
<1>2. worker[w].step = "beginning" /\ attempt.state # "terminal" /\ Holds(c)
  BY DEF Begin
<1>3. PICK o \in Op : worker[w].op = o
  BY <1>1, <1>2 DEF PassFine
<1>4. /\ c \in Claim /\ c # NoClaim /\ attempt.claim = c /\ claim[c].state = "active"
      /\ claim[c].owner = w
  <2>1. c \in {NoClaim} \cup Claim
    BY <1>1 DEF WorkerRow
  <2> QED
    BY <1>1, <1>2, <2>1 DEF Holds, PassFine
<1>5. /\ try[o][c] = "none" /\ op[o] # "completed"
      /\ try' = [try EXCEPT ![o][c] = "active"] /\ op' = [op EXCEPT ![o] = "in_flight"]
      /\ UNCHANGED <<claim, effects, receipt, request, visible, fresh, over>>
  BY <1>3 DEF Begin, outside, clock
<1>6. Go(w, next)
  BY DEF Begin
<1>7. /\ attempt' \in AttemptRow /\ attempt'.state = attempt.state /\ attempt'.claim = c
      /\ attempt'.version = attempt.version + 1 /\ attempt'.outcome = "none"
      /\ attempt.version \in Nat /\ attempt.outcome = "none"
  <2>1. attempt' = [attempt EXCEPT !.version = attempt.version + 1]
    BY DEF Begin
  <2>2. attempt.outcome = "none"
    BY <1>1, <1>2 DEF ClaimsFit
  <2>3. attempt \in AttemptRow
    BY <1>1
  <2> QED
    BY <1>4, <2>1, <2>2, <2>3 DEF AttemptRow
<1>8. /\ try' \in [Op -> [Claim -> TryState]] /\ op' \in [Op -> OpStates]
      /\ \A s \in Op : \A d \in Claim :
           try'[s][d] = IF s = o /\ d = c THEN "active" ELSE try[s][d]
      /\ op'[o] = "in_flight" /\ \A s \in Op \ {o} : op'[s] = op[s]
  <2>1. try[o] \in [Claim -> TryState]
    BY <1>1
  <2> QED
    BY <1>1, <1>4, <1>5, <2>1 DEF TryState, OpStates, Active
<1>9. /\ next \in WorkerRow /\ next.step = "mutating" /\ next.claim = c /\ next.op = o
      /\ next.cap = c /\ next.risky = worker[w].risky
  BY <1>1, <1>3, <1>4 DEF WorkerRow, Steps
<1> HIDE DEF next
<1>10. Others(w) /\ worker'[w] = next
  BY <1>1, <1>6, <1>9, Gone
<1>11. Moves
  BY <1>1, <1>4, <1>5, <1>7, RowsMove
<1>12. TypeOK'
  <2>1. worker' \in [Worker -> WorkerRow]
    BY <1>10 DEF Others
  <2> QED
    BY <1>1, <1>5, <1>7, <1>8, <2>1 DEF TypeOK, AttemptRow, ClaimRow, WorkerRow, OpStates
<1>13. ClaimsFit'
  BY <1>1, <1>4, <1>5, <1>7 DEF ClaimsFit, NoEffect
<1>14. ASSUME NEW s \in Op
       PROVE  TriesFine(s)' /\ EffectsFine(s)'
  <2>1. TriesFine(s) /\ EffectsFine(s)
    BY DEF Inv
  <2>2. CASE s = o
    <3>1. ~Harmless(s)'
      BY <1>4, <1>8, <2>2 DEF Harmless
    <3>2. EffectsFine(s)'
      <4>1. Sealed' => Sealed
        BY <1>10, <1>11, OthersFinish, SealedStays
      <4> QED
        BY <1>5, <2>1, <3>1, <4>1 DEF EffectsFine, Born, Canonical, InOrder
    <3>3. receipt[o] = 0
      BY <1>2, <1>5, <2>1, <2>2 DEF TriesFine
    <3>4. TriesFine(s)'
      BY <1>4, <1>5, <1>7, <1>8, <2>1, <2>2, <3>3 DEF TriesFine, NoEffect, Active
    <3> QED
      BY <3>2, <3>4
  <2>3. CASE s # o
    <3>1. TriesPass(s) /\ op'[s] = op[s]
      BY <1>8, <2>3 DEF TriesPass
    <3>2. EffectsFine(s)'
      <4>1. Sealed' => Sealed
        BY <1>10, <1>11, OthersFinish, SealedStays DEF Inv
      <4> QED
        BY <1>5, <1>7, <2>1, <3>1, <4>1, EffectsStay
    <3>3. \A d \in Claim : try'[s][d] = try[s][d]
      BY <1>8, <2>3
    <3>4. TriesFine(s)'
      BY <1>4, <1>5, <1>7, <2>1, <3>1, <3>3, HarmlessStays DEF TriesFine
    <3> QED
      BY <3>2, <3>4
  <2> QED
    BY <2>2, <2>3
<1>15. PassFine(w)'
  BY <1>2, <1>4, <1>5, <1>7, <1>8, <1>9, <1>10, <1>1, <1>3 DEF PassFine, Mutating, Handling
<1>16. RiskFine(w)'
  <2> SUFFICES ASSUME ~worker[w].risky
               PROVE  RiskFine(w)'
    BY <1>9, <1>10 DEF RiskFine
  <2>1. Untried(o)
    BY <1>1, <1>2, <1>3, <1>4 DEF RiskFine
  <2>2. Unsent(o)
    BY <2>1 DEF Inv, EffectsFine, Harmless, Untried
  <2>3. /\ \A d \in Claim \ {c} : try'[o][d] = "none"
        /\ \A n \in 1 .. Len(request'[o]) : request'[o][n] = Void
    BY <1>5, <1>8, <2>1, <2>2 DEF Untried, Unsent
  <2> QED
    BY <1>9, <1>10, <2>3 DEF RiskFine, Mutating
<1>17. ASSUME NEW v \in Worker \ {w}
       PROVE  PassFine(v)' /\ RiskFine(v)'
  <2>1. worker'[v] = worker[v] /\ PassFine(v) /\ RiskFine(v) /\ TypeOK
    BY <1>10 DEF Others, Inv
  <2>2. worker[v].claim \in {NoClaim} \cup Claim /\ worker[v].cap \in {NoClaim} \cup Claim
        /\ worker[v].version \in Nat
    BY <2>1 DEF TypeOK
  <2>3. worker[v].claim # c
    BY <1>4, <2>1 DEF PassFine
  <2>4. worker[v].step \in Mutating \cup {"reconciling"} =>
          try'[worker[v].op][worker[v].cap] \notin {"none", "no_effect_proven"}
    <3> HAVE worker[v].step \in Mutating \cup {"reconciling"}
    <3>1. worker[v].op \in Op /\ worker[v].cap \in Claim
          /\ try[worker[v].op][worker[v].cap] \notin {"none", "no_effect_proven"}
      BY <2>1, <2>2 DEF PassFine, Mutating
    <3> QED
      BY <1>8, <3>1
  <2>5. PassFine(v)'
    <3>1. Sealed' => Sealed
      BY <1>10, <1>11, OthersFinish, SealedStays
    <3> QED
      BY <1>11, <2>1, <2>4, <3>1, PassStays
  <2>6. RiskFine(v)'
    <3>1. CASE worker[v].op = o
      <4>1. ~(worker[v].step = "claiming" /\ worker[v].version = attempt'.version)
        BY <1>7, <2>1, <2>2 DEF PassFine
      <4>2. worker[v].step \in Mutating => try'[o][worker[v].cap] # "active"
        <5> HAVE worker[v].step \in Mutating
        <5>1. worker[v].cap \in Claim /\ worker[v].cap # c
          BY <2>1, <2>2, <2>3 DEF PassFine
        <5>2. try[o][worker[v].cap] # "active"
          BY <1>4, <1>7, <5>1 DEF Inv, TriesFine
        <5> QED
          BY <1>8, <5>1, <5>2
      <4> QED
        BY <1>7, <2>1, <2>3, <3>1, <4>1, <4>2 DEF RiskFine, Mutating
    <3>2. CASE worker[v].op # o
      <4>1. worker[v].step # "idle" => worker[v].op \in Op
        BY <2>1 DEF PassFine
      <4>2. worker[v].step # "idle" => TriesPass(worker[v].op) /\ NothingSent(worker[v].op)
        BY <1>5, <1>8, <3>2, <4>1 DEF TriesPass, NothingSent
      <4> QED
        BY <1>11, <2>1, <4>2, RiskStays
    <3> QED
      BY <3>1, <3>2
  <2> QED
    BY <2>5, <2>6
<1> QED
  BY <1>10, <1>11, <1>12, <1>13, <1>14, <1>15, <1>16, <1>17 DEF Inv

\* Whoever proves that a try had no effect is the only one that began or sent
\* anything for the operation.
LEMMA ProveKeeps ==
  ASSUME Inv, NEW w \in Worker, Prove(w)
  PROVE  Inv' /\ Moves
<1> DEFINE c == worker[w].cap
<1>1. TypeOK /\ ClaimsFit /\ PassFine(w) /\ RiskFine(w)
      /\ try \in [Op -> [Claim -> TryState]]
  BY Typed DEF Inv
<1>2. worker[w].step = "proving" /\ attempt.state # "terminal" /\ Holds(c)
      /\ Closing(w, "failed_no_effect")
  BY DEF Prove
<1>3. PICK o \in Op : worker[w].op = o
  BY <1>1, <1>2 DEF PassFine
<1>4. /\ c \in Claim /\ c # NoClaim /\ attempt.claim = c /\ claim[c].state = "active"
      /\ claim[c].owner = w /\ ~worker[w].risky
  <2>1. c \in {NoClaim} \cup Claim
    BY <1>1 DEF TypeOK
  <2> QED
    BY <1>1, <1>2, <2>1 DEF Holds, PassFine, Mutating
<1>5. /\ try[o][c] = "active" /\ try' = [try EXCEPT ![o][c] = "no_effect_proven"]
      /\ UNCHANGED <<attempt, op, claim, effects, receipt, request, visible, fresh, over>>
  BY <1>3 DEF Prove, outside, clock
<1>6. /\ try' \in [Op -> [Claim -> TryState]]
      /\ \A s \in Op : \A d \in Claim :
           try'[s][d] = IF s = o /\ d = c THEN "no_effect_proven" ELSE try[s][d]
  <2>1. try[o] \in [Claim -> TryState]
    BY <1>1
  <2> QED
    BY <1>1, <1>4, <1>5, <2>1 DEF TryState
<1>7. attempt.outcome = "none" /\ attempt.version \in Nat
  BY <1>1, <1>2 DEF ClaimsFit, TypeOK
<1>8. Moves
  BY <1>1, <1>5, <1>7, RowsMove
<1>9. Others(w) /\ PassFine(w)' /\ RiskFine(w)'
  BY <1>1, <1>2, <1>3, <1>8, ClosingFine DEF UnderWay, NoEffect, Stale
<1>10. TypeOK'
  <2>1. worker' \in [Worker -> WorkerRow]
    BY <1>9 DEF Others
  <2> QED
    BY <1>1, <1>5, <1>6, <2>1 DEF TypeOK, WorkerRow
<1>11. ClaimsFit'
  <2>1. attempt.state # "absent"
    BY <1>1, <1>4 DEF ClaimsFit
  <2>2. \A d \in Claim : claim[d].state = "active" <=> attempt.claim = d
    BY <1>1 DEF ClaimsFit
  <2> QED
    BY <1>1, <1>5, <1>7, <2>1, <2>2 DEF ClaimsFit, NoEffect
<1>12. ASSUME NEW s \in Op
       PROVE  TriesFine(s)' /\ EffectsFine(s)'
  <2>1. TriesFine(s) /\ EffectsFine(s)
    BY DEF Inv
  <2>2. CASE s = o
    <3>1. Unsent(o)
      BY <1>1, <1>2, <1>3, <1>4, <1>5 DEF RiskFine, Mutating, Unsent
    <3>2. EffectsFine(s)'
      <4>1. Sealed' => Sealed
        BY <1>8, <1>9, OthersFinish, SealedStays
      <4> QED
        BY <1>5, <2>1, <2>2, <3>1, <4>1 DEF EffectsFine, Unsent, Born, Canonical, InOrder
    <3>3. op[o] = "in_flight" /\ \A d \in Claim : try'[o][d] # "active"
      BY <1>4, <1>5, <1>6, <1>7, <2>1, <2>2 DEF TriesFine
    <3>4. TriesFine(s)'
      BY <1>4, <1>5, <1>6, <2>1, <2>2, <3>3 DEF TriesFine, NoEffect
    <3> QED
      BY <3>2, <3>4
  <2>3. CASE s # o
    <3>1. TriesPass(s) /\ \A d \in Claim : try'[s][d] = try[s][d]
      BY <1>6, <2>3 DEF TriesPass
    <3>2. EffectsFine(s)'
      <4>1. Sealed' => Sealed
        BY <1>8, <1>9, OthersFinish, SealedStays DEF Inv
      <4> QED
        BY <1>5, <2>1, <3>1, <4>1, EffectsStay
    <3>3. TriesFine(s)'
      BY <1>5, <2>1, <3>1, HarmlessStays DEF TriesFine
    <3> QED
      BY <3>2, <3>3
  <2> QED
    BY <2>2, <2>3
<1>13. ASSUME NEW v \in Worker \ {w}
       PROVE  PassFine(v)' /\ RiskFine(v)'
  <2>1. worker'[v] = worker[v] /\ PassFine(v) /\ RiskFine(v) /\ TypeOK
    BY <1>9 DEF Others, Inv
  <2>2. worker[v].claim \in {NoClaim} \cup Claim /\ worker[v].cap \in {NoClaim} \cup Claim
    BY <2>1 DEF TypeOK
  <2>3. worker[v].claim # c
    BY <1>4, <2>1 DEF PassFine
  <2>4. worker[v].step \in Mutating \cup {"reconciling"} =>
          worker[v].op \in Op /\ worker[v].cap \in Claim /\ worker[v].cap # c
    BY <1>4, <2>1, <2>2, <2>3 DEF PassFine, Mutating
  <2>5. PassFine(v)'
    <3>1. worker[v].step \in Mutating \cup {"reconciling"} =>
            try[worker[v].op][worker[v].cap] \notin {"none", "no_effect_proven"}
      BY <2>1 DEF PassFine
    <3>2. worker[v].step \in Mutating \cup {"reconciling"} =>
            try'[worker[v].op][worker[v].cap] \notin {"none", "no_effect_proven"}
      BY <1>6, <2>4, <3>1
    <3>3. Sealed' => Sealed
      BY <1>8, <1>9, OthersFinish, SealedStays
    <3> QED
      BY <1>8, <2>1, <3>2, <3>3, PassStays
  <2>6. RiskFine(v)'
    <3>1. CASE worker[v].op = o
      <4>1. ~Harmless(o) /\ ~Untried(o)
        BY <1>4, <1>5 DEF Harmless, Untried
      <4>2. worker[v].step \in Mutating => try'[o][worker[v].cap] # "active"
        BY <1>4, <1>6, <1>7, <2>4 DEF Inv, TriesFine
      <4> QED
        BY <1>5, <2>1, <3>1, <4>1, <4>2 DEF RiskFine, Mutating
    <3>2. CASE worker[v].op # o
      <4>1. worker[v].step # "idle" => worker[v].op \in Op
        BY <2>1 DEF PassFine
      <4>2. worker[v].step # "idle" => TriesPass(worker[v].op) /\ NothingSent(worker[v].op)
        BY <1>5, <1>6, <3>2, <4>1 DEF TriesPass, NothingSent
      <4> QED
        BY <1>8, <2>1, <4>2, RiskStays
    <3> QED
      BY <3>1, <3>2
  <2> QED
    BY <2>5, <2>6
<1> QED
  BY <1>8, <1>9, <1>10, <1>11, <1>12, <1>13 DEF Inv

\* The receipt names the first report, and the last required one ends the attempt.
LEMMA CompleteKeeps ==
  ASSUME Inv, NEW w \in Worker, Complete(w)
  PROVE  /\ Inv' /\ Moves
         /\ UNCHANGED <<request, visible, fresh>>
         /\ attempt.state = "publishing" /\ effects[worker[w].op] # <<>>
         /\ \/ attempt'.state = "terminal" /\ attempt'.outcome = "succeeded"
            \/ attempt'.state = attempt.state /\ attempt'.outcome = attempt.outcome
<1> DEFINE c == worker[w].claim  b == worker[w].object
<1>1. TypeOK /\ ClaimsFit /\ PassFine(w) /\ attempt \in AttemptRow
      /\ claim \in [Claim -> ClaimRow] /\ receipt \in [Op -> {0} \cup Object]
      /\ try \in [Op -> [Claim -> TryState]] /\ op \in [Op -> OpStates]
  BY Typed DEF Inv
<1>2. /\ worker[w].step = "finishing" /\ attempt.state # "terminal" /\ Holds(c)
      /\ End(w)
      /\ UNCHANGED <<effects, request, visible, fresh, over>>
  BY DEF Complete, outside, clock
<1>3. PICK o \in Op : worker[w].op = o
  BY <1>1, <1>2 DEF PassFine
<1> DEFINE receipts == [receipt EXCEPT ![o] = b]
           done == \A r \in Required : receipts[r] # 0
<1>4. /\ c \in Claim /\ c # NoClaim /\ attempt.claim = c /\ claim[c].state = "active"
  <2>1. c \in {NoClaim} \cup Claim
    BY <1>1 DEF TypeOK
  <2> QED
    BY <1>2, <2>1 DEF Holds
<1>5. attempt.state = "publishing" /\ attempt.outcome = "none" /\ attempt.version \in Nat
  BY <1>1, <1>2, <1>4 DEF ClaimsFit, AttemptRow
<1>6. /\ Canonical(o) = b /\ receipt' = receipts /\ op' = [op EXCEPT ![o] = "completed"]
      /\ try' = [try EXCEPT ![o] =
           [d \in Claim |-> IF try[o][d] \in {"none", "no_effect_proven"} THEN try[o][d]
                            ELSE IF d = c THEN "completed" ELSE "stale"]]
      /\ attempt' = [state |-> IF done THEN "terminal" ELSE "publishing",
                     version |-> attempt.version + 1,
                     claim |-> IF done THEN NoClaim ELSE c,
                     outcome |-> IF done THEN "succeeded" ELSE "none"]
      /\ claim' = IF done THEN [claim EXCEPT ![c].state = "released"] ELSE claim
  BY <1>3 DEF Complete
<1>7. effects[o] # <<>> /\ b \in Object
  <2>1. effects[o] # <<>>
    BY <1>1, <1>2, <1>3 DEF PassFine
  <2>2. effects[o] \in Seq(ReportRow)
    BY <1>1 DEF TypeOK, ReportRow
  <2>3. effects[o][1] \in ReportRow
    BY <2>1, <2>2, FirstReport
  <2> QED
    BY <1>6, <2>1, <2>3 DEF Canonical, ReportRow
<1>8. /\ receipt' \in [Op -> {0} \cup Object] /\ receipt'[o] = b /\ b # 0
      /\ \A s \in Op \ {o} : receipt'[s] = receipt[s]
  BY <1>1, <1>6, <1>7 DEF Object
<1>9. /\ op' \in [Op -> OpStates] /\ op'[o] = "completed" /\ \A s \in Op \ {o} : op'[s] = op[s]
  BY <1>1, <1>6 DEF OpStates
<1>10. /\ try' \in [Op -> [Claim -> TryState]]
       /\ \A s \in Op \ {o} : try'[s] = try[s]
       /\ \A d \in Claim : try'[o][d] =
            IF try[o][d] \in {"none", "no_effect_proven"} THEN try[o][d]
            ELSE IF d = c THEN "completed" ELSE "stale"
  <2>1. try[o] \in [Claim -> TryState]
    BY <1>1
  <2> QED
    BY <1>1, <1>6, <2>1 DEF TryState
<1>11. \A s \in Op : TriesPass(s) /\ NothingSent(s)
  <2> TAKE s \in Op
  <2>1. NothingSent(s)
    BY <1>2 DEF NothingSent
  <2> QED
    BY <1>10, <2>1 DEF TriesPass
<1>12. /\ claim' \in [Claim -> ClaimRow]
       /\ \A d \in Claim : claim'[d].owner = claim[d].owner
       /\ \A d \in Claim \ {c} : claim'[d].state = claim[d].state
       /\ claim'[c].state = IF done THEN "released" ELSE "active"
  BY <1>1, <1>4, <1>6 DEF ClaimRow
<1>13. /\ attempt' \in AttemptRow /\ attempt'.version = attempt.version + 1
       /\ IF done THEN /\ attempt'.state = "terminal" /\ attempt'.claim = NoClaim
                       /\ attempt'.outcome = "succeeded"
          ELSE attempt'.state = "publishing" /\ attempt'.claim = c /\ attempt'.outcome = "none"
  BY <1>4, <1>5, <1>6 DEF AttemptRow, Outcomes
<1> HIDE DEF done
<1>14. Moves
  <2>1. attempt'.version \in Nat /\ attempt'.version >= attempt.version
        /\ attempt'.version # attempt.version
    BY <1>5, <1>13
  <2>2. attempt'.state # "absent" /\ (attempt'.claim = c \/ attempt'.claim = NoClaim)
    BY <1>13
  <2>3. ASSUME NEW d \in Claim, claim[d].state # "free"
        PROVE  /\ claim'[d].state # "free" /\ claim'[d].owner = claim[d].owner
               /\ attempt'.claim = d => attempt.claim = d
               /\ claim[d].state \in {"expired", "released"} =>
                    claim'[d].state \in {"expired", "released"}
    <3>1. d # NoClaim
      BY DEF Claim, NoClaim
    <3> QED
      BY <1>4, <1>12, <2>2, <2>3, <3>1
  <2>4. Finishing
    BY <1>2, <1>4 DEF Finishing
  <2> QED
    BY <1>1, <1>2, <2>1, <2>2, <2>3, <2>4, RowsMove
<1>15. Others(w) /\ PassFine(w)' /\ RiskFine(w)'
  BY <1>1, <1>2, Ended, IdleFine
<1>16. TypeOK'
  <2>1. worker' \in [Worker -> WorkerRow]
    BY <1>15 DEF Others
  <2> QED
    BY <1>1, <1>2, <1>8, <1>9, <1>10, <1>12, <1>13, <2>1
    DEF TypeOK, AttemptRow, ClaimRow, WorkerRow, OpStates
<1>17. ClaimsFit'
  <2>1. \A d \in Claim : claim'[d].state = "active" <=> attempt'.claim = d
    <3> TAKE d \in Claim
    <3>1. d # NoClaim /\ (claim[d].state = "active" <=> d = c)
      BY <1>1, <1>4 DEF ClaimsFit, Claim, NoClaim
    <3>2. CASE done
      BY <1>12, <1>13, <3>1, <3>2
    <3>3. CASE ~done
      BY <1>12, <1>13, <3>1, <3>3
    <3> QED
      BY <3>2, <3>3
  <2>2. attempt'.outcome \notin NoEffect
    BY <1>13 DEF NoEffect
  <2>3. attempt'.outcome = "succeeded" => \A r \in Required : receipt'[r] # 0
    BY <1>6, <1>13 DEF done
  <2> QED
    BY <1>4, <1>13, <2>1, <2>2, <2>3 DEF ClaimsFit
<1>18. ASSUME NEW s \in Op
       PROVE  TriesFine(s)' /\ EffectsFine(s)'
  <2>1. /\ TriesFine(s) /\ EffectsFine(s)
        /\ (Harmless(s)' <=> Harmless(s)) /\ (Untried(s)' <=> Untried(s))
    BY <1>11, HarmlessStays DEF Inv
  <2>2. receipt'[s] # 0 => effects[s] # <<>> /\ (InOrder(s) => receipt'[s] = Canonical(s))
    BY <1>6, <1>7, <1>8, <2>1 DEF EffectsFine
  <2>3. EffectsFine(s)'
    <3>1. Sealed' => Sealed
      BY <1>14, <1>15, OthersFinish, SealedStays
    <3> QED
      BY <1>2, <2>1, <2>2, <3>1 DEF EffectsFine, Unsent, Born, Canonical, InOrder
  <2>4. CASE s = o
    <3>1. \A d \in Claim : try'[o][d] # "active"
      BY <1>10
    <3>2. \A d \in Claim : claim'[d].state = "free" => try'[o][d] = "none"
      BY <1>4, <1>10, <1>12, <2>1, <2>4 DEF TriesFine
    <3> QED
      BY <1>9, <2>3, <2>4, <3>1, <3>2 DEF TriesFine, NoEffect, Active
  <2>5. CASE s # o
    <3>1. \A d \in Claim : claim'[d].state = "free" => try'[s][d] = "none"
      BY <1>4, <1>10, <1>12, <2>1, <2>5 DEF TriesFine
    <3>2. ASSUME NEW d \in Claim, try'[s][d] = "active"
          PROVE  /\ op'[s] = "in_flight"
                 /\ attempt'.claim = d \/ (attempt'.outcome = "succeeded" /\ s \notin Required)
      <4>1. op[s] = "in_flight" /\ attempt.claim = d
        BY <1>5, <1>10, <2>1, <2>5, <3>2 DEF TriesFine
      <4>2. receipt'[s] = 0
        BY <1>8, <2>1, <2>5, <4>1 DEF TriesFine, Active
      <4>3. done => s \notin Required
        BY <1>6, <4>2 DEF done
      <4> QED
        BY <1>4, <1>9, <1>13, <2>5, <4>1, <4>3
    <3>3. receipt'[s] # 0 => op'[s] \notin Active
      BY <1>8, <1>9, <2>1, <2>5 DEF TriesFine
    <3>4. op'[s] = op[s] /\ \A d \in Claim : try'[s][d] = try[s][d]
      BY <1>9, <1>10, <2>5
    <3> QED
      BY <1>5, <2>1, <2>3, <3>1, <3>2, <3>3, <3>4 DEF TriesFine
  <2> QED
    BY <2>4, <2>5
<1> QED
  BY <1>2, <1>3, <1>5, <1>7, <1>11, <1>13, <1>14, <1>15, <1>16, <1>17, <1>18, OthersKeep DEF Inv

\* An attempt that closes leaves no try active and no operation open, and calls
\* without effect only what was never tried or was proven to have none.
LEMMA CloseFacts ==
  ASSUME Inv, attempt.state # "terminal", NEW o \in Op,
         NEW outcome \in NoEffect \cup Stale \cup {"terminal_unknown"}, CloseAttempt(o, outcome),
         outcome \in NoEffect => AtRisk = {}
  PROVE  /\ attempt' \in AttemptRow
         /\ attempt'.state = "terminal" /\ attempt'.version = attempt.version + 1
         /\ attempt'.claim = NoClaim /\ attempt'.outcome = outcome
         /\ op' \in [Op -> OpStates] /\ try' \in [Op -> [Claim -> TryState]]
         /\ \A s \in Op :
              /\ TriesPass(s)
              /\ \A c \in Claim : try'[s][c] # "active"
              /\ op'[s] \notin Active
              /\ op'[s] \in NoEffect => Harmless(s)
<1> DEFINE closed == Settled(o, outcome)
           plan == SiblingPlan(o, outcome)
<1>1. /\ attempt \in AttemptRow /\ attempt.version \in Nat
      /\ try \in [Op -> [Claim -> TryState]] /\ op \in [Op -> OpStates]
  BY Typed DEF Inv, AttemptRow
<1>2. /\ \A s \in Op \ DOMAIN closed : op[s] \notin Active
      /\ op' = [s \in Op |-> IF s \in DOMAIN closed THEN closed[s] ELSE op[s]]
      /\ try' = [s \in Op |-> [c \in Claim |->
           IF s \notin DOMAIN closed \/ try[s][c] \in {"none", "completed", "no_effect_proven"}
           THEN try[s][c]
           ELSE IF closed[s] = "terminal_unknown" THEN "terminal_unknown" ELSE "stale"]]
      /\ attempt' = [state |-> "terminal", version |-> attempt.version + 1,
                     claim |-> NoClaim, outcome |-> outcome]
  BY DEF CloseAttempt
<1>3. /\ attempt' \in AttemptRow
      /\ attempt'.state = "terminal" /\ attempt'.version = attempt.version + 1
      /\ attempt'.claim = NoClaim /\ attempt'.outcome = outcome
  BY <1>1, <1>2 DEF AttemptRow, Outcomes
<1>4. /\ DOMAIN closed = {o} \cup DOMAIN plan /\ closed[o] = outcome
      /\ \A s \in DOMAIN plan \ {o} : closed[s] = plan[s]
  BY DEF Settled
<1>5. ASSUME NEW s \in Op, s \in DOMAIN closed
      PROVE  /\ closed[s] \in NoEffect \cup Stale \cup {"terminal_unknown"}
             /\ closed[s] \in NoEffect => Harmless(s)
  <2>1. CASE s = o
    <3>1. outcome \in NoEffect => Harmless(o)
      BY HarmlessUnlessAtRisk
    <3> QED
      BY <1>4, <2>1, <3>1
  <2>2. CASE s # o
    <3>1. s \in DOMAIN plan /\ closed[s] = plan[s]
      BY <1>4, <1>5, <2>2
    <3>2. plan[s] = IF op[s] = "planned"
                    THEN IF outcome \in NoEffect THEN outcome ELSE "superseded_no_effect"
                    ELSE IF s \in AtRisk THEN "terminal_unknown" ELSE "failed_no_effect"
      BY <3>1 DEF SiblingPlan
    <3>3. op[s] = "planned" => Harmless(s)
      BY DEF Inv, TriesFine, Untried, Harmless
    <3>4. s \notin AtRisk => Harmless(s)
      BY HarmlessUnlessAtRisk
    <3> QED
      BY <3>1, <3>2, <3>3, <3>4 DEF NoEffect
  <2> QED
    BY <2>1, <2>2
<1> HIDE DEF closed, plan
<1>6. /\ op' \in [Op -> OpStates] /\ try' \in [Op -> [Claim -> TryState]]
  BY <1>1, <1>2, <1>5 DEF OpStates, TryState
<1>7. ASSUME NEW s \in Op
      PROVE  /\ TriesPass(s)
             /\ \A c \in Claim : try'[s][c] # "active"
             /\ op'[s] \notin Active
             /\ op'[s] \in NoEffect => Harmless(s)
  <2>1. TriesFine(s)
    BY DEF Inv
  <2>2. CASE s \in DOMAIN closed
    <3>1. op'[s] = closed[s] /\ \A c \in Claim : try'[s][c] =
            IF try[s][c] \in {"none", "completed", "no_effect_proven"} THEN try[s][c]
            ELSE IF closed[s] = "terminal_unknown" THEN "terminal_unknown" ELSE "stale"
      BY <1>2, <2>2
    <3> QED
      BY <1>5, <2>2, <3>1 DEF TriesPass, Active, NoEffect, Stale
  <2>3. CASE s \notin DOMAIN closed
    <3>1. op'[s] = op[s] /\ op[s] \notin Active /\ \A c \in Claim : try'[s][c] = try[s][c]
      BY <1>2, <2>3
    <3> QED
      BY <2>1, <3>1 DEF TriesPass, TriesFine, Active
  <2> QED
    BY <2>2, <2>3
<1> QED
  BY <1>3, <1>6, <1>7

\* The close of an attempt, with its claim or without one.
LEMMA ClosingKeeps ==
  ASSUME Inv, attempt.state \notin {"absent", "terminal"}, NEW w \in Worker, NEW o \in Op,
         NEW outcome \in NoEffect \cup Stale \cup {"terminal_unknown"}, CloseAttempt(o, outcome),
         outcome \in NoEffect => AtRisk = {}, End(w),
         UNCHANGED <<effects, receipt, request, visible, fresh, over>>,
         claim' = claim \/ (attempt.claim # NoClaim /\
                            claim' = [claim EXCEPT ![attempt.claim].state = "released"]),
         attempt.claim # NoClaim => claim' # claim
  PROVE  Inv' /\ Moves
<1> DEFINE c == attempt.claim
<1>1. TypeOK /\ ClaimsFit /\ attempt \in AttemptRow /\ claim \in [Claim -> ClaimRow]
      /\ attempt.version \in Nat /\ c \in {NoClaim} \cup Claim
  BY Typed DEF Inv, AttemptRow
<1>2. /\ attempt' \in AttemptRow
      /\ attempt'.state = "terminal" /\ attempt'.version = attempt.version + 1
      /\ attempt'.claim = NoClaim /\ attempt'.outcome = outcome
      /\ op' \in [Op -> OpStates] /\ try' \in [Op -> [Claim -> TryState]]
      /\ \A s \in Op :
           /\ TriesPass(s)
           /\ \A d \in Claim : try'[s][d] # "active"
           /\ op'[s] \notin Active
           /\ op'[s] \in NoEffect => Harmless(s)
  BY CloseFacts
<1>3. outcome \notin {"none", "succeeded"}
  BY DEF NoEffect, Stale
<1>4. /\ claim' \in [Claim -> ClaimRow]
      /\ \A d \in Claim : claim'[d].owner = claim[d].owner
      /\ \A d \in Claim : claim'[d].state = IF d = c THEN "released" ELSE claim[d].state
  <2>1. CASE c = NoClaim
    <3>1. claim' = claim /\ \A d \in Claim : d # c
      BY <2>1 DEF Claim, NoClaim
    <3> QED
      BY <1>1, <3>1
  <2>2. CASE c # NoClaim
    <3>1. claim' = [claim EXCEPT ![c].state = "released"] /\ c \in Claim
      BY <1>1, <2>2
    <3> QED
      BY <1>1, <3>1 DEF ClaimRow
  <2> QED
    BY <2>1, <2>2
<1>5. \A d \in Claim : claim[d].state = "active" <=> d = c
  BY <1>1 DEF ClaimsFit
<1>6. Moves
  <2>1. \A d \in Claim : d # NoClaim
    BY DEF Claim, NoClaim
  <2>2. ASSUME NEW d \in Claim, claim[d].state # "free"
        PROVE  /\ claim'[d].state # "free" /\ claim'[d].owner = claim[d].owner
               /\ attempt'.claim = d => attempt.claim = d
               /\ claim[d].state \in {"expired", "released"} =>
                    claim'[d].state \in {"expired", "released"}
    BY <1>2, <1>4, <2>1, <2>2
  <2>3. attempt'.version \in Nat /\ attempt'.version >= attempt.version
        /\ attempt'.version # attempt.version
    BY <1>1, <1>2
  <2> QED
    BY <1>1, <1>2, <1>3, <2>2, <2>3, RowsMove
<1>7. Others(w) /\ PassFine(w)' /\ RiskFine(w)'
  BY <1>1, Ended, IdleFine
<1>8. TypeOK'
  <2>1. worker' \in [Worker -> WorkerRow]
    BY <1>7 DEF Others
  <2> QED
    BY <1>1, <1>2, <1>4, <2>1 DEF TypeOK, AttemptRow, ClaimRow, WorkerRow, OpStates
<1>9. ClaimsFit'
  <2>1. outcome \in NoEffect => \A s \in Op : Harmless(s)'
    BY <1>2, HarmlessUnlessAtRisk, HarmlessStays
  <2>2. \A d \in Claim : d # NoClaim /\ claim'[d].state # "active"
    BY <1>4, <1>5 DEF Claim, NoClaim
  <2> QED
    BY <1>2, <1>3, <2>1, <2>2 DEF ClaimsFit
<1>10. ASSUME NEW s \in Op
       PROVE  TriesFine(s)' /\ EffectsFine(s)'
  <2>1. TriesFine(s) /\ EffectsFine(s) /\ (Harmless(s)' <=> Harmless(s))
    BY <1>2, HarmlessStays DEF Inv
  <2>2. EffectsFine(s)'
    <3>1. Sealed' => Sealed
      BY <1>6, <1>7, OthersFinish, SealedStays DEF Inv
    <3> QED
      BY <1>2, <1>3, <2>1, <3>1, EffectsStay
  <2>3. \A d \in Claim : claim'[d].state = "free" => try'[s][d] = "none"
    BY <1>2, <1>4, <2>1 DEF TriesFine, TriesPass
  <2> QED
    BY <1>2, <2>1, <2>2, <2>3 DEF TriesFine, Active
<1>11. \A s \in Op : TriesPass(s) /\ NothingSent(s)
  BY <1>2 DEF NothingSent
<1> QED
  BY <1>6, <1>7, <1>8, <1>9, <1>10, <1>11, OthersKeep DEF Inv

LEMMA CloseKeeps ==
  ASSUME Inv, NEW w \in Worker, Close(w)
  PROVE  /\ Inv' /\ Moves
         /\ attempt.state = "publishing" /\ attempt'.state = "terminal"
         /\ attempt'.outcome = worker[w].outcome
         /\ UNCHANGED request
<1> DEFINE c == worker[w].claim
<1>1. TypeOK /\ ClaimsFit /\ PassFine(w) /\ claim \in [Claim -> ClaimRow]
  BY Typed DEF Inv
<1>2. /\ worker[w].step = "closing" /\ attempt.state # "terminal" /\ Holds(c)
      /\ claim' = [claim EXCEPT ![c].state = "released"] /\ End(w)
      /\ UNCHANGED <<effects, receipt, request, visible, fresh, over>>
      /\ worker[w].outcome \in NoEffect => AtRisk = {}
      /\ CloseAttempt(worker[w].op, worker[w].outcome)
  BY DEF Close, Closable, outside, clock
<1>3. worker[w].op \in Op /\ worker[w].outcome \in NoEffect \cup Stale \cup {"terminal_unknown"}
  BY <1>1, <1>2 DEF PassFine
<1>4. attempt.claim = c /\ c # NoClaim /\ c \in Claim /\ claim[c].state = "active"
  BY <1>1, <1>2 DEF Holds, TypeOK
<1>5. attempt.state = "publishing"
  BY <1>1, <1>4 DEF ClaimsFit
<1>6. claim' # claim
  <2>1. claim'[c].state = "released"
    BY <1>1, <1>2, <1>4 DEF ClaimRow
  <2> QED
    BY <1>4, <2>1
<1>7. Inv' /\ Moves
  BY <1>2, <1>3, <1>4, <1>5, <1>6, ClosingKeeps
<1>8. attempt'.state = "terminal" /\ attempt'.outcome = worker[w].outcome
  BY <1>2 DEF CloseAttempt
<1> QED
  BY <1>2, <1>5, <1>7, <1>8

\* Without a claim, the version read at the first look still being the attempt's
\* means that nobody has claimed or closed it since.
LEMMA CloseUnclaimedKeeps ==
  ASSUME Inv, NEW w \in Worker, CloseUnclaimed(w)
  PROVE  /\ Inv' /\ Moves
         /\ attempt.state = "pending" /\ attempt'.state = "terminal"
         /\ attempt'.outcome = "superseded_no_effect" /\ AtRisk = {}
         /\ UNCHANGED request
<1>1. TypeOK /\ ClaimsFit /\ PassFine(w)
  BY DEF Inv
<1>2. /\ worker[w].step = "unclaimed" /\ attempt.version = worker[w].version
      /\ attempt.claim = NoClaim /\ AtRisk = {} /\ End(w) /\ claim' = claim
      /\ UNCHANGED <<effects, receipt, request, visible, fresh, over>>
      /\ CloseAttempt(worker[w].op, "superseded_no_effect")
  BY DEF CloseUnclaimed, outside, clock
<1>3. attempt.state = "pending" /\ worker[w].op \in Op
  BY <1>1, <1>2 DEF PassFine, ClaimsFit
<1>4. "superseded_no_effect" \in NoEffect \cup Stale \cup {"terminal_unknown"}
  BY DEF NoEffect
<1>5. Inv' /\ Moves
  BY <1>2, <1>3, <1>4, ClosingKeeps
<1>6. attempt'.state = "terminal" /\ attempt'.outcome = "superseded_no_effect"
  BY <1>2 DEF CloseAttempt
<1> QED
  BY <1>2, <1>3, <1>5, <1>6

-----------------------------------------------------------------------------
(* What GitHub makes of the mutations. *)

LEMMA OutsideMoves ==
  ASSUME TypeOK, UNCHANGED <<attempt, claim>>, fresh' => fresh,
         \A o \in Op :
           /\ Born(o) \subseteq Born(o)' /\ Len(request[o]) <= Len(request'[o])
           /\ ReportsStay(o)
  PROVE  Moves
<1>1. attempt.version \in Nat
  BY DEF TypeOK
<1> QED
  BY <1>1 DEF Moves

\* A mutation on its way comes to an end.
LEMMA FateFacts ==
  ASSUME TypeOK, NEW o \in Op, NEW n \in 1 .. Len(request[o]), request[o][n] = Flying,
         NEW x \in {Void} \cup Object, request' = [request EXCEPT ![o][n] = x]
  PROVE  /\ request' \in [Op -> Seq({Flying, Void} \cup Object)]
         /\ request'[o][n] = x
         /\ \A i \in 1 .. Len(request[o]) : i # n => request'[o][i] = request[o][i]
         /\ \A s \in Op :
              /\ NothingSent(s)
              /\ Born(s)' = Born(s) \cup (IF s = o THEN {x} \ {Void} ELSE {})
              /\ Unsent(s) => s # o /\ Unsent(s)'
<1>1. request \in [Op -> Seq({Flying, Void} \cup Object)]
  BY DEF TypeOK
<1>2. request[o] \in Seq({Flying, Void} \cup Object) /\ x \in {Flying, Void} \cup Object
  BY <1>1
<1> DEFINE e == [request[o] EXCEPT ![n] = x]
<1>3. /\ e \in Seq({Flying, Void} \cup Object) /\ Len(e) = Len(request[o])
      /\ \A i \in 1 .. Len(request[o]) : e[i] = IF i = n THEN x ELSE request[o][i]
  BY <1>2, ExceptSeq
<1>4. request'[o] = e /\ \A s \in Op \ {o} : request'[s] = request[s]
  BY <1>1
<1>5. request' \in [Op -> Seq({Flying, Void} \cup Object)]
  BY <1>1, <1>3
<1> HIDE DEF e
<1>6. Flying # Void /\ 0 \notin Object /\ -1 \notin Object
  BY DEF Flying, Void, Object
<1>7. ASSUME NEW s \in Op
      PROVE  /\ NothingSent(s)
             /\ Born(s)' = Born(s) \cup (IF s = o THEN {x} \ {Void} ELSE {})
             /\ Unsent(s) => s # o /\ Unsent(s)'
  <2>1. CASE s = o
    <3>1. NothingSent(s)
      BY <1>3, <1>4, <1>6, <2>1 DEF NothingSent
    <3>2. ~Unsent(s)
      BY <1>6, <2>1 DEF Unsent
    <3>3. Born(s)' = {e[i] : i \in 1 .. Len(request[o])} \ {Flying, Void}
      BY <1>3, <1>4, <2>1 DEF Born
    <3>4. x # Flying
      BY <1>6 DEF Flying
    <3>5. Born(s)' = Born(s) \cup ({x} \ {Void})
      BY <1>3, <2>1, <3>3, <3>4 DEF Born
    <3> QED
      BY <2>1, <3>1, <3>2, <3>5
  <2>2. CASE s # o
    BY <1>4, <2>2 DEF NothingSent, Born, Unsent
  <2> QED
    BY <2>1, <2>2
<1> QED
  BY <1>3, <1>4, <1>5, <1>7

\* Only an operation at risk has a mutation on its way, so its end denies nothing.
LEMMA FateKeeps ==
  ASSUME Inv, NEW o \in Op, NEW n \in 1 .. Len(request[o]), request[o][n] = Flying,
         NEW x \in {Void} \cup Object, request' = [request EXCEPT ![o][n] = x],
         visible' = IF x = Void THEN visible ELSE [visible EXCEPT ![o] = visible[o] \cup {x}],
         UNCHANGED <<rows, clock>>, worker' \in [Worker -> WorkerRow], FinishFresh
  PROVE  /\ Moves /\ (Sealed' => Sealed) /\ TypeOK' /\ ClaimsFit'
         /\ \A s \in Op : TriesFine(s)' /\ EffectsFine(s)' /\ TriesPass(s) /\ NothingSent(s)
         /\ ~Harmless(o)
<1>1. TypeOK /\ visible \in [Op -> SUBSET Object]
  BY DEF Inv, TypeOK
<1>2. /\ attempt' = attempt /\ op' = op /\ claim' = claim /\ try' = try /\ effects' = effects
      /\ receipt' = receipt /\ fresh' = fresh /\ over' = over
  BY DEF rows, clock
<1>3. /\ request' \in [Op -> Seq({Flying, Void} \cup Object)]
      /\ \A s \in Op :
           /\ NothingSent(s)
           /\ Born(s)' = Born(s) \cup (IF s = o THEN {x} \ {Void} ELSE {})
           /\ Unsent(s) => s # o /\ Unsent(s)'
  BY <1>1, FateFacts
<1>4. /\ visible' \in [Op -> SUBSET Object]
      /\ \A s \in Op : visible'[s] = visible[s] \cup (IF s = o THEN {x} \ {Void} ELSE {})
  BY <1>1
<1>5. Moves /\ (Sealed' => Sealed)
  BY <1>1, <1>2, <1>3, OutsideMoves, SealedStays DEF NothingSent, ReportsStay, Canonical, InOrder
<1>6. TypeOK'
  BY <1>1, <1>2, <1>3, <1>4 DEF TypeOK, WorkerRow
<1>7. ClaimsFit' /\ \A s \in Op : TriesFine(s)' /\ TriesPass(s)
  BY <1>2 DEF Inv, ClaimsFit, TriesFine, TriesPass, Harmless, Untried
<1>8. ASSUME NEW s \in Op
      PROVE  EffectsFine(s)'
  <2>1. EffectsFine(s)
    BY DEF Inv
  <2>2. Harmless(s)' => Unsent(s)'
    BY <1>2, <1>3, <2>1 DEF EffectsFine, Harmless
  <2>3. Canonical(s)' = Canonical(s) /\ (InOrder(s)' <=> InOrder(s))
    BY <1>2 DEF Canonical, InOrder
  <2>4. /\ visible'[s] \subseteq Born(s)'
        /\ visible[s] = Born(s) => visible'[s] = Born(s)'
        /\ visible[s] \subseteq visible'[s]
    BY <1>3, <1>4, <2>1 DEF EffectsFine
  <2> HIDE DEF Born, Canonical
  <2>5. Sealed' =>
          /\ effects[s] = <<>> => visible'[s] = Born(s)'
          /\ InOrder(s) => Canonical(s) \in visible'[s]
    BY <1>5, <2>1, <2>4 DEF EffectsFine
  <2> QED
    BY <1>2, <2>1, <2>2, <2>3, <2>4, <2>5 DEF EffectsFine
<1>9. ~Harmless(o)
  BY <1>3 DEF Inv, EffectsFine
<1> QED
  BY <1>3, <1>5, <1>6, <1>7, <1>8, <1>9


\* A mutation creates an object, whoever has long given up on it, or it is gone
\* without a trace.
LEMMA FlightsKeep ==
  ASSUME Inv, NEW o \in Op, Land(o) \/ Vanish(o)
  PROVE  /\ Inv' /\ UNCHANGED <<rows, clock, worker>>
         /\ \/ ~Harmless(o) /\ Born(o)' # {} /\ \A s \in Op \ {o} : Born(s)' = Born(s)
            \/ \A s \in Op : Born(s)' = Born(s)
<1>1. TypeOK /\ UNCHANGED <<rows, clock, worker>> /\ request[o] \in Seq({Flying, Void} \cup Object)
  BY DEF Inv, TypeOK, Land, Vanish
<1>2. worker' \in [Worker -> WorkerRow] /\ \A v \in Worker : worker'[v] = worker[v]
  BY <1>1, Typed
<1>3. Cardinality(Born(o)) + 1 \in Object /\ Void \notin Object
  BY <1>1, BornFinite DEF Void, Object
<1>4. PICK n \in 1 .. Len(request[o]), x \in {Void} \cup Object :
        /\ request[o][n] = Flying /\ request' = [request EXCEPT ![o][n] = x]
        /\ visible' = IF x = Void THEN visible ELSE [visible EXCEPT ![o] = visible[o] \cup {x}]
  <2>1. CASE Land(o)
    <3> DEFINE x == Cardinality(Born(o)) + 1
    <3>1. PICK n \in 1 .. Len(request[o]) :
            /\ request[o][n] = Flying /\ request' = [request EXCEPT ![o][n] = x]
            /\ visible' = [visible EXCEPT ![o] = visible[o] \cup {x}]
      BY <2>1 DEF Land
    <3> HIDE DEF x
    <3>2. x \in Object /\ x # Void
      BY <1>3 DEF x
    <3> QED
      BY <3>1, <3>2
  <2>2. CASE Vanish(o)
    <3>1. PICK n \in 1 .. Len(request[o]) :
            /\ request[o][n] = Flying /\ request' = [request EXCEPT ![o][n] = Void]
            /\ visible' = visible
      BY <2>2 DEF Vanish
    <3> QED
      BY <3>1
  <2> QED
    BY <2>1, <2>2
<1>5. /\ Moves /\ (Sealed' => Sealed) /\ TypeOK' /\ ClaimsFit'
      /\ \A s \in Op : TriesFine(s)' /\ EffectsFine(s)' /\ TriesPass(s) /\ NothingSent(s)
      /\ ~Harmless(o)
  BY <1>1, <1>2, <1>4, FateKeeps DEF FinishFresh
<1>6. \A v \in Worker : PassFine(v)' /\ RiskFine(v)'
  BY <1>2, <1>5, StillFine
<1>7. \A s \in Op : Born(s)' = Born(s) \cup (IF s = o THEN {x} \ {Void} ELSE {})
  BY <1>1, <1>4, FateFacts
<1> QED
  BY <1>1, <1>5, <1>6, <1>7 DEF Inv

\* The refusal of the only mutation ever sent proves that nothing happened.
LEMMA RefusedKeeps ==
  ASSUME Inv, NEW w \in Worker, Refused(w)
  PROVE  Inv' /\ UNCHANGED <<rows, clock>> /\ \A s \in Op : Born(s)' = Born(s)
<1>1. /\ TypeOK /\ PassFine(w) /\ RiskFine(w) /\ UnderWay(w) /\ worker[w].step = "waiting"
      /\ UNCHANGED <<rows, visible, clock>>
  BY DEF Inv, Refused, UnderWay
<1>2. PICK o \in Op : worker[w].op = o
  BY <1>1 DEF PassFine
<1>3. PICK n \in 1 .. Len(request[o]) : worker[w].object = n
  BY <1>1, <1>2 DEF PassFine
<1>4. /\ request[o][n] = Flying /\ worker[w].cap # NoClaim
      /\ request' = [request EXCEPT ![o][n] = Void]
  BY <1>3, <1>1, <1>2 DEF Refused, Fate, PassFine, Mutating
<1>5. \/ visible[o] # {} /\ Settling(w)
      \/ Ambiguous(w)
      \/ End(w)
      \/ ~worker[w].risky /\ Step(w, "proving")
  BY <1>2 DEF Refused
<1>6. /\ request'[o][n] = Void
      /\ \A i \in 1 .. Len(request[o]) : i # n => request'[o][i] = request[o][i]
      /\ \A s \in Op : NothingSent(s) /\ Born(s)' = Born(s)
  <2>1. PICK x \in {Void} \cup Object : x = Void
    OBVIOUS
  <2>2. TypeOK /\ request[o][n] = Flying /\ request' = [request EXCEPT ![o][n] = x]
    BY <1>1, <1>4, <2>1
  <2>3. /\ request'[o][n] = x
        /\ \A i \in 1 .. Len(request[o]) : i # n => request'[o][i] = request[o][i]
    BY <2>2, FateFacts, Zenon
  <2>4. \A s \in Op :
          NothingSent(s) /\ Born(s)' = Born(s) \cup (IF s = o THEN {x} \ {Void} ELSE {})
    BY <2>2, FateFacts, Zenon
  <2> QED
    BY <2>1, <2>3, <2>4
<1>7. /\ attempt' = attempt /\ claim' = claim /\ try' = try /\ effects' = effects
      /\ fresh' = fresh /\ visible' = visible
  BY <1>1 DEF rows, clock
<1>8. Moves
  BY <1>1, <1>6, <1>7, OutsideMoves DEF NothingSent, ReportsStay, Canonical, InOrder
<1>9. Others(w) /\ PassFine(w)' /\ RiskFine(w)'
  <2>1. CASE visible[o] # {} /\ Settling(w)
    BY <1>1, <1>2, <1>4, <1>8, <2>1, SettlingFine
  <2>2. CASE Ambiguous(w)
    BY <1>1, <1>8, <2>2, AmbiguousFine
  <2>3. CASE End(w)
    BY <1>1, <2>3, Ended, IdleFine
  <2>4. CASE ~worker[w].risky /\ Step(w, "proving")
    <3>1. /\ Others(w)
          /\ worker'[w].step = "proving" /\ ~worker'[w].risky
          /\ worker'[w].op = o /\ worker'[w].claim = worker[w].claim
          /\ worker'[w].cap = worker[w].cap
      BY <1>1, <1>2, <2>4, Stepped DEF Steps
    <3>2. PassFine(w)'
      BY <1>1, <1>2, <1>7, <3>1 DEF PassFine, Mutating, Handling
    <3>3. RiskFine(w)'
      <4> SUFFICES ASSUME try[o][worker[w].cap] = "active"
                   PROVE  RiskFine(w)'
        BY <1>7, <3>1 DEF RiskFine, Mutating
      <4>1. /\ \A d \in Claim \ {worker[w].cap} : try[o][d] = "none"
            /\ \A i \in 1 .. Len(request[o]) : request[o][i] = Void \/ i = n
        BY <1>3, <1>1, <1>2, <2>4 DEF RiskFine, Mutating
      <4>2. /\ \A d \in Claim \ {worker[w].cap} : try'[o][d] = "none"
            /\ \A i \in 1 .. Len(request'[o]) : request'[o][i] = Void
        BY <1>6, <1>7, <4>1 DEF NothingSent
      <4> QED
        BY <3>1, <4>2 DEF RiskFine, Mutating
    <3> QED
      BY <3>1, <3>2, <3>3
  <2> QED
    BY <1>5, <2>1, <2>2, <2>3, <2>4
<1>10. /\ Moves /\ TypeOK' /\ ClaimsFit'
      /\ \A s \in Op : TriesFine(s)' /\ EffectsFine(s)' /\ TriesPass(s) /\ NothingSent(s)
  <2>1. worker' \in [Worker -> WorkerRow]
    BY <1>9 DEF Others
  <2>2. UNCHANGED <<rows, clock>> /\ visible' = IF Void = Void THEN visible ELSE {}
    BY <1>1
  <2>3. Void \in {Void} \cup Object /\ FinishFresh
    BY <1>9, OthersFinish
  <2> QED
    BY <1>1, <1>4, <2>1, <2>3, FateKeeps
<1> QED
  BY <1>1, <1>6, <1>9, <1>10, OthersKeep DEF Inv

-----------------------------------------------------------------------------
(* The publication is requested, and time passes. *)

LEMMA RequestKeeps ==
  ASSUME Inv, RequestPublication
  PROVE  /\ Inv' /\ UNCHANGED <<request, worker>>
         /\ attempt.state = "absent" /\ attempt.outcome = "none"
         /\ attempt'.state = "pending" /\ attempt'.outcome = "none"
<1>1. TypeOK /\ ClaimsFit /\ attempt \in AttemptRow /\ attempt.state = "absent"
  BY Typed DEF Inv, RequestPublication
<1>2. UNCHANGED <<op, claim, try, effects, receipt, request, visible, fresh, over, worker>>
  BY DEF RequestPublication, outside, clock
<1>3. /\ attempt' \in AttemptRow /\ attempt'.state = "pending" /\ attempt'.version = 1
      /\ attempt'.claim = attempt.claim /\ attempt'.outcome = attempt.outcome
      /\ attempt.claim = NoClaim /\ attempt.outcome = "none"
  <2>1. attempt' = [attempt EXCEPT !.state = "pending", !.version = 1]
    BY DEF RequestPublication
  <2>2. attempt \in AttemptRow /\ attempt.claim = NoClaim /\ attempt.outcome = "none"
    BY <1>1 DEF ClaimsFit
  <2> QED
    BY <2>1, <2>2 DEF AttemptRow
<1>4. \A v \in Worker : worker[v].step = "idle" /\ PassFine(v) /\ RiskFine(v)
  BY <1>1 DEF Inv, PassFine
<1>5. TypeOK'
  BY <1>1, <1>2, <1>3 DEF TypeOK, AttemptRow
<1>6. ClaimsFit'
  BY <1>1, <1>2, <1>3 DEF ClaimsFit, NoEffect
<1>7. ASSUME NEW s \in Op
      PROVE  TriesFine(s)' /\ EffectsFine(s)'
  <2>1. TriesFine(s) /\ EffectsFine(s) /\ TriesPass(s)
    BY <1>2 DEF Inv, TriesPass
  <2>2. EffectsFine(s)'
    <3>1. Sealed' => Sealed
      BY <1>2, <1>3, <1>4 DEF Sealed, Finishing
    <3> QED
      BY <1>2, <2>1, <3>1, EffectsStay
  <2>3. TriesFine(s)'
    BY <1>1, <1>2, <1>3, <2>1, HarmlessStays DEF TriesFine
  <2> QED
    BY <2>2, <2>3
<1>8. ASSUME NEW v \in Worker
      PROVE  PassFine(v)' /\ RiskFine(v)'
  <2>1. worker[v].step = "idle" /\ PassFine(v) /\ worker'[v] = worker[v]
    BY <1>2, <1>4
  <2> QED
    BY <1>2, <2>1 DEF PassFine, RiskFine, Mutating, Handling
<1> QED
  BY <1>1, <1>2, <1>3, <1>5, <1>6, <1>7, <1>8 DEF Inv

LEMMA TimeKeeps ==
  ASSUME Inv, ClaimRunsOut \/ FactsChange \/ WindowEnds
  PROVE  Inv' /\ UNCHANGED <<attempt, request>>
<1>1. /\ TypeOK /\ claim \in [Claim -> ClaimRow] /\ fresh \in BOOLEAN /\ over \in BOOLEAN
      /\ request \in [Op -> Seq({Flying, Void} \cup Object)]
  BY Typed DEF Inv
<1>2. /\ UNCHANGED <<attempt, op, try, effects, receipt, request, visible, worker>>
      /\ (fresh' => fresh) /\ fresh' \in BOOLEAN /\ over' \in BOOLEAN
  <2>1. UNCHANGED <<attempt, op, try, effects, receipt, request, visible, worker>>
    BY DEF ClaimRunsOut, FactsChange, WindowEnds, rows, outside
  <2>2. \/ UNCHANGED <<fresh, over>>
        \/ (fresh' = FALSE /\ over' = over)
        \/ (over' = TRUE /\ fresh' = fresh)
    BY DEF ClaimRunsOut, FactsChange, WindowEnds, clock
  <2>3. (fresh' => fresh) /\ fresh' \in BOOLEAN /\ over' \in BOOLEAN
    <3>1. CASE fresh' = fresh /\ over' = over
      BY <1>1, <3>1
    <3>2. CASE fresh' = FALSE /\ over' = over
      BY <1>1, <3>2
    <3>3. CASE over' = TRUE /\ fresh' = fresh
      BY <1>1, <3>3
    <3> QED
      BY <2>2, <3>1, <3>2, <3>3
  <2> QED
    BY <2>1, <2>3
<1>3. /\ claim' \in [Claim -> ClaimRow]
      /\ \A d \in Claim : claim'[d].state = claim[d].state /\ claim'[d].owner = claim[d].owner
  <2>1. CASE UNCHANGED claim
    BY <1>1, <2>1
  <2>2. CASE ClaimRunsOut
    <3>1. PICK c \in Claim : claim' = [claim EXCEPT ![c].live = FALSE]
      BY <2>2 DEF ClaimRunsOut
    <3> QED
      BY <1>1, <3>1 DEF ClaimRow
  <2> QED
    BY <2>1, <2>2 DEF FactsChange, WindowEnds, rows
<1>4. Moves /\ (Sealed' => Sealed)
  <2>1. attempt.version \in Nat
    BY <1>1 DEF TypeOK
  <2>2. Moves
    BY <1>1, <1>2, <1>3, <2>1, RowsMove
  <2> QED
    BY <1>2, <2>2, SealedStays DEF FinishFresh
<1>5. TypeOK'
  BY <1>1, <1>2, <1>3 DEF TypeOK, ClaimRow
<1>6. ClaimsFit'
  BY <1>2, <1>3 DEF Inv, ClaimsFit, Harmless
<1>7. ASSUME NEW s \in Op
      PROVE  TriesFine(s)' /\ EffectsFine(s)' /\ TriesPass(s) /\ NothingSent(s)
  <2>1. TriesFine(s) /\ EffectsFine(s) /\ TriesPass(s) /\ NothingSent(s)
    BY <1>2 DEF Inv, TriesPass, NothingSent
  <2>2. EffectsFine(s)'
    BY <1>2, <1>4, <2>1, EffectsStay
  <2>3. TriesFine(s)'
    BY <1>2, <1>3, <2>1, HarmlessStays DEF TriesFine
  <2> QED
    BY <2>1, <2>2, <2>3
<1>8. \A v \in Worker : PassFine(v)' /\ RiskFine(v)'
  BY <1>2, <1>4, <1>7, StillFine
<1> QED
  BY <1>2, <1>5, <1>6, <1>7, <1>8 DEF Inv

-----------------------------------------------------------------------------
(* The mutations of a pass. *)

\* Two passes that saw no risk in an operation never send for it under tries that
\* are both active: the tries would be of one claim, and a claim has one owner.
LEMMA SendKeeps ==
  ASSUME Inv, NEW w \in Worker, Send(w)
  PROVE  Inv' /\ UNCHANGED <<rows, clock>> /\ \A s \in Op : Born(s)' = Born(s)
<1>1. /\ TypeOK /\ PassFine(w) /\ RiskFine(w) /\ worker[w].step = "sending"
      /\ UNCHANGED <<rows, visible, clock>> /\ worker[w] \in WorkerRow
      /\ request \in [Op -> Seq({Flying, Void} \cup Object)]
  BY Typed DEF Inv, Send
<1>2. PICK o \in Op : worker[w].op = o
  BY <1>1 DEF PassFine
<1> DEFINE next == [worker[w] EXCEPT !.step = "waiting", !.object = Len(request[o]) + 1]
<1>3. /\ request' = [request EXCEPT ![o] = Append(request[o], Flying)]
      /\ Go(w, next)
  BY <1>2 DEF Send
<1>4. /\ attempt' = attempt /\ op' = op /\ claim' = claim /\ try' = try /\ effects' = effects
      /\ receipt' = receipt /\ visible' = visible /\ fresh' = fresh /\ over' = over
  BY <1>1 DEF rows, clock
<1>5. request[o] \in Seq({Flying, Void} \cup Object) /\ Len(request[o]) \in Nat
  BY <1>1
<1>6. /\ request' \in [Op -> Seq({Flying, Void} \cup Object)]
      /\ Len(request'[o]) = Len(request[o]) + 1
      /\ request'[o][Len(request[o]) + 1] = Flying
      /\ \A i \in 1 .. Len(request[o]) : request'[o][i] = request[o][i]
      /\ \A s \in Op \ {o} : request'[s] = request[s]
  <2> DEFINE sent == Append(request[o], Flying)
  <2>1. Flying \in {Flying, Void} \cup Object
    OBVIOUS
  <2>2. /\ sent \in Seq({Flying, Void} \cup Object)
        /\ Len(sent) = Len(request[o]) + 1
        /\ \A i \in 1 .. Len(request[o]) : sent[i] = request[o][i]
        /\ sent[Len(request[o]) + 1] = Flying
    BY <1>5, <2>1, AppendProperties
  <2> HIDE DEF sent
  <2>3. request' = [request EXCEPT ![o] = sent]
    BY <1>3 DEF sent
  <2> QED
    BY <1>1, <2>2, <2>3
<1>7. \A s \in Op : Born(s)' = Born(s)
  <2> TAKE s \in Op
  <2>1. CASE s = o
    <3>1. ASSUME NEW x \in Born(o)' PROVE x \in Born(o)
      <4>1. PICK i \in 1 .. Len(request'[o]) : x = request'[o][i]
        BY DEF Born
      <4>2. x \notin {Flying, Void}
        BY DEF Born
      <4>3. i \in 1 .. Len(request[o])
        BY <1>5, <1>6, <4>1, <4>2
      <4> QED
        BY <1>6, <4>1, <4>2, <4>3 DEF Born
    <3>2. ASSUME NEW x \in Born(o) PROVE x \in Born(o)'
      <4>1. PICK i \in 1 .. Len(request[o]) : x = request[o][i]
        BY DEF Born
      <4>2. i \in 1 .. Len(request'[o]) /\ x = request'[o][i]
        BY <1>5, <1>6, <4>1
      <4> QED
        BY <4>2 DEF Born
    <3> QED
      BY <2>1, <3>1, <3>2
  <2>2. CASE s # o
    BY <1>6, <2>2 DEF Born
  <2> QED
    BY <2>1, <2>2
<1>8. /\ next \in WorkerRow /\ next.step = "waiting" /\ next.object = Len(request[o]) + 1
      /\ next.op = o /\ next.claim = worker[w].claim /\ next.cap = worker[w].cap
      /\ next.risky = worker[w].risky
  <2>1. Len(request[o]) + 1 \in Object
    BY <1>5 DEF Object
  <2> QED
    BY <1>1, <1>2, <2>1 DEF WorkerRow, Steps
<1> HIDE DEF next
<1>9. Others(w) /\ worker'[w] = next
  BY <1>1, <1>3, <1>8, Gone
<1>10. Moves
  <2>1. \A s \in Op : Len(request[s]) <= Len(request'[s])
    <3> TAKE s \in Op
    <3>1. Len(request[s]) \in Nat
      BY <1>1
    <3>2. CASE s = o
      BY <1>6, <3>1, <3>2
    <3>3. CASE s # o
      BY <1>6, <3>1, <3>3
    <3> QED
      BY <3>2, <3>3
  <2> QED
    BY <1>1, <1>4, <1>7, <2>1, OutsideMoves DEF ReportsStay, Canonical, InOrder
<1>11. /\ worker[w].cap \in Claim /\ worker[w].cap = worker[w].claim
       /\ claim[worker[w].cap].owner = w
       /\ try[o][worker[w].cap] \notin {"none", "no_effect_proven"}
  BY <1>1, <1>2 DEF PassFine, Mutating, WorkerRow, NoClaim
<1>12. TypeOK'
  <2>1. worker' \in [Worker -> WorkerRow]
    BY <1>9 DEF Others
  <2> QED
    BY <1>1, <1>4, <1>6, <2>1 DEF TypeOK, WorkerRow
<1>13. ClaimsFit' /\ \A s \in Op : TriesFine(s)'
  BY <1>4 DEF Inv, ClaimsFit, TriesFine, Harmless, Untried
<1>14. ASSUME NEW s \in Op
       PROVE  EffectsFine(s)'
  <2>1. /\ EffectsFine(s) /\ Born(s)' = Born(s)
        /\ Canonical(s)' = Canonical(s) /\ (InOrder(s)' <=> InOrder(s))
        /\ Sealed' => Sealed
    BY <1>4, <1>7, <1>9, <1>10, OthersFinish, SealedStays DEF Inv, Canonical, InOrder
  <2>2. Harmless(s)' => Unsent(s)'
    <3>1. CASE s = o
      BY <1>4, <1>11, <3>1 DEF Harmless
    <3>2. CASE s # o
      BY <1>4, <1>6, <2>1, <3>2 DEF EffectsFine, Harmless, Unsent
    <3> QED
      BY <3>1, <3>2
  <2> HIDE DEF Born, Canonical
  <2> QED
    BY <1>4, <2>1, <2>2 DEF EffectsFine
<1>15. PassFine(w)'
  <2>1. Len(request[o]) + 1 \in 1 .. Len(request'[o])
    BY <1>5, <1>6
  <2> QED
    BY <1>1, <1>2, <1>4, <1>8, <1>9, <1>11, <2>1 DEF PassFine, Mutating, Handling
<1>16. RiskFine(w)'
  <2> SUFFICES ASSUME ~worker[w].risky, try[o][worker[w].cap] = "active"
               PROVE  RiskFine(w)'
    BY <1>4, <1>8, <1>9 DEF RiskFine, Mutating
  <2>1. /\ \A d \in Claim \ {worker[w].cap} : try[o][d] = "none"
        /\ \A n \in 1 .. Len(request[o]) : request[o][n] = Void
    BY <1>1, <1>2 DEF RiskFine, Mutating
  <2>2. \A n \in 1 .. Len(request'[o]) : request'[o][n] = Void \/ n = Len(request[o]) + 1
    BY <1>5, <1>6, <2>1
  <2> QED
    BY <1>4, <1>8, <1>9, <2>1, <2>2 DEF RiskFine, Mutating
<1>17. ASSUME NEW v \in Worker \ {w}
       PROVE  PassFine(v)' /\ RiskFine(v)'
  <2>1. worker'[v] = worker[v] /\ PassFine(v) /\ RiskFine(v)
    BY <1>9 DEF Others, Inv
  <2>2. PassFine(v)'
    <3>1. Sealed' => Sealed
      BY <1>9, <1>10, OthersFinish, SealedStays
    <3> QED
      BY <1>1, <1>4, <1>10, <2>1, <3>1, PassStays DEF PassFine, Mutating
  <2>3. CASE worker[v].op = o
    <3>1. ~Harmless(o) /\ ~Untried(o)
      BY <1>11 DEF Harmless, Untried
    <3>2. worker[v].step \in Mutating /\ ~worker[v].risky => try[o][worker[v].cap] # "active"
      <4> SUFFICES ASSUME worker[v].step \in Mutating, ~worker[v].risky,
                          try[o][worker[v].cap] = "active"
                   PROVE  FALSE
        OBVIOUS
      <4>1. \A d \in Claim \ {worker[v].cap} : try[o][d] = "none"
        BY <2>1, <2>3 DEF RiskFine
      <4>2. worker[v].cap = worker[w].cap
        BY <1>11, <4>1
      <4>3. claim[worker[v].cap].owner = v
        BY <2>1 DEF PassFine
      <4> QED
        BY <1>11, <4>2, <4>3
    <3>3. RiskFine(v)'
      BY <1>4, <2>1, <2>3, <3>1, <3>2 DEF RiskFine, Mutating, Harmless, Untried
    <3> QED
      BY <2>2, <3>3
  <2>4. CASE worker[v].op # o
    <3>1. worker[v].step # "idle" => worker[v].op \in Op
      BY <2>1 DEF PassFine
    <3>2. worker[v].step # "idle" => TriesPass(worker[v].op) /\ NothingSent(worker[v].op)
      BY <1>4, <1>6, <2>4, <3>1 DEF TriesPass, NothingSent
    <3> QED
      BY <1>1, <1>10, <2>1, <2>2, <3>2, RiskStays
  <2> QED
    BY <2>3, <2>4
<1> QED
  BY <1>1, <1>7, <1>9, <1>12, <1>13, <1>14, <1>15, <1>16, <1>17 DEF Inv

LEMMA VisibleMoves ==
  ASSUME TypeOK, UNCHANGED <<rows, request, clock>>
  PROVE  Moves
<1>1. request \in [Op -> Seq({Flying, Void} \cup Object)]
  BY DEF TypeOK
<1>2. \A s \in Op : Len(request[s]) \in Nat
  BY <1>1
<1> QED
  BY <1>2, OutsideMoves DEF ReportsStay, Born, Canonical, InOrder, rows, clock

\* Objects are taken back: the duplicates of a canonical one, or, when the facts
\* have changed, whatever the pass has found.
LEMMA TakenBack ==
  ASSUME Inv, NEW o \in Op, NEW gone \in SUBSET Object, NEW w \in Worker, Others(w),
         visible' \in {visible, [visible EXCEPT ![o] = visible[o] \ gone]},
         \/ effects[o] # <<>> /\ (InOrder(o) => Canonical(o) \notin gone)
         \/ ~Sealed,
         UNCHANGED <<rows, request, clock>>, PassFine(w)', RiskFine(w)'
  PROVE  Inv'
<1>1. TypeOK /\ visible \in [Op -> SUBSET Object]
  BY DEF Inv, TypeOK
<1>2. /\ attempt' = attempt /\ op' = op /\ claim' = claim /\ try' = try /\ effects' = effects
      /\ receipt' = receipt /\ request' = request /\ fresh' = fresh /\ over' = over
  BY DEF rows, clock
<1>3. /\ visible' \in [Op -> SUBSET Object]
      /\ \A s \in Op : visible'[s] = visible[s] \/ (s = o /\ visible'[s] = visible[s] \ gone)
  BY <1>1
<1>4. TypeOK'
  <2>1. worker' \in [Worker -> WorkerRow]
    BY DEF Others
  <2> QED
    BY <1>1, <1>2, <1>3, <2>1 DEF TypeOK, WorkerRow
<1>5. ClaimsFit' /\ \A s \in Op : TriesFine(s)' /\ TriesPass(s) /\ NothingSent(s)
  BY <1>2 DEF Inv, ClaimsFit, TriesFine, TriesPass, NothingSent, Harmless, Untried
<1>6. Moves
  BY <1>1, VisibleMoves
<1>7. ASSUME NEW s \in Op
      PROVE  EffectsFine(s)'
  <2>1. /\ EffectsFine(s) /\ Born(s)' = Born(s) /\ Canonical(s)' = Canonical(s)
        /\ (Harmless(s)' <=> Harmless(s)) /\ (Unsent(s)' <=> Unsent(s))
        /\ InOrder(s)' <=> InOrder(s)
    BY <1>2 DEF Inv, Born, Canonical, InOrder, Harmless, Unsent
  <2>2. visible'[s] \subseteq visible[s]
    BY <1>3
  <2>3. Sealed =>
          /\ effects[s] = <<>> => visible'[s] = Born(s)
          /\ InOrder(s) => Canonical(s) \in visible'[s]
    BY <1>3, <2>1 DEF EffectsFine
  <2>4. Sealed' => Sealed
    BY <1>6, OthersFinish, SealedStays
  <2> QED
    BY <1>2, <2>1, <2>2, <2>3, <2>4 DEF EffectsFine
<1> QED
  BY <1>4, <1>5, <1>6, <1>7, OthersKeep DEF Inv

LEMMA DeleteDuplicatesKeeps ==
  ASSUME Inv, NEW w \in Worker, DeleteDuplicates(w)
  PROVE  Inv' /\ UNCHANGED <<rows, request, clock>>
<1>1. /\ TypeOK /\ PassFine(w) /\ UnderWay(w) /\ worker[w].step = "deleting"
      /\ UNCHANGED <<rows, request, clock>> /\ worker[w] \in WorkerRow
  BY Typed DEF Inv, DeleteDuplicates, UnderWay
<1>2. PICK o \in Op : worker[w].op = o
  BY <1>1 DEF PassFine
<1>3. PICK gone \in SUBSET (worker[w].seen \ {worker[w].object}) :
        /\ visible' = [visible EXCEPT ![o] = visible[o] \ gone]
        /\ Step(w, "completing") \/ Ambiguous(w)
  BY <1>2 DEF DeleteDuplicates
<1>4. gone \in SUBSET Object /\ effects[o] # <<>> /\ (InOrder(o) => Canonical(o) \notin gone)
  BY <1>1, <1>2 DEF PassFine, WorkerRow
<1>5. attempt' = attempt /\ claim' = claim /\ effects' = effects /\ request' = request
      /\ fresh' = fresh
  BY <1>1 DEF rows, clock
<1>6. Moves
  BY <1>1, VisibleMoves
<1>7. Others(w) /\ PassFine(w)' /\ RiskFine(w)'
  <2>1. CASE Step(w, "completing")
    BY <1>1, <1>2, <1>4, <1>5, <1>6, <2>1, SteppedFine DEF Handling
  <2>2. CASE Ambiguous(w)
    BY <1>1, <1>6, <2>2, AmbiguousFine
  <2> QED
    BY <1>3, <2>1, <2>2
<1> QED
  BY <1>1, <1>3, <1>4, <1>7, TakenBack

LEMMA RetractKeeps ==
  ASSUME Inv, NEW w \in Worker, Retract(w)
  PROVE  Inv' /\ UNCHANGED <<rows, request, clock>>
<1>1. /\ TypeOK /\ PassFine(w) /\ UnderWay(w) /\ worker[w].step = "retracting"
      /\ UNCHANGED <<rows, request, clock>> /\ worker[w] \in WorkerRow
  BY Typed DEF Inv, Retract, UnderWay
<1>2. PICK o \in Op : worker[w].op = o
  BY <1>1 DEF PassFine
<1>3. PICK gone \in SUBSET Object : worker[w].seen = gone
  BY <1>1 DEF WorkerRow
<1>4. /\ visible' \in {visible, [visible EXCEPT ![o] = visible[o] \ gone]}
      /\ \/ Ambiguous(w)
         \/ \E outcome \in Stale : Closing(w, outcome)
  BY <1>2, <1>3 DEF Retract, Stale
<1>5. ~Sealed /\ Born(o) # {}
  BY <1>1, <1>2 DEF PassFine, Handling
<1>6. attempt' = attempt /\ claim' = claim /\ effects' = effects /\ request' = request
      /\ fresh' = fresh
  BY <1>1 DEF rows, clock
<1>7. Moves
  BY <1>1, VisibleMoves
<1>8. Others(w) /\ PassFine(w)' /\ RiskFine(w)'
  <2>1. CASE Ambiguous(w)
    BY <1>1, <1>7, <2>1, AmbiguousFine
  <2>2. ASSUME NEW outcome \in Stale, Closing(w, outcome)
        PROVE  Others(w) /\ PassFine(w)' /\ RiskFine(w)'
    BY <1>1, <1>2, <1>5, <1>7, <2>2, ClosingFine
  <2> QED
    BY <1>4, <2>1, <2>2
<1> QED
  BY <1>1, <1>4, <1>5, <1>8, TakenBack

-----------------------------------------------------------------------------
(* The reports of a pass. *)

\* A report takes its place by the time it was observed.
LEMMA InsertedFirst ==
  ASSUME NEW S, NEW s \in Seq(S), NEW e \in S, NEW k \in 1 .. Len(s) + 1
  PROVE  /\ Seqs!InsertAt(s, k, e) \in Seq(S) /\ Seqs!InsertAt(s, k, e) # <<>>
         /\ Seqs!InsertAt(s, k, e)[1] = IF k = 1 THEN e ELSE s[1]
<1> DEFINE a == SubSeq(s, 1, k - 1)  b == SubSeq(s, k, Len(s))  c == a \o <<e>>
<1>1. Len(s) \in Nat /\ \A i \in 1 .. Len(s) : s[i] \in S
  OBVIOUS
<1>2. /\ a \in Seq(S) /\ Len(a) = k - 1
      /\ k > 1 => a[1] = s[1]
  BY <1>1, SubSeqProperties
<1>3. b \in Seq(S) /\ Len(b) = Len(s) - k + 1
  BY <1>1, SubSeqProperties
<1>4. <<e>> \in Seq(S) /\ Len(<<e>>) = 1 /\ <<e>>[1] = e
  OBVIOUS
<1> HIDE DEF a, b
<1>5. c \in Seq(S) /\ Len(c) = k /\ c[1] = IF k = 1 THEN e ELSE s[1]
  BY <1>2, <1>4, ConcatProperties
<1>6. Seqs!InsertAt(s, k, e) = c \o b
  BY DEF Seqs!InsertAt, a, b
<1> HIDE DEF c
<1>7. /\ c \o b \in Seq(S) /\ Len(c \o b) = Len(c) + Len(b)
      /\ \A i \in 1 .. Len(c) + Len(b) : (c \o b)[i] = IF i <= Len(c) THEN c[i] ELSE b[i - Len(c)]
  BY <1>3, <1>5, ConcatProperties
<1>8. /\ k \in Nat /\ 1 <= Len(c) /\ 1 \in 1 .. Len(c) + Len(b)
      /\ Len(c) + Len(b) = Len(s) + 1
  BY <1>1, <1>3, <1>5
<1>9. (c \o b)[1] = c[1]
  BY <1>7, <1>8
<1>10. c \o b # <<>>
  BY <1>1, <1>7, <1>8
<1> QED
  BY <1>5, <1>6, <1>7, <1>9, <1>10

LEMMA ReportFacts ==
  ASSUME TypeOK, NEW w \in Worker, NEW o \in Op, worker[w].op = o, worker[w].cap \in Claim,
         NEW b \in Object, Report(w, b)
  PROVE  /\ effects' \in [Op -> Seq(ReportRow)]
         /\ effects'[o] # <<>>
         /\ \A s \in Op : ReportsStay(s)
         /\ \A s \in Op \ {o} : effects'[s] = effects[s]
         /\ effects[o] = <<>> => Canonical(o)' = b
<1>1. effects \in [Op -> Seq(ReportRow)] /\ effects[o] \in Seq(ReportRow)
  BY Typed
<1>2. CASE b \in Reported(o)
  <2>1. effects' = effects
    BY <1>2 DEF Report
  <2>2. effects[o] # <<>>
    BY <1>2 DEF Reported
  <2> QED
    BY <1>1, <2>1, <2>2 DEF ReportsStay, Canonical, InOrder
<1>3. CASE b \notin Reported(o)
  <2>1. PICK k \in 1 .. Len(effects[o]) + 1 :
          effects' = [effects EXCEPT ![o] =
            Seqs!InsertAt(@, k, [cap |-> worker[w].cap, object |-> b, late |-> k <= Len(@)])]
    BY <1>3 DEF Report
  <2> DEFINE late == k <= Len(effects[o])
  <2>2. PICK r \in ReportRow : r = [cap |-> worker[w].cap, object |-> b, late |-> late]
    <3>1. late \in BOOLEAN
      OBVIOUS
    <3> HIDE DEF late
    <3> QED
      BY <3>1 DEF ReportRow
  <2> DEFINE e == Seqs!InsertAt(effects[o], k, r)
  <2>3. effects' = [effects EXCEPT ![o] = e]
    BY <1>1, <2>1, <2>2
  <2>4. e \in Seq(ReportRow) /\ e # <<>> /\ e[1] = IF k = 1 THEN r ELSE effects[o][1]
    BY <1>1, InsertedFirst
  <2> HIDE DEF e
  <2>5. /\ effects' \in [Op -> Seq(ReportRow)]
        /\ effects'[o] = e /\ \A s \in Op \ {o} : effects'[s] = effects[s]
    BY <1>1, <2>3, <2>4
  <2>6. r.object = b /\ (r.late <=> k <= Len(effects[o]))
    BY <2>2
  <2>7. effects[o] # <<>> => Len(effects[o]) \in Nat /\ 1 <= Len(effects[o])
    BY <1>1, FirstReport
  <2>8. effects[o] = <<>> => k = 1
    OBVIOUS
  <2>9. ReportsStay(o)
    <3> SUFFICES ASSUME effects[o] # <<>>, InOrder(o)'
                 PROVE  InOrder(o) /\ Canonical(o)' = Canonical(o)
      BY <2>4, <2>5 DEF ReportsStay
    <3>1. k # 1
      BY <2>4, <2>5, <2>6, <2>7 DEF InOrder
    <3> QED
      BY <2>4, <2>5, <3>1 DEF InOrder, Canonical
  <2>10. effects[o] = <<>> => Canonical(o)' = b
    BY <2>4, <2>5, <2>6, <2>8 DEF Canonical
  <2>11. \A s \in Op \ {o} : ReportsStay(s)
    BY <2>5 DEF ReportsStay, InOrder, Canonical
  <2> QED
    BY <2>4, <2>5, <2>9, <2>10, <2>11
<1> QED
  BY <1>2, <1>3

\* The first report of an operation names an object that can be seen, as long as
\* nothing was to be taken back.
LEMMA ReportKeeps ==
  ASSUME Inv, NEW w \in Worker, NEW o \in Op, worker[w].op = o, worker[w].cap \in Claim,
         NEW b \in Object, b \in Born(o), Report(w, b),
         UNCHANGED <<attempt, op, claim, try, receipt, outside, clock>>
  PROVE  /\ Moves
         /\ Others(w) /\ PassFine(w)' /\ RiskFine(w)' => Inv'
<1>1. /\ effects' \in [Op -> Seq(ReportRow)]
      /\ effects'[o] # <<>>
      /\ \A s \in Op : ReportsStay(s)
      /\ \A s \in Op \ {o} : effects'[s] = effects[s]
      /\ effects[o] = <<>> => Canonical(o)' = b
  BY ReportFacts DEF Inv
<1>2. /\ attempt' = attempt /\ op' = op /\ claim' = claim /\ try' = try /\ receipt' = receipt
      /\ request' = request /\ visible' = visible /\ fresh' = fresh /\ over' = over
  BY DEF outside, clock
<1>3. TypeOK
  BY DEF Inv
<1>4. \A s \in Op : Born(s)' = Born(s)
  BY <1>2 DEF Born
<1>5. Moves
  <2>1. request \in [Op -> Seq({Flying, Void} \cup Object)]
    BY <1>3 DEF TypeOK
  <2>2. \A s \in Op : Len(request[s]) \in Nat
    BY <2>1
  <2> QED
    BY <1>1, <1>2, <1>3, <1>4, <2>2, OutsideMoves
<1>6. ClaimsFit' /\ \A s \in Op : TriesFine(s)' /\ TriesPass(s) /\ NothingSent(s)
  BY <1>2 DEF Inv, ClaimsFit, TriesFine, TriesPass, NothingSent, Harmless, Untried
<1>7. FinishFresh => (Sealed' => Sealed)
  BY <1>5, SealedStays
<1>8. ASSUME FinishFresh, NEW s \in Op
      PROVE  EffectsFine(s)'
  <2>1. /\ EffectsFine(s) /\ Born(s)' = Born(s)
        /\ (Harmless(s)' <=> Harmless(s)) /\ (Unsent(s)' <=> Unsent(s))
    BY <1>2, <1>4 DEF Inv, Harmless, Unsent
  <2>2. receipt'[s] # 0 =>
          effects'[s] # <<>> /\ (InOrder(s)' => receipt'[s] = Canonical(s)')
    BY <1>1, <1>2, <2>1 DEF EffectsFine, ReportsStay
  <2>3. Sealed => /\ effects'[s] = <<>> => visible[s] = Born(s)
                  /\ InOrder(s)' => Canonical(s)' \in visible[s]
    <3> SUFFICES ASSUME Sealed
                 PROVE  /\ effects'[s] = <<>> => visible[s] = Born(s)
                        /\ InOrder(s)' => Canonical(s)' \in visible[s]
      OBVIOUS
    <3>1. /\ effects[s] = <<>> => visible[s] = Born(s)
          /\ InOrder(s) => Canonical(s) \in visible[s]
      BY <2>1 DEF EffectsFine
    <3>2. CASE effects[s] # <<>>
      BY <1>1, <3>1, <3>2 DEF ReportsStay
    <3>3. CASE effects[s] = <<>> /\ s = o
      BY <1>1, <3>1, <3>3
    <3>4. CASE effects[s] = <<>> /\ s # o
      BY <1>1, <3>1, <3>4 DEF InOrder
    <3> QED
      BY <3>2, <3>3, <3>4
  <2> HIDE DEF Born, Canonical
  <2> QED
    BY <1>2, <1>7, <1>8, <2>1, <2>2, <2>3 DEF EffectsFine
<1>9. ASSUME Others(w), PassFine(w)', RiskFine(w)'
      PROVE  Inv'
  <2>1. TypeOK'
    <3>1. worker' \in [Worker -> WorkerRow]
      BY <1>9 DEF Others
    <3> QED
      BY <1>1, <1>2, <1>3, <3>1 DEF TypeOK, WorkerRow, ReportRow
  <2>2. FinishFresh
    BY <1>9, OthersFinish
  <2> QED
    BY <1>5, <1>6, <1>8, <1>9, <2>1, <2>2, OthersKeep DEF Inv
<1> QED
  BY <1>5, <1>9

\* The effect of a mutation that was acknowledged is reported, or its pass ends.
LEMMA RecordKeeps ==
  ASSUME Inv, NEW w \in Worker, Record(w)
  PROVE  Inv' /\ UNCHANGED <<attempt, outside>>
<1>1. /\ TypeOK /\ PassFine(w) /\ UnderWay(w) /\ worker[w].step = "waiting" /\ Fate(w) > 0
      /\ UNCHANGED <<attempt, op, claim, try, receipt, outside, clock>>
  BY DEF Inv, Record, UnderWay
<1>2. PICK o \in Op : worker[w].op = o
  BY <1>1 DEF PassFine
<1>3. PICK n \in 1 .. Len(request[o]) : worker[w].object = n
  BY <1>1, <1>2 DEF PassFine
<1>4. PICK b \in Object : b = Fate(w) /\ b = request[o][n]
  <2>1. request[o] \in Seq({Flying, Void} \cup Object)
    BY <1>1 DEF TypeOK
  <2>2. Fate(w) = request[o][n] /\ request[o][n] \in {0, -1} \cup Object
    BY <1>2, <1>3, <2>1 DEF Fate, Flying, Void
  <2>3. Fate(w) \in Object
    BY <1>1, <2>2
  <2> QED
    BY <2>2, <2>3
<1>5. b \in Born(o)
  BY <1>4 DEF Born, Object, Flying, Void
<1>6. worker[w].cap \in Claim /\ worker[w].cap # NoClaim
  BY <1>1 DEF PassFine, Mutating, TypeOK
<1>7. CASE Ambiguous(w) /\ UNCHANGED effects
  <2>1. UNCHANGED <<rows, outside, clock>>
    BY <1>1, <1>7 DEF rows
  <2>2. Moves
    BY <1>1, <2>1, QuietMoves
  <2> QED
    BY <1>1, <1>7, <2>1, <2>2, AmbiguousFine, QuietKeeps
<1>8. CASE /\ Report(w, b)
           /\ Found(w, IF fresh THEN "settling" ELSE "compensating", 0, visible[o] \cup {b})
  <2>1. PICK s \in {"settling", "compensating"} : Found(w, s, 0, visible[o] \cup {b})
    BY <1>8
  <2>2. Moves /\ (Others(w) /\ PassFine(w)' /\ RiskFine(w)' => Inv')
    BY <1>1, <1>2, <1>5, <1>6, <1>8, ReportKeeps
  <2>3. PICK seen \in SUBSET Object : seen = visible[o] \cup {b}
    BY <1>1 DEF TypeOK
  <2>4. seen # {} /\ seen \subseteq Born(o) /\ Found(w, s, 0, seen)
    BY <1>5, <2>1, <2>3 DEF Inv, EffectsFine
  <2>5. s \in Handling \ {"finishing", "retracting"} /\ s \notin {"cleaning", "deleting", "completing"}
    BY DEF Handling
  <2>6. Others(w) /\ PassFine(w)' /\ RiskFine(w)'
    BY <1>1, <1>2, <1>6, <2>2, <2>4, <2>5, FoundFine
  <2> QED
    BY <1>1, <2>2, <2>6
<1>9. \/ Ambiguous(w) /\ UNCHANGED effects
      \/ /\ Report(w, b)
         /\ Found(w, IF fresh THEN "settling" ELSE "compensating", 0, visible[o] \cup {b})
  BY <1>2, <1>4 DEF Record
<1> QED
  BY <1>7, <1>8, <1>9

\* The object a pass settles on is one it has seen, and the canonical one if that
\* is among them.
LEMMA SettledOn ==
  ASSUME NEW o \in Op, effects[o] \in Seq(ReportRow),
         NEW seen \in SUBSET Object, seen # {}
  PROVE  LET b == IF CanonicalSeen(o, seen) # 0 THEN CanonicalSeen(o, seen) ELSE Oldest(seen)
         IN b \in seen /\ (effects[o] # <<>> /\ Canonical(o) \in seen => b = Canonical(o))
<1> DEFINE at == {i \in 1 .. Len(effects[o]) : effects[o][i].object \in seen}
<1>1. at \in SUBSET Nat /\ seen \in SUBSET Nat /\ 0 \notin seen
  BY DEF Object
<1>2. CanonicalSeen(o, seen) = IF at = {} THEN 0 ELSE effects[o][Oldest(at)].object
  BY DEF CanonicalSeen
<1>3. at # {} => Oldest(at) \in at /\ \A i \in at : Oldest(at) <= i
  BY <1>1, OldestFirst
<1>4. at # {} => CanonicalSeen(o, seen) \in seen
  BY <1>2, <1>3
<1>5. Oldest(seen) \in seen
  BY <1>1, OldestFirst
<1>6. ASSUME effects[o] # <<>>, Canonical(o) \in seen
      PROVE  CanonicalSeen(o, seen) = Canonical(o)
  <2>1. 1 \in at
    BY <1>6, FirstReport DEF Canonical
  <2>2. Oldest(at) = 1
    <3>1. Oldest(at) \in 1 .. Len(effects[o]) /\ Oldest(at) <= 1 /\ Len(effects[o]) \in Nat
      BY <1>3, <2>1
    <3> QED
      BY <3>1
  <2> QED
    BY <1>2, <2>1, <2>2 DEF Canonical
<1> HIDE DEF at
<1> QED
  BY <1>1, <1>2, <1>4, <1>5, <1>6

LEMMA SettleKeeps ==
  ASSUME Inv, NEW w \in Worker, Settle(w)
  PROVE  Inv' /\ UNCHANGED <<attempt, outside>>
<1>1. /\ TypeOK /\ PassFine(w) /\ UnderWay(w) /\ worker[w].step = "settling"
      /\ UNCHANGED <<attempt, op, claim, try, receipt, outside, clock>>
      /\ worker[w] \in WorkerRow
  BY Typed DEF Inv, Settle, UnderWay
<1>2. PICK o \in Op : worker[w].op = o
  BY <1>1 DEF PassFine
<1>3. PICK seen \in SUBSET Object : seen = worker[w].seen
  BY <1>1 DEF WorkerRow
<1>4. seen # {} /\ seen \subseteq Born(o)
  BY <1>1, <1>2, <1>3 DEF PassFine, Handling
<1>5. effects[o] \in Seq(ReportRow)
  BY <1>1, Typed
<1>6. PICK b \in Object :
        /\ b = IF CanonicalSeen(o, seen) # 0 THEN CanonicalSeen(o, seen) ELSE Oldest(seen)
        /\ b \in seen
        /\ effects[o] # <<>> /\ Canonical(o) \in seen => b = Canonical(o)
  BY <1>4, <1>5, SettledOn
<1>7. worker[w].cap \in Claim /\ worker[w].cap # NoClaim
  BY <1>1 DEF PassFine, Handling, WorkerRow
<1>8. \/ Ambiguous(w) /\ UNCHANGED effects
      \/ Report(w, b) /\ Ambiguous(w)
      \/ /\ Report(w, b)
         /\ \E s \in {"compensating", "completing", "cleaning"} : Found(w, s, b, seen)
  BY <1>2, <1>3, <1>6 DEF Settle
<1>9. CASE Ambiguous(w) /\ UNCHANGED effects
  <2>1. UNCHANGED <<rows, outside, clock>>
    BY <1>1, <1>9 DEF rows
  <2>2. Moves
    BY <1>1, <2>1, QuietMoves
  <2> QED
    BY <1>1, <1>9, <2>1, <2>2, AmbiguousFine, QuietKeeps
<1>10. CASE Report(w, b)
  <2>1. Moves /\ (Others(w) /\ PassFine(w)' /\ RiskFine(w)' => Inv')
    BY <1>1, <1>2, <1>4, <1>6, <1>7, <1>10, ReportKeeps
  <2>2. CASE Ambiguous(w)
    BY <1>1, <2>1, <2>2, AmbiguousFine
  <2>3. ASSUME NEW s \in {"compensating", "completing", "cleaning"}, Found(w, s, b, seen)
        PROVE  Others(w) /\ PassFine(w)' /\ RiskFine(w)'
    <3>1. /\ effects'[o] # <<>>
          /\ ReportsStay(o)
          /\ effects[o] = <<>> => Canonical(o)' = b
      BY <1>1, <1>2, <1>6, <1>7, <1>10, ReportFacts
    <3>2. InOrder(o)' => (Canonical(o)' \in seen => b = Canonical(o)')
      BY <1>6, <3>1 DEF ReportsStay
    <3>3. s \in Handling \ {"finishing", "retracting"} /\ b \in {0} \cup Object
      BY DEF Handling
    <3> QED
      BY <1>1, <1>2, <1>4, <1>7, <2>1, <2>3, <3>1, <3>2, <3>3, FoundFine
  <2> QED
    BY <1>1, <1>8, <1>9, <2>1, <2>2, <2>3
<1> QED
  BY <1>8, <1>9, <1>10

-----------------------------------------------------------------------------
(* Every behaviour keeps the invariant. *)

LEMMA InitInv == Init => Inv
<1> SUFFICES ASSUME Init
             PROVE  Inv
  OBVIOUS
<1>1. /\ attempt = [state |-> "absent", version |-> 0, claim |-> NoClaim, outcome |-> "none"]
      /\ op = [o \in Op |-> "planned"]
      /\ claim = [c \in Claim |-> [owner |-> "none", state |-> "free", live |-> FALSE]]
      /\ try = [o \in Op |-> [c \in Claim |-> "none"]]
      /\ effects = [o \in Op |-> <<>>] /\ receipt = [o \in Op |-> 0]
      /\ request = [o \in Op |-> <<>>] /\ visible = [o \in Op |-> {}]
      /\ fresh = TRUE /\ over = FALSE /\ worker = [w \in Worker |-> Idle]
  BY DEF Init
<1>2. TypeOK
  <2>1. <<>> \in Seq(ReportRow)
        /\ <<>> \in Seq({Flying, Void} \cup Object)
    OBVIOUS
  <2>2. worker \in [Worker -> WorkerRow]
    BY <1>1, IdleRow
  <2>3. attempt \in AttemptRow /\ claim \in [Claim -> ClaimRow]
    BY <1>1 DEF AttemptRow, ClaimRow
  <2>4. op \in [Op -> OpStates] /\ try \in [Op -> [Claim -> TryState]]
    BY <1>1 DEF OpStates, Active, TryState
  <2> QED
    BY <1>1, <2>1, <2>2, <2>3, <2>4, Typed
<1>3. \A o \in Op : Harmless(o) /\ Untried(o) /\ Unsent(o)
  BY <1>1 DEF Harmless, Untried, Unsent
<1>4. ClaimsFit
  <2>1. \A c \in Claim : c # NoClaim
    BY DEF Claim, NoClaim
  <2> QED
    BY <1>1, <1>3, <2>1 DEF ClaimsFit, NoEffect
<1>5. ASSUME NEW o \in Op
      PROVE  TriesFine(o) /\ EffectsFine(o)
  <2>1. Born(o) = {}
    BY <1>1 DEF Born
  <2>2. /\ op[o] = "planned" /\ receipt[o] = 0 /\ effects[o] = <<>> /\ visible[o] = {}
        /\ \A c \in Claim : try[o][c] = "none"
    BY <1>1
  <2> HIDE DEF Born, Canonical
  <2>3. TriesFine(o)
    BY <1>3, <2>2 DEF TriesFine, NoEffect, Active
  <2>4. EffectsFine(o)
    BY <1>3, <2>1, <2>2 DEF EffectsFine, InOrder
  <2> QED
    BY <2>3, <2>4
<1>6. \A w \in Worker : PassFine(w) /\ RiskFine(w)
  <2> TAKE w \in Worker
  <2>1. worker[w].step = "idle" /\ worker[w].claim = NoClaim
    BY <1>1, IdleRow
  <2> QED
    BY <2>1 DEF PassFine, RiskFine, Mutating, Handling
<1> QED
  BY <1>2, <1>4, <1>5, <1>6 DEF Inv

\* One case for every action: what only reads, and what writes.
LEMMA Cases ==
  ASSUME Next
  PROVE  \/ RequestPublication
         \/ ClaimRunsOut \/ FactsChange \/ WindowEnds
         \/ \E o \in Op : Land(o) \/ Vanish(o)
         \/ \E w \in Worker :
              \/ Reads(w) \/ TakeClaim(w) \/ Begin(w) \/ Prove(w) \/ Complete(w)
              \/ Close(w) \/ CloseUnclaimed(w)
              \/ Send(w) \/ Refused(w) \/ DeleteDuplicates(w) \/ Retract(w)
              \/ Record(w) \/ Settle(w)
  BY Zenon DEF Next, Pass, Reads

LEMMA NextInv ==
  ASSUME Inv, [Next]_vars
  PROVE  Inv'
<1>1. CASE UNCHANGED vars
  <2>1. /\ attempt' = attempt /\ op' = op /\ claim' = claim /\ try' = try /\ effects' = effects
        /\ receipt' = receipt /\ request' = request /\ visible' = visible
        /\ fresh' = fresh /\ over' = over /\ worker' = worker
    BY <1>1 DEF vars, rows, outside, clock
  <2>2. TypeOK'
    BY <2>1 DEF Inv, TypeOK
  <2>3. Moves /\ (Sealed' => Sealed) /\ \A o \in Op : TriesPass(o) /\ NothingSent(o)
    BY <2>1, QuietMoves, SealedStays
    DEF Inv, FinishFresh, TriesPass, NothingSent, rows, outside, clock
  <2>4. ClaimsFit' /\ \A o \in Op : TriesFine(o)' /\ EffectsFine(o)'
    BY <2>1, <2>3 DEF Inv, ClaimsFit, TriesFine, EffectsFine, Harmless, Untried, Unsent, Born,
                      Canonical, InOrder
  <2>5. \A v \in Worker : PassFine(v)' /\ RiskFine(v)'
    BY <2>1, <2>3, StillFine
  <2> QED
    BY <2>2, <2>4, <2>5 DEF Inv
<1>2. CASE Next
  BY <1>2, Cases, RequestKeeps, TimeKeeps, FlightsKeep, ReadsKeep, TakeClaimKeeps, BeginKeeps,
     ProveKeeps, CompleteKeeps, CloseKeeps, CloseUnclaimedKeeps, SendKeeps, RefusedKeeps,
     DeleteDuplicatesKeeps, RetractKeeps, RecordKeeps, SettleKeeps, Zenon
<1> QED
  BY <1>1, <1>2

LEMMA AlwaysInv == Spec => []Inv
  BY InitInv, NextInv, PTL DEF Spec

\* Every row, every request and every pass keeps within its type, for any number
\* of workers, operations, claim terms and mutations.
THEOREM TypeOKHolds == Spec => []TypeOK
<1>1. Inv => TypeOK
  BY DEF Inv
<1> QED
  BY <1>1, AlwaysInv, PTL

\* ExpireWork takes the tries of a lost claim with it, and a close those of the
\* attempt: whatever is active belongs to the claim that holds the attempt.
THEOREM TriesFollowTheClaimHolds == Spec => []TriesFollowTheClaim
<1>1. Inv => TriesFollowTheClaim
  BY DEF Inv, TriesFine, ClaimsFit, TriesFollowTheClaim
<1> QED
  BY <1>1, AlwaysInv, PTL

\* No effect is only ever claimed of an operation all of whose tries were proven
\* to have none, and such a proof stands against every late answer: whoever could
\* still send for the operation would have to hold the claim of the try.
THEOREM NoEffectIsTrueHolds == Spec => []NoEffectIsTrue
<1>1. Inv => NoEffectIsTrue
  BY DEF Inv, TriesFine, EffectsFine, Unsent, NoEffectIsTrue
<1> QED
  BY <1>1, AlwaysInv, PTL

\* As long as the canonical report is the one recorded first, the duplicates a
\* fenced worker still deletes are never the canonical object, and nothing is
\* retracted once the facts have been read for the last time.
THEOREM SucceededIsVisibleHolds == Spec => []SucceededIsVisible
<1>1. Inv => SucceededIsVisible
  BY OpAssumption DEF Inv, ClaimsFit, EffectsFine, Sealed, InOrder, SucceededIsVisible
<1> QED
  BY <1>1, AlwaysInv, PTL

-----------------------------------------------------------------------------
(* The publication lives the life it promises. *)

Status ==
  CASE attempt.state = "absent" -> "absent"
    [] attempt.state = "terminal" -> "closed"
    [] OTHER -> "open"
Touched == \E o \in Op : Born(o) # {}

LEMMA Stutters ==
  ASSUME attempt'.outcome = attempt.outcome,
         \/ attempt'.state = attempt.state
         \/ {attempt.state, attempt'.state} \cap {"absent", "terminal"} = {},
         \A o \in Op : Born(o)' = Born(o)
  PROVE  UNCHANGED Lifecycle!vars
<1>1. Status' = Status
  BY DEF Status
<1>2. Touched' = Touched
  BY DEF Touched
<1> QED
  BY <1>1, <1>2 DEF Lifecycle!vars, Status, Touched

\* A publication closes with an outcome that what it has created bears out.
LEMMA Closes ==
  ASSUME attempt.state \notin {"absent", "terminal"}, attempt'.state = "terminal",
         NEW outcome \in Outcomes, attempt'.outcome = outcome, UNCHANGED request,
         outcome \in NoEffect => ~Touched,
         outcome \in Stale \cup {"succeeded"} => Touched
  PROVE  Lifecycle!Next
<1>1. Status = "open" /\ Status' = "closed"
  BY DEF Status
<1>2. Touched' = Touched
  BY DEF Touched, Born
<1>3. outcome \in Lifecycle!Outcome
  BY DEF Outcomes, NoEffect, Stale, Lifecycle!Outcome, Lifecycle!NoEffect, Lifecycle!Effective
<1>4. /\ outcome \in Lifecycle!NoEffect => ~Touched
      /\ outcome \in Lifecycle!Effective => Touched
  BY DEF NoEffect, Stale, Lifecycle!NoEffect, Lifecycle!Effective
<1>5. Lifecycle!Close(outcome)
  BY <1>1, <1>2, <1>4 DEF Lifecycle!Close, Status, Touched
<1> QED
  BY <1>3, <1>5 DEF Lifecycle!Next

\* Without a risk nothing was created.
LEMMA Untouched ==
  ASSUME Inv, AtRisk = {}
  PROVE  ~Touched
<1> SUFFICES ASSUME NEW o \in Op
             PROVE  Born(o) = {}
  BY DEF Touched
<1>1. Unsent(o)
  BY HarmlessUnlessAtRisk DEF Inv, EffectsFine
<1> QED
  BY <1>1 DEF Unsent, Born

\* The claim, the begin and the proof of a try change nothing the rest of the
\* system can see.
LEMMA TriesStutter ==
  ASSUME Inv, NEW w \in Worker, TakeClaim(w) \/ Begin(w) \/ Prove(w)
  PROVE  UNCHANGED Lifecycle!vars
<1>1. attempt \in AttemptRow
  BY Typed DEF Inv
<1>2. \A o \in Op : Born(o)' = Born(o)
  <2>1. UNCHANGED outside
    BY Zenon DEF TakeClaim, Begin, Prove
  <2>2. request' = request
    BY <2>1 DEF outside
  <2> QED
    BY <2>2 DEF Born
<1>3. /\ attempt'.outcome = attempt.outcome
      /\ \/ attempt'.state = attempt.state
         \/ {attempt.state, attempt'.state} \cap {"absent", "terminal"} = {}
  <2>1. CASE TakeClaim(w)
    <3>1. PICK c \in Claim :
            /\ worker[w].step = "claiming" /\ attempt.state # "terminal"
            /\ attempt' = [attempt EXCEPT !.state = "publishing", !.claim = c,
                                          !.version = attempt.version + 1]
      BY <2>1, Zenon DEF TakeClaim
    <3>2. attempt.state # "absent"
      BY <3>1 DEF Inv, PassFine
    <3>3. attempt'.outcome = attempt.outcome /\ attempt'.state = "publishing"
      BY <1>1, <3>1 DEF AttemptRow
    <3> QED
      BY <3>1, <3>2, <3>3
  <2>2. CASE Begin(w)
    <3>1. attempt' = [attempt EXCEPT !.version = attempt.version + 1]
      BY <2>2 DEF Begin
    <3> QED
      BY <1>1, <3>1 DEF AttemptRow
  <2>3. CASE Prove(w)
    <3>1. attempt' = attempt
      BY <2>3 DEF Prove
    <3> QED
      BY <3>1
  <2> QED
    BY <2>1, <2>2, <2>3
<1> QED
  BY <1>2, <1>3, Stutters

LEMMA CompleteLives ==
  ASSUME Inv, NEW w \in Worker, Complete(w)
  PROVE  [Lifecycle!Next]_(Lifecycle!vars)
<1>1. /\ UNCHANGED request /\ attempt.state = "publishing"
      /\ \/ attempt'.state = "terminal" /\ attempt'.outcome = "succeeded"
         \/ attempt'.state = attempt.state /\ attempt'.outcome = attempt.outcome
  BY CompleteKeeps
<1>2. worker[w].step = "finishing" /\ PassFine(w)
  BY DEF Inv, Complete
<1>3. PICK o \in Op : worker[w].op = o
  BY <1>2 DEF PassFine
<1>4. Born(o) # {}
  BY <1>2, <1>3 DEF PassFine, Handling
<1>5. Touched
  BY <1>4 DEF Touched
<1>6. CASE attempt'.state = "terminal" /\ attempt'.outcome = "succeeded"
  <2>1. "succeeded" \in Outcomes /\ "succeeded" \notin NoEffect
    BY DEF Outcomes, NoEffect
  <2> QED
    BY <1>1, <1>5, <1>6, <2>1, Closes
<1>7. CASE attempt'.state = attempt.state /\ attempt'.outcome = attempt.outcome
  <2>1. \A s \in Op : Born(s)' = Born(s)
    BY <1>1 DEF Born
  <2> QED
    BY <1>7, <2>1, Stutters
<1> QED
  BY <1>1, <1>6, <1>7

LEMMA CloseLives ==
  ASSUME Inv, NEW w \in Worker, Close(w) \/ CloseUnclaimed(w)
  PROVE  Lifecycle!Next
<1>1. CASE Close(w)
  <2>1. /\ attempt.state = "publishing" /\ attempt'.state = "terminal"
        /\ attempt'.outcome = worker[w].outcome /\ UNCHANGED request
    BY <1>1, CloseKeeps
  <2>2. worker[w].step = "closing" /\ PassFine(w) /\ (worker[w].outcome \in NoEffect => AtRisk = {})
    BY <1>1 DEF Inv, Close, Closable
  <2>3. PICK o \in Op : worker[w].op = o
    BY <2>2 DEF PassFine
  <2>4. PICK outcome \in NoEffect \cup Stale \cup {"terminal_unknown"} : worker[w].outcome = outcome
    BY <2>2 DEF PassFine
  <2>5. outcome \in Stale => Touched
    BY <2>2, <2>3, <2>4 DEF PassFine, Touched
  <2>6. outcome \in NoEffect => ~Touched
    BY <2>2, <2>4, Untouched
  <2>7. outcome \in Outcomes /\ outcome # "succeeded"
    BY DEF Outcomes, NoEffect, Stale
  <2> QED
    BY <2>1, <2>4, <2>5, <2>6, <2>7, Closes
<1>2. CASE CloseUnclaimed(w)
  <2>1. /\ attempt.state = "pending" /\ attempt'.state = "terminal"
        /\ attempt'.outcome = "superseded_no_effect" /\ AtRisk = {} /\ UNCHANGED request
    BY <1>2, CloseUnclaimedKeeps
  <2>2. /\ "superseded_no_effect" \in Outcomes
        /\ "superseded_no_effect" \notin Stale \cup {"succeeded"}
    BY DEF Outcomes, NoEffect, Stale
  <2>3. ~Touched
    BY <2>1, Untouched
  <2> QED
    BY <2>1, <2>2, <2>3, Closes
<1> QED
  BY <1>1, <1>2

\* An object that appears late does so behind no outcome that denies it: its
\* request was under way, so its operation was at risk when the attempt closed.
LEMMA FlightsLive ==
  ASSUME Inv, NEW o \in Op, Land(o) \/ Vanish(o)
  PROVE  [Lifecycle!Next]_(Lifecycle!vars)
<1>1. /\ UNCHANGED rows
      /\ \/ ~Harmless(o) /\ Born(o)' # {} /\ \A s \in Op \ {o} : Born(s)' = Born(s)
         \/ \A s \in Op : Born(s)' = Born(s)
  BY FlightsKeep
<1>2. attempt' = attempt
  BY <1>1 DEF rows
<1>3. CASE \A s \in Op : Born(s)' = Born(s)
  BY <1>2, <1>3, Stutters
<1>4. CASE ~Harmless(o) /\ Born(o)' # {}
  <2>1. attempt.state # "absent" /\ attempt.outcome \notin NoEffect
    BY <1>4 DEF Inv, ClaimsFit
  <2>2. Status # "absent" /\ Status' = Status
    BY <1>2, <2>1 DEF Status
  <2>3. Touched' = TRUE
    BY <1>4 DEF Touched
  <2>4. attempt.outcome \notin Lifecycle!NoEffect
    BY <2>1 DEF NoEffect, Lifecycle!NoEffect
  <2>5. Lifecycle!Touch
    BY <1>2, <2>2, <2>3, <2>4 DEF Lifecycle!Touch, Status, Touched
  <2> QED
    BY <2>5 DEF Lifecycle!Next
<1> QED
  BY <1>1, <1>3, <1>4

LEMMA NextLives ==
  ASSUME Inv, [Next]_vars
  PROVE  [Lifecycle!Next]_(Lifecycle!vars)
<1>1. ASSUME UNCHANGED <<attempt, request>>
      PROVE  UNCHANGED Lifecycle!vars
  BY <1>1, Stutters DEF Born
<1>2. ASSUME UNCHANGED attempt, \A o \in Op : Born(o)' = Born(o)
      PROVE  UNCHANGED Lifecycle!vars
  BY <1>2, Stutters
<1>3. CASE UNCHANGED vars
  BY <1>1, <1>3 DEF vars, rows, outside
<1>4. CASE RequestPublication
  <2>1. /\ UNCHANGED request
        /\ attempt.state = "absent" /\ attempt.outcome = "none"
        /\ attempt'.state = "pending" /\ attempt'.outcome = "none"
    BY <1>4, RequestKeeps
  <2>2. Status = "absent" /\ Status' = "open"
    BY <2>1 DEF Status
  <2>3. Touched' = Touched
    BY <2>1 DEF Touched, Born
  <2>4. Lifecycle!Request
    BY <2>1, <2>2, <2>3 DEF Lifecycle!Request, Status, Touched
  <2> QED
    BY <2>4 DEF Lifecycle!Next
<1>5. CASE ClaimRunsOut \/ FactsChange \/ WindowEnds
  BY <1>1, <1>5, TimeKeeps
<1>6. ASSUME NEW o \in Op, Land(o) \/ Vanish(o)
      PROVE  [Lifecycle!Next]_(Lifecycle!vars)
  BY <1>6, FlightsLive
<1>7. ASSUME NEW w \in Worker,
             \/ Reads(w) \/ TakeClaim(w) \/ Begin(w) \/ Prove(w) \/ Complete(w)
             \/ Close(w) \/ CloseUnclaimed(w)
             \/ Send(w) \/ Refused(w) \/ DeleteDuplicates(w) \/ Retract(w)
             \/ Record(w) \/ Settle(w)
      PROVE  [Lifecycle!Next]_(Lifecycle!vars)
  <2>1. CASE Reads(w) \/ DeleteDuplicates(w) \/ Retract(w) \/ Record(w) \/ Settle(w)
    <3>1. UNCHANGED <<attempt, request>>
      BY <2>1, ReadsKeep, DeleteDuplicatesKeeps, RetractKeeps, RecordKeeps, SettleKeeps
      DEF rows, outside
    <3> QED
      BY <1>1, <3>1
  <2>2. CASE Send(w) \/ Refused(w)
    <3>1. UNCHANGED attempt /\ \A o \in Op : Born(o)' = Born(o)
      BY <2>2, SendKeeps, RefusedKeeps DEF rows
    <3> QED
      BY <1>2, <3>1
  <2> QED
    BY <1>7, <2>1, <2>2, TriesStutter, CompleteLives, CloseLives
<1> QED
  BY <1>3, <1>4, <1>5, <1>6, <1>7, Cases

\* What the rest of the system is promised is kept, step by step: closing never
\* denies an effect that was or may still come, nor claims one that was not.
THEOREM ImplementsLifecycleHolds == Spec => ImplementsLifecycle
<1>1. Init => Lifecycle!Init
  <2> SUFFICES ASSUME Init
               PROVE  Lifecycle!Init
    OBVIOUS
  <2>1. attempt.state = "absent" /\ attempt.outcome = "none" /\ request = [o \in Op |-> <<>>]
    BY DEF Init
  <2>2. Status = "absent"
    BY <2>1 DEF Status
  <2>3. Touched = FALSE
    BY <2>1 DEF Touched, Born
  <2> QED
    BY <2>1, <2>2, <2>3 DEF Lifecycle!Init, Status, Touched
<1>2. Inv /\ [Next]_vars => [Lifecycle!Next]_(Lifecycle!vars)
  BY NextLives
<1>3. ImplementsLifecycle <=> Lifecycle!Init /\ [][Lifecycle!Next]_(Lifecycle!vars)
  BY DEF ImplementsLifecycle, Lifecycle!Spec
<1> QED
  BY <1>1, <1>2, <1>3, AlwaysInv, PTL DEF Spec
=============================================================================
