-------------------------- MODULE CompletionProcess --------------------------
(* From a finalized execution to its end: the completion process requests the *)
(* publication of the artifact, waits for its outcome and, when a complete    *)
(* review has been published, makes it the snapshot of the pull request that  *)
(* later reviews start from.  All executions are of one pull request.         *)
(*                                                                            *)
(* A worker advances a process under a claim of the row.  Tokens of claims    *)
(* are never reused and versions only grow, so of both the model keeps        *)
(* whether the row is still as the worker's claim left it (`holder`).  The    *)
(* publication is the promise of PublicationLifecycle, which                  *)
(* PublicationAttempt keeps.                                                  *)
EXTENDS Integers, FiniteSets

CONSTANTS
  Worker,      \* threads of control of the workers: a handler or a maintenance run
  Execution,   \* finalized executions, numbered by their generation
  Outcomes,    \* bound: the outcomes publications may close with
  MaxTrouble   \* bound: crashes, failed or unanswered calls, and expirations,
               \* of rows and of claims that are worked under

\* What the process becomes with the facts of its publication.
StateFor ==
  [open |-> "publication_in_progress", succeeded |-> "awaiting_snapshot",
   superseded_no_effect |-> "publication_not_applied",
   failed_no_effect |-> "publication_not_applied",
   stale_compensated |-> "publication_stale_compensated",
   stale_visible |-> "publication_stale_visible",
   terminal_unknown |-> "blocked_publication_unknown"]

ASSUME ExecutionAssumption ==
  Execution \subseteq Nat \ {0} /\ IsFiniteSet(Execution)
ASSUME OutcomeAssumption == Outcomes \subseteq DOMAIN StateFor \ {"open"}
ASSUME TroubleAssumption == MaxTrouble \in Nat
ASSUME WorkerAssumption == "none" \notin Worker

VARIABLES
  artifact,     \* what the artifact of an execution covers of the pull request
  lapsed,       \* those whose retainUntil has passed
  process,      \* ReviewCompletionProcess rows
  publication,  \* the publication of an execution: [status, outcome, touched]
  snapshot,     \* the ReviewSnapshot row: [generation, version], 0 when absent
  receipt,      \* ReviewSnapshotCommitReceiptV2: what a commit expected and came to
  worker,       \* what every worker is doing
  trouble       \* troubles so far, at most MaxTrouble

vars == <<artifact, lapsed, process, publication, snapshot, receipt, worker, trouble>>

Waiting == {"awaiting_publication", "publication_in_progress", "awaiting_snapshot"}
NoEffect == {"superseded_no_effect", "failed_no_effect"}

NoProcess == [state |-> "absent", claim |-> "none", holder |-> "none"]
NoReceipt == [outcome |-> "none", version |-> 0]
NoSnapshot == [generation |-> 0, version |-> 0]
Idle == [step |-> "idle", execution |-> 0, version |-> 0, to |-> "none"]

Init ==
  /\ artifact = [e \in Execution |-> "none"] /\ lapsed = {}
  /\ process = [e \in Execution |-> NoProcess]
  /\ publication = [e \in Execution |->
       [status |-> "absent", outcome |-> "none", touched |-> FALSE]]
  /\ snapshot = NoSnapshot
  /\ receipt = [e \in Execution |-> NoReceipt]
  /\ worker = [w \in Worker |-> Idle]
  /\ trouble = 0

-----------------------------------------------------------------------------
(* Mutants: plausible mistakes, used to show that the properties catch them. *)

\* Started: the state is written in the words of the database.
StartedAsPending(e) == [NoProcess EXCEPT !.state = "pending_publication"]
\* Due: a process whose claim ran out is not looked for.
DueWhenReleased(e) == process[e].claim = "none"
\* Target: what may be visible is taken for nothing.
TargetUnknownIsNone(e, facts) ==
  IF facts = "terminal_unknown" THEN "publication_not_applied"
  ELSE IF artifact[e] = "partial" /\ facts = "succeeded" THEN "partial_completed" ELSE StateFor[facts]
\* Requested: every request opens a publication.
RequestedAnew(e) ==
  [publication EXCEPT ![e] = [status |-> "open", outcome |-> "none", touched |-> @.touched]]
\* Supersedes: whoever comes first wins; only the version is compared.
SupersedesAny(e) == snapshot.generation # 0
SupersedesNever(e) == FALSE

-----------------------------------------------------------------------------
(* Creation, by the event of the finalization or by the recovery scan. *)

\* The API stores the artifact with the finalization (ReviewExecution).
Finalize(e) ==
  /\ artifact[e] = "none"
  /\ \E coverage \in {"complete", "partial"} : artifact' = [artifact EXCEPT ![e] = coverage]
  /\ UNCHANGED <<lapsed, process, publication, snapshot, receipt, worker, trouble>>

Started(e) == [NoProcess EXCEPT !.state = "awaiting_publication"]

\* createOrWake: both wake with the artifact's creation time, which is never
\* newer than the one the process was created with.
CreateOrWake(e) ==
  /\ artifact[e] # "none" /\ process[e].state = "absent"
  /\ process' = [process EXCEPT ![e] = Started(e)]
  /\ UNCHANGED <<artifact, lapsed, publication, snapshot, receipt, worker, trouble>>

-----------------------------------------------------------------------------
(* One advance of a process by a worker. *)

Goto(w, step) == worker' = [worker EXCEPT ![w].step = step]
Recording(w, to) == worker' = [worker EXCEPT ![w].step = "recording", ![w].to = to]
Retrying(w) == Recording(w, "retry")
Trouble == trouble < MaxTrouble /\ trouble' = trouble + 1
\* The answer to a call that has taken effect arrives, or is lost.
Answered(w, to) ==
  \/ Recording(w, to) /\ UNCHANGED trouble
  \/ Retrying(w) /\ Trouble

ClaimAllows(e) ==
  /\ process[e].state \in Waiting /\ e \notin lapsed
  /\ process[e].claim # "live"

\* nextActionAt passes in time: that of a claimed process is its claimUntil.
Due(e) == process[e].claim # "live"

Claim(w, e) ==
  /\ worker[w].step = "idle" /\ ClaimAllows(e)
  /\ process' = [process EXCEPT ![e] =
       [state |-> process[e].state, claim |-> "live", holder |-> w]]
  /\ worker' = [worker EXCEPT ![w] = [Idle EXCEPT !.step = "claimed", !.execution = e]]
  /\ UNCHANGED <<artifact, lapsed, publication, snapshot, receipt, trouble>>

\* The due scan takes processes whose nextActionAt has passed; the handler of the
\* event and the maintenance after a settled publication take any.
ClaimDue(w, e) == Due(e) /\ Claim(w, e)

Holder(w) == process[worker[w].execution].holder = w

\* executeClaim reads the process again.  From here on the claim is compared only
\* when the transition is recorded, and no longer with the clock.
Current(w) == Holder(w) /\ process[worker[w].execution].claim = "live"

Stale(w) ==
  /\ worker[w].step = "claimed" /\ ~Current(w)
  /\ worker' = [worker EXCEPT ![w] = Idle]
  /\ UNCHANGED <<artifact, lapsed, process, publication, snapshot, receipt, trouble>>

Target(e, facts) ==
  IF artifact[e] = "partial" /\ facts = "succeeded" THEN "partial_completed" ELSE StateFor[facts]

\* The attempt is looked up by its id or the permit, and requested if there is none.
FindPublication(w) ==
  LET e == worker[w].execution
      p == publication[e]
  IN /\ \/ worker[w].step = "claimed" /\ Current(w) /\ process[e].state # "awaiting_snapshot"
        \/ worker[w].step = "reading"
     /\ IF p.status = "absent" THEN Goto(w, "requesting")
        ELSE Recording(w, Target(e, IF p.status = "open" THEN "open" ELSE p.outcome))
     /\ UNCHANGED <<artifact, lapsed, process, publication, snapshot, receipt, trouble>>

\* The id of the attempt is computed from the execution and its artifact: a
\* request that was made before restores what it made.
Requested(e) ==
  IF publication[e].status # "absent" THEN publication
  ELSE [publication EXCEPT ![e] = [@ EXCEPT !.status = "open"]]

RequestPublication(w) ==
  /\ worker[w].step = "requesting"
  /\ publication' = Requested(worker[w].execution)
  /\ \/ Goto(w, "reading") /\ UNCHANGED trouble
     \/ Retrying(w) /\ Trouble
  /\ UNCHANGED <<artifact, lapsed, process, snapshot, receipt>>

Receipt(e) == IF receipt[e].outcome = "committed" THEN "completed" ELSE "completed_superseded"

\* An earlier commit is found by its receipt.
FindReceipt(w) ==
  LET e == worker[w].execution
  IN /\ worker[w].step = "claimed" /\ Current(w) /\ process[e].state = "awaiting_snapshot"
     /\ IF artifact[e] = "partial" THEN Retrying(w)
        ELSE IF receipt[e] = NoReceipt THEN Goto(w, "preparing")
        ELSE Recording(w, Receipt(e))
     /\ UNCHANGED <<artifact, lapsed, process, publication, snapshot, receipt, trouble>>

\* The commit expects the version of the snapshot it is prepared for, or the one
\* before when the snapshot is the execution's own.
PrepareCommit(w) ==
  LET e == worker[w].execution
  IN /\ worker[w].step = "preparing"
     /\ IF publication[e].outcome = "succeeded"
        THEN worker' = [worker EXCEPT ![w].step = "committing", ![w].version =
               IF snapshot.generation = e THEN snapshot.version - 1 ELSE snapshot.version]
        ELSE Retrying(w)
     /\ UNCHANGED <<artifact, lapsed, process, publication, snapshot, receipt, trouble>>

\* A later review has become the snapshot in the meantime.
Supersedes(e) == snapshot.generation > e

\* The transaction: a receipt is restored for the request it was written for, a
\* version other than the expected one refused, a higher generation left alone.
\* (That the snapshot is already e's own cannot be met here: it is written with
\* e's receipt, and nothing deletes receipts.)
CommitSnapshot(w) ==
  LET e == worker[w].execution
      v == worker[w].version
      asked == IF receipt[e] = NoReceipt THEN snapshot.version = v ELSE receipt[e].version = v
  IN /\ worker[w].step = "committing"
     /\ \/ ~asked /\ Retrying(w) /\ UNCHANGED <<snapshot, receipt, trouble>>
        \/ asked /\ receipt[e] # NoReceipt
           /\ Answered(w, Receipt(e)) /\ UNCHANGED <<snapshot, receipt>>
        \/ asked /\ receipt[e] = NoReceipt /\ Supersedes(e)
           /\ receipt' = [receipt EXCEPT ![e] = [outcome |-> "superseded", version |-> v]]
           /\ Answered(w, "completed_superseded") /\ UNCHANGED snapshot
        \/ asked /\ receipt[e] = NoReceipt /\ ~Supersedes(e)
           /\ receipt' = [receipt EXCEPT ![e] = [outcome |-> "committed", version |-> v]]
           /\ snapshot' = [generation |-> e, version |-> v + 1]
           /\ Answered(w, "completed")
     /\ UNCHANGED <<artifact, lapsed, process, publication>>

\* applyTransition: the row has to be as the claim left it.
Record(w) ==
  LET e == worker[w].execution
      to == IF worker[w].to = "retry" THEN process[e].state ELSE worker[w].to
  IN /\ worker[w].step = "recording"
     /\ process' = IF ~Holder(w) THEN process ELSE [process EXCEPT ![e] =
          [state |-> to, claim |-> "none", holder |-> "none"]]
     /\ worker' = [worker EXCEPT ![w] = Idle]
     /\ UNCHANGED <<artifact, lapsed, publication, snapshot, receipt, trouble>>

-----------------------------------------------------------------------------
(* Troubles. *)

\* A call of the publication or the snapshot context throws: the process is tried
\* again later.
CallFails(w) ==
  /\ worker[w].step \in {"claimed", "requesting", "reading", "preparing", "committing"}
  /\ Trouble /\ Retrying(w)
  /\ UNCHANGED <<artifact, lapsed, process, publication, snapshot, receipt>>

\* The worker dies, or gives up for an error nothing catches; its claim stays.
Crash(w) ==
  /\ worker[w].step # "idle"
  /\ Trouble
  /\ worker' = [worker EXCEPT ![w] = Idle]
  /\ UNCHANGED <<artifact, lapsed, process, publication, snapshot, receipt>>

-----------------------------------------------------------------------------
(* The surroundings. *)

Working(w, e) == worker[w].step # "idle" /\ worker[w].execution = e

Expire(e) ==
  /\ process[e].claim = "live"
  /\ process' = [process EXCEPT ![e].claim = "expired"]
  /\ UNCHANGED <<artifact, lapsed, publication, snapshot, receipt, worker>>

\* The claim of a worker that died runs out, or that of one that is slow: this
\* is a trouble too.
ClaimRunsOut(e) == Expire(e) /\ ~Working(process[e].holder, e) /\ UNCHANGED trouble
Overrun(w) ==
  worker[w].step # "idle" /\ Holder(w) /\ Expire(worker[w].execution) /\ Trouble

Lapse(e) ==
  /\ artifact[e] # "none" /\ e \notin lapsed /\ Trouble
  /\ lapsed' = lapsed \cup {e}
  /\ UNCHANGED <<artifact, process, publication, snapshot, receipt, worker>>

\* pruneExpiredReviewSnapshots
PruneSnapshot ==
  /\ snapshot # NoSnapshot /\ Trouble /\ snapshot' = NoSnapshot
  /\ UNCHANGED <<artifact, lapsed, process, publication, receipt, worker>>

\* The workers of the publication and GitHub, as PublicationLifecycle has them.
Touch(e) ==
  /\ publication[e].status # "absent" /\ publication[e].outcome \notin NoEffect
  /\ ~publication[e].touched
  /\ publication' = [publication EXCEPT ![e].touched = TRUE]
  /\ UNCHANGED <<artifact, lapsed, process, snapshot, receipt, worker, trouble>>

Close(e) ==
  \E o \in Outcomes :
    /\ publication[e].status = "open"
    /\ o \in NoEffect => ~publication[e].touched
    /\ o \notin NoEffect \cup {"terminal_unknown"} => publication[e].touched
    /\ publication' = [publication EXCEPT ![e] =
         [status |-> "closed", outcome |-> o, touched |-> @.touched]]
    /\ UNCHANGED <<artifact, lapsed, process, snapshot, receipt, worker, trouble>>

Advance(w) ==
  \/ Stale(w) \/ FindPublication(w) \/ RequestPublication(w)
  \/ FindReceipt(w) \/ PrepareCommit(w) \/ CommitSnapshot(w) \/ Record(w)

Next ==
  \/ \E w \in Worker : Advance(w) \/ CallFails(w) \/ Crash(w) \/ Overrun(w) \/ \E e \in Execution : Claim(w, e)
  \/ \E e \in Execution :
       \/ Finalize(e) \/ CreateOrWake(e) \/ Touch(e) \/ Close(e)
       \/ ClaimRunsOut(e) \/ Lapse(e)
  \/ PruneSnapshot

Spec == Init /\ [][Next]_vars

\* Workers that are not killed finish what they do, time passes, the maintenance
\* scans for finalized executions without a process and, the longest due first,
\* for due ones.  Publications need not close.
Fairness ==
  /\ \A w \in Worker : WF_vars(Advance(w))
  /\ \A e \in Execution :
       /\ WF_vars(CreateOrWake(e)) /\ WF_vars(ClaimRunsOut(e))
       /\ SF_vars(\E w \in Worker : ClaimDue(w, e))

LiveSpec == Spec /\ Fairness
-----------------------------------------------------------------------------
State ==
  Waiting \cup {"absent", "completed", "completed_superseded", "partial_completed",
    "publication_not_applied", "publication_stale_compensated", "publication_stale_visible",
    "blocked_publication_unknown"}

TypeOK ==
  /\ artifact \in [Execution -> {"none", "complete", "partial"}] /\ lapsed \subseteq Execution
  /\ process \in [Execution -> [state : State, claim : {"none", "live", "expired"},
       holder : Worker \cup {"none"}]]
  /\ publication \in [Execution -> [status : {"absent", "open", "closed"}, touched : BOOLEAN,
       outcome : {"none"} \cup DOMAIN StateFor]]
  /\ snapshot \in [generation : {0} \cup Execution, version : Nat]
  /\ receipt \in [Execution -> [outcome : {"none", "committed", "superseded"}, version : Nat]]
  /\ worker \in [Worker -> [step : {"idle", "claimed", "requesting", "reading",
       "preparing", "committing", "recording"}, execution : {0} \cup Execution,
       version : Nat, to : State \cup {"none", "retry"}]]
  /\ trouble \in 0 .. MaxTrouble

\* What a process says at its end is what became of its publication: a review is
\* complete only when it was published as a whole and its snapshot was decided
\* on, nothing was applied only when nothing is on the pull request, and what
\* nobody knows is never taken for either.
ProcessTellsOutcome ==
  \A e \in Execution :
    LET state == process[e].state  p == publication[e]
    IN /\ state \in {"completed", "completed_superseded"} =>
            /\ p.outcome = "succeeded" /\ artifact[e] = "complete"
            /\ receipt[e] # NoReceipt /\ state = Receipt(e)
       /\ state = "partial_completed" =>
            p.outcome = "succeeded" /\ artifact[e] = "partial" /\ receipt[e] = NoReceipt
       /\ state = "publication_not_applied" => p.outcome \in NoEffect /\ ~p.touched
       /\ state \in {"publication_stale_compensated", "publication_stale_visible"} =>
            p.touched /\ state = StateFor[p.outcome]
       /\ state = "blocked_publication_unknown" => p.outcome = "terminal_unknown"

\* Only complete reviews that are on the pull request were ever its snapshot, also
\* when the worker that committed it had lost its claim, and a review is called
\* superseded only for one that is newer.
SnapshotIsEarned ==
  /\ \A e \in Execution :
       /\ receipt[e] # NoReceipt => publication[e].outcome = "succeeded" /\ artifact[e] = "complete"
       /\ receipt[e].outcome = "superseded" =>
            \E d \in Execution : d > e /\ receipt[d].outcome = "committed"
  /\ snapshot # NoSnapshot => receipt[snapshot.generation].outcome = "committed"

\* The snapshot moves on to newer reviews only, each of them once, however late
\* and however often its commit is tried; only its expiry removes it.
SnapshotMovesForward ==
  [][\/ snapshot' = snapshot \/ snapshot' = NoSnapshot
     \/ /\ snapshot'.generation > snapshot.generation
        /\ receipt[snapshot'.generation] = NoReceipt]_vars

Publication(e) == INSTANCE PublicationLifecycle WITH
  status <- publication[e].status, outcome <- publication[e].outcome,
  touched <- publication[e].touched

\* Lost answers, crashes and takeovers never request a second publication or
\* reopen one: the process uses the publication as its lifecycle allows.
OnePublication ==
  /\ \A e \in Execution : Publication(e)!Init
  /\ [][\A e \in Execution : [Publication(e)!Next]_(publication[e])]_publication

\* Every finalized execution comes to its end, or its publication is still open,
\* or its rows are past their retention.
EveryReviewEnds ==
  \A e \in Execution :
    <>[](artifact[e] # "none" => \/ process[e].state \notin Waiting \cup {"absent"}
                           \/ publication[e].status = "open"
                           \/ e \in lapsed)
=============================================================================
