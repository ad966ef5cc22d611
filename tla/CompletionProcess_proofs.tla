----------------------- MODULE CompletionProcess_proofs -----------------------
(***************************************************************************)
(* Proofs, for every set of workers and of executions of a pull request    *)
(* and every number of troubles, that completion processes tell what       *)
(* became of their publications, that the snapshot is a published complete *)
(* review and only moves to newer ones, and that the publications they     *)
(* drive live the promised life.                                           *)
(***************************************************************************)
EXTENDS CompletionProcess, TLAPS

Known == DOMAIN StateFor \ {"open"}
ProcessRow ==
  [state : State, claim : {"none", "live", "expired"}, holder : Worker \cup {"none"}]
PublicationRow ==
  [status : {"absent", "open", "closed"}, touched : BOOLEAN, outcome : {"none"} \cup DOMAIN StateFor]
ReceiptRow == [outcome : {"none", "committed", "superseded"}, version : Nat]
WorkerRow ==
  [step : {"idle", "claimed", "requesting", "reading", "preparing", "committing", "recording"},
   execution : {0} \cup Execution, version : Nat, to : State \cup {"none", "retry"}]

LEMMA StateForValues ==
  /\ DOMAIN StateFor = {"open", "succeeded", "superseded_no_effect", "failed_no_effect",
                        "stale_compensated", "stale_visible", "terminal_unknown"}
  /\ StateFor["open"] = "publication_in_progress"
  /\ StateFor["succeeded"] = "awaiting_snapshot"
  /\ StateFor["superseded_no_effect"] = "publication_not_applied"
  /\ StateFor["failed_no_effect"] = "publication_not_applied"
  /\ StateFor["stale_compensated"] = "publication_stale_compensated"
  /\ StateFor["stale_visible"] = "publication_stale_visible"
  /\ StateFor["terminal_unknown"] = "blocked_publication_unknown"
  BY DEF StateFor

\* What a process may say of its execution when it is in a state.
Told(e, state) ==
  LET p == publication[e]
  IN /\ state \in {"completed", "completed_superseded"} =>
          /\ p.outcome = "succeeded" /\ artifact[e] = "complete"
          /\ receipt[e] # NoReceipt /\ state = Receipt(e)
     /\ state = "partial_completed" =>
          p.outcome = "succeeded" /\ artifact[e] = "partial" /\ receipt[e] = NoReceipt
     /\ state = "publication_not_applied" => p.outcome \in NoEffect /\ ~p.touched
     /\ state \in {"publication_stale_compensated", "publication_stale_visible"} =>
          /\ p.touched /\ p.outcome \in {"stale_compensated", "stale_visible"}
          /\ state = StateFor[p.outcome]
     /\ state = "blocked_publication_unknown" => p.outcome = "terminal_unknown"

\* A closed publication has an outcome that agrees with what it did.
PublicationFine(e) ==
  /\ publication[e].status = "closed" <=> publication[e].outcome # "none"
  /\ publication[e].outcome # "open"
  /\ publication[e].outcome \in NoEffect => ~publication[e].touched
  /\ publication[e].outcome \in {"succeeded", "stale_compensated", "stale_visible"} =>
       publication[e].touched

ReceiptFine(e) ==
  /\ receipt[e].outcome = "none" => receipt[e] = NoReceipt
  /\ receipt[e] # NoReceipt => publication[e].outcome = "succeeded" /\ artifact[e] = "complete"
  /\ receipt[e].outcome = "superseded" =>
       \E d \in Execution : d > e /\ receipt[d].outcome = "committed"

SnapshotFine ==
  \/ snapshot = NoSnapshot
  \/ /\ snapshot.generation \in Execution /\ snapshot.version \in Nat \ {0}
     /\ receipt[snapshot.generation].outcome = "committed"

\* What a worker may rely on, whoever holds the claim by now.
WorkerFine(w) ==
  LET e == worker[w].execution
  IN /\ worker[w].step # "idle" => e \in Execution /\ artifact[e] # "none"
     /\ worker[w].step = "preparing" => artifact[e] = "complete"
     /\ worker[w].step = "committing" =>
          artifact[e] = "complete" /\ publication[e].outcome = "succeeded"
     /\ worker[w].step = "recording" =>
          Told(e, worker[w].to) /\ worker[w].to \in (State \cup {"retry"}) \ {"absent"}

TypeInv ==
  /\ artifact \in [Execution -> {"none", "complete", "partial"}] /\ lapsed \subseteq Execution
  /\ process \in [Execution -> ProcessRow]
  /\ publication \in [Execution -> PublicationRow]
  /\ snapshot \in [generation : {0} \cup Execution, version : Nat]
  /\ receipt \in [Execution -> ReceiptRow]
  /\ worker \in [Worker -> WorkerRow]
  /\ trouble \in 0 .. MaxTrouble

ProcessFine(e) ==
  /\ process[e].state # "absent" => artifact[e] # "none"
  /\ Told(e, process[e].state)

Inv ==
  /\ TypeInv /\ SnapshotFine
  /\ \A e \in Execution : ProcessFine(e) /\ PublicationFine(e) /\ ReceiptFine(e)
  /\ \A w \in Worker : WorkerFine(w)

-----------------------------------------------------------------------------
(* Facts about an execution only become more. *)

FactsGrow ==
  \A e \in Execution :
    /\ artifact[e] # "none" => artifact'[e] = artifact[e]
    /\ publication[e].outcome # "none" => publication'[e].outcome = publication[e].outcome
    /\ publication[e].outcome \in NoEffect => publication'[e].touched = publication[e].touched
    /\ publication[e].touched => publication'[e].touched
    /\ receipt[e] # NoReceipt \/ artifact[e] = "partial" => receipt'[e] = receipt[e]

LEMMA SameFacts ==
  ASSUME UNCHANGED <<artifact, publication, receipt>>
  PROVE  FactsGrow
  BY DEF FactsGrow

LEMMA ToldStays ==
  ASSUME FactsGrow, NEW e \in Execution, NEW state, Told(e, state)
  PROVE  Told(e, state)'
<1>1. ASSUME state \in {"completed", "completed_superseded"}
      PROVE  /\ publication'[e].outcome = "succeeded" /\ artifact'[e] = "complete"
             /\ receipt'[e] # NoReceipt /\ state = Receipt(e)'
  BY <1>1 DEF Told, FactsGrow, Receipt
<1>2. ASSUME state = "partial_completed"
      PROVE  /\ publication'[e].outcome = "succeeded" /\ artifact'[e] = "partial"
             /\ receipt'[e] = NoReceipt
  BY <1>2 DEF Told, FactsGrow
<1>3. ASSUME state = "publication_not_applied"
      PROVE  publication'[e].outcome \in NoEffect /\ ~publication'[e].touched
  BY <1>3 DEF Told, FactsGrow, NoEffect
<1>4. ASSUME state \in {"publication_stale_compensated", "publication_stale_visible"}
      PROVE  /\ publication'[e].touched /\ state = StateFor[publication'[e].outcome]
             /\ publication'[e].outcome \in {"stale_compensated", "stale_visible"}
  BY <1>4 DEF Told, FactsGrow
<1>5. ASSUME state = "blocked_publication_unknown"
      PROVE  publication'[e].outcome = "terminal_unknown"
  BY <1>5 DEF Told, FactsGrow
<1> QED
  BY <1>1, <1>2, <1>3, <1>4, <1>5 DEF Told

LEMMA WorkerStays ==
  ASSUME FactsGrow, NEW w \in Worker, WorkerFine(w), worker'[w] = worker[w]
  PROVE  WorkerFine(w)'
<1>1. CASE worker[w].step = "idle"
  BY <1>1 DEF WorkerFine
<1>2. CASE worker[w].step # "idle"
  <2>1. worker[w].execution \in Execution
    BY <1>2 DEF WorkerFine
  <2>2. PICK e, to : e = worker[w].execution /\ to = worker[w].to
    OBVIOUS
  <2>3. worker[w].step = "recording" => Told(e, to)'
    BY <2>1, <2>2, ToldStays DEF WorkerFine
  <2>4. worker'[w].step = "recording" => Told(worker[w].execution, worker[w].to)'
    BY <2>2, <2>3 DEF Told
  <2> QED
    BY <2>1, <2>4 DEF WorkerFine, FactsGrow
<1> QED
  BY <1>1, <1>2

\* All workers but one stay as they are.
LEMMA WorkersStay ==
  ASSUME Inv, FactsGrow, NEW w \in Worker, WorkerFine(w)',
         \A v \in Worker : v # w => worker'[v] = worker[v]
  PROVE  \A v \in Worker : WorkerFine(v)'
  BY WorkerStays DEF Inv

\* A process stays in its state, or its state is told anew.
LEMMA ProcessStays ==
  ASSUME Inv, FactsGrow, NEW e \in Execution, process'[e].state = process[e].state
  PROVE  ProcessFine(e)'
<1>1. ProcessFine(e)
  BY DEF Inv
<1>2. PICK state : state = process[e].state
  OBVIOUS
<1>3. Told(e, state)'
  BY <1>1, <1>2, ToldStays DEF ProcessFine
<1>4. Told(e, process[e].state)'
  BY <1>2, <1>3 DEF Told
<1> QED
  BY <1>1, <1>4 DEF ProcessFine, FactsGrow

LEMMA RowsStay ==
  ASSUME Inv, UNCHANGED <<artifact, publication, receipt, snapshot>>
  PROVE  SnapshotFine' /\ \A e \in Execution : PublicationFine(e)' /\ ReceiptFine(e)'
<1>1. SnapshotFine /\ \A e \in Execution : PublicationFine(e) /\ ReceiptFine(e)
  BY DEF Inv
<1>2. SnapshotFine'
  BY <1>1 DEF SnapshotFine
<1>3. ASSUME NEW e \in Execution
      PROVE  PublicationFine(e)' /\ ReceiptFine(e)'
  BY <1>1 DEF PublicationFine, ReceiptFine
<1> QED
  BY <1>2, <1>3

\* How the workers move.
WorkerGoes(w, step, to) ==
  /\ worker' \in [Worker -> WorkerRow]
  /\ \A v \in Worker : v # w => worker'[v] = worker[v]
  /\ worker'[w].step = step /\ worker'[w].to = to
  /\ worker'[w].execution = worker[w].execution

LEMMA Going ==
  ASSUME Inv, NEW w \in Worker,
         NEW step \in {"idle", "claimed", "requesting", "reading", "preparing", "committing", "recording"},
         NEW to \in State \cup {"none", "retry"}
  PROVE  /\ Goto(w, step) => WorkerGoes(w, step, worker[w].to)
         /\ Recording(w, to) => WorkerGoes(w, "recording", to)
<1>1. worker \in [Worker -> WorkerRow]
  BY DEF Inv, TypeInv
<1>2. worker[w] \in WorkerRow
  BY <1>1
<1>3. ASSUME Goto(w, step)
      PROVE  WorkerGoes(w, step, worker[w].to)
  <2> DEFINE x == [worker[w] EXCEPT !.step = step]
  <2>1. worker' = [worker EXCEPT ![w] = x]
    BY <1>3 DEF Goto
  <2>2. x \in WorkerRow /\ x.step = step /\ x.to = worker[w].to /\ x.execution = worker[w].execution
    BY <1>2 DEF WorkerRow
  <2> HIDE DEF x
  <2> QED
    BY <1>1, <2>1, <2>2 DEF WorkerGoes
<1>4. ASSUME Recording(w, to)
      PROVE  WorkerGoes(w, "recording", to)
  <2> DEFINE x == [worker[w] EXCEPT !.step = "recording", !.to = to]
  <2>1. worker' = [worker EXCEPT ![w] = x]
    BY <1>4 DEF Recording
  <2>2. x \in WorkerRow /\ x.step = "recording" /\ x.to = to /\ x.execution = worker[w].execution
    BY <1>2 DEF WorkerRow
  <2> HIDE DEF x
  <2> QED
    BY <1>1, <2>1, <2>2 DEF WorkerGoes
<1> QED
  BY <1>3, <1>4

LEMMA Ending ==
  ASSUME Inv, NEW w \in Worker, worker' = [worker EXCEPT ![w] = Idle]
  PROVE  /\ worker' \in [Worker -> WorkerRow]
         /\ \A v \in Worker : v # w => worker'[v] = worker[v]
         /\ WorkerFine(w)'
<1>1. worker \in [Worker -> WorkerRow] /\ Idle \in WorkerRow /\ Idle.step = "idle"
  BY DEF Inv, TypeInv, Idle, WorkerRow
<1>2. worker'[w] = Idle
  BY <1>1
<1> QED
  BY <1>1, <1>2 DEF WorkerFine

LEMMA TroubleTyped ==
  ASSUME Inv, Trouble \/ UNCHANGED trouble
  PROVE  trouble' \in 0 .. MaxTrouble
  BY TroubleAssumption DEF Inv, TypeInv, Trouble

-----------------------------------------------------------------------------
(* A worker goes on: the facts stay, and so do the processes. *)

\* Steps that change nothing but the worker, and perhaps count a trouble.
LEMMA WorkerOnly ==
  ASSUME Inv, NEW w \in Worker, WorkerFine(w)', worker' \in [Worker -> WorkerRow],
         \A v \in Worker : v # w => worker'[v] = worker[v],
         UNCHANGED <<artifact, lapsed, process, publication, snapshot, receipt>>,
         Trouble \/ UNCHANGED trouble
  PROVE  Inv'
<1>1. FactsGrow
  BY SameFacts
<1>2. TypeInv'
  BY TroubleTyped DEF Inv, TypeInv
<1>3. \A e \in Execution : ProcessFine(e)'
  BY <1>1, ProcessStays
<1>4. SnapshotFine' /\ \A e \in Execution : PublicationFine(e)' /\ ReceiptFine(e)'
  BY RowsStay
<1>5. \A v \in Worker : WorkerFine(v)'
  BY <1>1, WorkersStay
<1> QED
  BY <1>2, <1>3, <1>4, <1>5 DEF Inv

\* Whatever it is, a try again is fine.
LEMMA RetryingFine ==
  ASSUME Inv, FactsGrow, NEW w \in Worker, worker[w].step # "idle", Retrying(w)
  PROVE  /\ worker' \in [Worker -> WorkerRow]
         /\ \A v \in Worker : v # w => worker'[v] = worker[v]
         /\ WorkerFine(w)'
<1>1. WorkerGoes(w, "recording", "retry")
  BY Going DEF Retrying
<1>2. worker[w].execution \in Execution /\ artifact[worker[w].execution] # "none"
  BY DEF Inv, WorkerFine
<1>3. artifact'[worker[w].execution] # "none"
  BY <1>2 DEF FactsGrow
<1> QED
  BY <1>1, <1>2, <1>3 DEF WorkerGoes, WorkerFine, Told

\* What a worker is about to record, it may say.
LEMMA RecordingFine ==
  ASSUME Inv, FactsGrow, NEW w \in Worker, worker[w].step # "idle",
         NEW to \in State \ {"absent"}, Recording(w, to),
         NEW e, e = worker[w].execution, Told(e, to)'
  PROVE  /\ worker' \in [Worker -> WorkerRow]
         /\ \A v \in Worker : v # w => worker'[v] = worker[v]
         /\ WorkerFine(w)'
<1>1. WorkerGoes(w, "recording", to)
  BY Going
<1>2. worker[w].execution \in Execution /\ artifact[worker[w].execution] # "none"
  BY DEF Inv, WorkerFine
<1>3. artifact'[worker[w].execution] # "none"
  BY <1>2 DEF FactsGrow
<1>4. Told(worker[w].execution, worker[w].to)'
  BY <1>1 DEF WorkerGoes, Told
<1> QED
  BY <1>1, <1>2, <1>3, <1>4 DEF WorkerGoes, WorkerFine

\* The facts of a publication that exists decide the state.
LEMMA TargetTold ==
  ASSUME Inv, NEW e \in Execution, artifact[e] # "none", publication[e].status # "absent",
         NEW facts, facts = IF publication[e].status = "open" THEN "open" ELSE publication[e].outcome
  PROVE  Told(e, Target(e, facts)) /\ Target(e, facts) \in State \ {"absent"}
<1>1. PublicationFine(e) /\ ReceiptFine(e) /\ publication[e] \in PublicationRow
      /\ artifact[e] \in {"complete", "partial"} /\ receipt[e] \in ReceiptRow
  BY DEF Inv, TypeInv
<1>2. CASE publication[e].status = "open"
  <2>1. Target(e, facts) = "publication_in_progress"
    BY <1>2, StateForValues DEF Target
  <2> QED
    BY <2>1 DEF Told, State, Waiting
<1>3. CASE publication[e].status = "closed"
  <2>1. facts = publication[e].outcome
        /\ facts \in {"succeeded", "superseded_no_effect", "failed_no_effect", "stale_compensated",
                      "stale_visible", "terminal_unknown"}
    BY <1>1, <1>3, StateForValues DEF PublicationFine, PublicationRow
  <2>2. CASE artifact[e] = "partial" /\ facts = "succeeded"
    <3>1. Target(e, facts) = "partial_completed"
      BY <2>2 DEF Target
    <3>2. receipt[e] = NoReceipt
      BY <1>1, <2>2 DEF ReceiptFine
    <3> QED
      BY <2>1, <2>2, <3>1, <3>2 DEF Told, State
  <2>3. CASE ~(artifact[e] = "partial" /\ facts = "succeeded")
    <3>1. Target(e, facts) = StateFor[facts]
      BY <2>3 DEF Target
    <3>2. CASE facts = "succeeded"
      BY <3>1, <3>2, StateForValues DEF Told, State, Waiting
    <3>3. CASE facts \in {"superseded_no_effect", "failed_no_effect"}
      <4>1. Target(e, facts) = "publication_not_applied"
        BY <3>1, <3>3, StateForValues
      <4>2. publication[e].outcome \in NoEffect /\ ~publication[e].touched
        BY <1>1, <2>1, <3>3 DEF PublicationFine, NoEffect
      <4> QED
        BY <4>1, <4>2 DEF Told, State
    <3>4. CASE facts \in {"stale_compensated", "stale_visible"}
      <4>1. /\ Target(e, facts) \in {"publication_stale_compensated", "publication_stale_visible"}
            /\ Target(e, facts) = StateFor[publication[e].outcome]
        BY <2>1, <3>1, <3>4, StateForValues
      <4>2. publication[e].touched
        BY <1>1, <2>1, <3>4 DEF PublicationFine
      <4> QED
        BY <2>1, <3>4, <4>1, <4>2 DEF Told, State
    <3>5. CASE facts = "terminal_unknown"
      <4>1. Target(e, facts) = "blocked_publication_unknown"
        BY <3>1, <3>5, StateForValues
      <4> QED
        BY <2>1, <3>5, <4>1 DEF Told, State
    <3> QED
      BY <2>1, <3>2, <3>3, <3>4, <3>5
  <2> QED
    BY <2>2, <2>3
<1> QED
  BY <1>1, <1>2, <1>3 DEF PublicationRow

LEMMA SearchStep ==
  ASSUME Inv, NEW w \in Worker,
         FindPublication(w) \/ FindReceipt(w) \/ PrepareCommit(w) \/ Stale(w) \/ CallFails(w) \/ Crash(w)
  PROVE  Inv'
<1> DEFINE e == worker[w].execution
<1>1. UNCHANGED <<artifact, lapsed, process, publication, snapshot, receipt>>
      /\ (Trouble \/ UNCHANGED trouble)
  BY DEF FindPublication, FindReceipt, PrepareCommit, Stale, CallFails, Crash
<1>2. FactsGrow
  BY <1>1, SameFacts
<1>3. ASSUME worker[w].step # "idle"
      PROVE  e \in Execution /\ artifact[e] # "none" /\ artifact[e] \in {"complete", "partial"}
  BY <1>3 DEF Inv, WorkerFine, TypeInv
<1>4. ASSUME worker[w].step # "idle", Retrying(w)
      PROVE  Inv'
  BY <1>1, <1>2, <1>4, RetryingFine, WorkerOnly
<1>5. ASSUME worker' = [worker EXCEPT ![w] = Idle]
      PROVE  Inv'
  BY <1>1, <1>5, Ending, WorkerOnly
<1>6. ASSUME worker[w].step # "idle",
             NEW to \in State \ {"absent"}, Recording(w, to), Told(e, to)
      PROVE  Inv'
  <2>1. PICK f : f = e
    OBVIOUS
  <2>2. Told(f, to)'
    BY <1>2, <1>3, <1>6, <2>1, ToldStays
  <2> QED
    BY <1>1, <1>2, <1>6, <2>1, <2>2, RecordingFine, WorkerOnly
<1>7. CASE FindPublication(w)
  <2>1. worker[w].step # "idle"
    BY <1>7 DEF FindPublication
  <2>2. CASE publication[e].status = "absent"
    <3>1. WorkerGoes(w, "requesting", worker[w].to)
      <4>1. worker[w].to \in State \cup {"none", "retry"}
        BY DEF Inv, TypeInv, WorkerRow
      <4> QED
        BY <1>7, <2>2, <4>1, Going DEF FindPublication
    <3>2. WorkerFine(w)'
      BY <1>1, <1>3, <2>1, <3>1 DEF WorkerGoes, WorkerFine
    <3> QED
      BY <1>1, <3>1, <3>2, WorkerOnly DEF WorkerGoes
  <2>3. CASE publication[e].status # "absent"
    <3> DEFINE facts == IF publication[e].status = "open" THEN "open" ELSE publication[e].outcome
    <3>1. Recording(w, Target(e, facts))
      BY <1>7, <2>3 DEF FindPublication
    <3>2. Told(e, Target(e, facts)) /\ Target(e, facts) \in State \ {"absent"}
      BY <1>3, <2>1, <2>3, TargetTold
    <3> QED
      BY <1>6, <2>1, <3>1, <3>2
  <2> QED
    BY <2>2, <2>3
<1>8. CASE FindReceipt(w)
  <2>1. worker[w].step # "idle"
    BY <1>8 DEF FindReceipt
  <2>2. CASE artifact[e] = "partial"
    BY <1>4, <1>8, <2>1, <2>2 DEF FindReceipt
  <2>3. CASE artifact[e] # "partial" /\ receipt[e] = NoReceipt
    <3>1. WorkerGoes(w, "preparing", worker[w].to)
      <4>1. worker[w].to \in State \cup {"none", "retry"}
        BY DEF Inv, TypeInv, WorkerRow
      <4> QED
        BY <1>8, <2>3, <4>1, Going DEF FindReceipt
    <3>2. WorkerFine(w)'
      BY <1>1, <1>3, <2>1, <2>3, <3>1 DEF WorkerGoes, WorkerFine
    <3> QED
      BY <1>1, <3>1, <3>2, WorkerOnly DEF WorkerGoes
  <2>4. CASE artifact[e] # "partial" /\ receipt[e] # NoReceipt
    <3>1. Recording(w, Receipt(e))
      BY <1>8, <2>4 DEF FindReceipt
    <3>2. ReceiptFine(e)
      BY <1>3, <2>1 DEF Inv
    <3>3. Told(e, Receipt(e)) /\ Receipt(e) \in State \ {"absent"}
      BY <2>4, <3>2 DEF ReceiptFine, Told, Receipt, State
    <3> QED
      BY <1>6, <2>1, <3>1, <3>3
  <2> QED
    BY <2>2, <2>3, <2>4
<1>9. CASE PrepareCommit(w)
  <2>1. worker[w].step = "preparing"
    BY <1>9 DEF PrepareCommit
  <2>2. CASE publication[e].outcome # "succeeded"
    BY <1>4, <1>9, <2>1, <2>2 DEF PrepareCommit
  <2>3. CASE publication[e].outcome = "succeeded"
    <3> DEFINE v == IF snapshot.generation = e THEN snapshot.version - 1 ELSE snapshot.version
               x == [worker[w] EXCEPT !.step = "committing", !.version = v]
    <3>1. v \in Nat
      <4>1. snapshot.version \in Nat /\ SnapshotFine
        BY DEF Inv, TypeInv
      <4>2. ASSUME snapshot.generation = e
            PROVE  snapshot.version \in Nat \ {0}
        <5>1. snapshot # NoSnapshot
          BY <1>3, <2>1, <4>2, ExecutionAssumption DEF NoSnapshot
        <5> QED
          BY <4>1, <5>1 DEF SnapshotFine
      <4> QED
        BY <4>1, <4>2
    <3>2. worker \in [Worker -> WorkerRow] /\ worker[w] \in WorkerRow
      BY DEF Inv, TypeInv
    <3>3. worker' = [worker EXCEPT ![w] = x]
      BY <1>9, <2>3 DEF PrepareCommit
    <3>4. x \in WorkerRow /\ x.step = "committing" /\ x.execution = e
      <4> HIDE DEF v
      <4> QED
        BY <3>1, <3>2 DEF WorkerRow
    <3> HIDE DEF x
    <3>5. worker' \in [Worker -> WorkerRow] /\ worker'[w] = x
          /\ \A u \in Worker : u # w => worker'[u] = worker[u]
      BY <3>2, <3>3, <3>4
    <3>6. artifact[e] = "complete"
      BY <2>1 DEF Inv, WorkerFine
    <3>7. WorkerFine(w)'
      BY <1>1, <1>3, <2>1, <2>3, <3>4, <3>5, <3>6 DEF WorkerFine
    <3> QED
      BY <1>1, <3>5, <3>7, WorkerOnly
  <2> QED
    BY <2>2, <2>3
<1>10. CASE Stale(w) \/ Crash(w)
  BY <1>5, <1>10 DEF Stale, Crash
<1>11. CASE CallFails(w)
  BY <1>4, <1>11 DEF CallFails
<1> QED
  BY <1>7, <1>8, <1>9, <1>10, <1>11

-----------------------------------------------------------------------------
(* Steps that change a process. *)

\* The row of one process changes, no fact does.
LEMMA ProcessOnly ==
  ASSUME Inv, NEW e \in Execution, NEW row \in ProcessRow,
         process' = [process EXCEPT ![e] = row],
         artifact[e] # "none", Told(e, row.state),
         UNCHANGED <<artifact, lapsed, publication, snapshot, receipt>>,
         Trouble \/ UNCHANGED trouble,
         worker' \in [Worker -> WorkerRow], \A w \in Worker : WorkerFine(w)'
  PROVE  Inv'
<1>1. FactsGrow
  BY SameFacts
<1>2. process \in [Execution -> ProcessRow]
  BY DEF Inv, TypeInv
<1>3. process' \in [Execution -> ProcessRow]
  BY <1>2
<1>4. TypeInv'
  BY <1>3, TroubleTyped DEF Inv, TypeInv
<1>5. ASSUME NEW d \in Execution
      PROVE  ProcessFine(d)'
  <2>1. CASE d = e
    <3>1. process'[e] = row
      BY <1>2
    <3>2. PICK state : state = row.state
      OBVIOUS
    <3>3. Told(e, state)'
      BY <1>1, <3>2, ToldStays
    <3>4. Told(e, process[e].state)'
      BY <3>1, <3>2, <3>3 DEF Told
    <3> QED
      BY <2>1, <3>4 DEF ProcessFine
  <2>2. CASE d # e
    <3>1. process'[d] = process[d]
      BY <1>2, <2>2
    <3> QED
      BY <1>1, <3>1, ProcessStays
  <2> QED
    BY <2>1, <2>2
<1>6. SnapshotFine' /\ \A d \in Execution : PublicationFine(d)' /\ ReceiptFine(d)'
  BY RowsStay
<1> QED
  BY <1>4, <1>5, <1>6 DEF Inv

LEMMA WaitingTold ==
  ASSUME NEW e, NEW state \in Waiting
  PROVE  Told(e, state) /\ state \in State \ {"absent"}
  BY DEF Waiting, Told, State

LEMMA SameWorkers ==
  ASSUME Inv, FactsGrow, UNCHANGED worker
  PROVE  worker' \in [Worker -> WorkerRow] /\ \A w \in Worker : WorkerFine(w)'
<1>1. worker' \in [Worker -> WorkerRow]
  BY DEF Inv, TypeInv
<1>2. \A w \in Worker : WorkerFine(w)'
  BY WorkerStays DEF Inv
<1> QED
  BY <1>1, <1>2

LEMMA CreateStep ==
  ASSUME Inv, NEW e \in Execution, CreateOrWake(e)
  PROVE  Inv'
<1>1. FactsGrow
  BY SameFacts DEF CreateOrWake
<1>2. Started(e) \in ProcessRow /\ Started(e).state = "awaiting_publication"
  BY DEF Started, NoProcess, ProcessRow, State, Waiting
<1>3. Told(e, Started(e).state)
  BY <1>2, WaitingTold DEF Waiting
<1> QED
  BY <1>1, <1>2, <1>3, SameWorkers, ProcessOnly DEF CreateOrWake

LEMMA ClaimStep ==
  ASSUME Inv, NEW w \in Worker, NEW e \in Execution, Claim(w, e)
  PROVE  Inv'
<1> DEFINE row == [state |-> process[e].state, claim |-> "live", holder |-> w]
           x == [Idle EXCEPT !.step = "claimed", !.execution = e]
<1>1. FactsGrow
  BY SameFacts DEF Claim
<1>2. process[e] \in ProcessRow /\ ProcessFine(e) /\ process[e].state \in Waiting
  BY DEF Inv, TypeInv, Claim, ClaimAllows
<1>3. row \in ProcessRow /\ row.state = process[e].state
  BY <1>2 DEF ProcessRow
<1>4. artifact[e] # "none" /\ Told(e, row.state)
  BY <1>2, <1>3 DEF ProcessFine, Waiting
<1>5. worker \in [Worker -> WorkerRow] /\ worker' = [worker EXCEPT ![w] = x]
  BY DEF Inv, TypeInv, Claim
<1>6. x \in WorkerRow /\ x.step = "claimed" /\ x.execution = e
  BY DEF Idle, WorkerRow
<1>7. process' = [process EXCEPT ![e] = row]
      /\ UNCHANGED <<artifact, lapsed, publication, snapshot, receipt, trouble>>
  BY DEF Claim
<1> HIDE DEF x, row
<1>8. worker' \in [Worker -> WorkerRow] /\ worker'[w] = x
      /\ \A v \in Worker : v # w => worker'[v] = worker[v]
  BY <1>5, <1>6
<1>9. WorkerFine(w)'
  BY <1>4, <1>6, <1>7, <1>8 DEF WorkerFine
<1>10. \A v \in Worker : WorkerFine(v)'
  BY <1>1, <1>8, <1>9, WorkersStay
<1> QED
  BY <1>3, <1>4, <1>7, <1>8, <1>10, ProcessOnly

LEMMA RecordStep ==
  ASSUME Inv, NEW w \in Worker, Record(w)
  PROVE  Inv'
<1> DEFINE e == worker[w].execution
           to == IF worker[w].to = "retry" THEN process[e].state ELSE worker[w].to
           row == [state |-> to, claim |-> "none", holder |-> "none"]
<1>1. FactsGrow
  BY SameFacts DEF Record
<1>2. e \in Execution /\ artifact[e] # "none" /\ Told(e, worker[w].to)
      /\ worker[w].to \in (State \cup {"retry"}) \ {"absent"}
  BY DEF Inv, WorkerFine, Record
<1>3. process[e] \in ProcessRow /\ ProcessFine(e)
  BY <1>2 DEF Inv, TypeInv
<1>4. to \in State /\ Told(e, to)
  BY <1>2, <1>3 DEF ProcessFine, ProcessRow
<1>5. worker' \in [Worker -> WorkerRow] /\ WorkerFine(w)'
      /\ \A v \in Worker : v # w => worker'[v] = worker[v]
  BY Ending DEF Record
<1>6. \A v \in Worker : WorkerFine(v)'
  BY <1>1, <1>5, WorkersStay
<1>7. row \in ProcessRow /\ row.state = to
  BY <1>4 DEF ProcessRow
<1>8. CASE Holder(w)
  <2>1. process' = [process EXCEPT ![e] = row]
        /\ UNCHANGED <<artifact, lapsed, publication, snapshot, receipt, trouble>>
    BY <1>8 DEF Record
  <2> HIDE DEF row, to
  <2> QED
    BY <1>2, <1>4, <1>5, <1>6, <1>7, <2>1, ProcessOnly
<1>9. CASE ~Holder(w)
  BY <1>5, <1>9, WorkerOnly DEF Record
<1> QED
  BY <1>8, <1>9

LEMMA ExpireStep ==
  ASSUME Inv, NEW e \in Execution, Expire(e), Trouble \/ UNCHANGED trouble
  PROVE  Inv'
<1> DEFINE row == [process[e] EXCEPT !.claim = "expired"]
<1>1. FactsGrow
  BY SameFacts DEF Expire
<1>2. process[e] \in ProcessRow /\ ProcessFine(e)
  BY DEF Inv, TypeInv
<1>3. row \in ProcessRow /\ row.state = process[e].state
  BY <1>2 DEF ProcessRow
<1>4. process' = [process EXCEPT ![e] = row]
  BY DEF Expire
<1>5. CASE process[e].state = "absent"
  <2>1. TypeInv'
    <3>1. process' \in [Execution -> ProcessRow]
      BY <1>3, <1>4 DEF Inv, TypeInv
    <3> QED
      BY <3>1, TroubleTyped DEF Inv, TypeInv, Expire
  <2>2. ASSUME NEW d \in Execution
        PROVE  process'[d].state = process[d].state
    <3> HIDE DEF row
    <3> QED
      BY <1>3, <1>4 DEF Inv, TypeInv
  <2>3. \A d \in Execution : ProcessFine(d)'
    BY <1>1, <2>2, ProcessStays
  <2> QED
    BY <1>1, <2>1, <2>3, SameWorkers, RowsStay DEF Inv, Expire
<1>6. CASE process[e].state # "absent"
  <2>1. artifact[e] # "none" /\ Told(e, row.state)
    BY <1>2, <1>3, <1>6 DEF ProcessFine
  <2>2. UNCHANGED <<artifact, lapsed, publication, snapshot, receipt, worker>>
    BY DEF Expire
  <2> HIDE DEF row
  <2> QED
    BY <1>1, <1>3, <1>4, <2>1, <2>2, SameWorkers, ProcessOnly
<1> QED
  BY <1>5, <1>6

-----------------------------------------------------------------------------
(* Steps that add a fact. *)

\* A step that adds facts and leaves the processes.
LEMMA FactsOnly ==
  ASSUME Inv, FactsGrow, UNCHANGED <<lapsed, process>>, Trouble \/ UNCHANGED trouble,
         artifact' \in [Execution -> {"none", "complete", "partial"}],
         publication' \in [Execution -> PublicationRow],
         snapshot' \in [generation : {0} \cup Execution, version : Nat],
         receipt' \in [Execution -> ReceiptRow],
         worker' \in [Worker -> WorkerRow], SnapshotFine',
         \A e \in Execution : PublicationFine(e)' /\ ReceiptFine(e)',
         \A w \in Worker : WorkerFine(w)'
  PROVE  Inv'
<1>1. TypeInv'
  BY TroubleTyped DEF Inv, TypeInv
<1>2. \A e \in Execution : ProcessFine(e)'
  BY ProcessStays
<1> QED
  BY <1>1, <1>2 DEF Inv

LEMMA FinalizeStep ==
  ASSUME Inv, NEW e \in Execution, Finalize(e)
  PROVE  Inv'
<1>1. artifact \in [Execution -> {"none", "complete", "partial"}] /\ artifact[e] = "none"
      /\ UNCHANGED <<lapsed, process, publication, snapshot, receipt, worker, trouble>>
  BY DEF Inv, TypeInv, Finalize
<1>2. PICK coverage \in {"complete", "partial"} : artifact' = [artifact EXCEPT ![e] = coverage]
  BY DEF Finalize
<1>3. \A d \in Execution : artifact'[d] = IF d = e THEN coverage ELSE artifact[d]
  BY <1>1, <1>2
<1>4. FactsGrow
  BY <1>1, <1>3 DEF FactsGrow
<1>5. SnapshotFine'
  BY <1>1 DEF Inv, SnapshotFine
<1>6. ASSUME NEW d \in Execution
      PROVE  PublicationFine(d)' /\ ReceiptFine(d)'
  <2>1. PublicationFine(d) /\ ReceiptFine(d)
    BY DEF Inv
  <2>2. PublicationFine(d)'
    BY <1>1, <2>1 DEF PublicationFine
  <2>3. artifact[d] = "complete" => artifact'[d] = "complete"
    BY <1>1, <1>3
  <2> QED
    BY <1>1, <2>1, <2>2, <2>3 DEF ReceiptFine
<1>7. artifact' \in [Execution -> {"none", "complete", "partial"}]
  BY <1>1, <1>2
<1> QED
  BY <1>1, <1>4, <1>5, <1>6, <1>7, SameWorkers, FactsOnly DEF Inv, TypeInv

\* The row of one publication changes: it opens, has an effect or closes.
PublicationMove(e, row) ==
  /\ row \in PublicationRow
  /\ publication[e].outcome # "none" => row.outcome = publication[e].outcome
  /\ publication[e].outcome \in NoEffect => row.touched = publication[e].touched
  /\ publication[e].touched => row.touched
  /\ row.status = "closed" <=> row.outcome # "none"
  /\ row.outcome # "open"
  /\ row.outcome \in NoEffect => ~row.touched
  /\ row.outcome \in {"succeeded", "stale_compensated", "stale_visible"} => row.touched

LEMMA PublicationMoves ==
  ASSUME Inv, NEW e \in Execution, NEW row, PublicationMove(e, row),
         publication' = [publication EXCEPT ![e] = row],
         UNCHANGED <<artifact, snapshot, receipt>>
  PROVE  /\ FactsGrow /\ SnapshotFine' /\ publication' \in [Execution -> PublicationRow]
         /\ \A d \in Execution : PublicationFine(d)' /\ ReceiptFine(d)'
<1>1. publication \in [Execution -> PublicationRow] /\ row \in PublicationRow
  BY DEF Inv, TypeInv, PublicationMove
<1>2. publication' \in [Execution -> PublicationRow]
  BY <1>1
<1>3. publication'[e] = row /\ \A d \in Execution : d # e => publication'[d] = publication[d]
  BY <1>1
<1>4. ASSUME NEW d \in Execution
      PROVE  /\ publication[d].outcome # "none" => publication'[d].outcome = publication[d].outcome
             /\ publication[d].outcome \in NoEffect => publication'[d].touched = publication[d].touched
             /\ publication[d].touched => publication'[d].touched
             /\ PublicationFine(d)'
  <2>1. CASE d = e
    BY <1>3, <2>1 DEF PublicationMove, PublicationFine
  <2>2. CASE d # e
    <3>1. PublicationFine(d) /\ publication'[d] = publication[d]
      BY <1>3, <2>2 DEF Inv
    <3> QED
      BY <3>1 DEF PublicationFine
  <2> QED
    BY <2>1, <2>2
<1>5. FactsGrow
  BY <1>4 DEF FactsGrow
<1>6. SnapshotFine'
  BY DEF Inv, SnapshotFine
<1>7. ASSUME NEW d \in Execution
      PROVE  ReceiptFine(d)'
  BY <1>4 DEF Inv, ReceiptFine
<1> QED
  BY <1>2, <1>4, <1>5, <1>6, <1>7

LEMMA PublicationStep ==
  ASSUME Inv, NEW e \in Execution, Touch(e) \/ Close(e)
  PROVE  Inv'
<1>1. /\ publication[e] \in PublicationRow /\ PublicationFine(e)
      /\ UNCHANGED <<artifact, lapsed, process, snapshot, receipt, worker, trouble>>
  BY DEF Inv, TypeInv, Touch, Close
<1>2. PICK row : PublicationMove(e, row) /\ publication' = [publication EXCEPT ![e] = row]
  <2>1. CASE Touch(e)
    <3> DEFINE x == [publication[e] EXCEPT !.touched = TRUE]
    <3>1. publication' = [publication EXCEPT ![e] = x] /\ publication[e].outcome \notin NoEffect
      BY <2>1 DEF Touch
    <3>2. /\ x \in PublicationRow /\ x.touched = TRUE
          /\ x.status = publication[e].status /\ x.outcome = publication[e].outcome
      BY <1>1 DEF PublicationRow
    <3> HIDE DEF x
    <3>3. PublicationMove(e, x)
      BY <1>1, <3>1, <3>2 DEF PublicationMove, PublicationFine
    <3> QED
      BY <3>1, <3>3
  <2>2. CASE Close(e)
    <3>1. PICK o \in Outcomes :
            /\ publication[e].status = "open"
            /\ o \in NoEffect => ~publication[e].touched
            /\ o \notin NoEffect \cup {"terminal_unknown"} => publication[e].touched
            /\ publication' = [publication EXCEPT ![e] =
                 [status |-> "closed", outcome |-> o, touched |-> publication[e].touched]]
      BY <2>2 DEF Close
    <3> DEFINE x == [status |-> "closed", outcome |-> o, touched |-> publication[e].touched]
    <3>2. o \in DOMAIN StateFor /\ o # "open" /\ o # "none"
      BY OutcomeAssumption, StateForValues
    <3>3. /\ x \in PublicationRow /\ x.status = "closed" /\ x.outcome = o
          /\ x.touched = publication[e].touched
      BY <1>1, <3>2 DEF PublicationRow
    <3>4. publication[e].outcome = "none"
      BY <1>1, <3>1 DEF PublicationFine
    <3>5. o \in {"succeeded", "stale_compensated", "stale_visible"} => publication[e].touched
      BY <3>1 DEF NoEffect
    <3> HIDE DEF x
    <3>6. PublicationMove(e, x)
      BY <3>1, <3>2, <3>3, <3>4, <3>5 DEF PublicationMove, NoEffect
    <3>7. publication' = [publication EXCEPT ![e] = x]
      BY <3>1 DEF x
    <3> QED
      BY <3>6, <3>7
  <2> QED
    BY <2>1, <2>2
<1>3. /\ FactsGrow /\ SnapshotFine' /\ publication' \in [Execution -> PublicationRow]
      /\ \A d \in Execution : PublicationFine(d)' /\ ReceiptFine(d)'
  BY <1>1, <1>2, PublicationMoves
<1> QED
  BY <1>1, <1>3, SameWorkers, FactsOnly DEF Inv, TypeInv

LEMMA RequestStep ==
  ASSUME Inv, NEW w \in Worker, RequestPublication(w)
  PROVE  Inv'
<1> DEFINE e == worker[w].execution
<1>1. e \in Execution /\ artifact[e] # "none" /\ worker[w].step # "idle"
      /\ UNCHANGED <<artifact, lapsed, process, snapshot, receipt>> /\ (Trouble \/ UNCHANGED trouble)
  BY DEF Inv, WorkerFine, RequestPublication
<1>2. publication[e] \in PublicationRow /\ PublicationFine(e)
  BY <1>1 DEF Inv, TypeInv
<1>3. /\ FactsGrow /\ SnapshotFine' /\ publication' \in [Execution -> PublicationRow]
      /\ \A d \in Execution : PublicationFine(d)' /\ ReceiptFine(d)'
  <2>1. CASE publication[e].status # "absent"
    <3>1. UNCHANGED publication
      BY <2>1 DEF RequestPublication, Requested
    <3> QED
      BY <1>1, <3>1, SameFacts, RowsStay DEF Inv, TypeInv
  <2>2. CASE publication[e].status = "absent"
    <3> DEFINE x == [publication[e] EXCEPT !.status = "open"]
    <3>1. publication' = [publication EXCEPT ![e] = x]
      BY <2>2 DEF RequestPublication, Requested
    <3>2. /\ x \in PublicationRow /\ x.status = "open"
          /\ x.touched = publication[e].touched /\ x.outcome = publication[e].outcome
      BY <1>2 DEF PublicationRow
    <3> HIDE DEF x
    <3>3. PublicationMove(e, x)
      BY <1>2, <2>2, <3>2 DEF PublicationMove, PublicationFine
    <3> QED
      BY <1>1, <3>1, <3>3, PublicationMoves
  <2> QED
    BY <2>1, <2>2
<1>4. /\ worker' \in [Worker -> WorkerRow] /\ WorkerFine(w)'
      /\ \A v \in Worker : v # w => worker'[v] = worker[v]
  <2>1. CASE Goto(w, "reading")
    <3>1. WorkerGoes(w, "reading", worker[w].to)
      <4>1. worker[w].to \in State \cup {"none", "retry"}
        BY DEF Inv, TypeInv, WorkerRow
      <4> QED
        BY <2>1, <4>1, Going
    <3> QED
      BY <1>1, <3>1 DEF WorkerGoes, WorkerFine
  <2>2. CASE Retrying(w)
    BY <1>1, <1>3, <2>2, RetryingFine
  <2> QED
    BY <2>1, <2>2 DEF RequestPublication
<1>5. \A v \in Worker : WorkerFine(v)'
  BY <1>3, <1>4, WorkersStay
<1> QED
  BY <1>1, <1>3, <1>4, <1>5, FactsOnly DEF Inv, TypeInv

\* The commit: what it writes, and what the worker may record.
LEMMA CommitFacts ==
  ASSUME Inv, NEW w \in Worker, CommitSnapshot(w), NEW e \in Execution, e = worker[w].execution,
         receipt' # receipt
  PROVE  /\ receipt[e] = NoReceipt /\ receipt' \in [Execution -> ReceiptRow]
         /\ artifact[e] = "complete" /\ publication[e].outcome = "succeeded"
         /\ \A d \in Execution : d # e => receipt'[d] = receipt[d]
         /\ \/ /\ snapshot.generation > e /\ UNCHANGED snapshot
               /\ receipt'[e].outcome = "superseded" /\ Answered(w, "completed_superseded")
            \/ /\ ~(snapshot.generation > e) /\ receipt'[e].outcome = "committed"
               /\ snapshot'.generation = e /\ snapshot'.version \in Nat \ {0}
               /\ snapshot' \in [generation : {0} \cup Execution, version : Nat]
               /\ Answered(w, "completed")
<1>1. receipt \in [Execution -> ReceiptRow] /\ worker[w].version \in Nat
      /\ artifact[e] = "complete" /\ publication[e].outcome = "succeeded"
  BY DEF Inv, TypeInv, WorkerFine, CommitSnapshot, WorkerRow
<1>2. receipt[e] = NoReceipt
  BY DEF CommitSnapshot
<1>3. CASE Supersedes(e)
  <2>1. /\ receipt' = [receipt EXCEPT ![e] = [outcome |-> "superseded", version |-> worker[w].version]]
        /\ Answered(w, "completed_superseded") /\ UNCHANGED snapshot
    BY <1>2, <1>3 DEF CommitSnapshot
  <2> QED
    BY <1>1, <1>2, <1>3, <2>1 DEF Supersedes, ReceiptRow
<1>4. CASE ~Supersedes(e)
  <2>1. /\ receipt' = [receipt EXCEPT ![e] = [outcome |-> "committed", version |-> worker[w].version]]
        /\ snapshot' = [generation |-> e, version |-> worker[w].version + 1]
        /\ Answered(w, "completed")
    BY <1>2, <1>4 DEF CommitSnapshot
  <2> QED
    BY <1>1, <1>2, <1>4, <2>1 DEF Supersedes, ReceiptRow
<1> QED
  BY <1>3, <1>4

LEMMA CommitStep ==
  ASSUME Inv, NEW w \in Worker, CommitSnapshot(w)
  PROVE  Inv'
<1>1. PICK e \in Execution : e = worker[w].execution
  BY DEF Inv, WorkerFine, CommitSnapshot
<1>2. /\ artifact[e] = "complete" /\ publication[e].outcome = "succeeded"
      /\ worker[w].step # "idle" /\ ReceiptFine(e) /\ SnapshotFine /\ receipt[e] \in ReceiptRow
      /\ UNCHANGED <<artifact, lapsed, process, publication>>
  BY <1>1 DEF Inv, WorkerFine, TypeInv, CommitSnapshot
<1>3. ASSUME FactsGrow, NEW to \in State \ {"absent"}, Answered(w, to), Told(e, to)'
      PROVE  /\ worker' \in [Worker -> WorkerRow] /\ \A v \in Worker : WorkerFine(v)'
             /\ (Trouble \/ UNCHANGED trouble)
  <2>1. /\ worker' \in [Worker -> WorkerRow] /\ WorkerFine(w)'
        /\ \A v \in Worker : v # w => worker'[v] = worker[v]
    <3>1. CASE Recording(w, to)
      BY <1>1, <1>2, <1>3, <3>1, RecordingFine
    <3>2. CASE Retrying(w)
      BY <1>2, <1>3, <3>2, RetryingFine
    <3> QED
      BY <1>3, <3>1, <3>2 DEF Answered
  <2>2. \A v \in Worker : WorkerFine(v)'
    BY <1>3, <2>1, WorkersStay
  <2> QED
    BY <1>3, <2>1, <2>2 DEF Answered
<1>4. CASE receipt' = receipt
  <2>1. FactsGrow
    BY <1>2, <1>4, SameFacts
  <2>2. UNCHANGED snapshot
    <3>1. ASSUME snapshot' # snapshot
          PROVE  FALSE
      <4>1. /\ receipt[e] = NoReceipt
            /\ receipt' = [receipt EXCEPT ![e] =
                 [outcome |-> "committed", version |-> worker[w].version]]
        BY <1>1, <3>1 DEF CommitSnapshot
      <4>2. receipt'[e].outcome = "committed"
        BY <4>1 DEF Inv, TypeInv
      <4> QED
        BY <1>4, <4>1, <4>2 DEF NoReceipt
    <3> QED
      BY <3>1
  <2>3. CASE Retrying(w) /\ UNCHANGED trouble
    BY <1>2, <1>4, <2>1, <2>2, <2>3, RetryingFine, WorkerOnly
  <2>4. CASE receipt[e] # NoReceipt /\ Answered(w, Receipt(e))
    <3>1. PICK to : to = Receipt(e)
      OBVIOUS
    <3>2. to \in State \ {"absent"} /\ Told(e, to)
      BY <1>2, <2>4, <3>1 DEF Told, Receipt, State
    <3>3. Told(e, to)'
      BY <2>1, <3>2, ToldStays
    <3>4. /\ worker' \in [Worker -> WorkerRow] /\ \A v \in Worker : WorkerFine(v)'
          /\ (Trouble \/ UNCHANGED trouble)
      BY <1>3, <2>1, <2>4, <3>1, <3>2, <3>3
    <3> QED
      BY <1>2, <1>4, <2>1, <2>2, <3>4, RowsStay, FactsOnly DEF Inv, TypeInv
  <2>5. ASSUME receipt[e] = NoReceipt, ~(Retrying(w) /\ UNCHANGED trouble)
        PROVE  FALSE
    <3>1. \E o \in {"committed", "superseded"} :
             receipt' = [receipt EXCEPT ![e] = [outcome |-> o, version |-> worker[w].version]]
      BY <1>1, <2>5 DEF CommitSnapshot
    <3>2. receipt'[e].outcome \in {"committed", "superseded"}
      BY <3>1 DEF Inv, TypeInv
    <3> QED
      BY <1>4, <2>5, <3>2 DEF NoReceipt
  <2>6. \/ Retrying(w) /\ UNCHANGED trouble
        \/ receipt[e] # NoReceipt /\ Answered(w, Receipt(e))
        \/ receipt[e] = NoReceipt
    BY <1>1 DEF CommitSnapshot
  <2> QED
    BY <2>3, <2>4, <2>5, <2>6
<1>5. CASE receipt' # receipt
  <2>1. /\ receipt[e] = NoReceipt /\ receipt' \in [Execution -> ReceiptRow]
        /\ \A d \in Execution : d # e => receipt'[d] = receipt[d]
        /\ \/ /\ snapshot.generation > e /\ UNCHANGED snapshot
              /\ receipt'[e].outcome = "superseded" /\ Answered(w, "completed_superseded")
           \/ /\ ~(snapshot.generation > e) /\ receipt'[e].outcome = "committed"
              /\ snapshot'.generation = e /\ snapshot'.version \in Nat \ {0}
              /\ snapshot' \in [generation : {0} \cup Execution, version : Nat]
              /\ Answered(w, "completed")
    BY <1>1, <1>5, CommitFacts
  <2>2. FactsGrow
    BY <1>2, <2>1 DEF FactsGrow
  <2>3. receipt'[e] # NoReceipt
    BY <2>1 DEF NoReceipt
  <2>4. PICK to \in {"completed", "completed_superseded"} : Answered(w, to) /\ to = Receipt(e)'
    BY <2>1 DEF Receipt
  <2>5. Told(e, to)' /\ to \in State \ {"absent"}
    BY <1>2, <2>3, <2>4 DEF Told, State
  <2>6. /\ worker' \in [Worker -> WorkerRow] /\ \A v \in Worker : WorkerFine(v)'
        /\ (Trouble \/ UNCHANGED trouble)
    BY <1>3, <2>2, <2>4, <2>5
  <2>7. SnapshotFine'
    <3>1. CASE UNCHANGED snapshot /\ snapshot.generation > e
      <4>1. CASE snapshot = NoSnapshot
        BY <3>1, <4>1 DEF SnapshotFine
      <4>2. CASE snapshot # NoSnapshot
        <5>1. snapshot.generation # e
          BY <1>1, <3>1, ExecutionAssumption
        <5> QED
          BY <1>2, <2>1, <3>1, <4>2, <5>1 DEF SnapshotFine
      <4> QED
        BY <4>1, <4>2
    <3>2. CASE ~(UNCHANGED snapshot /\ snapshot.generation > e)
      BY <2>1, <3>2 DEF SnapshotFine
    <3> QED
      BY <3>1, <3>2
  <2>8. snapshot' \in [generation : {0} \cup Execution, version : Nat]
    BY <2>1 DEF Inv, TypeInv
  <2>9. ASSUME NEW d \in Execution
        PROVE  PublicationFine(d)' /\ ReceiptFine(d)'
    <3>1. PublicationFine(d) /\ ReceiptFine(d)
      BY DEF Inv
    <3>2. PublicationFine(d)'
      BY <1>2, <3>1 DEF PublicationFine
    <3>3. ASSUME NEW f \in Execution, receipt[f].outcome = "committed"
          PROVE  receipt'[f].outcome = "committed"
      BY <2>1, <3>3 DEF NoReceipt
    <3>4. CASE d # e
      <4>1. receipt'[d] = receipt[d] /\ UNCHANGED <<artifact, publication>>
        BY <1>2, <2>1, <3>4
      <4>2. ASSUME receipt[d].outcome = "superseded"
            PROVE  \E f \in Execution : f > d /\ receipt'[f].outcome = "committed"
        <5>1. PICK f \in Execution : f > d /\ receipt[f].outcome = "committed"
          BY <3>1, <4>2 DEF ReceiptFine
        <5> QED
          BY <3>3, <5>1
      <4>3. ReceiptFine(d)'
        BY <3>1, <4>1, <4>2 DEF ReceiptFine
      <4> QED
        BY <3>2, <4>3
    <3>5. CASE d = e
      <4>1. ASSUME receipt'[e].outcome = "superseded"
            PROVE  \E f \in Execution : f > e /\ receipt'[f].outcome = "committed"
        <5>1. snapshot.generation > e
          BY <2>1, <4>1
        <5>2. snapshot # NoSnapshot
          BY <5>1, ExecutionAssumption DEF NoSnapshot
        <5>3. snapshot.generation \in Execution /\ receipt[snapshot.generation].outcome = "committed"
          BY <1>2, <5>2 DEF SnapshotFine
        <5> QED
          BY <3>3, <5>1, <5>3
      <4>2. receipt'[e].outcome # "none"
        BY <2>1
      <4>3. publication'[e].outcome = "succeeded" /\ artifact'[e] = "complete"
        BY <1>2
      <4>4. ReceiptFine(d)'
        BY <3>5, <4>1, <4>2, <4>3, <2>3 DEF ReceiptFine
      <4> QED
        BY <3>2, <4>4
    <3> QED
      BY <3>2, <3>4, <3>5
  <2> QED
    BY <1>2, <2>1, <2>2, <2>6, <2>7, <2>8, <2>9, FactsOnly DEF Inv, TypeInv
<1> QED
  BY <1>4, <1>5

LEMMA PassingStep ==
  ASSUME Inv, (\E e \in Execution : Lapse(e)) \/ PruneSnapshot \/ UNCHANGED vars
  PROVE  Inv'
<1>1. /\ UNCHANGED <<artifact, process, publication, receipt, worker>>
      /\ (Trouble \/ UNCHANGED trouble) /\ lapsed' \subseteq Execution
      /\ snapshot' \in {snapshot, NoSnapshot}
  BY DEF Lapse, PruneSnapshot, vars, Inv, TypeInv
<1>2. FactsGrow
  BY <1>1, SameFacts
<1>3. \A w \in Worker : WorkerFine(w)'
  BY <1>1, <1>2, SameWorkers
<1>4. SnapshotFine' /\ snapshot' \in [generation : {0} \cup Execution, version : Nat]
  BY <1>1 DEF Inv, TypeInv, SnapshotFine, NoSnapshot
<1>5. TypeInv'
  BY <1>1, <1>4, TroubleTyped DEF Inv, TypeInv
<1>6. \A e \in Execution : ProcessFine(e)'
  BY <1>1, <1>2, ProcessStays
<1>7. \A e \in Execution : PublicationFine(e)' /\ ReceiptFine(e)'
  BY <1>1 DEF Inv, PublicationFine, ReceiptFine
<1> QED
  BY <1>3, <1>4, <1>5, <1>6, <1>7 DEF Inv

LEMMA InvInit ==
  ASSUME Init
  PROVE  Inv
<1>1. /\ artifact \in [Execution -> {"none", "complete", "partial"}] /\ lapsed \subseteq Execution
      /\ process \in [Execution -> ProcessRow] /\ publication \in [Execution -> PublicationRow]
      /\ receipt \in [Execution -> ReceiptRow] /\ worker \in [Worker -> WorkerRow]
  BY DEF Init, NoProcess, NoReceipt, Idle, ProcessRow, PublicationRow, ReceiptRow, WorkerRow, State
<1>2. snapshot \in [generation : {0} \cup Execution, version : Nat] /\ SnapshotFine
  BY DEF Init, NoSnapshot, SnapshotFine
<1>3. trouble \in 0 .. MaxTrouble
  BY TroubleAssumption DEF Init
<1>4. ASSUME NEW e \in Execution
      PROVE  ProcessFine(e) /\ PublicationFine(e) /\ ReceiptFine(e)
  <2>1. process[e].state = "absent" /\ publication[e].status = "absent"
        /\ publication[e].outcome = "none" /\ receipt[e] = NoReceipt
    BY DEF Init, NoProcess
  <2> QED
    BY <2>1 DEF ProcessFine, Told, PublicationFine, ReceiptFine, NoReceipt, NoEffect
<1>5. \A w \in Worker : WorkerFine(w)
  BY DEF Init, Idle, WorkerFine
<1> QED
  BY <1>1, <1>2, <1>3, <1>4, <1>5 DEF Inv, TypeInv

LEMMA InvStep ==
  ASSUME Inv, [Next]_vars
  PROVE  Inv'
<1>1. ASSUME NEW w \in Worker, Advance(w) \/ CallFails(w) \/ Crash(w)
      PROVE  Inv'
  BY <1>1, SearchStep, RequestStep, CommitStep, RecordStep DEF Advance
<1>2. ASSUME NEW w \in Worker, Overrun(w)
      PROVE  Inv'
  <2>1. worker[w].execution \in Execution
    BY <1>2 DEF Overrun, Inv, WorkerFine
  <2> QED
    BY <1>2, <2>1, ExpireStep DEF Overrun
<1>3. ASSUME NEW w \in Worker, NEW e \in Execution, Claim(w, e)
      PROVE  Inv'
  BY <1>3, ClaimStep
<1>4. ASSUME NEW e \in Execution,
             Finalize(e) \/ CreateOrWake(e) \/ Touch(e) \/ Close(e) \/ ClaimRunsOut(e) \/ Lapse(e)
      PROVE  Inv'
  BY <1>4, FinalizeStep, CreateStep, PublicationStep, ExpireStep, PassingStep DEF ClaimRunsOut
<1>5. CASE PruneSnapshot \/ UNCHANGED vars
  BY <1>5, PassingStep
<1>6. CASE Next
  BY <1>1, <1>2, <1>3, <1>4, <1>5, <1>6 DEF Next
<1> QED
  BY <1>5, <1>6

-----------------------------------------------------------------------------
(* The theorems. *)

LEMMA AlwaysInv == Spec => []Inv
<1>1. Init => Inv
  BY InvInit
<1>2. Inv /\ [Next]_vars => Inv'
  BY InvStep
<1> QED
  BY <1>1, <1>2, PTL DEF Spec

\* Every variable keeps its type, however many workers, reviews and troubles.
THEOREM TypeCorrect == Spec => []TypeOK
<1>1. Inv => TypeOK
  BY DEF Inv, TypeInv, TypeOK, ProcessRow, PublicationRow, ReceiptRow, WorkerRow
<1> QED
  BY <1>1, AlwaysInv, PTL

\* A process that has ended says what became of its publication, also when it was
\* recorded by a worker that took over, after lost answers and crashes.
THEOREM ProcessesTellOutcome == Spec => []ProcessTellsOutcome
<1>1. ASSUME Inv
      PROVE  ProcessTellsOutcome
  <2>1. ASSUME NEW e \in Execution
        PROVE  Told(e, process[e].state)
    BY <1>1 DEF Inv, ProcessFine
  <2> QED
    BY <2>1 DEF ProcessTellsOutcome, Told
<1> QED
  BY <1>1, AlwaysInv, PTL

\* The snapshot is a review that was published as a whole, and no review is called
\* superseded but for a newer one.
THEOREM SnapshotIsEarnedHolds == Spec => []SnapshotIsEarned
<1>1. ASSUME Inv
      PROVE  SnapshotIsEarned
  <2>1. ASSUME NEW e \in Execution
        PROVE  ReceiptFine(e)
    BY <1>1 DEF Inv
  <2>2. SnapshotFine
    BY <1>1 DEF Inv
  <2> QED
    BY <2>1, <2>2 DEF SnapshotIsEarned, ReceiptFine, SnapshotFine
<1> QED
  BY <1>1, AlwaysInv, PTL

\* A commit that comes late, or again, never takes the snapshot back.
THEOREM SnapshotMovesForwardHolds == Spec => SnapshotMovesForward
<1> DEFINE Forward ==
      \/ snapshot' = snapshot \/ snapshot' = NoSnapshot
      \/ /\ snapshot'.generation > snapshot.generation
         /\ receipt[snapshot'.generation] = NoReceipt
<1>1. ASSUME Inv, NEW w \in Worker, CommitSnapshot(w)
      PROVE  Forward
  <2>1. PICK e \in Execution : e = worker[w].execution
    BY <1>1 DEF Inv, WorkerFine, CommitSnapshot
  <2>2. CASE receipt' = receipt
    <3>1. ASSUME snapshot' # snapshot
          PROVE  FALSE
      <4>1. /\ receipt[e] = NoReceipt
            /\ receipt' = [receipt EXCEPT ![e] =
                 [outcome |-> "committed", version |-> worker[w].version]]
        BY <1>1, <2>1, <3>1 DEF CommitSnapshot
      <4>2. receipt'[e].outcome = "committed"
        BY <1>1, <4>1 DEF Inv, TypeInv
      <4> QED
        BY <2>2, <4>1, <4>2 DEF NoReceipt
    <3> QED
      BY <3>1
  <2>3. CASE receipt' # receipt
    <3>1. /\ receipt[e] = NoReceipt
          /\ \/ snapshot.generation > e /\ UNCHANGED snapshot
                /\ receipt'[e].outcome = "superseded" /\ Answered(w, "completed_superseded")
             \/ /\ ~(snapshot.generation > e) /\ receipt'[e].outcome = "committed"
                /\ snapshot'.generation = e /\ snapshot'.version \in Nat \ {0}
                /\ snapshot' \in [generation : {0} \cup Execution, version : Nat]
                /\ Answered(w, "completed")
      BY <1>1, <2>1, <2>3, CommitFacts
    <3>2. snapshot.generation # e
      <4>1. snapshot = NoSnapshot => snapshot.generation = 0
        BY DEF NoSnapshot
      <4>2. snapshot # NoSnapshot => receipt[snapshot.generation].outcome = "committed"
        BY <1>1 DEF Inv, SnapshotFine
      <4>3. receipt[e].outcome # "committed"
        BY <3>1 DEF NoReceipt
      <4> QED
        BY <4>1, <4>2, <4>3, ExecutionAssumption
    <3>3. snapshot.generation \in Nat /\ e \in Nat
      <4>1. snapshot.generation \in {0} \cup Execution
        BY <1>1 DEF Inv, TypeInv
      <4>2. \A d \in {0} \cup Execution : d \in Nat
        BY ExecutionAssumption
      <4> QED
        BY <4>1, <4>2
    <3> QED
      BY <3>1, <3>2, <3>3
  <2> QED
    BY <2>2, <2>3
<1>2. ASSUME Inv, [Next]_vars
      PROVE  Forward
  <2>1. CASE \E w \in Worker : CommitSnapshot(w)
    BY <1>1, <1>2, <2>1
  <2>2. CASE ~\E w \in Worker : CommitSnapshot(w)
    <3>1. CASE UNCHANGED vars
      BY <3>1 DEF vars
    <3>2. CASE PruneSnapshot
      BY <3>2 DEF PruneSnapshot
    <3>3. ASSUME NEW w \in Worker, Advance(w) \/ CallFails(w) \/ Crash(w) \/ Overrun(w)
          PROVE  UNCHANGED snapshot
      BY <2>2, <3>3 DEF Advance, Stale, FindPublication, RequestPublication, FindReceipt,
           PrepareCommit, Record, CallFails, Crash, Overrun, Expire
    <3>4. ASSUME NEW w \in Worker, NEW e \in Execution, Claim(w, e)
          PROVE  UNCHANGED snapshot
      BY <3>4 DEF Claim
    <3>5. ASSUME NEW e \in Execution,
                 Finalize(e) \/ CreateOrWake(e) \/ Touch(e) \/ Close(e) \/ ClaimRunsOut(e) \/ Lapse(e)
          PROVE  UNCHANGED snapshot
      BY <3>5 DEF Finalize, CreateOrWake, Touch, Close, ClaimRunsOut, Expire, Lapse
    <3> QED
      BY <1>2, <3>1, <3>2, <3>3, <3>4, <3>5 DEF Next
  <2> QED
    BY <2>1, <2>2
<1>3. Inv /\ [Next]_vars => [Forward]_vars
  BY <1>2
<1> QED
  BY <1>3, AlwaysInv, PTL DEF Spec, SnapshotMovesForward

\* The publication of an execution, as its workers and GitHub drive it, lives the
\* life that PublicationAttempt is shown to keep.
THEOREM OnePublicationHolds == Spec => OnePublication
<1> DEFINE Starts == \A e \in Execution : Publication(e)!Init
           Lives == \A e \in Execution : [Publication(e)!Next]_(publication[e])
<1>1. Init => Starts
  BY DEF Init, Publication!Init
<1>2. Inv /\ [Next]_vars => [Lives]_publication
  <2> SUFFICES ASSUME Inv, Next, NEW e \in Execution, publication'[e] # publication[e]
               PROVE  Publication(e)!Next
    BY DEF vars
  <2>1. publication \in [Execution -> PublicationRow] /\ publication[e] \in PublicationRow
        /\ PublicationFine(e)
    BY DEF Inv, TypeInv
  <2>2. ASSUME NEW w \in Worker, RequestPublication(w)
        PROVE  Publication(e)!Next
    <3> DEFINE d == worker[w].execution
               x == [publication[d] EXCEPT !.status = "open"]
    <3>1. publication[d].status = "absent" /\ publication' = [publication EXCEPT ![d] = x]
      BY <2>2 DEF RequestPublication, Requested
    <3>2. d = e
      BY <2>1, <3>1
    <3>3. publication'[e] = x
      BY <2>1, <3>1, <3>2
    <3>4. x.status = "open" /\ x.outcome = publication[e].outcome
          /\ x.touched = publication[e].touched
      BY <2>1, <3>2 DEF PublicationRow
    <3> QED
      BY <3>1, <3>2, <3>3, <3>4 DEF Publication!Next, Publication!Request
  <2>3. ASSUME NEW d \in Execution, Touch(d)
        PROVE  Publication(e)!Next
    <3> DEFINE x == [publication[d] EXCEPT !.touched = TRUE]
    <3>1. /\ publication[d].status # "absent" /\ publication[d].outcome \notin NoEffect
          /\ publication' = [publication EXCEPT ![d] = x]
      BY <2>3 DEF Touch
    <3>2. d = e
      BY <2>1, <3>1
    <3>3. publication'[e] = x
      BY <2>1, <3>1, <3>2
    <3>4. x.status = publication[e].status /\ x.outcome = publication[e].outcome
          /\ x.touched = TRUE
      BY <2>1, <3>2 DEF PublicationRow
    <3> QED
      BY <3>1, <3>2, <3>3, <3>4 DEF Publication!Next, Publication!Touch, Publication!NoEffect, NoEffect
  <2>4. ASSUME NEW d \in Execution, Close(d)
        PROVE  Publication(e)!Next
    <3>1. PICK o \in Outcomes :
            /\ publication[d].status = "open"
            /\ o \in NoEffect => ~publication[d].touched
            /\ o \notin NoEffect \cup {"terminal_unknown"} => publication[d].touched
            /\ publication' = [publication EXCEPT ![d] =
                 [status |-> "closed", outcome |-> o, touched |-> publication[d].touched]]
      BY <2>4 DEF Close
    <3>2. d = e
      BY <2>1, <3>1
    <3>3. publication'[e] = [status |-> "closed", outcome |-> o, touched |-> publication[e].touched]
      BY <2>1, <3>1, <3>2
    <3>4. o \in Publication(e)!Outcome
      BY OutcomeAssumption, StateForValues
      DEF Publication!Outcome, Publication!NoEffect, Publication!Effective
    <3>5. o \in Publication(e)!NoEffect => ~publication[e].touched
      BY <3>1, <3>2 DEF Publication!NoEffect, NoEffect
    <3>6. o \in Publication(e)!Effective => publication[e].touched
      BY <3>1, <3>2 DEF Publication!Effective, NoEffect
    <3>7. Publication(e)!Close(o)
      BY <3>1, <3>2, <3>3, <3>5, <3>6 DEF Publication!Close
    <3> QED
      BY <3>4, <3>7 DEF Publication!Next
  <2>5. CASE PruneSnapshot
    BY <2>5 DEF PruneSnapshot
  <2>6. ASSUME NEW w \in Worker, ~RequestPublication(w),
               Advance(w) \/ CallFails(w) \/ Crash(w) \/ Overrun(w)
        PROVE  UNCHANGED publication
    BY <2>6 DEF Advance, Stale, FindPublication, FindReceipt, PrepareCommit, CommitSnapshot,
         Record, CallFails, Crash, Overrun, Expire
  <2>7. ASSUME NEW w \in Worker, NEW d \in Execution, Claim(w, d)
        PROVE  UNCHANGED publication
    BY <2>7 DEF Claim
  <2>8. ASSUME NEW d \in Execution,
               Finalize(d) \/ CreateOrWake(d) \/ ClaimRunsOut(d) \/ Lapse(d)
        PROVE  UNCHANGED publication
    BY <2>8 DEF Finalize, CreateOrWake, ClaimRunsOut, Expire, Lapse
  <2> QED
    BY <2>2, <2>3, <2>4, <2>5, <2>6, <2>7, <2>8 DEF Next
<1>3. OnePublication <=> Starts /\ [][Lives]_publication
  BY DEF OnePublication
<1> QED
  BY <1>1, <1>2, <1>3, AlwaysInv, PTL DEF Spec

=============================================================================
