------------------------- MODULE MCReviewExecution -------------------------
(* Small instances of ReviewExecution for TLC. *)
EXTENDS ReviewExecution, TLC

\* Slots and keys are interchangeable when every slot is required; so are
\* executions, and revisions.
LeaseSymmetry == Permutations(Slot) \cup Permutations(Key)
ExecutionSymmetry == Permutations(Execution) \cup Permutations(Revision)

\* Versions are only compared for equality with the version a caller read, and
\* they only grow: two states that differ in nothing but the numbers behave alike.
RelativeVersions ==
  <<scmVars, [stream EXCEPT !.version = 0], slot, lease, fence, observed, artifact,
    [e \in Execution |->
       <<[execution[e] EXCEPT !.version = 0],
         start[e].step, start[e].observed, start[e].version = stream.version,
         final[e].step, final[e].refs, final[e].stream = stream.version,
         final[e].execution = execution[e].version>>]>>

\* Bound of the run with three generations: deadlines and retention, covered by
\* the other runs, stay out.
OnTime == \A e \in Execution : execution[e].due = 0 /\ execution[e].state # "pruned"

\* Bound of the run with three leases: retention, covered by the other runs,
\* stays out.
Reportable == \A l \in Lease : lease[l].purpose = "provider" => lease[l].age < 2
=============================================================================
