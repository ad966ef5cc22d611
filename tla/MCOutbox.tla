------------------------------ MODULE MCOutbox ------------------------------
(* Small instances of Outbox for TLC. *)
EXTENDS Outbox, TLC

CONSTANTS w1, w2

\* Every worker runs the same release.
Uniform == (w1 :> Event) @@ (w2 :> Event)
Nothing == (w1 :> {}) @@ (w2 :> {})

\* A rolling deployment: w2 does not know the version of event 2 yet.
Newest == (w1 :> Event) @@ (w2 :> Event \ {2})
Unknown == (w1 :> {}) @@ (w2 :> {2})

WorkerSymmetry == Permutations(Worker)
=============================================================================
