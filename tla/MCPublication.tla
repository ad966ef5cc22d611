---------------------------- MODULE MCPublication ----------------------------
(* Small instances of PublicationAttempt for TLC. *)
EXTENDS PublicationAttempt, TLC

CONSTANTS w1, w2

WorkerSymmetry == Permutations(Worker)

\* Two operations: a pending review is created, then submitted.
Submitted == <<0, 1>>

\* One of the mutations may have to be sent again.
Retried == <<2, 1>>

\* Versions are only compared for equality with the version a pass read, and
\* they only grow; of a claim that is over nothing is asked any more.
Relative ==
  <<[attempt EXCEPT !.version = 0], op, try, effects, receipt, outside, clock,
    [c \in Claim |-> IF claim[c].state = "active" THEN claim[c]
                     ELSE [claim[c] EXCEPT !.owner = "none", !.live = FALSE]],
    [w \in Worker |-> <<[worker[w] EXCEPT !.version = 0], worker[w].version = attempt.version>>]>>
=============================================================================
