------------------------ MODULE PublicationLifecycle ------------------------
(* What the publication of a finalized review promises to the rest of the    *)
(* system: it is requested once, closes once, and the outcome it closes with *)
(* tells the truth about the pull request.  PublicationAttempt implements it *)
(* and CompletionProcess relies on it.                                       *)

VARIABLES
  status,    \* of the publication: absent, open or closed
  outcome,   \* the terminal outcome, "none" until it is closed
  touched    \* did the publication ever create something on the pull request?

vars == <<status, outcome, touched>>

NoEffect == {"superseded_no_effect", "failed_no_effect"}
\* Outcomes that claim that something of the publication was on the pull request.
Effective == {"succeeded", "stale_compensated", "stale_visible"}
Outcome == NoEffect \cup Effective \cup {"terminal_unknown"}

Init == status = "absent" /\ outcome = "none" /\ touched = FALSE

Request == status = "absent" /\ status' = "open" /\ UNCHANGED <<outcome, touched>>

\* A mutation takes effect, possibly long after the worker that sent it is gone
\* and the publication is closed, but never behind an outcome that denies it.
Touch ==
  /\ status # "absent" /\ outcome \notin NoEffect
  /\ touched' = TRUE
  /\ UNCHANGED <<status, outcome>>

Close(o) ==
  /\ status = "open"
  /\ o \in NoEffect => ~touched
  /\ o \in Effective => touched
  /\ status' = "closed" /\ outcome' = o
  /\ UNCHANGED touched

Next == Request \/ Touch \/ \E o \in Outcome : Close(o)

Spec == Init /\ [][Next]_vars
=============================================================================
