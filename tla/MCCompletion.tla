---------------------------- MODULE MCCompletion ----------------------------
(* Small instances of CompletionProcess for TLC. *)
EXTENDS CompletionProcess, TLC

CONSTANTS w1, w2

=============================================================================
