------------------------------ MODULE MCGrants ------------------------------
(* Small instances of InvocationGrant for TLC. *)
EXTENDS InvocationGrant, TLC

CONSTANTS r1, r2, r3, d1, d2, d3

\* Requests and exchanges are told apart by nothing but their names.
GrantSymmetry == Permutations(Request) \cup Permutations(Driver)
=============================================================================
