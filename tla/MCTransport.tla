------------------------------ MODULE MCTransport ------------------------------
(***************************************************************************)
(* Model checking of Transport.  Every run gives the constants in its cfg; *)
(* the runs of invariants are reduced by the symmetry of the values.       *)
(***************************************************************************)
EXTENDS Transport, TLC

\* Goroutines, tokens and refresh tokens are interchangeable.
Symmetry ==
    Permutations(Goroutines) \cup Permutations(Tokens) \cup Permutations(RTokens)
================================================================================
