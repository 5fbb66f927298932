----------------------------- MODULE MCRunStore -----------------------------
(* A small instance of RunStore for TLC: two runs, a client, and two requests
   that clear the store.  Runs are interchangeable, and so are requests. *)
EXTENDS RunStore, TLC

CONSTANTS r1, r2, c1, d1, d2

Symmetry == Permutations(Runs) \cup Permutations(Deleters)
=============================================================================
