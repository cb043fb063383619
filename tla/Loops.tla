------------------------------- MODULE Loops -------------------------------
(***************************************************************************)
(* A loop as a function of its state: body[s] is the state after the pass  *)
(* that begins in s, and s itself once the loop is over.                   *)
(***************************************************************************)
EXTENDS Naturals

\* The state of a loop that begins in s, after each number of passes.
Passes(body, s) ==
  LET after[n \in Nat] == IF n = 0 THEN s ELSE body[after[n - 1]]
  IN  after
=============================================================================
