------------------------- MODULE MCConcurrentQueue -------------------------
(* Instances of ConcurrentQueue for TLC. *)
EXTENDS ConcurrentQueue, TLC

\* Producers are interchangeable, and so are consumers.
ThreadSymmetry == Permutations(Producers) \cup Permutations(Consumers)
=============================================================================
