---------------------------- MODULE MCOrderBooks ----------------------------
(* Instances of OrderBooks for TLC. *)
EXTENDS OrderBooks, TLC

\* Ids are interchangeable.
IdSymmetry == Permutations(Ids)
=============================================================================
