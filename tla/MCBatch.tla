------------------------------ MODULE MCBatch -------------------------------
(* Instances of Batch.                                                        *)
EXTENDS Batch, TLC

\* Files, requests and versions are each interchangeable.
RowSymmetry == Permutations(Item) \cup Permutations(Request) \cup Permutations(Version)
=============================================================================
