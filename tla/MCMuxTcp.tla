------------------------------ MODULE MCMuxTcp ------------------------------
(* MuxTcp for TLC: readers and writers are interchangeable model values.    *)
EXTENDS MuxTcp, TLC

Symmetry == Permutations(Reads) \cup Permutations(Writes)

=============================================================================
