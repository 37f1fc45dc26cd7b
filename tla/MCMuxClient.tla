---------------------------- MODULE MCMuxClient ----------------------------
(* MuxClient for TLC: clients and method calls are model values.            *)
EXTENDS MuxClient, TLC

Symmetry == Permutations(Clients) \cup Permutations(Callers)

=============================================================================
