------------------------------ MODULE MCMuxLink ------------------------------
(* MuxLink for TLC: the objects over the device are model values.           *)
EXTENDS MuxLink, TLC

Symmetry == Permutations(Muxes)

\* The only close() that is called comes while handshake() awaits its SETUP.
CloseDuringSetup == \A m \in Muxes : Close(m) => mux[m].pc = "setup"

=============================================================================
