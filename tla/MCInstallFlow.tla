--------------------------- MODULE MCInstallFlow ---------------------------
(* InstallFlow for TLC: two devices, and a user who pairs one of them and    *)
(* starts a Direct Install meanwhile.                                        *)
EXTENDS InstallFlow

MCTaskSets == { {"pair", "direct"} }
MCKept == { [d1 |-> "none", d2 |-> "none"], [d1 |-> "this", d2 |-> "none"],
            [d1 |-> "this", d2 |-> "other"] }

=============================================================================
