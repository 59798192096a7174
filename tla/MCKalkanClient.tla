--------------------------- MODULE MCKalkanClient ---------------------------
(* Instances of KalkanClient for TLC: goroutines, certificates and proxies   *)
(* are model values.                                                         *)
EXTENDS KalkanClient, TLC

Symmetry == Permutations(Threads) \cup Permutations(Certs)
=============================================================================
