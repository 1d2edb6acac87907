-------------------------- MODULE MCIndexExchange --------------------------
(* IndexExchange for TLC: small sets of names and peers as model values.   *)
EXTENDS IndexExchange, TLC

Symmetry == Permutations(Names) \cup Permutations(Peers)

============================================================================
