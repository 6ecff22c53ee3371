------------------------- MODULE MCSessionRegistry -------------------------
(* SessionRegistry on small instances: symmetry of the sessions.           *)
EXTENDS SessionRegistry, TLC

SessionSymmetry == Permutations(Session)
=============================================================================
