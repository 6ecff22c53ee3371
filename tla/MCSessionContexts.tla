------------------------- MODULE MCSessionContexts -------------------------
(* SessionContexts on small instances: symmetry of the sessions.           *)
EXTENDS SessionContexts, TLC

SessionSymmetry == Permutations(Session)
=============================================================================
