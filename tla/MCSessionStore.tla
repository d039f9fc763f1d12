--------------------------- MODULE MCSessionStore --------------------------
(* Bounds and symmetry for model checking SessionStore.                     *)
EXTENDS SessionStore, TLC

SameSessions == Permutations(Sessions)
=============================================================================
