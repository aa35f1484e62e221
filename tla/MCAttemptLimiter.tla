-------------------------- MODULE MCAttemptLimiter --------------------------
(* An instance of AttemptLimiter for TLC. *)
EXTENDS AttemptLimiter, TLC

MCSymmetry == Permutations(Clients)
=============================================================================
