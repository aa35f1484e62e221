---------------------------- MODULE MCImapPool -----------------------------
(* Instances of ImapPool for TLC. *)
EXTENDS ImapPool, TLC

\* Callers and connections are interchangeable.
Symmetry == Permutations(Callers) \cup Permutations(Conns)
=============================================================================
