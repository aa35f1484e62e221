----------------------------- MODULE MCMaildir ------------------------------
(* Instances of Maildir for TLC. *)
EXTENDS Maildir, TLC

\* Callers, messages and file names are interchangeable.
Symmetry == Permutations(Users) \cup Permutations(Msgs) \cup Permutations(Names)
=============================================================================
