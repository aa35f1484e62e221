------------------------------ MODULE MCOutbox ------------------------------
(* Instances of Outbox for TLC. *)
EXTENDS OutboxInv, TLC

\* Message ids are interchangeable, and so are CLI processes.
Symmetry == Permutations(Ids) \cup Permutations(Clients)

\* How far mishaps are followed: a second and a third one only while no second
\* message has been accepted.
FewMishaps == mishaps <= 1 \/ Cardinality(accepted) <= 1
=============================================================================
