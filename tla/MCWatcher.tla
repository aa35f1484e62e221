----------------------------- MODULE MCWatcher -----------------------------
(* Instances of Watcher for TLC: the defaults, a cap below the first delay, and
   both bounds given. *)
EXTENDS Watcher

MCOverrides == {[initial |-> 0, maximum |-> 0], [initial |-> 3, maximum |-> 1], [initial |-> 1, maximum |-> 6]}
=============================================================================
