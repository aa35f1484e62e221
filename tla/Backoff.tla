------------------------------- MODULE Backoff -------------------------------
(***************************************************************************)
(* The arithmetic of delays that double: the lockouts of basic auth        *)
(* (src/infrastructure/mcpserver/basicauth.go) and the reconnects of the   *)
(* watcher (src/infrastructure/imap/watcher.go).                           *)
(***************************************************************************)
EXTENDS Naturals

Lesser(a, b) == IF a <= b THEN a ELSE b

(* What starts from base and doubles: Doubles(base)[n] is the base shifted n times
   to the left.  It is unbounded here: with its guards, it stays far below 2^63 in
   the code. *)
Doubles(base) == LET d[n \in Nat] == IF n = 0 THEN base ELSE 2 * d[n - 1] IN d
=============================================================================
