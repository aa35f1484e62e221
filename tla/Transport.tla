----------------------------- MODULE Transport -----------------------------
(***************************************************************************)
(* What the outbox counts on when it hands a message to its transport      *)
(* (domain.Sender, src/domain/outbound.go): the call answers once, "sent"  *)
(* only for a message the server has taken, and after the answer the       *)
(* message is sent no more.  "failed" promises nothing: the server may     *)
(* hold the message all the same.                                          *)
(***************************************************************************)
EXTENDS Naturals

CONSTANT MaxAttempts  \* how often at most the transport hands the message over

VARIABLES
    held,    \* how many times the server has taken the message
    answer   \* what the caller was told

vars == <<held, answer>>

Init == held = 0 /\ answer = "none"

Take == answer = "none" /\ held < MaxAttempts /\ held' = held + 1 /\ UNCHANGED answer

Answer ==
    /\ answer = "none"
    /\ \/ held > 0 /\ answer' = "sent"
       \/ answer' = "failed"
    /\ UNCHANGED held

Next == Take \/ Answer

Spec == Init /\ [][Next]_vars
=============================================================================
