----------------------------- MODULE MCSmtpSend -----------------------------
(* An instance of SmtpSend for TLC. *)
EXTENDS SmtpSend
=============================================================================
