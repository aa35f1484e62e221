--------------------------- MODULE OutboxLifecycle ---------------------------
(***************************************************************************)
(* What the outbox promises about a message, whatever files, locks and     *)
(* processes it is made of: the lifecycle of domain/outbox.go, with a      *)
(* message handed to the transport at most once per decision to send it.   *)
(***************************************************************************)
EXTENDS Naturals

CONSTANT Ids

VARIABLES
  phase,    \* the lifecycle state of each message, "none" before it is accepted
  sends,    \* times each message was handed to the Sender
  retries   \* times a person asked for it again

vars == <<phase, sends, retries>>

Init ==
  /\ phase = [i \in Ids |-> "none"]
  /\ sends = [i \in Ids |-> 0]
  /\ retries = [i \in Ids |-> 0]

Move(i, from, to) == phase[i] = from /\ phase' = [phase EXCEPT ![i] = to]

\* Enqueue
Accept(i) == Move(i, "none", "queued") /\ UNCHANGED <<sends, retries>>

\* The lifecycle events.
SEND(i) == Move(i, "queued", "sending") /\ UNCHANGED <<sends, retries>>

SUCCEED(i) ==
  /\ sends[i] > 0
  /\ Move(i, "sending", "sent")
  /\ UNCHANGED <<sends, retries>>

FAIL(i) == Move(i, "sending", "failed") /\ UNCHANGED <<sends, retries>>

RETRY(i) ==
  /\ Move(i, "failed", "queued")
  /\ retries' = [retries EXCEPT ![i] = @ + 1]
  /\ UNCHANGED sends

\* The message goes to the transport: only in sending, and only if the latest
\* decision to send it has not been acted on yet.
HandOver(i) ==
  /\ phase[i] = "sending"
  /\ sends[i] <= retries[i]
  /\ sends' = [sends EXCEPT ![i] = @ + 1]
  /\ UNCHANGED <<phase, retries>>

Next == \E i \in Ids :
  Accept(i) \/ SEND(i) \/ HandOver(i) \/ SUCCEED(i) \/ FAIL(i) \/ RETRY(i)

Spec == Init /\ [][Next]_vars
=============================================================================
