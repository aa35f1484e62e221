------------------------------ MODULE SmtpSend ------------------------------
(***************************************************************************)
(* One message handed to the SMTP transport (src/infrastructure/smtp/      *)
(* smtp.go): Send runs up to MaxAttempts delivery attempts, each rendered, *)
(* dialled, authenticated and sent anew, each judged against its deadline  *)
(* only once it has returned.  The connection can break at any command,    *)
(* and the reply to end-of-DATA can be lost after the server took the      *)
(* message.                                                                *)
(***************************************************************************)
EXTENDS Naturals

CONSTANTS
    MaxAttempts,  \* attempts per Send, the first included
    Logins        \* how senders authenticate: subset of {"none", "plain", "oauth2"}

ASSUME SmtpAssumption ==
    MaxAttempts \in Nat \ {0} /\ Logins \subseteq {"none", "plain", "oauth2"}

VARIABLES
    login,       \* how this sender authenticates
    renderable,  \* the message renders (the same way on every attempt)
    pc,          \* where the attempt is
    attempt,     \* its number
    accepted,    \* Send's variable: what the last deliver reported
    error,       \* what the attempt returned: "none", "transient", "permanent"
    answer,      \* what Send returned
    held,        \* how many times the server has taken the message
    lost,        \* history: replies to end-of-DATA lost after it was taken
    refused      \* history: a permanent failure was reported in time

vars == <<login, renderable, pc, attempt, accepted, error, answer, held, lost, refused>>

Phases == {"render", "dial", "token", "auth", "data", "quit", "judge", "over"}

Init ==
    /\ login \in Logins /\ renderable \in BOOLEAN
    /\ pc = "render" /\ attempt = 1
    /\ accepted = FALSE /\ error = "none" /\ answer = "none"
    /\ held = 0 /\ lost = 0 /\ refused = FALSE

-----------------------------------------------------------------------------
(* deliver: one attempt. *)

(* deliver returns; Send's accepted is overwritten with what it reports. *)
Return(took, how) ==
    /\ accepted' = took /\ error' = how
    /\ pc' = "judge"
    /\ UNCHANGED <<login, renderable, attempt, answer, refused>>

Proceed(to) ==
    /\ pc' = to
    /\ UNCHANGED <<login, renderable, attempt, accepted, error, answer, held, lost, refused>>

(* The server answers a command with a 4xx or the connection fails, which is
   transient, or with a 5xx, which classify makes permanent. *)
classify == {"transient", "permanent"}

Render ==
    /\ pc = "render"
    /\ IF renderable THEN Proceed("dial")
       ELSE Return(FALSE, "permanent") /\ UNCHANGED <<held, lost>>

AfterDial == CASE login = "oauth2" -> "token" [] login = "plain" -> "auth" [] OTHER -> "data"

\* A faulty variant: dialling is tried again without an attempt being counted.
DialUntilUp == pc = "dial" /\ (Proceed(AfterDial) \/ Proceed("render"))

Dial ==
    /\ pc = "dial"
    /\ \/ Proceed(AfterDial)
       \/ Return(FALSE, "transient") /\ UNCHANGED <<held, lost>>

(* The OAuth2 token: a failure is returned as it is, never as permanent. *)
Token ==
    /\ pc = "token"
    /\ \/ Proceed("auth")
       \/ Return(FALSE, "transient") /\ UNCHANGED <<held, lost>>

Auth ==
    /\ pc = "auth"
    /\ \/ Proceed("data")
       \/ \E how \in classify : Return(FALSE, how) /\ UNCHANGED <<held, lost>>

(* MAIL, RCPT, DATA and the body: the server takes the message or not, and when
   it takes it the reply may not arrive. *)
SendMail ==
    /\ pc = "data"
    /\ \/ \E how \in classify : Return(FALSE, how) /\ UNCHANGED <<held, lost>>
       \/ held' = held + 1 /\ lost' = lost + 1 /\ Return(FALSE, "transient")
       \/ /\ held' = held + 1 /\ pc' = "quit"
          /\ UNCHANGED <<login, renderable, attempt, accepted, error, answer, lost, refused>>

(* QUIT, whose outcome is dropped. *)
Quit ==
    /\ pc = "quit"
    /\ Return(TRUE, "none")
    /\ UNCHANGED <<held, lost>>

-----------------------------------------------------------------------------
(* Send: the retries around it. *)

\* A faulty variant: every error is tried again.
RetryAll(how) == how # "none"

Retryable(how) == how = "transient"

\* A faulty variant: the deadline's error is reported like any other.
VerdictOfDeadline(overrun) ==
    IF overrun THEN {"transient"} ELSE {error}

\* A faulty variant: a deadline's error is dropped whatever became of the message.
VerdictSwallows(overrun) ==
    IF accepted \/ overrun THEN {"none"} ELSE {error}

(* The attempt's error as the retry sees it.  Past its deadline an attempt that
   returned nothing is an error too, and one that failed may be reported either
   way; none of it counts when the server acknowledged the message. *)
Verdict(overrun) ==
    IF accepted THEN {"none"}
    ELSE IF overrun THEN {error, "transient"} ELSE {error}

(* hungUp is the caller's context: it ends the retries. *)
Judge ==
    /\ pc = "judge"
    /\ \E overrun \in BOOLEAN, hungUp \in BOOLEAN : \E how \in Verdict(overrun) :
          /\ refused' = (refused \/ (error = "permanent" /\ ~overrun))
          /\ IF Retryable(how) /\ attempt < MaxAttempts /\ ~hungUp
             THEN /\ attempt' = attempt + 1 /\ error' = "none" /\ pc' = "render"
                  /\ UNCHANGED answer
             ELSE /\ answer' = IF how = "none" THEN "sent" ELSE "failed"
                  /\ pc' = "over"
                  /\ UNCHANGED <<attempt, error>>
    /\ UNCHANGED <<login, renderable, accepted, held, lost>>

Next == Render \/ Dial \/ Token \/ Auth \/ SendMail \/ Quit \/ Judge

Spec == Init /\ [][Next]_vars

(* Every command ends: the SMTP library bounds each one by a timeout of its
   own, so a step that can be taken is. *)
FairSpec == Spec /\ WF_vars(Next)

-----------------------------------------------------------------------------
(* Properties. *)

FlagsOK == renderable \in BOOLEAN /\ accepted \in BOOLEAN /\ refused \in BOOLEAN

(* Every variable keeps its shape. *)
TypeOK ==
    /\ FlagsOK
    /\ login \in Logins /\ pc \in Phases
    /\ error \in {"none", "transient", "permanent"} /\ answer \in {"none", "sent", "failed"}
    /\ attempt \in 1 .. MaxAttempts /\ held \in 0 .. MaxAttempts /\ lost \in 0 .. held

(* The recipients get the message a second time only where the reply that the
   first was taken never arrived: neither a connection lost after it nor a
   deadline that fires on a delivered message sends it again, and a message
   taken with its reply is reported sent (smtp.go Send, deliver). *)
OnlyLostRepliesDuplicate ==
    /\ held <= lost + 1
    /\ answer # "none" /\ held > lost => answer = "sent"

(* A permanent failure reported in time is the last attempt (smtp.go
   errPermanent, NonRetryableErrors). *)
PermanentIsFinal == [][refused => UNCHANGED <<attempt, held>>]_vars

(* Send answers, the assumption under which the outbox's delivery makes progress. *)
SendAnswers == <>(answer # "none")

Contract == INSTANCE Transport

(* Send keeps the transport's contract with the outbox. *)
KeepsContract == Contract!Spec
=============================================================================
