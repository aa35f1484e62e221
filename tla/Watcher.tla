------------------------------- MODULE Watcher -------------------------------
(***************************************************************************)
(* The IMAP new-mail watcher (src/infrastructure/imap/watcher.go): Watch   *)
(* holds a connection in IDLE, reports the mail the server announces on    *)
(* it, and dials again after a delay that doubles while no session gets as *)
(* far as IDLE.  The server's temper, the loss of connections and the      *)
(* arrival of mail are the environment's.  Where every specification has a *)
(* name for the same thing, the watcher's has a prefix, so that one module *)
(* can prove about it and about another user of Backoff.                   *)
(***************************************************************************)
EXTENDS Naturals, Backoff

CONSTANTS
    DefaultMin, DefaultMax,  \* NewWatcher's backoff bounds
    Overrides,   \* SetBackoff calls: set of [initial, maximum], 0 for none
    Credentials, \* how the watcher authenticates: subset of {"password", "oauth2"}
    MaxWaited    \* bound: an outage is measured for this long

ASSUME WatcherAssumption ==
    /\ DefaultMin \in Nat \ {0} /\ DefaultMax \in Nat /\ DefaultMin <= DefaultMax
    /\ Overrides \subseteq [initial : Nat, maximum : Nat]
    /\ Credentials \subseteq {"password", "oauth2"} /\ MaxWaited \in Nat

VARIABLES
    minDelay, maxDelay,  \* the bounds in force
    credential,  \* how it authenticates
    pc,          \* where Watch is
    delay, connected, failure,  \* its locals; attempt is left out, it is only logged
    cancelled,   \* the context
    server,      \* how the server treats whoever talks to it
    grant,       \* what the OAuth2 token endpoint answers
    link,        \* the session's connection is alive
    news,        \* an announcement is on its way on the connection
    mail,        \* parity of the messages that arrived
    dials, waited,  \* history: dials and time waited since the last session in IDLE
    rejected     \* history: the credential, the mailbox or the certificate was refused

watcherVars == <<minDelay, maxDelay, credential, pc, delay, connected, failure,
          cancelled, server, grant, link, news, mail, dials, waited, rejected>>
given == <<minDelay, maxDelay, credential>>
outside == <<cancelled, server, grant, mail>>

(* What the token endpoint does, and a server to its clients: serve them, be unreachable, present a
   certificate nobody trusts (or no TLS at all), refuse commands for now or for
   good, or hang up with a BYE. *)
Grants == {"valid", "unreachable", "revoked"}
Tempers == {"serving", "down", "untrusted", "busy", "refusing", "closing"}

(* The errors a session can end with. *)
Failures == {"none", "transport", "certificate", "transientNo", "no", "bye", "unreachable", "revoked", "cancelled"}

(* NewWatcher and SetBackoff. *)
SetBackoff(o) ==
    LET low == IF o.initial > 0 THEN o.initial ELSE DefaultMin
        high == IF o.maximum > 0 THEN o.maximum ELSE DefaultMax
    IN [min |-> low, max |-> IF high < low THEN low ELSE high]

WatcherInit ==
    /\ \E o \in Overrides : minDelay = SetBackoff(o).min /\ maxDelay = SetBackoff(o).max
    /\ credential \in Credentials
    /\ pc = "dial" /\ delay = minDelay
    /\ connected = FALSE /\ failure = "none" /\ cancelled = FALSE
    /\ server \in Tempers /\ grant \in IF credential = "oauth2" THEN Grants ELSE {"valid"}
    /\ link = FALSE /\ news = FALSE /\ mail = 0
    /\ dials = 0 /\ waited = 0 /\ rejected = FALSE

-----------------------------------------------------------------------------
(* idleSession and connect. *)

Lasting == {"certificate", "no"}

(* The session returns: its connection is closed. *)
EndSession(how) ==
    /\ failure' = how /\ pc' = "ended"
    /\ link' = FALSE /\ news' = FALSE
    /\ rejected' = (rejected \/ how \in Lasting)

(* The outage is still measured. *)
Measured == waited < MaxWaited

(* How a command can fail. *)
Refusal ==
    IF ~link THEN "transport"
    ELSE CASE server = "busy" -> "transientNo"
           [] server = "refusing" -> "no"
           [] server = "closing" -> "bye"
           [] OTHER -> "none"

Dial ==
    /\ pc = "dial"
    /\ dials' = IF Measured THEN dials + 1 ELSE dials
    /\ CASE server = "down" -> EndSession("transport")
         [] server = "untrusted" -> EndSession("certificate")
         [] OTHER -> /\ pc' = IF credential = "oauth2" THEN "token" ELSE "login"
                     /\ link' = TRUE /\ UNCHANGED <<failure, news, rejected>>
    /\ UNCHANGED <<given, outside, delay, connected, waited>>

(* The OAuth2 token: whatever its endpoint answers is returned as it is. *)
Token ==
    /\ pc = "token"
    /\ IF grant = "valid" THEN pc' = "login" /\ UNCHANGED <<failure, link, news, rejected>>
       ELSE EndSession(grant)
    /\ UNCHANGED <<given, outside, delay, connected, dials, waited>>

(* A command is carried out or ends the session. *)
Command(from, to) ==
    /\ pc = from
    /\ IF Refusal = "none" THEN pc' = to /\ UNCHANGED <<failure, link, news, rejected>>
       ELSE EndSession(Refusal)
    /\ UNCHANGED <<given, outside, delay>>

Login == Command("login", "select") /\ UNCHANGED <<connected, dials, waited>>
Select == Command("select", "idle") /\ UNCHANGED <<connected, dials, waited>>

Idle ==
    /\ Command("idle", "idling")
    /\ connected' = (connected \/ Refusal = "none")
    /\ IF Refusal = "none" THEN dials' = 0 /\ waited' = 0 ELSE UNCHANGED <<dials, waited>>

\* A faulty variant: IDLE is held until the context ends.
NeverRefresh ==
    pc = "idling" /\ cancelled /\ EndSession("cancelled")
    /\ UNCHANGED <<given, outside, delay, connected, dials, waited>>

(* The timer fires: IDLE is left and entered again.  Only here is a connection
   that was lost in the meantime noticed. *)
Refresh == Command("idling", "idle") /\ UNCHANGED <<connected, dials, waited>>

(* The context ends while in IDLE. *)
Interrupted ==
    /\ pc = "idling" /\ cancelled
    /\ EndSession("cancelled")
    /\ UNCHANGED <<given, outside, delay, connected, dials, waited>>

(* The unilateral-data handler, on the connection's own goroutine. *)
Announce ==
    /\ news /\ news' = FALSE
    /\ UNCHANGED <<given, outside, pc, delay, connected, failure, link, dials, waited, rejected>>

-----------------------------------------------------------------------------
(* Watch: what it does between sessions. *)

\* A faulty variant: a refusal is retried like any other failure.
RefusalsRetried(how) == how = "certificate"

(* An untrusted certificate or a tagged refusal whose code names no passing
   condition recurs on every dial; a BYE and whatever is no IMAP response do not. *)
permanentFailure(how) == how \in {"certificate", "no"}

\* A faulty variant: the delay starts over after every failed session.
DelayKept(d) == minDelay

NextDelay(d) == Lesser(d * 2, maxDelay)

(* A session has returned: the watcher stops, or settles the delay to wait. *)
Returned ==
    /\ pc = "ended"
    /\ IF cancelled \/ permanentFailure(failure)
       THEN pc' = "gone" /\ UNCHANGED delay
       ELSE /\ pc' = "wait"
            /\ delay' = IF connected THEN minDelay ELSE delay
    /\ UNCHANGED <<given, outside, connected, failure, link, news, dials, waited, rejected>>

Wait ==
    /\ pc = "wait"
    /\ waited' = IF Measured THEN waited + delay ELSE waited
    /\ delay' = NextDelay(delay)
    /\ pc' = "dial" /\ connected' = FALSE /\ failure' = "none"
    /\ UNCHANGED <<given, outside, link, news, dials, rejected>>

StopWaiting ==
    /\ pc = "wait" /\ cancelled
    /\ pc' = "gone"
    /\ UNCHANGED <<given, outside, delay, connected, failure, link, news, dials, waited, rejected>>

-----------------------------------------------------------------------------
(* The environment. *)

Cancel ==
    /\ ~cancelled /\ pc # "gone" /\ cancelled' = TRUE
    /\ UNCHANGED <<given, pc, delay, connected, failure, server, grant, link, news, mail, dials, waited, rejected>>

Change(temper) ==
    /\ pc # "gone" /\ server' = temper
    /\ UNCHANGED <<given, pc, delay, connected, failure, cancelled, grant, link, news, mail, dials, waited, rejected>>

Grant(what) ==
    /\ pc # "gone" /\ credential = "oauth2" /\ grant' = what
    /\ UNCHANGED <<given, pc, delay, connected, failure, cancelled, server, link, news, mail, dials, waited, rejected>>

(* The connection breaks; nothing tells the watcher. *)
LinkLost ==
    /\ link /\ link' = FALSE /\ news' = FALSE
    /\ UNCHANGED <<given, outside, pc, delay, connected, failure, dials, waited, rejected>>

(* A message arrives: whoever has the mailbox selected hears of it. *)
Arrive ==
    /\ pc # "gone" /\ mail' = 1 - mail
    /\ news' = (news \/ (link /\ pc \in {"idle", "idling"}))
    /\ UNCHANGED <<given, pc, delay, connected, failure, cancelled, server, grant, link, dials, waited, rejected>>

Step == Dial \/ Token \/ Login \/ Select \/ Idle \/ Refresh \/ Interrupted \/ Returned \/ Wait \/ StopWaiting

WatcherNext ==
    \/ Step
    \/ Announce
    \/ Cancel
    \/ \E temper \in Tempers : Change(temper)
    \/ \E what \in Grants : Grant(what)
    \/ LinkLost
    \/ Arrive

WatcherSpec == WatcherInit /\ [][WatcherNext]_watcherVars

(* Timers fire, commands are answered or time out, and the connection's
   goroutine gets to run. *)
FairSpec == WatcherSpec /\ WF_watcherVars(Step) /\ WF_watcherVars(Announce)

-----------------------------------------------------------------------------
(* Properties. *)

(* How often the least delay doubles before it is the greatest. *)
Doublings == CHOOSE d \in 0 .. maxDelay :
                /\ Doubles(minDelay)[d] >= maxDelay
                /\ \A e \in 0 .. d - 1 : Doubles(minDelay)[e] < maxDelay

(* An outage is no reconnect storm: the dials since the last session in IDLE are
   bounded by the time that has been waited, whatever failed and whichever
   bounds are in force (watcher.go Watch, SetBackoff). *)
NoStorm == dials * maxDelay <= waited + (Doublings + 1) * maxDelay

(* What the server refuses for good is not asked again: a session that ended in a
   rejected login, a missing mailbox or a certificate that is not trusted
   is the last (watcher.go permanentFailure). *)
RejectionIsLast == [][rejected => ~Dial]_watcherVars

(* While mail keeps arriving at a server that has become well and stays so, the
   watcher keeps reporting it, unless it was stopped or refused for good before:
   a connection that died unnoticed and an outage of any length are survived
   (watcher.go Watch, idleSession). *)
StaysInformed ==
    /\ <>[](server = "serving" /\ grant = "valid") /\ <>[][~LinkLost]_watcherVars /\ []<><<Arrive>>_watcherVars
    => []<><<Announce>>_watcherVars \/ <>(cancelled \/ rejected)
=============================================================================
