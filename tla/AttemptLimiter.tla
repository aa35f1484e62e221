---------------------------- MODULE AttemptLimiter ----------------------------
(***************************************************************************)
(* Basic auth's bound on password guessing (src/infrastructure/mcpserver/  *)
(* basicauth.go).  Requests run in parallel: each asks the limiter, has    *)
(* its credential verified outside the lock, and only then reports how     *)
(* that went.  The handshake methods pass by all of it and are left out.   *)
(* Times are counted in units of the shortest lockout or less.             *)
(***************************************************************************)
EXTENDS Integers, FiniteSets, Functions, Backoff

CONSTANTS
    Clients,    \* what clientKey tells apart: peer addresses, "unknown" among them
    Parallel,   \* requests a client has in progress at most
    Threshold,  \* authFailureThreshold
    Base, Cap,  \* authBackoffBase, authBackoffMax
    ShiftGuard, \* the largest shift backoffFor computes
    TTL,        \* authEntryTTL
    MaxTracked, \* maxTrackedClients
    Sample,     \* entries evictLocked looks at
    MaxTime,    \* bound: the clock stops here
    MaxEvictions \* bound: how often a client's record is given up between two of its successes

ASSUME LimiterAssumption ==
    /\ Threshold \in Nat \ {0} /\ Base \in Nat \ {0} /\ Cap \in Nat /\ Base <= Cap
    /\ ShiftGuard \in Nat /\ TTL \in Nat /\ MaxTracked \in Nat \ {0}
    /\ Sample \in Nat \ {0} /\ MaxTime \in Nat
    /\ IsFiniteSet(Clients) /\ Parallel \in Nat /\ MaxEvictions \in Nat

VARIABLES
    table,   \* the records of the clients that failed
    now,     \* the clock
    verifying, \* each client's requests between their two calls to the limiter
    since,   \* history: when each client's run of verifications without a success began
    spent,   \* history: the verifications of that run
    evictions, \* history: how often the client's record was given up in that run
    failed,  \* history: when a failure of the client was last recorded
    guessed  \* history: the clients that ever presented a wrong credential

vars == <<table, now, verifying, since, spent, evictions, failed, guessed>>

Entry == [failures : Nat, lockedUntil : Nat, lastSeen : Nat]
NoEntry == [failures |-> 0, lockedUntil |-> 0, lastSeen |-> 0]
Tracked == DOMAIN table

Init ==
    /\ table = [c \in {} |-> NoEntry]
    /\ now = 0
    /\ verifying = [c \in Clients |-> 0]
    /\ since = [c \in Clients |-> 0] /\ spent = [c \in Clients |-> 0]
    /\ evictions = [c \in Clients |-> 0]
    /\ failed = [c \in Clients |-> 0] /\ guessed = {}

-----------------------------------------------------------------------------
(* The attempt limiter. *)

backoffFor(failures) ==
    LET shift == IF failures < Threshold THEN 0 ELSE failures - Threshold
    IN IF shift > ShiftGuard \/ Doubles(Base)[shift] \notin 1 .. Cap THEN Cap ELSE Doubles(Base)[shift]

Locked(c) == c \in Tracked /\ now < table[c].lockedUntil

\* A faulty variant: knocking at a closed door keeps it closed for longer.
Extended(c) == [table EXCEPT ![c].lockedUntil = now + Cap]

(* A refused request leaves the record as it is. *)
AfterRefusal(c) == table

Expired(c) == now - table[c].lastSeen >= TTL /\ ~Locked(c)


(* Who may go when the table is full: maps are walked in no fixed order, so an
   expired entry can be met first, and otherwise the least recently seen of any
   sample goes. *)
Victims ==
    {c \in Tracked :
        \/ Expired(c)
        \/ \E S \in SUBSET Tracked :
              /\ c \in S
              /\ Cardinality(S) = Lesser(Sample, Cardinality(Tracked))
              /\ \A d \in S : ~Expired(d) /\ table[c].lastSeen <= table[d].lastSeen}

\* A faulty variant: a record that has not expired is never given up.
LiveSpared == {{c} : c \in {d \in Victims : Expired(d)}} \cup {{}}

(* Those that leave the table to let a newcomer in. *)
evictLocked == IF Cardinality(Tracked) < MaxTracked THEN {{}} ELSE {{c} : c \in Victims}

\* A faulty variant: the threshold is passed before it counts.
CountedLate(entry) ==
    LET failures == entry.failures + 1
    IN [failures |-> failures,
        lockedUntil |-> IF failures > Threshold THEN now + backoffFor(failures) ELSE entry.lockedUntil,
        lastSeen |-> now]

(* The record after one more failure. *)
Counted(entry) ==
    LET failures == entry.failures + 1
    IN [failures |-> failures,
        lockedUntil |-> IF failures >= Threshold THEN now + backoffFor(failures) ELSE entry.lockedUntil,
        lastSeen |-> now]

-----------------------------------------------------------------------------
(* The middleware. *)

(* A request comes in and is refused, or goes on to verification. *)
Ask(c) ==
    /\ verifying[c] < Parallel
    /\ IF Locked(c)
       THEN table' = AfterRefusal(c) /\ UNCHANGED <<verifying, since, spent>>
       ELSE /\ table' = IF c \in Tracked THEN [table EXCEPT ![c].lastSeen = now] ELSE table
            /\ verifying' = [verifying EXCEPT ![c] = @ + 1]
            /\ since' = IF spent[c] = 0 THEN [since EXCEPT ![c] = now] ELSE since
            /\ spent' = [spent EXCEPT ![c] = @ + 1]
    /\ UNCHANGED <<now, evictions, failed, guessed>>

(* A verification ends. *)
Done(c) == verifying[c] > 0 /\ verifying' = [verifying EXCEPT ![c] = @ - 1]

recordFailure(c) ==
    LET entry == Counted(IF c \in Tracked THEN table[c] ELSE NoEntry)
    IN
    /\ Done(c)
    /\ \E gone \in IF c \in Tracked THEN {{}} ELSE evictLocked :
          /\ \A d \in gone : evictions[d] < MaxEvictions
          /\ table' = [d \in (Tracked \ gone) \cup {c} |-> IF d = c THEN entry ELSE table[d]]
          /\ evictions' = [d \in Clients |-> evictions[d] + (IF d \in gone THEN 1 ELSE 0)]
    /\ failed' = [failed EXCEPT ![c] = now]
    /\ guessed' = guessed \cup {c}
    /\ UNCHANGED <<now, since, spent>>

(* What the client still has being verified counts towards its next run. *)
recordSuccess(c) ==
    /\ Done(c)
    /\ table' = Restrict(table, Tracked \ {c})
    /\ since' = [since EXCEPT ![c] = now]
    /\ spent' = [spent EXCEPT ![c] = verifying'[c]]
    /\ evictions' = [evictions EXCEPT ![c] = 0]
    /\ UNCHANGED <<now, failed, guessed>>

Tick ==
    /\ now < MaxTime /\ now' = now + 1
    /\ UNCHANGED <<table, verifying, since, spent, evictions, failed, guessed>>

Next ==
    \/ \E c \in Clients : Ask(c) \/ recordFailure(c) \/ recordSuccess(c)
    \/ Tick

Spec == Init /\ [][Next]_vars

-----------------------------------------------------------------------------
(* Properties. *)

(* Every variable keeps its shape. *)
TypeOK ==
    /\ Tracked \subseteq Clients /\ table \in [Tracked -> Entry]
    /\ now \in Nat
    /\ verifying \in [Clients -> 0 .. Parallel]
    /\ since \in [Clients -> Nat] /\ spent \in [Clients -> Nat]
    /\ evictions \in [Clients -> Nat]
    /\ failed \in [Clients -> Nat] /\ guessed \subseteq Clients

(* How long the first n lockouts in a row last at least. *)
Waited[n \in Nat] ==
    IF n = 0 THEN 0 ELSE Waited[n - 1] + Lesser(Doubles(Base)[n - 1], Cap)

(* What a client can make the server spend on guesses until it gets one right is
   bounded by the time it lets pass, however its requests overlap: the failures
   that are free, and as many as it sends at once for the first lockout and for
   each that ran out - and as much again each time its record was given up to
   let another client in, which is all that churning a full table buys: the
   residual the code names (basicauth.go allow, recordFailure, evictLocked).  A
   correct credential starts the count afresh. *)
GuessesBounded ==
    \A c \in Clients :
        LET past == now - since[c]
            lockouts == CHOOSE n \in 0 .. past : Waited[n] <= past /\ past < Waited[n + 1]
        IN spent[c] <= (1 + evictions[c]) * (Threshold - 1 + Parallel * (1 + lockouts))

(* Whoever never presented a wrong credential has no record and is never made to
   wait, whatever others send (basicauth.go recordSuccess). *)
HonestNeverSlowed == Tracked \subseteq guessed

(* The table never outgrows its limit (basicauth.go evictLocked). *)
TableBounded == Cardinality(Tracked) <= MaxTracked

(* A lockout ends with the last failure's backoff: a flood of refused requests
   does not hold a client out (basicauth.go allow). *)
LockoutsEnd == \A c \in Tracked : table[c].lockedUntil <= failed[c] + Cap
=============================================================================
