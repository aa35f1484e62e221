------------------------------- MODULE Outbox -------------------------------
(***************************************************************************)
(* The outbox of application/outbox.go over the maildir store of           *)
(* infrastructure/maildir/outboxstore.go, shared by the server process     *)
(* (one delivery worker, several request handlers) and by one-shot CLI     *)
(* processes.                                                              *)
(*                                                                         *)
(* A record is a file <state>/<id>.json; a transition writes the new file  *)
(* (staged and renamed, so the write is one atomic step) and then removes  *)
(* the old one, so a crash between the two leaves two copies.  What the    *)
(* code tells copies apart by is the attempts count, which is all the      *)
(* model keeps of a record.  Every file operation is a step of its own; a  *)
(* process may crash between any two of them, a file operation may fail,   *)
(* and a file may become undecodable.                                      *)
(***************************************************************************)
EXTENDS Integers, FiniteSets

CONSTANTS
  Ids,          \* outbox ids, drawn from 128 random bits: never drawn twice
  Worker,       \* the server's delivery goroutine
  Handlers,     \* the server's request goroutines
  Clients,      \* one-shot CLI processes, one goroutine each
  Nobody,       \* no thread holds the lock
  NoId,         \* no message
  MaxRetries,   \* bound: RETRY decisions started per message
  Mishaps,      \* what can go wrong: process crashes, file operations that
                \* fail, files that become undecodable
  MaxMishaps    \* bound: how often something goes wrong

ServerThreads == {Worker} \cup Handlers
Threads == ServerThreads \cup Clients

ASSUME ThreadsAreDistinct ==
  /\ Worker \notin Handlers
  /\ ServerThreads \cap Clients = {}
  /\ Nobody \notin Threads
ASSUME NoIdIsNoId == NoId \notin Ids
ASSUME MishapsAreKnown == Mishaps \subseteq {"crash", "fault", "damage"}
ASSUME BoundsAreNat == MaxRetries \in Nat /\ MaxMishaps \in Nat

VARIABLES
  store,      \* store[i][s]: attempts in the copy of i under state s, or Absent
  torn,       \* the copies that exist and do not decode
  lock,       \* holder of the cross-process file lock (.lock, flock)
  mu,         \* holder of the server process's Outbox.mu
  pc,         \* where each thread is
  op,         \* the locals of the operation each thread is running
  accepted,   \* history: ids Enqueue has returned to a caller
  sends,      \* history: times a message was handed to the Sender
  retries,    \* history: RETRY transitions written, each a person's decision
  mishaps     \* what has gone wrong so far, against its bound

vars == <<store, torn, lock, mu, pc, op, accepted, sends, retries, mishaps>>
disk == <<store, torn>>
history == <<accepted, sends, retries>>

-----------------------------------------------------------------------------
(* Records and the lifecycle.                                              *)

States == {"queued", "sending", "sent", "failed"}
Absent == -1

\* The lifecycle: the state each event leads from and to.
Transition == [ SEND    |-> [from |-> "queued",  to |-> "sending"],
                SUCCEED |-> [from |-> "sending", to |-> "sent"],
                FAIL    |-> [from |-> "sending", to |-> "failed"],
                RETRY   |-> [from |-> "failed",  to |-> "queued"] ]
Events == DOMAIN Transition

\* The states under which a record has a copy.
Held(copies) == {s \in States : copies[s] # Absent}

First(S, order) == CHOOSE s \in S : \A r \in S : order[s] <= order[r]

\* A faulty variant: the scan does not follow the lifecycle.
SendingFirst == [sending |-> 1, queued |-> 2, sent |-> 3, failed |-> 4]

\* Find: the first state, in the order of OutboxStates, that holds a copy.
OutboxStates == [queued |-> 1, sending |-> 2, sent |-> 3, failed |-> 4]
Found(copies) == First(Held(copies), OutboxStates)

\* The copies no other copy has more attempts than.
Latest(copies) == {s \in Held(copies) : \A r \in Held(copies) : copies[r] <= copies[s]}

\* Faulty variants: the stale side of an interrupted transition wins; a record
\* still in sending is taken for failed before it has been written there.
KeepsOldSide(copies) == First(Latest(copies), OutboxStates)
AnticipatesFail(copies) ==
  IF "sending" \in Held(copies) THEN "failed" ELSE CHOOSE s \in Latest(copies) : TRUE

\* survivor: the copy of a duplicated id that is authoritative.  A pair that
\* an interrupted transition leaves is decided by the transition, the rest by
\* keepOrder (which returns a single latest copy as it is).
keepOrder == [sent |-> 1, failed |-> 2, sending |-> 3, queued |-> 4]
Survivor(copies) ==
  LET top == Latest(copies)
      interrupted == {e \in Events : top = {Transition[e].from, Transition[e].to}}
  IN IF interrupted = {} THEN First(top, keepOrder)
                         ELSE Transition[CHOOSE e \in interrupted : TRUE].to

\* Find decodes the copy it finds, or reports damage.
Readable(i) == Held(store[i]) # {} /\ <<i, Found(store[i])>> \notin torn
FindsIn(i, s) == Readable(i) /\ Found(store[i]) = s

\* A record with an unreadable copy: survey's "damaged".
Damaged(i) == \E s \in States : <<i, s>> \in torn

-----------------------------------------------------------------------------
(* File operations and locals.                                             *)

Write(i, s, attempts) ==
  /\ store' = [store EXCEPT ![i][s] = attempts]
  /\ torn' = torn \ {<<i, s>>}

Remove(i, s) ==
  /\ store' = [store EXCEPT ![i][s] = Absent]
  /\ torn' = torn \ {<<i, s>>}

Mishap(kind) ==
  /\ kind \in Mishaps /\ mishaps < MaxMishaps
  /\ mishaps' = mishaps + 1

\* A file operation that returns an error changes nothing.
IOFails == Mishap("fault") /\ UNCHANGED disk

NoOp == [want |-> NoId, id |-> NoId, attempts |-> 0, todo |-> {}, drop |-> {},
         clean |-> TRUE, at |-> 1, since |-> 0]

\* Only the server's goroutines share an Outbox, and so contend for its mu.
MuFree(t) == t \in ServerThreads => mu = Nobody
TakeMu(t) == mu' = IF t \in ServerThreads THEN t ELSE mu
DropMu(t) == mu' = IF mu = t THEN Nobody ELSE mu

\* Thread t goes on at l, with the locals o.
Becomes(t, l, o) ==
  /\ pc' = [pc EXCEPT ![t] = l]
  /\ op' = [op EXCEPT ![t] = o]
Goto(t, l) == Becomes(t, l, op[t])

\* Where a thread is when nothing is being asked of it.
Rest(t) == IF t \in Clients THEN "down" ELSE "idle"

-----------------------------------------------------------------------------
(* Starting: the server recovers before it serves, a CLI command repairs    *)
(* only when it is retry or outbox.                                         *)

Init ==
  /\ store = [i \in Ids |-> [s \in States |-> Absent]]
  /\ torn = {}
  /\ lock = Nobody
  /\ mu = Nobody
  /\ pc = [t \in Threads |-> "down"]
  /\ op = [t \in Threads |-> NoOp]
  /\ accepted = {}
  /\ sends = [i \in Ids |-> 0]
  /\ retries = [i \in Ids |-> 0]
  /\ mishaps = 0

StartServer ==
  /\ pc[Worker] = "down"
  /\ Goto(Worker, "claim")
  /\ UNCHANGED <<disk, lock, mu, history, mishaps>>

\* Enqueue takes mu but not the file lock: the id is fresh and the write
\* atomic.  Afterwards a CLI send delivers, a handler returns.
Enqueue(t, i, next) ==
  /\ MuFree(t)
  /\ i \notin accepted
  /\ Write(i, "queued", 0)
  /\ accepted' = accepted \cup {i}
  /\ Becomes(t, next, [op[t] EXCEPT !.want = IF t \in Clients THEN i ELSE @])
  /\ UNCHANGED <<lock, mu, sends, retries, mishaps>>

ClientSend(t, i) == pc[t] = "down" /\ Enqueue(t, i, "wait")
HandlerSend(t, i) == pc[t] = "idle" /\ Enqueue(t, i, "idle")

\* email.retry asks for the lock at once; the CLI's retry repairs first.
AskRetry(t, i) ==
  /\ pc[t] = Rest(t)
  /\ i \in accepted /\ retries[i] < MaxRetries
  /\ Becomes(t, IF t \in Clients THEN "claim" ELSE "waitRetry", [op[t] EXCEPT !.want = i])
  /\ UNCHANGED <<disk, lock, mu, history, mishaps>>

\* The CLI's outbox command: repair, then list.
ClientOutbox(t) ==
  /\ pc[t] = "down"
  /\ Goto(t, "claim")
  /\ UNCHANGED <<disk, lock, mu, history, mishaps>>

\* The worker's five-second tick.
Tick ==
  /\ pc[Worker] = "idle"
  /\ Goto(Worker, "wait")
  /\ UNCHANGED <<disk, lock, mu, history, mishaps>>

-----------------------------------------------------------------------------
(* Recover.                                                                 *)

\* What follows Recover: a server serves, whatever it was told when busy and
\* only after a clean repair otherwise; a retry goes on to the retry, and the
\* outbox command is done.
Recovered(t, ok) ==
  LET next == IF t = Worker THEN IF ok THEN "idle" ELSE "down"
              ELSE IF op[t].want = NoId THEN "down" ELSE "waitRetry"
      released == IF t = Worker THEN ServerThreads ELSE {t}
  IN /\ pc' = [u \in Threads |-> IF u \in released THEN next ELSE pc[u]]
     /\ op' = [op EXCEPT ![t] = [NoOp EXCEPT !.want = op[t].want]]

\* tryHold finds the outbox busy: ErrOutboxBusy, which every caller ignores.
RecoverBusy(t) ==
  /\ pc[t] = "claim" /\ lock # Nobody
  /\ Recovered(t, TRUE)
  /\ UNCHANGED <<disk, lock, mu, history, mishaps>>

\* The copies deduplicate is to remove, every copy but the authoritative one.
Duplicates == {c \in Ids \X States :
  ~Damaged(c[1]) /\ c[2] \in Held(store[c[1]]) /\ c[2] # Survivor(store[c[1]])}

\* Faulty variants: recovery does not ask who holds the outbox; a duplicated
\* record is not looked at again once it is repaired.
SurveyUnlocked(t) ==
  /\ pc[t] = "claim"
  /\ lock' = t
  /\ Becomes(t, "repair",
       [op[t] EXCEPT !.todo = {i \in Ids : "sending" \in Held(store[i])}])
  /\ UNCHANGED <<disk, mu, history, mishaps>>

SurveySingles(t) ==
  /\ pc[t] = "claim" /\ lock = Nobody
  /\ lock' = t
  /\ Becomes(t, "repair", [op[t] EXCEPT
       !.drop = Duplicates,
       !.todo = {i \in Ids : ~Damaged(i) /\ {"sending"} = Held(store[i])},
       !.clean = torn = {}])
  /\ UNCHANGED <<disk, mu, history, mishaps>>

\* tryHold and survey: only Enqueue can add a record from here on, and a fresh
\* record needs no repair, so reading all records is one step.
Survey(t) ==
  /\ pc[t] = "claim" /\ lock = Nobody
  /\ lock' = t
  /\ Becomes(t, "repair", [op[t] EXCEPT
       !.drop = Duplicates,
       !.todo = {i \in Ids : ~Damaged(i) /\ "sending" \in Held(store[i])},
       !.clean = torn = {}])
  /\ UNCHANGED <<disk, mu, history, mishaps>>

\* deduplicate: remove one stale copy.  A copy that cannot be removed stays in
\* byState, so failStranded still sees it.
Deduplicate(t, i, s) ==
  /\ pc[t] = "repair" /\ <<i, s>> \in op[t].drop
  /\ \/ /\ Remove(i, s)
        /\ Becomes(t, "repair", [op[t] EXCEPT
             !.drop = @ \ {<<i, s>>}, !.todo = IF s = "sending" THEN @ \ {i} ELSE @])
        /\ UNCHANGED mishaps
     \/ /\ IOFails
        /\ Becomes(t, "repair", [op[t] EXCEPT !.drop = @ \ {<<i, s>>}, !.clean = FALSE])
  /\ UNCHANGED <<lock, mu, history>>

\* failStranded: re-read the record in sending and write it as failed.
FailStranded(t, i) ==
  /\ pc[t] = "repair" /\ op[t].drop = {} /\ i \in op[t].todo
  /\ \/ /\ <<i, "sending">> \notin torn
        /\ Write(i, Transition.FAIL.to, store[i]["sending"])
        /\ Becomes(t, "unstrand", [op[t] EXCEPT !.id = i, !.todo = @ \ {i}])
        /\ UNCHANGED mishaps
     \/ /\ \/ <<i, "sending">> \in torn /\ UNCHANGED <<disk, mishaps>>
           \/ <<i, "sending">> \notin torn /\ IOFails
        /\ Becomes(t, "repair", [op[t] EXCEPT !.todo = @ \ {i}, !.clean = FALSE])
  /\ UNCHANGED <<lock, mu, history>>

Unstrand(t) ==
  /\ pc[t] = "unstrand"
  /\ \/ Remove(op[t].id, "sending") /\ Goto(t, "repair") /\ UNCHANGED mishaps
     \/ IOFails /\ Becomes(t, "repair", [op[t] EXCEPT !.clean = FALSE])
  /\ UNCHANGED <<lock, mu, history>>

\* A faulty variant: the repair never releases the outbox.
RecoverKeepsLock(t) ==
  /\ pc[t] = "repair" /\ op[t].drop = {} /\ op[t].todo = {}
  /\ Recovered(t, op[t].clean)
  /\ UNCHANGED <<disk, lock, mu, history, mishaps>>

RecoverDone(t) ==
  /\ pc[t] = "repair" /\ op[t].drop = {} /\ op[t].todo = {}
  /\ lock' = Nobody
  /\ Recovered(t, op[t].clean)
  /\ UNCHANGED <<disk, mu, history, mishaps>>

-----------------------------------------------------------------------------
(* ProcessOnce.                                                             *)

\* hold: lock, then mu, never the reverse.
Hold(t) ==
  /\ pc[t] = "wait" /\ lock = Nobody
  /\ lock' = t
  /\ Goto(t, "list")
  /\ UNCHANGED <<disk, mu, history, mishaps>>

\* The backlog is listed by file name, so a damaged record is listed too.
ListQueued(t) ==
  /\ pc[t] = "list" /\ MuFree(t)
  /\ Becomes(t, "run", [op[t] EXCEPT
       !.todo = {i \in Ids : "queued" \in Held(store[i])}, !.clean = TRUE])
  /\ UNCHANGED <<disk, lock, mu, history, mishaps>>

\* Done with a message before any of it moved, or after all of it has.
Skip(t, i, ok) == Becomes(t, "run",
  [op[t] EXCEPT !.todo = @ \ {i}, !.id = NoId, !.attempts = 0, !.clean = @ /\ ok])

\* A listed record that does not load is reported; one that SEND does not
\* apply to is passed over.
SkipUnsendable(t, i) ==
  /\ pc[t] = "run" /\ i \in op[t].todo /\ MuFree(t)
  /\ ~FindsIn(i, Transition.SEND.from)
  /\ Skip(t, i, Readable(i))
  /\ UNCHANGED <<disk, lock, mu, history, mishaps>>

\* A faulty variant: the attempt is not counted before the send.
StartSendUncounted(t, i) ==
  /\ pc[t] = "run" /\ i \in op[t].todo /\ MuFree(t)
  /\ FindsIn(i, "queued")
  /\ Write(i, "sending", store[i]["queued"])
  /\ TakeMu(t)
  /\ Becomes(t, "unqueue", [op[t] EXCEPT !.id = i, !.attempts = store[i]["queued"]])
  /\ UNCHANGED <<lock, history, mishaps>>

\* Read the record, count the attempt, and write it under sending.
StartSend(t, i) ==
  /\ pc[t] = "run" /\ i \in op[t].todo /\ MuFree(t)
  /\ FindsIn(i, Transition.SEND.from)
  /\ LET attempts == store[i][Transition.SEND.from] + 1
     IN \/ /\ Write(i, Transition.SEND.to, attempts)
           /\ TakeMu(t)
           /\ Becomes(t, "unqueue", [op[t] EXCEPT !.id = i, !.attempts = attempts])
           /\ UNCHANGED mishaps
        \/ IOFails /\ Skip(t, i, TRUE) /\ UNCHANGED mu
  /\ UNCHANGED <<lock, history>>

\* A faulty variant: the message is sent although it could not leave queued.
UnqueueAnyway(t) ==
  /\ pc[t] = "unqueue"
  /\ \/ Remove(op[t].id, "queued") /\ UNCHANGED mishaps
     \/ IOFails
  /\ Goto(t, "wire")
  /\ DropMu(t)
  /\ UNCHANGED <<lock, history>>

\* The other half of apply.  When it fails the message is passed over and
\* stays under both states.
Unqueue(t) ==
  /\ pc[t] = "unqueue"
  /\ \/ /\ Remove(op[t].id, Transition.SEND.from)
        /\ Goto(t, "wire")
        /\ UNCHANGED mishaps
     \/ IOFails /\ Skip(t, op[t].id, TRUE)
  /\ DropMu(t)
  /\ UNCHANGED <<lock, history>>

\* The wire send, without mu but still under the file lock.
Send(t) ==
  /\ pc[t] = "wire"
  /\ sends' = [sends EXCEPT ![op[t].id] = @ + 1]
  /\ \E outcome \in {"SUCCEED", "FAIL"} : Goto(t, outcome)
  /\ UNCHANGED <<disk, lock, mu, accepted, retries, mishaps>>

\* Persist the outcome: write the record under sent or failed ...
Record(t) ==
  /\ pc[t] \in {"SUCCEED", "FAIL"} /\ MuFree(t)
  /\ \/ /\ Write(op[t].id, Transition[pc[t]].to, op[t].attempts)
        /\ TakeMu(t)
        /\ Goto(t, "unsend")
        /\ UNCHANGED mishaps
     \/ IOFails /\ Skip(t, op[t].id, FALSE) /\ UNCHANGED mu
  /\ UNCHANGED <<lock, history>>

\* ... and remove it from sending.
Unsend(t) ==
  /\ pc[t] = "unsend"
  /\ \/ Remove(op[t].id, "sending") /\ Skip(t, op[t].id, TRUE) /\ UNCHANGED mishaps
     \/ IOFails /\ Skip(t, op[t].id, FALSE)
  /\ DropMu(t)
  /\ UNCHANGED <<lock, history>>

\* The run is over.  The CLI reports its message's status when nothing failed.
RunDone(t) ==
  /\ pc[t] = "run" /\ op[t].todo = {}
  /\ lock' = Nobody
  /\ IF t \in Clients /\ op[t].clean
       THEN Becomes(t, "scan", [op[t] EXCEPT !.at = 1, !.since = retries[op[t].want]])
       ELSE Becomes(t, Rest(t), NoOp)
  /\ UNCHANGED <<disk, mu, history, mishaps>>

-----------------------------------------------------------------------------
(* Retry.                                                                   *)

HoldRetry(t) ==
  /\ pc[t] = "waitRetry" /\ lock = Nobody
  /\ lock' = t
  /\ Goto(t, "retry")
  /\ UNCHANGED <<disk, mu, history, mishaps>>

\* Retry returns an error: the command or the request is over.
RetryFails(t) == lock' = Nobody /\ Becomes(t, Rest(t), NoOp)

\* A faulty variant: the early return does not release the outbox.
RetryRefusedHolding(t) ==
  /\ pc[t] = "retry" /\ MuFree(t)
  /\ ~FindsIn(op[t].want, "failed")
  /\ Becomes(t, Rest(t), NoOp)
  /\ UNCHANGED <<disk, lock, mu, history, mishaps>>

RetryRefused(t) ==
  /\ pc[t] = "retry" /\ MuFree(t)
  /\ ~FindsIn(op[t].want, Transition.RETRY.from)
  /\ RetryFails(t)
  /\ UNCHANGED <<disk, mu, history, mishaps>>

Requeue(t) ==
  LET i == op[t].want IN
  /\ pc[t] = "retry" /\ MuFree(t)
  /\ FindsIn(i, Transition.RETRY.from)
  /\ \/ /\ Write(i, Transition.RETRY.to, store[i][Transition.RETRY.from])
        /\ retries' = [retries EXCEPT ![i] = @ + 1]
        /\ TakeMu(t)
        /\ Goto(t, "unfail")
        /\ UNCHANGED <<lock, mishaps>>
     \/ IOFails /\ RetryFails(t) /\ UNCHANGED <<mu, retries>>
  /\ UNCHANGED <<accepted, sends>>

\* The other half of apply.  A CLI retry then delivers, a handler returns.
Unfail(t) ==
  /\ pc[t] = "unfail"
  /\ \/ /\ Remove(op[t].want, Transition.RETRY.from)
        /\ lock' = Nobody
        /\ IF t \in Clients THEN Goto(t, "wait") ELSE Becomes(t, "idle", NoOp)
        /\ UNCHANGED mishaps
     \/ IOFails /\ RetryFails(t)
  /\ DropMu(t)
  /\ UNCHANGED history

-----------------------------------------------------------------------------
(* Status: no file lock; mu keeps out the other goroutines of the server,   *)
(* and nothing keeps out another process.                                   *)

AskStatus(h, i) ==
  /\ pc[h] = "idle" /\ h # Worker /\ MuFree(h)
  /\ i \in accepted
  /\ TakeMu(h)
  /\ Becomes(h, "scan", [op[h] EXCEPT !.want = i, !.at = 1, !.since = retries[i]])
  /\ UNCHANGED <<disk, lock, history, mishaps>>

\* Find looks in one state directory at a time.  A copy, readable or not, ends
\* the scan; after the last directory the id is unknown (ErrBadID).
Scan(t) ==
  LET s == CHOOSE r \in States : OutboxStates[r] = op[t].at IN
  /\ pc[t] = "scan"
  /\ \/ /\ s \in Held(store[op[t].want])
        /\ Becomes(t, Rest(t), NoOp) /\ DropMu(t)
     \/ /\ s \notin Held(store[op[t].want]) /\ op[t].at < 4
        /\ Becomes(t, "scan", [op[t] EXCEPT !.at = @ + 1])
        /\ UNCHANGED mu
     \/ /\ s \notin Held(store[op[t].want]) /\ op[t].at = 4
        /\ Goto(t, "unknown") /\ DropMu(t)
  /\ UNCHANGED <<disk, lock, history, mishaps>>

ReportUnknown(t) ==
  /\ pc[t] = "unknown"
  /\ Becomes(t, Rest(t), NoOp)
  /\ UNCHANGED <<disk, lock, mu, history, mishaps>>

-----------------------------------------------------------------------------
(* Mishaps.                                                                 *)

\* A process ends anywhere; the kernel releases its file lock.
Crash(T) ==
  /\ Mishap("crash")
  /\ \E t \in T : pc[t] # "down"
  /\ pc' = [t \in Threads |-> IF t \in T THEN "down" ELSE pc[t]]
  /\ op' = [t \in Threads |-> IF t \in T THEN NoOp ELSE op[t]]
  /\ lock' = IF lock \in T THEN Nobody ELSE lock
  /\ mu' = IF mu \in T THEN Nobody ELSE mu
  /\ UNCHANGED <<disk, history>>

\* The file system damages a record (the store itself never writes in place).
Damage(i, s) ==
  /\ Mishap("damage")
  /\ s \in Held(store[i]) /\ <<i, s>> \notin torn
  /\ torn' = torn \cup {<<i, s>>}
  /\ UNCHANGED <<store, lock, mu, pc, op, history>>

-----------------------------------------------------------------------------

\* What thread t does next in the operation it is running.
Step(t) ==
  \/ RecoverBusy(t) \/ Survey(t) \/ Unstrand(t) \/ RecoverDone(t)
  \/ \E i \in Ids : FailStranded(t, i) \/ \E s \in States : Deduplicate(t, i, s)
  \/ Hold(t) \/ ListQueued(t) \/ Unqueue(t) \/ Send(t) \/ Record(t) \/ Unsend(t)
  \/ RunDone(t)
  \/ \E i \in Ids : SkipUnsendable(t, i) \/ StartSend(t, i)
  \/ HoldRetry(t) \/ RetryRefused(t) \/ Requeue(t) \/ Unfail(t)
  \/ Scan(t) \/ ReportUnknown(t)

\* What is asked of the system.
Request ==
  \/ \E c \in Clients : ClientOutbox(c)
  \/ \E i \in Ids :
       \/ \E c \in Clients : ClientSend(c, i)
       \/ \E h \in Handlers : HandlerSend(h, i) \/ AskStatus(h, i)
       \/ \E t \in Threads \ {Worker} : AskRetry(t, i)

Misfortune ==
  \/ Crash(ServerThreads)
  \/ \E c \in Clients : Crash({c})
  \/ \E i \in Ids, s \in States : Damage(i, s)

Next == StartServer \/ Tick \/ Request \/ Misfortune \/ \E t \in Threads : Step(t)

Spec == Init /\ [][Next]_vars

\* Every goroutine is scheduled, a wire send ends (its timeout sees to that),
\* the ticker ticks and whoever runs the server starts it again.  A thread that
\* keeps contending for the file lock or mu gets it in the end: flock and
\* sync.Mutex both hand over to a waiter.
Fairness ==
  /\ WF_vars(StartServer) /\ WF_vars(Tick)
  /\ \A t \in Threads : SF_vars(Step(t))

FairSpec == Spec /\ Fairness

-----------------------------------------------------------------------------
(* Properties.                                                              *)

PCs == {"down", "idle", "claim", "repair", "unstrand", "wait", "list", "run",
        "unqueue", "wire", "SUCCEED", "FAIL", "unsend", "waitRetry", "retry",
        "unfail", "scan", "unknown"}

Ops == [want : Ids \cup {NoId}, id : Ids \cup {NoId}, attempts : Nat,
        todo : SUBSET Ids, drop : SUBSET (Ids \X States), clean : BOOLEAN,
        at : 1..4, since : Nat]

\* Every variable has its type; a torn copy is a copy that exists.
TypeOK ==
  /\ store \in [Ids -> [States -> Nat \cup {Absent}]]
  /\ torn \subseteq Ids \X States
  /\ lock \in Threads \cup {Nobody}
  /\ mu \in ServerThreads \cup {Nobody}
  /\ pc \in [Threads -> PCs]
  /\ op \in [Threads -> Ops]
  /\ accepted \subseteq Ids
  /\ sends \in [Ids -> Nat]
  /\ retries \in [Ids -> Nat]
  /\ mishaps \in Nat

\* A message Enqueue has accepted is never lost: some file holds it, whatever
\* crashed or failed between apply's Write and Remove or during a repair.
NoMessageLost == \A i \in accepted : Held(store[i]) # {}

\* One decision, one delivery: a message is handed to the Sender at most once
\* for its Enqueue and once for every Retry a person asked for.
OneSendPerDecision == \A i \in Ids : sends[i] <= 1 + retries[i]

\* While a message is with the Sender its record stays in sending, as the worker
\* wrote it: nobody's Recover, Retry or delivery run touches it.
InFlightUndisturbed == \A t \in Threads : pc[t] \in {"wire", "SUCCEED", "FAIL"} =>
  /\ store[op[t].id]["sending"] = op[t].attempts
  /\ "queued" \notin Held(store[op[t].id])

\* The attempts on disk cover every handover ("the number survives a crash
\* mid-delivery"): the latest copy has counted at least as many attempts.
AttemptsCoverSends == \A i \in accepted : \E s \in States : sends[i] <= store[i][s]

\* sent is final: a record that reached sent stays there, and the message is
\* never handed to the Sender again.
SentIsFinal == [][\A i \in Ids : "sent" \in Held(store[i]) =>
                    "sent" \in Held(store'[i]) /\ sends'[i] = sends[i]]_vars

\* A repair that reports no error leaves every record with one copy and none
\* stranded in sending.
CleanRepair == [][\A t \in Threads : RecoverDone(t) /\ op[t].clean =>
  \A i \in accepted : Cardinality(Held(store[i])) = 1 /\ "sending" \notin Held(store[i])]_vars

\* A status query misses a message only when the message was retried while the
\* query was reading: every other transition and every repair keeps it visible
\* to a reader that takes no lock.
StatusMissesOnlyARetry ==
  \A t \in Threads : pc[t] = "unknown" => retries[op[t].want] > op[t].since

\* A queued message leaves queued: the worker gets to it despite the requests
\* and CLI runs that contend for the outbox.
QueuedIsProcessed == \A i \in Ids :
  "queued" \in Held(store[i]) ~> "queued" \notin Held(store[i])

\* A retry that was asked for is decided or its process has ended: lock-then-mu
\* never leaves the worker and a request waiting on each other.
RetryIsAnswered == \A t \in Threads :
  pc[t] \in {"waitRetry", "retry", "unfail"} ~> pc[t] \notin {"waitRetry", "retry", "unfail"}
-----------------------------------------------------------------------------
\* The files implement the lifecycle: the authoritative copy is the state.  The
\* promise is made of a file system that does not fail; a copy that Recover
\* cannot remove can outlive the repair and be sent without a decision.
L == INSTANCE OutboxLifecycle WITH
       phase <- [i \in Ids |-> IF Held(store[i]) = {} THEN "none" ELSE Survivor(store[i])]
ImplementsLifecycle == L!Spec
=============================================================================
