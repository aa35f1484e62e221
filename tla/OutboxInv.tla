----------------------------- MODULE OutboxInv ------------------------------
(***************************************************************************)
(* The inductive invariant behind the safety properties of Outbox: what    *)
(* the files of a message say at any moment (RecordOK), and what a thread  *)
(* knows of the files at each point of its operation (LocalOK); and what   *)
(* CleanRepair and ImplementsLifecycle rest on besides.                    *)
(***************************************************************************)
EXTENDS Outbox

Has(i, s) == store[i][s] # Absent

\* The files of message i, whichever operations were interrupted: the latest
\* copy covers the handovers; a copy still in queued stands for a decision that
\* has not been acted on; a copy in sent is never older than the others.
RecordOK(i) ==
  /\ i \notin accepted => sends[i] = 0 /\ \A s \in States : ~Has(i, s)
  /\ i \in accepted => \E s \in States : Has(i, s) /\ sends[i] <= store[i][s]
  /\ Has(i, "queued") =>
       /\ sends[i] <= store[i]["queued"] /\ sends[i] <= retries[i]
       /\ \A s \in States : store[i][s] <= store[i]["queued"] + 1
  /\ Has(i, "sent") =>
       ~Has(i, "queued") /\ \A s \in States : store[i][s] <= store[i]["sent"]
  /\ Has(i, "sending") => store[i]["failed"] <= store[i]["sending"]
  /\ sends[i] <= 1 + retries[i]

\* The places of an operation at which its thread holds the outbox.
Holding == {"repair", "unstrand", "list", "run", "unqueue", "wire", "SUCCEED",
            "FAIL", "unsend", "retry", "unfail"}

\* A delivery has counted its attempt and taken the message out of queued.
OnTheWire(i, attempts) ==
  /\ ~Has(i, "queued") /\ ~Has(i, "sent")
  /\ store[i]["sending"] = attempts
  /\ \A s \in States : store[i][s] <= attempts

\* What a thread at l, with the locals o, knows of the files.
LocalOK(l, o) ==
  /\ o.want # NoId => o.want \in accepted
  /\ l = "repair" =>
       /\ \A c \in o.drop : /\ c[2] # "sent" /\ Has(c[1], c[2])
                            /\ \E r \in States : /\ r # c[2] /\ <<c[1], r>> \notin o.drop
                                                 /\ Has(c[1], r)
                                                 /\ store[c[1]][c[2]] <= store[c[1]][r]
       /\ \A i \in o.todo : Has(i, "sending")
  /\ l = "unstrand" =>
       /\ Has(o.id, "failed") /\ store[o.id]["sending"] <= store[o.id]["failed"]
       /\ o.drop = {} /\ \A i \in o.todo : i # o.id /\ Has(i, "sending")
  /\ l = "unqueue" => /\ Has(o.id, "queued") /\ ~Has(o.id, "sent")
                      /\ o.attempts = store[o.id]["queued"] + 1
                      /\ o.attempts = store[o.id]["sending"]
  /\ l = "wire" => /\ OnTheWire(o.id, o.attempts)
                   /\ sends[o.id] < o.attempts /\ sends[o.id] <= retries[o.id]
  /\ l \in {"SUCCEED", "FAIL"} => OnTheWire(o.id, o.attempts) /\ sends[o.id] <= o.attempts
  /\ l = "unsend" => \E r \in {"sent", "failed"} :
       Has(o.id, r) /\ store[o.id]["sending"] <= store[o.id][r]
  /\ l = "unfail" => Has(o.want, "queued")
  /\ l = "scan" =>
       /\ o.since <= retries[o.want]
       /\ o.since = retries[o.want] =>
            \A s \in States : OutboxStates[s] < o.at => ~Has(o.want, s)
  /\ l = "unknown" => o.since < retries[o.want]

\* The file lock is held by the thread that is where it is held, and by no other.
LockOK == \A t \in Threads : pc[t] \in Holding <=> lock = t

\* Until the server serves, none of its request handlers runs.
Starting == {"down", "claim", "repair", "unstrand"}
StartOK == pc[Worker] \in Starting => \A h \in Handlers : pc[h] = "down"

\* An operation that is about a message has one.
Delivering == {"wait", "list", "run", "unqueue", "wire", "SUCCEED", "FAIL", "unsend"}
WithMessage == {"unqueue", "wire", "SUCCEED", "FAIL", "unsend", "unstrand"}
WithTarget == {"waitRetry", "retry", "unfail", "scan", "unknown"}
HasMessage(t, l, o) ==
  /\ l \in WithTarget => o.want # NoId
  /\ t \in Clients /\ l \in Delivering => o.want # NoId
  /\ l \in WithMessage => o.id # NoId

\* The inductive invariant: the types, and what files and threads know of each
\* other at every point between apply's Write and Remove, a repair or a crash.
IInv ==
  /\ TypeOK
  /\ \A t \in Threads : HasMessage(t, pc[t], op[t])
  /\ LockOK /\ StartOK
  /\ \A i \in Ids : RecordOK(i)
  /\ \A t \in Threads : LocalOK(pc[t], op[t])

-----------------------------------------------------------------------------
(* What a repair still has to do, behind CleanRepair.                      *)

\* A repair to which nothing has gone wrong has every copy but one of each record on
\* its list, and every record that is in sending.
Mending(l, o) ==
  /\ l = "repair" /\ o.clean => \A i \in Ids :
       /\ Has(i, "sending") => i \in o.todo
       /\ \E keep \in States : \A s \in States : Has(i, s) /\ s # keep => <<i, s>> \in o.drop
  /\ l = "unstrand" /\ o.clean =>
       /\ ~Has(o.id, "queued") /\ ~Has(o.id, "sent")
       /\ \A i \in Ids \ {o.id} :
            /\ Has(i, "sending") => i \in o.todo
            /\ \E keep \in States : \A s \in States : Has(i, s) => s = keep

-----------------------------------------------------------------------------
(* What holds as long as no file operation fails, behind ImplementsLifecycle. *)

\* The copies of a record, whatever crash interrupted a transition or its repair: one in
\* failed is left from an earlier attempt or about to be all there is, one in sending has
\* counted the attempt that one in queued has not, and one in sent is the newest.
Orderly(copies) ==
  /\ copies["queued"] # Absent =>
       /\ copies["failed"] <= copies["queued"]
       /\ copies["sending"] # Absent => copies["sending"] = copies["queued"] + 1
  /\ copies["sending"] # Absent => copies["failed"] <= copies["sending"]
  /\ copies["sent"] # Absent =>
       copies["queued"] = Absent /\ \A s \in States : copies[s] <= copies["sent"]

\* A repair removes no authoritative copy and fails a record only when nothing else is
\* left of it; a delivery on the wire is of the newest attempt.
Surveyed(l, o) ==
  /\ l \in {"repair", "unstrand"} => \A j \in o.todo, s \in States :
       Has(j, s) /\ s # Survivor(store[j]) => <<j, s>> \in o.drop
  /\ l = "repair" => \A c \in o.drop : c[2] # Survivor(store[c[1]])
  /\ l = "unstrand" => ~Has(o.id, "queued") /\ ~Has(o.id, "sent")
  /\ l \in {"wire", "SUCCEED", "FAIL"} => store[o.id]["failed"] < o.attempts
  /\ l = "SUCCEED" => sends[o.id] > 0

LifecycleInv ==
  /\ \A i \in Ids : Orderly(store[i])
  /\ \A t \in Threads : Surveyed(pc[t], op[t])
=============================================================================
