----------------------------- MODULE MailRequests -----------------------------
(***************************************************************************)
(* Requests to the MCP server on their way to a mailbox: the tool checks   *)
(* the ids it was given and puts a human in the loop, the service and the  *)
(* switchable mailbox check the cap again and dispatch, and the backend is *)
(* worked through id by id (src/infrastructure/mcpserver/server.go,        *)
(* src/application/service.go, switchable.go, compose.go).  Requests run   *)
(* at the same time, config.set swaps the backend under them, mail arrives *)
(* and callers hang up.  The backends here are of the kind that does not   *)
(* batch, as the maildir; one operation on one id is one step.             *)
(***************************************************************************)
EXTENDS Reply, FiniteSets

CONSTANTS
    Callers,   \* requests in progress; each caller makes one
    Backends,  \* mailboxes config.set can swap in
    Ids,       \* message ids, which two backends may both use
    Mail,      \* the messages that can be in each backend
    Cap,       \* bulk_limit of each backend
    Size,      \* the size of each message
    Budget,    \* MaxFetchBytes
    Header,    \* what a reply reads of each backend's messages: [from, replyTo, to, cc, oversized]
    Self,      \* the addr-spec of the sender that comes with each backend
    Others,    \* recipient lists a forward may be asked for
    Batches,   \* lists of ids a batch may name
    MaxSwaps   \* bound: swaps of the backend

List(list) == list \in Seq(Range(list))

ASSUME RequestsAssumption ==
    /\ Mail \in [Backends -> SUBSET Ids] /\ Cap \in [Backends -> Nat]
    /\ Size \in [Ids -> Nat] /\ Budget \in Nat
    /\ Batches \subseteq Seq(Ids) /\ MaxSwaps \in Nat
    /\ \A b \in Backends, id \in Ids :
          /\ List(Header[b][id].from) /\ List(Header[b][id].replyTo)
          /\ List(Header[b][id].to) /\ List(Header[b][id].cc)
    /\ \A to \in Others : List(to)

VARIABLES
    box,      \* where each backend holds each message
    current,  \* the switchable mailbox's backend
    sender,   \* the backend whose sender the outbox has
    req,      \* each caller's request
    queued,   \* messages given to the outbox: [by, message]
    swaps     \* swaps so far

vars == <<box, current, sender, req, queued, swaps>>

Curations == {"archive", "delete"}
Tools == {"fetch", "mark_seen", "reply", "forward"} \cup Curations
Listed == {"new", "cur"}
Places == {"absent", "archive", "trash"} \cup Listed

NoRequest ==
    [pc |-> "idle", tool |-> "fetch", ids |-> <<>>, bulk |-> FALSE, all |-> FALSE,
     to |-> <<>>, via |-> CHOOSE b \in Backends : TRUE, at |-> 1, path |-> "absent", total |-> 0,
     done |-> <<>>, failed |-> <<>>, message |-> NoMessage, answer |-> "none",
     self |-> CHOOSE b \in Backends : TRUE, asked |-> FALSE, cap |-> 0, stirred |-> FALSE]

(* The last four fields are history: whose sender a reply was derived for, whether
   the gate was passed, the cap the tool's own check went by, and whether a message
   of the batch changed its place since the measuring began. *)

Init ==
    /\ box \in [Backends -> [Ids -> {"absent", "new"}]]
    /\ \A b \in Backends : \A id \in Ids \ Mail[b] : box[b][id] = "absent"
    /\ current \in Backends /\ sender = current
    /\ req = [c \in Callers |-> NoRequest]
    /\ queued = {} /\ swaps = 0

-----------------------------------------------------------------------------
(* Helpers. *)

Set(c, r) == req' = [req EXCEPT ![c] = r]
Goto(c, to) == Set(c, [req[c] EXCEPT !.pc = to])

(* A request that is answered keeps what the properties read. *)
Over(r, how) == [r EXCEPT !.pc = "over", !.answer = how, !.at = 1, !.path = "absent", !.total = 0,
                          !.message = NoMessage]
Answer(c, how) == Set(c, Over(req[c], how))

(* CheckBulkIDsLimit *)
CheckBulkIDs(ids, limit) == Len(ids) \in 1 .. limit /\ Cardinality(Range(ids)) = Len(ids)

Lands(tool) == IF tool = "archive" THEN "archive" ELSE "trash"

(* Messages of a backend change their place: whoever is reading them notices
   nothing. *)
Stir(b, moved, r) ==
    [r EXCEPT !.stirred = @ \/ (r.via = b /\ r.pc \in {"locate", "stat", "work"} /\ moved \in Range(r.ids))]

-----------------------------------------------------------------------------
(* The tools (mcpserver/server.go). *)

\* A faulty variant: the cap is left to the service.
IdsUnchecked(c, bulk, ids) == TRUE

(* batchIDsLimit: a batch is checked before a human is asked. *)
batchIDs(c, bulk, ids) == bulk => CheckBulkIDs(ids, Cap[current])

(* A request comes in. *)
Receive(c) ==
    /\ req[c].pc = "idle"
    /\ \E tool \in Tools, bulk \in BOOLEAN, ids \in Batches, all \in BOOLEAN, to \in Others :
          /\ bulk => tool \notin {"reply", "forward"}
          /\ ~bulk => Len(ids) = 1
          /\ all => tool = "reply"
          /\ tool # "forward" => to = <<>>
          /\ LET r == [NoRequest EXCEPT !.tool = tool, !.bulk = bulk, !.ids = ids, !.all = all, !.to = to, !.cap = Cap[current]]
                 first == CASE tool \in {"reply", "forward"} -> "original"
                            [] tool \in Curations -> "gate"
                            [] OTHER -> "service"
             IN Set(c, IF batchIDs(c, bulk, ids) THEN [r EXCEPT !.pc = first] ELSE Over(r, "refused"))
    /\ UNCHANGED <<box, current, sender, queued, swaps>>

(* PlanReply and PlanForward: the original is read, from the backend the switchable
   mailbox has then ... *)
Original(c) ==
    LET r == req[c] IN
    /\ r.pc = "original"
    /\ IF box[current][r.ids[1]] \in Listed THEN Set(c, [r EXCEPT !.via = current, !.pc = "derive"])
       ELSE Answer(c, "refused")
    /\ UNCHANGED <<box, current, sender, queued, swaps>>

(* ... and the message derived, with the address of the sender the outbox has by
   then, before anybody is asked. *)
Derive(c) ==
    LET r == req[c]
        o == Header[r.via][r.ids[1]]
        m == IF r.tool = "reply" THEN DeriveReply(o, Self[sender], r.all) ELSE DeriveForward(o, r.to)
    IN
    /\ r.pc = "derive"
    /\ IF m.ok THEN Set(c, [r EXCEPT !.message = m, !.self = sender, !.pc = "gate"])
       ELSE Answer(c, "refused")
    /\ UNCHANGED <<box, current, sender, queued, swaps>>

(* ConfirmAction: the caller's flag or the human's answer approves; no answer at
   all is a refusal. *)
Gate(c) ==
    /\ req[c].pc = "gate"
    /\ \/ Set(c, [req[c] EXCEPT !.asked = TRUE,
                                !.pc = IF req[c].tool \in Curations THEN "service" ELSE "enqueue"])
       \/ Answer(c, "declined")
    /\ UNCHANGED <<box, current, sender, queued, swaps>>

\* A faulty variant: the message is derived once more after the gate.
DerivedAgain(r) ==
    LET o == Header[current][r.ids[1]]
    IN IF r.tool = "reply" THEN DeriveReply(o, Self[sender], r.all) ELSE DeriveForward(o, r.to)

(* What goes into the outbox is what the human was shown. *)
Planned(r) == r.message

(* Composer.Send, which the outbox may refuse. *)
Enqueue(c) ==
    /\ req[c].pc = "enqueue"
    /\ \/ queued' = queued \cup {[by |-> c, message |-> Planned(req[c])]} /\ Answer(c, "ok")
       \/ Answer(c, "refused") /\ UNCHANGED queued
    /\ UNCHANGED <<box, current, sender, swaps>>

-----------------------------------------------------------------------------
(* The service and the switchable mailbox. *)

(* Service.ReadMany and the like ask for the cap once more. *)
Service(c) ==
    /\ req[c].pc = "service"
    /\ IF req[c].bulk /\ ~CheckBulkIDs(req[c].ids, Cap[current]) THEN Answer(c, "refused")
       ELSE Goto(c, "switch")
    /\ UNCHANGED <<box, current, sender, queued, swaps>>

(* Switchable: the backend is looked up once; from here on a swap does not
   change where the request goes. *)
Switch(c) ==
    /\ req[c].pc = "switch"
    /\ Set(c, [req[c] EXCEPT !.via = current, !.pc = IF req[c].bulk THEN "limit" ELSE "work"])
    /\ UNCHANGED <<box, current, sender, queued, swaps>>

(* Its own look at the cap comes after that and may be another backend's. *)
Limit(c) ==
    /\ req[c].pc = "limit"
    /\ IF ~CheckBulkIDs(req[c].ids, Cap[current]) THEN Answer(c, "refused")
       ELSE Goto(c, IF req[c].tool = "fetch" THEN "locate" ELSE "work")
    /\ UNCHANGED <<box, current, sender, queued, swaps>>

-----------------------------------------------------------------------------
(* preflightFetch and Sizes: every id is located and then measured; what is not
   found, or no longer there, is not counted. *)

Locate(c) ==
    LET r == req[c] IN
    /\ r.pc = "locate"
    /\ Set(c, [r EXCEPT !.path = box[r.via][r.ids[r.at]], !.pc = "stat"])
    /\ UNCHANGED <<box, current, sender, queued, swaps>>

\* A faulty variant: each message is held against the budget alone.
MeasuredAlone(r) ==
    IF r.path \in Listed /\ box[r.via][r.ids[r.at]] = r.path THEN Size[r.ids[r.at]]
    ELSE r.total

(* The total after the id under way. *)
Measured(r) ==
    IF r.path \in Listed /\ box[r.via][r.ids[r.at]] = r.path THEN r.total + Size[r.ids[r.at]]
    ELSE r.total

(* A stat that fails on a file that is there refuses the batch. *)
Stat(c) ==
    LET r == [req[c] EXCEPT !.total = Measured(req[c])] IN
    /\ r.pc = "stat"
    /\ \/ Set(c, IF r.at < Len(r.ids) THEN [r EXCEPT !.at = @ + 1, !.pc = "locate"]
                 ELSE IF r.total > Budget THEN Over(r, "refused")
                 ELSE [r EXCEPT !.at = 1, !.pc = "work"])
       \/ r.path \in Listed /\ Answer(c, "refused")
    /\ UNCHANGED <<box, current, sender, queued, swaps>>

(* The place a tool's operation leaves a listed message in. *)
Moved(tool, place) ==
    CASE tool = "mark_seen" -> "cur"
      [] tool \in Curations -> Lands(tool)
      [] OTHER -> place

\* A faulty variant: a message that could not be worked on counts as done.
AlwaysDone(r, worked) == [r EXCEPT !.done = Append(@, r.ids[r.at])]

(* Succeed, Add and Fail: each id goes to one of the two lists. *)
Record(r, worked) ==
    IF worked THEN [r EXCEPT !.done = Append(@, r.ids[r.at])]
    ELSE [r EXCEPT !.failed = Append(@, r.ids[r.at])]

(* bulkEach and fetchEach, one id: an operation fails on an id it does not find,
   and may fail on one it does, and the loop goes on.  A single id's failure is
   the answer. *)
Work(c) ==
    LET r == req[c]
        id == r.ids[r.at]
        place == box[r.via][id]
        next(works) ==
            LET s == Record(r, works) IN
            IF r.at < Len(r.ids) THEN [s EXCEPT !.at = @ + 1]
            ELSE Over(s, IF works \/ r.bulk THEN "ok" ELSE "refused")
        there(works) == IF works THEN Moved(r.tool, place) ELSE place
    IN
    /\ r.pc = "work"
    /\ \E works \in BOOLEAN :
          /\ works => place \in Listed
          /\ box' = [box EXCEPT ![r.via][id] = there(works)]
          /\ req' = [d \in Callers |->
                        IF d = c THEN next(works)
                        ELSE IF there(works) # place THEN Stir(r.via, id, req[d]) ELSE req[d]]
    /\ UNCHANGED <<current, sender, queued, swaps>>

(* A caller hung up, which the loop sees before the next id and nothing before it
   looks for: what was done stays done, and travels with the error as far as the
   service's answer. *)
Cancel(c) ==
    /\ req[c].pc = "work" /\ req[c].bulk
    /\ Answer(c, "cancelled")
    /\ UNCHANGED <<box, current, sender, queued, swaps>>

-----------------------------------------------------------------------------
(* The environment. *)

(* A message is delivered. *)
Deliver(b, id) ==
    /\ id \in Mail[b] /\ box[b][id] = "absent"
    /\ box' = [box EXCEPT ![b][id] = "new"]
    /\ req' = [c \in Callers |-> Stir(b, id, req[c])]
    /\ UNCHANGED <<current, sender, queued, swaps>>

(* config.set swaps the mailbox ... *)
Swap(b) ==
    /\ swaps < MaxSwaps /\ b # current
    /\ current' = b /\ swaps' = swaps + 1
    /\ UNCHANGED <<box, sender, req, queued>>

(* ... and then the sender, if there is one to swap. *)
SwapSender ==
    /\ sender # current /\ sender' = current
    /\ UNCHANGED <<box, current, req, queued, swaps>>

Next ==
    \/ \E c \in Callers :
          \/ Receive(c) \/ Original(c) \/ Derive(c) \/ Gate(c) \/ Enqueue(c)
          \/ Service(c) \/ Switch(c) \/ Limit(c)
          \/ Locate(c) \/ Stat(c) \/ Work(c) \/ Cancel(c)
    \/ \E b \in Backends, id \in Ids : Deliver(b, id)
    \/ \E b \in Backends : Swap(b)
    \/ SwapSender

Spec == Init /\ [][Next]_vars

-----------------------------------------------------------------------------
(* Properties. *)

TypeOK ==
    /\ box \in [Backends -> [Ids -> Places]] /\ current \in Backends /\ sender \in Backends
    /\ swaps \in 0 .. MaxSwaps
    /\ DOMAIN req = Callers
    /\ \A c \in Callers :
          /\ req[c].pc \in {"idle", "original", "derive", "gate", "enqueue", "service", "switch", "limit",
                            "locate", "stat", "work", "over"}
          /\ req[c].answer \in {"none", "ok", "refused", "declined", "cancelled"}
          /\ req[c].tool \in Tools /\ req[c].via \in Backends /\ req[c].self \in Backends /\ req[c].path \in Places
          /\ req[c].total \in Nat /\ req[c].cap \in Nat /\ req[c].at \in Nat \ {0}
    /\ \A q \in queued : q.by \in Callers /\ q.message.ok

Curated(c, b, id) == req[c].tool \in Curations /\ req[c].via = b /\ id \in Range(req[c].done)

(* A finished batch accounts for each of its ids once. *)
BatchesAccounted ==
    \A c \in Callers :
        req[c].bulk /\ req[c].answer = "ok" =>
            \A id \in Range(req[c].ids) :
                Cardinality({i \in DOMAIN req[c].done : req[c].done[i] = id})
                + Cardinality({i \in DOMAIN req[c].failed : req[c].failed[i] = id}) = 1

(* A message has left the listing exactly if one request, and no more than one,
   reports to have curated it, to the place where the message is. *)
MovesReported ==
    \A b \in Backends, id \in Ids :
        LET by == {c \in Callers : Curated(c, b, id)} IN
        /\ Cardinality(by) <= 1
        /\ (by # {}) <=> box[b][id] \in {"archive", "trash"}
        /\ \A c \in by : Lands(req[c].tool) = box[b][id]

(* The per-id report tells what happened, whatever other requests, deliveries and
   swaps do meanwhile (NewBulkResult, Succeed and Fail in bulkEach; the "archived"
   and "failed" of bulkResponse). *)
ReportIsExact == BatchesAccounted /\ MovesReported

(* One approval moves no more than a human was asked about: a curation that moved
   anything was approved, moved ids of its own request alone, and no more of them
   than the bulk limit the tool's own check went by before the human was asked,
   though a swap may put a higher one in force before the service looks
   (batchIDsLimit before confirmCuration). *)
OneGestureBounds ==
    \A c \in Callers :
        req[c].tool \in Curations /\ req[c].done # <<>> =>
            /\ req[c].asked
            /\ Range(req[c].done) \subseteq Range(req[c].ids)
            /\ req[c].bulk => Len(req[c].done) <= req[c].cap

(* A batch of more bytes than the budget is only ever returned when a message of
   it changed its place after the measuring began: Sizes leaves out what it does
   not find, and what it does not find it may fetch (preflightFetch, MaxFetchBytes). *)
OnlyStirredMailEscapesTheBudget ==
    \A c \in Callers :
        req[c].tool = "fetch" /\ req[c].bulk /\ ~req[c].stirred =>
            FoldLeft(LAMBDA sum, id : sum + Size[id], 0, req[c].done) <= Budget

Specs(list) == {addrSpec(list[i]) : i \in DOMAIN list}

(* The audience of an original, as a set: everybody the mode reaches, but not the
   sender itself, and nobody in Cc who is in To. *)
Audience(r, header) ==
    IF r.tool = "forward" THEN [to |-> Specs(r.to), cc |-> {}]
    ELSE LET self == Self[r.self]
             to == Specs(Targets(header)) \ {self}
         IN [to |-> to,
             cc |-> IF r.all THEN Specs(header.to \o header.cc) \ (to \cup {self}) ELSE {}]

(* What reaches the outbox was approved, once for each request, and goes to exactly
   the audience that the tool and the original that was read for the human determine,
   each person once, whatever mailbox and sender have been swapped in before the
   human answered, with another original under the same id (DeriveReply,
   DeriveForward and the one gate of queue). *)
AudienceAsApproved ==
    \A q \in queued :
        LET r == req[q.by]
            m == q.message
            want == Audience(r, Header[r.via][r.ids[1]])
        IN /\ r.asked /\ r.answer = "ok"
           /\ Specs(m.to) = want.to /\ Specs(m.cc) = want.cc
           /\ Len(m.to) + Len(m.cc) = Cardinality(want.to) + Cardinality(want.cc)
           /\ \A other \in queued : other.by = q.by => other = q
=============================================================================
