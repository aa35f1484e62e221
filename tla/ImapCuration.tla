---------------------------- MODULE ImapCuration ----------------------------
(***************************************************************************)
(* Curating mail on an IMAP server: archive, delete, move and mark seen,   *)
(* single and in bulk, and creating and deleting folders, each call run as *)
(* breaker(retry(timeout(call))).  src/infrastructure/imap/imap.go and     *)
(* src/infrastructure/resilience/resilience.go.                            *)
(*                                                                         *)
(* The server is shared: calls of briefkasten interleave with each other   *)
(* and with other mail clients and deliveries, one IMAP command at a time. *)
(* A connection can be lost at any command.  Losing the reply to a command *)
(* that was carried out is the command's step followed by Fault.           *)
(* Connections themselves are the subject of ImapPool.                     *)
(***************************************************************************)
EXTENDS FolderNames, FiniteSets

CONSTANTS
    Callers,      \* concurrent requests
    Mail,         \* messages in the inbox at the start; each is its own UID
    Incoming,     \* messages a server-side rule will deliver into a folder
    Listing,      \* every possible mailbox, in the order the server lists them
    InitFolders,  \* the sets of mailboxes that may exist at the start
    Declares,     \* mailbox -> SPECIAL-USE attributes
    Prefix,       \* where the personal namespace is rooted
    Targets,      \* [archive |-> target, trash |-> target], see FolderNames
    Requests,     \* the calls callers make: [op, ids, dest]
    Modes,        \* what servers can do, see moveUIDSet below
    Anonymous,    \* messages without a Message-ID
    MaxAttempts,  \* attempts per call, the first included
    TripAfter,    \* consecutive failures that open the breaker
    MaxCalls,     \* bound: calls made
    MaxMishaps,   \* bound: lost connections, refused commands, deadlines
    MaxOthers,    \* bound: acts of other clients and deliveries
    Nobody

Messages == Mail \cup Incoming
Names == Range(Listing)

Single == {"archive", "delete", "move", "seen"}
Bulk == {"archiveMany", "deleteMany", "moveMany", "seenMany"}
Curates == {"archive", "delete", "archiveMany", "deleteMany"}
Moves == {"move", "moveMany"}
Seens == {"seen", "seenMany"}
FolderOps == {"create", "drop"}

(* A copy of a message in a folder, named after what put it there: a UID the
   destination never gives twice. *)
Copies == [msg: Messages, by: Callers \cup {Nobody}, try: 0 .. MaxAttempts]

(* The rest of a fallback move, from the next command on, and whether its COPY was
   carried out. *)
Sent == [by: Callers, try: 0 .. MaxAttempts, uids: SUBSET Mail, next: {"flag", "expunge"},
         copied: BOOLEAN]

ASSUME CurationAssumption ==
    /\ Mail \cap Incoming = {} /\ Anonymous \subseteq Messages
    /\ Nobody \notin Callers
    /\ MaxAttempts \in Nat \ {0} /\ TripAfter \in Nat \ {0}
    /\ MaxCalls \in Nat /\ MaxMishaps \in Nat /\ MaxOthers \in Nat
    /\ Modes \subseteq {"move+uidplus", "move", "uidplus", "none"}
    /\ Requests \subseteq [op: Single \cup Bulk \cup FolderOps,
                           ids: SUBSET Mail, dest: Names]
    /\ \A folders \in InitFolders : Inbox \in folders /\ folders \subseteq Names
    /\ \A req \in Requests : req.op \in Single => req.ids # {}

(* Names are sequences of components, and Listing has every mailbox there can be:
   what callers name, what curation would make, what the configuration overrides. *)
ASSUME NamesAssumption ==
    /\ Listing \in Seq(Seq(STRING)) /\ Prefix \in Seq(STRING) /\ Inbox \in Names
    /\ Declares \in [Names -> SUBSET STRING]
    /\ Targets \in [{"archive", "trash"} -> [override: Names \cup {<<>>}, attr: STRING,
                                            leaf: STRING, aliases: Seq(STRING)]]
    /\ \A prefix \in {<<>>, Prefix} :
          /\ \A req \in Requests : namespaceFolder(prefix, req.dest) \in Names
          /\ \A kind \in DOMAIN Targets : Append(prefix, Targets[kind].leaf) \in Names

VARIABLES
    mode,      \* what this server can do
    folders,   \* the mailboxes that exist
    source,    \* the messages in the inbox
    filed,     \* mailbox -> copies it holds
    flagged,   \* inbox messages marked \Deleted by a fallback move
    adrift,    \* commands of fallback moves that were sent and nobody awaits, see Sent
    seen,      \* messages marked \Seen
    call,      \* caller -> its call, see Calls
    report,    \* caller -> what its last call answered
    fails,     \* consecutive failures the breaker counts; TripAfter is open
    started, mishaps, others,                        \* the bounds' counters
    taken, late, destroyed, forsaken, alone, blamed, orphaned   \* what happened: history

server == <<mode, folders, source, filed, flagged, adrift, seen>>
counters == <<started, mishaps, others>>
history == <<taken, late, destroyed, forsaken, alone, blamed, orphaned>>
vars == <<server, call, report, fails, counters, history>>

Steps == {"idle", "list", "create", "locate", "mids", "move", "copy", "flag",
          "expunge", "checkSource", "checkDest", "same", "store", "count", "remove"}

Verdicts == {"none", "done", "badid", "badfolder", "notempty", "protected",
             "fault", "deadline", "canceled", "open"}

NoRequest == [op |-> "create", ids |-> {}, dest |-> Inbox]

(* folder is the destination, work the UIDs acted on, sent those the server
   answered a COPYUID mapping for, bad those reported as not held, misled that
   a NAMESPACE command was refused. *)
Calls == [pc: Steps, req: Requests \cup {NoRequest}, try: 0 .. MaxAttempts,
          folder: Names, work: SUBSET Mail, sent: SUBSET Mail,
          bad: SUBSET Mail, misled: BOOLEAN]

NoCall == [pc |-> "idle", req |-> NoRequest, try |-> 0, folder |-> Inbox,
           work |-> {}, sent |-> {}, bad |-> {}, misled |-> FALSE]

(* to is the destination of what was done. *)
NoReport == [req |-> NoRequest, verdict |-> "none", ok |-> {}, bad |-> {}, held |-> {},
             to |-> Inbox]

Reports == [req: Requests \cup {NoRequest}, verdict: Verdicts,
            ok: SUBSET Mail, bad: SUBSET Mail, held: SUBSET Mail, to: Names]

Init ==
    /\ mode \in Modes
    /\ folders \in InitFolders
    /\ source = Mail
    /\ filed = [name \in Names |-> {}]
    /\ flagged = {} /\ adrift = {} /\ seen = {}
    /\ call = [c \in Callers |-> NoCall]
    /\ report = [c \in Callers |-> NoReport]
    /\ fails = 0
    /\ started = 0 /\ mishaps = 0 /\ others = 0
    /\ taken = {} /\ late = {} /\ destroyed = {} /\ forsaken = {}
    /\ alone = [c \in Callers |-> FALSE]
    /\ blamed = {} /\ orphaned = {}

-----------------------------------------------------------------------------
(* The resilience decorator. *)

CallerMistakes == {"badid", "badfolder", "notempty", "protected"}

\* A faulty variant: refused folder requests are held against it.
IsSuccessfulButFolders(verdict) == verdict \in {"badid", "done", "canceled"}

(* What the breaker does not hold against the server. *)
IsSuccessful(verdict) == verdict \in CallerMistakes \cup {"done", "canceled"}

NonRetryable(verdict) == verdict \in CallerMistakes \cup {"deadline", "canceled"}

First(op) == IF op \in Seens THEN "locate" ELSE "list"

Attempt(req, try) == [NoCall EXCEPT !.pc = First(req.op), !.req = req, !.try = try,
                                    !.work = req.ids]

Running(c) == call[c].pc # "idle"

(* A call enters the pipeline: the breaker is closed and runs it.  held, in the
   report, is what of it the inbox held at that moment. *)
Start(c) ==
    /\ ~Running(c) /\ started < MaxCalls /\ fails < TripAfter
    /\ \E req \in Requests :
          /\ call' = [call EXCEPT ![c] = Attempt(req, 1)]
          /\ report' = [report EXCEPT ![c] = [NoReport EXCEPT !.req = req,
                                                              !.held = req.ids \cap source]]
    /\ started' = started + 1
    /\ alone' = [x \in Callers |-> x = c /\ \A y \in Callers : ~Running(y)]
    /\ UNCHANGED <<server, fails, mishaps, others, taken, late, destroyed, forsaken, blamed, orphaned>>

(* The breaker is open: the call fails without reaching the server. *)
FastFail(c) ==
    /\ ~Running(c) /\ started < MaxCalls /\ fails = TripAfter
    /\ report' = [report EXCEPT ![c] = [NoReport EXCEPT !.verdict = "open"]]
    /\ started' = started + 1
    /\ UNCHANGED <<server, call, fails, mishaps, others, history>>

(* The breaker lets one call through again after a while. *)
Cooldown ==
    /\ fails = TripAfter
    /\ fails' = TripAfter - 1
    /\ UNCHANGED <<server, call, report, counters, history>>

(* The attempt of c ends with a verdict on the call and, for a batch, one on
   each id: it is retried from the start, its partial answer forgotten, or the
   pipeline answers the caller and tells the breaker. *)
Settle(c, verdict, ok, bad, undisturbed) ==
    LET this == call[c]
        retried == ~NonRetryable(verdict) /\ verdict # "done" /\ this.try < MaxAttempts
        counted == ~retried /\ ~IsSuccessful(verdict)
    IN  /\ call' = [call EXCEPT ![c] = IF retried THEN Attempt(this.req, this.try + 1)
                                                  ELSE NoCall]
        /\ report' = IF retried THEN report
                     ELSE [report EXCEPT ![c].verdict = verdict,
                                         ![c].ok = IF verdict = "done" THEN ok ELSE {},
                                         ![c].bad = bad, ![c].to = this.folder]
        /\ fails' = CASE retried -> fails
                      [] counted -> Min({fails + 1, TripAfter})
                      [] OTHER -> 0
        /\ alone' = [alone EXCEPT ![c] = retried /\ undisturbed]
        /\ blamed' = IF counted /\ undisturbed
                     THEN blamed \cup {[req |-> this.req, stale |-> this.req.ids \ report[c].held,
                                         nowhere |-> this.folder \notin folders]}
                     ELSE blamed

Done(c) == Settle(c, "done", call[c].work, call[c].bad, alone[c])
Refuse(c, verdict) ==
    Settle(c, verdict, {}, IF verdict = "badid" THEN call[c].req.ids ELSE {}, alone[c])

(* The next command of c's attempt. *)
Proceed(c, next) ==
    /\ call' = [call EXCEPT ![c] = next]
    /\ UNCHANGED <<report, fails, alone, blamed>>

At(c, pc) == call[c].pc = pc

-----------------------------------------------------------------------------
(* Resolution: LIST and NAMESPACE. *)

(* The part of the listing that exists, in its order. *)
ListOf(names) == Restrict(Listing, {i \in DOMAIN Listing : Listing[i] \in names})
listAll == ListOf(folders)

(* A refused NAMESPACE is read as a namespace rooted at the top. *)
personalPrefix(refused) == IF refused THEN <<>> ELSE Prefix

Destination(kind, prefix) ==
    destinationFor(Targets[kind], listAll, prefix, Declares)

Plan(prefix) == [kind \in DOMAIN Targets |-> Destination(kind, prefix)]

TargetOf(op) == IF op \in {"archive", "archiveMany"} THEN "archive" ELSE "trash"

(* archive and delete, single and bulk: settle the folder, then create it or
   look for the messages. *)
ResolveCuration(c, prefix, misled) ==
    LET this == call[c]
        to == Destination(TargetOf(this.req.op), prefix)
    IN  /\ this.req.op \in Curates
        /\ Proceed(c, [this EXCEPT !.folder = to.folder, !.misled = misled,
                         !.pc = IF to.route = "create" THEN "create" ELSE "locate"])

AfterLocating(this) ==
    IF this.folder = Inbox THEN "same"
    ELSE IF mode = "move" THEN "mids"
    ELSE IF mode = "uidplus" THEN "copy"
    ELSE "move"

(* move takes a folder that exists.  A single move does not look for the
   message before it moves it; a batch does. *)
ResolveMove(c, prefix, misled) ==
    LET this == call[c]
        full == namespaceFolder(prefix, this.req.dest)
        next == [this EXCEPT !.folder = full, !.misled = misled]
    IN  /\ this.req.op \in Moves
        /\ IF full \notin folders THEN Refuse(c, "badfolder")
           ELSE Proceed(c, [next EXCEPT !.pc = IF this.req.op = "move"
                                               THEN AfterLocating(next) ELSE "locate"])

ResolveNew(c, prefix, misled) ==
    LET this == call[c]
        full == namespaceFolder(prefix, this.req.dest)
    IN  /\ this.req.op = "create"
        /\ IF full \in folders THEN Done(c)
           ELSE Proceed(c, [this EXCEPT !.folder = full, !.pc = "create", !.misled = misled])

(* Deleting a folder: it exists, it is neither the inbox nor a destination of
   curation, it has no children. *)
ResolveDrop(c, prefix, misled) ==
    LET this == call[c]
        full == namespaceFolder(prefix, this.req.dest)
    IN  /\ this.req.op = "drop"
        /\ IF full \notin folders THEN Refuse(c, "badfolder")
           ELSE IF ~CheckFolderDeletable(full, Plan(prefix)) THEN Refuse(c, "protected")
           ELSE IF childrenOf(listAll, full, TRUE) # {} THEN Refuse(c, "notempty")
           ELSE Proceed(c, [this EXCEPT !.folder = full, !.pc = "count", !.misled = misled])

(* An attempt opens with LIST and NAMESPACE; refused is NAMESPACE answered NO,
   which no operation reports. *)
Resolve(c) ==
    /\ At(c, "list")
    /\ \E refused \in BOOLEAN :
          /\ refused => mishaps < MaxMishaps
          /\ \/ ResolveCuration(c, personalPrefix(refused), refused)
             \/ ResolveMove(c, personalPrefix(refused), refused)
             \/ ResolveNew(c, personalPrefix(refused), refused)
             \/ ResolveDrop(c, personalPrefix(refused), refused)
          /\ mishaps' = IF refused THEN mishaps + 1 ELSE mishaps
    /\ UNCHANGED <<server, started, others, taken, late, destroyed, forsaken, orphaned>>

(* CREATE.  Only CreateFolder takes ALREADYEXISTS for success. *)
Create(c) ==
    LET this == call[c] IN
    /\ At(c, "create")
    /\ folders' = folders \cup {this.folder}
    /\ IF this.req.op = "create" THEN Done(c)
       ELSE IF this.folder \in folders THEN Refuse(c, "fault")
       ELSE Proceed(c, [this EXCEPT !.pc = "locate"])
    /\ UNCHANGED <<mode, source, filed, flagged, adrift, seen, counters,
                   taken, late, destroyed, forsaken, orphaned>>

-----------------------------------------------------------------------------
(* Finding the messages, and marking them seen. *)

locateMany(c) ==
    LET this == call[c]
        present == this.work \cap source
        next == IF this.req.op \in Seens THEN "store" ELSE AfterLocating(this)
    IN  /\ At(c, "locate")
        /\ IF this.req.op \in Single /\ present = {} THEN Refuse(c, "badid")
           ELSE IF present = {} THEN Settle(c, "done", {}, this.work, alone[c])
           ELSE Proceed(c, [this EXCEPT !.work = present, !.bad = this.work \ present,
                                        !.pc = next])
        /\ UNCHANGED <<server, counters, taken, late, destroyed, forsaken, orphaned>>

(* STORE +FLAGS \Seen is answered OK for a UID the inbox no longer holds. *)
storeSeen(c) ==
    /\ At(c, "store")
    /\ seen' = seen \cup (call[c].work \cap source)
    /\ Done(c)
    /\ UNCHANGED <<mode, folders, source, filed, flagged, adrift, counters,
                   taken, late, destroyed, forsaken, orphaned>>

(* The destination is the inbox itself: a batch that found its messages is
   done, a single one looks for its message (again). *)
AlreadyThere(c) ==
    LET this == call[c] IN
    /\ At(c, "same")
    /\ IF this.req.op \in Bulk \/ this.work \subseteq source
       THEN Done(c) ELSE Refuse(c, "fault")
    /\ UNCHANGED <<server, counters, taken, late, destroyed, forsaken, orphaned>>

-----------------------------------------------------------------------------
(* The move itself. *)

Copy(m, c) == [msg |-> m, by |-> c, try |-> call[c].try]

Arriving(name, copies) ==
    /\ filed' = [filed EXCEPT ![name] = @ \cup copies]
    /\ late' = IF \E x \in Callers : At(x, "remove") /\ call[x].folder = name
               THEN late \cup copies ELSE late

(* Without UIDPLUS the server names no destination UIDs: every message must
   have a Message-ID to be looked up by afterwards. *)
fetchMessageIDs(c) ==
    LET this == call[c] IN
    /\ At(c, "mids")
    /\ IF this.work \subseteq source \ Anonymous
       THEN Proceed(c, [this EXCEPT !.pc = "move"]) ELSE Refuse(c, "fault")
    /\ UNCHANGED <<server, counters, taken, late, destroyed, forsaken, orphaned>>

(* UID MOVE: atomic at the server, for those of the UIDs it holds.  A server
   without MOVE and UIDPLUS is refused before it is sent anything. *)
MoveMessages(c) ==
    LET this == call[c]
        moved == this.work \cap source
    IN  /\ At(c, "move")
        /\ IF mode = "none" \/ this.folder \notin folders
           THEN Refuse(c, "fault") /\ UNCHANGED <<source, filed, flagged, late>>
           ELSE /\ source' = source \ moved
                /\ flagged' = flagged \ moved
                /\ Arriving(this.folder, {Copy(m, c) : m \in moved})
                /\ Proceed(c, [this EXCEPT !.sent = IF mode = "move" THEN {} ELSE moved,
                                           !.pc = "checkSource"])
        /\ UNCHANGED <<mode, folders, adrift, seen, counters, taken, destroyed, forsaken, orphaned>>

(* The library's fallback for UIDPLUS alone: COPY, STORE \Deleted and UID EXPUNGE of
   the same UIDs are sent together, and then awaited one after the other.  A server
   that refuses the COPY, for want of the folder or of room, carries out the rest. *)
Abandon(c, next, copied) ==
    adrift' = adrift \cup {[by |-> c, try |-> call[c].try, uids |-> call[c].work,
                            next |-> next, copied |-> copied]}

\* A faulty variant: on a server without MOVE the messages are not copied first.
UncopiedMessages(c) ==
    /\ At(c, "copy")
    /\ Proceed(c, [call[c] EXCEPT !.pc = "flag"])
    /\ UNCHANGED <<server, counters, taken, late, destroyed, forsaken, orphaned>>

CopyMessages(c) ==
    LET this == call[c]
        copied == this.work \cap source
    IN  /\ At(c, "copy")
        /\ \/ /\ this.folder \in folders
              /\ Arriving(this.folder, {Copy(m, c) : m \in copied})
              /\ Proceed(c, [this EXCEPT !.sent = copied, !.pc = "flag"])
              /\ UNCHANGED <<adrift, mishaps>>
           \/ \E full \in BOOLEAN :
                 /\ full => mishaps < MaxMishaps
                 /\ full \/ this.folder \notin folders
                 /\ Settle(c, "fault", {}, {}, alone[c] /\ ~full)
                 /\ Abandon(c, "flag", FALSE)
                 /\ mishaps' = IF full THEN mishaps + 1 ELSE mishaps
                 /\ UNCHANGED <<filed, late>>
        /\ UNCHANGED <<mode, folders, source, flagged, seen, started, others,
                       taken, destroyed, forsaken, orphaned>>

FlagDeleted(c) ==
    /\ At(c, "flag")
    /\ flagged' = flagged \cup (call[c].work \cap source)
    /\ Proceed(c, [call[c] EXCEPT !.pc = "expunge"])
    /\ UNCHANGED <<mode, folders, source, filed, adrift, seen, counters,
                   taken, late, destroyed, forsaken, orphaned>>

ExpungeMoved(c) ==
    LET removed == call[c].work \cap flagged IN
    /\ At(c, "expunge")
    /\ source' = source \ removed
    /\ flagged' = flagged \ removed
    /\ Proceed(c, [call[c] EXCEPT !.pc = "checkSource"])
    /\ UNCHANGED <<mode, folders, filed, adrift, seen, counters,
                   taken, late, destroyed, forsaken, orphaned>>

\* A faulty variant: the source is not looked at again.
UnverifiedSource(c) ==
    /\ At(c, "checkSource")
    /\ Proceed(c, [call[c] EXCEPT !.pc = "checkDest"])
    /\ UNCHANGED <<server, counters, taken, late, destroyed, forsaken, orphaned>>

(* The move counts only once the source UIDs are gone ... *)
VerifySource(c) ==
    LET this == call[c] IN
    /\ At(c, "checkSource")
    /\ IF this.work \cap source # {} THEN Refuse(c, "fault")
       ELSE Proceed(c, [this EXCEPT !.pc = "checkDest"])
    /\ UNCHANGED <<server, counters, taken, late, destroyed, forsaken, orphaned>>

(* ... and the destination holds the messages: by the UIDs the server answered,
   or, when it answered none, by Message-ID.  Only a server without UIDPLUS had
   the Message-IDs read before the move. *)
VerifyDestination(c) ==
    LET this == call[c]
        held == filed[this.folder]
        byUID == this.sent = this.work /\ \A m \in this.sent : Copy(m, c) \in held
        byMessageID == mode = "move" /\ this.work \subseteq {k.msg : k \in held}
    IN  /\ At(c, "checkDest")
        /\ IF /\ this.folder \in folders
              /\ IF this.sent # {} THEN byUID ELSE byMessageID
           THEN Done(c) ELSE Refuse(c, "fault")
        /\ UNCHANGED <<server, counters, taken, late, destroyed, forsaken, orphaned>>

-----------------------------------------------------------------------------
(* Deleting a folder: count its messages, and delete it in the next command. *)

folderMessages(c) ==
    LET this == call[c] IN
    /\ At(c, "count")
    /\ IF this.folder \notin folders THEN Refuse(c, "fault")
       ELSE IF filed[this.folder] # {} THEN Refuse(c, "notempty")
       ELSE Proceed(c, [this EXCEPT !.pc = "remove"])
    /\ UNCHANGED <<server, counters, taken, late, destroyed, forsaken, orphaned>>

(* DELETE takes the folder and whatever it holds by then. *)
DeleteMailbox(c) ==
    LET full == call[c].folder IN
    /\ At(c, "remove")
    /\ IF full \notin folders
       THEN Refuse(c, "fault") /\ UNCHANGED <<folders, filed, destroyed, orphaned>>
       ELSE /\ folders' = folders \ {full}
            /\ destroyed' = destroyed \cup filed[full]
            /\ filed' = [filed EXCEPT ![full] = {}]
            /\ orphaned' = IF ~call[c].misled THEN orphaned
                           ELSE orphaned \cup {kind \in DOMAIN Targets :
                                                 Destination(kind, Prefix).folder = full}
            /\ Done(c)
    /\ UNCHANGED <<mode, source, flagged, adrift, seen, counters, taken, late, forsaken>>

-----------------------------------------------------------------------------
(* What goes wrong around a call. *)

(* What of a fallback move is sent by then may still be carried out. *)
Mishap(c, verdict) ==
    /\ Running(c) /\ mishaps < MaxMishaps
    /\ mishaps' = mishaps + 1
    /\ Settle(c, verdict, {}, {}, FALSE)
    /\ IF call[c].pc \in {"flag", "expunge"}
       THEN \E next \in {call[c].pc, "expunge"} : Abandon(c, next, TRUE)
       ELSE UNCHANGED adrift
    /\ UNCHANGED <<mode, folders, source, filed, flagged, seen, started, others,
                   taken, late, destroyed, forsaken, orphaned>>

(* The connection is lost or the server refuses a command: a backend fault. *)
Fault(c) == Mishap(c, "fault")

(* The attempt's time or the caller's deadline is over. *)
Deadline(c) == Mishap(c, "deadline")

(* The caller hangs up. *)
Cancel(c) == Mishap(c, "canceled")

(* The server comes to commands nobody awaits; they are company for every call. *)
Drift(a) ==
    /\ \/ /\ a.next = "flag"
          /\ flagged' = flagged \cup (a.uids \cap source)
          /\ forsaken' = IF a.copied THEN forsaken ELSE forsaken \cup (a.uids \cap source)
          /\ adrift' = (adrift \ {a}) \cup {[a EXCEPT !.next = "expunge"]}
          /\ UNCHANGED source
       \/ /\ a.next = "expunge"
          /\ source' = source \ (a.uids \cap flagged)
          /\ flagged' = flagged \ a.uids
          /\ adrift' = adrift \ {a}
          /\ UNCHANGED forsaken
    /\ alone' = [c \in Callers |-> FALSE]
    /\ UNCHANGED <<mode, folders, filed, seen, call, report, fails, counters,
                   taken, late, destroyed, blamed, orphaned>>

(* What other clients and server-side rules do meanwhile. *)
Other ==
    /\ others < MaxOthers
    /\ others' = others + 1
    /\ alone' = [c \in Callers |-> FALSE]
    /\ UNCHANGED <<mode, folders, adrift, seen, call, report, fails, started, mishaps,
                   destroyed, forsaken, blamed, orphaned>>

Delivered == {k.msg : k \in UNION {filed[name] : name \in Names} \cup destroyed}

Deliver ==
    /\ Other
    /\ \E m \in Incoming \ (Delivered \cup taken), name \in folders \ {Inbox} :
          Arriving(name, {[msg |-> m, by |-> Nobody, try |-> 0]})
    /\ UNCHANGED <<source, flagged, taken>>

(* Another client moves a message out of sight, from the inbox or a folder. *)
TakeAway ==
    /\ Other
    /\ \/ \E m \in source :
             /\ source' = source \ {m} /\ flagged' = flagged \ {m}
             /\ taken' = taken \cup {m}
             /\ UNCHANGED filed
       \/ \E name \in folders, k \in Copies :
             /\ k \in filed[name]
             /\ filed' = [filed EXCEPT ![name] = @ \ {k}]
             /\ taken' = taken \cup {k.msg}
             /\ UNCHANGED <<source, flagged>>
    /\ UNCHANGED <<late>>

(* Another client clears \Deleted, or expunges whatever carries it. *)
Undelete ==
    /\ Other
    /\ \E m \in flagged : flagged' = flagged \ {m}
    /\ UNCHANGED <<source, filed, taken, late>>

Expunge ==
    /\ Other /\ flagged # {}
    /\ source' = source \ flagged
    /\ flagged' = {}
    /\ UNCHANGED <<filed, taken, late>>

Step(c) ==
    \/ Start(c) \/ FastFail(c) \/ Resolve(c) \/ Create(c)
    \/ locateMany(c) \/ storeSeen(c) \/ AlreadyThere(c) \/ fetchMessageIDs(c)
    \/ MoveMessages(c) \/ CopyMessages(c) \/ FlagDeleted(c) \/ ExpungeMoved(c)
    \/ VerifySource(c) \/ VerifyDestination(c)
    \/ folderMessages(c) \/ DeleteMailbox(c)
    \/ Fault(c) \/ Deadline(c) \/ Cancel(c)

Next ==
    \/ \E c \in Callers : Step(c)
    \/ \E a \in adrift : Drift(a)
    \/ Cooldown \/ Deliver \/ TakeAway \/ Undelete \/ Expunge

Spec == Init /\ [][Next]_vars

-----------------------------------------------------------------------------
(* Properties. *)

(* Every variable keeps its shape (the model's state, all of it). *)
TypeOK ==
    /\ mode \in Modes
    /\ folders \subseteq Names
    /\ source \subseteq Mail
    /\ filed \in [Names -> SUBSET Copies]
    /\ flagged \subseteq source /\ adrift \subseteq Sent /\ seen \subseteq Mail
    /\ call \in [Callers -> Calls] /\ report \in [Callers -> Reports]
    /\ alone \in [Callers -> BOOLEAN]
    /\ fails \in 0 .. TripAfter
    /\ started \in 0 .. MaxCalls /\ mishaps \in 0 .. MaxMishaps /\ others \in 0 .. MaxOthers
    /\ taken \subseteq Messages
    /\ late \subseteq Copies /\ destroyed \subseteq Copies /\ forsaken \subseteq Mail
    /\ orphaned \subseteq DOMAIN Targets

Held(m) == m \in source \/ \E name \in folders : \E k \in filed[name] : k.msg = m

(* What is neither in the inbox nor in a folder, and was neither taken away by another
   client nor deleted along with a folder. *)
Lost == {m \in Mail : ~Held(m) /\ m \notin taken /\ ~\E k \in destroyed : k.msg = m}

(* "The message remains recoverable in that folder", "the source entry is removed only
   after the destination is verified" (mcpserver/server.go, imap.go Move): no call loses
   a message. *)
NeverLost == Lost = {}

(* No call loses a message, but for those that a fallback move marked \Deleted after
   the server had refused to copy them; and a message goes down only with a folder it
   arrived in between the count that found the folder empty and the DELETE (imap.go
   DeleteFolder, moveUIDSet and the COPY, STORE, EXPUNGE fallback). *)
NothingLost == Lost \subseteq forsaken /\ destroyed \subseteq late

(* What a call answers about a message is true of the inbox, which never gets a
   UID back: a message reported moved has left it (unless that is where it was to
   go), a message reported as not
   held is not there, whatever an earlier attempt of the same call did to it, and
   a message reported marked carries the flag or has left (moveUIDSet's
   verification, locateMany, storeSeen, the retry after a lost reply). *)
ReportsAreTrue ==
    \A c \in Callers :
        LET r == report[c]
            gone == {m \in Mail : m \notin source}
        IN  /\ r.req.op \in Curates \cup Moves =>
                  r.ok \subseteq gone \/ r.to = Inbox
            /\ r.req.op \in Seens => r.ok \subseteq seen \cup gone
            /\ r.bad \subseteq gone

(* A folder that archive or delete files into is deleted only by a call whose
   NAMESPACE was refused, which takes the namespace for rooted at the top and
   protects the wrong folder, or after such a call deleted a destination: then a
   folder that was checked while a better one existed has taken its place
   (imap.go personalPrefix, DeleteFolder). *)
DestinationsSurvive ==
    [][\A c \in Callers :
          At(c, "remove") /\ folders' = folders \ {call[c].folder} /\ folders' # folders
              => \/ call[c].misled
                 \/ \A kind \in DOMAIN Targets \ orphaned :
                       Destination(kind, Prefix).folder # call[c].folder]_vars

(* A call that met no mishap, with nobody else at work, is held against the
   server only where the code has no caller's mistake for it: the single move of
   a message that is not there, a server that cannot move safely, a message
   without a Message-ID on a server without UIDPLUS, and a configured destination
   that does not exist (resilience.go Wrap). *)
OnlyUnclassedMistakesCount ==
    \A b \in blamed :
        \/ b.req.op = "move" /\ b.stale # {}
        \/ mode = "none" \/ (mode = "move" /\ b.req.ids \cap Anonymous # {})
        \/ /\ b.req.op \in Curates /\ b.nowhere
           /\ Targets[TargetOf(b.req.op)].override # <<>>

=============================================================================
