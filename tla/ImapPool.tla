------------------------------ MODULE ImapPool ------------------------------
(***************************************************************************)
(* The connection handling of infrastructure/imap/imap.go: one Mailbox     *)
(* shared by concurrent callers, with one cached connection (idle) and one *)
(* note of the folder that was selected last (selected), both guarded by   *)
(* m.mu, which is never held across a command.                             *)
(*                                                                         *)
(* A call takes the cached connection or dials its own, runs the commands  *)
(* of one operation on it, and gives it back.  An operation is either one  *)
(* that works in the folder it finds selected (list, fetch, mark seen) or  *)
(* a move, which leaves the destination folder selected.  Every command is *)
(* a step that may fail: the server drops the session, answers NO or does  *)
(* not answer in time, or the caller's context ends.                       *)
(***************************************************************************)
EXTENDS Naturals, FiniteSets

CONSTANTS
  Callers,       \* concurrent calls on the Mailbox
  Conns,         \* connections the server can have open at once
  Configured,    \* cfg.Mailbox
  Destinations,  \* folders a message can be moved to
  None           \* no connection, no folder

Folders == {Configured} \cup Destinations

ASSUME FoldersAreDistinct == Configured \notin Destinations /\ None \notin Folders
ASSUME FolderNames == Folders \cap {"closed", "dropped"} = {}
ASSUME NoneIsNoConnection == None \notin Conns

VARIABLES
  idle,      \* the cached connection
  selected,  \* the folder noted by the last selectFolder
  session,   \* session[c]: the folder selected on connection c, as the server
             \* knows it, or "closed", or "dropped" by the server
  pc,        \* where each caller is
  op,        \* the locals of its call
  crossed    \* history: a move has run while another call was under way

vars == <<idle, selected, session, pc, op, crossed>>

NoCall == [conn |-> None, to |-> None]

Init ==
  /\ idle = None
  /\ selected = None
  /\ session = [c \in Conns |-> "closed"]
  /\ pc = [t \in Callers |-> "rest"]
  /\ op = [t \in Callers |-> NoCall]
  /\ crossed = FALSE

Goto(t, l) == pc' = [pc EXCEPT ![t] = l]

\* closeClient
Close(c) == session' = [session EXCEPT ![c] = "closed"]

\* The server still serves connection c.
Alive(c) == session[c] \notin {"closed", "dropped"}

-----------------------------------------------------------------------------
(* withConn.                                                                *)

\* A caller asks for an operation: a move when it has a destination.
Call(t, to) ==
  /\ pc[t] = "rest"
  /\ Goto(t, "take")
  /\ op' = [op EXCEPT ![t].to = to]
  /\ crossed' = (crossed \/ \E u \in Callers \ {t} :
                   pc[u] # "rest" /\ (to # None \/ op[u].to # None))
  /\ UNCHANGED <<idle, selected, session>>

\* takeIdle, first half, under mu: claim the cached connection.  An empty cache
\* or an expired connection also clears the note.
TakeNothing(t) ==
  /\ pc[t] = "take" /\ idle = None
  /\ selected' = None
  /\ Goto(t, "dial")
  /\ UNCHANGED <<idle, session, op, crossed>>

\* A faulty variant: the connection is used while it is still in the cache.
PeekIdle(t) ==
  /\ pc[t] = "take" /\ idle # None
  /\ op' = [op EXCEPT ![t].conn = idle]
  /\ Goto(t, "probe")
  /\ UNCHANGED <<idle, selected, session, crossed>>

TakeIdle(t) ==
  /\ pc[t] = "take" /\ idle # None
  /\ idle' = None
  /\ op' = [op EXCEPT ![t].conn = idle]
  /\ Goto(t, "probe")
  /\ UNCHANGED <<selected, session, crossed>>

TakeExpired(t) ==
  /\ pc[t] = "take" /\ idle # None
  /\ idle' = None
  /\ selected' = None
  /\ Close(idle)
  /\ Goto(t, "dial")
  /\ UNCHANGED <<op, crossed>>

\* The NOOP probe: a connection that does not answer is closed and replaced.
Probe(t) ==
  LET c == op[t].conn IN
  /\ pc[t] = "probe"
  /\ \/ /\ Alive(c)
        /\ Goto(t, "act")
        /\ UNCHANGED <<session, op>>
     \/ /\ Close(c)
        /\ op' = [op EXCEPT ![t].conn = None]
        /\ Goto(t, "dial")
  /\ UNCHANGED <<idle, selected, crossed>>

\* dial: connect, log in, select the configured folder; or fail with an error.
Dial(t) ==
  /\ pc[t] = "dial"
  /\ \/ \E c \in Conns :
          /\ session[c] = "closed"
          /\ session' = [session EXCEPT ![c] = Configured]
          /\ op' = [op EXCEPT ![t].conn = c]
          /\ Goto(t, "act")
     \/ /\ op' = [op EXCEPT ![t] = NoCall]
        /\ Goto(t, "rest")
        /\ UNCHANGED session
  /\ UNCHANGED <<idle, selected, crossed>>

\* A command fails: the operation returns an error and its connection is
\* closed; forgetting the note is a critical section of its own.
Fails(t) ==
  /\ Close(op[t].conn)
  /\ op' = [op EXCEPT ![t].conn = None]
  /\ Goto(t, "forget")

\* The operation's commands in the selected folder.  A move ends by selecting
\* its destination (selectFolder).
Act(t) ==
  LET c == op[t].conn IN
  /\ pc[t] = "act"
  /\ \/ /\ Alive(c) /\ op[t].to = None
        /\ Goto(t, "settle")
        /\ UNCHANGED <<session, op>>
     \/ /\ Alive(c) /\ op[t].to # None
        /\ session' = [session EXCEPT ![c] = op[t].to]
        /\ Goto(t, "note")
        /\ UNCHANGED op
     \/ Fails(t)
  /\ UNCHANGED <<idle, selected, crossed>>

\* selectFolder, under mu: note the folder.
Note(t) ==
  /\ pc[t] = "note"
  /\ selected' = op[t].to
  /\ Goto(t, "verify")
  /\ UNCHANGED <<idle, session, op, crossed>>

\* moveUIDSet verifies the move in the destination.
Verify(t) ==
  /\ pc[t] = "verify"
  /\ \/ Alive(op[t].conn) /\ Goto(t, "settle") /\ UNCHANGED <<session, op>>
     \/ Fails(t)
  /\ UNCHANGED <<idle, selected, crossed>>

\* The error path, under mu.
Forget(t) ==
  /\ pc[t] = "forget"
  /\ selected' = None
  /\ op' = [op EXCEPT ![t] = NoCall]
  /\ Goto(t, "rest")
  /\ UNCHANGED <<idle, session, crossed>>

\* A faulty variant: a move counts on the next user to select its own folder.
SettleAsIs(t) ==
  /\ pc[t] = "settle"
  /\ Goto(t, "cache")
  /\ UNCHANGED <<idle, selected, session, op, crossed>>

\* The success path reads the note, under mu, and restores the configured
\* folder if the note says that another one is selected.
Settle(t) ==
  /\ pc[t] = "settle"
  /\ Goto(t, IF selected \in {None, Configured} THEN "cache" ELSE "restore")
  /\ UNCHANGED <<idle, selected, session, op, crossed>>

Restore(t) ==
  LET c == op[t].conn IN
  /\ pc[t] = "restore"
  /\ \/ /\ Alive(c)
        /\ session' = [session EXCEPT ![c] = Configured]
        /\ Goto(t, "restored")
        /\ UNCHANGED op
     \/ Fails(t)
  /\ UNCHANGED <<idle, selected, crossed>>

Restored(t) ==
  /\ pc[t] = "restored"
  /\ selected' = None
  /\ Goto(t, "cache")
  /\ UNCHANGED <<idle, session, op, crossed>>

\* A faulty variant: the spare connection is dropped without being closed.
CacheOver(t) ==
  /\ pc[t] = "cache"
  /\ idle' = op[t].conn
  /\ op' = [op EXCEPT ![t] = NoCall]
  /\ Goto(t, "rest")
  /\ UNCHANGED <<selected, session, crossed>>

\* cache: keep the connection, or hang up when there is one already.
Cache(t) ==
  LET c == op[t].conn IN
  /\ pc[t] = "cache"
  /\ \/ idle = None /\ idle' = c /\ UNCHANGED session
     \/ idle # None /\ Close(c) /\ UNCHANGED idle
  /\ op' = [op EXCEPT ![t] = NoCall]
  /\ Goto(t, "rest")
  /\ UNCHANGED <<selected, crossed>>

\* The server ends a session: restart, idle timeout, a reset connection.
Drop(c) ==
  /\ Alive(c)
  /\ session' = [session EXCEPT ![c] = "dropped"]
  /\ UNCHANGED <<idle, selected, pc, op, crossed>>

-----------------------------------------------------------------------------

Step(t) ==
  \/ TakeNothing(t) \/ TakeIdle(t) \/ TakeExpired(t) \/ Probe(t) \/ Dial(t)
  \/ Act(t) \/ Note(t) \/ Verify(t) \/ Forget(t)
  \/ Settle(t) \/ Restore(t) \/ Restored(t) \/ Cache(t)

Next ==
  \/ \E t \in Callers : Step(t) \/ \E to \in Destinations \cup {None} : Call(t, to)
  \/ \E c \in Conns : Drop(c)

Spec == Init /\ [][Next]_vars

-----------------------------------------------------------------------------
(* Properties.                                                              *)

PCs == {"rest", "take", "probe", "dial", "act", "note", "verify", "forget",
        "settle", "restore", "restored", "cache"}

\* Every variable has its type.
TypeOK ==
  /\ idle \in Conns \cup {None}
  /\ selected \in Destinations \cup {None}
  /\ session \in [Conns -> Folders \cup {"closed", "dropped"}]
  /\ pc \in [Callers -> PCs]
  /\ op \in [Callers -> [conn : Conns \cup {None}, to : Destinations \cup {None}]]
  /\ crossed \in BOOLEAN

\* "A connection is either in the cache or owned by exactly one caller, never
\* both" (takeIdle), although m.mu is not held while it is used.
OwnedOnce == \A c \in Conns :
  /\ \A t \in Callers : op[t].conn = c => idle # c
  /\ \A t, u \in Callers : op[t].conn = c /\ op[u].conn = c => t = u

\* No connection leaks: one that is not closed is in the cache or in use, on
\* every error path, so that at rest at most one is open.
NoConnectionLeaks == \A c \in Conns : session[c] # "closed" =>
  c = idle \/ \E t \in Callers : op[t].conn = c

\* A caller about to run its commands finds the configured folder selected.
ConfiguredWhenActing == \A t \in Callers : pc[t] = "act" =>
  session[op[t].conn] \in {Configured, "dropped"}

\* What the code does give: a call acts in the configured folder as long as no
\* move has run beside another call.  Reads may overlap as they like, and a
\* move that runs alone cleans up after itself, whatever fails.
OnlyCrossedMovesStray == ~crossed => ConfiguredWhenActing

-----------------------------------------------------------------------------
(* The inductive invariant.                                                 *)

\* Where a call has a connection.
Using == {"probe", "act", "note", "verify", "settle", "restore", "restored", "cache"}

Clean(c) == session[c] \in {Configured, "dropped"}

\* A call has an open connection of its own exactly while it uses one.
UsesOK == \A t \in Callers :
  /\ pc[t] \in Using <=> op[t].conn # None
  /\ op[t].conn # None => session[op[t].conn] # "closed"
  /\ pc[t] = "rest" => op[t].to = None
  /\ pc[t] \in {"note", "verify"} => op[t].to # None

\* As long as no move has run beside another call, the note is that of the one
\* move under way, and every connection is on the configured folder but its.
Uncrossed ==
  /\ \A t, u \in Callers : t # u /\ pc[t] # "rest" /\ pc[u] # "rest" => op[t].to = None
  /\ idle # None => Clean(idle)
  /\ selected # None => \E t \in Callers :
       /\ pc[t] \in {"verify", "settle", "restore", "restored", "forget"}
       /\ op[t].to = selected
  /\ \A t \in Callers :
       /\ pc[t] \in {"probe", "act", "restored", "cache"} => Clean(op[t].conn)
       /\ pc[t] \in Using /\ op[t].to = None => Clean(op[t].conn)
       /\ pc[t] \in {"verify", "settle"} /\ op[t].to # None => selected = op[t].to

\* The inductive invariant: who has which connection, and what the note says of
\* it at each point of a call.
IInv ==
  /\ TypeOK
  /\ UsesOK
  /\ idle # None => session[idle] # "closed"
  /\ OwnedOnce
  /\ NoConnectionLeaks
  /\ ~crossed => Uncrossed
=============================================================================
