------------------------------- MODULE Maildir -------------------------------
(***************************************************************************)
(* The directory backend, infrastructure/maildir/maildir.go: a maildir of  *)
(* files in new/ (unread) and cur/ (read), folders as subdirectories, and  *)
(* the hidden maildir that curation files into.  There is no lock: users   *)
(* (requests, CLI processes) and delivery agents meet in the file system,  *)
(* so every system call is a step of its own.                              *)
(*                                                                         *)
(* A message is known by its file name, which whoever delivers it chooses. *)
(***************************************************************************)
EXTENDS FiniteSets

CONSTANTS
  Users,       \* concurrent callers
  Msgs,        \* messages that may be delivered
  Names,       \* file names
  FreshNames,  \* whether whoever delivers never uses a name twice; if not, it only
               \* looks whether new/ holds the name
  Inbox,       \* the root maildir
  Folders,     \* names of user folders
  Curated,     \* hidden maildirs curation files into (.archive, .trash)
  None

ASSUME FoldersAreDistinct ==
  /\ Inbox \notin Folders \cup Curated
  /\ Folders \cap Curated = {}
ASSUME NoneIsNothing == None \notin Msgs \cup Names \cup Folders \cup Curated \cup {Inbox}
ASSUME NamesAreFreshOrNot == FreshNames \in BOOLEAN

\* The maildirs a caller can name, and those curation makes below them: the
\* hidden maildir belongs to the folder it is asked of.
Top == {Inbox} \cup Folders \cup Curated
Nested == (Top \ {Inbox}) \X Curated
Dirs == Top \cup Nested
Hidden(d, c) == IF d = Inbox THEN c ELSE <<d, c>>

Subs == {"new", "cur", "tmp"}

VARIABLES
  files,      \* the message files: <<dir, sub, name, message>>
  tree,       \* the subdirectories that exist; <<dir, ".">> is the maildir itself
  delivered,  \* history: messages that have reached a new/
  used,       \* history: names that have been used
  pc,         \* where each user's call is
  op,         \* the locals of the call
  gone        \* history: users whose message was not in its folder at some time of
              \* the call, or whose folder was being removed

vars == <<files, tree, delivered, used, pc, op, gone>>
history == <<delivered, used>>

NoCall == [kind |-> None, dir |-> None, name |-> None, to |-> None, sub |-> "new", listed |-> {}]

\* The message at a path, if there is one.
Holds(d, s, n) == \E m \in Msgs : <<d, s, n, m>> \in files
In(d, n) == Holds(d, "new", n) \/ Holds(d, "cur", n)
Empty(d, s) == ~\E n \in Names : Holds(d, s, n)

Goto(t, l) == pc' = [pc EXCEPT ![t] = l]
Finish(t) == Goto(t, "rest") /\ op' = [op EXCEPT ![t] = NoCall]
Excuse(us) == gone' = {t \in gone \cup us : pc'[t] # "rest"}

-----------------------------------------------------------------------------
(* System calls.                                                            *)

\* rename(2), within the maildirs: replaces what it finds at the target.
CanRename(d, s, n, d2, s2) == Holds(d, s, n) /\ <<d2, s2>> \in tree
Rename(d, s, n, d2, s2) ==
  /\ files' = {f \in files : <<f[1], f[2], f[3]>> \notin {<<d, s, n>>, <<d2, s2, n>>}}
              \cup {<<d2, s2, n, m>> : m \in {m \in Msgs : <<d, s, n, m>> \in files}}

\* MkdirAll of a subdirectory.
MkdirAll(d, s) ==
  tree' = tree \cup {<<d, ".">>, <<d, s>>} \cup (IF d \in Nested THEN {<<d[1], ".">>} ELSE {})

\* What rmdir(2) finds in a directory: files, or directories below it.
Occupied(d, s) ==
  IF s = "." THEN (\E r \in Subs : <<d, r>> \in tree) \/ \E c \in Curated : <<Hidden(d, c), ".">> \in tree
  ELSE ~Empty(d, s)

Init ==
  /\ files = {}
  /\ tree = {Inbox} \X {".", "new", "cur", "tmp"}
  /\ delivered = {} /\ used = {}
  /\ pc = [t \in Users |-> "rest"]
  /\ op = [t \in Users |-> NoCall]
  /\ gone = {}

-----------------------------------------------------------------------------
(* Delivery: staged in tmp/, then renamed into new/ (maildir.Sender, and any *)
(* other agent).                                                            *)

Stage(d, n, m) ==
  /\ <<d, "tmp">> \in tree
  /\ m \notin delivered /\ ~\E f \in files : f[4] = m
  /\ IF FreshNames THEN n \notin used ELSE ~Holds(d, "new", n)
  /\ ~Holds(d, "tmp", n)
  /\ files' = files \cup {<<d, "tmp", n, m>>}
  /\ used' = used \cup {n}
  /\ UNCHANGED <<tree, delivered, pc, op, gone>>

Deliver(d, n) ==
  /\ CanRename(d, "tmp", n, d, "new")
  /\ Rename(d, "tmp", n, d, "new")
  /\ delivered' = delivered \cup {m \in Msgs : <<d, "tmp", n, m>> \in files}
  /\ UNCHANGED <<tree, used, pc, op, gone>>

-----------------------------------------------------------------------------
(* Calls.  InFolder makes new/ and cur/ of any folder but the inbox.        *)

Kinds == {"read", "mark", "curate", "move"}

\* Fetch, MarkSeen, Archive (or Delete) and Move on message n of folder d.
Call(t, kind, d, n, to) ==
  /\ pc[t] = "rest"
  /\ kind \in {"read", "mark"} => to = None
  /\ kind = "curate" => to \in Curated
  /\ kind = "move" => to \in {Inbox} \cup Folders
  /\ op' = [op EXCEPT ![t].kind = kind, ![t].dir = d, ![t].name = n, ![t].to = to]
  /\ Goto(t, IF d = Inbox THEN kind ELSE "makeNew")
  /\ gone' = IF In(d, n) THEN gone \ {t} ELSE gone \cup {t}
  /\ UNCHANGED <<files, tree, history>>

\* New: MkdirAll of new/, then of cur/.
MakeNew(t) ==
  /\ pc[t] = "makeNew"
  /\ MkdirAll(op[t].dir, "new")
  /\ Goto(t, "makeCur")
  /\ UNCHANGED <<files, history, op>> /\ Excuse({})

MakeCur(t) ==
  /\ pc[t] = "makeCur"
  /\ MkdirAll(op[t].dir, "cur")
  /\ Goto(t, op[t].kind)
  /\ UNCHANGED <<files, history, op>> /\ Excuse({})

\* Looking for the message in a subdirectory: Fetch reads it, Archive goes on to
\* prepare its destination and Move to look for it.
Look(t, at, s, otherwise) ==
  /\ pc[t] \in at
  /\ \/ Holds(op[t].dir, s, op[t].name) /\ op[t].kind = "read" /\ Finish(t)
     \/ /\ Holds(op[t].dir, s, op[t].name) /\ op[t].kind # "read"
        /\ op' = [op EXCEPT ![t].sub = s]
        /\ Goto(t, IF op[t].kind = "curate" THEN "prepare" ELSE "stat")
     \/ ~Holds(op[t].dir, s, op[t].name) /\ Goto(t, otherwise) /\ UNCHANGED op
  /\ UNCHANGED <<files, tree, history>> /\ Excuse({})

\* A faulty variant: cur/ is looked at before new/.
LookBackwards(t) ==
  \/ Look(t, {"read", "curate", "move"}, "cur", "lookCur")
  \/ Look(t, {"lookCur"}, "new", "unknown")

\* Fetch, List and locate look in new/, then in cur/.
LookUp(t) ==
  \/ Look(t, {"read", "curate", "move"}, "new", "lookCur")
  \/ Look(t, {"lookCur"}, "cur", "unknown")

\* The message is in neither directory: ErrBadID.
Unknown(t) ==
  /\ pc[t] = "unknown"
  /\ Finish(t)
  /\ UNCHANGED <<files, tree, history>> /\ Excuse({})

\* MarkSeen: rename, and when there is nothing to rename look in cur/.
Mark(t) ==
  LET d == op[t].dir IN
  /\ pc[t] = "mark"
  /\ \/ /\ CanRename(d, "new", op[t].name, d, "cur")
        /\ Rename(d, "new", op[t].name, d, "cur")
        /\ Finish(t)
     \/ /\ ~CanRename(d, "new", op[t].name, d, "cur")
        /\ Goto(t, "markStat")
        /\ UNCHANGED <<files, op>>
  /\ UNCHANGED <<tree, history>> /\ Excuse({})

MarkStat(t) ==
  /\ pc[t] = "markStat"
  /\ IF Holds(op[t].dir, "cur", op[t].name) THEN Finish(t) ELSE Goto(t, "unknown") /\ UNCHANGED op
  /\ UNCHANGED <<files, tree, history>> /\ Excuse({})

\* moveTo: the hidden maildir is made below the folder asked, and the message
\* arrives in its new/, whatever it meets there.
Prepare(t) ==
  /\ pc[t] = "prepare"
  /\ MkdirAll(Hidden(op[t].dir, op[t].to), "new")
  /\ Goto(t, "file")
  /\ UNCHANGED <<files, history, op>> /\ Excuse({})

\* A rename that fails (the message is gone from where it was found, or the
\* destination is) is an error and changes nothing.
RenameOrFail(t, d2, s2) ==
  LET d == op[t].dir n == op[t].name s == op[t].sub IN
  /\ Finish(t)
  /\ \/ /\ CanRename(d, s, n, d2, s2)
        /\ Rename(d, s, n, d2, s2)
        /\ Excuse({u \in Users : op[u].dir = d /\ op[u].name = n})
     \/ ~CanRename(d, s, n, d2, s2) /\ UNCHANGED files /\ Excuse({})

File(t) ==
  /\ pc[t] = "file"
  /\ RenameOrFail(t, Hidden(op[t].dir, op[t].to), "new")
  /\ UNCHANGED <<tree, history>>

\* Move: the destination must be a maildir ...
Stat(t) ==
  /\ pc[t] = "stat"
  /\ IF <<op[t].to, "new">> \in tree THEN Goto(t, "lstat") /\ UNCHANGED op ELSE Finish(t)
  /\ UNCHANGED <<files, tree, history>> /\ Excuse({})

\* ... that does not hold the name yet ...
Lstat(t) ==
  /\ pc[t] = "lstat"
  /\ IF Holds(op[t].to, op[t].sub, op[t].name) THEN Finish(t) ELSE Goto(t, "moveTo") /\ UNCHANGED op
  /\ UNCHANGED <<files, tree, history>> /\ Excuse({})

\* ... and the message keeps its read state.
MoveTo(t) ==
  /\ pc[t] = "moveTo"
  /\ RenameOrFail(t, op[t].to, op[t].sub)
  /\ UNCHANGED <<tree, history>>

-----------------------------------------------------------------------------
(* CreateFolder and DeleteFolder.                                           *)

FolderCall(t, l, d) ==
  /\ pc[t] = "rest"
  /\ op' = [op EXCEPT ![t].dir = d]
  /\ Goto(t, l)
  /\ UNCHANGED <<files, tree, history>> /\ Excuse({})

CreateFolder(t, d) == FolderCall(t, "create new", d)
DeleteFolder(t, d) == FolderCall(t, "list", d)

\* MkdirAll of each of maildirSubs in turn.
Creating == [new |-> "create new", cur |-> "create cur", tmp |-> "create tmp"]
Create(t, s) ==
  /\ pc[t] = Creating[s]
  /\ MkdirAll(op[t].dir, s)
  /\ IF s = "tmp" THEN Finish(t)
     ELSE Goto(t, Creating[IF s = "new" THEN "cur" ELSE "tmp"]) /\ UNCHANGED op
  /\ UNCHANGED <<files, history>> /\ Excuse({})

\* checkFolderEmpty: reads the folder, refusing it when it is not there or has
\* folders below it, then what is in each subdirectory it has read of, in
\* ReadDir's order; one that has gone meanwhile is an error.
ListFolder(t) ==
  LET d == op[t].dir listed == {s \in Subs : <<d, s>> \in tree} IN
  /\ pc[t] = "list"
  /\ IF <<d, ".">> \notin tree \/ \E c \in Curated : <<Hidden(d, c), ".">> \in tree
       THEN Finish(t)
       ELSE /\ op' = [op EXCEPT ![t].listed = listed]
            /\ Goto(t, IF listed = {} THEN "remove new" ELSE "count")
  /\ UNCHANGED <<files, tree, history>> /\ Excuse({})

ReadBefore == [cur |-> {}, new |-> {"cur"}, tmp |-> {"cur", "new"}]
Count(t, s) ==
  LET d == op[t].dir left == op[t].listed \ {s} IN
  /\ pc[t] = "count"
  /\ s \in op[t].listed /\ op[t].listed \cap ReadBefore[s] = {}
  /\ IF <<d, s>> \notin tree \/ ~Empty(d, s)
       THEN Finish(t)
       ELSE /\ op' = [op EXCEPT ![t].listed = left]
            /\ Goto(t, IF left = {} THEN "remove new" ELSE "count")
  /\ UNCHANGED <<files, tree, history>> /\ Excuse({})

Removing == [s \in Subs \cup {"."} |->
  CASE s = "new" -> "remove new" [] s = "cur" -> "remove cur"
    [] s = "tmp" -> "remove tmp" [] s = "." -> "remove ."]

\* A faulty variant: RemoveAll, which asks no questions.
RemoveAll(t, s) ==
  LET d == op[t].dir IN
  /\ pc[t] = Removing[s]
  /\ tree' = tree \ {<<d, s>>}
  /\ files' = {f \in files : f[1] # d \/ f[2] # s}
  /\ Goto(t, CASE s = "new" -> "remove cur" [] s = "cur" -> "remove tmp"
               [] s = "tmp" -> "remove ." [] s = "." -> "rest")
  /\ UNCHANGED <<history, op>> /\ Excuse({})

\* removeFolder: rmdir new/, cur/, tmp/ and the folder itself, up to the first
\* that is not empty; a subdirectory that does not exist is passed over.
Remove(t, s) ==
  LET d == op[t].dir IN
  /\ pc[t] = Removing[s]
  /\ IF Occupied(d, s)
       THEN Finish(t) /\ UNCHANGED tree
       ELSE /\ tree' = tree \ {<<d, s>>}
            /\ IF s = "." THEN Finish(t)
               ELSE /\ Goto(t, Removing[CASE s = "new" -> "cur" [] s = "cur" -> "tmp"
                                          [] s = "tmp" -> "."])
                    /\ UNCHANGED op
  /\ Excuse({u \in Users : op[u].dir = d})
  /\ UNCHANGED <<files, history>>

-----------------------------------------------------------------------------

Step(t) ==
  \/ MakeNew(t) \/ MakeCur(t) \/ LookUp(t) \/ Unknown(t)
  \/ Mark(t) \/ MarkStat(t) \/ Prepare(t) \/ File(t) \/ Stat(t) \/ Lstat(t) \/ MoveTo(t)
  \/ ListFolder(t) \/ \E s \in Subs : Create(t, s) \/ Count(t, s)
  \/ \E s \in Subs \cup {"."} : Remove(t, s)

Next ==
  \/ \E t \in Users :
       \/ Step(t)
       \/ \E d \in Folders : CreateFolder(t, d) \/ DeleteFolder(t, d)
       \/ \E kind \in Kinds, d \in Top, n \in Names, to \in Top \cup {None} : Call(t, kind, d, n, to)
  \/ \E d \in {Inbox} \cup Folders, n \in Names :
       Deliver(d, n) \/ \E m \in Msgs : Stage(d, n, m)

Spec == Init /\ [][Next]_vars

-----------------------------------------------------------------------------
(* Properties.                                                              *)

MessagePCs == Kinds \cup {"makeNew", "makeCur", "lookCur", "unknown", "markStat",
        "prepare", "file", "stat", "lstat", "moveTo"}
FolderPCs == {"create new", "create cur", "create tmp", "list", "count",
        "remove new", "remove cur", "remove tmp", "remove ."}
PCs == MessagePCs \cup FolderPCs \cup {"rest"}

FilesOK ==
  /\ files \subseteq Dirs \X Subs \X Names \X Msgs
  /\ \A f, g \in files : f[1] = g[1] /\ f[2] = g[2] /\ f[3] = g[3] => f = g
  /\ \A f \in files : <<f[1], f[2]>> \in tree

TreeOK ==
  /\ tree \subseteq Dirs \X (Subs \cup {"."})
  /\ \A p \in tree : <<p[1], ".">> \in tree

LocalsOK ==
  /\ pc \in [Users -> PCs]
  /\ op \in [Users -> [kind : Kinds \cup {None}, dir : Top \cup {None}, name : Names \cup {None},
                       to : Top \cup {None}, sub : {"new", "cur"}, listed : SUBSET Subs]]

\* Every variable has its type, a path holds at most one message, and files and
\* subdirectories are in directories that exist.
TypeOK ==
  /\ FilesOK /\ TreeOK /\ LocalsOK
  /\ delivered \subseteq Msgs /\ used \subseteq Names /\ gone \subseteq Users

\* "Briefkasten never destroys mail": a message that was delivered is in exactly
\* one place, whatever is marked, moved, archived and deleted at the same time.
NeverDestroyed == \A m \in delivered : Cardinality({f \in files : f[4] = m}) = 1

\* What a call knows: its folder, and on a message the name, the call and where
\* curation files.
AtWork == \A t \in Users :
  /\ pc[t] # "rest" => op[t].dir \in Top
  /\ pc[t] \in MessagePCs => op[t].kind \in Kinds /\ op[t].name \in Names
  /\ pc[t] \in MessagePCs /\ op[t].kind = "curate" => op[t].to \in Curated
  /\ pc[t] = "prepare" => op[t].kind = "curate"
  /\ pc[t] \in FolderPCs => op[t].dir \in Folders

\* Where no file name is used twice, a name and a message are in one place.
OneEach ==
  /\ \A f \in files : f[3] \in used
  /\ \A f, g \in files : f[3] = g[3] \/ f[4] = g[4] => f = g
  /\ \A m \in delivered : \E f \in files : f[4] = m

\* A call answers that there is no such message only if the message was not in
\* the folder all the time, or the folder was being removed (a rename into a cur/
\* that is gone fails like one of a message that is): marking it seen meanwhile
\* does not hide it from a caller that looks in new/ and cur/ one after the other.
NotMissed == \A t \in Users : pc[t] = "unknown" => t \in gone

\* What a call without an excuse still finds: the message in its folder, in cur/
\* once new/ did not have it, and a cur/ to mark it seen into.
Sees(t) ==
  /\ pc[t] \in Kinds \cup {"makeNew", "makeCur"} => In(op[t].dir, op[t].name)
  /\ pc[t] \in {"lookCur", "markStat"} => Holds(op[t].dir, "cur", op[t].name)
  /\ pc[t] = "mark" => <<op[t].dir, "cur">> \in tree
  /\ pc[t] # "unknown"
InSight == \A t \in Users \ gone : Sees(t)

\* The inbox is never removed.
InboxStays == <<Inbox, "cur">> \in tree

\* The inductive invariant of a mailbox without reused names.
IInv == TypeOK /\ AtWork /\ OneEach /\ InSight /\ InboxStays
=============================================================================
