---------------------------- MODULE FolderNames ----------------------------
(***************************************************************************)
(* How briefkasten names IMAP folders and decides where archive and delete *)
(* file (src/infrastructure/imap/imap.go, src/domain/mailbox.go).          *)
(*                                                                         *)
(* A mailbox name is the sequence of its hierarchy components, so that     *)
(* "INBOX.Work" is <<"INBOX", "Work">>; a personal namespace rooted at     *)
(* "INBOX." is the prefix <<"INBOX">>, one rooted at the top is <<>>.  No  *)
(* two names used together differ in letter case only.                     *)
(***************************************************************************)
EXTENDS Naturals, Sequences, SequencesExt

Inbox == <<"INBOX">>

(* Strictly below the prefix: the name carries the prefix string, whose last
   character is the delimiter. *)
Below(prefix, name) == IsStrictPrefix(prefix, name)

(* Where the server keeps a folder the caller named: inside the personal
   namespace, unless it is there already or is the inbox. *)
namespaceFolder(prefix, name) ==
    IF name = Inbox \/ Below(prefix, name) THEN name ELSE prefix \o name

leafOf(name, prefix) ==
    IF Below(prefix, name) THEN SubSeq(name, Len(prefix) + 1, Len(name)) ELSE name

(* The mailboxes nested under full; a server without a hierarchy has none. *)
childrenOf(listed, full, nested) ==
    {name \in Range(listed) : nested /\ Below(full, name)}

-----------------------------------------------------------------------------
(* A curation target is a record: override (a name, or <<>> for none), attr
   (the SPECIAL-USE attribute), leaf (one component) and aliases (a sequence of
   components, most wanted first).  declares[name] is the set of attributes the
   server declares for a mailbox; listed is the names it answers to LIST, in its order.

   The order of authority is override, declaration, conventional path, alias,
   and only then a folder to create.  Of two folders with the same leaf, one in
   the namespace and one outside it, the later in the listing is taken. *)

LastWithLeaf(listed, prefix, leaf) ==
    LET at == {i \in DOMAIN listed : leafOf(listed[i], prefix) = <<leaf>>} IN
    IF at = {} THEN <<>> ELSE listed[Max(at)]

chooseCurationFolder(target, listed, prefix, declares) ==
    LET declared == {i \in DOMAIN listed : target.attr \in declares[listed[i]]}
        named(leaf) == LastWithLeaf(listed, prefix, leaf)
        known == {i \in DOMAIN target.aliases : named(target.aliases[i]) # <<>>}
    IN  CASE declared # {} -> [folder |-> listed[Min(declared)], route |-> "declared"]
          [] declared = {} /\ named(target.leaf) # <<>> ->
                 [folder |-> named(target.leaf), route |-> "convention"]
          [] declared = {} /\ named(target.leaf) = <<>> /\ known # {} ->
                 [folder |-> named(target.aliases[Min(known)]), route |-> "alias"]
          [] OTHER -> [folder |-> Append(prefix, target.leaf), route |-> "create"]

destinationFor(target, listed, prefix, declares) ==
    IF target.override # <<>>
    THEN [folder |-> target.override, route |-> "override"]
    ELSE chooseCurationFolder(target, listed, prefix, declares)

\* A faulty variant: only destinations named by configuration or server count.
OnlyDeclaredProtected(full, plan) ==
    full # Inbox /\ \A kind \in DOMAIN plan :
        plan[kind].route \in {"override", "declared"} => plan[kind].folder # full

(* The folders whose deletion would break the mailbox: the inbox, and the two
   destinations of the plan. *)
CheckFolderDeletable(full, plan) ==
    full # Inbox /\ \A kind \in DOMAIN plan : plan[kind].folder # full
=============================================================================
