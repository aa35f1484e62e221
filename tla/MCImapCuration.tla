--------------------------- MODULE MCImapCuration ---------------------------
(* Instances of ImapCuration for TLC. *)
EXTENDS ImapCuration, TLC

CONSTANTS m1, m2, n1

Archive == <<"INBOX", "Archive">>
Archiv == <<"INBOX", "Archiv">>
Old == <<"INBOX", "Old">>
Trash == <<"INBOX", "Trash">>
Work == <<"INBOX", "Work">>
Stray == <<"Archive">>

\* A namespace rooted at INBOX.: the archive is the folder the server declares, found
\* by convention, by alias, or made; the trash is configured, and may be missing.
MCListing == <<Inbox, Archiv, Archive, Old, Trash, Work, Stray, <<"Work">>, <<"Trash">>>>
MCInitFolders == {{Inbox, Archiv, Archive}, {Inbox, Trash, Work}, {Inbox, Old, Archive}}
MCDeclares == [name \in Range(MCListing) |-> IF name = Old THEN {"\\Archive"} ELSE {}]
MCPrefix == <<"INBOX">>
MCTargets == [archive |-> [override |-> <<>>, attr |-> "\\Archive", leaf |-> "Archive",
                           aliases |-> <<"Archiv">>],
              trash |-> [override |-> Trash, attr |-> "\\Trash", leaf |-> "Trash",
                         aliases |-> <<>>]]
MCRequests == {
    [op |-> "archiveMany", ids |-> {m1, m2}, dest |-> Inbox],
    [op |-> "delete", ids |-> {m1}, dest |-> Inbox],
    [op |-> "move", ids |-> {m1}, dest |-> Work],
    [op |-> "moveMany", ids |-> {m1, m2}, dest |-> <<"Work">>],
    [op |-> "move", ids |-> {m2}, dest |-> Inbox],
    [op |-> "seen", ids |-> {m1}, dest |-> Inbox],
    [op |-> "create", ids |-> {}, dest |-> Stray],
    [op |-> "drop", ids |-> {}, dest |-> Work],
    [op |-> "drop", ids |-> {}, dest |-> Archive],
    [op |-> "drop", ids |-> {}, dest |-> Archiv]}

Symmetry == Permutations(Callers)
=============================================================================
