-------------------------- MODULE MCRuntimeConfig --------------------------
(* Instances of RuntimeConfig for TLC: two endpoints for mail and a password *)
(* for each, a token endpoint for each, two users, and the credentials files *)
(* of an OAuth client and of a service account.                              *)
EXTENDS RuntimeConfig, TLC

CONSTANTS here, there, me, you, sHere, sThere, sEnv, sClient, sGrant, fClient, fKey

MCHolds == fClient :> [secret |-> sClient, url |-> here] @@ fKey :> None

MCSide(a, x) == [addr |-> a, user |-> me, password |-> x, oauth |-> None, insecure |-> FALSE]
Plain(a) == [addr |-> a, user |-> None, password |-> None, oauth |-> None, insecure |-> TRUE]

MCDefault == [imap |-> Plain(None), smtp |-> Plain(None), outbox |-> FALSE, bulk |-> 100,
              profiles |-> {}, served |-> FALSE]

\* A profile for the other provider, and one that leaves outbound mail alone and
\* runs without TLS.
MCProfiles == {[imap |-> MCSide(there, sThere), smtp |-> MCSide(there, sThere), outbox |-> TRUE],
               [imap |-> Plain(here), smtp |-> None, outbox |-> FALSE]}

\* The profile of the documentation, whose outbox names no directory.
MCProfilesDirless == {[r EXCEPT !.outbox = FALSE] : r \in MCProfiles}

MCOriginal == [imap |-> MCSide(here, sHere), smtp |-> MCSide(here, sHere), outbox |-> TRUE,
               bulk |-> 100, profiles |-> Profiles, served |-> TRUE]

\* The mailbox of a Workspace user, read through a service account.
MCOriginalKey ==
  [MCOriginal EXCEPT !.imap.password = None, !.imap.oauth = [NoOAuth EXCEPT !.file = fKey]]

SideUnset == [addr |-> None, user |-> None, password |-> None, insecure |-> None]
MCEnvUnset == [imap |-> SideUnset, smtp |-> SideUnset, served |-> None]
MCEnv == [MCEnvUnset EXCEPT !.imap.password = sEnv]

P == [addr |-> None, user |-> None, password |-> None, oauth |-> None, clear |-> FALSE,
      insecure |-> None]
Imap(p) == [imap |-> p, smtp |-> None, bulk |-> None]
Smtp(p) == [imap |-> None, smtp |-> p, bulk |-> None]

Move == [P EXCEPT !.addr = there, !.password = sThere]
Client == [NoOAuth EXCEPT !.file = fClient, !.grant = sGrant]

\* A move with another limit, moves without and clearing the password, a new password
\* and a new user, TLS off, the settings of an OAuth client and another token endpoint
\* for it, and a move of the sender.
MCPatches ==
  {[imap |-> Move, smtp |-> None, bulk |-> 10],
   Imap([P EXCEPT !.addr = there]), Imap([P EXCEPT !.addr = here, !.clear = TRUE]),
   Imap([P EXCEPT !.password = sThere]), Imap([P EXCEPT !.user = you, !.insecure = TRUE]),
   Imap([P EXCEPT !.oauth = Client]), Imap([P EXCEPT !.oauth = [NoOAuth EXCEPT !.url = there]]),
   Smtp(Move)}

MCMoves == {Imap(Move), Imap([P EXCEPT !.password = sHere])}
MCUsers == {Imap([P EXCEPT !.user = you])}
MCClients ==
  {Imap([P EXCEPT !.oauth = Client]), Imap([P EXCEPT !.oauth = [NoOAuth EXCEPT !.grant = sGrant]])}
=============================================================================
