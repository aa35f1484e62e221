---------------------------- MODULE RuntimeConfig ----------------------------
(***************************************************************************)
(* Reconfiguration at run time, runtime.go, config.go and auth/oauth.go:   *)
(* config.set merges a partial update into the configuration, or takes a   *)
(* profile, builds the mailbox, the sender and the accounts from the       *)
(* result, swaps them in one after the other and saves the configuration   *)
(* to its file.  A mutex serializes the calls; requests use what is        *)
(* swapped in without taking it.  The server may crash at any step and     *)
(* starts again from the file and the environment.                         *)
(*                                                                         *)
(* Of a configuration there remain, for the mailbox ("imap") and for the   *)
(* sender ("smtp"), the address, the user, the password (a static access   *)
(* token is merged like one), the OAuth2 settings and whether TLS is off;  *)
(* whether the outbox has a directory; the bulk limit; the profiles; and   *)
(* whether config.set is served at all.  A server that starts without an   *)
(* outbox directory has no sender until it is started again.  Profiles     *)
(* sign in with passwords.                                                 *)
(***************************************************************************)
EXTENDS Naturals

CONSTANTS
  Callers,    \* concurrent calls of config.set
  Endpoints,  \* IMAP, SMTP and token endpoints
  Users,      \* whom to sign in as
  Secrets,    \* passwords, client secrets, refresh tokens
  Limits,     \* bulk limits
  Files,      \* OAuth2 credentials files
  Holds,      \* what each holds, see Credentials
  Default,    \* the configuration of an empty file
  Original,   \* the configuration in the file when the server first starts
  Profiles,   \* the profiles there may be: what each sets, see Profile
  Patches,    \* the partial updates callers may ask for
  Env,        \* what BRIEFKASTEN_* variables set, None where they are unset
  MaxCalls,   \* bound: calls of config.set
  None        \* nothing, and what a patch omits

Sides == {"imap", "smtp"}
Fillable == {"secret", "url"}

\* An OAuth client, by its secret and its token endpoint; None for the key of a
\* service account, which needs neither and acts for whatever user it is told.
Credentials == [secret : Secrets, url : Endpoints] \cup {None}

\* client_id and client_secret, token_url, refresh_token; hydrated marks what was
\* filled in from the credentials file.
OAuth == [file : Files \cup {None}, secret : Secrets \cup {None}, url : Endpoints \cup {None},
          grant : Secrets \cup {None}, hydrated : SUBSET Fillable]
NoOAuth == [file |-> None, secret |-> None, url |-> None, grant |-> None, hydrated |-> {}]

Side == [addr : Endpoints \cup {None}, user : Users \cup {None}, password : Secrets \cup {None},
         oauth : OAuth \cup {None}, insecure : BOOLEAN]
Config == [imap : Side, smtp : Side, outbox : BOOLEAN, bulk : Limits,
           profiles : SUBSET Profiles, served : BOOLEAN]
Profile == [imap : Side, smtp : Side \cup {None}, outbox : BOOLEAN]
SidePatch == [addr : Endpoints \cup {None}, user : Users \cup {None},
              password : Secrets \cup {None}, oauth : OAuth \cup {None},
              clear : BOOLEAN, insecure : BOOLEAN \cup {None}]
Patch == [imap : SidePatch \cup {None}, smtp : SidePatch \cup {None}, bulk : Limits \cup {None}]
SideEnv == [addr : Endpoints \cup {None}, user : Users \cup {None}, password : Secrets \cup {None},
            insecure : BOOLEAN \cup {None}]

ASSUME Inputs ==
  /\ Default \in Config /\ Original \in Config
  /\ Profiles \subseteq Profile
  /\ Patches \subseteq Patch
  /\ Holds \in [Files -> Credentials]
  /\ Env \in [imap : SideEnv, smtp : SideEnv, served : BOOLEAN \cup {None}]
  /\ MaxCalls \in Nat
ASSUME NoneIsNothing ==
  None \notin Callers \cup Endpoints \cup Users \cup Secrets \cup Limits \cup Files \cup OAuth
              \cup [secret : Secrets, url : Endpoints] \cup Config \cup Side \cup SidePatch
              \cup BOOLEAN \cup Patches \cup Profiles
ASSUME DefaultHasNoSecrets ==
  \A s \in Sides : Default[s].password = None /\ Default[s].oauth = None
ASSUME FilesAreNotHydrated ==
  \A s \in Sides : Original[s].oauth # None => Original[s].oauth.hydrated = {}
ASSUME ProfilesUsePasswords ==
  \A r \in Profiles : r.imap.oauth = None /\ (r.smtp # None => r.smtp.oauth = None)

VARIABLES
  cfg,    \* the configuration in memory
  live,   \* what requests use: the mailbox with its limit, the sender, the accounts' limit
  acting, \* whom the token source of a running service account acts for
  file,   \* the configuration in the file; None while or after it is truncated
  saved,  \* whether the configuration in memory is one that was persisted
  mu,     \* the call that holds the mutex
  pc,     \* where each call is
  op,     \* its locals
  asked,  \* the bound's counter
  kept,   \* history: the configuration that was last answered to be persisted
  given,  \* history: the secrets that were given, each with the endpoint it was given for
  strayed,    \* history: secrets of calls that found another configuration than they had seen
  redirected  \* history: secrets a patch of the OAuth2 settings took along

history == <<kept, given, strayed, redirected>>
vars == <<cfg, live, acting, file, saved, mu, pc, op, asked, history>>

\* seen is the configuration when the call was made.
NoCall == [patch |-> None, profile |-> None, seen |-> None, next |-> None]
Goto(t, l) == pc' = [pc EXCEPT ![t] = l]
Finish(t) == Goto(t, "rest") /\ op' = [op EXCEPT ![t] = NoCall]
Release(t) == mu' = None /\ Finish(t)

Or(x, y) == IF x # None THEN x ELSE y

-----------------------------------------------------------------------------
(* OAuth2 settings.                                                         *)

\* Blanks, and only blanks, are filled from the file of an OAuth client.
LoadCredentials(o) ==
  IF o = None \/ o.file = None \/ Holds[o.file] = None THEN o
  ELSE [o EXCEPT !.secret = Or(@, Holds[o.file].secret), !.url = Or(@, Holds[o.file].url),
                 !.hydrated = @ \cup {f \in Fillable : o[f] = None}]

\* What is written to the configuration file; the marks are not.
WithoutHydrated(o) ==
  IF o = None THEN None
  ELSE [o EXCEPT !.secret = IF "secret" \in o.hydrated THEN None ELSE @,
                 !.url = IF "url" \in o.hydrated THEN None ELSE @, !.hydrated = {}]

\* A fresh struct: another credentials file brings its own client, what the patch
\* names wins, the rest stays, and the marks are gone.
applyOAuth2Patch(cur, p) ==
  LET o == IF cur = None THEN NoOAuth ELSE cur
      client == IF p.file \notin {None, o.file} THEN NoOAuth ELSE o
  IN [file |-> Or(p.file, o.file), secret |-> Or(p.secret, client.secret),
      url |-> Or(p.url, client.url), grant |-> Or(p.grant, o.grant), hydrated |-> {}]

Service(x) == x.oauth # None /\ x.oauth.file # None /\ Holds[x.oauth.file] = None

-----------------------------------------------------------------------------
(* Configurations.                                                          *)

\* Credentials are loaded for what is built with an address: the mailbox, and the
\* sender where there is one.
LoadSide(x) == IF x.addr = None THEN x ELSE [x EXCEPT !.oauth = LoadCredentials(@)]
Hydrated(c, sending) ==
  [c EXCEPT !.imap = LoadSide(@), !.smtp = IF sending THEN LoadSide(@) ELSE @]

\* BuildMailbox, buildSender and BuildAccounts, as far as requests can tell.
Built(c) == [imap |-> c.imap, smtp |-> IF c.outbox THEN c.smtp ELSE None,
             bulk |-> c.bulk, accounts |-> c.bulk]

\* A service account is told whom to act for when its key is loaded.
Subject(x) == IF x # None /\ Service(x) THEN x.user ELSE None

\* forSave: passwords the environment provided at the start, and what credentials
\* files hold, stay out of the file.
Elided(s, x) ==
  [x EXCEPT !.password = IF Env[s].password = None THEN @ ELSE None,
            !.oauth = WithoutHydrated(@)]
forSave(c) == [c EXCEPT !.imap = Elided("imap", @), !.smtp = Elided("smtp", @)]

\* LoadConfig and ApplyEnv.
Overlaid(s, x) ==
  [x EXCEPT !.addr = Or(Env[s].addr, @), !.user = Or(Env[s].user, @),
            !.password = Or(Env[s].password, @), !.insecure = Or(Env[s].insecure, @)]
Loaded(f) ==
  LET c == IF f = None THEN Default ELSE f
  IN [c EXCEPT !.imap = Overlaid("imap", @), !.smtp = Overlaid("smtp", @),
               !.served = Or(Env.served, @)]

\* What a start makes of the file: it builds the mailbox and, for an outbox, the sender.
Started(f) == Hydrated(Loaded(f), Loaded(f).outbox)

Moves(p, cur) == p.addr \notin {None, cur.addr}
hasCredentials(p) == p.user # None \/ p.password # None \/ p.oauth # None

\* errCredentialBinding, and TLS that would be turned off.
Refused(p, cur) ==
  \/ Moves(p, cur) /\ ~p.clear /\ ~hasCredentials(p)
  \/ p.insecure = TRUE /\ ~cur.insecure

\* What is left of a side whose address changes.
Vacated(x) == [x EXCEPT !.user = None, !.password = None, !.oauth = None]

MergeOnto(p, cur, old) ==
  [addr |-> Or(p.addr, cur.addr), user |-> Or(p.user, old.user),
   password |-> Or(p.password, old.password),
   oauth |-> IF p.oauth = None THEN old.oauth ELSE applyOAuth2Patch(old.oauth, p.oauth),
   insecure |-> Or(p.insecure, cur.insecure)]

\* A faulty variant: omitted credentials keep their values, like any other field.
MergeSideKeeping(p, cur) == MergeOnto(p, cur, cur)

\* Credentials do not follow when the endpoint changes.
MergeSide(p, cur) == MergeOnto(p, cur, IF Moves(p, cur) THEN Vacated(cur) ELSE cur)

Merged(p, c) ==
  [c EXCEPT !.imap = IF p.imap = None THEN @ ELSE MergeSide(p.imap, @),
            !.smtp = IF p.smtp = None THEN @ ELSE MergeSide(p.smtp, @),
            !.bulk = Or(p.bulk, @)]

\* Config.applyProfile: the whole outbox, its directory included, or nothing of it.
WithProfile(r, c) ==
  IF r.smtp = None THEN [c EXCEPT !.imap = r.imap]
  ELSE [c EXCEPT !.imap = r.imap, !.smtp = r.smtp, !.outbox = r.outbox]

\* Where the secrets of a side go: the password to its address, the client secret
\* and the refresh token to the token endpoint.
Logins(x) == {<<x.password, x.addr>>} \cap (Secrets \X Endpoints)
Tokens(x) ==
  LET o == LoadCredentials(x.oauth) IN
  IF o = None THEN {} ELSE ({o.secret, o.grant} \X {o.url}) \cap (Secrets \X Endpoints)
Uses(x) == IF x = None THEN {} ELSE Logins(x) \cup Tokens(x)
UsesOf(c) == Uses(c.imap) \cup Uses(c.smtp)

\* The operator gives what is in the file and in the environment, what a profile
\* declares, and what a credentials file holds.
Init ==
  /\ cfg = Started(Original)
  /\ live = Built(cfg)
  /\ acting = [s \in Sides |-> Subject(live[s])]
  /\ file = Original /\ kept = Original
  /\ saved = TRUE
  /\ mu = None
  /\ pc = [t \in Callers |-> "rest"]
  /\ op = [t \in Callers |-> NoCall]
  /\ asked = 0
  /\ given = UsesOf(cfg) \cup UsesOf(Original)
             \cup UNION {Uses(r.imap) \cup Uses(r.smtp) : r \in Profiles}
  /\ strayed = {} /\ redirected = {}

-----------------------------------------------------------------------------
(* config.set, where it is served.                                          *)

\* A caller asks, and a human confirms or does not, before the mutex is taken.
Ask(t, p) ==
  /\ pc[t] = "rest" /\ cfg.served /\ asked < MaxCalls
  /\ asked' = asked + 1
  /\ Goto(t, "confirm")
  /\ op' = [op EXCEPT ![t] = [NoCall EXCEPT !.patch = p, !.seen = cfg]]
  /\ UNCHANGED <<cfg, live, acting, file, saved, mu, history>>

Confirm(t) ==
  /\ pc[t] = "confirm"
  /\ \/ Goto(t, "lock") /\ UNCHANGED op
     \/ Finish(t)
  /\ UNCHANGED <<cfg, live, acting, file, saved, mu, asked, history>>

\* A profile is asked for by name; the human is asked with the mutex held.
AskProfile(t, r) ==
  /\ pc[t] = "rest" /\ cfg.served /\ asked < MaxCalls
  /\ asked' = asked + 1
  /\ Goto(t, "lock")
  /\ op' = [op EXCEPT ![t] = [NoCall EXCEPT !.profile = r]]
  /\ UNCHANGED <<cfg, live, acting, file, saved, mu, history>>

\* A faulty variant: the mutex does not exclude.
LockShared(t) ==
  /\ pc[t] = "lock"
  /\ mu' = t
  /\ Goto(t, IF op[t].profile = None THEN "merge" ELSE "profile")
  /\ UNCHANGED <<cfg, live, acting, file, saved, op, asked, history>>

Lock(t) ==
  /\ pc[t] = "lock" /\ mu = None
  /\ mu' = t
  /\ Goto(t, IF op[t].profile = None THEN "merge" ELSE "profile")
  /\ UNCHANGED <<cfg, live, acting, file, saved, op, asked, history>>

ConfirmProfile(t) ==
  /\ pc[t] = "profile"
  /\ \/ /\ op[t].profile \in cfg.profiles
        /\ op' = [op EXCEPT ![t].next = WithProfile(op[t].profile, cfg)]
        /\ Goto(t, "build")
        /\ UNCHANGED mu
     \/ Release(t)
  /\ UNCHANGED <<cfg, live, acting, file, saved, asked, history>>

Merge(t) ==
  LET p == op[t].patch
      refused == \E s \in Sides : p[s] # None /\ Refused(p[s], cfg[s])
  IN
  /\ pc[t] = "merge"
  /\ \/ ~refused /\ op' = [op EXCEPT ![t].next = Merged(p, cfg)] /\ Goto(t, "build") /\ UNCHANGED mu
     \/ refused /\ Release(t)
  /\ UNCHANGED <<cfg, live, acting, file, saved, asked, history>>

\* A sender is built for an outbox, where the server started with one.
Sending(c) == live.smtp # None /\ c.outbox

\* The OAuth2 settings that a patch leaves alone are those that are running.
Shares(t, s) ==
  /\ op[t].profile = None
  /\ op[t].patch[s] = None \/ op[t].patch[s].oauth = None

\* commitConfig: the mailbox, the sender and the accounts are built, or the call
\* fails, as far as it has come.  Loading the key of a service account for a user
\* tells whoever shares the settings.
Build(t) ==
  LET next == Hydrated(op[t].next, Sending(op[t].next))
      all == IF Sending(next) THEN Sides ELSE {"imap"}
  IN
  /\ pc[t] = "build"
  /\ \E loaded \in {{}, {"imap"}, all} :
       /\ \A s \in loaded : Service(next[s]) => next[s].user # None
       /\ acting' = [s \in Sides |-> IF s \in loaded /\ Shares(t, s) THEN Subject(next[s])
                                     ELSE acting[s]]
       /\ \/ loaded = all /\ op' = [op EXCEPT ![t].next = next] /\ Goto(t, "assign") /\ UNCHANGED mu
          \/ Release(t)
  /\ UNCHANGED <<cfg, live, file, saved, asked, history>>

\* The secrets a patch of a side names.
Named(p) ==
  ({p.password} \cup IF p.oauth = None THEN {} ELSE {p.oauth.secret, p.oauth.grant}) \cap Secrets

Patched(t) == {s \in Sides : op[t].patch # None /\ op[t].patch[s] # None}

\* What a call names, it gives for the endpoints that the configuration it had seen
\* would have had with it.
Provides(t) == UNION {
  {u \in Uses(MergeSide(op[t].patch[s], op[t].seen[s])) : u[1] \in Named(op[t].patch[s])}
    : s \in Patched(t)}

\* What it names and another call has since moved goes to other endpoints ...
Strays(t) == UNION {
  {u \in Uses(op[t].next[s]) : u[1] \in Named(op[t].patch[s])}
    : s \in {s \in Patched(t) : op[t].seen[s] # cfg[s]}}

\* ... and what it leaves of the OAuth2 settings it patches follows their token endpoint.
Redirects(t) == UNION {
  {u \in Tokens(op[t].next[s]) : u[1] \notin Named(op[t].patch[s])}
    : s \in {s \in Patched(t) : op[t].patch[s].oauth # None}}

Assign(t) ==
  /\ pc[t] = "assign"
  /\ cfg' = op[t].next
  /\ given' = given \cup Provides(t)
  /\ strayed' = strayed \cup Strays(t)
  /\ redirected' = redirected \cup Redirects(t)
  /\ Goto(t, "swap mailbox")
  /\ UNCHANGED <<live, acting, file, saved, mu, op, asked, kept>>

SwapMailbox(t) ==
  /\ pc[t] = "swap mailbox"
  /\ live' = [live EXCEPT !.imap = op[t].next.imap, !.bulk = op[t].next.bulk]
  /\ acting' = [acting EXCEPT !["imap"] = Subject(op[t].next.imap)]
  /\ Goto(t, "swap sender")
  /\ UNCHANGED <<cfg, file, saved, mu, op, asked, history>>

\* A sender is built only for an outbox, and swapped only for another.
SwapSender(t) ==
  /\ pc[t] = "swap sender"
  /\ IF Sending(op[t].next)
     THEN /\ live' = [live EXCEPT !.smtp = op[t].next.smtp]
          /\ acting' = [acting EXCEPT !["smtp"] = Subject(op[t].next.smtp)]
     ELSE UNCHANGED <<live, acting>>
  /\ Goto(t, "swap accounts")
  /\ UNCHANGED <<cfg, file, saved, mu, op, asked, history>>

\* A faulty variant: the accounts keep what they were built with at startup.
AccountsPinned(t) ==
  /\ pc[t] = "swap accounts"
  /\ Goto(t, "save")
  /\ UNCHANGED <<cfg, live, acting, file, saved, mu, op, asked, history>>

\* A faulty variant: the mutex is released before the configuration is saved.
SwapAndUnlock(t) ==
  /\ pc[t] = "swap accounts"
  /\ live' = [live EXCEPT !.accounts = op[t].next.bulk]
  /\ mu' = None
  /\ Goto(t, "save")
  /\ UNCHANGED <<cfg, acting, file, saved, op, asked, history>>

SwapAccounts(t) ==
  /\ pc[t] = "swap accounts"
  /\ live' = [live EXCEPT !.accounts = op[t].next.bulk]
  /\ Goto(t, "save")
  /\ UNCHANGED <<cfg, acting, file, saved, mu, op, asked, history>>

\* Save: WriteFile truncates the file, then writes it; either may fail.
Truncate(t) ==
  /\ pc[t] = "save"
  /\ saved' = FALSE
  /\ \/ file' = None /\ Goto(t, "write") /\ UNCHANGED <<mu, op>>
     \/ Release(t) /\ UNCHANGED file
  /\ UNCHANGED <<cfg, live, acting, asked, history>>

\* The caller is answered whether what it set is persisted.
Write(t) ==
  /\ pc[t] = "write"
  /\ \/ file' = forSave(cfg) /\ saved' = TRUE /\ kept' = op[t].next
     \/ UNCHANGED <<file, saved, kept>>
  /\ Release(t)
  /\ UNCHANGED <<cfg, live, acting, asked, given, strayed, redirected>>

\* The server dies and starts again from what is in the file and the environment.
Restart ==
  /\ cfg' = Started(file)
  /\ live' = Built(cfg')
  /\ acting' = [s \in Sides |-> Subject(live'[s])]
  /\ saved' = (file # None)
  /\ mu' = None
  /\ pc' = [t \in Callers |-> "rest"]
  /\ op' = [t \in Callers |-> NoCall]
  /\ UNCHANGED <<file, asked, history>>

-----------------------------------------------------------------------------

Step(t) ==
  \/ Confirm(t) \/ Lock(t) \/ ConfirmProfile(t) \/ Merge(t) \/ Build(t) \/ Assign(t)
  \/ SwapMailbox(t) \/ SwapSender(t) \/ SwapAccounts(t) \/ Truncate(t) \/ Write(t)

Next ==
  \/ \E t \in Callers :
       Step(t) \/ (\E p \in Patches : Ask(t, p)) \/ \E r \in Profiles : AskProfile(t, r)
  \/ Restart

Spec == Init /\ [][Next]_vars

-----------------------------------------------------------------------------
(* Properties.                                                              *)

Locked == {"profile", "merge", "build", "assign", "swap mailbox", "swap sender",
           "swap accounts", "save", "write"}
PCs == {"rest", "confirm", "lock"} \cup Locked

Calls == [patch : Patches \cup {None}, profile : Profiles \cup {None},
          seen : Config \cup {None}, next : Config \cup {None}]
Running == [imap : Side, smtp : Side \cup {None}, bulk : Limits, accounts : Limits]

\* Every variable has its type.
TypeOK ==
  /\ cfg \in Config
  /\ live \in Running
  /\ acting \in [Sides -> Users \cup {None}]
  /\ file \in Config \cup {None}
  /\ saved \in BOOLEAN
  /\ mu \in Callers \cup {None}
  /\ pc \in [Callers -> PCs]
  /\ op \in [Callers -> Calls]
  /\ asked \in 0 .. MaxCalls
  /\ kept \in Config
  /\ given \subseteq Secrets \X Endpoints
  /\ strayed \subseteq Secrets \X Endpoints
  /\ redirected \subseteq Secrets \X Endpoints

\* "A profile is applied whole", and switching "changes which mailbox is read and
\* which account sends": while no call is committing, the sender that runs is the
\* one of the configuration.
SendsAsConfigured == mu = None => live.smtp \in {None, cfg.smtp}

\* While no call is committing, the mailbox, the sender and the accounts that
\* serve requests are all those of the configuration: whatever was refused, or
\* failed to build, or crashed, nothing serves half of one and half of another.
\* (Whom a service account acts for is ActsAsConfigured's subject.)
RunningIsConfigured ==
  /\ SendsAsConfigured
  /\ mu = None => live.imap = cfg.imap /\ live.bulk = cfg.bulk /\ live.accounts = cfg.bulk

\* "A configuration that cannot be built leaves the running one untouched": between
\* calls, a service account acts for the user of the mailbox or sender that runs.
ActsAsConfigured == mu = None => \A s \in Sides : acting[s] = Subject(live[s])

\* "Credentials belong to the endpoint they were issued for": every secret is used
\* with endpoints it was given for, in memory, in what runs, at the next start.
CredentialsStayHome == UsesOf(cfg) \cup UsesOf(live) \cup UsesOf(Loaded(file)) \subseteq given

\* The ways a secret does reach another endpoint: its call found the side changed by
\* another one; a patch of the OAuth2 settings kept it and named another client or
\* token endpoint; a start puts the password of the environment on the address in the
\* file, and the password in the file on the address of the environment.
Known(s) == strayed \cup redirected
            \cup {u \in Secrets \X Endpoints : u[1] = Env[s].password \/ u[2] = Env[s].addr}

\* By no other way does a secret leave home: whatever is patched, switched, refused,
\* saved and restarted, credentials do not follow an address, nor come back with an
\* older one, nor change sides.
SecretsStayHome == \A s \in Sides :
  Uses(cfg[s]) \cup Uses(live[s]) \cup Uses(Loaded(file)[s]) \subseteq given \cup Known(s)

\* What a patch of a side omits is as it was, credentials files read or not.
KeepsOfSide(p, new, old) ==
  /\ p.addr = None => new.addr = old.addr
  /\ new.addr = old.addr =>
       /\ p.user = None => new.user = old.user
       /\ p.password = None => new.password = old.password
       /\ p.oauth = None => LoadCredentials(new.oauth) = LoadCredentials(old.oauth)

\* What a call omits, the commit leaves alone.
KeepsOmitted(t) ==
  /\ op[t].patch # None => \A s \in Sides :
       IF op[t].patch[s] = None THEN LoadSide(cfg'[s]) = LoadSide(cfg[s])
       ELSE KeepsOfSide(op[t].patch[s], cfg'[s], cfg[s])
  /\ op[t].patch # None /\ op[t].patch.bulk = None => cfg'.bulk = cfg.bulk
  /\ op[t].profile # None => cfg'.bulk = cfg.bulk

\* "Partial update: omitted fields keep their current values, EXCEPT credentials
\* when addr changes", although another call may commit between the question to
\* the human and the commit.
OmittedKept == [][\A t \in Callers :
  pc[t] = "assign" /\ pc'[t] = "swap mailbox" => KeepsOmitted(t)]_vars

\* Two sides agree in all that the environment does not set.
Agree(s, x, y) ==
  /\ \A f \in {"addr", "user", "password", "insecure"} : Env[s][f] = None => x[f] = y[f]
  /\ LoadCredentials(x.oauth) = LoadCredentials(y.oauth)
AgreeWith(c, d) ==
  /\ \A s \in Sides : Agree(s, c[s], d[s])
  /\ c.outbox = d.outbox /\ c.bulk = d.bulk /\ c.profiles = d.profiles

\* What was answered to be persisted is in the file until a later save truncates it,
\* whatever is refused, fails or crashes in between, and is what a start brings back,
\* with the credentials files read again and but for what the environment sets; and
\* it is what serves, unless a later save failed or was cut short.
SetPersists ==
  /\ file # None => AgreeWith(Loaded(file), kept)
  /\ mu = None /\ saved => file # None /\ AgreeWith(cfg, kept)

\* "A value the operator wrote in the file, or set deliberately through config.set,
\* is untouched and still persists": the password of the configuration that was
\* answered to be persisted is in the file, unless it is the environment's.
SetPasswordsPersist ==
  file # None => \A s \in Sides : kept[s].password \in {file[s].password, Env[s].password}

\* The client secret read from an OAuth2 credentials file lives "in that file", so it
\* is "not copied into the config file".
FileSecretsStay ==
  file # None => \A s \in Sides, f \in Files :
    file[s].oauth # None /\ Holds[f] # None => file[s].oauth.secret # Holds[f].secret
=============================================================================
