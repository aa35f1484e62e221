------------------------- MODULE RuntimeConfigProofs -------------------------
(***************************************************************************)
(* Reconfiguration for any number of callers, any endpoints, secrets,      *)
(* profiles and patches.  Base is inductive by itself: the call that holds *)
(* the mutex carries the configuration it will commit, computed from the   *)
(* one that still holds.  What serves, what was saved and where secrets go *)
(* are inductive on top of it; what serves, where profiles name the        *)
(* directory of their outbox.                                              *)
(***************************************************************************)
EXTENDS RuntimeConfig, TLAPS

Committing == {"swap mailbox", "swap sender", "swap accounts", "save", "write"}

\* The mutex is held by the one call that is past Lock.
Locks == \A t \in Callers : pc[t] \in Locked <=> mu = t

\* What a call makes of the configuration.
Candidate(t) == IF op[t].profile = None THEN Merged(op[t].patch, cfg)
                ELSE WithProfile(op[t].profile, cfg)

\* A call carries a patch, with the configuration it saw, or a profile, and later
\* what it makes of the configuration, which nobody else changes meanwhile.
RequestOf(t) ==
  /\ pc[t] = "rest" => op[t] = NoCall
  /\ pc[t] # "rest" => (op[t].patch = None <=> op[t].profile # None)
  /\ pc[t] \in {"confirm", "merge"} => op[t].patch # None
  /\ pc[t] = "profile" => op[t].profile # None
  /\ op[t].patch # None => op[t].seen # None
  /\ pc[t] = "build" => op[t].next = Candidate(t)
  /\ pc[t] = "assign" => \E b \in BOOLEAN : op[t].next = Hydrated(Candidate(t), b)
  /\ pc[t] \in Committing => op[t].next = cfg
Requests == \A t \in Callers : RequestOf(t)

Base == TypeOK /\ Locks /\ Requests

\* The locals after a step of t, which is then at l.
Moved(t, l) ==
  /\ pc' \in [Callers -> PCs]
  /\ op' \in [Callers -> Calls]
  /\ pc'[t] = l
  /\ \A u \in Callers \ {t} : pc'[u] = pc[u] /\ op'[u] = op[u]

\* Patched OAuth2 settings are OAuth2 settings.
LEMMA OAuthPatchType ==
  ASSUME NEW cur \in OAuth \cup {None}, NEW p \in OAuth
  PROVE  applyOAuth2Patch(cur, p) \in OAuth
  <1> DEFINE o == IF cur = None THEN NoOAuth ELSE cur
             client == IF p.file \notin {None, o.file} THEN NoOAuth ELSE o
  <1>1. o \in OAuth BY DEF OAuth, NoOAuth
  <1>2. client \in OAuth BY <1>1 DEF OAuth, NoOAuth
  <1>3. applyOAuth2Patch(cur, p) =
          [file |-> Or(p.file, o.file), secret |-> Or(p.secret, client.secret),
           url |-> Or(p.url, client.url), grant |-> Or(p.grant, o.grant), hydrated |-> {}]
    BY DEF applyOAuth2Patch
  <1> HIDE DEF o, client
  <1> QED BY <1>1, <1>2, <1>3 DEF OAuth, Or

\* Loading credentials keeps OAuth2 settings what they are.
LEMMA LoadType ==
  ASSUME NEW o \in OAuth \cup {None}
  PROVE  LoadCredentials(o) \in OAuth \cup {None} /\ (o = None <=> LoadCredentials(o) = None)
  <1>1. CASE o = None \/ o.file = None \/ Holds[o.file] = None BY <1>1 DEF LoadCredentials
  <1>2. CASE ~(o = None \/ o.file = None \/ Holds[o.file] = None)
    <2>1. o \in OAuth /\ o.file \in Files BY <1>2 DEF OAuth
    <2>2. Holds[o.file] \in [secret : Secrets, url : Endpoints]
      BY <1>2, <2>1, Inputs DEF Credentials
    <2>3. o.hydrated \cup {f \in Fillable : o[f] = None} \in SUBSET Fillable
      BY <2>1 DEF OAuth
    <2> QED BY <1>2, <2>1, <2>2, <2>3, NoneIsNothing DEF LoadCredentials, OAuth, Or
  <1> QED BY <1>1, <1>2

\* Once loaded, credentials are loaded.
LEMMA LoadTwice ==
  ASSUME NEW o \in OAuth \cup {None}
  PROVE  LoadCredentials(LoadCredentials(o)) = LoadCredentials(o)
  <1>1. CASE o = None \/ o.file = None \/ Holds[o.file] = None BY <1>1 DEF LoadCredentials
  <1>2. CASE ~(o = None \/ o.file = None \/ Holds[o.file] = None)
    <2> DEFINE l == LoadCredentials(o)
    <2>1. o \in OAuth /\ o.file \in Files BY <1>2 DEF OAuth
    <2>2. Holds[o.file] \in [secret : Secrets, url : Endpoints]
      BY <1>2, <2>1, Inputs DEF Credentials
    <2>3. /\ l \in OAuth /\ l.file = o.file /\ l.secret = Or(o.secret, Holds[o.file].secret)
          /\ l.url = Or(o.url, Holds[o.file].url)
      BY <1>2, <2>1, LoadType, NoneIsNothing DEF LoadCredentials, OAuth
    <2>4. l.secret # None /\ l.url # None
      BY <2>1, <2>2, <2>3, NoneIsNothing DEF Or
    <2>5. {f \in Fillable : l[f] = None} = {} BY <2>4 DEF Fillable
    <2>6. l # None /\ l.file # None /\ Holds[l.file] # None
      BY <1>2, <2>3, NoneIsNothing
    <2>7. LoadCredentials(l) = [l EXCEPT !.secret = l.secret, !.url = l.url, !.hydrated = l.hydrated]
      BY <2>4, <2>5, <2>6 DEF LoadCredentials, Or
    <2>8. LoadCredentials(l) = l BY <2>3, <2>7 DEF OAuth
    <2> QED BY <2>8
  <1> QED BY <1>1, <1>2

\* A patched side is a side.
LEMMA MergeSideType ==
  ASSUME NEW p \in SidePatch, NEW cur \in Side
  PROVE  MergeSide(p, cur) \in Side
  <1> DEFINE old == IF Moves(p, cur) THEN Vacated(cur) ELSE cur
  <1>1. old \in Side BY DEF Vacated, Side
  <1>2. MergeSide(p, cur) = MergeOnto(p, cur, old) BY DEF MergeSide
  <1> HIDE DEF old
  <1>3. (IF p.oauth = None THEN old.oauth ELSE applyOAuth2Patch(old.oauth, p.oauth))
          \in OAuth \cup {None}
    <2>1. CASE p.oauth = None BY <1>1, <2>1 DEF Side
    <2>2. CASE p.oauth # None
      <3>1. p.oauth \in OAuth /\ old.oauth \in OAuth \cup {None}
        BY <1>1, <2>2 DEF SidePatch, Side
      <3> QED BY <2>2, <3>1, OAuthPatchType
    <2> QED BY <2>1, <2>2
  <1>4. /\ Or(p.addr, cur.addr) \in Endpoints \cup {None}
        /\ Or(p.user, old.user) \in Users \cup {None}
        /\ Or(p.password, old.password) \in Secrets \cup {None}
        /\ Or(p.insecure, cur.insecure) \in BOOLEAN
    BY <1>1, NoneIsNothing DEF SidePatch, Side, Or
  <1> QED BY <1>2, <1>3, <1>4 DEF MergeOnto, Side

\* A patched configuration is a configuration.
LEMMA MergedType ==
  ASSUME NEW c \in Config, NEW p \in Patches
  PROVE  Merged(p, c) \in Config
  <1>1. p \in Patch /\ c.imap \in Side /\ c.smtp \in Side /\ c.bulk \in Limits
    BY Inputs DEF Config
  <1>2. /\ p.imap \in SidePatch \cup {None}
        /\ p.smtp \in SidePatch \cup {None}
        /\ p.bulk \in Limits \cup {None}
    BY <1>1 DEF Patch
  <1>3. (IF p.imap = None THEN c.imap ELSE MergeSide(p.imap, c.imap)) \in Side
    BY <1>1, <1>2, MergeSideType
  <1>4. (IF p.smtp = None THEN c.smtp ELSE MergeSide(p.smtp, c.smtp)) \in Side
    BY <1>1, <1>2, MergeSideType
  <1>5. Or(p.bulk, c.bulk) \in Limits BY <1>1, <1>2, NoneIsNothing DEF Or
  <1> QED BY <1>3, <1>4, <1>5 DEF Merged, Config

\* A merge goes side by side.
LEMMA MergedSides ==
  ASSUME NEW c \in Config, NEW p, NEW s \in Sides
  PROVE  /\ p[s] = None => Merged(p, c)[s] = c[s]
         /\ p[s] # None => Merged(p, c)[s] = MergeSide(p[s], c[s])
  <1>1. CASE s = "imap" BY <1>1 DEF Merged, Config
  <1>2. CASE s = "smtp" BY <1>2 DEF Merged, Config
  <1> QED BY <1>1, <1>2 DEF Sides

\* What a patch of a side omits is kept, credentials only with their endpoint.
LEMMA MergeSideKeeps ==
  ASSUME NEW p, NEW cur
  PROVE  KeepsOfSide(p, MergeSide(p, cur), cur)
  BY DEF KeepsOfSide, MergeSide, MergeOnto, Or, Moves

\* A configuration with a profile is a configuration.
LEMMA WithProfileType ==
  ASSUME NEW c \in Config, NEW r \in Profiles
  PROVE  WithProfile(r, c) \in Config
  BY Inputs DEF WithProfile, Config, Profile

\* A side with its credentials loaded is a side.
LEMMA LoadSideType ==
  ASSUME NEW x \in Side
  PROVE  LoadSide(x) \in Side
  <1>1. x.oauth \in OAuth \cup {None} BY DEF Side
  <1>2. LoadCredentials(x.oauth) \in OAuth \cup {None} BY <1>1, LoadType
  <1> QED BY <1>2 DEF LoadSide, Side

\* A configuration that is built is a configuration, and the same but for credentials.
LEMMA HydratedType ==
  ASSUME NEW c \in Config, NEW b \in BOOLEAN
  PROVE  /\ Hydrated(c, b) \in Config
         /\ \A s \in Sides : Hydrated(c, b)[s] \in {c[s], LoadSide(c[s])}
         /\ Hydrated(c, b).outbox = c.outbox /\ Hydrated(c, b).bulk = c.bulk
         /\ Hydrated(c, b).profiles = c.profiles
  <1>1. c.imap \in Side /\ c.smtp \in Side BY DEF Config
  <1>2. LoadSide(c.imap) \in Side /\ LoadSide(c.smtp) \in Side BY <1>1, LoadSideType
  <1> QED BY <1>2 DEF Hydrated, Config, Sides

\* A side with the environment over it is a side.
LEMMA OverlaidType ==
  ASSUME NEW s \in Sides, NEW x \in Side
  PROVE  Overlaid(s, x) \in Side
  <1>1. Env[s] \in SideEnv BY Inputs DEF Sides
  <1>2. /\ Or(Env[s].addr, x.addr) \in Endpoints \cup {None}
        /\ Or(Env[s].user, x.user) \in Users \cup {None}
        /\ Or(Env[s].password, x.password) \in Secrets \cup {None}
        /\ Or(Env[s].insecure, x.insecure) \in BOOLEAN
    BY <1>1, NoneIsNothing DEF SideEnv, Side, Or
  <1> QED BY <1>2 DEF Overlaid, Side

\* What a file is loaded into is a configuration, side by side.
LEMMA LoadedType ==
  ASSUME NEW f \in Config \cup {None}
  PROVE  /\ Loaded(f) \in Config
         /\ \A s \in Sides : Loaded(f)[s] = Overlaid(s, IF f = None THEN Default[s] ELSE f[s])
         /\ f # None => /\ Loaded(f).outbox = f.outbox /\ Loaded(f).bulk = f.bulk
                        /\ Loaded(f).profiles = f.profiles
  <1> DEFINE c == IF f = None THEN Default ELSE f
  <1>1. c \in Config BY Inputs
  <1>2. c.imap \in Side /\ c.smtp \in Side /\ c.served \in BOOLEAN BY <1>1 DEF Config
  <1>3. Overlaid("imap", c.imap) \in Side /\ Overlaid("smtp", c.smtp) \in Side
    BY <1>2, OverlaidType DEF Sides
  <1>4. Or(Env.served, c.served) \in BOOLEAN BY <1>2, Inputs DEF Or
  <1>5. Loaded(f) = [c EXCEPT !.imap = Overlaid("imap", c.imap), !.smtp = Overlaid("smtp", c.smtp),
                              !.served = Or(Env.served, c.served)]
    <2> HIDE DEF c
    <2>1. Loaded(f) = [c EXCEPT !.imap = Overlaid("imap", @), !.smtp = Overlaid("smtp", @),
                                !.served = Or(Env.served, @)]
      BY DEF Loaded, c
    <2> QED BY <2>1
  <1>6. f # None => c = f OBVIOUS
  <1>7. \A s \in Sides : c[s] = IF f = None THEN Default[s] ELSE f[s] OBVIOUS
  <1> HIDE DEF c
  <1>8. Loaded(f) \in Config BY <1>1, <1>3, <1>4, <1>5 DEF Config
  <1>9. \A s \in Sides : Loaded(f)[s] = Overlaid(s, c[s]) BY <1>1, <1>5 DEF Config, Sides
  <1>10. /\ Loaded(f).outbox = c.outbox /\ Loaded(f).bulk = c.bulk
         /\ Loaded(f).profiles = c.profiles
    BY <1>1, <1>5 DEF Config
  <1> QED BY <1>6, <1>7, <1>8, <1>9, <1>10

\* What a start makes of a file is a configuration, and the file's but for credentials.
LEMMA StartedType ==
  ASSUME NEW f \in Config \cup {None}
  PROVE  /\ Started(f) \in Config
         /\ \A s \in Sides : Started(f)[s] \in {Loaded(f)[s], LoadSide(Loaded(f)[s])}
         /\ Started(f).outbox = Loaded(f).outbox /\ Started(f).bulk = Loaded(f).bulk
         /\ Started(f).profiles = Loaded(f).profiles
  <1>1. Loaded(f) \in Config BY LoadedType
  <1>2. Loaded(f).outbox \in BOOLEAN BY <1>1 DEF Config
  <1> QED BY <1>1, <1>2, HydratedType DEF Started

\* What is saved of a side is a side.
LEMMA ElidedType ==
  ASSUME NEW s \in Sides, NEW x \in Side
  PROVE  Elided(s, x) \in Side
  <1>1. x.oauth \in OAuth \cup {None} BY DEF Side
  <1>2. WithoutHydrated(x.oauth) \in OAuth \cup {None} BY <1>1 DEF WithoutHydrated, OAuth
  <1> QED BY <1>2 DEF Elided, Side

\* What is saved of a configuration is one, side by side.
LEMMA ForSaveType ==
  ASSUME NEW c \in Config
  PROVE  /\ forSave(c) \in Config
         /\ \A s \in Sides : forSave(c)[s] = Elided(s, c[s])
         /\ forSave(c).outbox = c.outbox /\ forSave(c).bulk = c.bulk
         /\ forSave(c).profiles = c.profiles
  <1>1. c.imap \in Side /\ c.smtp \in Side BY DEF Config
  <1>2. Elided("imap", c.imap) \in Side /\ Elided("smtp", c.smtp) \in Side
    BY <1>1, ElidedType DEF Sides
  <1> QED BY <1>2 DEF forSave, Config, Sides

\* What is built of a configuration can run.
LEMMA BuiltType ==
  ASSUME NEW c \in Config
  PROVE  Built(c) \in Running
  BY DEF Built, Config, Running

\* Who is acted for is a user.
LEMMA SubjectType ==
  ASSUME NEW x \in Side \cup {None}
  PROVE  Subject(x) \in Users \cup {None}
  BY DEF Subject, Side

\* Secrets are used with endpoints.
LEMMA UsesType == ASSUME NEW x PROVE Uses(x) \subseteq Secrets \X Endpoints
  BY DEF Uses, Logins, Tokens

\* Loading the credentials of a side changes nothing but them, nor where they go.
LEMMA LoadSideKeeps ==
  ASSUME NEW x \in Side
  PROVE  /\ LoadSide(x).addr = x.addr /\ LoadSide(x).user = x.user
         /\ LoadSide(x).password = x.password /\ LoadSide(x).insecure = x.insecure
         /\ LoadCredentials(LoadSide(x).oauth) = LoadCredentials(x.oauth)
         /\ LoadSide(LoadSide(x)) = LoadSide(x)
         /\ Tokens(LoadSide(x)) = Tokens(x)
         /\ Uses(LoadSide(x)) = Uses(x)
  <1>1. x.oauth \in OAuth \cup {None} BY DEF Side
  <1>2. LoadCredentials(LoadCredentials(x.oauth)) = LoadCredentials(x.oauth) BY <1>1, LoadTwice
  <1>3. /\ LoadSide(x).addr = x.addr /\ LoadSide(x).user = x.user
        /\ LoadSide(x).password = x.password /\ LoadSide(x).insecure = x.insecure
        /\ LoadSide(x).oauth = IF x.addr = None THEN x.oauth ELSE LoadCredentials(x.oauth)
    BY DEF LoadSide, Side
  <1>4. LoadCredentials(LoadSide(x).oauth) = LoadCredentials(x.oauth) BY <1>2, <1>3
  <1>5. LoadSide(LoadSide(x)) = LoadSide(x)
    <2>1. CASE x.addr = None BY <2>1 DEF LoadSide
    <2>2. CASE x.addr # None
      <3>1. PICK l : l = LoadCredentials(x.oauth) OBVIOUS
      <3>2. LoadSide(x) = [x EXCEPT !.oauth = l] BY <2>2, <3>1 DEF LoadSide
      <3>3. LoadSide(LoadSide(x)) = [[x EXCEPT !.oauth = l] EXCEPT !.oauth = LoadCredentials(l)]
        BY <1>3, <2>2, <3>2 DEF LoadSide, Side
      <3>4. LoadCredentials(l) = l BY <1>2, <3>1
      <3> QED BY <3>2, <3>3, <3>4
    <2> QED BY <2>1, <2>2
  <1>6. Tokens(LoadSide(x)) = Tokens(x) BY <1>4 DEF Tokens
  <1>7. x # None /\ LoadSide(x) # None BY LoadSideType, NoneIsNothing
  <1>8. Uses(LoadSide(x)) = Uses(x) BY <1>3, <1>6, <1>7 DEF Uses, Logins
  <1> QED BY <1>3, <1>4, <1>5, <1>6, <1>8

\* What a call makes of the configuration is one.
LEMMA CandidateType ==
  ASSUME TypeOK, Requests, NEW t \in Callers, pc[t] \in {"build", "assign"}
  PROVE  Candidate(t) \in Config
  <1>1. /\ op[t].patch \in Patches \cup {None} /\ op[t].profile \in Profiles \cup {None}
        /\ cfg \in Config
    BY DEF TypeOK, Calls
  <1>2. op[t].patch = None <=> op[t].profile # None BY DEF Requests, RequestOf
  <1>3. CASE op[t].profile = None BY <1>1, <1>2, <1>3, MergedType DEF Candidate
  <1>4. CASE op[t].profile # None BY <1>1, <1>4, WithProfileType DEF Candidate
  <1> QED BY <1>3, <1>4

\* Those who are acted for are users.
LEMMA SubjectsType ==
  ASSUME NEW l \in Running
  PROVE  [s \in Sides |-> Subject(l[s])] \in [Sides -> Users \cup {None}]
  <1>1. l.imap \in Side \cup {None} /\ l.smtp \in Side \cup {None} BY DEF Running
  <1>2. Subject(l.imap) \in Users \cup {None} /\ Subject(l.smtp) \in Users \cup {None}
    BY <1>1, SubjectType
  <1> QED BY <1>2 DEF Sides

\* At the beginning no call has been made.
LEMMA InitBase == Init => Base
  <1> SUFFICES ASSUME Init PROVE Base
    OBVIOUS
  <1>1. TypeOK
    <2>1. Original \in Config /\ cfg \in Config BY StartedType, Inputs DEF Init
    <2>2. \A x : Uses(x) \subseteq Secrets \X Endpoints BY UsesType
    <2>3. given \subseteq Secrets \X Endpoints BY <2>2 DEF Init, UsesOf
    <2>4. live \in Running BY <2>1, BuiltType DEF Init
    <2>5. acting \in [Sides -> Users \cup {None}] BY <2>4, SubjectsType DEF Init
    <2>6. op \in [Callers -> Calls] BY DEF Init, NoCall, Calls
    <2>7. asked \in 0 .. MaxCalls BY Inputs DEF Init
    <2> QED BY <2>1, <2>3, <2>4, <2>5, <2>6, <2>7 DEF Init, TypeOK, PCs
  <1>2. Locks BY NoneIsNothing DEF Init, Locks, Locked
  <1>3. Requests BY DEF Init, Requests, RequestOf, NoCall, Committing
  <1> QED BY <1>1, <1>2, <1>3 DEF Base

\* What a call carries is nobody else's business, except the configuration.
LEMMA OneRequest ==
  ASSUME Requests, NEW t \in Callers, RequestOf(t)',
         \A u \in Callers \ {t} : pc'[u] = pc[u] /\ op'[u] = op[u],
         cfg' = cfg \/ \A u \in Callers \ {t} : pc[u] \notin Locked
  PROVE  Requests'
  <1> SUFFICES ASSUME NEW u \in Callers, u # t PROVE RequestOf(u)'
    BY DEF Requests
  <1>1. pc'[u] = pc[u] /\ op'[u] = op[u] /\ RequestOf(u)
    BY DEF Requests
  <1>2. CASE cfg' = cfg
    <2>1. Candidate(u)' = Candidate(u) BY <1>1, <1>2 DEF Candidate
    <2> QED BY <1>1, <1>2, <2>1 DEF RequestOf
  <1>3. CASE pc[u] \notin Locked
    BY <1>1, <1>3 DEF RequestOf, Locked, Committing
  <1> QED BY <1>2, <1>3

\* A call that ends carries nothing.
LEMMA FinishLocals ==
  ASSUME TypeOK, NEW t \in Callers, Finish(t)
  PROVE  Moved(t, "rest") /\ RequestOf(t)'
  <1> USE DEF TypeOK, Finish, Goto, Moved
  <1>1. /\ pc'[t] = "rest" /\ op'[t] = NoCall
        /\ \A u \in Callers \ {t} : pc'[u] = pc[u] /\ op'[u] = op[u]
    OBVIOUS
  <1>2. pc' \in [Callers -> PCs] BY DEF PCs
  <1>3. op' \in [Callers -> Calls] BY DEF NoCall, Calls
  <1>4. RequestOf(t)' BY <1>1 DEF RequestOf, NoCall, Committing
  <1> QED BY <1>1, <1>2, <1>3, <1>4

\* A call that goes on, with what it carried or something else.
LEMMA GotoLocals ==
  ASSUME TypeOK, NEW t \in Callers, NEW l \in PCs, Goto(t, l),
         \/ op' = op
         \/ \E c \in Calls : op' = [op EXCEPT ![t] = c]
         \/ \E c \in Config : op' = [op EXCEPT ![t].next = c]
  PROVE  Moved(t, l)
  <1> USE DEF TypeOK, Goto, Moved
  <1>1. CASE op' = op BY <1>1
  <1>2. ASSUME NEW c \in Calls, op' = [op EXCEPT ![t] = c]
        PROVE  op' \in [Callers -> Calls] /\ \A u \in Callers \ {t} : op'[u] = op[u]
    BY <1>2
  <1>3. ASSUME NEW c \in Config, op' = [op EXCEPT ![t].next = c]
        PROVE  op' \in [Callers -> Calls] /\ \A u \in Callers \ {t} : op'[u] = op[u]
    <2>1. [op[t] EXCEPT !.next = c] \in Calls BY DEF Calls
    <2>2. op' = [op EXCEPT ![t] = [op[t] EXCEPT !.next = c]] BY <1>3
    <2> QED BY <2>1, <2>2
  <1>4. pc' \in [Callers -> PCs] /\ pc'[t] = l /\ \A u \in Callers \ {t} : pc'[u] = pc[u]
    OBVIOUS
  <1> QED BY <1>1, <1>2, <1>3, <1>4

\* A call that stays inside or outside the mutex, takes it, or gives it back.
LEMMA LocksKept ==
  ASSUME Locks, NEW t \in Callers, NEW l \in PCs, Moved(t, l),
         \/ mu' = mu /\ (l \in Locked <=> pc[t] \in Locked)
         \/ mu = None /\ mu' = t /\ l \in Locked
         \/ mu' = None /\ pc[t] \in Locked /\ l \notin Locked
  PROVE  Locks'
  <1> USE NoneIsNothing DEF Locks, Moved
  <1> SUFFICES ASSUME NEW u \in Callers PROVE pc'[u] \in Locked <=> mu' = u
    OBVIOUS
  <1>1. CASE u = t BY <1>1
  <1>2. CASE u # t BY <1>2
  <1> QED BY <1>1, <1>2

\* No other call is past Lock.
LEMMA Alone ==
  ASSUME Locks, NEW t \in Callers, pc[t] \in Locked
  PROVE  mu = t /\ \A u \in Callers \ {t} : pc[u] \notin Locked
  BY DEF Locks

\* What a locked step does to the locals, to the mutex and to nothing else.
LEMMA LockedStep ==
  ASSUME Base, NEW t \in Callers, pc[t] \in Locked, NEW l \in PCs, Moved(t, l),
         mu' = (IF l \in Locked THEN mu ELSE None), RequestOf(t)'
  PROVE  Locks' /\ Requests'
  <1> USE DEF Base
  <1>1. mu = t /\ \A u \in Callers \ {t} : pc[u] \notin Locked BY Alone
  <1>2. Locks' BY <1>1, LocksKept
  <1>3. Requests' BY <1>1, OneRequest DEF Moved
  <1> QED BY <1>2, <1>3

\* What a call carries, while it goes on.
LEMMA Carried ==
  ASSUME TypeOK, NEW t \in Callers
  PROVE  /\ op[t].patch \in Patches \cup {None} /\ op[t].profile \in Profiles \cup {None}
         /\ op[t].next \in Config \cup {None} /\ op[t].seen \in Config \cup {None}
         /\ cfg \in Config /\ cfg.outbox \in BOOLEAN
  BY DEF TypeOK, Calls, Config

\* Every step of a call keeps the locals.
LEMMA StepLocals ==
  ASSUME Base, NEW t \in Callers, Step(t)
  PROVE  Locks' /\ Requests' /\ \E l \in PCs : Moved(t, l)
  <1> USE DEF Base, PCs, Locked
  <1>0. RequestOf(t) /\ mu \in Callers \cup {None} /\ cfg \in Config
    BY DEF Requests, TypeOK
  <1>1. CASE Confirm(t)
    <2>1. CASE Goto(t, "lock") /\ UNCHANGED op
      <3>1. Moved(t, "lock") BY <2>1, GotoLocals
      <3>2. Locks' BY <1>1, <3>1, LocksKept DEF Confirm
      <3>3. RequestOf(t)' BY <1>0, <1>1, <2>1, <3>1 DEF RequestOf, Confirm, Moved, Committing
      <3> QED BY <1>1, <3>1, <3>2, <3>3, OneRequest DEF Confirm, Moved
    <2>2. CASE Finish(t)
      <3>1. Moved(t, "rest") /\ RequestOf(t)' BY <2>2, FinishLocals
      <3>2. Locks' BY <1>1, <3>1, LocksKept DEF Confirm
      <3> QED BY <1>1, <3>1, <3>2, OneRequest DEF Confirm, Moved
    <2> QED BY <1>1, <2>1, <2>2 DEF Confirm
  <1>2. CASE Lock(t)
    <2>1. PICK l \in {"merge", "profile"} :
            Goto(t, l) /\ l = (IF op[t].profile = None THEN "merge" ELSE "profile")
      BY <1>2 DEF Lock
    <2>2. Moved(t, l) BY <1>2, <2>1, GotoLocals DEF Lock
    <2>3. Locks' BY <1>2, <2>2, LocksKept DEF Lock
    <2>4. RequestOf(t)' BY <1>0, <1>2, <2>1, <2>2 DEF RequestOf, Lock, Moved, Committing
    <2> QED BY <1>2, <2>2, <2>3, <2>4, OneRequest DEF Lock, Moved
  <1>3. CASE pc[t] \in Locked /\ Release(t) /\ UNCHANGED cfg
    BY <1>3, FinishLocals, LockedStep DEF Release
  <1>4. ASSUME NEW c \in Config, pc[t] \in {"profile", "merge"}, mu' = mu, cfg' = cfg,
               op' = [op EXCEPT ![t].next = c], Goto(t, "build"), c = Candidate(t)
        PROVE  Locks' /\ Requests' /\ \E l \in PCs : Moved(t, l)
    <2>1. Moved(t, "build") BY <1>4, GotoLocals
    <2>2. /\ op'[t].next = c /\ op'[t].profile = op[t].profile /\ op'[t].patch = op[t].patch
          /\ op'[t].seen = op[t].seen
      BY <1>4 DEF TypeOK, Calls
    <2>3. Candidate(t)' = c BY <1>4, <2>2 DEF Candidate
    <2>4. RequestOf(t)' BY <1>0, <1>4, <2>1, <2>2, <2>3 DEF RequestOf, Moved, Committing
    <2> QED BY <1>4, <2>1, <2>4, LockedStep
  <1>5. CASE ConfirmProfile(t)
    <2>1. CASE op' = [op EXCEPT ![t].next = WithProfile(op[t].profile, cfg)] /\ Goto(t, "build")
               /\ UNCHANGED mu
      <3>1. op[t].profile \in Profiles /\ WithProfile(op[t].profile, cfg) = Candidate(t)
        BY <1>0, <1>5, Carried DEF ConfirmProfile, RequestOf, Candidate
      <3>2. Candidate(t) \in Config BY <1>0, <3>1, WithProfileType
      <3> QED BY <1>4, <1>5, <2>1, <3>1, <3>2 DEF ConfirmProfile
    <2> QED BY <1>3, <1>5, <2>1 DEF ConfirmProfile
  <1>6. CASE Merge(t)
    <2>1. CASE op' = [op EXCEPT ![t].next = Merged(op[t].patch, cfg)] /\ Goto(t, "build")
               /\ UNCHANGED mu
      <3>1. op[t].patch \in Patches /\ Merged(op[t].patch, cfg) = Candidate(t)
        BY <1>0, <1>6, Carried DEF Merge, RequestOf, Candidate
      <3>2. Candidate(t) \in Config BY <1>0, <3>1, MergedType
      <3> QED BY <1>4, <1>6, <2>1, <3>1, <3>2 DEF Merge
    <2> QED BY <1>3, <1>6, <2>1 DEF Merge
  <1>7. ASSUME NEW l \in Locked, pc[t] \in Locked, Goto(t, l), UNCHANGED <<mu, op>>,
               RequestOf(t)'
        PROVE  Locks' /\ Requests' /\ \E k \in PCs : Moved(t, k)
    <2>1. Moved(t, l) BY <1>7, GotoLocals
    <2> QED BY <1>7, <2>1, LockedStep
  <1>8. CASE Build(t)
    <2> DEFINE next == Hydrated(op[t].next, Sending(op[t].next))
    <2>1. CASE op' = [op EXCEPT ![t].next = next] /\ Goto(t, "assign") /\ UNCHANGED mu
      <3>1. Candidate(t) \in Config /\ op[t].next = Candidate(t) /\ pc[t] = "build" /\ cfg' = cfg
        BY <1>0, <1>8, CandidateType DEF Build, RequestOf
      <3>2. PICK b \in BOOLEAN : b = Sending(op[t].next)
        BY <3>1 DEF Sending, Config
      <3>3. next = Hydrated(Candidate(t), b) BY <3>1, <3>2
      <3>4. next \in Config BY <3>1, <3>3, HydratedType
      <3> HIDE DEF next
      <3>5. Moved(t, "assign") BY <2>1, <3>4, GotoLocals
      <3>6. /\ op'[t].next = next /\ op'[t].profile = op[t].profile /\ op'[t].patch = op[t].patch
            /\ op'[t].seen = op[t].seen
        BY <2>1, <3>4 DEF TypeOK, Calls
      <3>7. Candidate(t)' = Candidate(t) BY <3>1, <3>6 DEF Candidate
      <3>8. \E a \in BOOLEAN : op'[t].next = Hydrated(Candidate(t)', a)
        BY <3>2, <3>3, <3>6, <3>7
      <3>9. RequestOf(t)'
        BY <1>0, <3>1, <3>5, <3>6, <3>8 DEF RequestOf, Moved, Committing
      <3> QED BY <2>1, <3>1, <3>5, <3>9, LockedStep
    <2> QED BY <1>3, <1>8, <2>1 DEF Build
  <1>9. CASE Assign(t)
    <2>1. Moved(t, "swap mailbox") BY <1>9, GotoLocals DEF Assign
    <2>2. RequestOf(t)' BY <1>0, <1>9, <2>1 DEF RequestOf, Assign, Moved, Committing
    <2> QED BY <1>7, <1>9, <2>2 DEF Assign
  <1>10. ASSUME NEW l \in Committing, pc[t] \in Committing, Goto(t, l), UNCHANGED <<cfg, mu, op>>
         PROVE  Locks' /\ Requests' /\ \E k \in PCs : Moved(t, k)
    <2>1. Moved(t, l) BY <1>10, GotoLocals DEF Committing
    <2>2. RequestOf(t)' BY <1>0, <1>10, <2>1 DEF RequestOf, Moved, Committing
    <2> QED BY <1>7, <1>10, <2>2 DEF Committing
  <1>11. CASE SwapMailbox(t) BY <1>10, <1>11 DEF SwapMailbox, Committing
  <1>12. CASE SwapSender(t) BY <1>10, <1>12 DEF SwapSender, Committing
  <1>13. CASE SwapAccounts(t) BY <1>10, <1>13 DEF SwapAccounts, Committing
  <1>14. CASE Truncate(t) BY <1>3, <1>10, <1>14 DEF Truncate, Committing
  <1>15. CASE Write(t) BY <1>3, <1>15 DEF Write
  <1> QED BY <1>1, <1>2, <1>5, <1>6, <1>8, <1>9, <1>11, <1>12, <1>13, <1>14, <1>15 DEF Step

\* A call that begins keeps the locals.
LEMMA AskLocals ==
  ASSUME Base, NEW t \in Callers,
         (\E p \in Patches : Ask(t, p)) \/ \E r \in Profiles : AskProfile(t, r)
  PROVE  Locks' /\ Requests' /\ \E l \in PCs : Moved(t, l)
  <1> USE DEF Base, PCs, Locked
  <1>0. cfg \in Config /\ cfg # None BY NoneIsNothing DEF TypeOK
  <1>1. ASSUME NEW p \in Patches, Ask(t, p) PROVE Locks' /\ Requests' /\ Moved(t, "confirm")
    <2>1. PICK c \in Calls : c = [NoCall EXCEPT !.patch = p, !.seen = cfg]
      BY <1>0 DEF NoCall, Calls
    <2>2. op' = [op EXCEPT ![t] = c] BY <1>1, <2>1 DEF Ask
    <2>3. Moved(t, "confirm") BY <1>1, <2>2, GotoLocals DEF Ask
    <2>4. Locks' BY <1>1, <2>3, LocksKept DEF Ask
    <2>5. op'[t].patch # None /\ op'[t].profile = None /\ op'[t].seen # None
      BY <1>0, <2>1, <2>2, NoneIsNothing DEF TypeOK, NoCall
    <2>6. RequestOf(t)' BY <2>3, <2>5 DEF RequestOf, Moved, Committing
    <2> QED BY <1>1, <2>3, <2>4, <2>6, OneRequest DEF Ask, Moved
  <1>2. ASSUME NEW r \in Profiles, AskProfile(t, r) PROVE Locks' /\ Requests' /\ Moved(t, "lock")
    <2>1. PICK c \in Calls : c = [NoCall EXCEPT !.profile = r] BY DEF NoCall, Calls
    <2>2. op' = [op EXCEPT ![t] = c] BY <1>2, <2>1 DEF AskProfile
    <2>3. Moved(t, "lock") BY <1>2, <2>2, GotoLocals DEF AskProfile
    <2>4. Locks' BY <1>2, <2>3, LocksKept DEF AskProfile
    <2>5. op'[t].patch = None /\ op'[t].profile # None
      BY <2>1, <2>2, NoneIsNothing DEF TypeOK, NoCall
    <2>6. RequestOf(t)' BY <2>3, <2>5 DEF RequestOf, Moved, Committing
    <2> QED BY <1>2, <2>3, <2>4, <2>6, OneRequest DEF AskProfile, Moved
  <1> QED BY <1>1, <1>2

\* What is shared keeps its type in every step of a call.
LEMMA StepShared ==
  ASSUME Base, NEW t \in Callers, Step(t)
  PROVE  /\ cfg' \in Config /\ live' \in Running /\ acting' \in [Sides -> Users \cup {None}]
         /\ file' \in Config \cup {None} /\ saved' \in BOOLEAN /\ mu' \in Callers \cup {None}
         /\ asked' \in 0 .. MaxCalls /\ kept' \in Config
         /\ given' \subseteq Secrets \X Endpoints
         /\ strayed' \subseteq Secrets \X Endpoints
         /\ redirected' \subseteq Secrets \X Endpoints
  <1> USE DEF history
  <1>0. RequestOf(t) /\ TypeOK /\ Requests BY DEF Base, Requests
  <1>t. /\ cfg \in Config /\ live \in Running /\ acting \in [Sides -> Users \cup {None}]
        /\ file \in Config \cup {None} /\ saved \in BOOLEAN /\ mu \in Callers \cup {None}
        /\ asked \in 0 .. MaxCalls /\ kept \in Config
        /\ given \subseteq Secrets \X Endpoints
        /\ strayed \subseteq Secrets \X Endpoints
        /\ redirected \subseteq Secrets \X Endpoints
    BY <1>0 DEF TypeOK
  <1>1. CASE UNCHANGED <<cfg, live, acting, file, saved, asked, history>> /\ mu' \in {mu, t, None}
    BY <1>t, <1>1
  <1>2. CASE Build(t)
    <2>1. Candidate(t) \in Config /\ op[t].next = Candidate(t)
      BY <1>0, <1>2, CandidateType DEF Build, RequestOf
    <2>2. PICK b \in BOOLEAN : b = Sending(op[t].next) BY <2>1 DEF Sending, Config
    <2>3. PICK next \in Config : next = Hydrated(op[t].next, Sending(op[t].next))
      BY <2>1, <2>2, HydratedType
    <2>4. Subject(next.imap) \in Users \cup {None} /\ Subject(next.smtp) \in Users \cup {None}
      BY <2>3, SubjectType DEF Config
    <2>5. PICK loaded : acting' = [s \in Sides |-> IF s \in loaded /\ Shares(t, s)
                                                   THEN Subject(next[s]) ELSE acting[s]]
      BY <1>2, <2>3 DEF Build
    <2>6. acting' \in [Sides -> Users \cup {None}] BY <1>t, <2>4, <2>5 DEF Sides
    <2>7. UNCHANGED <<cfg, live, file, saved, asked, history>> /\ mu' \in {mu, None}
      BY <1>2 DEF Build, Release
    <2> QED BY <1>t, <2>6, <2>7
  <1>3. CASE Assign(t)
    <2>1. op[t].next \in Config
      <3>1. PICK b \in BOOLEAN : op[t].next = Hydrated(Candidate(t), b)
        BY <1>0, <1>3 DEF Assign, RequestOf
      <3>2. Candidate(t) \in Config BY <1>0, <1>3, CandidateType DEF Assign
      <3> QED BY <3>1, <3>2, HydratedType
    <2>2. /\ \A x : Uses(x) \subseteq Secrets \X Endpoints
          /\ \A x : Tokens(x) \subseteq Secrets \X Endpoints
      BY UsesType DEF Tokens
    <2>3. Provides(t) \subseteq Secrets \X Endpoints BY <2>2 DEF Provides
    <2>4. Strays(t) \subseteq Secrets \X Endpoints BY <2>2 DEF Strays
    <2>5. Redirects(t) \subseteq Secrets \X Endpoints BY <2>2 DEF Redirects
    <2> QED BY <1>t, <1>3, <2>1, <2>3, <2>4, <2>5 DEF Assign
  <1>n. CASE op[t].next = cfg /\ SwapMailbox(t)
    <2>1. Subject(cfg.imap) \in Users \cup {None} BY <1>t, SubjectType DEF Config
    <2> QED BY <1>t, <1>n, <2>1 DEF SwapMailbox, Running, Config, Sides
  <1>4. CASE SwapMailbox(t) BY <1>0, <1>4, <1>n DEF SwapMailbox, RequestOf, Committing
  <1>m. CASE op[t].next = cfg /\ SwapSender(t)
    <2>1. Subject(cfg.smtp) \in Users \cup {None} BY <1>t, SubjectType DEF Config
    <2>2. UNCHANGED <<cfg, file, saved, mu, asked, history>> BY <1>m DEF SwapSender
    <2>3. CASE Sending(cfg)
      BY <1>t, <1>m, <2>1, <2>2, <2>3 DEF SwapSender, Running, Config, Sides
    <2>4. CASE ~Sending(cfg) BY <1>t, <1>m, <2>2, <2>4 DEF SwapSender
    <2> QED BY <2>3, <2>4
  <1>5. CASE SwapSender(t) BY <1>0, <1>5, <1>m DEF SwapSender, RequestOf, Committing
  <1>6. CASE SwapAccounts(t)
    <2>1. op[t].next = cfg BY <1>0, <1>6 DEF SwapAccounts, RequestOf, Committing
    <2> QED BY <1>t, <1>6, <2>1 DEF SwapAccounts, Running, Config
  <1>7. CASE Truncate(t) BY <1>t, <1>7 DEF Truncate, Release
  <1>8. CASE Write(t)
    <2>1. op[t].next = cfg BY <1>0, <1>8 DEF Write, RequestOf, Committing
    <2>2. forSave(cfg) \in Config BY <1>t, ForSaveType
    <2> QED BY <1>t, <1>8, <2>1, <2>2 DEF Write, Release
  <1> QED
    BY <1>1, <1>2, <1>3, <1>4, <1>5, <1>6, <1>7, <1>8
       DEF Step, Confirm, Lock, ConfirmProfile, Merge, Release

\* A restart forgets every call.
LEMMA RestartBase == Base /\ Restart => Base'
  <1> SUFFICES ASSUME Base, Restart PROVE Base'
    OBVIOUS
  <1>1. TypeOK'
    <2>1. cfg' \in Config BY StartedType DEF Base, TypeOK, Restart
    <2>2. live' \in Running BY <2>1, BuiltType DEF Restart
    <2>3. acting' \in [Sides -> Users \cup {None}] BY <2>2, SubjectsType DEF Restart
    <2>4. op' \in [Callers -> Calls] BY DEF Restart, NoCall, Calls
    <2> QED BY <2>1, <2>2, <2>3, <2>4 DEF Restart, Base, TypeOK, PCs, history
  <1>2. Locks' BY NoneIsNothing DEF Restart, Locks, Locked
  <1>3. Requests' BY DEF Restart, Requests, RequestOf, NoCall, Committing
  <1> QED BY <1>1, <1>2, <1>3 DEF Base

\* The bookkeeping of the calls is inductive.
LEMMA NextBase == Base /\ [Next]_vars => Base'
  <1> SUFFICES ASSUME Base, [Next]_vars PROVE Base'
    OBVIOUS
  <1>1. ASSUME NEW t \in Callers, Step(t) PROVE Base'
    BY <1>1, StepLocals, StepShared DEF Base, TypeOK, Moved
  <1>2. ASSUME NEW t \in Callers,
               (\E p \in Patches : Ask(t, p)) \/ \E r \in Profiles : AskProfile(t, r)
        PROVE  Base'
    <2>1. Locks' /\ Requests' /\ \E l \in PCs : Moved(t, l) BY <1>2, AskLocals
    <2>2. UNCHANGED <<cfg, live, acting, file, saved, mu, history>>
      BY <1>2 DEF Ask, AskProfile
    <2>3. asked' \in 0 .. MaxCalls
      <3>1. asked' = asked + 1 /\ asked < MaxCalls BY <1>2 DEF Ask, AskProfile
      <3>2. asked \in 0 .. MaxCalls /\ MaxCalls \in Nat BY Inputs DEF Base, TypeOK
      <3> QED BY <3>1, <3>2
    <2> QED BY <2>1, <2>2, <2>3 DEF Base, TypeOK, Moved, history
  <1>3. CASE Restart BY <1>3, RestartBase
  <1>4. CASE UNCHANGED vars
    <2>1. \A t \in Callers : Candidate(t)' = Candidate(t) BY <1>4 DEF vars, Candidate
    <2> QED BY <1>4, <2>1 DEF vars, history, Base, TypeOK, Locks, Requests, RequestOf
  <1> QED BY <1>1, <1>2, <1>3, <1>4 DEF Next

\* The calls of config.set are serialized and every variable keeps its type.
THEOREM Serialized == Spec => []Base
  <1> QED BY InitBase, NextBase, PTL DEF Spec

\* Every variable keeps its type, whatever is patched, switched and restarted.
THEOREM TypeCorrect == Spec => []TypeOK
  <1>1. Base => TypeOK BY DEF Base
  <1> QED BY <1>1, Serialized, PTL

-----------------------------------------------------------------------------
(* What serves.                                                             *)

Swapping == {"swap mailbox", "swap sender", "swap accounts"}

\* What runs is what is configured, as far as the swaps have come.
Serving ==
  /\ live.smtp # None => cfg.outbox
  /\ (\A t \in Callers : pc[t] \notin Swapping) =>
       /\ live.imap = cfg.imap /\ live.bulk = cfg.bulk /\ live.accounts = cfg.bulk
       /\ live.smtp \in {None, cfg.smtp}
  /\ \A t \in Callers : pc[t] \in {"swap sender", "swap accounts"} =>
       live.imap = cfg.imap /\ live.bulk = cfg.bulk
  /\ \A t \in Callers : pc[t] = "swap accounts" => live.smtp \in {None, cfg.smtp}

\* Profiles with an outbox say where it is.
DirNamed == \A r \in Profiles : r.smtp # None => r.outbox

\* A step before or after the swaps disturbs nothing.
LEMMA ServingKept ==
  ASSUME Serving, NEW t \in Callers, pc[t] \notin Swapping, pc'[t] \notin Swapping,
         \A u \in Callers \ {t} : pc'[u] = pc[u], cfg' = cfg, live' = live
  PROVE  Serving'
  BY DEF Serving, Swapping

\* Who swaps swaps alone.
LEMMA ServingStep ==
  ASSUME DirNamed, Base, Serving, NEW t \in Callers, Step(t)
  PROVE  Serving'
  <1> USE DEF Swapping
  <1>0. PICK l \in PCs : Moved(t, l) BY StepLocals
  <1>1. \A u \in Callers \ {t} : pc'[u] = pc[u] BY <1>0 DEF Moved
  <1>2. pc'[t] = l BY <1>0 DEF Moved
  <1>3. RequestOf(t) /\ pc \in [Callers -> PCs] BY DEF Base, Requests, TypeOK
  <1>4. \A k : Goto(t, k) => pc'[t] = k BY <1>3 DEF Goto
  <1>5. pc[t] \in Locked => \A u \in Callers \ {t} : pc[u] \notin Swapping
    BY Alone DEF Base, Locked
  <1>6. CASE Confirm(t) BY <1>1, <1>4, <1>6, ServingKept DEF Confirm, Finish
  <1>7. CASE Lock(t) BY <1>1, <1>4, <1>7, ServingKept DEF Lock
  <1>8. CASE ConfirmProfile(t)
    BY <1>1, <1>4, <1>8, ServingKept DEF ConfirmProfile, Release, Finish
  <1>9. CASE Merge(t) BY <1>1, <1>4, <1>9, ServingKept DEF Merge, Release, Finish
  <1>10. CASE Build(t) BY <1>1, <1>4, <1>10, ServingKept DEF Build, Release, Finish
  <1>11. CASE Assign(t)
    <2>1. pc[t] = "assign" /\ pc'[t] = "swap mailbox" /\ cfg' = op[t].next /\ live' = live
      BY <1>4, <1>11 DEF Assign
    <2>2. cfg.outbox => cfg'.outbox
      <3>1. /\ op[t].profile \in Profiles \cup {None} /\ Candidate(t) \in Config
            /\ cfg \in Config
        BY <2>1, CandidateType, Carried DEF Base
      <3>2. PICK b \in BOOLEAN : cfg' = Hydrated(Candidate(t), b)
        BY <1>3, <2>1 DEF RequestOf
      <3>3. cfg'.outbox = Candidate(t).outbox BY <3>1, <3>2, HydratedType
      <3>4. CASE op[t].profile = None
        <4>1. Candidate(t).outbox = cfg.outbox BY <3>4 DEF Candidate, Merged
        <4> QED BY <3>3, <4>1
      <3>5. CASE op[t].profile # None
        <4>1. cfg.outbox => WithProfile(op[t].profile, cfg).outbox
          BY <3>1, <3>5 DEF DirNamed, WithProfile, Config
        <4> QED BY <3>3, <3>5, <4>1 DEF Candidate
      <3> QED BY <3>4, <3>5
    <2>3. \A u \in Callers : pc'[u] \notin {"swap sender", "swap accounts"}
      BY <1>1, <1>5, <2>1 DEF Locked
    <2>4. ~\A u \in Callers : pc'[u] \notin Swapping BY <2>1
    <2>5. live'.smtp # None => cfg'.outbox BY <2>1, <2>2 DEF Serving
    <2>6. \A u \in Callers : pc'[u] # "swap accounts" BY <2>3
    <2> HIDE DEF Swapping
    <2> QED BY <2>3, <2>4, <2>5, <2>6, Zenon DEF Serving
  <1>a. live \in Running /\ (live.smtp # None => cfg.outbox) BY DEF Base, TypeOK, Serving
  <1>12. CASE SwapMailbox(t)
    <2>1. /\ pc[t] = "swap mailbox" /\ pc'[t] = "swap sender" /\ op[t].next = cfg /\ cfg' = cfg
          /\ live' = [live EXCEPT !.imap = op[t].next.imap, !.bulk = op[t].next.bulk]
      BY <1>3, <1>4, <1>12 DEF SwapMailbox, RequestOf, Committing
    <2>2. live'.imap = cfg'.imap /\ live'.bulk = cfg'.bulk /\ live'.smtp = live.smtp
      BY <1>a, <2>1 DEF Running
    <2>3. \A u \in Callers \ {t} : pc'[u] \notin Swapping BY <1>1, <1>5, <2>1 DEF Locked
    <2> QED BY <1>a, <2>1, <2>2, <2>3 DEF Serving
  <1>13. CASE SwapSender(t)
    <2>1. /\ pc[t] = "swap sender" /\ pc'[t] = "swap accounts" /\ op[t].next = cfg /\ cfg' = cfg
          /\ live' = IF live.smtp # None /\ op[t].next.outbox
                     THEN [live EXCEPT !.smtp = op[t].next.smtp] ELSE live
      BY <1>3, <1>4, <1>13 DEF SwapSender, RequestOf, Committing, Sending
    <2>2. live.imap = cfg.imap /\ live.bulk = cfg.bulk BY <2>1 DEF Serving
    <2>3. /\ live'.imap = cfg'.imap /\ live'.bulk = cfg'.bulk
          /\ live'.smtp \in {None, cfg'.smtp} /\ (live'.smtp # None => live.smtp # None)
      BY <1>a, <2>1, <2>2 DEF Running
    <2>4. \A u \in Callers \ {t} : pc'[u] \notin Swapping BY <1>1, <1>5, <2>1 DEF Locked
    <2> QED BY <1>a, <2>1, <2>3, <2>4 DEF Serving
  <1>14. CASE SwapAccounts(t)
    <2>1. /\ pc[t] = "swap accounts" /\ pc'[t] = "save" /\ op[t].next = cfg /\ cfg' = cfg
          /\ live' = [live EXCEPT !.accounts = op[t].next.bulk]
      BY <1>3, <1>4, <1>14 DEF SwapAccounts, RequestOf, Committing
    <2>2. live.imap = cfg.imap /\ live.bulk = cfg.bulk /\ live.smtp \in {None, cfg.smtp}
      BY <2>1 DEF Serving
    <2>3. /\ live'.imap = cfg'.imap /\ live'.bulk = cfg'.bulk /\ live'.accounts = cfg'.bulk
          /\ live'.smtp \in {None, cfg'.smtp} /\ live'.smtp = live.smtp
      BY <1>a, <2>1, <2>2 DEF Running
    <2>4. \A u \in Callers : pc'[u] \notin Swapping BY <1>1, <1>5, <2>1 DEF Locked
    <2> QED BY <1>a, <2>1, <2>3, <2>4 DEF Serving
  <1>15. CASE Truncate(t) BY <1>1, <1>4, <1>15, ServingKept DEF Truncate, Release, Finish
  <1>16. CASE Write(t) BY <1>1, <1>4, <1>16, ServingKept DEF Write, Release, Finish
  <1> QED BY <1>6, <1>7, <1>8, <1>9, <1>10, <1>11, <1>12, <1>13, <1>14, <1>15, <1>16 DEF Step

\* Between two calls of config.set the mailbox, the sender and the accounts that
\* serve requests are those of the configuration, where every profile with an
\* outbox names its directory.
THEOREM WhatRuns == ASSUME DirNamed PROVE Spec => []RunningIsConfigured
  <1>1. Init => Serving
    BY DEF Init, Serving, Swapping, Built
  <1>2. Base /\ Serving /\ [Next]_vars => Serving'
    <2> SUFFICES ASSUME Base, Serving, [Next]_vars PROVE Serving'
      OBVIOUS
    <2>1. ASSUME NEW t \in Callers, Step(t) PROVE Serving'
      BY <2>1, ServingStep
    <2>2. ASSUME NEW t \in Callers,
                 (\E p \in Patches : Ask(t, p)) \/ \E r \in Profiles : AskProfile(t, r)
          PROVE  Serving'
      <3>1. PICK l \in PCs : Moved(t, l) BY <2>2, AskLocals
      <3>2. pc[t] = "rest" /\ cfg' = cfg /\ live' = live BY <2>2 DEF Ask, AskProfile
      <3>3. pc'[t] \in {"confirm", "lock"}
        BY <2>2 DEF Ask, AskProfile, Goto, Base, TypeOK
      <3> QED BY <3>1, <3>2, <3>3, ServingKept DEF Moved, Swapping
    <2>3. CASE Restart BY <2>3 DEF Restart, Serving, Swapping, Built
    <2>4. CASE UNCHANGED vars BY <2>4 DEF vars, Serving
    <2> QED BY <2>1, <2>2, <2>3, <2>4 DEF Next
  <1>3. Base /\ Serving => RunningIsConfigured
    BY NoneIsNothing DEF Base, Locks, Locked, Serving, Swapping, RunningIsConfigured,
                         SendsAsConfigured
  <1> QED BY <1>1, <1>2, <1>3, Serialized, PTL DEF Spec

-----------------------------------------------------------------------------
(* What is saved.                                                           *)

\* What is marked as filled in from the credentials file is what the file holds.
Truthful(o) ==
  o # None /\ o.hydrated # {} =>
    /\ o.file # None /\ Holds[o.file] # None
    /\ "secret" \in o.hydrated => o.secret = Holds[o.file].secret
    /\ "url" \in o.hydrated => o.url = Holds[o.file].url
TruthfulIn(c) == \A s \in Sides : Truthful(c[s].oauth)

\* Loading fills in and marks alike.
LEMMA LoadTruthful ==
  ASSUME NEW o \in OAuth \cup {None}, Truthful(o)
  PROVE  Truthful(LoadCredentials(o))
  <1>1. CASE o = None \/ o.file = None \/ Holds[o.file] = None BY <1>1 DEF LoadCredentials
  <1>2. CASE ~(o = None \/ o.file = None \/ Holds[o.file] = None)
    <2> DEFINE l == LoadCredentials(o)
    <2>1. o \in OAuth /\ o.file \in Files BY <1>2 DEF OAuth
    <2>2. Holds[o.file] \in [secret : Secrets, url : Endpoints]
      BY <1>2, <2>1, Inputs DEF Credentials
    <2>3. /\ l.file = o.file /\ l.secret = Or(o.secret, Holds[o.file].secret)
          /\ l.url = Or(o.url, Holds[o.file].url)
          /\ l.hydrated = o.hydrated \cup {f \in Fillable : o[f] = None}
      BY <1>2, <2>1 DEF LoadCredentials, OAuth
    <2>4. "secret" \in l.hydrated => "secret" \in o.hydrated \/ o.secret = None
      BY <2>3
    <2>5. "url" \in l.hydrated => "url" \in o.hydrated \/ o.url = None
      BY <2>3
    <2> HIDE DEF l
    <2>6. "secret" \in l.hydrated => l.secret = Holds[l.file].secret
      BY <2>2, <2>3, <2>4, <1>2, NoneIsNothing DEF Truthful, Or
    <2>7. "url" \in l.hydrated => l.url = Holds[l.file].url
      BY <2>2, <2>3, <2>5, <1>2, NoneIsNothing DEF Truthful, Or
    <2>8. Truthful(l) BY <1>2, <2>3, <2>6, <2>7 DEF Truthful
    <2> QED BY <2>8 DEF l
  <1> QED BY <1>1, <1>2

\* What was left out of the configuration file is read again from the other.
LEMMA ReadAgain ==
  ASSUME NEW o \in OAuth \cup {None}, Truthful(o)
  PROVE  LoadCredentials(WithoutHydrated(o)) = LoadCredentials(o)
  <1>1. CASE o = None BY <1>1 DEF WithoutHydrated
  <1>2. CASE o # None /\ o.hydrated = {}
    <2>1. o \in OAuth BY <1>2
    <2>2. WithoutHydrated(o) = o BY <1>2, <2>1 DEF WithoutHydrated, OAuth
    <2> QED BY <2>2
  <1>3. CASE o # None /\ o.hydrated # {}
    <2> DEFINE w == WithoutHydrated(o)
    <2>1. o \in OAuth /\ o.file # None /\ Holds[o.file] # None BY <1>3 DEF Truthful
    <2>2. Holds[o.file] \in [secret : Secrets, url : Endpoints]
      BY <2>1, Inputs DEF Credentials, OAuth
    <2>3. /\ w \in OAuth /\ w.file = o.file /\ w.grant = o.grant /\ w.hydrated = {}
          /\ w.secret = IF "secret" \in o.hydrated THEN None ELSE o.secret
          /\ w.url = IF "url" \in o.hydrated THEN None ELSE o.url
      BY <1>3, <2>1 DEF WithoutHydrated, OAuth
    <2> HIDE DEF w
    <2>4. Or(w.secret, Holds[o.file].secret) = Or(o.secret, Holds[o.file].secret)
      BY <1>3, <2>2, <2>3, NoneIsNothing DEF Truthful, Or
    <2>5. Or(w.url, Holds[o.file].url) = Or(o.url, Holds[o.file].url)
      BY <1>3, <2>2, <2>3, NoneIsNothing DEF Truthful, Or
    <2>6. w.hydrated \cup {f \in Fillable : w[f] = None}
            = o.hydrated \cup {f \in Fillable : o[f] = None}
      BY <2>1, <2>3 DEF Fillable, OAuth
    <2>7. w # None /\ o # None /\ w.file # None /\ Holds[w.file] # None
      BY <1>3, <2>1, <2>3, NoneIsNothing
    <2>8. PICK a, b, h : /\ a = Or(o.secret, Holds[o.file].secret)
                         /\ b = Or(o.url, Holds[o.file].url)
                         /\ h = o.hydrated \cup {f \in Fillable : o[f] = None}
      OBVIOUS
    <2>9. LoadCredentials(w) = [w EXCEPT !.secret = a, !.url = b, !.hydrated = h]
      BY <2>3, <2>4, <2>5, <2>6, <2>7, <2>8 DEF LoadCredentials
    <2>10. LoadCredentials(o) = [o EXCEPT !.secret = a, !.url = b, !.hydrated = h]
      BY <2>1, <2>7, <2>8 DEF LoadCredentials
    <2>11. [w EXCEPT !.secret = a, !.url = b, !.hydrated = h]
             = [o EXCEPT !.secret = a, !.url = b, !.hydrated = h]
      BY <2>1, <2>3 DEF OAuth
    <2> QED BY <2>9, <2>10, <2>11 DEF w
  <1> QED BY <1>1, <1>2, <1>3

\* Building fills in truthfully.
LEMMA HydratedTruthful ==
  ASSUME NEW c \in Config, NEW b \in BOOLEAN, TruthfulIn(c)
  PROVE  TruthfulIn(Hydrated(c, b))
  <1> SUFFICES ASSUME NEW s \in Sides PROVE Truthful(Hydrated(c, b)[s].oauth)
    BY DEF TruthfulIn
  <1>1. c[s] \in Side /\ c[s].oauth \in OAuth \cup {None} /\ Truthful(c[s].oauth)
    BY DEF Config, Side, Sides, TruthfulIn
  <1>2. Truthful(LoadCredentials(c[s].oauth)) BY <1>1, LoadTruthful
  <1>3. LoadSide(c[s]).oauth \in {c[s].oauth, LoadCredentials(c[s].oauth)}
    BY <1>1 DEF LoadSide, Side
  <1>4. Hydrated(c, b)[s] \in {c[s], LoadSide(c[s])} BY HydratedType
  <1> QED BY <1>1, <1>2, <1>3, <1>4

\* What a patch makes of OAuth2 settings has no marks, and a profile has none at all.
LEMMA CandidateTruthful ==
  ASSUME Base, NEW t \in Callers, pc[t] \in {"build", "assign"}, TruthfulIn(cfg)
  PROVE  TruthfulIn(Candidate(t))
  <1> SUFFICES ASSUME NEW s \in Sides PROVE Truthful(Candidate(t)[s].oauth)
    BY DEF TruthfulIn
  <1>1. /\ Truthful(cfg[s].oauth) /\ cfg \in Config /\ RequestOf(t)
        /\ op[t].profile \in Profiles \cup {None}
    BY Carried DEF TruthfulIn, Base, Requests
  <1>2. CASE op[t].profile # None
    <2>1. Candidate(t) = WithProfile(op[t].profile, cfg) /\ op[t].profile \in Profiles
      BY <1>1, <1>2 DEF Candidate
    <2>2. /\ op[t].profile.imap.oauth = None
          /\ op[t].profile.smtp # None => op[t].profile.smtp.oauth = None
      BY <2>1, ProfilesUsePasswords
    <2>3. Candidate(t)[s] = cfg[s] \/ Candidate(t)[s].oauth = None
      BY <1>1, <2>1, <2>2 DEF WithProfile, Config, Sides
    <2> QED BY <1>1, <2>3 DEF Truthful
  <1>3. CASE op[t].profile = None
    <2> DEFINE p == op[t].patch
    <2>1. Candidate(t) = Merged(p, cfg) BY <1>3 DEF Candidate
    <2>2. CASE p[s] = None BY <1>1, <2>1, <2>2, MergedSides
    <2>3. CASE p[s] # None
      <3>1. Candidate(t)[s] = MergeSide(p[s], cfg[s]) BY <1>1, <2>1, <2>3, MergedSides
      <3>2. cfg[s] \in Side BY <1>1 DEF Config, Sides
      <3>3. PICK old \in Side : /\ old.oauth \in {None, cfg[s].oauth}
                                /\ MergeSide(p[s], cfg[s]) = MergeOnto(p[s], cfg[s], old)
        <4>1. Vacated(cfg[s]) \in Side /\ Vacated(cfg[s]).oauth = None
          BY <3>2 DEF Vacated, Side
        <4> QED BY <3>2, <4>1 DEF MergeSide
      <3>4. Candidate(t)[s].oauth = IF p[s].oauth = None THEN old.oauth
                                    ELSE applyOAuth2Patch(old.oauth, p[s].oauth)
        BY <3>1, <3>3 DEF MergeOnto
      <3>5. applyOAuth2Patch(old.oauth, p[s].oauth).hydrated = {} BY DEF applyOAuth2Patch
      <3> QED BY <1>1, <3>3, <3>4, <3>5 DEF Truthful
    <2> QED BY <2>2, <2>3
  <1> QED BY <1>2, <1>3

\* A saved side is loaded into one that agrees with it.
LEMMA SavedAgrees ==
  ASSUME NEW c \in Config, TruthfulIn(c)
  PROVE  AgreeWith(Loaded(forSave(c)), c)
  <1>1. forSave(c) \in Config /\ forSave(c) # None BY ForSaveType, NoneIsNothing
  <1>2. ASSUME NEW s \in Sides PROVE Agree(s, Loaded(forSave(c))[s], c[s])
    <2>1. /\ c[s] \in Side /\ c[s].oauth \in OAuth \cup {None} /\ Truthful(c[s].oauth)
      BY DEF Config, Side, Sides, TruthfulIn
    <2>2. Loaded(forSave(c))[s] = Overlaid(s, Elided(s, c[s]))
      BY <1>1, LoadedType, ForSaveType
    <2>3. /\ Elided(s, c[s]).oauth = WithoutHydrated(c[s].oauth)
          /\ Elided(s, c[s]).addr = c[s].addr /\ Elided(s, c[s]).user = c[s].user
          /\ Elided(s, c[s]).insecure = c[s].insecure
          /\ Env[s].password = None => Elided(s, c[s]).password = c[s].password
          /\ Elided(s, c[s]) \in Side
      BY <2>1, ElidedType DEF Elided, Side
    <2>4. PICK e : e = Elided(s, c[s]) OBVIOUS
    <2>5. /\ Overlaid(s, e).oauth = e.oauth
          /\ Overlaid(s, e).addr = Or(Env[s].addr, e.addr)
          /\ Overlaid(s, e).user = Or(Env[s].user, e.user)
          /\ Overlaid(s, e).password = Or(Env[s].password, e.password)
          /\ Overlaid(s, e).insecure = Or(Env[s].insecure, e.insecure)
      BY <2>3, <2>4 DEF Overlaid, Side
    <2>6. LoadCredentials(Overlaid(s, e).oauth) = LoadCredentials(c[s].oauth)
      BY <2>1, <2>3, <2>4, <2>5, ReadAgain
    <2> QED BY <2>2, <2>3, <2>4, <2>5, <2>6 DEF Agree, Or
  <1>3. /\ Loaded(forSave(c)).outbox = c.outbox /\ Loaded(forSave(c)).bulk = c.bulk
        /\ Loaded(forSave(c)).profiles = c.profiles
    BY <1>1, LoadedType, ForSaveType
  <1> QED BY <1>2, <1>3 DEF AgreeWith

\* What a file is loaded into agrees with the file.
LEMMA LoadedAgrees ==
  ASSUME NEW c \in Config
  PROVE  AgreeWith(Loaded(c), c)
  <1>1. c # None BY NoneIsNothing
  <1>2. ASSUME NEW s \in Sides PROVE Agree(s, Loaded(c)[s], c[s])
    <2>1. Loaded(c)[s] = Overlaid(s, c[s]) /\ c[s] \in Side
      BY <1>1, LoadedType DEF Config, Sides
    <2> QED BY <2>1 DEF Agree, Overlaid, Or, Side
  <1>3. /\ Loaded(c).outbox = c.outbox /\ Loaded(c).bulk = c.bulk
        /\ Loaded(c).profiles = c.profiles
    BY <1>1, LoadedType
  <1> QED BY <1>2, <1>3 DEF AgreeWith

\* A start agrees with whatever the file it reads agrees with.
LEMMA StartedAgrees ==
  ASSUME NEW f \in Config \cup {None}, NEW k, AgreeWith(Loaded(f), k)
  PROVE  AgreeWith(Started(f), k)
  <1>1. ASSUME NEW s \in Sides PROVE Agree(s, Started(f)[s], k[s])
    <2>1. Started(f)[s] \in {Loaded(f)[s], LoadSide(Loaded(f)[s])} BY StartedType
    <2>2. Agree(s, Loaded(f)[s], k[s]) BY DEF AgreeWith
    <2>3. PICK x \in Side : x = Loaded(f)[s] BY LoadedType DEF Config, Sides
    <2>4. Agree(s, LoadSide(x), k[s]) BY <2>2, <2>3, LoadSideKeeps DEF Agree
    <2> QED BY <2>1, <2>2, <2>3, <2>4
  <1> QED BY <1>1, StartedType DEF AgreeWith

\* A start fills in truthfully what a file without marks leaves out.
LEMMA StartedTruthful ==
  ASSUME NEW f \in Config \cup {None},
         f # None => \A s \in Sides : f[s].oauth # None => f[s].oauth.hydrated = {}
  PROVE  TruthfulIn(Started(f))
  <1>1. Loaded(f) \in Config /\ Loaded(f).outbox \in BOOLEAN BY LoadedType DEF Config
  <1>2. ASSUME NEW s \in Sides PROVE Truthful(Loaded(f)[s].oauth)
    <2>1. PICK x \in Side : x = IF f = None THEN Default[s] ELSE f[s]
      BY Inputs DEF Config, Sides
    <2>2. x.oauth # None => x.oauth.hydrated = {} BY <2>1, DefaultHasNoSecrets
    <2>3. Loaded(f)[s] = Overlaid(s, x) BY <2>1, LoadedType
    <2>4. Overlaid(s, x).oauth = x.oauth BY DEF Overlaid, Side
    <2> QED BY <2>2, <2>3, <2>4 DEF Truthful
  <1> QED BY <1>1, <1>2, HydratedTruthful DEF Started, TruthfulIn

\* The file agrees with what was answered to be persisted; so does the configuration,
\* but for a call that commits and a save that failed.
Persisted ==
  /\ file # None => AgreeWith(Loaded(file), kept)
  /\ saved => file # None
  /\ saved /\ (\A t \in Callers : pc[t] \notin Committing) => AgreeWith(cfg, kept)
  /\ \A t \in Callers : pc[t] = "write" => ~saved
  /\ file # None => \A s \in Sides : file[s].oauth # None => file[s].oauth.hydrated = {}
  /\ TruthfulIn(cfg)

\* A step outside the commit disturbs nothing.
LEMMA PersistedKept ==
  ASSUME Persisted, NEW t \in Callers, pc[t] \notin Committing, pc'[t] \notin Committing,
         \A u \in Callers \ {t} : pc'[u] = pc[u], UNCHANGED <<cfg, file, saved, kept>>
  PROVE  Persisted'
  BY DEF Persisted, Committing

\* Who commits is not done before the file is written.
LEMMA PersistedStep ==
  ASSUME Base, Persisted, NEW t \in Callers, Step(t)
  PROVE  Persisted'
  <1>0. PICK l \in PCs : Moved(t, l) BY StepLocals
  <1>1. \A u \in Callers \ {t} : pc'[u] = pc[u] BY <1>0 DEF Moved
  <1>2. \A k : Goto(t, k) => pc'[t] = k BY DEF Base, TypeOK, Goto
  <1>3. RequestOf(t) /\ cfg \in Config /\ TypeOK /\ Requests BY DEF Base, Requests, TypeOK
  <1>4. CASE pc[t] \notin Committing /\ pc'[t] \notin Committing
             /\ UNCHANGED <<cfg, file, saved, history>>
    BY <1>1, <1>4, PersistedKept DEF history
  <1>5. CASE pc'[t] \in Committing \ {"write"} /\ UNCHANGED <<cfg, file, saved, history>>
    BY <1>1, <1>5 DEF Persisted, history
  <1>6. CASE Assign(t)
    <2>1. /\ pc'[t] \in Committing \ {"write"} /\ cfg' = op[t].next
          /\ UNCHANGED <<file, saved, kept>>
      BY <1>2, <1>6 DEF Assign, Committing
    <2>2. PICK b \in BOOLEAN : op[t].next = Hydrated(Candidate(t), b)
      BY <1>3, <1>6 DEF Assign, RequestOf
    <2>3. Candidate(t) \in Config /\ TruthfulIn(Candidate(t))
      BY <1>3, <1>6, CandidateType, CandidateTruthful DEF Assign, Persisted
    <2>4. TruthfulIn(Hydrated(Candidate(t), b)) BY <2>3, HydratedTruthful
    <2>5. TruthfulIn(cfg') BY <2>1, <2>2, <2>4
    <2> QED BY <1>1, <2>1, <2>5 DEF Persisted, TruthfulIn
  <1>7. CASE Truncate(t)
    <2>1. /\ saved' = FALSE /\ (file' = file \/ file' = None) /\ UNCHANGED <<cfg, kept>>
      BY <1>7 DEF Truncate, Release, history
    <2> QED BY <2>1 DEF Persisted
  <1>8. CASE Write(t)
    <2>1. /\ pc[t] = "write" /\ UNCHANGED cfg /\ pc'[t] \notin Committing
          /\ \A u \in Callers \ {t} : pc[u] \notin Locked
      BY <1>2, <1>8, Alone DEF Write, Release, Finish, Committing, Base, Locked
    <2>2. \A u \in Callers : pc'[u] # "write" BY <1>1, <2>1 DEF Committing, Locked
    <2>3. CASE UNCHANGED <<file, saved, kept>>
      BY <2>1, <2>2, <2>3 DEF Persisted
    <2>4. CASE file' = forSave(cfg) /\ saved' = TRUE /\ kept' = op[t].next
      <3>1. kept' = cfg BY <1>3, <2>1, <2>4 DEF RequestOf, Committing
      <3>2. AgreeWith(Loaded(file'), kept')
        BY <1>3, <2>4, <3>1, SavedAgrees DEF Persisted
      <3>3. file' # None /\ \A s \in Sides : file'[s] = Elided(s, cfg[s])
        BY <1>3, <2>4, ForSaveType, NoneIsNothing
      <3>4. AgreeWith(cfg', kept') BY <2>1, <3>1 DEF AgreeWith, Agree
      <3>5. ASSUME NEW s \in Sides, file'[s].oauth # None PROVE file'[s].oauth.hydrated = {}
        <4>1. cfg[s] \in Side BY <1>3 DEF Config, Sides
        <4>2. file'[s].oauth = WithoutHydrated(cfg[s].oauth)
          BY <3>3, <4>1 DEF Elided, Side
        <4>3. cfg[s].oauth \in OAuth \cup {None} BY <4>1 DEF Side
        <4> QED BY <3>5, <4>2, <4>3 DEF WithoutHydrated, OAuth
      <3>6. TruthfulIn(cfg') BY <2>1 DEF Persisted
      <3> QED BY <2>2, <3>2, <3>3, <3>4, <3>5, <3>6 DEF Persisted, TruthfulIn
    <2> QED BY <1>8, <2>3, <2>4 DEF Write
  <1>9. CASE Confirm(t) BY <1>2, <1>4, <1>9 DEF Confirm, Finish, Committing
  <1>10. CASE Lock(t) BY <1>2, <1>4, <1>10 DEF Lock, Committing
  <1>11. CASE ConfirmProfile(t)
    BY <1>2, <1>4, <1>11 DEF ConfirmProfile, Release, Finish, Committing
  <1>12. CASE Merge(t) BY <1>2, <1>4, <1>12 DEF Merge, Release, Finish, Committing
  <1>13. CASE Build(t) BY <1>2, <1>4, <1>13 DEF Build, Release, Finish, Committing
  <1>14. CASE SwapMailbox(t) BY <1>2, <1>5, <1>14 DEF SwapMailbox, Committing
  <1>15. CASE SwapSender(t) BY <1>2, <1>5, <1>15 DEF SwapSender, Committing
  <1>16. CASE SwapAccounts(t) BY <1>2, <1>5, <1>16 DEF SwapAccounts, Committing
  <1> QED
    BY <1>6, <1>7, <1>8, <1>9, <1>10, <1>11, <1>12, <1>13, <1>14, <1>15, <1>16 DEF Step

\* The file never falls behind what was answered.
LEMMA AlwaysPersisted == Spec => []Persisted
  <1>1. Init => Persisted
    <2> SUFFICES ASSUME Init PROVE Persisted
      OBVIOUS
    <2>1. /\ cfg = Started(Original) /\ file = Original /\ kept = Original
          /\ Original \in Config /\ Original # None
      BY Inputs, NoneIsNothing DEF Init
    <2>2. AgreeWith(Loaded(Original), Original) BY <2>1, LoadedAgrees
    <2>3. AgreeWith(Started(Original), Original) BY <2>1, <2>2, StartedAgrees
    <2>4. \A s \in Sides : Original[s].oauth # None => Original[s].oauth.hydrated = {}
      BY FilesAreNotHydrated
    <2>5. TruthfulIn(Started(Original)) BY <2>1, <2>4, StartedTruthful
    <2>6. \A t \in Callers : pc[t] = "rest" BY DEF Init
    <2> QED BY <2>1, <2>2, <2>3, <2>4, <2>5, <2>6 DEF Persisted
  <1>2. Base /\ Persisted /\ [Next]_vars => Persisted'
    <2> SUFFICES ASSUME Base, Persisted, [Next]_vars PROVE Persisted'
      OBVIOUS
    <2>1. ASSUME NEW t \in Callers, Step(t) PROVE Persisted'
      BY <2>1, PersistedStep
    <2>2. ASSUME NEW t \in Callers,
                 (\E p \in Patches : Ask(t, p)) \/ \E r \in Profiles : AskProfile(t, r)
          PROVE  Persisted'
      <3>1. PICK l \in PCs : Moved(t, l) BY <2>2, AskLocals
      <3>2. pc[t] = "rest" /\ UNCHANGED <<cfg, file, saved, kept>>
        BY <2>2 DEF Ask, AskProfile, history
      <3>3. pc'[t] \in {"confirm", "lock"}
        BY <2>2 DEF Ask, AskProfile, Goto, Base, TypeOK
      <3> QED BY <3>1, <3>2, <3>3, PersistedKept DEF Moved, Committing
    <2>3. CASE Restart
      <3>1. /\ cfg' = Started(file) /\ saved' = (file # None) /\ UNCHANGED <<file, kept>>
            /\ file \in Config \cup {None}
        BY <2>3 DEF Restart, history, Base, TypeOK
      <3>2. TruthfulIn(Started(file)) BY <3>1, StartedTruthful DEF Persisted
      <3>3. file # None => AgreeWith(Started(file), kept)
        BY <3>1, StartedAgrees DEF Persisted
      <3>4. \A t \in Callers : pc'[t] = "rest" BY <2>3 DEF Restart
      <3>5. TruthfulIn(cfg') /\ (file' # None => AgreeWith(cfg', kept'))
        BY <3>1, <3>2, <3>3
      <3> QED BY <3>1, <3>4, <3>5 DEF Persisted, TruthfulIn
    <2>4. CASE UNCHANGED vars BY <2>4 DEF vars, history, Persisted
    <2> QED BY <2>1, <2>2, <2>3, <2>4 DEF Next
  <1> QED BY <1>1, <1>2, Serialized, PTL DEF Spec

\* What config.set answered to be persisted is in the file until a later save, and is
\* what a start brings back, whatever the environment and the credentials files hold.
THEOREM WhatIsSaved == Spec => []SetPersists
  <1>1. Base /\ Persisted => SetPersists
    <2> SUFFICES ASSUME Base, Persisted, mu = None PROVE \A t \in Callers : pc[t] \notin Committing
      BY DEF Persisted, SetPersists
    <2> QED BY NoneIsNothing DEF Base, Locks, Locked, Committing
  <1> QED BY <1>1, Serialized, AlwaysPersisted, PTL

-----------------------------------------------------------------------------
(* What a commit changes.                                                   *)

\* A call that is about to commit commits what it carries.
LEMMA OnlyAssign ==
  ASSUME Base, [Next]_vars, NEW t \in Callers, pc[t] = "assign", pc'[t] = "swap mailbox"
  PROVE  cfg' = op[t].next
  <1>1. ASSUME NEW u \in Callers, u # t, Step(u) PROVE FALSE
    BY <1>1, StepLocals DEF Moved
  <1>2. ASSUME Step(t) PROVE Assign(t)
    BY <1>2 DEF Step, Confirm, Lock, ConfirmProfile, Merge, Build, Assign, SwapMailbox,
                SwapSender, SwapAccounts, Truncate, Write
  <1>3. ASSUME NEW u \in Callers,
               (\E p \in Patches : Ask(u, p)) \/ \E r \in Profiles : AskProfile(u, r)
        PROVE  FALSE
    BY <1>3, AskLocals DEF Moved, Ask, AskProfile
  <1>4. CASE Restart BY <1>4 DEF Restart
  <1>5. CASE UNCHANGED vars BY <1>5 DEF vars
  <1> QED BY <1>1, <1>2, <1>3, <1>4, <1>5 DEF Next, Assign

\* What a call commits is what it makes of the configuration, with credentials loaded.
LEMMA Commits ==
  ASSUME Base, NEW t \in Callers, pc[t] = "assign"
  PROVE  /\ Candidate(t) \in Config /\ op[t].next.bulk = Candidate(t).bulk
         /\ \A s \in Sides : op[t].next[s] \in {Candidate(t)[s], LoadSide(Candidate(t)[s])}
         /\ \A s \in Sides : Candidate(t)[s] \in Side
  <1>1. PICK b \in BOOLEAN : op[t].next = Hydrated(Candidate(t), b)
    BY DEF Base, Requests, RequestOf
  <1>2. Candidate(t) \in Config BY CandidateType DEF Base
  <1>3. \A s \in Sides : Candidate(t)[s] \in Side BY <1>2 DEF Config, Sides
  <1> QED BY <1>1, <1>2, <1>3, HydratedType

\* A partial update keeps what it omits, although another call may have committed
\* between the question and the answer.
THEOREM PartialUpdate == Spec => OmittedKept
  <1>1. Base /\ [Next]_vars => \A t \in Callers :
          pc[t] = "assign" /\ pc'[t] = "swap mailbox" => KeepsOmitted(t)
    <2> SUFFICES ASSUME Base, [Next]_vars, NEW t \in Callers,
                        pc[t] = "assign", pc'[t] = "swap mailbox"
                 PROVE  KeepsOmitted(t)
      OBVIOUS
    <2>1. cfg' = op[t].next /\ cfg \in Config /\ RequestOf(t)
      BY OnlyAssign DEF Base, Requests, TypeOK
    <2>2. CASE op[t].profile # None
      <3>1. op[t].patch = None /\ Candidate(t) = WithProfile(op[t].profile, cfg)
        BY <2>1, <2>2 DEF RequestOf, Candidate
      <3>2. Candidate(t).bulk = cfg.bulk BY <2>1, <3>1 DEF WithProfile, Config
      <3>3. cfg'.bulk = cfg.bulk BY <2>1, <3>2, Commits
      <3> QED BY <3>1, <3>3 DEF KeepsOmitted
    <2>3. CASE op[t].profile = None
      <3> DEFINE p == op[t].patch
      <3>1. Candidate(t) = Merged(p, cfg) BY <2>3 DEF Candidate
      <3>2. ASSUME NEW s \in Sides, p[s] = None PROVE LoadSide(cfg'[s]) = LoadSide(cfg[s])
        <4>1. Candidate(t)[s] = cfg[s] BY <2>1, <3>1, <3>2, MergedSides
        <4>2. PICK x \in Side : x = cfg[s] BY <2>1 DEF Config, Sides
        <4>3. cfg'[s] = x \/ cfg'[s] = LoadSide(x) BY <2>1, <4>1, <4>2, Commits
        <4>4. LoadSide(LoadSide(x)) = LoadSide(x) BY LoadSideKeeps
        <4> QED BY <4>2, <4>3, <4>4
      <3>3. ASSUME NEW s \in Sides, p[s] # None PROVE KeepsOfSide(p[s], cfg'[s], cfg[s])
        <4>1. PICK m \in Side : m = Candidate(t)[s] BY Commits
        <4>2. m = MergeSide(p[s], cfg[s]) BY <2>1, <3>1, <3>3, <4>1, MergedSides
        <4>3. KeepsOfSide(p[s], m, cfg[s]) BY <4>2, MergeSideKeeps
        <4>4. KeepsOfSide(p[s], LoadSide(m), cfg[s])
          BY <4>3, LoadSideKeeps DEF KeepsOfSide
        <4>5. cfg'[s] = m \/ cfg'[s] = LoadSide(m) BY <2>1, <4>1, Commits
        <4> HIDE DEF p
        <4> QED BY <4>3, <4>4, <4>5
      <3>4. p.bulk = None => cfg'.bulk = cfg.bulk
        <4>1. p.bulk = None => Merged(p, cfg).bulk = cfg.bulk BY <2>1 DEF Merged, Or, Config
        <4> QED BY <2>1, <3>1, <4>1, Commits
      <3> QED BY <2>3, <3>2, <3>3, <3>4 DEF KeepsOmitted
    <2> QED BY <2>2, <2>3
  <1> QED BY <1>1, Serialized, PTL DEF Spec, OmittedKept

-----------------------------------------------------------------------------
(* Where secrets go.                                                        *)

\* Where a secret of a side may be used: at home, or as far as it is known to stray.
Home(s) == given \cup Known(s)

\* No secret leaves home, nor would it with any of the profiles.
AtHome ==
  /\ \A s \in Sides : /\ Uses(cfg[s]) \subseteq Home(s) /\ Uses(live[s]) \subseteq Home(s)
                      /\ Uses(Loaded(file)[s]) \subseteq Home(s)
  /\ \A r \in Profiles : Uses(r.imap) \cup Uses(r.smtp) \subseteq given

\* Nothing is used by what is not there.
LEMMA NoUses == Uses(None) = {} BY DEF Uses

\* The environment over an empty file brings no secret but its own.
LEMMA EmptyAtHome == ASSUME NEW s \in Sides PROVE Uses(Loaded(None)[s]) \subseteq Known(s)
  <1>1. Default[s] \in Side BY Inputs DEF Config, Sides
  <1>2. Loaded(None)[s] = Overlaid(s, Default[s]) BY LoadedType
  <1>3. /\ Overlaid(s, Default[s]).oauth = None
        /\ Overlaid(s, Default[s]).password = Env[s].password
    BY <1>1, DefaultHasNoSecrets DEF Overlaid, Side, Or
  <1>4. PICK x : x = Overlaid(s, Default[s]) OBVIOUS
  <1>5. Tokens(x) = {} BY <1>3, <1>4 DEF Tokens, LoadCredentials
  <1>6. Logins(x) \subseteq Known(s) BY <1>3, <1>4 DEF Logins, Known
  <1> QED BY <1>2, <1>4, <1>5, <1>6, NoUses DEF Uses

\* What is saved is used, at the next start, where it was, or as the environment says.
LEMMA SavedAtHome ==
  ASSUME NEW c \in Config, TruthfulIn(c), NEW s \in Sides
  PROVE  Uses(Loaded(forSave(c))[s]) \subseteq Uses(c[s]) \cup Known(s)
  <1>1. PICK x : x = Loaded(forSave(c))[s] OBVIOUS
  <1>2. Agree(s, x, c[s]) BY <1>1, SavedAgrees DEF AgreeWith
  <1>3. c[s] # None /\ c[s] \in Side BY NoneIsNothing DEF Config, Sides
  <1>4. Tokens(x) = Tokens(c[s]) BY <1>2 DEF Agree, Tokens
  <1>5. Logins(x) \subseteq Logins(c[s]) \cup Known(s)
    <2>1. x = Overlaid(s, Elided(s, c[s])) BY <1>1, ForSaveType, LoadedType, NoneIsNothing
    <2>2. PICK e \in Side : e = Elided(s, c[s]) BY <1>3, ElidedType
    <2>3. x.password = Or(Env[s].password, e.password) /\ x.addr = Or(Env[s].addr, e.addr)
      BY <2>1, <2>2 DEF Overlaid, Side
    <2>4. CASE Env[s].password # None BY <2>3, <2>4 DEF Logins, Known, Or
    <2>5. CASE Env[s].addr # None BY <2>3, <2>5 DEF Logins, Known, Or
    <2>6. CASE Env[s].password = None /\ Env[s].addr = None
      <3>1. x.password = c[s].password /\ x.addr = c[s].addr BY <1>2, <2>6 DEF Agree
      <3> QED BY <3>1 DEF Logins
    <2> QED BY <2>4, <2>5, <2>6
  <1> QED BY <1>1, <1>3, <1>4, <1>5 DEF Uses

\* What a patch leaves of a side's secrets stays where it is, or is redirected.
LEMMA MergeAtHome ==
  ASSUME NEW p \in SidePatch, NEW cur \in Side, NEW u \in Uses(MergeSide(p, cur)),
         u[1] \notin Named(p)
  PROVE  u \in Uses(cur) \/ (p.oauth # None /\ u \in Tokens(MergeSide(p, cur)))
  <1> DEFINE old == IF Moves(p, cur) THEN Vacated(cur) ELSE cur
  <1>1. PICK m \in Side : m = MergeSide(p, cur) BY MergeSideType
  <1>2. /\ m.addr = Or(p.addr, cur.addr) /\ m.password = Or(p.password, old.password)
        /\ p.oauth = None => m.oauth = old.oauth
    BY <1>1 DEF MergeSide, MergeOnto
  <1>3. /\ Moves(p, cur) => old.password = None /\ old.oauth = None
        /\ ~Moves(p, cur) => old = cur
    BY DEF Vacated, Side
  <1> HIDE DEF old
  <1>4. m # None /\ cur # None BY NoneIsNothing
  <1>5. u \in Logins(m) \/ u \in Tokens(m) BY <1>1, <1>4 DEF Uses
  <1>6. CASE u \in Tokens(m) /\ p.oauth = None
    <2>1. CASE Moves(p, cur)
      <3>1. m.oauth = None BY <1>2, <1>3, <1>6, <2>1
      <3> QED BY <1>6, <3>1 DEF Tokens, LoadCredentials
    <2>2. CASE ~Moves(p, cur)
      <3>1. Tokens(m) = Tokens(cur) BY <1>2, <1>3, <1>6, <2>2 DEF Tokens
      <3> QED BY <1>4, <1>6, <3>1 DEF Uses
    <2> QED BY <2>1, <2>2
  <1>7. CASE u \in Logins(m)
    <2>1. u[1] = m.password /\ u[2] = m.addr /\ u = <<m.password, m.addr>> /\ m.password \in Secrets
      BY <1>7 DEF Logins
    <2>2. p.password = None BY <1>2, <2>1 DEF Named, Or
    <2>3. m.password = old.password BY <1>2, <2>2 DEF Or
    <2>4. ~Moves(p, cur) BY <1>3, <2>1, <2>3, NoneIsNothing
    <2>5. m.addr = cur.addr BY <1>2, <2>4 DEF Moves, Or
    <2>6. u \in Logins(cur) BY <1>3, <1>7, <2>1, <2>3, <2>4, <2>5 DEF Logins
    <2> QED BY <1>4, <2>6 DEF Uses
  <1> QED BY <1>1, <1>5, <1>6, <1>7

\* What has been given stays given.
LEMMA HomeGrows ==
  ASSUME given \subseteq given', strayed \subseteq strayed', redirected \subseteq redirected'
  PROVE  \A s : Home(s) \subseteq Home(s)'
  BY DEF Home, Known

\* A commit takes a secret along only with what was given for it, or as is known.
LEMMA AssignAtHome ==
  ASSUME Base, AtHome, NEW t \in Callers, Assign(t), NEW s \in Sides
  PROVE  Uses(cfg'[s]) \subseteq Home(s)'
  <1>1. /\ cfg' = op[t].next /\ pc[t] = "assign" /\ RequestOf(t) /\ cfg \in Config
        /\ given' = given \cup Provides(t) /\ strayed' = strayed \cup Strays(t)
        /\ redirected' = redirected \cup Redirects(t)
    BY DEF Assign, Base, Requests, TypeOK
  <1>2. Uses(cfg[s]) \subseteq Home(s)' /\ given \subseteq Home(s)'
    BY <1>1, HomeGrows DEF AtHome, Home
  <1>3. PICK m \in Side : m = Candidate(t)[s] BY <1>1, Commits
  <1>4. cfg'[s] = m \/ cfg'[s] = LoadSide(m) BY <1>1, <1>3, Commits
  <1>5. Uses(cfg'[s]) = Uses(m) /\ Tokens(cfg'[s]) = Tokens(m) BY <1>4, LoadSideKeeps
  <1>6. CASE op[t].profile # None
    <2>1. op[t].profile \in Profiles /\ m = WithProfile(op[t].profile, cfg)[s]
      BY <1>3, <1>6, Carried DEF Base, Candidate
    <2>2. Uses(op[t].profile.imap) \cup Uses(op[t].profile.smtp) \subseteq given
      BY <2>1 DEF AtHome
    <2>3. m \in {cfg[s], op[t].profile.imap, op[t].profile.smtp}
      BY <1>1, <2>1 DEF WithProfile, Config, Sides
    <2> QED BY <1>2, <1>5, <2>2, <2>3
  <1>7. CASE op[t].profile = None
    <2>1. op[t].patch \in Patches /\ op[t].patch # None /\ op[t].seen # None
      BY <1>1, <1>7, Carried DEF RequestOf, Base
    <2>2. m = Merged(op[t].patch, cfg)[s] BY <1>3, <1>7 DEF Candidate
    <2>3. CASE op[t].patch[s] = None BY <1>1, <1>2, <1>5, <2>2, <2>3, MergedSides
    <2>4. CASE op[t].patch[s] # None
      <3>1. PICK p \in SidePatch : p = op[t].patch[s]
        BY <2>1, <2>4, Inputs DEF Patch, Sides
      <3>2. m = MergeSide(p, cfg[s]) /\ cfg[s] \in Side
        BY <1>1, <2>2, <2>4, <3>1, MergedSides DEF Config, Sides
      <3>3. s \in Patched(t) BY <2>1, <2>4 DEF Patched
      <3>4. ASSUME NEW u \in Uses(cfg'[s]) PROVE u \in Home(s)'
        <4>1. u \in Uses(m) BY <1>5
        <4>2. CASE u[1] \in Named(p) /\ op[t].seen[s] = cfg[s]
          <5>1. u \in Provides(t) BY <3>1, <3>2, <3>3, <4>1, <4>2 DEF Provides
          <5> QED BY <1>1, <5>1 DEF Home
        <4>3. CASE u[1] \in Named(p) /\ op[t].seen[s] # cfg[s]
          <5>1. u \in Strays(t) BY <1>1, <3>1, <3>3, <4>3 DEF Strays
          <5> QED BY <1>1, <5>1 DEF Home, Known
        <4>4. CASE u[1] \notin Named(p)
          <5>1. u \in Uses(cfg[s]) \/ (p.oauth # None /\ u \in Tokens(cfg'[s]))
            BY <1>5, <3>2, <4>1, <4>4, MergeAtHome
          <5>2. CASE p.oauth # None /\ u \in Tokens(cfg'[s])
            <6>1. u \in Redirects(t) BY <1>1, <3>1, <3>3, <4>4, <5>2 DEF Redirects
            <6> QED BY <1>1, <6>1 DEF Home, Known
          <5> QED BY <1>2, <5>1, <5>2
        <4> QED BY <4>2, <4>3, <4>4
      <3> QED BY <3>4
    <2> QED BY <2>3, <2>4
  <1> QED BY <1>6, <1>7

\* Every step of a call leaves every secret at home, or where it is known to stray.
LEMMA StepAtHome ==
  ASSUME Base, Persisted, AtHome, NEW t \in Callers, Step(t)
  PROVE  AtHome'
  <1>0. RequestOf(t) /\ cfg \in Config /\ live \in Running BY DEF Base, Requests, TypeOK
  <1>1. CASE UNCHANGED <<cfg, live, file, history>>
    BY <1>1 DEF AtHome, Home, Known, history
  <1>2. ASSUME UNCHANGED <<cfg, file, history>>,
               \A s \in Sides : live'[s] \in {live[s], cfg[s]}
        PROVE  AtHome'
    BY <1>2 DEF AtHome, Home, Known, history
  <1>3. CASE Assign(t)
    <2>1. /\ live' = live /\ file' = file /\ given \subseteq given'
          /\ strayed \subseteq strayed' /\ redirected \subseteq redirected'
      BY <1>3 DEF Assign
    <2>2. \A s : Home(s) \subseteq Home(s)' BY <2>1, HomeGrows
    <2>3. \A s \in Sides : Uses(cfg'[s]) \subseteq Home(s)' BY <1>3, AssignAtHome
    <2> QED BY <2>1, <2>2, <2>3 DEF AtHome
  <1>4. CASE SwapMailbox(t)
    <2>1. /\ live' = [live EXCEPT !.imap = cfg.imap, !.bulk = cfg.bulk]
          /\ UNCHANGED <<cfg, file, history>>
      BY <1>0, <1>4 DEF SwapMailbox, RequestOf, Committing
    <2> QED BY <1>0, <1>2, <2>1 DEF Running, Sides
  <1>5. CASE SwapSender(t)
    <2>1. /\ live' = [live EXCEPT !.smtp = cfg.smtp] \/ live' = live
          /\ UNCHANGED <<cfg, file, history>>
      BY <1>0, <1>5 DEF SwapSender, RequestOf, Committing
    <2> QED BY <1>0, <1>2, <2>1 DEF Running, Sides
  <1>6. CASE SwapAccounts(t)
    <2>1. /\ live' = [live EXCEPT !.accounts = op[t].next.bulk]
          /\ UNCHANGED <<cfg, file, history>>
      BY <1>6 DEF SwapAccounts
    <2> QED BY <1>0, <1>2, <2>1 DEF Running, Sides
  <1>7. ASSUME UNCHANGED <<cfg, live, history>>,
               \A s \in Sides : Uses(Loaded(file')[s]) \subseteq Home(s)
        PROVE  AtHome'
    BY <1>7 DEF AtHome, Home, Known, history
  <1>8. CASE Truncate(t)
    <2>1. (file' = file \/ file' = None) /\ UNCHANGED <<cfg, live, history>>
      BY <1>8 DEF Truncate, Release
    <2>2. \A s \in Sides : Uses(Loaded(None)[s]) \subseteq Home(s) BY EmptyAtHome DEF Home
    <2> QED BY <1>7, <2>1, <2>2 DEF AtHome
  <1>9. CASE Write(t)
    <2>1. /\ file' = file \/ file' = forSave(cfg)
          /\ UNCHANGED <<cfg, live, given, strayed, redirected>>
      BY <1>9 DEF Write, Release
    <2>2. \A s \in Sides : Uses(Loaded(forSave(cfg))[s]) \subseteq Home(s)
      BY <1>0, SavedAtHome DEF Persisted, AtHome, Home
    <2>3. \A s \in Sides : Uses(Loaded(file')[s]) \subseteq Home(s) BY <2>1, <2>2 DEF AtHome
    <2> QED BY <2>1, <2>3 DEF AtHome, Home, Known
  <1> QED
    BY <1>1, <1>3, <1>4, <1>5, <1>6, <1>8, <1>9
       DEF Step, Confirm, Lock, ConfirmProfile, Merge, Build, Release

\* No secret is ever used with an endpoint it was not given for, other than in the
\* ways that are known, whatever is patched, switched, refused, saved and restarted.
THEOREM SecretsAtHome == Spec => []SecretsStayHome
  <1>1. ASSUME NEW f \in Config \cup {None}, NEW s \in Sides
        PROVE  /\ Uses(Started(f)[s]) = Uses(Loaded(f)[s])
               /\ Uses(Built(Started(f))[s]) \subseteq Uses(Started(f)[s])
    <2>1. Loaded(f)[s] \in Side BY LoadedType DEF Config, Sides
    <2>2. Uses(Started(f)[s]) = Uses(Loaded(f)[s]) BY <2>1, StartedType, LoadSideKeeps
    <2>3. Built(Started(f))[s] \in {Started(f)[s], None} BY DEF Built, Sides
    <2> QED BY <2>2, <2>3, NoUses
  <1>2. Init => AtHome
    <2> SUFFICES ASSUME Init PROVE AtHome
      OBVIOUS
    <2>1. /\ Original \in Config /\ cfg = Started(Original) /\ live = Built(Started(Original))
          /\ file = Original /\ UsesOf(cfg) \subseteq given
          /\ \A r \in Profiles : Uses(r.imap) \cup Uses(r.smtp) \subseteq given
      BY Inputs DEF Init
    <2>2. \A s \in Sides : Uses(cfg[s]) \subseteq given BY <2>1 DEF UsesOf, Sides
    <2> QED BY <1>1, <2>1, <2>2 DEF AtHome, Home
  <1>3. Base /\ Persisted /\ AtHome /\ [Next]_vars => AtHome'
    <2> SUFFICES ASSUME Base, Persisted, AtHome, [Next]_vars PROVE AtHome'
      OBVIOUS
    <2>1. ASSUME NEW t \in Callers, Step(t) PROVE AtHome'
      BY <2>1, StepAtHome
    <2>2. CASE UNCHANGED <<cfg, live, file, history>>
      BY <2>2 DEF AtHome, Home, Known, history
    <2>3. CASE Restart
      <3>1. /\ cfg' = Started(file) /\ live' = Built(Started(file)) /\ UNCHANGED <<file, history>>
            /\ file \in Config \cup {None}
        BY <2>3 DEF Restart, Base, TypeOK
      <3>2. \A s \in Sides : /\ Uses(cfg'[s]) \subseteq Home(s) /\ Uses(live'[s]) \subseteq Home(s)
        BY <1>1, <3>1 DEF AtHome
      <3> QED BY <3>1, <3>2 DEF AtHome, Home, Known, history
    <2> QED BY <2>1, <2>2, <2>3 DEF Next, Ask, AskProfile, vars
  <1>4. AtHome => SecretsStayHome BY DEF AtHome, SecretsStayHome, Home
  <1> QED BY <1>2, <1>3, <1>4, Serialized, AlwaysPersisted, PTL DEF Spec
=============================================================================
