# A verification model of briefkasten

Briefkasten is a Go server and command line that gives an agent a mailbox and an
outbox: mail is read from an IMAP server or a local maildir, and messages are
queued in an outbox, delivered over SMTP or into a maildir, and reported on. This
directory holds TLA+ modules of its stateful parts, the TLC runs that check them,
and theorems about them checked by TLAPS. Paths below are relative to the
repository (`src/`).

To run a check: `tlc -config Outbox.cfg MCOutbox`; to check the proofs of a
module: `tlapm OutboxProofs.tla`.

## The system

| Component | State it keeps | Operations | Module |
|---|---|---|---|
| Outbox (`application/outbox.go`, `domain/outbox.go`) | an in-process mutex; the records are in the store | Enqueue, Status, Retry, ProcessOnce, Recover, Summary | `Outbox`, `OutboxLifecycle`, `OutboxInv` |
| Outbox store and lock (`infrastructure/maildir/outboxstore.go`, `outboxlock_unix.go`) | `<state>/<id>.json` files, `.lock` | Write, Remove, Find, List, Lock | `Outbox` |
| IMAP connection handling (`infrastructure/imap/imap.go:170-420`) | one cached connection, the note of the selected folder | withConn, takeIdle, probe, dial, cache, selectFolder | `ImapPool` |
| IMAP operations (`infrastructure/imap/imap.go`) | none of their own; the server's mailboxes | list, fetch, mark, move, curate, folders | `ImapCuration`, `FolderNames` (those that change something) |
| IMAP watcher (`infrastructure/imap/watcher.go`) | one IDLE session, a backoff delay | Watch, idleSession, connect, SetBackoff | `Watcher`, `Backoff` |
| Maildir mailbox and sender (`infrastructure/maildir/maildir.go`, `sender.go`) | message files and folder directories | list, Fetch, MarkSeen, Archive, Delete, Move, CreateFolder, DeleteFolder, Send | `Maildir` |
| Maildir watcher (`infrastructure/maildir/watcher.go`) | none: it passes on file system events | Watch | none |
| Runtime configuration (`runtime.go`, `config.go`) | the configuration, its file, the environment | config.get, config.set with a patch or a profile, Save, Load | `RuntimeConfig` |
| Switchables (`application/switchable*.go`) | the mailbox, sender and accounts that serve | Swap, and forwarding to what is swapped in | `RuntimeConfig`, `MailRequests` |
| SMTP sender (`infrastructure/smtp/smtp.go`) | none between calls | Send with retry and per-attempt timeout | `SmtpSend`, `Transport` |
| Resilience (`infrastructure/resilience/resilience.go`) | a circuit breaker (external library) | every mailbox operation under breaker, retry, timeout | inside `ImapCuration` |
| OAuth2 credentials (`infrastructure/auth/oauth.go`) | settings shared by pointer, a token source made once | LoadCredentials, WithoutHydrated, SASLClient | the settings in `RuntimeConfig`; tokens are an input of `SmtpSend` and `Watcher` |
| Attempt limiter and basic auth (`infrastructure/mcpserver/basicauth.go`) | a bounded table of failures per client | allow, verify, recordFailure, recordSuccess, evict | `AttemptLimiter`, `Backoff` |
| Mail service (`application/service.go`) | none | routing, bulk operations, fetch budget | `MailRequests` |
| Composer and replies (`application/compose.go`, `domain/reply.go`) | none | Send, Reply, Forward | `Reply`, `MailRequests` |
| Mail domain, rendering, headers (`domain/`, `infrastructure/mailheaders/`) | none | types, limits, validation, MIME | the limits and results, in `MailRequests`; folder choice, in `FolderNames` |
| MCP server (`infrastructure/mcpserver/`) | none | tools, resources, prompts, confirmation gate | the tools and the gate, in `MailRequests` |
| Command line and startup (`cmd/briefkasten/`, `briefkasten.go`) | none | worker loop, send, retry, outbox, serve | inside `Outbox` and `RuntimeConfig` |

How they interact. The server process runs request goroutines and two background
goroutines, the delivery worker (a 5 s ticker that calls `Outbox.ProcessOnce`) and
the watcher. Requests reach a mailbox and a sender through the Switchables, so a
configuration change can replace them under running requests; an IMAP mailbox sits
behind the resilience decorator. One-shot CLI processes share the outbox
directory, the maildir and the configuration file with the server and coordinate
with it only through the file system: the outbox has a file lock, the maildir has
nothing but the atomicity of rename.

What is hard in it, and so what the properties are about:

* **Crashes inside a transition.** An outbox transition writes the new file and
  then removes the old one. Everything that survives a crash has to be decided
  from the two copies and their attempts counts.
* **Processes that share files.** Recover in one process while another is on the
  wire; readers that take no lock; a maildir in which a folder is removed while
  mail arrives.
* **State noted in one place about another.** The IMAP mailbox's one `selected`
  note for several connections; the set of secrets that came from the environment;
  "is there a sender" decided from the new configuration; OAuth2 settings that a
  configuration under construction shares with the one that runs.
* **Half-done changes.** A configuration swap is five separately visible steps,
  any of which may be where a build fails, a save fails or the process dies; a
  move on an IMAP server is up to seven commands, a batch one operation for each
  id.
* **Answers that do not arrive.** A reply that is lost after the server acted, a
  deadline that fires on a message that was taken, a connection that dies under an
  IDLE. The code retries, and a retry acts on a mailbox that has changed.
* **A check and its use.** A human approves ids of one mailbox, the budget is
  measured before the fetch, the limiter is asked before a password is verified.
* **Liveness.** Lock order (file lock, then mutex), a worker that competes with
  short-lived holders, a server that does not retry its repair.

`PROJECT.json` lists each hazard at its line, with the properties that cover it or
the reason none does.

## The modules

### Outbox

`Outbox.tla` models one server process (the worker and its request handlers) and
any number of one-shot CLI processes over one outbox directory.

| In the model | In the code |
|---|---|
| `store[i][s]` | the attempts count in `<s>/<i>.json`; `Absent` when there is no such file. Subject, recipients and times are abstracted away: `survivor` decides by state and attempts |
| `torn` | files that exist and do not decode |
| `lock`, `mu` | the flock on `.lock`, and `Outbox.mu` of the server process (a CLI process has a mutex nobody else uses) |
| `pc`, `op` | where a goroutine is in `ProcessOnce`, `Retry`, `Recover` or `Status`, with its locals |
| `accepted`, `sends`, `retries` | history: ids returned to a caller, handovers to the Sender, retry decisions written |
| `Survey`, `Deduplicate`, `FailStranded`, `Unstrand`, `RecoverDone` | `Recover` and its `survey`, `dropDuplicates`, `failStranded` |
| `Hold`, `ListQueued`, `SkipUnsendable`, `StartSend`, `Unqueue`, `Send`, `Record`, `Unsend`, `RunDone` | `ProcessOnce` and `deliver`, with both halves of each `apply` as steps of their own |
| `AskRetry`, `HoldRetry`, `RetryRefused`, `Requeue`, `Unfail` | `Retry` |
| `AskStatus`, `Scan`, `ReportUnknown` | `Status`, whose Find reads one state directory at a time without the file lock |
| `Crash`, `IOFails`, `Damage` | a process dies anywhere; a Write or Remove fails; a record stops decoding |

Writes are staged and renamed in the code, hence one step. `OutboxLifecycle.tla`
is the abstract specification: a message is none, queued, sending, sent or failed,
moves along the events of `domain/outbox.go`, and is handed over only in `sending`
and at most once per decision. `Outbox` implements it under the mapping that takes
a record's authoritative copy (`Survivor`) for its phase. `OutboxInv.tla` has the
inductive invariant, and what `CleanRepair` and `ImplementsLifecycle` need beside
it.

Properties: `NoMessageLost`, `OneSendPerDecision`, `InFlightUndisturbed`,
`AttemptsCoverSends`, `SentIsFinal`, `CleanRepair`, `StatusMissesOnlyARetry`,
`QueuedIsProcessed`, `RetryIsAnswered`, `ImplementsLifecycle`.

Two limits of the promises, visible in how the properties are worded. A Status
query that overlaps a Retry may answer that there is no such message, because the
record moves against the scan order; `StatusMissesOnlyARetry` says that nothing
else makes it so. And where a file system refuses a removal during Recover, a
stale copy in queued can outlive the repair and be delivered although the
authoritative copy was failed: the handover count still fits the decisions
(`OneSendPerDecision`), but that is no step of the lifecycle, so
`ImplementsLifecycle` is claimed where no file operation fails: it is checked for
crashes, and proved for crashes and damaged files.

### ImapPool

`ImapPool.tla` models `withConn` for concurrent callers of one `Mailbox`: taking
or dialling a connection, probing it, running an operation, restoring the
configured folder and caching or closing the connection. `idle` and `selected` are
the fields guarded by `m.mu`; `session[c]` is what the *server* has selected on a
connection, which is what the code's note is supposed to mirror. An operation is
one that works in the folder it finds, or a move, which leaves another selected;
each command may fail, and the server may drop a session at any time. Message
contents, paging and the MOVE fallback are abstracted away.

Properties: `OwnedOnce`, `NoConnectionLeaks`, `OnlyCrossedMovesStray`, and
`ConfiguredWhenActing`, the stronger claim of the comment at
`infrastructure/imap/imap.go:184`, which does not hold: the note is shared, so a
second caller can clear it between a move's SELECT and its settling.

### Maildir

`Maildir.tla` models message files as tuples of directory, subdirectory, name and
message, the directories that exist, and callers that run Fetch, MarkSeen, Archive
or Delete ("curate"), Move, CreateFolder and DeleteFolder one system call at a
time, beside a delivery agent. Curation from within a folder files into a hidden
maildir below that folder, as `moveTo` does. `FreshNames` says whether whoever stages a
message ever uses a file name twice; the code relies on it without being able to
enforce it, and `Deliver` renames over whatever has the name, as the code does.
`MkdirAll` of a directory and its parent is one step.

Properties: `NeverDestroyed`, `NotMissed`. Both are claimed where names are fresh;
where they are not, `NeverDestroyed` does not hold (`MaildirNames.cfg`).

### RuntimeConfig

`RuntimeConfig.tla` models `config.set`: a patch is confirmed by a human before
the mutex is taken, a profile with the mutex held; then merge (which drops the user
and the credentials of a side when its address changes), validation, build,
assignment of the configuration, the swaps of mailbox, sender and accounts, and a
save that truncates before it writes. `Restart` may happen between any two steps,
loads the file, overlays the environment and builds.

| In the model | In the code |
|---|---|
| `cfg`, `file`, `live` | the configuration in memory, in its file, and what requests use of it: mailbox, sender, accounts |
| a side, `"imap"` or `"smtp"` | address, user, password, OAuth2 settings, whether TLS is off: what the merge and the refusals look at. A static access token merges like a password |
| OAuth2 settings | credentials file, client (its secret; the id goes with it), token endpoint, refresh token, and the marks of what was filled in from the file |
| `Holds` | what a credentials file has: an OAuth client, or the key of a service account |
| `Env` | the BRIEFKASTEN_* variables of the two sides and of `runtime_config` |
| `LoadCredentials`, `WithoutHydrated`, `applyOAuth2Patch` | the functions of these names |
| `Build` | `BuildMailbox` and `buildSender`, which load the credentials into the new configuration, one after the other. A patch that leaves the OAuth2 settings alone shares them with what runs, so a service account then acts for the new user (`acting`) whether or not the call succeeds |
| `mu`, `pc`, `op` | the mutex and where each call is; `op[t].seen` is the configuration when it was made |
| `kept` | history: the configuration that was last answered to be persisted |
| `given` | history: each secret with the endpoints it was given for. A call gives what it names for the endpoints its own configuration, the one the human was asked about, would have had |
| `strayed`, `redirected` | history: uses of a secret that a call named and merged into a side another call had changed meanwhile, and of secrets that a patch of the OAuth2 settings did not name and took along |

The accounts are reduced to the bulk limit they share with the default mailbox. A
file that was truncated and not written counts as empty; a file written in part is
not modelled. Nor are the environment's outbox directory, bulk limit and
credentials files, OAuth2 in profiles and accounts, and the confinement of the
maildir.

Properties: `RunningIsConfigured` (with its part `SendsAsConfigured`, which fails
for one kind of profile), `SecretsStayHome`, `SetPersists`, `OmittedKept`.

What the documentation says of secrets and refusals is stated beside them without
exceptions, as `CredentialsStayHome`, `SetPasswordsPersist`, `FileSecretsStay` and
`ActsAsConfigured`. None of the four holds; the next to last section says why.
`SecretsStayHome` names the exceptions to the first (`Known`) and claims that there
are no others. `SetPersists` is the part of the second and third that does hold: it
compares what the environment does not set, with the credentials files read, and
its other exception is a file that a later save has truncated (`file = None`),
which `saved` records.

### ImapCuration, with FolderNames

`ImapCuration.tla` models archive, delete, move and mark seen, single and in bulk,
and creating and deleting a folder, for callers that share one server with each
other, with other mail clients and with deliveries. Every IMAP command is a step,
and each call runs inside the resilience pipeline.

| In the model | In the code |
|---|---|
| `mode` | what the server can do: MOVE, UIDPLUS, both or neither (`moveUIDSet`) |
| `folders`, `source`, `filed`, `flagged`, `seen` | the server's mailboxes: which exist, what is in the inbox, the copies each folder holds, `\Deleted` and `\Seen` |
| `call` | one attempt of a call: where it is, the UIDs it still works on, those a COPYUID answered for |
| `report`, `fails` | the answer with its per-id verdicts; the breaker's count of consecutive failures |
| `Start`, `FastFail`, `Cooldown`, `Settle` | `execute` and `bulk` of `resilience.go`: the breaker outside, the retry inside it, `IsSuccessful` and `NonRetryableErrors` |
| `Resolve` with `ResolveCuration`, `ResolveMove`, `ResolveNew`, `ResolveDrop` | LIST and NAMESPACE, the choice of the destination and the refusals that depend on them |
| `Create`, `locateMany`, `storeSeen`, `fetchMessageIDs` | the commands of the same purpose; only `CreateFolder` takes ALREADYEXISTS for success |
| `MoveMessages`; `CopyMessages`, `FlagDeleted`, `ExpungeMoved` | MOVE, and the library's fallback on a server with UIDPLUS alone |
| `adrift`, `Abandon`, `Drift` | the fallback sends its three commands together: when its COPY is refused, or the connection is lost after it, the server may still carry out those that nobody awaits any more, at any later time |
| `VerifySource`, `VerifyDestination`, `AlreadyThere` | the checks after a move |
| `folderMessages`, `DeleteMailbox` | STATUS and DELETE |
| `Fault`, `Deadline`, `Cancel` | a lost connection or refused command, a deadline, a caller that hangs up, before any command; a lost reply is the command followed by `Fault` |
| `Deliver`, `TakeAway`, `Undelete`, `Expunge` | deliveries and other clients |
| `taken`, `late`, `destroyed`, `forsaken`, `alone`, `blamed`, `orphaned` | history: what others took, what arrived between a count and its DELETE, what a DELETE destroyed, what was flagged in the wake of a refused COPY, which calls met nobody and no mishap, which of those the breaker was told of, and which kinds of curation lost their destination to a call whose NAMESPACE was refused |

Messages are their own UIDs, a mailbox name is the sequence of its components
(`FolderNames`, which also has `chooseCurationFolder`, `namespaceFolder`,
`leafOf` and `CheckFolderDeletable`). Connections are left to `ImapPool`. The
library's part is not in the repository: go-imap v2.0.0-beta.8 (`go.mod:6`) on a
server without MOVE writes UID COPY, UID STORE and UID EXPUNGE before it waits for
the first of them, and the model has it so. Commands that are lost with the
connection before the COPY are taken to be lost altogether.

Properties: `NothingLost`, `ReportsAreTrue`, `DestinationsSurvive`,
`OnlyUnclassedMistakesCount`. `NothingLost` names what does lose mail: another
client, an arrival between the count and the DELETE of a folder (`late`), and a
refused COPY whose STORE and EXPUNGE are already sent (`forsaken`); `NeverLost`,
without the last of these, does not hold (`ImapRefused.cfg`). What is forsaken is
the messages of that one request while their commands are under way. That no
message is *duplicated* is not among the properties:
after a lost reply a retried fallback copies again.

### SmtpSend and Transport

`SmtpSend.tla` models `Send` of one message: rendering, dialling, authenticating,
DATA and QUIT of each attempt (`deliver`), each of which can fail for now or for
good, the reply to end-of-DATA that can be lost, and `Send`'s judgement, which
looks at the attempt's deadline only when the attempt has returned. `accepted` is
`Send`'s variable, overwritten by each attempt. `Transport.tla` is what the outbox
counts on: `Outbox` models the handover as one step with one answer. `SmtpSend`
implements it.

Properties: `OnlyLostRepliesDuplicate`, `PermanentIsFinal`, `SendAnswers`,
`KeepsContract`.

### Watcher

`Watcher.tla` models `Watch`, `idleSession` and `connect`: dial, token, login,
select, idle, the refresh of IDLE, the classification of the error a session
ended with, and the delay before the next dial, with the bounds `SetBackoff`
leaves in force. The environment changes how the server and the token endpoint
behave, breaks connections without telling, and delivers mail; `news` is an
announcement on its way, which the connection's own goroutine takes
(`Announce`). `dials` and `waited` measure an outage and stop counting at
`MaxWaited`.

Properties: `NoStorm`, `RejectionIsLast`, `StaysInformed`.

Its `WatcherInit`, `WatcherNext` and `WatcherSpec` have their prefix because the
watcher is proved about beside the limiter, in one module: both wait for delays
that double, and share `Backoff.tla` (`Doubles`, the shift of `backoffFor`, and
`Lesser`).

### AttemptLimiter

`AttemptLimiter.tla` models basic auth's limiter: `Ask` is `allow`, and
`recordFailure` and `recordSuccess` follow in a step of their own, since the
password is verified outside the lock and several requests of one client are
verified at once. `Clients` are what `clientKey` tells apart. A full table evicts
by sampling: maps have no fixed order, so any sample and any expired entry it may
meet first is a possible outcome. `since`, `spent` and `evictions` are history: the
verifications a client had since its own last success, and how often its record was
given up meanwhile. Nothing else starts them again. An eviction takes the failures
and the lockout with it, so each one is worth another budget: `GuessesBounded` says
that churning the table buys this and no more, which is the residual that
`basicauth.go:180-182` names.

Properties: `GuessesBounded`, `TableBounded`, `LockoutsEnd`; `HonestNeverSlowed`
is proved only.

### Reply and MailRequests

`MailRequests.tla` composes the MCP tools, the service, the switchable mailbox and
a backend of the kind that does not batch. A request passes its checks, the
confirmation gate (`Gate`), the service's look at the cap (`Service`), the lookup
of the backend (`Switch`), the switchable's own look at the cap (`Limit`), the
measuring of a fetch (`Locate`, `Stat`) and the work on one id after another
(`Work`), while `Swap` replaces the backend, mail arrives and callers hang up. A
reply or a forward reads the original from the mailbox of that moment
(`Original`), is derived with the address of the sender of the next (`Derive`, with
`Reply.tla`'s `DeriveReply`, `DeriveForward` and `take`), both before anybody is
asked, and is queued after the gate (`Enqueue`); `SwapSender` follows a `Swap` at
any distance. Each mailbox has its own messages and headers, also under an id that
both use, and each sender its own address. A stat that fails refuses the batch.
`req[c].cap` is the limit the tool's own check went by. email.move takes the path of archive, and email.send
that of a reply without its derivation; neither has actions of its own. An
address is its addr-spec, the rest of its spelling and whether it parses.

Properties: `ReportIsExact`, `OneGestureBounds`,
`OnlyStirredMailEscapesTheBudget`, `AudienceAsApproved`.

Definitions whose comment starts with "A faulty variant" are plausible mistakes in
the operation they stand next to. No specification uses them. Put in the place of
that operation, each makes one of the properties fail, which shows that the
property depends on what the code does there.

## The runs

| Run | Instance | What it asks |
|---|---|---|
| `outbox` (`Outbox.cfg`) | 2 messages, 1 retry each; worker, 1 handler, 1 CLI process; 1 mishap with both messages, up to 3 while there is one | Do delivery, repair, retry and status leave each other alone, and what survives interrupted transitions that pile up? |
| `outbox_live` (`OutboxLive.cfg`) | 1 message; same threads; 2 retries; 2 crashes; fair | Is every queued message processed and every retry answered? Is the lifecycle implemented? |
| `imap_pool` (`ImapPool.cfg`) | 3 callers, 4 connections, 1 destination | Who owns a connection, and on which folder does a call act? |
| `imap_stray` (`ImapStray.cfg`) | 2 callers, 3 connections | Violation: a call acts in a folder nobody asked for. |
| `imap_curation` (`ImapCuration.cfg`) | 2 calls out of 10, 2 messages and a delivery, 4 kinds of server, 3 sets of folders; 2 attempts, 1 mishap, 1 act of others | What can destroy mail, are reports true, what is held against the server, and do curation's destinations survive? |
| `maildir` (`Maildir.cfg`) | 2 callers, 1 message, inbox, one folder, archive | Is a message ever destroyed, or reported unknown while it is there? |
| `smtp_send` (`SmtpSend.cfg`) | 3 attempts, every way to authenticate; fair | When is a message delivered twice, which failures are final, does Send answer and keep the contract? |
| `watcher` (`Watcher.cfg`) | 3 settings of the backoff, 2 credentials, 20 units of outage; fair | Is there a reconnect storm, and does news keep coming? |
| `limiter` (`AttemptLimiter.cfg`) | 3 clients, 2 requests each, a table of 2, a sample of 1, 2 ticks, 1 eviction of each client between successes | How many guesses, how long a lockout, how large a table? |
| `mail_requests` (`MailRequests.cfg`) | 2 requests out of 6 tools and 3 batches, 2 mailboxes with different limits, senders and a shared id, 1 swap | Are reports exact, does one approval move no more than was asked, is the budget kept, who gets a reply? |
| `runtime_config` (`RuntimeConfig.cfg`) | 2 callers, 3 calls, 2 endpoints, 2 users, 5 secrets, 8 patches, 2 profiles, an OAuth client's file and a password in the environment | Does what runs, what is configured and what is saved agree, and where do secrets go? |
| `runtime_profile` (`RuntimeProfile.cfg`) | profiles whose outbox names no directory | Violation: mail is sent through an account that is no longer configured. |

Every passing run explores its whole state space: 270 states (`smtp_send`), 31
thousand (`imap_pool`), 49 thousand (`outbox_live`), 107 thousand (`watcher`), 0.4
million (`runtime_config`), 0.65 million (`outbox`), 1.5 million (`maildir`), 2.3
million (`limiter`), 3.1 million (`imap_curation`) and 2.2 million
(`mail_requests`). The one state constraint, `FewMishaps` in `MCOutbox`, is the
bound on mishaps named in the table.

### Configurations beside the runs

These are for the claims that do not hold, each with the shortest way to see it
fail, and for one longer horizon. `tlc -config RuntimeEnv.cfg MCRuntimeConfig` and
so on; all but the last end with a counterexample.

| Configuration, module | Claim | What TLC shows |
|---|---|---|
| `RuntimeEnv.cfg`, `MCRuntimeConfig` | `CredentialsStayHome` | after a move and a restart the environment's password is used with the address in the file |
| `RuntimeRace.cfg`, `MCRuntimeConfig` | `CredentialsStayHome` | a password confirmed for one host is merged after another call has moved the host, and goes there |
| `RuntimePersist.cfg`, `MCRuntimeConfig` | `SetPasswordsPersist` | a password set on a server started with one in the environment is answered to be persisted and is not in the file |
| `RuntimeRefusal.cfg`, `MCRuntimeConfig` | `ActsAsConfigured` | a change of user that fails to build leaves the running service account acting for the new user |
| `RuntimeHydrated.cfg`, `MCRuntimeConfig` | `FileSecretsStay` | a second patch of the OAuth2 settings drops the marks, and the client secret of the credentials file is saved to the configuration file |
| `ImapRefused.cfg`, `MCImapCuration` | `NeverLost` | a refused COPY is followed by the STORE and the EXPUNGE sent with it |
| `MaildirNames.cfg`, `MCMaildir` | `NeverDestroyed` | a name is used again, and marking seen replaces the first message |
| `AttemptLimiterLong.cfg`, `MCAttemptLimiter` | `GuessesBounded` | holds, over 4 ticks and 2 evictions of each of 2 clients, with a table of one |

### Why the bounds are enough

*Outbox.* Records do not share files, so what a second message adds is a second
element in the sets a repair and a delivery run work through: a failure on one
must not leave the other half-processed. One mishap is enough for that. What one
record can go through is exercised with one message and three mishaps: they are
enough to interrupt a transition, interrupt its repair and damage or fail one more
step; `survivor` compares pairs, and three copies of one id need two interrupted
transitions. One retry takes a record through the whole lifecycle twice, and
`outbox_live` has two. The theorems remove the bounds for all the safety
properties.

*ImapPool.* Three callers is one more than needed to lose, share or clear
something, so that a third can pick up what two have left; one more connection
than callers, because the cached one is nobody's.

*ImapCuration.* Calls meet each other at the server only, so two of them, any two,
show what one does to the other between its commands. Two messages make a batch
that is found in part; one of them has no Message-ID. Two attempts are what it
takes for a retry to meet what the first attempt left, with the one mishap that
makes it retry; more mishaps repeat that on a mailbox which has changed in the
same ways. One act of others is enough to move any message, restore a flag or fill
a folder under a call. With `TripAfter = 1` the breaker opens and cools down
within two calls, and the one mishap is also the full mailbox that refuses a COPY;
the configured trash that is missing refuses it without any. The archive is found by declaration, by convention, by alias or
created, the trash is configured and may be missing; the namespace is rooted at
INBOX., which is what makes a refused NAMESPACE matter. `NamesAssumption` asks
that `MCListing` has every mailbox that a request names or curation would make.

*Maildir.* The races are between two callers and an agent over one message; a
second message matters only where names repeat, which `FreshNames` excludes, and
folders of different kinds, the inbox, a user folder and a curated folder with its
nested form, are all there.

*SmtpSend.* Three attempts, one more than needed for a duplicate, so that a lost
reply, a failure and an answer can follow each other. The theorems are for every
number.

*Watcher.* The three settings are the defaults, a maximum below the first delay
(which SetBackoff corrects) and both given; 20 units are several times the longest
delay, so that the backoff saturates and repeats.

*AttemptLimiter.* A table of two for three clients evicts, with a sample smaller
than the table. Times are in units in which lockouts double once and meet their
cap, entries expire within the run, and two ticks let the first lockout run out and
the second begin. Each client loses its record once between two successes;
`AttemptLimiterLong.cfg` has longer times and more evictions of fewer clients, and
the theorem is for all.

*MailRequests.* Two requests and one swap: a request is overtaken once, by a
request for the same message or by a swap of the mailbox or of its sender between
any two of its looks at them. The mailboxes share an id, under which each has a
message of its own, one has a lower limit, one message is in only
one of them; the batches are a single id, two, and the same one twice. The budget
of 3 takes one message of 2, not two.

*RuntimeConfig.* Two endpoints and a secret for each are what it takes to see a
secret travel, and three calls to see it travel through a configuration that one
call made and another left. The patches move the mailbox with its password and
another limit, without it and with a clear, change the password in place, change
the user and turn TLS off, set an OAuth client by its file, move its token
endpoint, and move the sender; one profile changes both sides, and the other leaves
the sender alone. The mailbox's password comes from the environment at first, the
sender's from the file. The endpoints of mail and of tokens are not told apart, so
that any secret can be wrong at any of them.

Deadlock is checked where the system may never stop: in the outbox, the connection
pool, the maildir and the runtime configuration. In the others it stops rightly:
the calls of `imap_curation` and the clock of `limiter` are bounded, a request of
`mail_requests` is made once, a send is answered, a watcher gives up.

### Fairness

`outbox_live` assumes `FairSpec` of `Outbox`. `WF(StartServer)`: whoever runs the
server starts it again after a crash. `WF(Tick)`: the ticker of `main.go:123`
ticks. `SF(Step(t))` for each thread: a goroutine that is in an operation is
scheduled, the wire send ends (`SendAnswers` of `SmtpSend`), and a thread that
waits for the file lock or the mutex gets it in the end although others take it
again and again, since flock and `sync.Mutex` (in its starvation mode) both hand
over to a waiter. Nothing is assumed of requests and CLI processes that have not
started, of crashes, or of failing file operations. Crashes are bounded in number:
a server that crashes for ever delivers nothing, and no property says it does.

`smtp_send` assumes `WF(Next)`: the SMTP library bounds every command by a timeout
of its own, so each ends, one way or the other.

`watcher` assumes `WF(Step)`, since timers fire and commands are answered or time
out, and `WF(Announce)`, since the connection's goroutine runs. Nothing is assumed
of the server, the network or the mail: what `StaysInformed` needs of them it says
itself.

## Where the code and its documentation part

Two disagreements have a run with the shortest trace TLC finds.

1. `ConfiguredWhenActing` (`imap_stray`). One `selected` note serves all
   connections, so a move that overlaps another call can cache its connection on
   the destination folder, although `infrastructure/imap/imap.go:184` says that
   every operation leaves its session as it found it.
2. `SendsAsConfigured` (`runtime_profile`), with a profile whose outbox has no
   directory, like the one in `README.md`. The call succeeds and the old account
   goes on sending.

The others were met while modelling. The models allow them, and the properties are
worded so as not to claim the contrary; where a property names the exception, or a
configuration beside the runs shows it, that is given.

* **Outbox.** A server that starts while a CLI command holds the outbox skips its
  repair (`briefkasten.go:217-231`), because a busy outbox is taken for one whose
  owner repairs it. A CLI command does not: a message that an earlier crash left in
  sending stays there until the next start.
* **Maildir.** Delivering, marking seen and moving rename over a message of the same
  name (`sender.go:50`, `maildir.go:236`, `484`), although "Briefkasten never
  destroys mail" (`SECURITY.md:213`); only `FreshNames` excludes it
  (`MaildirNames.cfg`).
* **Maildir.** Archiving from within a folder files into `<folder>/.archive`
  (`maildir.go:718`), which no folder name reaches; the comment at `maildir.go:728`
  says that archived mail stays listable. `NeverDestroyed` counts it as a place.
* **Runtime configuration, the environment.** "Credentials never follow an `addr`
  change" (`README.md:711-714`, `runtime.go:168-172`). A move with a password of its
  own is saved without that password, because the note that the field came from the
  environment (`config.go:252`) outlives the value; the next start puts the
  environment's password on the address in the file. So the environment's password
  goes to the new host (`RuntimeEnv.cfg`), and the one set deliberately, which
  `config.go:248` says still persists, is lost (`RuntimePersist.cfg`). `Known` of
  `SecretsStayHome` and `Agree` of `SetPersists` name it.
* **Runtime configuration, overlapping calls.** The human confirms before the mutex
  is taken (`runtime.go:298-304`): a password given for the host that was configured
  then is merged after another call has moved the host, and goes to that one
  (`RuntimeRace.cfg`; `strayed`).
* **Runtime configuration, OAuth2.** The settings have no address of their own: a
  patch that names another `token_url` keeps client secret and refresh token
  (`runtime.go:198-225`), which then go to that endpoint (`redirected`).
* **Runtime configuration, refusals.** "A configuration that cannot be built leaves
  the running one untouched" (`runtime.go:394-395`). A patch of the user alone
  shares the OAuth2 settings with the running mailbox, and `LoadCredentials` makes a
  service account's token source for the new user (`auth/oauth.go:135-136`) before
  the rest is built: if that fails, the running mailbox signs in as somebody else
  (`RuntimeRefusal.cfg`). `RunningIsConfigured` is about what is swapped.
* **Runtime configuration, credentials files.** What was read from a
  `credentials_file` is "not copied into the config file" (`README.md:484-487`,
  `config.go:243-246`). `applyOAuth2Patch` copies the fields and not the marks
  (`runtime.go:198-203`), so that any second patch of the OAuth2 settings makes the
  client secret a value like any other, and saves it (`RuntimeHydrated.cfg`).
* **Resilience.** A single move of an id that is not there is retried and held
  against the server: `Move` does not look for the message first, and what it
  answers is no `ErrBadID`, although `resilience.go:34-36` says that a bad id
  never is. A configured archive or trash that does not exist is held against the
  server too: an override is used without a look at LIST, and nothing creates it.
  Both are named in `OnlyUnclassedMistakesCount`.
* **IMAP moves.** On a server with UIDPLUS and without MOVE, a COPY that is refused
  (the configured trash does not exist, the quota is full) does not stop the STORE
  and the EXPUNGE that go-imap sent with it. The caller is told of a failure, and the
  message is gone, although `imap.go:1487-1488` removes the source "only after the
  destination has been verified" and `mcpserver/server.go:588` promises that
  "permanent deletion is not performed". Named in `NothingLost` (`forsaken`);
  `ImapRefused.cfg` shows it.
* **IMAP moves.** After a lost connection the fallback of a server without MOVE
  copies again: the destination can hold a message twice. `domain/mailbox.go:357-359`
  says that not knowing whether the move landed is the worst that comes of
  repeating a call.
* **IMAP folders.** A refused NAMESPACE is taken for a namespace rooted at the top
  for that call, so that `DeleteFolder` settles other destinations than curation
  does, which `imap.go:1266-1268` says can never happen. Once it has deleted a
  destination in this way, another folder takes that one's place, and a call that
  checked this folder before may go on to delete it. Named in
  `DestinationsSurvive`.
* **IMAP headers.** `FetchHeadersMany` maps UIDs back to ids (`imap.go:497-540`):
  of two spellings of one UID, one is in neither result.
* **Resilience.** `FetchHeadersMany` returns a failed backend in its map of
  failures, with a nil error (`resilience.go:192-220`): it is neither retried nor
  counted.
* **Watcher.** A revoked OAuth2 grant is retried for ever, although a credential
  that was rejected is meant to end the watch (`watcher.go:121-123`).
  `RejectionIsLast` is about the IMAP server's refusals.
* **Fetch budget.** A message renamed between locate and stat is not measured and
  then fetched: more than `MaxFetchBytes` can be returned, against
  `domain/mailbox.go:390-402`. Named in `OnlyStirredMailEscapesTheBudget`.
* **Confirmation.** Ids and a destination approved for one mailbox are carried out
  on another when `config.set` swaps it while the human decides
  (`mcpserver/server.go:370-383`, `runtime.go:430`). A reply goes to the people it
  was shown for, but its original is that of the mailbox swapped in by then, the
  sender it leaves out may be the old one, and it may leave from the new one.
* **Limiter.** A client whose record was evicted begins again without failures and
  lockout: `basicauth.go:180-182` names the residual, and `GuessesBounded` counts it.
* **Watcher.** `config.set` swaps the mailbox and leaves the watcher on the old
  one (`cmd/briefkasten/main.go:142-170`).
* **Bulk operations.** The service returns a cancelled batch's partial result with
  the error (`service.go:504-508`), and the MCP tool drops it.

## The proofs

| Module | Theorems | For all |
|---|---|---|
| `OutboxProofs` | `Invariance`, `TypeCorrect`, `NothingIsLost`, `OneSend`, `InFlightSafe`, `AttemptsCover`, `StatusMisses`, `SentStays`, `RepairIsClean`, `LifecycleImplemented` | messages, handlers, CLI processes, retries and mishaps |
| `ImapPoolProofs` | `Invariance`, `TypeCorrect`, `Ownership`, `NoLeaks`, `StraysOnlyCrossed` | callers, connections, folders |
| `ImapCurationProofs` | `Invariance`, `TypeCorrect`, `NoMessageIsLost`, `AnswersAreTrue`, `BlameIsExplained`, `DestinationsAreKept` | callers, messages, folders, servers, requests, attempts, mishaps |
| `MaildirProofs` | `Invariance`, `TypeCorrect`, `NothingDestroyed`, `NothingMissed` | callers, messages, names, folders |
| `RuntimeConfigProofs` | `Serialized`, `TypeCorrect`, `WhatRuns`, `WhatIsSaved`, `PartialUpdate`, `SecretsAtHome` | callers, endpoints, users, secrets, credentials files, environments, limits, patches, profiles |
| `SmtpSendProofs` | `TypeCorrect`, `NoNeedlessDuplicates`, `PermanentFailuresFinal`, `ContractKept` | numbers of attempts, ways to authenticate |
| `BackoffProofs`, of `AttemptLimiter` | `TypeCorrect`, `HonestServed`, `LockoutsRunOut`, `TableStaysBounded`, `GuessingBounded` | clients, thresholds, backoffs, table and sample sizes |
| `BackoffProofs`, of `Watcher` | `WatchInvariance`, `StormBounded`, `RejectionFinal` | backoff bounds and overrides, credentials, outages |
| `MailRequestsProofs` | `Invariance`, `TypeCorrect`, `OneGesture`, `ReportsExact`, `MailFollows`, `BudgetHolds`, `AudienceApproved` | callers, mailboxes, senders, ids, sizes, limits, batches, header lists, swaps |

Every invariant and every action property of the passing runs is proved.

**Assumptions.** The named ASSUMEs of each module say that the constants are of
their types and that sets which are different in the code do not overlap; TLC
evaluates them in each run. Three hypotheses are real conditions, stated in
the theorem: `FreshNames` (all of `MaildirProofs`), that every profile with an
outbox names its directory (`WhatRuns`), and that no file operation fails
(`"fault" \notin Mishaps`, `LifecycleImplemented`). `MaildirNames.cfg` shows that
the first is needed and the run `runtime_profile` that the second is; the section on
the outbox says what happens without the third. `RuntimeConfig` assumes of its
inputs that the defaults have no secrets, that nothing in the file is marked as
filled in, which the format cannot say, and that profiles sign in with passwords.
`NamesAssumption` of `ImapCuration` is a convention of the model: `Listing` has every
mailbox there can be, so that the folders that exist are a part of it. Of each header list that
`MailRequests` folds over, `RequestsAssumption` says that it is a sequence.

**Doubling and folds.** The delays double by a recursive function, and `Reply` and
the budget fold over lists. The library's induction theorems take an operator,
which the installed provers cannot instantiate. What is needed of each concrete
function is proved without them: a set of numbers that has 0 and every successor of
its members is all of Nat (`EveryNumber`, by the least number missing), and the
set is that of the lengths for which the claim holds.

**Outbox.** None of the properties is inductive. That a record is sent once per
decision depends on what a worker at `wire` knows of the files (the queued copy is
gone, the attempt is on disk), and that depends on what a repair in another
process may do to a record it does not hold. `IInv` therefore has two halves:
`RecordOK`, what the copies of a message say whichever transitions were
interrupted (a copy still in queued stands for a decision not acted on, sent is
never older than another copy), and `LocalOK`, what a thread knows of the files at each
point of its operation. `LockOK` connects them: knowledge about a record in
transition belongs to the one thread that holds the outbox. The first part of the
proofs shows how each operation moves the locals, and that a step of another thread,
a crash or a damaged file keeps what a thread knows; the second proves each action
over the records. `SentIsFinal`, an action property, follows from the same invariant.

`CleanRepair` needs to know what a repair still has before it: as long as nothing
went wrong, every copy but one of each record and every record in sending is on its
lists (`Mending`), which no step of another thread can change while it holds the
lock. For `ImplementsLifecycle`, `LifecycleInv` says how the copies of a record are
ordered by their attempts where no file operation fails (`Orderly`), and that a
repair removes no authoritative copy. In such a store the authoritative copy is read
off case by case (`Stands`). Writing a copy is then one event of the lifecycle, the
handover is another, and removing a stale copy, a crash or a damaged file is a
stutter.

**ImapPool.** `UsesOK` says where a call has a connection, from which ownership and
the absence of leaks follow step by step. `Uncrossed` says what the note means as
long as no move has run beside another call: it is the folder of the one move
under way, and every other connection is on the configured folder.

**Maildir.** Rename is safe only because the target is empty, and that follows
from `OneEach`: a name is used by one message, and a message is in one place.
`AtWork` keeps the calls' arguments in their types. Removal of a folder keeps
`FilesOK` because it takes away only subdirectories that hold no file at that
moment. `NotMissed` rests on the way a message takes: from new/ to cur/ and never
back. What a call has not found in new/ and has not looked for in cur/ yet is still
to be found there (`InSight`), unless it was moved out of the folder or the folder
is being removed meanwhile.

**RuntimeConfig.** Layered: `Base` says that the mutex serializes the calls and
that the call that commits carries a configuration computed from the one that still
holds. On top of it, what serves at each point of the commit is a mixture with a known
boundary (`WhatRuns`). What the file holds agrees with what was answered, because
writing a configuration without what the environment and the credentials files
provide and reading it back restores all but the former (`WhatIsSaved`). For
`SecretsAtHome` the invariant is about secrets wherever they can come from next: in
memory, in what runs, in the file, and in the configuration a call has computed. The
case that needs an argument is the merge: what a call names is used as it had meant
it if the side is as it had seen it, and is a stray use otherwise.

**SmtpSend.** `Accounted` relates what the server holds to what Send knows at each
point of an attempt: everything it holds is a lost reply, or one that is about to
arrive, or one that did, and then Send is told so. That every step is one of
`Transport`'s or changes nothing it sees follows from it (`ContractKept`).

**ImapCuration.** `Safe` says where a message is when it is not in the inbox, in
particular at the step between COPY and EXPUNGE, that what commands nobody awaits
any more can still remove was copied or is forsaken, and that a folder about to be
deleted holds only what arrived after the count. `Sound` says what a call has
established where it stands, from which each answer is true when it is given
(`Truthful`), and stays so because the inbox never gets a UID back. `Guarded` says
that a folder which was allowed to be deleted would not be chosen as a destination
if it were still there; it survives other calls' changes because a better folder
that appears can only make it less wanted (`TopGrows`, over the order of authority
of `chooseCurationFolder`), and the deletion of a better one is what `orphaned`
records. `Undisturbed` says of a call that met nobody that either its request has
one of the mistakes the code does not class, or its next command finds all it needs
(`Smooth`), so that no command can fail.

**AttemptLimiter.** `LockoutsEnd` needs that no recorded failure lies in the future
(`PastFailures`) and that a backoff never exceeds its cap, whatever the count
(`BackoffBounded`). `TableStaysBounded` needs that a full table has a victim: among
the samples of any size there is one, and its least recently seen entry.
`GuessesBounded` needs to know that every verification since a clean record is on
record or still running (`Charged`), and how many lockouts have run out: with n of
them behind it, a client has waited the first n delays, and either the (n+1)st is
in force or the record leaves room for one more round of requests (`LockoutsOn`).
An eviction ends one such count and begins another, while the time that has passed
is that of all of them together.

**Watcher.** After k doublings since the last session in IDLE no more than k dials
have been waited for, and once the delay is the greatest, each dial has been waited
for that long, apart from the doublings and the dial under way (`Paced`). That the
delay is the least one doubled k times, or the maximum, carries it from one wait to
the next. That
`Doublings` exists at all is a lemma: doubling outgrows any number. With a session
in IDLE the count starts again (`Idled`). `RejectionIsLast` is `Refused`: what was
refused for good is at the end, or at a failure that `permanentFailure` knows.

**MailRequests.** `Sound` says what is known of a request where it stands: its ids
were checked and do not repeat, a curation past the gate was approved, and the
first ids are on exactly one of the two lists, once (`Accounted`). `Ledger` ties
the requests to the mailboxes: a message is in the archive or the trash exactly if
one request lists it as done, which holds because a message leaves the listing for
good. A second invariant, `Mailing`, builds on them. `Addressed` and `Letters`: what
waits at the gate is what was derived from the original that was read, for the
sender of that moment, and what is queued was approved, once for each request. Who gets it is a fold over the header lists, which
the lemmas unfold position by position, up to what `take` returns for any list.
`Measuring`: the measured size is the sum over the places looked at so far, and as
long as nothing of the batch moved, what is fetched was measured.

**Only model-checked.** The liveness properties `QueuedIsProcessed`,
`RetryIsAnswered`, `SendAnswers` and `StaysInformed`: they rest on fairness, hence on
ENABLED, which the installed provers do not reason about. `ImplementsLifecycle` is a
safety property, since `OutboxLifecycle` states no fairness.

## Not modelled, and the plan

Left out for good:

* Text formatting, MIME and header parsing, name and address validation, the
  resources, prompts and UI of the MCP server, argument parsing and output, the
  HTTP transport. They keep no state and their correctness is a matter of data that
  tests reach well.
* Listing, searching, paging, reading headers and `config.get`, which change
  nothing. What listing does to an IMAP connection is in `ImapPool`.
* The maildir watcher, one goroutine that passes on file system events until the
  first error. What the kernel's queue drops is outside the code.
* OAuth2 tokens. What a token source remembers, and what becomes of it when
  the context it was made with ends, is decided inside golang.org/x/oauth2, whose
  source is not part of the repository; a model would be of that library's
  behaviour and not of this code. Its answers are inputs of `SmtpSend` and
  `Watcher`. The settings and the credentials files are in `RuntimeConfig`.
* The Windows lock, which behaves as the Unix one and has no actions of its own.

What would come next: the listings, as pages over a mailbox that changes between
them; a connection pool and a curation in one module, where a connection that
strays is one that curation acts on; and the watcher that `config.set` leaves on
the old mailbox, as a composition of `RuntimeConfig` and `Watcher`.
