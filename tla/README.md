# A verification development for Lightr

Lightr is a mail server built around Dovecot: it takes mail on :25 and :587,
decides where it goes, hands local copies to Dovecot over LMTP, queues the rest
for other servers, tells webhooks about it, and offers an HTTP API and a command
line over the same database. This directory holds TLA+ models of the parts
where order, concurrency and failure matter, the TLC configurations that check
them on small instances, and proofs, for every instance, of what the queue, the
webhooks, an SMTP transaction, sign-ins and sessions, logins, the rate limits, the
event sockets and the requests of a mailbox promise. Paths below are relative to
`src/src/lightr/`.

## 1. The system

One asyncio process (`lightr serve`, `server.py`) runs two SMTP listeners, the
queue's sender and the HTTP API over one SQLite or Postgres database. The
command line is another process on the same database, and several servers may
share it. Almost every `await` is a point where another task or process may
commit a transaction, so the models take as one step **one database statement
or transaction, one command to Dovecot, one file operation, or what one task
does between two awaits**, whichever is the smallest the others can see.

| component | state | operations | interacts with | what is hard |
|---|---|---|---|---|
| outbound queue and sender (`mail/queue.py`, `mail/sender.py`) | `email_queue` rows: status, attempts, next_retry; the sender's batch | enqueue, claim, send by MX or relay, mark sent or failed, retry, purge | SMTP hand-off, API, CLI, remote servers, shutdown | two senders on one row; failure between sending and marking; several recipients, one status; backoff |
| webhooks (`webhooks/`) | `webhooks`, `webhook_events`; tasks, a semaphore | emit, load hooks, post, record, test, create, update, rotate, delete, drain | SMTP handlers, API, CLI, shutdown | hooks read before a wait and used after it; counters written by many tasks; drain with a deadline |
| routing (`mail/routing.py`, `repo.py`) | domains, accounts, aliases, suppression list | route one recipient, expand aliases | the directory | aliases of aliases, loops and convergence, bridges |
| SMTP (`mail/smtp.py`) | one transaction: envelope, routes, outcome | RCPT, DATA, deliver with its hand-offs | routing, queue, reply routes, LMTP, webhooks | the directory changes under a transaction; several hand-offs, one answer; the client retries |
| reply routes (`mail/replies.py`) | `alias_reply_routes` | create, look up, expire, relay an answer | SMTP | a stranger's way out of the server |
| bounces (`mail/bounce.py`) | `bounces`, `suppression_list` | parse, record, suppress, unsuppress | SMTP, routing | a bounce changes how later mail routes |
| LMTP (`dovecot/lmtp.py`) | none | one transaction, one status per recipient | Dovecot | partial refusal, silence after some copies landed |
| rate limits (`ratelimit.py`) | token buckets by address and by key | take, retry_after, forget, sweep | API, SMTP | boundaries, the sweep, two budgets charged in turn |
| API (`api/app.py`, `api/auth.py`, ...) | one transaction per request | authenticate, limit, the endpoints | all repositories | the transaction is open while the handler awaits |
| sessions and keys (`api/session.py`, `apikeys.py`) | `api_keys` | sign in, sign out, revoke, change password, purge | limits, authenticator, Dovecot's cache | sign-in against password change; whole rows written back |
| event sockets (`api/events.py`) | a count per mailbox; each task's window | admit, watch, report differences, end | IMAP, the mailbox's count | slots given back on every path; SEARCH and FETCH are two commands |
| authentication (`auth.py`, `authproviders/`, `checkpassword.py`) | password hashes, `auth_providers` | native check, provider chain, edits | directories, Dovecot | unavailable is not "no"; rows edited under a login; timeouts within timeouts |
| Dovecot manager (`dovecot/manage.py`, `config.py`, `doveadm.py`) | `config.yaml`, generated files, backups | setup, install, verify, roll back, reload, drift | disk, doveconf, the running server | killed between two files; rollback; secrets in three places |
| Sieve (`dovecot/sieve*.py`, `filters.py`, `api/filters.py`) | `filter_rules`, script files | edit, compile, install | doveadm, API, incoming mail | two installs for one account; half-done activations; stop semantics |
| analysis (`authentication.py`, `spam.py`, `reputation.py`, `headers.py`) | none | one message in, a verdict and two headers out | DNS, rspamd, Sieve | no answer is not a "no"; a list that lists everything; headers the sender wrote |
| mailboxes (`api/mailbox.py`, `dovecot/mailbox.py`, `aioimap.py`) | Dovecot's folders, one connection per request | flag, move, delete, purge, empty, draft, send | Dovecot, the owner's app, SMTP | fall-backs of several commands; a connection lost after the command |
| backup (`backup.py`) | the archive, its staging file | dump, archive, wipe, load, mail | database, Maildirs | consistency against a running server; crash in the middle |
| configuration, provisioning, transfer, DNS records, CLI | files | parse, migrate, print | everything | I/O |

What makes each modelled component correct is in section 4. `PROJECT.json`
lists every component with its status, every hazard with the line where it
bites and the property that would catch it, and every finding.

Not part of the system modelled: `docs/`, `docs-site/`, `packaging/`,
`scripts/`, `integration/` and `tests/`. `packaging/systemd/lightr.service` is
where "the service is restarted on failure" comes from.

## 2. The modules

| module | models | extends |
|---|---|---|
| `OutboundQueue` | the queue, its senders, faults, operator | |
| `MailOutbox` | what the queue promises, abstractly | |
| `OutboundQueueProofs` | theorems about the queue | `OutboundQueue`, `TLAPS` |
| `WebhookEmitter` | emitters, deliveries, hooks, log, shutdown | |
| `WebhookEmitterProofs` | theorems about them | `WebhookEmitter`, `TLAPS` |
| `Routing` | the routing decision, as operators on a directory, and its reference definition | |
| `SmtpDelivery` | transactions over `Routing` | `Routing` |
| `SmtpDeliveryProofs` | theorems about transactions and about routing | `SmtpDelivery`, `TLAPS` |
| `ApiSessions` | one mailbox's credentials: sign-in, session keys, password change, account edits, Dovecot's cache | |
| `ApiSessionsProofs` | theorems about them | `ApiSessions`, `TLAPS` |
| `EventSocket` | the live-update sockets of one mailbox | |
| `RateLimits` | all token buckets and the order the middleware asks them in | |
| `TokenBudgets` | what a rate limit promises, abstractly | |
| `ApiLimitsProofs` | theorems about budgets, with the refinement between the two, and about sockets | `RateLimits`, `EventSocket`, `TLAPS` |
| `ProviderChain` | logins at three doors over a chain of directories | |
| `DovecotInstall` | setup and install of Dovecot's files | |
| `SpamScore` | the verdict on one message, as operators | |
| `SieveRules` | rules, the script they compile to, and what a script does, as operators | |
| `MailFilters` | filter requests, installation of scripts, mail judged and filed | `SpamScore`, `SieveRules` |
| `AccountProofs` | theorems about logins and about filters | `ProviderChain`, `MailFilters`, `TLAPS` |
| `MailboxOps` | requests on a mailbox's mail, command by command | |
| `MailboxOpsProofs` | theorems about them | `MailboxOps`, `TLAPS` |
| `Backup` | backups and restores beside a running server | |
| `CommandsProofs` | theorems about installation and about backups | `DovecotInstall`, `Backup`, `TLAPS` |
| `MC...` | values of the constants for TLC | the module they name |

**OutboundQueue.** `status`, `attempts`, `dueIn` are columns of `email_queue`
(`dueIn` is `next_retry` relative to the clock). A sender's `stage`, `found`,
`batch`, `current`, `leg`, `hosts` and `code` are where it is in `run`, what the
claim's SELECT returned, the claimed messages still to be marked, the message,
recipient domain and MX hosts being tried, and the SendResult. `Queue.claim` is
two actions: on a database that lets another transaction commit between a
SELECT and an UPDATE, another sender may come between. `copies` and `verdict`
are history: what recipients got and what remotes said of them, "never" for a 5xx
that the attempt came to, "refused" for one that was lost on the way, because
the exception carried no `.code` or because another MX host was tried after it.
`Failures` says how a remote may fail: the code, whether the exception carries
it, and whether the remote took the message nevertheless (a lost reply).

**WebhookEmitter.** `task[e]` is the `_emit` task of an event, `job[e][h]` its
`_deliver_one` for a hook, `ping[h]` the API's test of a hook, which uses
neither the semaphore nor `active`. A receiver may have taken what came back
as an error. `phase`, `draining`, `drained` and `waited` are `Server.stop` and
`Emitter.drain` with its snapshot.

**Routing** is the decision itself: `route(d, a)` on a directory record.
`expand_from` follows `Router._expand` (`expansion`, a recursive function of how
deep it may still go, the path and the address); `Hops`, `Loops` and `Terminals`
define by paths in the alias graph what it should compute.

**SmtpDelivery.** `tx[m]` is one transaction at a time of message `m`, with the
stage it has reached: `rcpt`, `may_send`, `bounce`, `route`, `handoff`,
`store`, `closed`. `steps` are the hand-offs still to be made (submitted mail,
forwards, replies, in that order) and `groups` the LMTP transactions by spam
action. `Aborted` is the `except Exception` of `handle_DATA`. Addresses are
model values: ours (`Mailboxes`, `Tokens`) or elsewhere (`Remote`).

**ApiSessions** is one mailbox and everything that can let somebody into it. A
client may name it by any of its `Names` (address, local part, id), and `tokens`
has a bucket for each, as `create_session` has. `account` is its row, `session`
its keys in `api_keys` (an inactive key and an expired one are both "dead",
since `APIKey.usable` and `purge_expired` treat them alike), `cache` what
Dovecot remembers, `tokens` the two limiters of `_limits`. `req[r]` is a
request, a command or a Dovecot look-up, made once; its `at` is the await it is
at. A change writes in an open transaction, so `held` are the rows it has
written, which nobody else sees and which make other writers wait: of the same
rows on PostgreSQL, all of them on SQLite (`Blocks`; `driver` is chosen in
`Init`). `record_use` takes the session's own row first, which is how two
changes can wait for each other (`Deadlock`). `account.by`, `ended` and
`guessers` are history.

**EventSocket.** `sock[s]` is the task of one socket: `at` is the await it is
at, from `new` through the token, the count and `accept` to the loop of SEARCH,
FETCH and waiting; `view` is `previous`, the listing last reported on; `picture`
is history, what a client makes of the updates it was sent. `folder` changes at
any await. `gone` is a client that has left and is not noticed yet.

**RateLimits.** `bucket` is a partial function, the tables of all limiters: a
bucket that does not exist is full. Tokens are counted in parts, `Period` of
them to a token, so that a tick of one second adds `Capacity` parts and nothing
is rounded. `_sweep` looks at its own limiter only, and `KeyLimiter` has no
sweep. `req` are requests whose key is being looked up, and `told` the moment a
refused caller was told to come back.

**ProviderChain.** One account and one password. `directory[p]` is what would
come of asking a provider now: its health, and whether it accepts. A login loads
the account, then the chain, then asks one provider after another; `Timeout` of
each and `Patience` of checkpassword are counted from when a directory hangs.
`might`, `held` and `always` are history: the providers named, accepting at some
time and accepting all the time since the login began.

**DovecotInstall.** A file is who wrote it, the settings and the secret in it,
and the run that salted it; `lacks` is what the file on disk still has as
`mkstemp` made it, its mode 0600 or its group root's. `run` is the run under way
with the configuration in its memory (`mem`), the file it is at, and the changes
it recorded, which is all that `rollback` looks at. A write is three steps:
`write_atomic` (backup, rename), `chmod`, `set_group`; it may raise or be killed
between them, and `rollback` may break off within a copy (`PutBackFails`, which
leaves a "torn" text). The server (`server`) and people who edit files, with a
mode of their own or without, act between any two steps. Dovecot may read its
files at any moment, so that a property of what it reads is one of every state.
`settled`, `sound` and `torn` are history: the files no one else wrote, whether
a run has ended well, the files in which some write was cut off before their
mode or group, or could not give the group.

**SpamScore, SieveRules, MailFilters.** `analyse` is the whole way from what the
checks answer, or do not answer, to the reasons of a score; `apply` sets the
headers; `compile_script` and `Filed` are what a rule becomes and what Dovecot
does with it, where `word`s stand for texts. `MailFilters` adds time: `rules` is
the table as committed, `job[j].mine` what an open transaction has written, and
`store[a]` the mailbox's script in its two places (what doveadm holds, and the
file behind `active.sieve`). Each doveadm command and each file operation may
fail.

**MailboxOps.** A request is the list of commands it still has to send (`todo`).
A connection may end with the last command carried out or not, and a server that
has MOVE may answer it NO, which starts the fall-back. Other requests and the
owner's mail app act between any two commands. `\Seen` stands for every flag a
request may set; that it is set is looked at, flags cleared are not. `unwanted`
and `marked` are history: what somebody asked to be rid of.

**Backup.** Two tables, one referring to the other, stand for the schema. `job`
is a dump that reads a table at a time, an archive written part by part to
`staging` and renamed, or a restore; its transaction sees what the database lets
it see, which differs between SQLite and Postgres (`driver`). A row that the
restore has written, or to which rows it inserted refer, makes other writers
wait. The two tables are tied by a key that does not cascade; the schema's two
cascading keys (`db/schema.py:198` and `458`) are between other tables. A table
the code does not know is skipped, one whose rows it cannot decode ends the
restore (`Decodes`). `Crash` is the death of the process: nothing is said of a
machine that fails, as the archive is renamed without fsync. An archive's
`quiet`, `still` and `fresh` are history.

`Init`, `Next`, `Spec`, `TypeOK` and the like carry a prefix in `RateLimits`
(`LimitsSpec`), `Backup` (`BackupSpec`) and `MailFilters` (`FiltersSpec`), because
one module of proofs extends each of them together with another component.

## 3. The abstract specifications

`MailOutbox` has no senders, attempts or clock: a message is delivered to
everyone it is addressed to exactly once and then called sent, or to nobody and
then called failed; only the operator reopens a failed message.
`OutboundQueue!KeepsThePromise` maps a row to its `Fate` (pending, sending and
deferred are all "accepted") and a message's recipients to its envelope.

`TokenBudgets` has no tables: every caller has a budget that fills at every tick
and pays one token for what it is granted; only a success may restore one.
`RateLimits!KeepsTheBudgets` maps the tables to the level each budget has at
this moment, a bucket that does not exist being full. It says that laziness, the
sweep and `forget` cannot be seen from outside.

TLC checks both refinements on small instances and TLAPS proves both
(section 5). For pure algorithms the reference is a definition: paths in the
alias graph for `Routing!expand_from`; the counterfactual message whose failed
look-ups were answered well for `SpamScore!analyse`; the rules' own sequence of
actions, over the message as it was before the server stamped it, for what a
script files.

## 4. What the runs check

| run | instance | shows |
|---|---|---|
| `queue_safety` | 2 messages to 2 people of one domain with 2 MX hosts, every kind of failure, 2 senders, 2 attempts, 1 operator command, 1 fault | claims are exclusive, nobody gets two copies, "sent" is true, permanent failures that an attempt came to are not retried, retries are bounded, settled rows stay settled, `MailOutbox` is implemented |
| `queue_liveness` | 2 messages to 2 domains, 1 sender, 2 MX hosts, 1 operator command, no faults | every message is sent or given up |
| `webhooks` | 2 events, 1 hook, 1 emitter with 1 permit, 2 operator commands, 1 fault, restarts | the failure counter and the log agree; what was received is logged; the cap holds; a clean stop loses nothing it was to wait for; every delivery ends |
| `smtp_transaction` | 2 messages, 5 directories, 1 retry, 1 database fault, 1 edit of an account or alias, deletion of the domain | expansion is reachability; relaying is earned; 250 is earned; nobody is forgotten |
| `sessions_races` | 3 requests of any kind, 1 earlier session, 2 client addresses, 2 names of the mailbox, 2 passwords, PostgreSQL, a directory that may be down, 1 refill | who is in has earned it; guesses under one name are capped; a finished password change ends what was finished before it |
| `event_sockets` | 2 sockets for 1 place, a window of 2, 3 uids, 2 folders, 2 changes | slots and sockets agree; the updates add up to the window; slots come back |
| `limits_budgets` | 2 addresses, a limited and an unlimited key, 2 requests in flight, a table swept at 1 bucket, 3 seconds | the tables implement `TokenBudgets`; waiting as told is enough |
| `chain_logins` | 1 login over IMAP or the API, 2 provider rows and the domain's webhook, 5 seconds of patience as 2 ticks, 1 edit, 2 changes of a directory | who gets in was vouched for; a right password is never called wrong; every login is answered |
| `install_runs` | 2 runs of setup or install, 1 edit by people, at most 2 files torn by a refused group, kills, failing writes, modes, groups, saves, reloads and copies back | the secrets agree and Dovecot may open the files that hold them; a failed run puts back what it recorded; a good one is complete; each with the exceptions below |
| `filters_requests` | 2 requests of two sessions and a run of the command, both databases, with and without doveadm, rows written by hand, 1 fault; every combination of answers of the checks for one message | the script follows the table; no edit is lost on SQLite; spam goes to Junk alone; an outage is no forgery, but for a DKIM query that raised |
| `mailbox_requests` | 2 requests of any kind, 5 uids, servers with and without MOVE, 1 lost connection or NO to MOVE, 1 command of the owner's app | no message vanishes; a success nobody crossed is whole |
| `backup_jobs` | 2 domains, 2 accounts, 1 message, 3 commits by the server, 2 jobs, both databases, failures and crashes anywhere | an archive is whole; a quiet backup restores; a restore is the archive |

The properties that hold only in part of the world say so in the
configuration. `NeverDeliveredTwice` needs single-domain messages, remotes that
do not take what they fail, and an operator who does not retry or purge rows a
sender holds (`RetryTargets`, `PurgeTargets`); `lightr queue retry <id>` and
`lightr queue purge --status sending` allow it, and the hazards list it.
`SentMeansDelivered` needs `PartialAcceptance = FALSE`: aiosmtplib returns
normally when a remote takes only some of several recipients, and the sender
does not look at whom it refused. `RightIsNotCalledWrong` is checked at the doors
of Dovecot and the API, not at SMTP AUTH. `EditsAreKept` is about SQLite, and
`ScriptFollowsTable` about installs that nobody joined. `SuccessIsWhole` is about
requests that nobody crossed.

Other properties hold only in part wherever they are checked, and say so in their
formula. `PermanentIsNotRetried` is about a 5xx that the attempt came to: one at
RCPT, whose exception has no code, or one of an MX host after which another is
tried, is lost before `classify_failure`, and such a message is retried.
`GuessesAreCapped` is about one spelling of the mailbox's name; with its address,
local part and id a mailbox has as many budgets as spellings.
`OutageIsNotForgery` excepts a DKIM query that raised, which is taken for a bad
signature and may add `dmarc=fail` to the reasons, and that only.
`FailedInstallRestores` leaves out the retired file, a file whose write raised
after its rename, and a run that could not copy back. `InstallIsComplete` promises
the text of every file, and its mode and group unless a write of it was once cut off
or refused its group: then `write_atomic`, which compares texts only, may leave the
file as it is. `LoginsKeepWorking` promises the secrets always, and that Dovecot
may open the files that hold them except between rename and chown and after a
write cut off there. What these leave out is in section 6 or among the findings.

*Bounds.* Two of each actor give every pairwise interleaving. Two attempts
reach deferral, exhaustion and giving up. One fault can strike at every step,
and what follows it is explored in full; one operator command likewise, two
in `webhooks` so that a hook can be disabled and enabled, or rotated and
deleted, around one event. `CopyBound` counts copies as none, one, several;
`MaxLag` forgets how overdue a row is beyond one tick. In `smtp_transaction` the
second message is the answer, bounce or looping copy the first gives rise to,
and the five directories are a mailbox with converging aliases, a bridge, two
accounts, two loops and a domain with no mailbox; `MaxDepth = 3` is enough for
the depth limit and for a loop of each length below it. In `event_sockets` one
place for two sockets makes the limit, and a window of 2 over 3 uids is full,
overflows and slides back within two changes. In `limits_budgets` a table of one
bucket sweeps at every second caller; periods of 2 and 3 with capacities 1 and 2
give a rate that is not a whole number. In `chain_logins` the first provider's
timeout is shorter than checkpassword's patience and the second's is not; the
password is at the start one directory's or nobody's. Two
runs of `install_runs` are one to be killed or fail and one to repair it. `MaxTorn`
bounds only how many files are torn by a group that is refused, so that a cut-off
write can still come after them. In `queue_safety` two MX hosts let each kind of
failure be followed by each other kind. In
`mailbox_requests` five uids are two messages, a draft and the copies two
requests can make. In `backup_jobs` three commits are a domain, its account and
one more in between.

In `sessions_races` three requests are the change, what it is meant to end, and
an edit or a second change beside it; the three ways in (session, cache, row)
need two each. `Budget = 1` empties a bucket with the first wrong guess, and the
second address makes the address limit useless, as many would; the second name
shows that buckets of two names are apart. The edits are a changed display name,
disabling and enabling; the switch to the directory and back, and deletion, are
in the model but not in this instance. Nor is SQLite: its transactions keep each
other out where PostgreSQL's may interleave (`Blocks`), and only on PostgreSQL
can two changes wait for each other, so that the instance has what SQLite can do
and more. The theorems are for both databases and for every edit. What
`ChangeIsComplete` may promise is limited by what the code does: it says nothing
of a sign-in or look-up that overlaps the change, nor of a row that an
overlapping edit wrote back; the findings describe both.

*Symmetry* is used in `sessions_races`, `mailbox_requests` and `backup_jobs`,
over sets whose members no definition and no property tells apart, and in no
run with a liveness property.

*Deadlock* is checked in `webhooks` and `limits_budgets`. It is switched off
only where the instance stops: every message settled, every transaction
answered, every request, login, run or job made, every socket closed. That two
password changes can wait for each other is an action of `ApiSessions`
(`Deadlock`), as the database ends it.

*Fairness.* `queue_liveness`: weak fairness of the clock and of each
sender, because `run` loops for the life of the server, every await in it has a
timeout, and systemd restarts the service. `webhooks`: weak fairness of
loading, taking a permit, posting (each POST has a timeout) and recording.
`event_sockets`: weak fairness of what a socket's own task does next, because the
event loop runs every task that can run. `chain_logins`: weak fairness of a
login's own steps, since every provider is asked under a timeout. Nothing is
assumed of clients, operators, remotes, receivers, directories or the mailbox's
owner, nor that faults stop.

*Types.* Every module states its `TypeOK`, and each is a theorem (that of
`EventSocket` is a conjunct of its invariant). They were checked beside the runs
and take no place in them.

*Mutants.* For each property of a run there is a bug, written next to
the definition it breaks and named `..._mut`, that makes that property fail.

## 5. What is proved

Eight modules hold theorems. Each is for every value of the constants that its
assumption types, and needs no other hypothesis unless one is named.

`OutboundQueueProofs`, for any number of messages, senders, recipients,
attempts and commands:

| theorem | property | under |
|---|---|---|
| `TypeCorrect` | `TypeOK` | |
| `ClaimsAreExclusive` | `ClaimIsExclusive` | `RetrySparesClaims` |
| `SettledStaysSettled` | `SettledIsFinal` | `RetrySparesClaims` |
| `RetriesStop` | `RetriesAreBounded` | `RetrySparesClaims` |
| `DeliveredAtMostOnce` | `NeverDeliveredTwice` | `KindWorld` |
| `SentIsTrue` | `SentMeansDelivered` | `KindWorld` |
| `QueueKeepsThePromise` | `KeepsThePromise` | `KindWorld`, `PurgeSparesQueued` |
| `PermanentIsFinal` | `PermanentIsNotRetried` | `RetrySparesClaims` |

`QueueAssumption`, of `OutboundQueue`, types the constants. The rest is not
assumed of the code but is a hypothesis of the theorem that needs it:

* `RetrySparesClaims`: the operator does not aim `queue retry <id>` at a row in
  status sending.
* `KindWorld`: each message goes to one domain, a remote takes all recipients or
  none, a send that fails was not taken, and the operator retries deferred and
  failed rows only. Section 6 shows that the first part cannot be
  dropped.
* `PurgeSparesQueued`: the operator purges settled rows only.

`ClaimIsExclusive` is inductive together with `TypeOK`. `RetriesAreBounded` is
not: a claimed row must still have an attempt to spend, which is `AttemptLeft`.
`NeverDeliveredTwice` and `SentMeansDelivered` follow from `OnceInv`: at every
moment nobody has a copy of a message or everybody has one; nobody, while its
row is waiting or failed and from the claim until a remote accepts; everybody,
from there until the mark and once it is sent. The copy and the row disagree in
one place only, a sender that is about to mark (`Delivered`), and there
exclusiveness says that no other sender can act on the row. The refinement
needs `HeldIsSending` besides: without purges of held rows, a held row is in
status sending, so marking it is one step of `MailOutbox`. Each action then maps
to a step of `MailOutbox` or to a stutter. `PermanentIsNotRetried` needs
`NeverInv`: a message that waits, or that a sender holds, has heard no permanent
failure that the attempt came to, unless its sender is about to record "failed".
It needs nothing of the remotes: what they say otherwise is "refused" or "later".

`ApiLimitsProofs`, of budgets, under `LimitsAssumption`: `TablesAreInvisible`, that
`RateLimits` implements `TokenBudgets` (`KeepsTheBudgets`), `WaitingIsEnough`
(`WaitIsEnough`) and `TypesAreKept` (`LimitsTypeOK`). What the tables hold enters the
first only through `LevelIn`. Fetching a bucket leaves it alone, the sweep
included, because a bucket idle for a whole period has filled up
(`FetchedLevel`); taking lowers one level by a token or none (`TakeLevel`); a
tick raises every level as the plain budget rises (`TickStep`). For the second,
`Promised` says that what the budget of a caller told to wait holds now, with what
comes until the moment it was told, makes a token; the rounding up of
`retry_after` is what makes it so at first.

`WebhookEmitterProofs`, under `EmitterAssumption`:

| theorem | property | invariant behind it |
|---|---|---|
| `TypesAreKept` | `TypeOK` | `Begun`: a delivery belongs to an event whose hooks were read |
| `PermitsAreKept` | `ConnectionsAreCapped` | itself, by counting `Posting` |
| `CountersAreRight` | `FailureCountMatchesLog` | `Counted`: it holds of a hook not yet created too |
| `StopsAreClean` | `CleanStopLosesNothing` | `Accounted`: once its emitter's drain began, an event that is not over is waited for by that drain or excused |
| `ReceiptsAreLogged` | `ReceivedIsLogged` | `Traced`: how far each delivery is and what is known of it there |

`Accounted` is what makes the last two inductive: an exit looks only at whether
every drain has ended, and the invariant carries what those drains saw.

`ApiLimitsProofs`, of sockets, under `SocketsAssumption`: `SlotsAreCounted`
(`SlotsMatchSockets`) and `PicturesAreRight` (`PictureIsTheWindow`). The
invariant is `TypeOK`, the count, and `Follows`: SEARCH kept no more than a
window, and the picture is the view. The heart is `UpdatesAddUp`, about any two
listings: applying what is new, what changed and what is above the floor and
gone, and keeping the newest, gives the second listing. It needs the least uid
of a set, which exists because finite subsets are well founded (`LeastUid`).

`SmtpDeliveryProofs`, under `DeliveryAssumption` and `RoutingAssumption`:

| theorem | property | invariant behind it |
|---|---|---|
| `SuccessIsReal` | `SuccessIsEarned` | `Backed`: what a transaction claims is backed by copies and rows that carry its message and its attempt |
| `SpamIsNotForwarded` | `SpamStaysHome`, which no run checks any more | the same |
| `NoOpenRelay` | `RelayIsEarned` | `RelayInv`: whatever a transaction may still queue, and every row of the queue, comes from an alias, from a reply token whose copy went to that very sender, or from a client that has logged in (`Sourced`, `Answers`, `LoggedIn`, `Earned`, `Lawful`) |
| `NobodyIsForgotten` | `EveryRecipientIsAccountedFor` | `DealtInv`: each recipient has been dealt with, or a hand-off that will deal with it is still among the steps (`InHand`, `Dealt`); the steps that failed for good made an error of the outcome (`NoError`) |
| `ExpansionIsRight` | `RoutingIsReachability` | `TypeInv`: a directory stays one; the rest is about operators |
| `TypesAreKept` | `TypeOK` | `TypeInv`: a plan holds only routes the hand-offs can follow (`WellRouted`), and what is still to be sent out has somebody to go to (`Elsewhere`) |

The first four need nothing of what routing finds beyond the shape of a route,
so they hold however aliases expand. `TypesAreKept` does: aliases expand to
mailboxes, remote addresses or the mark of a loop and never to the address of a
token (`ExpansionIsTyped`), so what `forward` keeps on the server, by a
directory that may have changed since, is still a mailbox. `ExpansionIsRight` is
about every directory: `expand_from` reports a loop where there is a path longer
than `MaxDepth` or one that returns, and otherwise finds exactly what paths lead
to. Its recursive function is first shown to exist (`Level`, built up from
`Deepest`), and the inductions over depth and path are done with the least
number for which the claim fails, in a set of numbers (`WFMin`), since the
library's induction rules cannot be used here.

`ApiSessionsProofs`, under `SessionsAssumption`:

| theorem | property | invariant behind it |
|---|---|---|
| `TypesAreKept` | `TypeOK` | `Shapes`: which fields of a request are set at which await |
| `EntryIsEarned` | `SignInIsEarned` | `Earned`: a live session is that of a sign-in that ended well, and what the cache holds came from a look-up that did, with its password; `Shapes` says that a request past its check holds a row that accepts its password |
| `GuessingIsCapped` | `GuessesAreCapped` | `Budgeted`: the tokens of a name and those who guessed wrong under it are together no more than the budget and what time returned to it |
| `FinishedChangesHold` | `ChangeIsComplete` | `Complete`: what a finished change ended stays ended (`SessionsEnd`), the cache holds nothing older than a flush (`CacheEnds`), and a row older than a change means that an edit overlapped it (`RowsFollow`); `PastIsPast` says that what was over when a request began is over still |

`AccountProofs`, of logins, under `ChainAssumption`:

| theorem | property | invariant behind it |
|---|---|---|
| `TypesAreKept` | `TypeOK` | `AskedOnce`: no provider is asked twice, and none still to be asked has failed |
| `WhoeverEntersIsVouchedFor` | `EntryIsVouched` | `Vouched`, of a login that is in: a provider was named and did accept at moments of the login, or the account's own hash matched |
| `TheRightPasswordIsNotWrong` | `RightIsNotCalledWrong` | `OnItsWay`: a provider that accepted all the time is still in the chain, or one that could not answer is remembered; `Watched` ties the histories to the rows and directories of this moment |

`AccountProofs`, of filters, under `FilterAssumption` and `ScoreAssumption`:

| theorem | property | invariant behind it |
|---|---|---|
| `FilterTypesAreKept` | `FiltersTypeOK` | |
| `ScriptsFollowTheTable` | `ScriptFollowsTable` | `InForce`: the property, kept while others are at work on the mailbox as long as none has a script in hand; `InHand`: what a job that nobody joined installs is what its transaction sees (`Solo`: nobody has joined it); `Written`: of other mailboxes' rows a transaction has written no more than the stamp |
| `EditsAreNotLost` | `EditsAreKept` | `Exclusive`: on SQLite one transaction writes, and on no database do two write the same row; `Meant` and `Edited`: what a request has read or written of its row is still what the table says of it; `IdsAreNew`: a rule that is to be created is not there |
| `SpamGoesToJunk` | `SpamIsFiled` | `Followed`: the verdict and the folders remembered of a message are those of the message and the script |
| `OutagesAreNotForgery` | `OutageIsNotForgery` | `Followed` |

A commit is where the two histories meet: what the transaction sees of its
mailbox becomes the table (`OwnedIsLocal`: a mailbox's rules depend on its rows
alone), and what other transactions have in hand stays right because it is of
other rows and of other mailboxes (`OthersSeeACommit`). `SpamGoesToJunk` runs
the server-wide script (`OneBlock`, `TwoCommands` unfold its folds, which are of
known length) and needs nothing of the mailbox's own, which may be any.
`OutagesAreNotForgery` compares two scores: the same listings and the same
content give the same reasons, so that what the fold over the listings computes
need not be known (`ListingsAreKept`), and each reason of authentication is
followed (`BlameIsEarned`), down to the one that a DKIM query that raised can
add. `FilterAssumption` gives rules, rows and messages their types and says that
the id of a new rule (`uuid4`) is new.

`MailboxOpsProofs`, under `MailboxAssumption`:

| theorem | property | invariant behind it |
|---|---|---|
| `TypesAreKept` | `TypeOK` | `Planned`: what a request has still to do is the end of a plan; `Numbered`: uids are given once, and no request names one not given yet |
| `NothingIsLost` | `NothingVanishes` | `Unharmed`: each message not unwanted has a copy that is `Safe`, named by no request that is about to store or expunge, and marked `\Deleted` by the owner's app if by anybody |
| `AloneSuccessIsWhole` | `SuccessIsWhole` | `OnTheirWay`: how far a request has come that nobody has crossed, at its next command (`Going`): what it named is still there and read as asked (`There`), or has arrived under new uids (`Arrived`), or its message is filed (`Filed`), and the message it answers marked (`MarkingDiffers`, `Unmarking`). A NO to MOVE puts the fall-back's plan in the place of the MOVE (`FallenBack`) |

`NothingVanishes` is not inductive: between COPY and EXPUNGE of the fall-back for
a server without MOVE the old copy is marked, and only the new one is safe from
every other request, because a new uid is named by nobody (`CopiesAreNew`).

`CommandsProofs`, of installation, under `InstallAssumption`:

| theorem | property | invariant behind it |
|---|---|---|
| `InstallTypesAreKept` | `TypeOK` | `InStep`: what a run has in hand at each stage |
| `InstallLoginsKeepWorking` | `LoginsKeepWorking` | `SecretsAgree`: secrets are never replaced once config.yaml has them; `LoginsHold`: a file that carries a secret, and the backup of one that a run has written, carries that one, so neither a write nor a rollback can part them; `Opened`: a file that is shut to Dovecot is in hand or torn |
| `InstallFailedRestores` | `FailedInstallRestores` | `Undoable`: what a file was when the run began is in its place, or in its backup if the run wrote it; `Opened` |
| `InstallCompletes` | `InstallIsComplete` | `Placed`: a file that the run has passed is as the run wants it, unless somebody edited it meanwhile; `Opened`; `Salted`: the digest in master-users when a run begins is of an earlier run, so that master-users is never taken for unchanged |

`CommandsProofs`, of backups, under `BackupAssumption`:

| theorem | property | invariant behind it |
|---|---|---|
| `BackupTypesAreKept` | `BackupTypeOK` | |
| `ArchivesAreWhole` | `ArchiveIsWhole` | `Gathering`: a table dumped with nothing committed since is the table; `FileIsKept`: what the archive's name holds was a whole dump |
| `QuietBackupsRestore` | `QuietBackupRestores` | `KeysHold`: what is committed, and what the restore's transaction sees of it, keep their keys; `FileIsKept` |
| `RestoresAreTheArchive` | `RestoreIsTheArchive` | `RestoreAtWork`: of a table that the restore has emptied nothing is left but what others have committed since |

`KeysHold` needs that nobody deletes a domain to which accounts inserted by the
restore refer: the database makes that DELETE wait for the restore's
transaction, and so does `DeleteRow`.

Only model-checked:

* the liveness properties (`EventuallySettled`, `EventuallyOver`,
  `SlotsComeBack`, `EveryLoginEnds`): liveness under fairness is out of the
  prover's reach;
* what a fold computes over an input of any length (the order in which
  `compile_script` puts the rules, the points that `score_reputation` gives, what
  a mailbox's own script does): that needs induction over data. The theorems say
  what holds whatever it is.

## 6. What the code does not keep

Some of what the repository says of itself the code does not do. Where the
statement is a formula, the module states it with the comment "The code does not
keep this", and no run lists it; adding it to the configuration named here makes
TLC print the behaviour.

| formula | configuration | what happens |
|---|---|---|
| `OutboundQueue!SendingIsHeld` | `OutboundQueue_liveness.cfg` with `MaxFaults = 1` | a sender that meets an error or dies leaves rows in `sending` for ever |
| `OutboundQueue!NeverDeliveredTwice` | `OutboundQueue_safety.cfg` with `Groups <- TwoDomains` | the second domain fails, and the first gets another copy |
| `OutboundQueue!PermanentIsHeeded` | `OutboundQueue_safety.cfg` | a 550 without a code, or of an MX host that is not the last, is retried |
| `WebhookEmitter!DeferredIsRetried` | `WebhookEmitter_events.cfg` | a deferred delivery is never tried again |
| `SmtpDelivery!NothingIsLost` | `SmtpDelivery_transaction.cfg` | a mailbox Dovecot refused is lost behind a 250 |
| `SmtpDelivery!AnythingSentMeansSuccess` | the same | copies were queued and the client is told 451 |
| `ApiSessions!OldPasswordStopsOverImap` | `ApiSessions_races.cfg`, two requests | the old password is cached again after the change has flushed it |
| `ApiSessions!MailboxGuessesAreCapped` | `ApiSessions_races.cfg` | two spellings of one mailbox's name have two budgets |
| `ProviderChain!PatientEnough` | `ProviderChain_logins.cfg` | checkpassword gives up before the second provider is asked |
| `ProviderChain!RightIsNotCalledWrong` without its exception for SMTP | the same with `"smtp"` among the doors | SMTP AUTH answers "unavailable" as it answers "wrong" |
| `MailFilters!RefusedKeepsScript` | `MailFilters_requests.cfg` | a refused edit has replaced the active script |
| `MailFilters!OutageIsNeverForgery` | the same | a DKIM query that raised ends in `dmarc=fail` |
| `DovecotInstall!LoginsAreNeverShut` | `DovecotInstall_runs.cfg` | between rename and chown, or after a kill there, Dovecot cannot open a file |
| `DovecotInstall!InstallOpensEveryFile` | the same | a later install finds the text right and leaves the file shut |
| `MailboxOps!GoneIsNotFailed` | `MailboxOps_requests.cfg` | mail was handed over and the request fails |
| `Backup!RunningBackupRestores` | `Backup_jobs.cfg` | an account is archived without its domain |

`PROJECT.json` has these and the other disagreements as findings, each with the
line of code and the line that says otherwise. A few are guards of the models
themselves: the limit of sockets per mailbox is compared before an await and
counted after it (`SlotsMatchSockets` says what remains true), the limiter of
failed attempts is asked after the attempt, priority 0 is read as 100.

## 7. What is not modelled, and why

* `Queue.release` and `KeyLimiter.forget` are called by nobody, and no code edits
  the two limits of a key. The hourly sweep of tokens and sessions does not
  change what any modelled step sees: an expired row is already dead.
* The message rate limit and the size limit of SMTP: they refuse before anything
  happens. A throttled client is `DatabaseError`'s 4xx.
* Received headers, wrapping, signing, DSN parsing: functions of a message. Their
  results (looping, what a bounce reports, the From header) are properties of
  the message in `Envelopes` or free choices. Likewise `SmtpDelivery` takes the
  verdict as given; `SpamScore` computes it.
* The webhook announcements of a delivery are `WebhookEmitter!emit`; the two
  modules share no other state, so they are not composed.
* Of sessions: keys that are not sessions, weak and too long passwords (refused
  where an equal one is), Dovecot's negative answers (they let nobody in), and
  creating an account again under its old address (a new id, so a new mailbox).
* Of mailboxes: new mail takes a uid no request has named, so deliveries are left
  out; folders are not created or renamed; listings, threads and search only
  read.
* The protocols of LDAP, OIDC, webhooks, IMAP, LMTP and DNS, the text of
  Dovecot's files, and Sieve's quoting: how each can answer is modelled, its
  bytes are not.
* Address vetting (`ssrf.py`) is a pure check of a URL; its refusal is an answer
  in `WebhookEmitter`. Mail transfer, provisioning, migrations, DNS records,
  configuration and preflight are I/O or run before the server does.
* Of the queue: recipients without an `@`. Only a reply relayed to a message that
  named no sender can be such a row; it is given up with 550 at once. Every bridge
  token has a mailbox, because `Router.route` finds no bridge without one, and
  `relay_replies` relies on it.
* The components marked `not_modelled` in `PROJECT.json`, with the reason.

## 8. Plan

Next to be modelled: `mailtransfer.py`'s import, which may be stopped and begun
again; the folder requests of `api/mailbox.py`.
