# Postra: a TLA+ verification project

Postra is a personal mail gateway: it pulls mail over POP3/IMAP into its own
store, lets people and AI agents (MCP clients) read, search and draft mail, and
sends mail over SMTP only after an explicit approval. It runs as one or more
replicas over SQLite or PostgreSQL. This directory models its core logic in
TLA+, checks the models with TLC on small instances and proves most of their
safety invariants with TLAPS for every instance.

Paths below are relative to `src/`; `app/` stands for `internal/application/`.

## 1. Inventory

| Component | State | Operations | What is hard |
|---|---|---|---|
| Send path (`app/send.go`) | `approvals`, `outbound_messages`, `drafts` | PreviewSend, RequestSendApproval, Send, deliver, applySendResult | checks and writes are separate statements; results can be lost after the server accepted |
| Drafts (`app/compose.go`, `draft_attachments.go`) | `drafts`, `draft_versions` | create, update, rewrite, attach, discard | edits race with a send of an older version |
| Retry worker (`app/scheduler.go`) | due rows of `outbound_messages` | RunRetryWorker, ProcessRetries | rows are not claimed; leadership is read once per tick |
| Leader election (`app/app.go`) | lease row in `system_settings`, `isLeader`, `leaseValidUntil` | electLeader, setLeaderState, releaseLease, TryAcquireLease | slow or failing store, lapsed lease, restart |
| Message store and ingest (`app/sync.go`, `app/delete.go`, `objectstore/local.go`) | `messages`, `sync_checkpoints`, objects on disk | runSync, ingestOne, storeMessage, LocalDelete, ServerDelete | objects live outside the transaction; two syncs and a delete interleave |
| Sync jobs and slots (`app/sync.go`, `scheduler.go`, `live_workers.go`) | `jobs`, per-process locks, slots and cancel functions | StartSync, CancelJob, heartbeat, reaper, scheduled pass | a reaped job may still run and write its row; slots are contended |
| IDLE supervisor (`app/idle.go`, `imap/client.go`) | one watch per account on the leader | reconcile, idleLoop, idleOnce, runIdleSync | lost wake-ups, loops that ended, leadership edges |
| Settings (`app/settings*.go`) | `system_settings`, what each replica runs with | save by form or patch, compare-and-swap, revoke, NOTIFY, reload | a commit whose answer is lost; checks against a snapshot |
| Secrets and keys (`secretstore/`, `crypto/envelope.go`, `cmd/postra`) | `secrets`, the stored keyring, sealed bodies and objects | put, rotate, revoke, rewrap, key rotate | a command that works on the store next to running replicas |
| Users and login (`app/auth.go`, `oidc.go`, `admin_mail_provision.go`) | `users`, `auth_sessions`, `mail_accounts` | login, setup, edit, disable, delete, reset, link, provision, purge | whole-row writes from stale reads; the last administrator |
| MCP OAuth (`app/mcp_oauth*.go`) | registered clients, sealed values held by others, provider cache | register, consent, callback, exchange, refresh, prune | repeated and crossed requests; clients deleted meanwhile |
| Gateway (`app/mcppolicy.go`, `mcpscopes.go`, both transports) | keys, switches, the policy and its cached form | authenticate, check, run, stream | a guard per tool and route; configuration changes in between |
| AI provider (`adapters/ai/`, `app/analysis.go`) | two copies of the configuration, lookups and cache of model limits, `analyses` | Generate, Embed, ModelLimits, Configure, runAnalysis | a save between check and call; shared lookups; answers that cost money |
| Semantic index (`app/semantic.go`, `vector_store.go`) | `embeddings`, `embedding_meta`, entities in Milvus, jobs of type embed | RunEmbeddingWorker, BuildEmbeddings, initVectorStore | batches fail half-way; mail is deleted meanwhile; two stores and one mark |
| Rules, triage, digest, calendar, AI retrieval, rendering, transports, metrics | single tables or none | | see `PROJECT.json`, components |

How they interact: transports call the application package; every write goes
through the store (`internal/adapters/persistence` for SQLite,
`internal/adapters/pgstore` for PostgreSQL), one transaction per call. The
background workers (retry worker, reaper, schedulers, IDLE supervisor) run on
the replica whose `IsLeader()` is true, so they depend on the election and on
nothing else for mutual exclusion. Requests run on every replica.

What makes each part correct, in one line each:

* send path: nothing leaves without an unused approval of exactly that text; a
  message is not sent twice unless a result was lost; the stored outcome is
  true; every send settles as long as mail servers answer.
* election: a leader within its validity holds the lease; a leader that cannot
  renew acts on it in bounded time; replicas converge to one leader.
* message store: every stored message has its content; each server message is
  kept; the server's copy is removed only on approval.
* jobs: no row stays open, whoever crashed; locks and slots come back.
* IDLE: mail that arrives is fetched, also without a scheduler; the leader
  watches what is in service with the settings it has.
* settings: no save revokes a secret that the stored settings refer to, no
  contradictory switches; a notified replica runs with what is stored.
* users: no session survives the reset or disabling that should end it; one
  account per person.
* OAuth: a token follows a confirmed consent of the same client; the number of
  registrations stays bounded.
* gateway: nothing happens that the scopes of the credential do not cover.
* AI provider: mail leaves only as a configuration in force allows; a prompt is
  submitted a bounded number of times; limits and cached answers are those of the own route.
* semantic index: what is marked is stored; a job reports the truth; mail that
  stays is indexed in the end.

## 2. Plan

In the order of importance to the program:

| Module | What it is |
|---|---|
| `Outbox` | the send path: drafts, approvals, requests, outbound rows, retry worker |
| `SendContract` | what the send path promises, in four variables; `Outbox` is shown to implement it |
| `OutboxProofs` | theorems about `Outbox`: who may deliver what; how deliveries end, and that they implement `SendContract` |
| `LeaderLease`, `LeaderLeaseProofs` | the election that decides whose background workers run |
| `MailStore`, `MailStoreProofs` | fetching mail, storing it, deleting it here and on the server |
| `SyncJobs` | when mail is fetched: jobs, slots, scheduler, reaper, IDLE watches |
| `Identity` | users, sessions, logins, provisioning, purge |
| `Gateway` | what a credential may do over MCP and REST |
| `AccessProofs` | theorems about `Identity` and, as the instance `G`, `Gateway` |
| `OAuthProxy`, `OAuthProxyProofs` | registered MCP clients, consent, codes and tokens, provider cache |
| `Settings`, `SettingsProofs` | saved settings on several replicas, their secrets, key rotation |
| `Provider`, `ProviderProofs` | calls to language models, their policy, limits and caches |
| `Indexing`, `IndexingProofs` | embedding of mail and the stores of its vectors |
| `MC...` | the instances TLC checks |

The modules meet in the state that each abstracts for the others: `SyncJobs`
takes from `MailStore` that a finished sync has stored what it listed and from
`LeaderLease` that one replica leads at a time and that a leader is found again;
`Outbox` takes less from the latter and lets leadership overlap.

Each `...Proofs` module extends its component and TLAPS (section 6). Left to do:
rule evaluation as an operator.

## 3. The modules and the code

### Outbox

| Variable | In the code |
|---|---|
| `draft`, `discarding` | rows of `drafts`; a DiscardDraft between its read and its write |
| `account`, `editing` | account status and From address; an UpdateAccount between its read and its write of the whole row |
| `policy` | `open`, `dlp` (the preview only warns, the delivery is refused) or `closed` (both refuse) |
| `approval` | rows of `approvals` with the payload hash |
| `req` | local variables and position of each `App.Send` call |
| `row` | `outbound_messages`, one row per request that got that far |
| `att` | the call of `deliver` in progress in a request or the worker |
| `batch`, `leading` | rows listed by ProcessRetries; `IsLeader()` per replica |
| `wire`, `accepted`, `unrecorded`, `misread`, `copies` | history: what servers accepted, results never stored |

`Send` is a sequence of steps, one per statement another actor can get between:
the idempotency lookup, reading draft and account, policy and quota, consuming
the approval, inserting the row, delivering, storing the outcome, marking the
draft, keeping a sent copy. `ProcessRetries` lists the due rows, then takes them
one at a time; it reads the stored version or falls back to the current one.
`AbortSend`, `LoseResult` and `WorkerCrash` cut these sequences at any step.

Abstractions:

* The text of a version (subject, body, recipients, attachments) is one value,
  and the hash is the payload itself: two payloads have the same hash exactly
  if they are equal.
* Time is replaced by its events: a token expires, a backoff elapses, sent
  rows leave the rate window.
* Reading a draft and reading its account are one step, because the writes
  that can fall between them commute with one of the reads.
* A store statement answers or fails; a mail server may do neither. `Client.Send`
  has a timeout for the dial only, so an exchange may hold its caller for ever.
  When `UpdateOutbound` fails after a success, the draft may still be marked as
  sent (`LoseResult`).
* `send.max_retries` is a constant, though it can be changed at run time. The
  batch limit of 50 rows is not modelled.
* The worker has no principal, so the store lets it act as the local user
  (`ActsFor`). A draft of another user is therefore not marked sent after a
  retry; nothing in the repository says that it should be, so no property does.

### SendContract

A token is issued, expires, or is used by one request, which then opens its
outcome, delivers while the outcome is open and settles it once. The refinement
mapping is in `Outbox` (`Contract == INSTANCE SendContract WITH ...`). It holds
with one worker. With two, a settled row can be delivered again
(`UncertainNeverRetried`, section 7).

### LeaderLease

| Variable | In the code |
|---|---|
| `lease` | the row in `system_settings`: owner and seconds until `expires_at` |
| `node` | per replica: the election loop's phase, `isLeader`, `leaseValidUntil`, the ticker (seconds to its next tick, and whether one waits in its channel) and the age of the store call |
| `robbed` | history: nodes whose lease `releaseLease` of another node overwrote |
| `stable` | from here on no faults, starts or stops |

Times are kept relative to now, in whole seconds, which makes the state space
finite without a bound on the run. A second passes only when no ticker or
timeout is due. A call to the store takes effect at any moment between its
start and its timeout, or never; its answer arrives or is lost. A leader whose
lease has lapsed when a renewal fails records an incident before it steps down
(`RenewFailed`, then `IncidentRecorded`); that write has no timeout, so it may
take any time while the store fails, and the node leads meanwhile. `Outbox` uses
less than this module gives: any replica may gain leadership at any time, also
while another leads, and replicas lose it at most `MaxMoves` times.

### MailStore

| Variable | In the code |
|---|---|
| `protocol` | IMAP, POP3 with UIDL, POP3 that never answers LIST (`nolist`), or POP3 without UIDL (`list`) |
| `server`, `flagged` | each message at the server; IMAP `\Deleted` flags, whoever set them |
| `foreign` | history: what another mail client flagged |
| `mail`, `cps`, `objects` | tables `messages` and `sync_checkpoints`; the object store |
| `io` | each sync, or the record of a sent message: position in runSync, ingestOne and storeMessage |
| `del`, `edit` | LocalDelete calls (of clients and of rules); batch actions between read and write |
| `approval`, `sd` | approvals of server-side deletion and the sessions that use them |
| `kept`, `keptSent`, `overlap`, `held` | history: content stored at some time; objects a purge and an ingest disputed; messages on hold |

`SyncList`, `SyncNext`, `SyncSent` and `SyncEnd` are the loop of `runSync`. The
`Ingest...` actions are the statements of `ingestOne` and `storeMessage` in
order: fetch, the three duplicate lookups, one object after the other, the
insert, the checkpoint, the rules. `DeleteCheck`, `DeleteMessage` and
`DeletePurge` are `LocalDelete`. `ServerDelete` consumes the token, verifies,
marks message by message and quits. The disjuncts of `Failure` are the error
paths. Another mail client may flag messages or take them off the server
(`OtherClientFlags`, `OtherClientTakes`); `Others` bounds which ones.

Abstractions:

* One account. Accounts meet only in shared objects, and messages of the one
  account share an attachment.
* Two syncs of one account may overlap, because the lock in `StartSync` is per
  replica.
* A client makes one call at a time. Of a message's mutable columns only the
  legal hold is kept; other batch actions and AI triage are the edit `other`,
  which writes back the hold it read.
* A failing unique index is either recognised as a duplicate (SQLite) or
  counted as failed (PostgreSQL, whose error text differs): `IngestConflict`.
* Body repair, threads and job statistics are left out.

### SyncJobs

| Variable | In the code |
|---|---|
| `mail`, `fetched` | what the server holds; what syncs have stored |
| `account` | status and connection settings (`idleSettings`) of `mail_accounts` |
| `up`, `leader` | running replicas; `IsLeader()` |
| `locks`, `slots` | `syncLocks` and `syncSlotsInUse` of each process |
| `worker` | each running `runSync` and what it has listed |
| `job`, `orphan` | rows of `jobs`: of the last sync, and one left open behind it; `fresh` says that `updated_at` is within the grace of 60 s |
| `watch` | the entry of `managed` and the place of its `idleLoop`, with the message count it last saw |

`Started` is `StartSync`; `AcquireSyncSlot`, `Enumerate`, `Progress`, `Finish`
and the ways to fail are `runSync`. `UpdateJob` writes whatever the row says by
now, so a reaped row comes back as running (`Progress`) and ends with the sync.
`RunIdleWorker` is one reconciliation. `IdleConnect`, `IdleWakes` and
`IdleTimesOut` are `idleOnce`: a session that yields to a sync which is already
running reconnects at once. Closed statuses are one value. The switch
`mail.idle_enabled` is on, and a list of accounts that cannot be read leaves
everything as it is.

### Identity

Every handler reads a row, decides, and writes the whole row in a later
statement; `op` holds the requests between their statements. `users` is the
table with its unique indexes, `sessions` and `boxes` are `auth_sessions` and
`mail_accounts`, `mail` and `objects` what a purge removes. `DeleteUserSessions`
may fail, and its callers drop the error. `late` and `unlinked` are history: they
name the known holes, so that the properties can say that there are no others. One issuer is configured. Session expiry removes
a session as a logout does.

### Gateway

`AllEntries` are all MCP tools with their aliases and all REST routes. Each has
the guard that stands in front of it and the operation behind it, and the
effects of an operation are listed apart from the scopes that guards ask for.
A request goes through `Authenticate`, the check of its transport, and `Run`;
role, key, switches and policy may change between the steps (`clean` says that
they did not). `stream` is an event stream, which authenticates again every
five seconds.

### OAuthProxy

The proxy stores registrations only. Consent, login state, code and refresh
token are sealed values that others hold: they cannot be changed or made by
others, and they can come back twice. `proc` holds the requests that are being
handled, including those that load or wait for the metadata of the provider
(`cache`). Redirect addresses, PKCE and signatures are equalities of values.

### Settings

`writer` is a save with its form, its snapshot and its new secrets; `pending` is
a COMMIT whose client has gone and which the database may still do. `listener`
is the callback of LISTEN between its read and its effect. `secret` keeps the
state of a row and the key that wraps it, `body` the key of bodies and objects,
`ring` the stored keyring, `cli` the command `postra key rotate`. Three switches
and one secret stand for the settings; `proxy` requires `oauth`, as
`validateMCPOAuthSettings` demands. A save keeps the reference it found, removes
it, draws a new secret, or names any reference that somebody may know by then,
as forms and task routes can: nothing checks that it is live. `astray` is history:
references so named when they were revoked, or looked up and about to be. A new
secret gets a reference that was never drawn before (a random id in the code), so
there are as many new secrets as `Refs` has members. A reload that cannot read
the settings consumes its notification and changes nothing (`ReloadUnread`); the
replica counts as one that missed it. Left out: revocation on request
(`App.RevokeSecret` from a client), and two `postra key rotate` at once, which
nothing in `cmd/postra/main.go` prevents.

### Provider

`app` and `live` are the two copies of the AI configuration, `App.Cfg.AI` and
the adapter's; `applying` holds a save and a reload between their steps. A
call (`req`) passes through `Start` (policy and masking in the application),
`FindCachedAnalysis`, `Snapshot`, `CheckRoute`, `DiscoverModelLimits` and its
shared lookup (`pending`, `limits`), `Budget`, `Post` and what comes back.
Network errors, timeouts and unusable answers are `Lose`, a 5xx other than 504
is `ServerUnavailable`, which alone leads to the default route, and a 400 or 422
is `Reject`, which may post once more. `sent` counts what was submitted for one
call and where it failed. Rows of `analyses` hold the model and not the endpoint,
as in the code, so the answer of a fallback endpoint under the same model name
counts as routed. A prompt is its estimated size, an
endpoint is outside or not (addresses that change while a call runs are left
out), and one user asks. An embedding takes the same path without a window of
its own; `inspect` is the administrator's look at the limits.

### Indexing

`row` is the table that says which mail is indexed (`embeddings` in SQLite,
`embedding_meta` in PostgreSQL) with the store that made the entry, `milvus` the
collection. The worker and the job (`ix`) share `embedMessagesBatch`: `ReadTexts`,
`Embed`, and then `SaveRow` message by message, or `InsertEntities` followed by
`MarkEntities` in one transaction. The store is looked up when the save begins,
so a later change of `provider` does not stop it. There is at most one job, next
to any number of ticks. A user has one account, and the limit of 200 messages
per job is not reached. The code drops three errors, and `ReadTexts` lets each
happen: a message that cannot be read is passed over and counts as embedded
(`app/semantic.go:128`, `skipped`); a body that cannot be read leaves the subject,
or a message marked as empty if it has none (`:131`, `cut`); a mark that fails is
not noticed (`:144`). `JobTruth` leaves out the first two. Mail without text is
marked by the database store only, because Milvus takes no entity without a
vector, so under Milvus it is listed again on every tick.

## 4. The runs

| Run | Instance | States | Question |
|---|---|---|---|
| `outbox_race` | 1 draft of a user other than the local one, 2 versions, 2 tokens, 2 requests, 1 worker, 2 attempts, 1 fault | 1.61 M | Is authority used once, does every attempt have its row to itself, is the contract implemented? |
| `outbox_faults` | 1 request, 3 attempts, 2 faults, 1 change of account or policy, 1 loss of leadership, servers that may fall silent | 0.31 M | Are duplicates explained and outcomes true, and does every send settle? |
| `leader_lease` | 2 replicas, lease 7 s, tick 4 s, timeout 2 s | 0.28 M | Does a lease back every leader, does a lapsed one act on it in time, do replicas converge? |
| `mail_race` | 1 inbox message, 2 syncs, 1 sent message sharing an attachment, 1 client, rules | 2.07 M | Do messages keep their objects? |
| `mail_fetch` | 2 inbox messages, the newer one oversize, 2 Sent copies with one Message-ID, 1 approval, limit 1 per sync, another client at the newer message, 2 faults, all four protocols | 0.26 M | Is only kept mail passed over, only approved or foreign mail deleted, the POP3 report true, and everything fetched? |
| `sync_jobs` | 2 replicas, a watched account, another one that competes for the only slot, 2 messages, 1 change, 1 fault | 0.03 M | Is new mail fetched, does every job end, does the leader watch what it should? |
| `identity_race` | 3 users, 2 people with one user name, 2 requests at a time, 3 in all, 3 initial databases | 0.22 M | Do sessions end when they should, and has each person one account? |
| `gateway_all` | every tool, alias and route, all kinds of credential, 3 policies, 1 change in the middle | 0.51 M | Does any credential exceed its scopes, does a stream end? |
| `oauth_proxy` | 3 client ids, limit 1, 2 requests at a time, 2 flows, 2 issuers, 1 event | 0.74 M | Do tokens follow consent, do registrations stay bounded, does the cache serve? |
| `settings_replicas` | 2 replicas, 3 secrets, 2 changes, 1 fault, 1 key rotation | 3.65 M | Are references live, switches consistent, replicas up to date, secrets readable after a rotation? |
| `provider_calls` | 2 calls of any kind, 2 configurations, cache of one entry, 1 save here or elsewhere or rotation of the key | 1.02 M | Does mail stay inside, is a prompt submitted as often as it may be, are limits and answers those of the own route, does nobody wait in vain? |
| `index_batches` | 3 messages of 2 users, one without text, one without subject, one too long for the model, batches of 1, 1 worker, 1 job, 1 deletion or change of store, 1 fault | 0.46 M | Is what is marked stored, does a job tell the truth, does the index catch up? |

Why the bounds are enough. The races are between pairs: two requests for one
key, token or row, two syncs inserting one content, a purge and a put, a worker
and an edit, two replicas that save. Three attempts are needed to see a retry
that is neither the first nor the last. Two faults let a failure hit the
recovery from an earlier failure. With a limit of one message per sync, the
messages in front of another are the ones that can starve it. For leadership,
two replicas show every pair of lease holder and challenger; a third would only
challenge too. The intervals of `leader_lease` keep the order of the code's 15, 8
and 5 s with a lease shorter than two ticks, as there; `LeaseInv` was also
checked with 15/8/5 (4.17 M states) and with a lease of four ticks (12/3/2). In
`index_batches` one message fills a batch, so one that is never marked holds up
the rest; other instances were checked as well, without one that is too long:
three messages of one user with two in a batch of the job, where rows are
written half-way (1.79 M), and two users (0.91 M). In `sync_jobs` one change (an arrival, a deletion with or without
an arrival, a saved account, a sync on request) meets one fault while the
scheduler and the watch go on for ever, so a change that is lost stays lost.

Deadlock is checked for `LeaderLease`, which never stops. Everywhere else
tokens, versions, requests and faults run out, and a program with nothing to do
waits.

Symmetry is used in `outbox_race` (requests, tokens), `mail_race` (syncs),
`identity_race`, `oauth_proxy` and `provider_calls` (requests) and `settings_replicas` (replicas),
which check no liveness property.

### Properties

* `AuthorityInv`: see section 6. `ApprovedVersion`: what a server accepted is
  the version its token approved, unless the worker fell back.
* `ExclusiveAttempt`: no two attempts are on one row while one worker runs.
* `NoUnexplainedDuplicate`: a message is accepted again only after an attempt
  whose result was never stored.
* `OutcomeTruthful`: `sent` was accepted; `failed` was not, unless a result was
  lost or the final reply was damaged; a kept copy was really sent.
* `ImplementsContract`: `SendContract`, and with it that a settled outcome is
  final.
* `EverySendSettles`: every row settles, unless its result was lost while it was
  `queued`, which no worker looks at, or a mail server falls silent for ever: then
  the request it holds, or the worker and every retry behind it, waits too.
* `LeaseBacksLeader`, `Converges`: section 1. `StepsDownInTime`: `MaxLate` = Tick +
  Timeout - 1 seconds after its lease expired (12 s with the code's intervals) a
  leader has stepped down or is waiting for the store to take the incident. A
  renewal may start in the last second of the lease and fail, and the next tick
  asks the store once more.
* `CheckpointedWasKept`: mail a sync passes over was stored at some time.
* `ObjectsBackMail`: a message's objects are on disk, except the ones in
  `overlap`. `DeletePurge` removes objects after its transaction, and an ingest
  may have put the same object meanwhile. That hole is real and listed as a
  hazard; the property says that it is the only one.
* `DeletesApproved`, `Pop3ReportTrue`: what Postra removes from the server was
  approved and seen, or flagged by another client (`foreign`; EXPUNGE takes that
  too, section 7); what a POP3 session reports as deleted is gone.
* `EverythingFetched`: limit, oversize mail and faults starve nothing, where a
  sync can reach the oldest message (`ReachesOldest`). Without UIDL the limit is
  spent on the newest messages in every sync. On a server that never answers LIST
  every oversize message is fetched again in every sync and counts
  (`app/sync.go:331`, `:579`), so as many of them as the limit allows starve all
  older mail. Both are left out of the property.

* `MailFetched`: a message that stays on the server of a watched account in
  service is fetched, though a wake-up can meet a sync that has already listed
  the mailbox, and a count can hide an arrival behind a deletion. What saves it
  is that `Idle` returns without error after 28 silent minutes and `idleOnce`
  takes that for activity; the mutant that only idles again loses mail.
* `JobsEnd`: rows left by crashes, by lost writes and by reaped workers that
  write again all end. `WatchFollows`: the leader comes to hold a live watch
  with the current settings for each account in service, others let go.
* `SessionsFollowPassword`: a session that a reset should have ended is gone or
  about to be deleted, except for logins that had passed their check before, and
  when the statement that deletes sessions failed, of which nobody is told
  (`late`).
* `OneAccountPerPerson`: whatever first logins, links and provisioning overlap,
  the sessions of one person are all in one account, active or not, unless the
  link was released or lost to a row written back stale (`unlinked`).
* `EffectsGranted`, `StreamStops`: section 1.
* `TokensFollowConsent`: whatever is repeated or crossed, a token goes to the
  client that began the flow and for the page that was confirmed.
  `RegistrationsBounded`: requests that counted together all insert, so the limit
  can be exceeded, by fewer than there are requests at once. `CacheServes`: nobody gets the provider of
  another issuer or waits for a load that is over.
* `SecretsLive`: no stored reference to a revoked secret, except after a COMMIT
  that the database did when its client had tidied up (`late`), or for a reference
  that a save named by hand as it was revoked or about to be (`astray`, section 7).
  `StoredConsistent`: two saves, each checked against its snapshot, do not make a
  contradiction. `RuntimeFollows`: when announcements are over, a replica that
  missed none and read the settings for each runs with what is stored. `RotationKeepsSecrets`: after `postra key
  rotate` a new process opens everything, also what replicas wrote under the old
  key meanwhile, unless the command was cut off (`torn`, section 7).
* `StaysInside`: whatever is saved between the application's check and the call,
  and whichever route the call falls back to, text goes outside only under a
  configuration in force that allows it, and masked if that one says so.
  `GeneratesOnce`: nothing is posted again after an answer or its loss; a route
  that answered with a 5xx is left for the default and not asked again; over
  adjustments and fallback there are four posts at most.
  `CacheIsRouted`: the answer of a fallback is not served for the routed model.
* `OwnLimits`, `NobodyStranded`: callers that join a lookup get the limits of
  their own endpoint, model and key, and are woken by its end, also if the caller
  who started it went away.
* `MarkedIsStored`: a mark for Milvus is made only when the insert is known to
  have happened.
  `JobTruth`: a job that succeeded has embedded what it listed, whoever else
  wrote or deleted meanwhile. `IndexCatchesUp`: mail that stays is indexed,
  through failed batches, crashes and changes of the store, unless something
  holds it up (`HeldUp`: a message of the same user that is too long for the model,
  or, under Milvus, a batch of newer ones without text) or its body was once
  unreadable (`cut`).

## 5. Fairness

* `Outbox`: the program's own steps of a delivery are taken (`LocalSteps`); store
  statements answer or fail. Nothing is assumed of the mail server, because the
  SMTP client sets no deadline after the dial. A backoff elapses, a worker that
  leads works through its tick, and a leader is elected when there is none
  (`LeaderLease`, `Converges`). Users, administrators and faults are never
  obliged to act.
* `LeaderLease`: time passes, and the loop takes its next step. The record of an
  incident ends some time, without a limit. `Converges` speaks of what follows
  once nothing fails any more (`stable`), where that holds of any store call.
* `MailStore`: the scheduler starts syncs again and again, and a running sync
  goes on. Strong fairness on `SyncSent` stands for the scheduled syncs, which
  always read the Sent folder, among syncs that IDLE woke, which do not.
* `SyncJobs`: running syncs and watches go on (their calls have timeouts), the
  supervisor, the reaper and the grace period have timers, a crashed replica is
  restarted and a leader found. Nothing is assumed of the scheduler, which may
  be off. An account without a schedule gets a slot that is free again and again
  (strong fairness): a waiting sync is woken by every release and polls every
  five seconds, while scheduled syncs come minutes apart.
* `Gateway`: the ticker of an open stream fires.
* `Indexing`: the worker has a timer and its calls have timeouts. Nobody has to
  start a job.

## 6. What is proved

Every theorem holds for all values of the constants that satisfy the named
`ASSUME` of the module: any number of replicas, requests, messages, syncs,
tokens, keys, and any bound on faults and changes. These assumptions say what
kind of thing each constant is. Those that say more:

* `LeaseAssumption`: Timeout < Tick and Tick + Timeout < Lease, which the code's
  5, 8 and 15 s satisfy. Without the second a leader that renews as often as it
  may would lose its lease.
* `MailAssumption`: a listing that is not empty has a newest message (it is
  finite in the code), and contents, messages and files are different things.
* `OneWorker`, a hypothesis of the theorems about deliveries only: with two
  workers the properties are false (`UncertainNeverRetried`, section 7).
* `IdentityAssumption`: in the databases a behaviour starts from, no two rows hold
  one identity, as the unique index of the table ensures.
* `~Retire`, a hypothesis of `RotationSafety` only: `--retire-old` throws away
  the keys under which running replicas still write.

In each module one conjunction is shown to be inductive, and the properties
follow from it. TLC checked each conjunction on the instances of section 4
before it was proved. The properties alone are not inductive; the other
conjuncts say what holds in the middle of an operation.

| Theorem | States | Why it is inductive only together |
|---|---|---|
| `TypeCorrect` | `TypeOK` of `Outbox` | with `RetryBudget`: the next attempt number is in range because a row that waits has attempts left |
| `Authority`, `ApprovedOnce` | `AuthorityInv`; its parts `OneShotToken`, `ApprovedVersion` | a chain from a message over attempt (`AttemptOK`), row (`RowOK`, `ListedOK`) and request (`GrantOK`) back to a used token; each link preserves the next |
| `Deliveries`, `RowsNotShared`, `DuplicatesExplained`, `OutcomesTrue` | `DeliveryInv`; `ExclusiveAttempt`, `NoUnexplainedDuplicate`, `OutcomeTruthful` | a result that waits to be stored says what the server did (`ResultTrue`), and while a row is open every acceptance is one whose result was lost (`AttemptsExplained`); both need that the attempt has the row to itself |
| `Refinement` | `ImplementsContract` | initial states map to initial states and each action to a step of `SendContract` or none, given `AuthorityInv` and `DeliveryInv` |
| `LeaseInvariant`, `LeaseSafety`, `StepDown`, `OneValidLeader` | `LeaseInv`; `LeaseBacksLeader`, `StepsDownInTime`; no two leaders are valid at once unless a late release robbed one | an answer under way stands for a row that lives at least as long (`WonHoldsRow`), and a leader that is not stuck in an incident has its next call within a tick and a timeout (`AtNextCall`, `RenewsInTime`) |
| `MailInvariant`, `ObjectsSafety`, `CheckpointSafety`, `ApprovalSafety`, `Pop3Safety` | `MailInv`; `ObjectsBackMail`, `CheckpointedWasKept`, `DeletesApproved`, `Pop3ReportTrue` | what an ingest has put, or is about to mark as seen, is backed or kept (`ObjectInv`, `KeptInv`); what a delete is about to remove is of no use to any message or ingest, or in `overlap`; marked and flagged mail is on a used list or flagged by another client (`SessionInv`) |
| `OAuthInvariant`, `ConsentSafety`, `RegistrationSafety`, `CacheSafety` | `OAuthInv`; `TokensFollowConsent`, `RegistrationsBounded`, `CacheServes` | the registrations and the requests that counted and have not yet inserted are together below the limit plus the requests (`RegisterInv`); sealed values that others hold go back to a consent (`SealedInv`), and so does a request that has shown one (`RequestInv`); somebody loads exactly while the flag is set (`CacheInv`) |
| `SettingsInvariant`, `SecretsSafety`, `RuntimeSafety`, `ConsistentSafety` | `SettingsInv`; `SecretsLive`, `RuntimeFollows`, `StoredConsistent` | a secret of a save that has yet to commit is known to nobody else, and one about to be revoked is not stored, or `astray` (`SecretInv`); pending commits are consistent too (`ConsistentInv`) |
| `RotationSafety` | `RotationKeepsSecrets` | with `RingInv`: what is wrapped opens with the stored keyring or with the one a rotation is about to store |
| `ProviderInvariant`, `InsideSafety`, `OnceSafety`, `CachedSafety`, `LimitsSafety`, `WaitersSafety` | `ProviderInv`; `StaysInside`, `GeneratesOnce`, `CacheIsRouted`, `OwnLimits`, `NobodyStranded` | a call works on a configuration it has seen in force (`SeenInv`), whose check it passed before it sends (`RouteInv`); what it has submitted so far fits the route it is on (`SentInv`); lookups carry the identity of their key (`LimitsInv`) |
| `IdentityInvariant`, `PasswordSafety`, `AccountSafety` | `IdentityInv`; `SessionsFollowPassword`, `OneAccountPerPerson` | no two rows hold one identity (`UniqueIdentity`); a request that has resolved its account and not yet opened its session is in the account that holds its identity, and a password it has checked is still the stored one or it is `late` (`RequestInv`); sessions stay with their identity (`SessionInv`) |
| `GateInvariant`, `GrantSafety` | `GateInv`; `EffectsGranted` | a request that no change has overtaken carries the role and the scopes of now (`PrincipalCurrent`) and would pass the gateway again (`StillAllowed`) |
| `IndexInvariant`, `MarkSafety`, `JobSafety` | `IndexInv`; `MarkedIsStored`, `JobTruth` | what is about to be marked is stored (`MarkInv`), and a job without failures has every message it owes an answer for indexed or in hand (`JobInv`) |

The proofs have one lemma per action, or per group of actions that touch the same
variables, and one step per conjunct the action can disturb. Lemmas at the start
of a module say what a step that changes one record leaves alone (`StorerOnly`,
`SessionStep`, `ServerOnly` in `MailStoreProofs`). There the invariant is first
regrouped by what it is about, an ingest, a message, a purge, a session
(`MailParts`), and shown to be the same (`Parts`).

`EffectsGranted` rests on lemmas about the tables: the scopes a tool asks for, or
the guard of a route, cover each effect of the operation behind it (`ToolTable`,
`RouteTable`, and `BorrowedTable` for routes that stand behind the guard of
another tool). They are proved entry by entry, for any scopes of key and token,
any switches and any policy.

The attempts corrected the models in two places. In
`Settings` a save that found no unused reference for its secret drew an undefined
one; now it waits, which bounds the number of new secrets and nothing else. In
`Gateway` two arms of `MCPToolScopes` overlapped, where the switch in the code
takes the first; TLC does too, a prover may not. The proof of
`OneAccountPerPerson` never used that the accounts are active, so the property no
longer asks for it.

Every invariant and every action property of the runs is stated by a theorem.
Only model-checked is liveness: `EverySendSettles`, `Converges`,
`EverythingFetched`, `MailFetched`, `JobsEnd`, `WatchFollows`, `StreamStops` and
`IndexCatchesUp`. They hold under fairness, which is out of this prover's reach.
`SyncJobs` promises nothing else, so it has no theorems.

## 7. Where code and documentation disagree

Statements of the repository's comments, tests and documents that the models
contradict. The modules state each as a definition, and naming it in the
configuration of its module, with the change given here, makes TLC print the
behaviour:

* `Identity.PurgeSparesOthers`: the purge of a deleted user's mail removes every
  object its rows name, also those that messages of other users share
  (`app/auth.go:398`, against `persistence/store.go:1181`). It takes five requests,
  one at a time: `Procs = {p}`, `MaxRequests = 5`, no edits and no new users.
* `Settings.CutRotationKeepsSecrets`: `postra key rotate` rewraps everything
  before it stores the new key; an error or crash in between leaves envelopes
  that no stored key opens (`cmd/postra/main.go:776`, against
  `app/app_test.go:1131`).
* `Indexing.SwapKeepsSearch`: after a change to Milvus, mail indexed in the
  database counts as indexed and is never inserted into the collection
  (`app/app.go:458`, against `app/vector_store.go:20`, "supports swapping
  implementations at runtime").
* `Indexing.SelfHeals`: a body that cannot be read once leaves mail without a
  subject marked as empty for ever; under Milvus 32 messages without text fill
  every batch of their owner and older mail waits for ever; so it does behind a
  message that exceeds the window of the embedding model (`app/semantic.go:131`,
  `:142`, `:505`, against line 472, "the index self-heals on the next tick after
  any failure").
* `Provider.NoServerErrorRetry`: a request that a route answered with a 500 or 502,
  which it may have accepted, is posted again on the default route
  (`ai/openai.go:137`, against `ai/request_budget.go:43`, "No transport/5xx or
  partial-stream retries").
* `Settings.ActiveKeysLive`: a save that names a reference while another has looked
  it up and is about to revoke it, or that names one already revoked, stores a
  dead key (`app/settings_cas.go:79`, against line 41, "Do not revoke a now-active
  key").
* `LeaderLease.AlwaysStepsDown`: the incident is recorded before the step down and
  without a timeout, by the store that has just failed; a leader whose lease lapsed
  goes on for as long as that takes (`app/app.go:637`, `app/incidents.go:42`, against
  the comment at `app/app.go:611` on renewals that used to block the loop).
* `MailStore.ExactlyApproved`: EXPUNGE removes all mail that carries `\Deleted`, also
  what another client flagged and nobody approved (`imap/client.go:636`, against
  `app/delete.go:134`, "deletes the approved UIDLs").
* `Outbox.ApprovedPayload`: a retry uses the account's current From address and
  compares no hash (`app/scheduler.go:110`, against `app/send.go:30`).
* `Outbox.UncertainNeverRetried`, with two workers: while leadership moves, a
  row that one worker settled as uncertain is delivered again by another that
  had listed it (`app/scheduler.go:99`, against `app/send.go:491`).
* `LeaderLease.AtMostOneLeader`: two replicas lead at once while the first has
  not noticed that its lease expired (`app/app.go:636`, against
  `docs/LIVE_WORKERS.md:20`).
* `MailStore.VerifiedIsStored`: "stored locally" is read from checkpoints, which
  survive a local deletion (`app/delete.go:150`, against line 149).
* `MailStore.HeldIsKept`, with two clients: the legal hold is checked before the
  delete transaction, and other edits write back the hold they read
  (`app/delete.go:22`, against line 21).
* `MailStore.DeletedIsGone`: the IMAP client drops the error of EXPUNGE, so a
  refused deletion is reported as done (`imap/client.go:636`, against
  `app/delete.go:136`).
* `Gateway.TransportsAgree`: some REST routes stand behind the guard of another
  tool: the draft list behind `mail_draft_get`, every analysis behind
  `mail_summarize`, sent mail behind `mail_search`
  (`httpapi/configuration_routes.go:158`).
* `Identity.AnAdminRemains`: the administrators are counted before the update
  (`app/auth.go:312`).

## 8. Not modelled

Byte-level work without state (MIME parsing, rendering, cryptography), the
dialogue with mail, identity and model servers apart from its outcomes, decoding
and presentation, metrics. Of the settings, personal preferences are left out:
they are saved without a compare-and-swap, one row per user. Rules, triage,
digest, calendar and collaboration read and write single tables; rule
evaluation is left to do. Semantic search and question answering only read. The worker that loses leadership without noticing is
in `Outbox` and `LeaderLease`, not in `SyncJobs`, where an overlap would only
add syncs of the kind that requests start. `PROJECT.json` lists every component
with its status.
