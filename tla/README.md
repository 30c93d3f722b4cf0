# Zed Downloader: specification, model checking and proofs

TLA+ modules for the parts of Zed Downloader that are hard to test: the download
queue with its crashes and redeliveries, the chain of download providers, the money
core, the admission and accounting of quotas, the rate limiter, the administrator's
session, the bot's language cache, and the seed against the panel's edits. TLC checks
each on small instances; TLAPS proves what matters most for all values of the
constants. Paths are relative to the repository; `api/` stands for `apps/api/app/`.

## 1. The system

A Telegram bot and a public callback page talk to an API; the API keeps its state
in PostgreSQL, puts download jobs on a Redis stream and throttles with Redis
counters; a worker takes jobs from the stream, downloads, uploads to Telegram and
does housekeeping; a React panel administers it all.

| Component | State | Operations | Talks to |
|---|---|---|---|
| Job queue, `api/workers/queue.py` | stream, consumer group (last delivered id, pending list with delivery counts), dead-letter stream | enqueue, read_new, reclaim_stale, ack_and_remove, dead_letter, queue_length | Redis; called by API and worker |
| Download worker, `api/workers/runner.py` | the job at hand, the reclaimed batch | main loop, process_job, sweep_stale_requests, reconcile_pending_payments, purge, refresh | queue, database, providers, Telegram, gateway |
| Intake, `api/routes/internal.py` | rows of `download_requests`, `users`, `groups` | download_request, upserts, lists | bot calls it; rate limiter, access control, queue |
| Access control and accounting, `api/services/subscription_service.py` | `subscriptions.downloads_used`, `groups.downloads_today/quota_date`, in-flight rows | check_access, consume_download | intake admits, worker debits |
| Money core, `api/services/payment_service.py`, `api/routes/payments.py`, `api/payments/zarinpal.py` | `payments`, `subscriptions` | create, callback, verify_and_activate, activate_subscription, reconciliation | gateway, worker |
| Rate limiter, `api/services/ratelimit.py` | one Redis counter per identity | check_and_increment, is_rate_limited | intake |
| Providers, `api/providers/`, `api/routes/admin_catalog.py` | the providers table; threads, temporary directories, tasks that were given up | download with fallback; create, patch, delete a row | worker, panel |
| Admin auth, `api/services/auth_service.py`, `api/routes/auth.py`, `apps/admin/src/services/` | the blacklist; tokens in localStorage, one refresh promise per tab | login, refresh, logout, purge | panel, API, worker |
| Texts, `api/services/texts_service.py`, and the seed, `api/seed.py` | `bot_texts`, `plans`; the worker's cache | edits, seed at every API start, refresh | API, worker, bot |
| Bot, `apps/bot/` | language cache, calls to the API | middleware, /lang, links | API |
| Panel's pages, rest of the admin API, scripts, migrations, deployment | | forms, CRUD, update/backup/restore | |

What is hard here, and what makes each component correct:

* **Queue and worker.** At-least-once delivery: a job may be delivered again after a
  crash, a lost reply or a failed command, and a reclaim takes a whole batch. A job
  must not be lost, not be tried for ever, and a delivered file must be debited
  once. Row and stream are in two stores with no common transaction.
* **Intake.** Row first, XADD second; each can fail, or succeed with its answer lost.
* **Accounting.** Counters are read, incremented in memory and written back as
  values; capacity is the sum of a counter and a count of rows, read by two queries.
  Overruns and lost debits are what can go wrong.
* **Money.** Callbacks, repeated by the browser, and the reconciler verify the same
  payment while they wait for the gateway. Credit exactly once, never fail a paid
  payment, never forget one; the callback is a public GET that says what its client likes.
* **Rate limiter.** Two Redis commands per check, with a key that may expire between.
* **Providers.** A download that is given up cannot be stopped: it goes on through its
  chain, in a thread of a small pool, and writes to a directory that must outlive it.
  Verdicts must be those of the chain, and what is refused must never be sent.
* **Sessions.** Tokens are not stored on the server, so only the blacklist can end them;
  tabs share tokens but not the refresh that is under way.
* **Bot.** Updates of one user are handled concurrently, each with calls that may be
  lost, late or doubled; the cache is written after the await.
* **Seed.** It runs at every start against whatever the operator has made of the tables.

`PROJECT.json` lists every component, the hazards at their lines, and which code
lines each definition stands for.

## 2. Modules

| Module | Models | Used by |
|---|---|---|
| `JobStream` | the Redis stream and consumer group, one operator per command of `queue.py` | `DownloadPipeline` |
| `DownloadPipeline` | intake after admission, the worker's main loop and `process_job`, `_handle`, the sweep, crashes, restarts | `MCDownloadPipeline` |
| `PaymentLedger` | the abstract promise: opened once, settled once, credited once and only if paid | refined by `Payments` |
| `Payments` | creation, the payer, callbacks, `verify_and_activate`, the reconciler | `MCPayments` |
| `Quota` | `check_access` and `consume_download`, query by query | `MCQuota` |
| `RateLimit` | `check_and_increment`, `is_rate_limited` | `MCRateLimit` |
| `ProviderChain` | `ProviderManager.download`, both providers, `process_job` around them, the providers page | `MCProviderChain` |
| `AdminSessions` | `auth.py`, `deps.get_current_admin`, `auth_service.py`; `api.js`, `auth.js` in several tabs | `MCAdminSessions` |
| `BotUsers` | `UserMiddleware`, the /lang and link handlers, the HTTP client; `users/upsert`, `language`, `download-requests`, the panel's user form | `MCBotUsers` |
| `PanelContent` | the entrypoint and `seed.py`, the texts and plans pages, `texts_service.py` | `MCPanelContent` |
| `DownloadPipelineProofs`, `PaymentsProofs`, `QuotaProofs`, `RateLimitProofs`, `ProviderChainProofs`, `AdminSessionsProofs`, `BotUsersProofs`, `PanelContentProofs` | theorems | |

The `MC*` modules add symmetry sets, `MCQuota` the small tables of subscriptions,
`MCProviderChain` those of providers and of the media behind the URLs. Operators named "Mutant of ..." are deliberately wrong variants of
the definition below them: replacing the definition by one must break a property,
which shows that the property depends on that line of code.

### Pipeline

`status[r]` is the column of `download_requests`; `api[r]` is where the handler of
the request is; `worker[w]` holds a program counter and the locals of `main` and
`process_job` (entry at hand, where it came from, the status it read, the claimed
and the ready part of a batch); `sweeping[w]` the rows the housekeeping has read and
not yet saved; `lastId`, `log`, `stream`, `pel`, `lastDelivered` are Redis. Each
Redis command and each database transaction is one step.

* Intake: `Admit` (insert and commit), `EnqueueOk`, `EnqueueRaises` (the XADD executed
  or not), `EnqueueRepeats` (redis-py repeats a command whose reply was lost, by
  default), `MarkEnqueueFailed`, `ApiCrash`.
* Loop: `Reclaim` (XAUTOCLAIM), `Check` (delivery count of each claimed entry),
  `Bury`, `HandleNext`, `ReadNew`, `ReadReplyLost`, `QueueError` (an exception of a
  queue call within the loop's `try`: the rest of the batch is dropped).
* Job: `Load`, `Start`, `Download`, `Upload`, `Book`, `Fail`, with `JobRaises`,
  `UploadRaises`, `AttemptRaises`, `Recover`, `RecoverRaises` for each way to fail;
  then `Ack`, `Del`. `JobRaises` is what escapes `process_job`: a failure before its
  `try`, of the rollback in its `except` (`runner.py:235`), or of the end of its session;
  `_handle` then leaves the entry pending.
* `Crash`, `Restart`, and the sweep: `SweepSelect`, `SweepSave`, `SweepRaises`.

Modelling decisions. *Time is abstract*: an entry can be claimed as soon as its holder
could have been idle for `QUEUE_RECLAIM_IDLE_MS` (10 minutes, as long as the download
timeout), that is, unless it has just been delivered (`JustDelivered`); a row is
stale only when nobody is at it, since an attempt is over within twice
`DOWNLOAD_TIMEOUT_SECONDS`. *The ORM writes columns that changed*: `MarkStarted`
writes the status only if it was read as queued, `MarkEnqueueFailed` and the sweep
write without looking. *The debit is abstracted* to a history counter `booked`;
`Quota` has the accounting itself. The order in which a batch is worked off is left
open. Ads, messages, temporary files and the text cache change no modelled state.

### Payments

`status`, `subs`, `lock` are the payment row, its subscriptions and its row lock;
`gateway` the payer's side of the session; `age` the position in the reconciliation
window; `call[c]` the verification each handler, and the reconciler, is in.
`RequestSession`, `Create` and `CreateFails` are `payments_create`: the row exists for
others only when the gateway has answered, and the plan's scope, looked at before, may have
changed by then (`EditPlan`). `LockRow`
is the SELECT FOR UPDATE and the branch on the status, `Verify` and `Refuse` the
gateway's answer, `Rollback` a `PaymentGatewayError` or the end of the process,
`Credit`/`CreditBlocked`/`Reject` the commit. The plan is loaded together with the row
that is locked, and its scope as of then (`fits`) decides on the credit. `Callback` takes
a Status from whoever calls, at any time: `misled` notes the payments of which a callback
came before the payer was done, or said something else than the gateway (`Truth`);
`LockRaises` is the statement failing outside every `try`, which ends a round of the
reconciler.

`RowLock` says what the database makes of the SELECT ... FOR UPDATE: "taken", a row lock;
"ignored", as SQLite does; "refused". The last is PostgreSQL with the statement that the
ORM emits: the plan is joined in by an outer join (`billing.py:69`), `with_for_update()` names
no table, and PostgreSQL does not lock the nullable side of an outer join. This is a
reading of the code against PostgreSQL's rules, not an observation. So there is a run for
each of two databases: what the code does on PostgreSQL (`payments_postgres`), and what the
verification is worth once the lock is for the payment alone (`payments`). Where the
statement is refused no verification gets past it, so the safety properties hold there as
well, and are worth nothing. Assumed of the gateway: it takes no money after its payment
window, which is shorter than `RECONCILE_MIN_AGE`; a verification asked for twice answers
success twice (codes 100 and 101).

### Quota

READ COMMITTED: each query of `check_access` and `consume_download` is a step; the
copies a transaction works on (`grp`, `used`, `reset`) are explicit; updates write
what changed and lock the row to the commit. This relies on SQLAlchemy's autoflush
before queries, its writing only net changes, and its flushing in the order of mapper
names (the group before the user). The queries that look for an entitlement are
one step. `total_downloads` counters and settings are left out, except for the row
lock that writing them takes. One group chat, with its subscriptions and daily quota,
which may have a used counter of an earlier day (`Earlier`). An admission or a booking may
end at any step, by a refusal before the quota, an error, a deadlock that is resolved
against it, or the end of the process (`Leave`, `JobFails`, `JobStops`); deadlocks need no
action of their own.

The status of a row is written blindly, as in the code: by the handler whose XADD seems to
have failed, by the sweep (`FailJob`), and by the worker, whose booking debits and
completes the request whatever has become of its row (`LoadLedger`, `SaveLedger`).
Histories tell what this leads to: `late` are requests that went on after they were
marked failed, having freed their place meanwhile; `undone` those marked failed after they
were completed; `skewed` the debits that fell between the two reads of an admission;
`erased` the debits of the day that a transaction working on a copy of the group from
before another's reset took back. The properties of the counts name them: what remains is
that there is no other way to overrun a quota or to lose a debit.

### RateLimit

One counter per identity with its time to live; `SetNx` and `Incr` are two steps,
`Tick` expires keys between them. A command may be executed and its reply lost: the client
library sends it again (`Repeat`), or the check passes by the `except` (`FailOpen`, which
stands for a Redis that is down as well). `opened` counts the checks that passed that way.

### ProviderChain

`DownloadPipeline` sees a download as one step with an outcome; this module is what is
inside. `task[r]` is the asyncio task of a job, with the rows its session has listed and
not asked yet (`rest`), the provider being asked (`at`) and the last error; `worker` is
`process_job`; `dir[r]` the temporary directory; `said` a history of the answers.
`Select` and `Turn` are the loop of `ProviderManager.download`, `Raise` its `except`
clauses, `Extract` and `Fetch` the two `to_thread` calls of yt-dlp, which need one of
`Threads` threads, `Actor` and `Stream` the two requests of Apify. `MapError` is
`_map_error` over the patterns a message contains. `Timeout` gives a task up at any
moment before it ends (it stands for 1200 seconds of anything), `LateEnd` is the callback
of such a task. A row is read when the task lists it, so later edits do not reach it;
one whose key cannot be decrypted fails inside the loop's `try`. Abstracted: formats,
file names, captions, ads. One job at a time, as in `main`. yt-dlp, Apify and the sites
may answer anything, except that they do not mistake private or missing media for
something that can be had, and do not call public media private or missing: wrong
classification then comes from the code alone. The exception is "hollow" media, public, but
yt-dlp returns nothing for it, which the code reports as not_found (`ytdlp_provider.py:127`).
`UploadFails` is any exception of the upload, after which the file may be with the user all the
same; `BookFails` any failure of the booking, its commit included. What becomes of the entry and the
row then is the subject of `DownloadPipeline`.

### AdminSessions

A token is its kind and the number of its pair. `revoked` is the committed blacklist,
`held[c]` what the transaction of a log-out has inserted and not committed: `InsertRow`
waits for another transaction that holds the same jti, and `SavepointRollback` is what
is undone when the insert then fails. `call[c]` is one call of the panel from the request
interceptor to the end of the response interceptor, or a log-out of another client,
which may present a refresh token; `promise[t]` is `refreshPromise` of a tab and its
request at the server; `store` is localStorage, shared by the tabs. The decoding of a
token and the look at the blacklist are one step for an authenticated call, two steps
in the log-out, where the gap matters. The administrator is not deactivated (no endpoint does it).

### BotUsers

One user. `call[e]` is the HTTP call an update is waiting for, `call[Late]` one the bot
has given up while the server goes on with it; `cache.left` is the life of the cache
entry, from the middleware's `now`, taken before its await. `LookUp` and `Insert`, or
`Refresh`, are the two halves of `_upsert_user`: between them another first message may
have inserted the row, and the insert fails. `LookUpChooser` and `SetLanguage` are those of
`set_language`, which writes only what differs from the row it loaded: an edit of the
panel in between outlives a choice that changed nothing. `Tick` lets no call outlast
`Patience`, which is shorter than the life of an entry. That is an assumption: the client's
timeout (15 seconds against 60) bounds each phase of a call, and a server that answers in
drops could stretch the whole beyond it.
`heldAgo` is a history: how long ago the row held each language.

### PanelContent

`texts` are the rows of one key of `bot_texts`, standing for every table that the seed
keys on a unique column; `plans` counts the plans of each name, because their name is
not unique. `Boot` is the entrypoint: the seed, if it gets through, then the server.
There is one API container, and the seed commits once, so no edit falls into it.
`Says` is `text()`, with what an empty string does to its `or` and `is not None`.

## 3. What the runs check

All bounds are named constants. `MaxFaults` bounds crashes and failed calls,
`MaxEdits` changes of a plan's scope or of the providers table, `MaxMisled` payments of which a
callback says what is not so, `MaxOpened` checks let through by errors in the life of a
counter, `MaxMarked` requests marked failed although they run or have run, `MaxChanges` changes of a
language or of texts and plans, `MaxHung` downloads that never end, `MaxPairs` pairs of tokens, `LastDay` the days, `MaxHits` the hits of a
counter; `MaxDeliveries`, `MaxBatch`, `MaxCandidates` are constants of the code, made
small so that their limits are reached.

| Run | Instance | Shows |
|---|---|---|
| `pipeline` | 1 worker, 2 requests, 2 deliveries, batches of 2, 2 faults | `NoJobLost`, `DebitedOnce`, `NoResendAfterBooking`, `NoDebitWithoutDelivery`, `DebitedStaysSettled`, `AttemptsBounded`, `PendingReadable`, `BacklogOffByFaults`; with fairness `EveryRequestSettles`, `EveryEntryLeaves` |
| `payments` | 2 payments, 2 handlers and the reconciler, row locks, 1 fault, 1 edit, 1 misled payment | exactly-once credit (`AtMostOneSubscription`, `CreditedIffSuccess`), `VerdictOnPending`, `ConfirmedOnce`, `PaidNotFailed`, and that the whole implements `PaymentLedger` |
| `ratelimit` | 1 user, 1 chat, 2 overlapping checks, limit 2, 1 check let through by an error | `BudgetPerCounter` |
| `quota` | 3 requests of 2 users of a group, 2 handlers, 1 worker, a subscription of a user and one of the group that come and go, a daily quota of 1 on the first day and none on the second, a counter of 2 from an earlier day, 1 request marked failed while it runs or has run | `SubLedgerExact`, `UserSubNeverOverrun`, `FreeNeverOverrun`, `GroupSubOverrunBounded`, `GroupLedgerKept`, `GroupQuotaOverrunBounded` |
| `providers` | 2 jobs, Apify then yt-dlp, two initial tables (the spare still to be added; the first key lost), 1 thread, 1 hanging download, 1 edit, media of any kind | `VerdictJustified`, `NeverDeliversRefused`, `DirOutlivesTask`; with fairness `JobSettlesAndCleansUp` |
| `sessions` | 2 tabs, 2 calls, 3 pairs of tokens, 1 lost call | `LogoutRevokes`, `SessionSurvives`; with fairness `CallsSettle` |
| `botusers` | 2 updates and a late call, 2 languages, an entry that lives 2 ticks and calls of 1, 2 changes, 1 fault | `CacheFresh`; with fairness `CacheConverges` |
| `content` | a text in 3 languages, 2 of them shipped, plans of a seeded and of another name, 3 edits | `PanelDecides`; with fairness `TextsConverge` |

One worker is the deployment (`deploy/docker-compose.yml` runs one worker container,
whose loop takes one job at a time); two deliveries give every job a retry before it
is given up, two requests let a batch hold both, two faults let a retry fail as
well. That several workers keep the debits covered and the entries readable is what
the theorems show. A second payment is needed for the reconciler's batch; two callbacks of
one payment and the reconciler race for its row, and any number of callbacks is again the
theorems'. Three requests of two members are the fewest that let two admissions overrun the
group's quota while a third request shares its sender with one of them; they are all
made in the group, and the theorems cover private ones as well. The limit of the first day
and none of the second lead the requests through all four entitlements; the earlier counter
of 2 makes the reset on the first day write both columns.
Two jobs suffice for the providers, since only one is ever waited for and the other
can then be a task that was given up, holding the one thread; two tables make the chain end at its
first row, at its last, or between. Two tabs are the smallest race for the stored
tokens, and two calls the smallest sharing of a refresh or of a jti. The bot needs two updates (an older
answer overwriting a newer choice) and the call it gave up; the seed three edits, to
make a name, take it away and make it twice.
`CHECK_DEADLOCK FALSE` is set where the instance comes to an end by its bounds: the
requests of `quota` are made once, as are the jobs of `providers`, and the calls
and pairs of `sessions` run out. In the other runs something is always possible. Symmetry is used in `quota`, `payments` and
`ratelimit` only, which check no liveness, over sets whose members nothing orders; the number of a subscription stands for its
`expires_at` and is not permuted. The type invariant of every
component is proved for all values of its constants.

**Fairness.** Workers: weak fairness of their steps and of the handler's, since the
containers are restarted (`restart: unless-stopped`) and nothing blocks but timeouts.
Strong fairness of a reclaim that includes the entries of a given request: XAUTOCLAIM
starts from the oldest id in every round, and an entry nobody touches stays idle; it
need not be claimable at every moment. Weak fairness of a sweep that includes a
given stale row: housekeeping returns every 300 seconds and takes all stale rows.
Faults are bounded, hence end: with faults for ever nothing can be promised. Payments: strong
fairness of each caller's verification (a lock that keeps coming free is granted at
last), weak fairness of a statement that is refused and of the reconciler; none for the payer,
for time or for the redirect of the browser. `PaidSettles` excludes by itself what the code does not
promise: payments that outlive the 24 hour window and plans that no longer fit.
Providers: weak fairness of the worker, of each task's own step and of the callback of
an abandoned task, since the event loop runs what is ready, the pool works off its queue and every call
but a hanging one ends by its timeouts; none for the panel, and none for a task that
hangs. With as many hanging downloads as threads a later task never ends, but its job
does, by the timeout: `JobSettlesAndCleansUp` says which of the two is promised. Sessions: weak fairness
of the server's work on a call and of the tab's handling of the answer; none for the user, for
expiry or for the purge. Note that the refresh is sent by a bare axios without a
timeout (`api.js:53`): that it is answered at all is the assumption here. Bot: weak
fairness of the server, of the bot's reading of answers and of time. Content: weak fairness of a
start of the API, by the restart policy, and of the refresh of the texts, which is one
of the steps of housekeeping that share one `try` (`runner.py:328-339`): the steps
before it must not fail for ever. On PostgreSQL each round in which a payment is due
fails before the texts are refreshed (`payments_postgres`), until the payment leaves the window.

### Where documents and code disagree

Each has a run that reaches what the document or comment excludes.

* `payments_postgres` (`PaidSettles`): `runner.py:285-288` says that reconciliation makes
  'verification will be retried' true, and `docs/PAYMENTS.md:23` that callbacks serialize on
  the row lock and settle exactly once. With the plan joined in by an outer join, PostgreSQL
  refuses the statement: each verification raises, and a paid payment stays pending until
  it is too old to be looked at. The tests run on SQLite, which ignores the clause.
* `ratelimit_expiry` (`CounterExpires`): a key that expires between SET NX and INCR is
  created again without an expiry, while `ratelimit.py:31-34` says that this cannot be.
* `providers_unavailable` (`RefusalIsTrue`): `_ERROR_PATTERNS` looks for "unavailable"
  (`ytdlp_provider.py:42`) before "http error 5" (53), against its own comment (26). A
  "503 Service Unavailable" of the site becomes not_found, which `docs/PROVIDERS.md:50`
  reserves for content that does not exist; no other provider is asked.
* `seed_restart` (`ApiComesBack`): plans are looked up by a name that is not unique
  (`seed.py:160-164`, `billing.py:21`). After the panel has made two plans of a seeded name, the seed
  raises at every start, and the API does not come up again.

Noted while modelling, and visible in the actions, but not the subject of a run.

Pipeline: a job interrupted between upload and commit sends its file again (`Upload`, `Crash`,
`Load`), so delivery is at least once; the delivery count includes the first delivery,
so a job is given up one reclaim earlier than `docs/OPERATIONS.md:50` says (`Check`);
XAUTOCLAIM counts a delivery for every entry of its batch, also for those whose turn
never came, so a job can be dead-lettered without having been tried; an XADD whose
reply is lost leaves a row that says failed while its job is delivered and debited
(`EnqueueRaises`), against `docs/PAYMENTS.md:24`;
nothing resets the idle time of a running job, so with a second worker a long job is
reclaimed from a live one (`JustDelivered`).

Accounting: a request that is marked failed while its job runs frees its place for another, and is
then completed and debited all the same, over every quota (`late`); one that is marked
failed after it completed stays debited (`undone`), and its free download may be had
again. Two workers booking at once can lose a
debit (`DebitSub` writes `worker[w].used + 1`), which is why `SubLedgerExact` is
checked with one; one admission alone can overrun the group's subscription, when a
booking of another member falls between its two reads (`skewed`); the day reset, of an
admission or of a booking, is written from a copy loaded earlier and takes back debits of
the new day (`erased`), and a booking that loaded an earlier day's row with a counter
of 1 finds nothing to write to that column, since its own 1 is no change, so its debit is lost if
another transaction has reset the row meanwhile (`DebitGroup`). "Bounded overrun of at most the
API concurrency" (`subscription_service.py:143-145`) is thus too little for a group, and not needed
for a user, whose admissions are serialized by the lock of `last_seen_at`. The window of the
rate limiter is fixed, while `config.py:59-60` says sliding.

Money: without the row lock two verifications credit one payment twice, and
UNIQUE(transaction_id), "the enforced backstop", does not trip, since both write the
same id to the same row. SQLite ignores FOR UPDATE; the row lock is
the only protection, hence the assumption `RowLock # "ignored"` of the payment theorems. A callback
whose Status is other than OK marks a pending payment failed without asking the gateway, even
one that was paid (`payment_service.py:157-160`), and one that comes too early has it refused;
a failed payment is never looked at again (`misled`). The
unordered LIMIT of 50 lets payments that can never be credited starve others (`SelectCandidates`).

Providers: the temporary directories of a worker that dies are not removed by the next
one; a task that was given up holds a thread of the pool that aiofiles and name resolution use as well; yt-dlp skips
a file over `max_filesize` silently, so that it is reported as unknown_error and the next
provider is asked for it (`Fetch`).

Sessions: the panel logs out without its refresh token (`auth.js:16`), while
`docs/ADMIN.md:9` says that both are revoked (`Send`); a refresh that answers after a
log-out stores a new pair (`RefreshStored`); the refused refresh of an idle tab clears the tokens that another
tab has stored since (`Reject`); a refresh token stays good after its use
(`Grant`). `docs/ADMIN.md:10` says that seeding again changes the owner's password; the
seed does not touch an existing owner.

Bot: `language.py:33-34` says that the very next message uses the language chosen; the
answer of an older upsert can overwrite it until its entry expires (`Receive`).

Content: `texts_service.py:3-6` says that worker and bot refresh their caches
periodically; the bot loads its own once per start, and compose starts it as soon as
the API's container is started, while the API still seeds (`docker-compose.yml:121`). An emptied English text makes an
empty message, since only a missing one is made up for by the default (`Says`). A seeded plan that was renamed or
deleted is for sale again after the next start (`SeedPlans`). For a deleted Persian row
the worker says the English row, the bot its own Persian default.

## 4. What is proved

Every theorem holds for all values of the constants that satisfy the ASSUMEs of the
modules (counts are natural numbers, limits positive, the reconciler is no handler).
Nothing else is assumed, but for `RowLock # "ignored"` and `Workers = {w}` where stated.

**`DownloadPipelineProofs`**, any number of workers.
`TypeInv` strengthens `TypeOK` by "nobody knows of an entry that has not been
delivered": a worker looks up the request of its entry in `log`, so the types alone
are not inductive. One lemma per stream command says what it keeps, `NextStream`,
`NextWorkers`, `NextPending`, `NextRows` and `NextHistory` treat one group of variables
each; `NextBooks` says that every step delivers a file, debits one, or leaves the
books alone, and the accounting theorems need nothing else of the actions.
* `TypeCorrect`.
* `DebitsAreDelivered`: `NoDebitWithoutDelivery`. Inductive: `Covered`, which counts a
  debit still owed (a worker at "book") as made.
* `PendingEntriesReadable`: `PendingReadable`. Inductive: an entry in the hands of a
  worker about to XDEL is not pending, and does not become so again, because only
  undelivered entries do.
* `BacklogBounded`: `BacklogOffByFaults`. A step either strands no further entry, or is a
  fault and strands one (`NextStranded`): only the worker that acknowledged an entry
  can fail to delete it.

With `Workers = {w}`, the deployed configuration, the same module proves:
* `SingleWorkerDebitsOnce`: `DebitedOnce`; `SingleWorkerNeverResends`:
  `NoResendAfterBooking`; `SingleWorkerKeepsSettled`: `DebitedStaysSettled`. Inductive: `BookedInv`, once a request is debited its row is
  settled and nobody is trying it. The row stays settled because its handler has
  inserted it already (`EntriesAdmitted`), the blind writes of the handler and the
  sweep write "failed", and only a worker that read the row as unsettled starts an
  attempt (`NextTrying`). With two workers the second may have read the row before.
* `SingleWorkerLosesNoJob`: `NoJobLost`. `HoldInv`: what the worker has claimed, or is at,
  is pending, and `Batched` says where it can be with a batch. `JobInv`: when it comes to
  acknowledge an entry, the row is settled, the failure could not be recorded, or the
  copy is on the dead-letter stream. `AliveInv`: every request with an entry is settled
  or has one that is accounted for; a row is set back to "processing" only while its
  entry is pending.
* `SingleWorkerBoundsAttempts`: `AttemptsBounded`. `Used` is the set of deliveries, up to the
  limit, that will not start an attempt any more; it only grows (`UsedGrows`), an
  attempt adds the delivery it is for (`StartUses`), and it has at most `MaxDeliveries`
  members per entry. `TriesInv` gives that what passed the check is within the limit.
  This counts a reclaimed batch that is dropped half-way as so many deliveries used.

The steps of the worker are first put into a dozen kinds, field by field (`Moves`,
`NextMoves`), so that each invariant is argued once per kind. The hypothesis is needed:
with two workers TLC finds both of the last two properties violated. An entry
reclaimed from a slow holder is read as settled by the one worker and acknowledged,
while the other, which read the row as queued before, sets it back to "processing"
(`NoJobLost`); and an entry acknowledged between the XAUTOCLAIM and the look at its
delivery count counts as never delivered, and is tried once more (`AttemptsBounded`).

**`PaymentsProofs`**.
* `TypeCorrect`, whatever the database makes of FOR UPDATE.
* Given `RowLock # "ignored"`: `CreditedAtMostOnce`, `CreditedWithSuccess`, `VerdictsOnPending`,
  `ConfirmedAtMostOnce`, `PaidFailsByAnswer`, and `ImplementsLedger`, the refinement of
  `PaymentLedger`. All follow from `MoneyInv`: whoever decides on a payment holds its
  row, which is pending (`RowHeld`); one subscription exactly for "success"
  (`CreditExact`); a credit under way is of a paid session (`CreditPaid`); a
  confirmation still to be sent counts as sent (`ConfirmedCredit`); and a rejection has
  its reason, a session not paid, a refusal, or a callback that misled (`Justified`, `FailedJustly`). In the refinement a verification up to its
  commit is a stutter, and the commit is the ledger's `Credit` or `Reject`.

**`QuotaProofs`**, any number of requests, users, subscriptions, limits and admissions at
once. `QuotaInv` holds the types, who is busy with which request, the user's row lock as a
mutual exclusion (`OnePerUser`) and the entitlement each request is tagged with; one
lemma per action says what it does, and `NextKinds` reduces them to the kinds of
steps that the counts tell apart.
* `TypeCorrect`; `FreeTierHolds`: `FreeNeverOverrun`, for any number of workers. Inductive:
  `FreeInv`, on the rows that are not `late`: an admission about to pass on the free tier has counted fewer rows than the
  limit, and the lock keeps any other admission of the user from adding one.

With `Workers = {w}` (two bookings at once lose a debit, see section 3):
* `LedgerExact`: `SubLedgerExact`. Inductive: `LedgerInv`, what the worker loaded is still
  what is in the row when it saves, and a debit stays whatever is written to the status later.
* `PersonalQuotaHolds`: `UserSubNeverOverrun`; `GroupOverrunBounded`:
  `GroupSubOverrunBounded`. `SettledCounts`: a booking moves one request from the rows in
  flight to the counter. `ReadInv`: no booking of the user is saved between the two reads
  of an admission, since the user's row is locked, and what a group's admission misses is
  counted in `skewed`. `PlaceInv`: an admission that passed has its place. A request
  that is `late` is taken out of the count of places, once.
* `GroupLedgerHolds`: `GroupLedgerKept`; `GroupQuotaBounded`: `GroupQuotaOverrunBounded`, on every
  day. Inductive: `GroupInv`. `DateInv`: no date lies ahead, a reset starts from nothing
  counted, and neither the copy that admitted a request nor its booking is older than the
  request.
  `CopyInv`: since one worker alone adds to the counter, the row never holds more than a copy
  that will be written over it. `GroupReadInv`: the debits of the day are
  no more than what an admission knows, and what was erased or fell between its reads.
  `BookedInv`: each request made today that was completed on the daily quota is
  among the debits of today. `QuotaBounded` counts the requests that are not `late` over these.

**`RateLimitProofs`**.
* `TypeCorrect`; `BudgetHolds`: `BudgetPerCounter`. Inductive: `BudgetInv`, a check that
  passes by its count has counted itself, so the count is never behind the checks that
  passed and were not let through by an error.

**`ProviderChainProofs`**, any table of providers and any number of requests, threads
and downloads that hang.
* `TypeCorrect`; `VerdictsJustified`: `VerdictJustified`; `RefusedNeverDelivered`:
  `NeverDeliversRefused`; `DirectoriesOutlive`: `DirOutlivesTask`. All follow from `ChainInv`: the rows a
  task has still to ask have said nothing, and those it has asked failed in a way that
  lets it go on (`OrderInv`);
  a task fetches only media that is there (`MediaInv`); a job is started once, and only
  its worker ends it (`JobInv`). `ForemostIn` is the one appeal to the order of the
  rows, and rests on the least element of a non-empty set of naturals. Each action of a
  task is shown to be a `Moved` step, which leaves the other tasks alone; one lemma then
  carries `ChainInv` over every such step.

**`AdminSessionsProofs`**, any number of tabs, clients, calls and pairs.
* `TypeCorrect`; `LogoutRevokesForGood`: `LogoutRevokes`. Inductive: `CallInv`, each token
  a log-out has dealt with is dead or among the rows its transaction holds; its
  commit turns the held rows into dead tokens. `DeadGrows` says that no step revives a
  token, the purge included, since it takes only what has expired.
* `SessionLasts`: `SessionSurvives`. Inductive: `SurvivalInv`, in a session that is calm (nobody
  logs out, nothing is lost, no refresh token expires) nothing is revoked, so that the
  token stored, and each one a tab has presented, is good; a session that is not calm
  does not become it again (`CalmBefore`).

**`BotUsersProofs`**, any number of updates, languages and changes.
* `TypeCorrect`; `CacheStaysFresh`: `CacheFresh`. Inductive: `AnswersRecent`, what an
  answer that may be cached says was the row's not longer ago than its update is old.
  An entry is dated from its update's `now`, so its age and the answer's add up to at
  most the life of an entry and one call.

**`PanelContentProofs`**, any languages, wordings, names and edits.
* `TypeCorrect`; `SeedRespectsPanel`: `PanelDecides`, which is inductive with a count of how
  often the panel placed each name (`ContentInv`). The assumption is that "untouched" and
  "deleted", the marks the model uses, are no wordings.

The inductive invariants were model-checked before they were proved. Every safety
property and action property of the passing runs is stated by a theorem above. Only
model-checked: the liveness properties, since liveness under fairness is beyond the
prover (`EveryRequestSettles`, `EveryEntryLeaves`, `JobSettlesAndCleansUp`,
`CallsSettle`, `CacheConverges`, `TextsConverge`).

## 5. Not modelled

Left for later: the update, backup and restore scripts, whose states are exit codes
of Docker and pg_dump, and a restore under a queue that keeps its entries. Left out
for good: the admin API beyond providers, users, texts and plans, and the panel's
pages beyond its API client (single-row CRUD and presentation); the bot's handlers
that only relay answers, and its overlay of texts, loaded once; the upsert of groups, which is that of users again;
ads; installation, migrations, wording, media
formats. The bot at this commit sends downloads through the placeholder endpoint; the
intake modelled here is the one the worker serves. `PROJECT.json` gives the reason per
component, and lists the hazards no property covers.

## 6. Plan

Done, in this order: the pipeline (where jobs are lost or paid twice), the money core with
its abstract ledger, accounting, the rate limiter; the provider chain, the
administrator's session, the bot's user, the seed and the texts; then the theorems, one for
each safety property of the runs. Left:

1. The pipeline as an implementation of an abstract job ledger, composed with the
   accounting: each `booked` of the pipeline is one debit of `Quota`.
2. `Updater`: update with health gate, rollback and restore, and a composition of
   restore with the pipeline, in which the database goes back in time and the queue
   does not.
