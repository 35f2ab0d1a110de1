# helPRs: a TLA+ verification development

helPRs reviews pull requests interactively: a user opens a *session* on a pull
request, the API starts a container that runs a Claude skill, streams its
output to the browser, and posts the scorecard back to the pull request. A
GitHub webhook creates a pending session for every new pull request.

This directory models the parts of the program in which something can go wrong
between two steps: several uvicorn workers (four by default,
`infra/docker/Dockerfile.api`) share one PostgreSQL database and one Docker
socket, every request awaits Docker or GitHub between reading a row and writing
it, and a worker may be killed and restarted at any of those points.

- [Inventory](#inventory) of the system
- [Modules](#modules) and how they correspond to the code
- [Runs](#runs), their bounds and fairness
- [Proofs](#proofs)
- [What the code does not keep](#what-the-code-does-not-keep)
- [Not modelled](#not-modelled)

Paths below are relative to the repository; `api/` stands for
`apps/api/src/helprs/`.

## Inventory

| component | state | operations | neighbours |
|---|---|---|---|
| container sessions (`api/modules/container/service.py`, `cleanup.py`, `router.py`, `repository.py`, `docker_client.py`) | a row of `container_sessions` (status, container id, end, scorecard); the container and its boot-id label in Docker | open (create, start), stop, delete, stream, finalize, expire, reconcile at boot, stop own at shutdown | Docker, GitHub comments, event streaming, the lifespan |
| event streaming (`container/streaming.py`) | rows of `session_events`; the position of each connection in the log; detached tasks | read log, number lines, batch and store, keepalive, resume after an id, drain when the client is gone | sessions (a stream that ends finalizes), the browser |
| scorecard and comment text (`container/scorecard.py`, `pr_comment.py`) | none | parse, render | finalization |
| claude runner (`infra/docker/claude-runner/entrypoint.sh`) | a FIFO, the turn loop | clone, set up, run turns, trap SIGTERM | Docker, messages |
| webhook receiver and queue (`api/modules/webhook/`) | rows of `webhook_events`; invocations; a replay semaphore per worker | receive, claim, dispatch, settle, fail, replay, reap | handlers, the lifespan |
| webhook handlers (`webhook/handlers.py`) | none of their own | create a session and announce it; create, suspend, unsuspend, delete an installation | sessions, installations, GitHub |
| installations (`api/modules/installation/`) | installation, BYOK and settings rows | lifecycle changes, settings and key writes, listings | webhook, identity |
| GitHub client (`installation/github.py`) | none | access checks, comment with three attempts | finalization, announcements |
| identity (`api/modules/identity/`, `core/security.py`) | user row with `token_version` and GitHub tokens | login, refresh, logout, revoke | every request, the browser |
| credential rotation (`api/scripts/rotate_credentials.py`) | all encrypted columns | re-encrypt everything in one transaction | settings writes, key ring |
| lifespan (`api/main.py`) | engine, session factory, loops, replay tasks | boot: replay, reconcile; two loops of 300 s; exit stack in reverse | sessions, webhook, pool |
| database access (`api/core/database.py`, `core/dependencies.py`) | connections of the pool | session per request, commit after the response | everything |
| web client (`apps/web/src`) | stream offset, reconnect count, messages, login store | stream, reconnect, send, stop; one refresh for several 401s | the API |
| skills, admin views, configuration, migrations | data, generated code, settings | | |

### What is hard, and what makes each part correct

**Sessions.** Nobody claims a row. The opener, stops, deletes, one finalizer per
stream, and the maintenance jobs of each worker read it, talk to Docker for
seconds, and write back columns decided on what they had read. The opener
answers 201 and commits afterwards. A docker stop makes the runner exit with
zero, like a success. The finalizer posts before it commits, and a client that
hangs up cancels it wherever it is. Correct means: the columns of a row agree;
success is reported only for a container that exited with zero; a finalizer that
says COMPLETED has stored the results it posted; a deleted session does not come back; nothing recorded
is forgotten; every session ends; a worker stops only its own containers.

**Webhook queue.** One row may have an invocation of the request that received
it, of each boot replay and of each reaper; the claim is a conditional UPDATE
with a 60 s timeout; failures are recorded by a second session that reads and
writes in two statements; a crash may fall between the commit of a session and
the settlement of its event. Correct means: dispatched once while nothing goes
wrong; settled truly; given up only after the failures it counts; settled at
all.

**Streaming.** Two readers of one log number its lines independently and store
them with `ON CONFLICT DO NOTHING`; a batch that cannot be stored is dropped; a
client that reconnects continues after an id; when it disconnects, a detached
task drains the rest, unless the container has been removed by then; a log that
is cut off looks like one that has ended. Correct means: an id names the same
line for everybody; what is stored is a prefix with known holes; the finalizer
runs after the drain, and has missed nothing but what came after a cut.

**Pool.** A webhook request keeps a connection through its background task,
which takes a second one and, to record a failure, a third; replays take up to
two each; finalizers hold one while they post. The pool has fifteen. Correct
means: not everybody waits for a connection that only a waiting task can return.

**Runner.** Messages are written into a FIFO by an exec of its own and may come
before the FIFO exists or after the loop has ended. Correct means: every message
is one turn, in order, and the runner leaves when told.

**Identity, rotation, installations, comments, page.** Lost updates of
`token_version`; a rotation that overwrites a key stored meanwhile; lifecycle
events out of order; a comment posted twice when its answer is lost; a client
that must tell a finished session from a broken stream.

Each of these is listed with its line under `hazards` in `PROJECT.json`,
together with the properties that cover it.

## Modules

| module | what it is |
|---|---|
| `SessionLifecycle` | the life of sessions, their containers and all writers of their rows |
| `SessionContract` | the abstract promise about a session's status, which the former implements |
| `SessionClaims` | what a comment says of a stopped session and TLC refutes |
| `WebhookQueue` | deliveries, invocations, the claim, retries, replay |
| `DeliveryContract` | the abstract promise about a delivery, which the queue implements |
| `EventStream` | one container's log, its readers, their batches and the finalization |
| `SessionClient` | the page that reads the stream, on top of `EventStream` |
| `Feed` | the abstract promise of following a session, which the page implements |
| `Runner` | `entrypoint.sh`, its FIFO, and the messages sent to it |
| `Tokens` | one user's `token_version`, refresh tokens, and the pages of a browser |
| `Installations` | the row of an installation under deliveries and settings requests |
| `Credentials` | encrypted rows under requests, the rotation script and deployments |
| `CredentialsClaims` | what is said of the rotation and TLC refutes |
| `Connections` | who holds and awaits the pool's connections; the attempts of a comment |
| `SessionLifecycleProofs`, `WebhookQueueProofs`, `EventStreamProofs`, `RunnerProofs`, `TokensProofs`, `InstallationsProofs`, `CredentialsProofs`, `ConnectionsProofs` | theorems |
| `MCSessionLifecycle`, `MCWebhookQueue`, `MCTokens`, `MCRunner` | instances for TLC: symmetry, and constants that are functions |

Operators named as a mutant in their comment stand beside the definition they
mutate. They are no part of the specification: each is a plausible slip in the
code that makes one of the checked properties fail.

The modules meet where one abstracts what another details. `SessionLifecycle`
lets a stream end or break and a scorecard be found or not; `EventStream` says
who reaches the end and what is in the table by then. It lets a container exit
zero or not; `Runner` says when. It lets an event's session be announced;
`WebhookQueue` says how often, `Installations` what other events do, and
`Connections` what all of them hold while they do it. `SessionClient` extends
`EventStream`, and `PageIsClient` proves that its runs are runs of the stream.

Three components are shown to implement an abstract specification: the lifecycle
implements `SessionContract`, the queue `DeliveryContract`, stream and page
together `Feed`. The refinement mappings (`Contract`, `Contract`, `Transcript`)
forget everything but the row's status and what a container has done; the row of
a delivery, who holds it and whether it was handled; the log and the places of
the lines that the page has shown.

### SessionLifecycle

*State.* `row` is the committed row, reduced to the status and whether container
id, `completed_at` and scorecard are set. `cont`, `code` and `label` are
Docker's state of the container, its exit code and the boot id it carries (the
worker that will never come back after a restart becomes `None`). `aged` are the
sessions older than the TTL. `op`, `st`, `fv`, `de` and `wk` are the program
counters and local variables of openers, stop requests, finalizers, deletes and
the jobs of each worker. `posts` and `faults` are the comments on the pull
request and the budget for errors.

*Transactions.* A transaction is its reads, its flush and its commit. A flush
writes changed columns only (SQLAlchemy emits an UPDATE of dirty columns) and
holds the row lock until the commit. Flush and commit are one step unless the
code does something visible in between: the opener answers before `get_db`
commits, the finalizer posts to GitHub, the shutdown job's loop autoflushes.

| actions | code |
|---|---|
| `Open`, `CreateContainer`, `StartContainer`, `RecordFailed`, `FlushRunning`, `CommitRunning`, `OpenerLosesRow` | `service.open_session`, `start_container`, the commit in `core/dependencies.get_db` |
| `Announce` | `webhook/handlers.handle_pull_request_opened`: a PENDING row that nobody starts |
| `StopRead`, `StopHalt`, `StopRemove`, `StopWrite` | `service.stop_container` |
| `DeleteRead`, `DeleteWrite` | `router.delete_container_session`, `repository.delete` |
| `StreamOpen`, `OpenLog`, `StreamEnds`, `StreamBreaks` | `router.stream_container_output` |
| `FinalizeRead`, `Attach`, `AwaitExit`, `RemoveExited`, `MarkRead`, `FinalizeFlush`, `PostComment`, `FinalizeCommit`, `FinalizeFails` | `service.finalize_session`, `await_exit_status`, `mark_completed`, `_persist_scorecard`, the commit in `core/database.get_db_context` |
| `Boot`, `Probe` | `cleanup.reconcile_stale_sessions` |
| `ExpireRead`, `ExpireSkip` | `cleanup.cleanup_expired` |
| `ShutdownRead`, `ShutdownGet` | `cleanup.cleanup_own_running` |
| `JobStop`, `JobRemove`, `JobCommit`, `JobLosesRow` | the Docker calls and the commit the jobs share |
| `RunnerDies`, `HostStops`, `PassTTL`, `Crash`, `StopDies`, `ViewerDies`, `DeleteDies` | the runner, the host, time, and processes that are killed |

*Finalization and its client.* The finalizer of a live stream is awaited inside
the generator that the client reads (`router.py:152`). `live` says that a client
is attached; while one is, `StreamBreaks` may cancel whatever is under way, from
the opening of the log to the commit of the results, which rolls an open
transaction back, and `_drain_and_finalize` begins anew with another finalizer
(`Detach`). The detached one has no client and is only cut off by a crash. The
commit (`FinalizeCommit`) has three outcomes: it succeeds and the verdict is
returned; it succeeds while the client hangs up; or it raises, having taken
effect or not, and the finalizer returns FAILED although the comment may be out
(`service.py:372-378`). `FinalizeFails` is that handler for everything before.

*Abstractions.* The two SELECTs of stop and delete (ownership check, then the
service) are one. A job's rows are flushed at once. Database errors of a job
other than the row that is gone (`StaleDataError`) are covered by `Crash`. A finalizer's own wait of one TTL is not counted: it begins
after the session was created, so it can run out only once the session is aged,
and from then on the model lets it. The comment on the pull request succeeds or fails in
one step (its attempts are in `Connections`). A stream is open, has ended or has
broken; its events are in `EventStream`.

*Properties.* `TypeOK` (a part of `IInv`); `RowShape`; `SuccessIsEarned`; `PostedScoreIsStored`;
the action properties `ShutdownSparesPeers`, `DeletedStaysDeleted`,
`EndIsRemembered`; `SessionsEnd`; and `KeepsContract`, the refinement of
`SessionContract`. The contract lets an end be replaced by another end and a
late start follow an end, because the code does both; what it forbids is a
second birth, a second start, an unearned success and a revival.
`PostedScoreIsStored` speaks of the finalizers that found results and say
COMPLETED: their results are in the row and stay there. Of one whose commit
failed it claims nothing (see [below](#what-the-code-does-not-keep)).

### WebhookQueue

*State.* `ev` is the committed status and retry count of each delivery, `age`
how long ago it was updated (within the grace period of 30 s, past it, past the
60 s after which a claim is stale), `task` the invocations of
`process_webhook_event` with the status of the row object they hold and the
retry count `mark_failed` has read. `made`, `ran` and `fails` are history: the
sessions committed, the deliveries handled, the failures recorded.

| actions | code |
|---|---|
| `Deliver` | `router.receive_github_webhook`, `service.record_delivery`, `repository.create_event` |
| `Replay`, `TakeSlot` | `main._replay_pending_webhook_events` at boot and from the reaper, and its semaphore |
| `Load`, `Claim` | `session.get` and `repository.mark_processing` in `tasks.process_webhook_event` |
| `Dispatch` | `dispatcher.dispatch_webhook` and the handlers, as outcomes |
| `Settle` | `mark_processed`, `mark_ignored` |
| `FailRead`, `FailWrite` | `_record_failure`, `mark_failed` |
| `Grow`, `Crash` | time; a killed worker |

The claim bypasses the row object (`synchronize_session=False`), so the object
still carries the status it was loaded with, and a later assignment of an equal
value is not written. `Set` and `FailWrite` keep that: an invocation that loaded
the row as processed, saw it failed by another and claimed it again leaves it in
processing, and it is dispatched once more after the stale window.

*Abstractions.* An error of a database statement counts as "not done"; a commit
that succeeds and whose answer is lost is not told apart from a crash after it.
Rows are never deleted, so the code's checks for a missing row do not occur.
What handlers write to installations is in `Installations`, and the connections
all of this takes are in `Connections`.

*Properties.* `TypeOK` (a part of `QInv`); `CalmOnce`, `CalmTerminal`, `SettledTruly`,
`RetriesCounted`; `EventsSettle`; and `KeepsQueueContract`, the refinement of
`DeliveryContract`: a delivery is recorded, held by one invocation, finished for
good by that one or given back with its failure counted, and given up at the
last one. Once something has gone wrong the contract keeps little, because the
code does: rows stay, and nothing is called processed that no handler has done.
"Calm" means that no fault has happened: no
crash, no database error, no claim outlived by its holder. Handlers may raise at
any time; that is no fault.

### EventStream and SessionClient

*State.* `log` is the container's output as lines that are blank or not; `up`
says whether it runs, `gone` that it has been removed, `begun` that the row has
been committed as RUNNING. `conn` are the connections: the client's offset, the
place in the log, whether the log was cut off there (`cut`), the number of the
last line, the events pending and in a batch. When a client leaves, the detached task that drains the log takes the
connection's place, from the log's beginning and with no client (`live` is
false). `stored` is `session_events`, `loose` the batches in the hands of
detached tasks, `wire` the frames on the way to the browser, `dropped` the ids
whose insertion failed. `page` is the page: its stream, the offset in the URL of
its `EventSource`, the `Last-Event-ID`, its own offset, its reconnects.

| actions | code |
|---|---|
| `WriteLine`, `ContainerExits` | the container |
| `RowCommitted`, `RemovedElsewhere`, `EndElsewhere` | the opener's commit after its answer; a stop or the expiry loop, which remove the container and write the row |
| `Connect` | `router.stream_container_output` |
| `OpenLog`, `TakeLine`, `Flush`, `Keepalive`, `LogEnds`, `LogCut`, `LastFlush` | `streaming.stream_events`, `stream_and_persist`, `_persist` |
| `FinalRead`, `FinalRemove`, `FinalWrite`, `FinalFails` | `service.finalize_session` as far as the stream sees it |
| `Hangup`, `StreamBreaks`, `LooseFlush`, `Crash` | `GeneratorExit` and errors in `stream_and_persist`, `router._event_stream`, `_drain_and_finalize`, `spawn_detached` |
| `Mount`, `Accepted`, `Refused`, `Poll`, `ReadFrame`, `NetworkBreaks`, `CrashSeen`, `LeavePage` | `ContainerSession.tsx`: `init`, `connectStream`, `pollSessionStatus`, the listeners, the effect's cleanup |

*Abstractions.* Chunks and text are left out; a line is named by its place. A
batch is flushed when it is full, when the log pauses (the keepalive, here at
any pause) and at the end. A client that hangs up while an insertion is under
way leaves it committed or not. What is left of a line that was cut off counts as
that line: `ON CONFLICT DO NOTHING` keeps the fragment if it is stored first.

*The end of a log.* `stream_events` stops at StopAsyncIteration, whatever made
the log end. `LogEnds` is the end after the exit, with everything read. `LogCut`
is any other: the container is removed under the reader, or the connection to
Docker is lost; the reader goes on to finalize with what it has. A log that
raises instead (`StreamBreaks`), or is asked for after the removal (`OpenLog` of
a container that is `gone`), hands a live stream over to a drain and ends a
drain. The finalizer waits for the exit, or for a TTL, then removes the container
(`FinalRemove`) and then writes (`FinalWrite`); a client that leaves in between
leaves a drain that finds no log.

*The page.* `Act` is what it does with a status: a session that has ended is
shown as ended, a running one is streamed, and about a PENDING one it does
nothing, so it waits (`page.pc = "waiting"`). The answer that opens a session
says RUNNING before that is committed (`begun`), so the page's first stream may
be refused and its poll may see PENDING.

*Properties.* `IdNamesOneLine`, `FinalizerReadsAll`, `NothingSkipped`,
`StreamsFinalize`, `PageSettles`; `PageTypeOK` is proved.
`FinalizerReadsAll` exempts the lines after a finalizer's own cut, and lines
whose insertion failed; `StreamsFinalize` a container that is removed while
nobody is left to finalize; `PageSettles` a page that was answered PENDING. And `KeepsFeed`, the
refinement of `Feed`: a log grows, and the next line that is not blank and not
yet shown is shown. `Feed` knows neither connections nor ids nor offsets. A line
that is sent once more shows nothing new there, which is how the code's repeats
after a reconnection are allowed; a line shown too early, a line shown that was
never written, and one that is taken back are not.

### Runner

*State.* `phase` is what the script is at, `jobs` the three parallel jobs of
the set-up, `path` what is at `/tmp/claude-input`, `pipe` the lines in the FIFO,
`turns` the lines Claude was called with, `msg` the messages, `told` and
`reason` the SIGTERM and the error event in the log.

| actions | code |
|---|---|
| `Authenticate`, `JobEnds`, `Wait`, `Checkout`, `Prompt` | the set-up and its `trap ... ERR` |
| `MakeFifo`, `OpenFifo`, `TurnEnds`, `ReadLine` | `mkfifo`, `exec 3<>`, `claude`, the read loop |
| `Trap`, `Stop`, `Kill` | `cleanup`, `docker stop`, its SIGKILL or the memory limit |
| `Send`, `Write` | `service.send_message`, the `sh -c` of `write_to_container` |

*Assumptions.* A message of at most PIPE_BUF bytes is written as a whole (a
longer one may be torn by another's); Claude leaves its inherited standard input
alone. Two execs run in no particular order, so the order is kept within one
message and not between messages. bash defers the trap while a command is in the
foreground (`Interruptible`).

*Properties.* `SilentOnlyIfEarly`, `ZeroMeansTold`, `LinesKept`,
`MessagesAnswered`; `TypeOK` is proved. `LinesKept` speaks of turns and pipe together (`Seen`): what
is there belongs to a message that was written, a message's lines are there
once and in order, none of them is missing, and no turn is blank.

### Tokens

*State.* `version` is `token_version`; `cookie` the refresh token that all pages
of the browser share, named by the version it was minted under; `page`,
`refresh` and `call` the store, the one refresh request and the calls of each
page; `logout` the logout requests with the version they have read; `revoked`
is history.

| actions | code |
|---|---|
| `LogoutRead`, `LogoutWrite`, `LogoutFails` | `router.logout`, `authenticate_token`, `service.revoke_refresh_tokens` |
| `RefreshServed`, `RefreshRefused` | `router.refresh`, `service.refresh_tokens`, `create_token_pair`, the rate limit |
| `Send`, `Answer`, `Unauthorized`, `CallFails`, `RefreshGranted`, `RefreshDenied`, `RefreshLost` | `client.ts`: `apiFetch`, `handleTokenRefresh`, `refreshToken` |
| `Login`, `SignOut`, `GoToLogin`, `Expire`, `CookieExpires` | `github_callback`, `OAuthCallback`, `Topbar`, `ProtectedRoute`, time |

*Properties.* `SentToLoginForCause`, `RevokedForGood`, `CallsSettle`; `TypeOK` (a
call that waits has a refresh to wait for) is proved.

### Installations

*State.* `event` are the deliveries in the order of what happened at GitHub,
with what holds at GitHub after each (`life`), what the handled deliveries have
told before and with it (`before`, `after`), and the queue's status and retries;
`row` the installation's row; `task` and
`req` the dispatches and settings requests with the row they have read;
`orderly` is history.

| actions | code |
|---|---|
| `Emit` | GitHub: an installation is created, suspended, unsuspended, deleted, under the names the program knows and under GitHub's own |
| `Ignored` | `dispatcher.dispatch_webhook` without a handler, `mark_ignored` |
| `Begin` | the claim, and the handler's first SELECT |
| `Created`, `Change` | `handlers.handle_installation_*`, `service.create_installation`, `_apply_lifecycle_change` |
| `DispatchFails`, `DispatchDies` | `tasks._record_failure`; a crash |
| `Ask`, `LookAgain`, `Save`, `RequestEnds` | `router.put_*`, `service.update_*`, `_get_active_or_404` |

A write touches the columns that the handler sets and that differ from what it
has read. `Handled` are the actions with a handler (`_HANDLERS`): "suspended"
and "unsuspended" among them, while GitHub calls these `suspend` and `unsuspend`.
A delivery of the latter is ignored, so that `Truth` (GitHub's state) and `Told`
(the last that a handled delivery said) part. What the row is to show is `Told`,
and the installation is to be active exactly as long as `Truth` has it: the two
agree about that (`Mirrors`).

*Properties.* `OrderlyMirrors`, `GoneStaysGone`, `SettingsKept`,
`MirrorsInTheEnd`; `TypeOK` (no failed event has used up its retries) is proved.

### Credentials

*State.* `stored` are users' GitHub tokens and installations' Claude keys, each
with an id (a row that was deleted and inserted again is another one), the value
by the request that stored it, and the key it is encrypted with; `ring` the
deployed key ring; `req`, `rot` and `report` the requests, the script and its
last result.

| actions | code |
|---|---|
| `Ask`, `Store`, `Remove`, `RequestFails` | `sync_user`, `configure_byok`, `delete_byok_config` |
| `ReadTokens`, `ReadByokKeys`, `Commit`, `ScriptFails` | `rotate_credentials.py` |
| `DeployNewKey`, `DeployMissingKey`, `EmptyFallbacks` | the four steps of `docs/self-hosting.md` |

*Properties.* `FallbacksUnused`, `NoneLost`; `TypeOK` is proved.

### Connections

*State.* `pc` is where each delivery, replay and finalizer is, which says how
many connections it holds and whether it waits for one; `calls` the attempts of
the comment it is posting.

| actions | code |
|---|---|
| `Arrive`, `Receive` | `router.receive_github_webhook`, `repository.create_event` |
| `TakeSlot` | `main._bounded` |
| `Claim`, `Undone`, `Handle`, `Settle`, `Recorded` | `tasks.process_webhook_event`, `_record_failure` |
| `Look`, `Exited` | `service.finalize_session` |
| `Attempt`, `GoOn` | `github.post_pr_comment_with_retry` |
| `Connect`, `TimeOut` | the pool of `core/database.create_engine` |

*Properties.* `TypeOK` (the pool is not overdrawn), `OnlyHooksBlock`,
`CommentsAccounted`, `EveryStepCounts`, `TasksEnd`. `EveryStepCounts` rests on the
variant `Rank`, the number of steps a task can still take: its place in the flow
(`Stage`) and the attempts it has left. It falls with every step of a task and
stays when another task moves, so that a timeout, a failure that is recorded or a
comment that is tried again can never lead a task round in a circle.

## Runs

Deadlock checking is off in every configuration, because the system may come to
rest: every session ended or deleted, every delivery settled, no user, no
webhook. That it does not rest too early is what the liveness properties show.

| run | instance | shows |
|---|---|---|
| `core` | 1 session, 2 workers, 1 stop, 1 viewer, 1 delete, 1 fault | state invariants, action properties and refinement of `SessionLifecycle`, and the inductive invariant of the proofs |
| `live` | 1 session, 1 worker, 1 stop, 1 viewer, 1 delete, 2 faults | `SessionsEnd` |
| `webhook` | 1 delivery, 3 invocations, 2 workers, 2 retries, 2 faults | the queue's safety properties, its refinement of `DeliveryContract`, and its inductive invariant |
| `webhook_live` | 2 deliveries (one without a handler), 2 invocations, 1 worker, 2 retries, 1 fault | `EventsSettle` |
| `stream` | 2 connections, batches of 2, 2 lines, 1 fault, 1 reconnect | ids agree, nothing is skipped, the page implements `Feed`, the finalizer has read the log to its end or to a cut, session and page end |
| `tokens` | 2 pages, calls that share a refresh, 2 logouts, 1 fault | revocation lasts, nobody logs in for nothing, calls end |
| `installations` | 4 events, 2 dispatches, 1 settings request, 2 retries, 2 faults | the row shows what was told, and the installation is active while GitHub has it, if the order is kept; deletions and settings last |
| `credentials` | 1 user, 2 installations (one uninstalled), 3 requests | a reported success is true, no credential becomes unreadable |
| `runner` | messages of one line, of two, and of three with a blank one | turns, exits and their reasons |
| `connections` | 2 replays, 1 slot, 1 webhook request, 1 finalizer, 2 connections, 3 attempts | who may block whom; no step leads back; all tasks end |
| `claim_abort`, `claim_rotation` | the smallest instance that shows it | one refuted claim each, see below |

*Why these bounds.* Rows of different sessions meet only in a maintenance job's
transaction, so one session with all of its writers finds every interleaving of
them; two workers are needed for a booting or stopping worker beside a live one.
In the queue, three invocations are one holder, one that takes its claim over,
and one that is late; two retries give a failed row, a retry and an abandoned
one, where the code's `MAX_RETRY_COUNT` is five. Two connections are a client
that has come back and the detached task that still reads for it; batches of two
leave one pending and one full. Two pages share a cookie and two calls a
refresh; two logouts overlap. Four events reach every state of an installation,
with its end, and two dispatches overtake one another. Three requests are a
writer before, during and after a run of the script. One slot beside a pool of
two is the tightest instance of the semaphore's rule; the code has ten and
fifteen. The proofs make these bounds irrelevant for the safety properties, with
the exceptions named there.

`MaxFaults` bounds crashes, errors, overruns and lost answers; in the liveness
properties this is the assumption that faults stop at some time. `MaxRetries`,
`Slots`, `BatchSize`, `MaxReconnects`, `PoolSize` and `Attempts` are
`MAX_RETRY_COUNT`, `_REPLAY_CONCURRENCY`, `PERSIST_BATCH_SIZE`, `MAX_RECONNECTS`,
the pool's size with its overflow, and `_PR_COMMENT_ATTEMPTS`. `MaxLines` and
`MaxEvents` bound what the container writes and GitHub sends.

*Symmetry* is used in the safety runs `core` and `webhook` only, over workers,
requests and invocations, which no definition tells apart.

*Fairness.*

- Sessions: asyncio resumes what it awaits (`WF` of the opener, the finalizer and
  the jobs), the cleanup loop ticks every 300 s
  (`_CONTAINER_CLEANUP_INTERVAL_SECONDS`), a worker that has gone down is started
  again (`restart: unless-stopped` and uvicorn's supervisor), and time passes the
  TTL. No user need open a stream, stop or delete; the runner need not exit; a
  stop request need not be fair, since its client may go away.
- Queue: time passes, the reaper of each worker ticks every 300 s, and
  invocations are resumed. GitHub need not deliver or redeliver.
- Stream: connections, detached tasks and the page's listeners are resumed, and a
  refused `EventSource` reports it. The container need not exit; nobody need
  open or leave the page.
- Tokens: a request is answered or fails. No user need act.
- Installations: handlers run on, and the reaper dispatches every event that is
  due. GitHub need not send any, nor administrators change a setting.
- Runner: commands end (`claude` by its `--max-turns`), the execs run, and a grace
  period ends. Nobody need stop the container.
- Connections: something goes on, that is, a free connection is given, a wait that
  is too long times out, calls to GitHub and containers end. Since no task can
  step for ever, all of them come to an end.
- `Credentials` states no fairness: the operator may stop after any step.

## Proofs

The theorems hold for any constants that satisfy the named assumptions of the
modules, finite or not unless said so: `None` is no worker, session or event;
budgets are natural numbers; the tasks of `Connections` are finitely many and
its slots fewer than its connections (true of the defaults, ten and fifteen; both
pool settings can be configured).

*SessionLifecycle.* None of the invariants is inductive alone: a finalizer that
is about to write COMPLETED may do so only because it has seen exit code zero,
and it is still entitled to when it writes because a container exits once and
nobody but the opener moves a container whose id is not yet committed. `IInv`
says this in parts: `OpenerInv` (opener and container in step, ids committed at
the end), `RequestInv` (stops and deletes hold sessions that were born and talk
only about committed containers), `ViewerInv` (what a finalizer's verdict and
its lock guarantee), `WorkerInv` (what a job may destroy and holds) and
`PostInv` (comments are of finalizers of that session). What `PostedScoreStays`
needs is in `ViewerInv`: a finalizer that has found a scorecard and says
COMPLETED has got over its commit, and the column is never unset. `SessionLifecycleProofs` has one
lemma per action, `Invariance` combines them, and `TypeCorrect`,
`RowsKeepShape`, `SuccessAlwaysEarned`, `PostedScoreStays` follow.
A second part classifies the steps by what they do to rows and
containers, and proves `DeletedForGood`, `EndRemembered` and `ContractKept`, the
refinement: each step maps to a step of the contract or a stutter. `PeersSpared`
rests on `OwnOnly`: what a worker that shuts down has still to stop carries its
boot id, for a label is given once and lost only when its process has ended.

*WebhookQueue.* `QInv` relates rows and invocations: while nothing has gone
wrong, a row is processing exactly as long as one invocation holds it
(`CalmEvent`), what an invocation has read is still true where it matters
(`CalmTask`), and a counted retry was recorded (`RetryInv`). Since every step
but a crash touches one invocation and one row, `LocalStep` states once what
such a step owes, and each action's lemma discharges it. `QueueInvariance` gives
`QueueTypes`, `CalmDispatchesOnce`, `SettledOnlyTruly`, `RetriesAreCounted`;
`CalmKeepsOutcome` is the action property. `QueueContractKept` is the refinement:
in calm each action has a lemma that names the step of the contract it is
(`DeliverRecords`, `ClaimHolds`, `DispatchWorks`, `SettleFinishes`,
`FailGivesBack`) or shows it to be hidden, where `CalmEvent` says that who
settles or fails a row is its only holder, and `CalmTask` that what it has read
is still so; otherwise `RowsStay` and `SettledTruly` are all that is asked for.

*EventStream.* Every event anybody holds is a fact about the log: its line is
not blank, and its id is the number of such lines up to it. A reader's count is
the number of lines before its place. Hence `IdsAreFacts`: two readers that
number independently agree. For `NoLineUnread`, every line a reader has passed
is in the table, in its own hands, or dropped, and a reader that is through with
the log is at its end, with the container down so that nothing is added, unless
the log was cut off under it. None of this depends on whether the container is
still there when a drain asks for its log. `PageIsClient` shows each step of page and stream to
be one of the stream or to leave it alone.
For `PageMissesNothing` (`NothingSkipped`) the invariant `ShownInv` says that
the three offsets a page may resume at each stand for a prefix of the lines, all
shown; that the wire carries the lines after what is shown in their order; and
that whatever the page's connection has passed over is shown, or on the wire.
`PageIsFeed` is the refinement of `Feed`. Only two kinds of steps are visible
there: a line that is written (`FeedPage` and the stream's lemmas), and a frame
that is read (`FeedRead`), where `ShownInv` gives what `Feed!Show` demands, that
the frame's line is in the log and that those before it are shown already.

*Runner.* `RInv` joins the types and both exit properties with `Early`: during the
set-up there is no FIFO, so that what `mkfifo` finds at its path can only be the
regular file of a message that came early. From it follow `ErrorsHaveReasons` and
`SuccessWasAskedFor`. `LinesKept` is inductive with the types: each step does one
of three things to `turns \o pipe`. It leaves it alone, drops a blank line from
the pipe, or appends a message that is thereby written at its end. A line that moves from the pipe to the turns is of
the first kind, because concatenation is associative. Order and completeness are
stated about positions, not about `SelectSeq`, so no induction is needed.

*Tokens.* `NoNeedlessLogin`: in peace, cookie and version agree wherever a
refresh token is in use, so no refresh is denied. `RevocationLasts`: what a logout revokes
while alone stays below every version that is written afterwards, since each
logout that read earlier has ended.

*Installations.* `OrderSuffices` needs to know, of the event being dispatched,
that the row shows what was told before or after it, whatever its dispatches
have read. `HistoryInv` ties what is told to the truth: each delivery tells what
its action says, one without a handler nothing, and nobody is told of an end
before it has come or kept from it (`TellsTruth`). `GoneForGood` that a row is inserted only where there is none;
`SettingsAreKept` that handlers write columns of their own.

*Credentials.* `RotationCompletes`: a row that was stored while a run was under
way is under the primary key already, one that it has read is rewritten or
reported, and a deployment ends the run. `NothingLocked` follows with the order
of the operator's steps.

*Connections.* `SemaphoreSuffices`: with fewer slots than connections, and every
holder waiting, only a replay could hold one and wait; at most as many as there
are slots do, and then a connection is left. `CommentsAreAccounted` counts
posted comments against lost answers. `StepsAreBounded` and `RanksAreNatural` are
the safety half of `TasksEnd`: every step lowers the rank of the task that takes
it and of no other one raises it, and ranks are natural numbers. What is left to
TLC is that something always steps while a task has not ended.

*Only model-checked:* `SessionsEnd`, `EventsSettle`, `StreamsFinalize`,
`PageSettles`, `CallsSettle`, `MirrorsInTheEnd`, `MessagesAnswered` and
`TasksEnd`, since liveness under fairness is beyond the prover. Every other
property of a passing run is a theorem: all state invariants, all action
properties and the three refinements.

## What the code does not keep

Two runs must find a violation; `PROJECT.json` quotes the line that says
otherwise.

| run | what happens |
|---|---|
| `claim_abort` | a stopped session is reported COMPLETED: the finalizer read RUNNING before CANCELLED was committed and sees the stop's exit 0 |
| `claim_rotation` | the rotation script writes back a credential it has read before a request stored another: the new one is lost |

The models allow the following as well, since the code does; no property denies
any of it.

*Sessions.* The results of a session may be posted to the pull request and
rolled back in the row: the comment goes out inside the transaction, and the
commit may fail, or be cancelled by the client's leaving (`service.py:371`). The
finalizer then says FAILED or is repeated, and the comment may go out again. A
client that leaves after the finalizer has removed the container and before it
commits leaves a drain that finds no log; the session stays RUNNING until the
expiry loop ends it. The second of two viewers is told FAILED for a session that is
COMPLETED (`service.py:378`). A booting worker fails a session whose container a
peer has just started and not yet committed (`cleanup.py:85`). The expiry loop
writes TIMEOUT over a session COMPLETED since it was read (`cleanup.py:38`;
`docs/architecture.md:217` has it otherwise). A worker's shutdown leaves a
container of its own running, because its row was cancelled before its start was
committed (`cleanup.py:59`, against `main.py:152`). A start may write RUNNING
over a row that has ended meanwhile (`service.py:197`); a crash between docker
start and the commit orphans a container, and so does a docker stop that fails at
a timeout; a shutdown may write CANCELLED over COMPLETED.

*Queue.* A PROCESSED delivery may become FAILED and be dispatched again
(`webhook/repository.py:202`, against lines 129-130): recording a failure looks
at no status. With faults a delivery may create more than one session.

*Stream and page.* If the log is cut off while the container runs, the finalizer
of that stream waits for the exit and then looks for the scorecard in a history
without the lines after the cut (`streaming.py:70-72`), unless another reader has
stored them. A page whose poll is answered PENDING, because the opener has not
committed yet, does nothing more and waits for ever
(`ContainerSession.tsx:236-246`). The offset in the URL wins over `Last-Event-ID`, so that a
reconnection after more lines shows some of them twice. A page is told "done"
whatever the session's end was and shows it as completed; an error while
finalizing is reported as a failed session whose row may still be RUNNING.

*Tokens.* Two overlapping logouts count as one, and the tokens of a login
between their reads and their writes stay valid. Signing out on a page calls no
endpoint, and a refresh that is answered later signs it in again. A late answer
may put an older refresh token over a newer one. A 429 or 5xx to a refresh sends
the user to the login.

*Installations.* "created" dispatched after "deleted" fails until it is
abandoned; "deleted" dispatched before "created" leaves an active row for ever.
Of two deliveries that insert the same installation, one ends with an error after
its rollback and is tried again. Handlers are registered for "suspended" and
"unsuspended", while GitHub names these actions `suspend` and `unsuspend`: such
deliveries are ignored, and a suspension is never shown. A setting or a Claude key may be stored for an
installation that was uninstalled after it was looked up.

*Runner.* A message that is written before `mkfifo` makes a regular file; then
`mkfifo` fails after `trap - ERR`, and the runner leaves with one and without an
error event, while the API has answered "Message delivered to container"
(`entrypoint.sh:26-29` and `docs/architecture.md:265` promise the event). A
SIGTERM while Claude is at work is not handled before the grace period ends, so
the exit code is 137; one during the set-up exits zero. A message of several
lines becomes several turns.

*Connections.* The framework closes a request's session after its background
tasks, and `create_event` opens a new transaction when it reads the delivery
back (`webhook/repository.py:98`): a webhook request holds a connection through
its dispatch, which `webhook/router.py:62-63` takes pains to avoid. As many
requests as there are connections can wait for one another until the pool's
30 s have passed, and a failure to record a failure is lost until the reaper
comes. A backlog of ten replays, each with its second connection, may check out
the whole pool (`main.py:47-52`), though it cannot block itself. An answer that
is lost makes a second comment.

## Not modelled

- `webhook/verification.py`, `installation/anthropic.py` apart from its verdict,
  the access checks of `github.py` and the installation tokens: stateless checks
  of one request.
- The paged listings of GitHub, installations, sessions and dashboards: reads
  without state, for which the only question, whether each item is listed once,
  depends on what GitHub returns between two pages.
- `scorecard.py`, `pr_comment.py`: parsing and rendering of text. Whether a
  scorecard is found is a choice of `SessionLifecycle`.
- The order of the lifespan's exit stack as a whole: a worker that goes down runs
  its shutdown job, and what it had under way is cut off.
- Suppression by labels: a predicate of one delivery.
- The OAuth state check, user statistics, return URLs: no state that two steps
  share.
- Requests other than webhooks in the pool: each holds one connection and waits
  for no second one.
- On the page, sending, stopping and the rendering of messages: they change
  neither the stream nor its offset. (`handleSendMessage` takes a 502 for the
  end of the session; `loadStoredEvents` after a live view lists messages again.)
- Configuration, logging, middleware, exceptions, admin views, migrations, web
  components: no protocol state. Rate limits are kept by a library; a refused
  stream or refresh may be one.
- Skills: prompts.
- In the queue: the limit of 200 rows per replay (the rest waits for the next
  tick) and the ten-second discovery timeout (a tick that finds nothing).
