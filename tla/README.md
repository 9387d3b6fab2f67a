# A TLA+ model of Nexus AI Gateway and Switchyard

TLA+ modules for the parts of this repository whose correctness depends on
concurrency, failures or order, TLC configurations that check them on small
instances, and theorems about them proved with TLAPS. `PROJECT.json` lists the
components, the runs, which source lines each definition stands for, the
hazards and the theorems.

## The system

Nexus AI Gateway (`cmd/gateway-api`, `internal/`) is an HTTP service: an
OpenAI-compatible chat endpoint in front of several providers, with API keys,
tenants, rate limits, failover, an audit table, and a queue of remote tasks.
Switchyard (`cmd/switchyard`) and its predecessor (`cmd/nexus-cli`) are terminal
clients: they chat through the gateway, apply the edits a model proposes to the
working tree, and work off remote tasks. State that outlives a request is in
PostgreSQL and Redis, in files under the user's home, and in the git repository
the client runs in.

| Component | State | Operations | What is hard | What makes it correct |
|---|---|---|---|---|
| Rate limiter (`ratelimit`, `storage/redis`) | one Redis counter with TTL per bucket | `Check` | pipelines of concurrent calls interleave; retries after a broken connection; expiry; bucket boundaries | no two calls share a count; a bucket never lets more than its limit through; a counter in use is not dropped |
| Task queue and workers (`handlers/tasks.go`, `task_repo.go`, `daemon.go`) | table `tasks`; each worker's polling loop | create, list, claim, complete; poll, execute, report | several workers, lost and late requests, statements that fail, crashes, no lease | a task's work starts at most once; the outcome shown is the one the work had; only faults orphan tasks |
| Routing engine (`routing/engine.go`) | the provider registry, fixed at start-up | `RoutePlan` | decision order, concatenated and deduplicated pools | a chain reaches every provider, in the right order, starting with what was asked for |
| Chat gateway (`handlers/chat.go`, `request_record_repo.go`) | one handler and one saving goroutine per request; table `request_records` | authenticate, limit, plan, call, fail over, record, reply, save, emit | providers fail and recover, clients leave, saves race replies, rows are upserted, the process ends | failover neither stops early nor skips; the audit tells what the client was told; every success is metered |
| API keys (`auth`, `api_keys.go`, `api_key_repo.go`) | table `api_keys`; a five-minute cache in Redis | validate, create, revoke | cache fill races revoke and expiry | a revoked key stops working within the cache's TTL |
| Tenants, organizations, projects, provider connections | tables | create, get, suspend | reads of two tables | an inactive tenant is refused |
| CLI provisioning (`auth_cli.go`) | the same tables | first login, rotate | concurrent first logins and rotations; a failed revoke | logins do not make each other fail; a rotated key is retired, and its user is not left without one |
| Provider adapters (`provider/*/adapter.go`) | per stream a goroutine, its counters and a channel | `Chat`, `StreamChat` | connections that break midway, a full channel, a reader that leaves | a stream is the answer in pieces; its goroutine ends |
| Edits and safety (`tools.go`, `safety.go`) | the working tree, git, `LastCheckpoint` | parse, apply under a policy, checkpoint, roll back | one edit of several fails; questions; two loops in one tree without a lock | no file changes that the policy did not let change; a rollback leaves what git tracks |
| Sessions and budget (`switchyard/main.go`, `nexus-cli/main.go`) | the conversation, the policy, totals | prompt, `/policy`, `/clear`, `/rollback`, run, daemon | the chat and its background listener share everything | a turn ends; the policy in force is the one that counts |
| Web login and credentials (`login_web.go`, `main.go`) | two credentials files, a result channel | login, keys, logout, callback, timeout, shutdown | callbacks, timer and signal race; files are written without a lock, and one tool reads the other's | success is said of a key that was written out; each tool finds its last login |
| Usage, requests, models endpoints; observability, configuration, completion, migrations | reads, or nothing the program decides by | | | |

Components call each other as follows. A client sends `POST
/v1/chat/completions`; the chat handler asks the validator, the tenant
resolver and the rate limiter, reads the policy, has the routing engine plan a
chain, calls adapters until one answers, starts a goroutine that saves the audit
record and emits the usage event, and replies. The task queue is separate: the
web UI creates tasks, workers poll, and what they execute is again a chat
request and the edits in its answer. An interactive chat is such a worker too:
its listener runs beside the prompt, in the same tree and on the same terminal.

## Modules

| Module | Stands for | Notes |
|---|---|---|
| `RateLimit` | `Limiter.Check` and `Client.IncrementWithExpiry` | `Arrive` reads the clock and the bucket, `Incr` and `Expire` are the two Redis commands, `Decide` compares, `Disconnect` breaks the connection at any of these points and either retries the pipeline or fails open |
| `AtomicLimiter` | what `Check` promises | the abstract specification: one counter per bucket, charged in a single step and never dropped; no Redis, no clock |
| `RateLimitProofs` | | invariants of `RateLimit` for all parameters, and that it implements `AtomicLimiter` |
| `TaskLifecycle` | what the queue promises of a task | the abstract specification: submitted, assigned once, settled once |
| `TaskQueue` | the handlers and SQL statements of the queue, and the workers | one action per statement and per step of the polling loop; `late` holds requests whose sender gave up waiting |
| `TaskQueueProofs` | | invariants of `TaskQueue`, and that it implements `TaskLifecycle` |
| `Routing` | `RoutePlan`, `analyzeComplexity`, `deduplicateCandidates` | operators only, none recursive |
| `RoutingProofs` | | what the chains hold and in which order, for any registry, policy and request |
| `ChatGateway` | `ChatHandler.ServeHTTP`, `saveAndEmit`, the audit upsert, shutdown | one action per step of the handler at which others can interfere |
| `ChatGatewayProofs` | | invariants of `ChatGateway` for all parameters |
| `KeyAuth` | `Validator.Validate` with its cache, `Resolver.Resolve` and the scope check, the `/v1/api-keys` handlers, first login and rotation of a CLI key | one action per statement on PostgreSQL and command to Redis; time as what is left of each period |
| `KeyAuthProofs` | | invariants and action properties of `KeyAuth` for all parameters |
| `ProviderAdapter` | `Chat` and `StreamChat` of the three adapters, the request they build, `resolveAPIKey` | the provider's lines and the reader are external |
| `ProviderAdapterProofs` | | types, and that what a stream says is what the answer says, for all answers |
| `Workspace` | `ApplyEditsWithPolicy`, checkpoint and rollback, `PromptAndApplyEdits` of nexus-cli | actions of any number of loops; has no `Next` of its own |
| `Session` | the chat loops, one-shot run, daemon and background listener | composes two loops over one `Workspace` |
| `SessionProofs` | | invariants of `Session` for any files, edits and answers |
| `CliLogin` | `StartWebAuthFlow`, `loadCredentials`, `saveCredentials` and the commands that call them in both tools | one action per step on a file, and per step of the web login |
| `CliLoginProofs` | | invariants of `CliLogin` for any number of jobs |
| `MCRateLimit`, `MCTaskQueue`, `MCRouting`, `MCChatGateway`, `MCKeyAuth`, `MCProviderAdapter`, `MCSession`, `MCCliLogin` | | instances for TLC. `MCRouting` extends `Routing` with the reference definition; `MCChatGateway` composes `ChatGateway` with `Routing`: its chains are those `RoutePlans` returns |

Definitions that follow a comment `Mutant:` are wrong variants of the definition
below them. None is part of a specification; each shows that the property it is
paired with in `PROJECT.json` can fail.

### How state and actions correspond to the code

*RateLimit.* `count[b]` and `deadline[b]` are the value and the expiry of the
key `ratelimit:<scope>:<id>:<b>`; a `call` record is a goroutine inside `Check`,
its `ticket` the reply of INCR. A pipeline is not a transaction, so `Incr` and
`Expire` are separate. `Tick` advances the clock; `MaxDelay` bounds how long a
call can hang between reading the clock and its last command, as the Redis
client's timeouts do. The assumption `TTLAssumption` is the code's doubled
window: the TTL covers the bucket and that delay. `ImplementsLimiter` maps this to
`AtomicLimiter`: `count` is what a bucket was charged, INCR is the charge, `Standing`
forgets at which Redis command a call is. EXPIRE and the clock are stutters, so
that Redis drops keys must not show: it would if an INCR could meet a dropped key
of its bucket.

*TaskQueue.* `row` is the table; a `worker` is a process in
`PollAndExecuteSingleTask`, `pc` the request it waits for or the work it does.
`HandleClaim` and `HandleComplete` are the handlers with their one statement; in
`StatementFails` the store reports an error, whether or not the statement took
effect, and the answer is 500: a worker gives up the task after it, as the daemon
does. `Timeout` ends a poll while the request may still reach the gateway
(`HandleLate`) or not (`Lose`). `Crash` and `Restart` forget the worker's memory.
`runs`, `verdict` and `struck` are history; `struck` has the pairs of a task and the
worker that a fault (a timeout, a crash, an error of the store) hit while it held
that task, so that an orphan can be traced to a fault of its own.

*Routing.* A prompt is the set of features `analyzeComplexity` tests. A model
name belongs to the family of its prefix. `RoutePlans` is a set because of one
choice: without any built-in provider the code takes the first value of a map. The
loops that filter and deduplicate are `ElementsAt`: a sequence's elements at the
positions that qualify, in their order.

*ChatGateway.* Variables are functions of the request. `stage`, `id`, `plan`,
`failed`, `lastErr`, `outcome`, `reply` and `link` belong to its handler, `job`
and `saved` to the goroutine of `saveAndEmit`; `rows` is the table and `working`
the candidates whose providers answer at the moment. `Refuse` stands for all
early returns, which leave no record. `CallFails` and `CallAnswers` are the two
ends of a turn of the failover loop, including what follows the loop up to the
start of `saveAndEmit`. `LinkBreaks` is a client that leaves (the context is
cancelled) or the server's write timeout (it is not). `Restart` is the end of
the process, orderly or not, and a new one. `steady` is history: the candidates
that worked ever since the request came in.

*KeyAuth.* `row` is table `api_keys`, `tenant[u]` the statuses of user `u`'s
organization and project, `cache` the entries `apikey:<hash>`, a `call` a handler
at work on a chat request, a rotation or a login. A cached or read copy of a key
is its status, since no statement updates another column that admission reads.
`Fill` caches before it judges and judges what was read, as the code does.
`CacheMiss` is also a Redis that does not answer. A failed INSERT may have been
executed (`InsertKey`, `Insert`); that of `POST /v1/api-keys` is then `Create`,
whose answer no state depends on. `SetStatus` is an operator: the repositories
can update statuses, and no handler does. `Tick` takes one off every period;
clocks of the gateway and of Redis run alike. A login starts with a token that
Supabase accepted. `revoked`, `met` and `barred` are history: when and during
which fills a key was revoked, what was active since a request came in, and what
already spoke against its key then.

*ProviderAdapter.* One call. `kind` is the adapter, `pc` the call and then the
goroutine: reading a line, sending a chunk, sending an error. `Lines` is what a
provider sends for an answer; it is external, written from what the adapters
parse. A text is the number of its part, so order and loss can be told. `ReadLine`
is one turn of the scanner's loop, `Send` and `SendCancelled` the two cases of
the select around a chunk. `SendError` has no select, as in the code: `Stuck` is
the goroutine that waits there with nobody reading. `Prompt` is the role each message
is told with, by its place in the client's list. `Leave` and `Cancel` are the
reader and the request's context.

*Workspace and Session.* `pc[a]` and `batch[a]` are the place and the local
variables of `ApplyEditsWithPolicy` in loop `a`. A content is the set of texts a
file has, an edit replaces one. `CreateGitCheckpoint` keeps the disk it was taken
of, which is what its stash commit has. `ApplyRead` and `ApplyPatch` are the two
halves of an edit, between which anybody may write; `WriteFile` may fail before
or after it has truncated. `Hear` is a line from the terminal: any line may reach
either loop, since both read one input. `CheckpointFails` lets the edits go on
without one. `RollbackCheckout` and `RollbackClean` are the two git commands.
`ParseProposedEdits` keeps the order of the code: all edit blocks, then all write
blocks. Which policy a chat starts with is in `Init`, with the rule that the
configuration replaces the default. `rolled` and `since` are history: whether the
last rollback said SUCCESS, and what was written since its checkout. `disk` changes
by the session only: what another program writes is not modelled.

*CliLogin.* A `job` is a command of either tool or the handler of one callback;
`pc[j]` is where it stands in load, truncate, write, report. `draft[j]` is what it
will save: that is all of a command's memory that matters. `Truncate` and `Write`
are apart, as `os.WriteFile` opens, truncates, and then writes. Where another job
wrote in between, the longer text's end may stay (`WriteGarbled`), which no writer
notices; where nexus-cli's logout removed the file, the text goes nowhere
(`WriteNowhere`). `Load` is switchyard's loader, which takes nexus-cli's file where
its own cannot be read, `NexusLoad` that of nexus-cli, which knows its own only.
`login`, `results` and `outcome` are `StartWebAuthFlow`: its select, its channel with
room for one, its result. `Exit` ends the process with the handlers that `Shutdown`
left. A callback whose key comes after the timeout still saves it. Of the
credentials only the gateway's key is kept.

History are: `race[j]`, what others did to the file of job `j` while it had it open;
`saved` and `spoilt`, the keys callbacks wrote whole and those they wrote over another
job's text; `inForce[f]`, the key of the last login or logout of the tool whose file
is `f`, set from what was entered and never from what a file holds; and `astray`, the
files that need not hold it. Switchyard without a file of its own has "borrowed" in
force, whatever nexus-cli has. A `keys` command of such a switchyard saves the borrowed
key as its own: from then on nexus-cli's logins and logouts pass it by. A file goes
astray in three ways only, a write over another job's, a write that breaks off, and a
`keys` command that had loaded its key before another's login was through (or in the
midst of it); the next login sets it right. Each of the three does lose a login in
the code, and without any one of them `LoginSticks` is violated.

## Runs

| Run | Instance | What it shows |
|---|---|---|
| `rate_limit` | 4 calls, limit 1, window 2 ticks, 5 ticks, 1 broken connection | `BucketLimit`, `TwiceTheLimit`, `NoEarlyRefusal`, `CounterOutlivesBucket`, and refinement of `AtomicLimiter` |
| `sliding_window` | the same without faults | violated: two calls around a boundary both pass within one window of limit 1 |
| `task_queue` | 2 tasks, 2 workers, 2 faults | at most one execution, true outcomes, refinement of `TaskLifecycle`, and progress: a pending task is taken, a running one settled, unless a fault of its own worker orphans it or a terminal prompt stays unanswered |
| `routing` | every subset of four providers, 21 models or presets, all 32 prompts, policies of up to two candidates | the chain against the reference: complete, in rank order without repetition, led by what was asked for |
| `chat` | 2 requests of 2 projects, 2 ids, a chain of 2 candidates, 2 faults | failover is exhaustive and justified, the audit row agrees with the reply, handlers end, every success is metered |
| `chat_audit_row` | the same | violated: see findings |
| `key_auth` | 1 user, 2 keys, 2 calls, a cache of 1 tick, an expiry of 2, 1 fault | a revoked key is refused once the cache is out of date, admission is justified, logins do not collide, rotations retire keys and lock nobody out |
| `rotation_revokes` | the same | violated: see findings |
| `stream` | the three adapters, answers of up to three parts with an empty one, a channel of 2 | what the reader gets is the answer in order, without loss, with its usage; the goroutine ends but for one leak |
| `session` | a chat of 2 prompts or commands, a listener with 1 task, 3 files: tracked, untracked, ignored and protected | `PolicyIsKept`, `NoEditSurvivesRollback`, `EveryTurnEnds`, in every mode of both tools |
| `rollback_restores` | the same | violated: see findings |
| `login` | 3 jobs, 2 keys, one of which either file may hold at first | a web login's success names a key that was written out, each tool's loader finds the key of its last login unless a file went astray, a web login returns |

Why the bounds are enough. Calls of the limiter interact through one key, so two
of them in a bucket and one in its neighbour show every interference; four calls
with limit 1 fill both sides of a boundary and be refused on each. A claim is
contested by two workers; a second task shows that a worker goes on, and two
faults allow a late claim together with a crash, a lost reply on both tasks, or a
claim whose statement fails after it took effect and then a report that fails.
Chat requests share the audit table and the providers' state only, so two of
them show every interference; two candidates give a first, a last and a failing
one, and two faults exhaust the chain, or lose a record and a client. Routing's
domain has names equal to and different from the pools' for each family. Calls
of `KeyAuth` interact through one key or one tenant: two of them race a fill with
a revocation, a login with a login, a rotation with a request; a limited key of
two ticks outlives a cache entry and then expires in the cache. Two rotations of
one key both find it active, but only one of them can be given the second key:
that both succeed is left to the proof, which holds for any number of keys.
A stream's chunks differ by number only: three parts and their end overfill a
channel of two, so that each kind of chunk, the error too, meets a full channel;
an empty part stands first to last in some answer. Loops of a session interact
through a file, the terminal, the checkpoint and the rollback; the chat's two turns
allow answer and rollback, or a change of policy and an answer, with a task at any
point between. The three files tell what `git checkout` restores, what `git clean`
removes and what neither touches; an answer with two edits has one to block and
one to apply, and starts in a dirty tree. Jobs of `CliLogin` interact through a
file and the channel: two overlap, a third is the command that finds the result,
the logout or `keys` command between them, or the callback that finds the channel
full.

In the `CHECK_DEADLOCK FALSE` runs the system may stop: all calls answered, all
tasks settled, all requests served, the process ended.

### Fairness

`TaskQueue`: the gateway handles what it receives, a worker's ticker keeps
ticking, and whoever runs a worker starts it again after a crash. Nothing is
assumed of terminal prompts, late requests or faults. `ChatGateway`: every
runnable goroutine runs, and calls of providers and the database return, because
the adapters' HTTP clients and the server have timeouts. Nothing is assumed of
clients, providers or restarts. `ProviderAdapter`: the client's timeout bounds
reads, the goroutine is scheduled, a reader that has not left reads on, and the
context of a request ends once its reader has left; nobody need leave or cancel.
`Session`: each of the two loops goes on, because requests have timeouts and the
user answers every question in the end; prompts, commands and tasks need not
come. `CliLogin`: the five-minute timer runs off and so does `Shutdown`'s deadline
of a second; of browsers, commands and handlers nothing is assumed. `RateLimit` and
`KeyAuth` have no liveness property.

### Findings

* **The limiter is not a sliding window** (`sliding_window`). The package comment
  (`limiter.go:1`) and the README promise one; the key is the clock divided by
  the window, and up to twice the limit passes around a boundary. That bound is
  `TwiceTheLimit`, checked and proved.
* **Requests without an id share one audit row** (`chat_audit_row`). `chat.go:122`
  generates an id with `NewRequestRecord("", "").RequestID`, which is `""`. The
  upsert on `request_id` then keeps the first project and overwrites the outcome,
  across projects.
* **A rotation can leave the old key active** (`rotation_revokes`).
  `auth_cli.go:263` discards the error of `Revoke` and answers 200 with a new key.
* **Rollback loses uncommitted work** (`rollback_restores`). `safety.go:143` runs
  `git checkout -- .` and `git clean -fd` and never applies the checkpoint's stash
  commit: tracked files come back from the index, untracked ones go. The comment
  promises the state before the task, and so does the chat's message.

Seen while modelling, without a run, since their statement would repeat one line
of the code:

* **Failed requests are all recorded as `internal_error`** (`chat.go:318`): `CodeOf`
  knows `domain.Error`, the adapters return `provider.ProviderError`.
* **`FallbackPolicy` is not read** (`chat.go:274`): `MaxFallbacks` and
  `EligibleOnStatus` are stored and ignored; any error moves on, to the last candidate.
* **The budget is checked against an estimate only** (`switchyard/main.go:922`); what
  a request really cost is shown and stops nothing.
* **`/caveman off` has no effect** (`switchyard/main.go:947`): without the header the
  gateway takes it as on.
* **A web login can report saved credentials that no loader can read**
  (`login_web.go:199`): two callbacks, or a callback and a command, write the file at
  the same time, and what stays is one text with the end of another. These keys are
  `spoilt`.
* **Streams are not normalized, nor used** (`gemini/adapter.go:313`): Gemini's drops a
  last candidate without text and its usage with it, Anthropic's always ends with
  `stop`, and no handler calls `StreamChat`. `TellsUsage` and `AnthropicLine` say so.

## Proofs

`RateLimitProofs`. Assumed are the named assumptions of `RateLimit`. The
inductive invariant adds to type correctness that a live counter is at least the
highest ticket handed out in its bucket, that a call still to increment a bucket
finds its counter live if it ever existed, that tickets of one bucket differ,
and that a bucket's deadline covers it. Without the clause about deadlines
uniqueness is not inductive: a counter dropped early starts again at one. From
it follow that tickets are unique, `CounterOutlivesBucket`, and, by counting distinct
tickets in `1 .. Requests`, `BucketLimit`; a stretch as long as the window meets
two buckets, which gives `TwiceTheLimit`. `NoEarlyRefusal` counts in the other
direction: a counter is at most the number of calls that hold a ticket of its
bucket (`Holders`) plus that of broken connections (`Charged`), because a call loses
its ticket only to a broken connection. The refinement `ImplementsLimiter` goes step
by step: INCR is the only one that needs the invariant, because INCR counts from the
counter or from one, and only a live counter, or one never charged, makes both the
same. It implies that tickets are unique, which therefore is no property of a run.

`TaskQueueProofs`. Assumed are the named assumptions of `TaskQueue`. The
inductive invariant says who holds a claim that has not been heard of yet: a
running row has at most one executor, a claim answered "ok" belongs to the row's
worker, a late claim's sender never executes, and a late report belongs to work
that has ended. From it follow the five safety invariants, and that every step
of `TaskQueue` is a step of `TaskLifecycle` or leaves it unchanged: in
particular a report, late or not, only ever meets a running row, although
`Complete` does not check. `NoOrphanWithoutFault` needs more (`Attended`): a running
row's worker has been told of that very task or is at work on it, or was struck while
it held it, and so was the sender of every late request; a fault of another worker or
task is no excuse.

`KeyAuthProofs`. Assumed are the named assumptions of `KeyAuth`. `RevocationTakesHold`
is far from inductive: it speaks of requests, and what makes it true is the cache.
The inductive invariant therefore says of every key that, once it was revoked
during no fill, nobody is about to cache it as active (`Quiet`), and what is
cached as active expires no later than a TTL after the revocation; and of every
request whose key had been revoked that long when it came in, that it never holds
an active copy (`Barred`). `Replaces` says the same of rotations: who issues a key
has revoked one. `NobodyIsLockedOut` is inductive together with these. One lemma,
`Step`, treats every action that changes some calls, adds fresh rows and fills
cache entries; the actions are its instances, but for revocations and ticks.

A second invariant, `Sure`, goes on from that one. It has four parts: a
user with a key has a project, and a user with a project an organization (`Rooted`);
what is active now of a request's tenant is in `met`, and a key that had expired when
the request came in still has (`Asked`); how much of `met` a request at each place
relies on (`Checked`); and that a login goes on only from a part that is there
(`Founded`). `AdmissionIsJustified` follows from `Checked`, `LoginsDoNotCollide` from
`Founded`. Most actions only add rows (`TenantsGrow`, `RowsGrow`), and the lemma
`Stays` treats those; `SetStatus` is treated by itself.

`RevocationIsFinal` is about steps: nothing makes a revoked or expired key work
again, renews the grace of a revocation, gives a key to somebody else or removes a
row. `RevocationTakesHold` bounds what a key admits after one revocation; this
says there is no way back from it. The INSERTs are where it could fail: they must
write rows that were absent, which the invariant says of each call that issues.

`ChatGatewayProofs`. Assumed are the named assumptions of `ChatGateway`. The
properties speak of replies and rows; the invariant carries what they say through
the handler. `Flow` says how far a request is and that a successful outcome is that
of the candidate after the failed ones; `Told` that a reply tells the outcome;
`Tried` that those who failed a client that is still there are not steady, for
which `steady` must be part of `working`; `RowsOK` that a row under an id used once
is that request's, at every stage of the race between reply and save.

`ProviderAdapterProofs`. Assumed are the named assumptions of `ProviderAdapter`.
`StreamIsFaithful` is about the end of a stream. The invariant holds at every line:
what was sent is in order, and lines to come are later (`InOrder`); what was read
was sent or is about to be, while nothing was cancelled or failed (`NothingLost`);
the usage is collected by the last line and told with it (`UsageTold`); a reader
that is done has emptied a closed channel (`Ended`). Lemmas on `Lines` say which
line has which part, for each adapter. `TypeOK` follows with what `Prompt` makes of any
conversation: roles the provider knows, one for each message it is to have.

`SessionProofs`. Assumed are the named assumptions of `Workspace` and `Session`.
`PolicyIsKept` is an action property; it needs that whatever a loop has decided to
apply its policy permits (`LoopsOK`), for the file it is at, and that the policy in
force does not change while the chat applies an answer (`PolicyStays`): a policy
change is a command at the prompt, so a turn must be over. `RollbackOK` holds
between the two git commands what checkout restored, unless written since. The
rollback's theorem also says what may come under that exemption: only a file that a
loop writes, in the very step that writes it. The write-back of what the listener had
read before the rollback is one of these, and does bring an old edit back: the code
has nothing against it.
`HistoryOK` and `CountsOK` complete the types.

`CliLoginProofs`. Assumed are the named assumptions of `CliLogin`. `LoginSticks`
speaks of moments when nobody writes; `FilesRight` carries it through the others: a
file that nobody has open and that has not gone astray holds the key in force, and
switchyard has none of its own while it borrows. A `keys` command is what makes this
more than a look at single steps: it saves a key it loaded long ago, so `DraftsRight`
says that this is the key in force unless another job came in its way, and the lemma
`LoadRight` that the loader finds it. `SuccessIsSaved` follows from what the channel
may hold (`WebOK`) and what a callback that reports has written (`JobsOK`).

`RoutingProofs`. Nothing is assumed of registries, models or prompts; a policy is any
sequence. What the code does in loops, `ElementsAt` says by counting: the n-th element
kept is the one at the position with n positions kept up to it. The lemma that this
enumerates the positions in increasing order and leaves none out rests on
cardinalities of finite sets, so no induction over data is needed; what a chain holds,
and in which order, are its instances. `DynamicChainIsSound` says it of all
registries, models and prompts, `PlansAreServable` of all plans: it discharges what
`ChatGateway` assumes of its chains. The three properties of `MCRouting`, for which the
reference definition is the yardstick, follow; policies may have any length, and
registries any number of other providers.

*Updates of records.* Where a step changes two fields of one record, the modules
write `[f EXCEPT ![x] = [@ EXCEPT !.a = .., !.b = ..]]`. The equivalent `[f EXCEPT
![x].a = .., ![x].b = ..]` is avoided: tlapm 1.4.5 encodes it for SMT in a way that
contradicts itself, so that anything could be proved of it.

*Progress.* TLAPS does not do fairness or ENABLED, so that something happens in the
end is left to TLC. What it rests on is proved for all parameters: a measure that
every step of the actor lowers and no step of anybody else raises, so that an actor
can wait but not go round in circles. The theorems are `HandlersAdvance` (what is
left of the chain, and the reply), `RecordsAdvance` (save, event),
`NothingIsForgotten` (a known outcome has its goroutine), `PollsAdvance` (what is left
of a poll), `TurnsAdvance` (edits left, and the place within one), `StreamRunsDown`
(lines left to read, and the chunk at hand), `LoginAdvances` and `CallsAdvance` (at
most eight statements, and one answer). `OrphansStay` is the converse for tasks: an
orphaned one stays running for ever, as the queue has no lease, which is why
`RunningIsSettled` excepts it.

Only model-checked are the liveness properties `PendingIsTaken`, `RunningIsSettled`,
`EveryRequestIsAnswered`, `EverySuccessIsMetered`, `EveryTurnEnds`, `StreamEnds` and
`LoginReturns`: each needs that a fair action is enabled while the measure is not at
its end. Every invariant, action property and refinement a passing run checks is also
proved.

## Not modelled

Logging, metrics, configuration, terminal presentation and completion, HTTP
routing and JSON are left out: no other state depends on them. The usage, requests
and models endpoints read tables that others write. The endpoints of
organizations, projects and provider connections are single statements. Postgres
statements are taken as atomic, Redis commands too. Clocks of gateway and Redis are
one. Of the terminal clients, prices, costs, statistics, presets and the expansion
of `@mentions` are not modelled: they fill the text of a request or of a report. A
refusal for the budget is one of the ways a prompt fails (`Session!SendFails`). The
streams have no reader in this repository; the model takes any.

## Plan

Modules were written in the order of what is at stake: the limiter and the task
queue, routing and the chat gateway, keys and provisioning, then the clients'
edits, sessions and logins, and the adapters. Theorems followed in the same order:
types and invariants, then refinements, then what is final and what advances. What
is left to model is the budget, once the code charges what a request cost. What is
left to prove is about components together: `PlansAreServable` states of sequences what
`ChatGateway` assumes of its plans, and TLC checks both together in `chat`; a theorem
about the composed gateway would instantiate one with the other.
