# Caliber: TLA+ models, checks and proofs

Caliber is a hiring platform: a Go API (gRPC and Connect), a Go worker behind
asynq and Redis, Postgres, a language model behind an adapter, and a web client.
This directory holds formal models of the parts in which requests, tasks,
processes and failures interleave, TLC configurations that check them on small
instances, and proofs, checked by TLAPS, of the safety properties for every
instance. Paths below are relative to the repository root. `PROJECT.json` maps
every definition to the lines it models, and lists the runs, the hazards, the
theorems and, for every property, a plausible bug (a mutant) that breaks it.

    tlc -config interview_concurrent.cfg MCInterview.tla    # one run
    tlapm InterviewProofs.tla                               # one proof module

## 1. Inventory

| component | code | state | operations | model |
|---|---|---|---|---|
| Screening interview (Flow B) | `internal/app/interview`, `internal/domain/interview`, `adapters/outbound/postgres/interview.go` | `talent_interviews`, `interview_turns` | Start, Answer, ScoreAsync, finish, markScreened | `Interview`, `InterviewSession` |
| Job framework | `adapters/inbound/jobs`, `adapters/outbound/queue`, `app/queue`, `cmd/worker` | asynq's queues, claim keys in Redis, handlers | dispatch, wrap, runClaimed, Claim, Complete, Release, shutdown | `Jobs` |
| Erasure and retention | `internal/app/privacy`, `platform/wiring/eraser.go`, `adapters/inbound/grpc/privacy.go` | rows of five tables, contests and audit entries in process memory | DeleteMyData, Sweep, EraseCandidate | `Erasure` |
| Interview stream | `adapters/inbound/grpc/interview.go`, `web/src/hooks/useInterview.ts` | subscribers and buffers per process; client status, watchdog | subscribe, publish, StartInterview stream, SubmitAnswer, retry | `InterviewStream` |
| Talent Passport | `internal/app/profiles`, `postgres/profile.go` | `talent_profiles`, the intake in `candidates` | CreateFromCV, markScreened | `Passports`; its status also in `Interview` and `Erasure` |
| Candidate agent (Flow C) | `internal/app/candidateagent` | applications, audit entries | Run, TimeAdvance, RunAgent | `AgentRuns`; its writes also in `Erasure` |
| Contests | `internal/app/contest` | contests per process | Raise, Resolve | `Shortlists`; Raise also in `Erasure` |
| Audit trail | `internal/domain/audit` | entries per process | Append, TombstoneActor, query | as far as erasure concerns it |
| Identity | `internal/app/identity`, `postgres/refresh.go`, `memory/throttle.go`, `web/src/api/client.ts` and stores | users, refresh grants, failure counters; the tokens of browser tabs | Register, Login, Refresh, Logout, Provision | `Sessions`, `Accounts` |
| Roles (Flow A) | `internal/app/roles` | `roles` | Generate, Update, Refine, Delete | `Shortlists` (the status) |
| Matching | `internal/app/matching` | `matches` | GenerateShortlist, upsert | `Shortlists`, without the scoring |
| Dashboard | `internal/app/dashboard` | snapshot cache | snapshot, RefreshSnapshots | `Radar` |
| Rate limiter, interceptors | `adapters/inbound/grpc/ratelimit.go` | token buckets | AllowN, evictIdle, evictBatch | `Buckets`, `Limiter` |
| LLM, embeddings, cost guard | `adapters/outbound/llm`, `internal/app/cost.go`, `llmjson.go` | spend, alerts, slots | Complete through its layers, Record, DecodeJSON | `ModelCalls`; "may fail" elsewhere |
| Field encryption, key rotation | `adapters/outbound/fieldcrypto`, `platform/wiring/reencrypt.go` | encrypted columns | re-encryption pass | `Rotation` |
| Seeding | `platform/seed`, `cmd/reseed` | every table | reset, Load | `Seeding` |
| Log shipping | `platform/logging/loki` | buffer, timer, batches | Write, flush, Close | `LogShipper` |
| The rest | JWT and Argon2 adapters, migrate, backup, configuration, telemetry, other web pages, generated code, deployment | – | – | not modelled |

**How they interact.** The API reads an aggregate from Postgres, calls the model
for seconds, and writes the aggregate back; the worker does the same for tasks
that the API enqueued. The two processes share Postgres and Redis, and nothing
else: contest and audit stores and the interview broker are maps in the memory
of each process. The interview reads the passport's status and sets it; erasure
deletes what interviews, profiles and agents write; retention reaches erasure
through a task.

**What is hard, and what correctness means there.**

*Interview.* No write is versioned. `InterviewRepo.Update` replaces the row and
its turns by whatever a request read earlier, and `ByID` itself is two
statements. Two answers, an answer and a scoring task, or a request and an
erasure therefore overlap at every access. A stored interview must nevertheless
remain one that can be continued or read, its card must grade the transcript
beside it, and an erased one must not return. For a client that waits for each
response, the whole exchange must be a session: every answer recorded once,
against the question shown; one close; a card for exactly those answers.

*Jobs.* asynq delivers at least once; workers crash, deploys outlast the
shutdown timeout, leases are lost under running handlers, and calls to Redis
fail before or after taking effect. Claims must exclude overlapping handlers of
one task, a finished task must not run again, and no task may circulate for ever.

*Erasure.* Eight statements without a transaction, run from two processes and
repeated at will, race with requests that write about the same person. What is
erased must stay erased, reported success must be true, and one candidate whose
erasure fails must not keep retention from the others.

*Interview stream.* An answer's result travels on the server stream, not in the
reply of `SubmitAnswer`. The broker drops events when its buffer is full, replies get
lost, the watchdog gives up on questions that are still coming, and a new run may
start while events of the old one arrive. The page must ask what is pending, show
only its current run, and follow every recorded answer up.

*Login sessions.* A refresh grant is single-use and replaces itself, while tabs share
one `localStorage` entry and each keep a copy in memory; `Refresh` consumes, looks
the account up and saves in three statements. A login must never fork into two
lines of grants, and one that has ended must not come back.

*Registration and lockout.* Hashing takes long, and lies between the check of the lock and
the count of the failure; a user and its candidate are written by two repositories.

*Roles, matches, contests.* A shortlist takes minutes of model calls and then
upserts rows others refer to; editing a role and resolving a contest are unversioned
read-modify-writes.

*Passport and agent.* Uploads, screenings and retried agent runs overlap; each works
for a long time on what it read first, and writes whole rows or applies.

*Guards and caches.* Budget, buckets, snapshots and log batches are kept in memory
under a mutex that is released between the check and the effect. Evicting a bucket, an
old snapshot replacing a newer one, or a timer that fires while it is being stopped
must not be noticed by those who rely on them.

*Operator commands.* Re-encryption pages through a table in use and can be interrupted;
reseeding can fail anywhere and is repeated over what is left.

## 2. Modules

| module | what it is |
|---|---|
| `InterviewSession` | abstract specification: what a candidate may rely on |
| `Interview` | the interviewer, the repository and their callers, access by access |
| `MCInterview` | symmetry for TLC |
| `InterviewProofs` | inductive invariants, theorems and the refinement of `InterviewSession` |
| `InterviewStream` | the web client's hook, the stream handler and the broker |
| `StreamProofs` | theorems about `InterviewStream` |
| `Jobs` | asynq (external), the claim store and the handler wrapper |
| `JobsProofs` | theorems about `Jobs` |
| `Erasure` | the cascade, its two processes, concurrent writers |
| `ErasureProofs` | theorems about `Erasure` |
| `Sessions`, `Accounts` | refresh grants and browser tabs; registration, login and lockout |
| `IdentityProofs` | theorems about both |
| `Shortlists` | a role, its matches and the contests about them |
| `Passports`, `AgentRuns` | writers of a candidate's profile; executions of the agent |
| `CandidateProofs` | theorems about these two and `Shortlists` |
| `Limiter` | abstract specification: an allowance per key |
| `Buckets` | the token buckets, shown to implement it |
| `ModelCalls`, `LogShipper`, `Radar`, `Seeding` | budgeted model calls, the log writer, the snapshot cache, the reseed command |
| `Rotation` | the re-encryption pass |
| `PlatformProofs` | theorems about these five and `Buckets`, with the refinement of `Limiter` |
| `MCComponents` | the eleven modules from `Sessions` on (with `Buckets`, without `Limiter`), one at a time, in one run |
| `ComponentsProofs` | what is proved of the eleven holds of that composition |

Operators whose comment begins with "A faulty" are the mutants. No action uses
them.

### Interview

`row` and `transcript` are the two tables behind one aggregate. They are separate
variables because `ByID` reads them in two statements (`ReadRow`, then
`TakeAnswer` or `TakeTranscript`), while `Update` writes both in one transaction.
A call or task is a *request* with a program counter at its next database access:

    row -> turns -> ask    (AskNext: the model words a question, Update)
                 -> score  (Finish: the model grades, Update) -> mark -> remark

`mem[r]` is the aggregate in the Go process. What happens between two accesses is
local and is part of the later action's effect: `TakeAnswer` includes
`Interview.Answer` and `shouldFinish`; `Finish` includes grading, the transitions
through scoring to closed, and `SetReport`. `Fail` covers every error return before
the write, a crash included, none of which leaves anything behind. Text is
abstracted: a question is its ordinal and the request that had it worded, an
answer is the call that gave it, a card is the transcript it graded. `shown[r]`
remembers what the author of an answer was looking at. `Sequential` restricts the
environment to `useInterview.ts`, which does not submit while an answer is
outstanding. The rest of the system appears as `BuildProfile`, `RunOutOfTime`
and the three stages of the erasure cascade that matter here.

Left out: soft deletion of roles (no code path removes a role's row), and wording,
prompts, scores and categories.

### InterviewStream

`page` is the hook's React state; `aborted` are the runs whose controller has fired, so
`Active(r)` is the hook's `active()`. `handler[r]` follows `StartInterview`:

    opening -> greeting (stored, subscribed) -> listening (first question sent) -> gone

`buffer[r]` is the broker's channel, `wire[r]` what the client will read, closed by "end"
(the handler returned) or "failure" (an error frame or a broken connection).
`call[r][n]` is the `SubmitAnswer` made while question `n` was shown: sent, recorded
(stored, not yet published), accepted (published or dropped), failed, over. The
stored interview is only the ordinal of its pending question. There is one API process,
as the broker is a map in its memory. The invariant `AsksThePending` is what
`Interview` assumes of its client when `Sequential` is TRUE.

### Jobs

asynq is external: `Enqueue`, `Deliver`, `Retry`, `Recover`, `LoseLease` and `Ack`
are what `NewWorkerFromRedis`, `taskOptions` and the wrapper rely on. `key[t]` is
the claim entry of the task's id. A worker passes through

    claim -> run -> complete -> ack          (nil: asynq removes the task)
          -> ack (duplicate)   -> release -> nack   (error: retry or archive)

which is `wrap` and `runClaimed` with the deferred `Release`. `Faults` switches
faults on. A delivery asynq has given up on has a cancelled context (`Live`), so
its `Claim` and `Complete` fail, while `Release`, under `WithoutCancel`, still works.
`CutOff` errors may come after Redis has carried the call out. Backoff
times, queue weights and payloads are abstracted; `MaxEffects` saturates the
history counter `effects`.

### Erasure

`records[c]` holds the kinds of rows that exist about `c`; `present` and
`anonymised` are the candidates and scrubbed users. An eraser's `step` is the
next statement of `EraseCandidate`, in the order `BuildEraser` wires (`After`).
`Home(e)` is the process of the eraser and decides which contest store and audit
trail it sees. `Insert`, `Apply`, `RaiseContest`/`CreateContest` and `Record` are
the other requests; `Insert` obeys the foreign keys. `StatementFails` ends a
cascade, and in a sweep the next candidate is visited, as in `Sweep`. `Restart`
loses a process's memory and whatever it was doing.

### Sessions

`grant` is `refresh_tokens`, each grant with the first of its line (`login`), which the code does
not store. `storage` is the `localStorage` entry, `page[t]` the store of a tab. A call goes

    sent -> consumed (UPDATE .. RETURNING) -> admitted (account active) -> ok (Save)

and goes on when its tab no longer waits (`Disconnect`, `Reload`). `RefreshInFlight` is
the promise that callers of one page share. What answers do to the store is `Resolve`.
Passwords are left out, SSO logins are logins.

### Accounts

One email address: its users row and that of its context (employer or candidate), the
throttle's `entry`, and attempts, whose steps are the calls `Register` and `Login` make. The
employer's two rows are one transaction; a candidate's are two repositories
(`CreateUser`, `Provision`).

### Shortlists

`position` is the role's status, `match[c]` the id of its row about `c`, `minted` the ids `NewMatch`
has given. Requests read and write in steps (`ReadRole`, `WriteRole`; `Recall`, `Evaluate`,
`Persist`; `CheckSubject`, `CreateContest`; `ReadContest`, `CheckOwner`, `Settle`), with what
they read in `op[o].seen`, `found` and `ref`. Gates, scores and the spec are left open.

### Passports and AgentRuns

A CV is a number; text, embedding and intake are told apart by the CV they come from.
`disturbed` remembers that writers overlapped, a read failed or an upload stopped
half-way; the property is about the rest. An execution of the agent keeps in `uses` the
profile it read; `versions` are the profiles the candidate has had. `Needs`, `Rubric` and
`Compatible` are the gates; what the model claims is any set of skills that
`CheckGrounding` lets through.

### Buckets and Limiter

`Limiter` is what the comments promise: an allowance per key that is refilled every tick.
`Buckets` is the map: `AllowKnown` refills on demand, `AllowNew` also sweeps idle buckets and
cuts the map at its ceiling. `Allowance`, the refinement mapping, is what each key would find
now. One tick is the time of one token.

### ModelCalls, LogShipper, Radar, Seeding, Rotation

`ModelCalls`: a caller's `stage` is the layer its call is at (`Guarded`'s limiter, budget and
slots, the provider, `CostTracker.Record`), and `DecodeJSON` starts over. `LogShipper`:
`clockwork[t]` tells an armed timer from one whose callback already waits for the mutex and
cannot be stopped; `inHand` are batches taken under the lock whose goroutine has not been
started. `Radar`: the content of a view is the time its repositories were read. `Seeding`:
`copies` of each row of the dataset, `strays` for other rows. `Rotation`: `table` in order of
creation, `ListPage` and `Count` as two statements, `Rewrite` of each row as it was read.

### MCComponents

These eleven share no state, so that any interleaving of two of them is a pair of
behaviours that do not affect one another. `Init` chooses which one runs, the others stand
still, and the state space is the sum and not the product of theirs.

## 3. Runs

| run | question | instance | states |
|---|---|---|---|
| `interview_concurrent` | do racing requests leave a sound interview? | 1 interview, 4 calls, 1 scoring, 2 questions | 245 k |
| `interview_sequential` | is a waiting client's exchange a session? | 2 interviews, 5 calls, 2 questions | 102 k |
| `interview_reopened` | is closed terminal? *violated* | 1 interview, 3 calls | – |
| `interview_stream` | does the page show what is pending, and learn of every answer? | 2 runs, 2 questions, buffer of 1 | 153 k |
| `jobs_no_faults` | exactly once when nothing breaks? | 2 tasks, 2 workers, 2 retries | 1.8 k |
| `jobs_faulty` | exclusion, suppression and progress under faults? | 2 tasks, 2 workers, 1 retry, four faults | 221 k |
| `jobs_lost` | was a completed task run? *violated* | 1 task, 2 workers, crashes | – |
| `jobs_twice` | at most one effect? *violated* | 1 task, 2 workers, lost leases | – |
| `erasure_races` | does the cascade do what it reports, and reach everyone? | 2 candidates (1 active), 1 call, 1 sweep, restarts of both processes | 1.1 M |
| `erasure_contests` | does a sweep take the contests? *violated* | 1 candidate, 1 sweep | – |
| `components` | do the eleven other components keep their invariants? | see below | 818 k |
| `rotation_deletes` | does a finished rotation leave nothing on the old key? *violated* | 3 old rows, pages of 2 | – |

**Why the bounds are enough.** *Interview*: one start, one answer that continues,
one that closes, one more that overlaps, and a scoring cover every pair of
overlapping writers, including a torn read under a third; more interviews do not
interact except through the passport, which the sequential run covers with two.
Two questions make a first, a last and a "too many". *Stream*: two runs make
a current and a stale one; two questions make a first, a next and a card; a buffer of one
event is the hardest, and the code's has four. *Jobs*: a claim involves at
most the worker that holds it and one that wants it; two tasks let a worker be
away on another; one retry distinguishes "retried" from "archived", and the run
without faults has two. *Erasure*: overlap needs one cascade from each process.
A second, passive candidate is what a failing one could keep from being reached.
All counters are finite by construction: calls are made once, retries are
bounded by the code, and the effect counter saturates at 2.

*Components.* `Sessions`: two tabs, two calls and three grants make one login rotated
twice, or two logins, with a call on the way from each tab or two from one. `Accounts`: two attempts
overlap, two failures lock, and six ticks hold two windows and a lockout. `Buckets`: three keys at
a ceiling of two, and long enough for a bucket to fill and become idle. `ModelCalls`: three
callers for two slots, so that one waits past its budget check. `LogShipper`: batches of two,
five lines and two timers, so that a stale callback meets a newer timer. `Rotation`:
three old rows and one new on pages of two, the smallest in which a row can move
between pages. `Shortlists`: two requests at once about two candidates and one
contest; three ids make one row be written again. `Passports`: two writers, two CVs (one
blank), two rows. `AgentRuns`: one role, two executions and two profiles, of which a skill
may be a must-have and another only claimed. `Radar`: a slow, a fast and a later viewer, and
three lifetimes. `Seeding`: a row with a unique key, one referring to it, and two without.

Symmetry is used only in `interview_concurrent`, `interview_sequential` and `components`
(tabs and calls of `Sessions`), which check no liveness. Deadlock is not checked in the
interview, job and component runs,
where everything may be over: all calls made, all tasks settled, a bounded clock at its end. In `Erasure`
something can always happen, and deadlock is checked.

### What holds

- **`WellFormedInterview`, `ReportGradesTranscript`**: lost updates do happen
  (see below), but they replace one sound interview by another. Row and turns are
  written in one transaction, an answer needs a pending question among the turns it
  read, and grading uses the turns that are then stored. A torn read cannot do
  harm, because the stored state is computed and not copied.
- **`ErasedStaysErased`**: `Update` of a missing row fails, and ids are never reused.
- **`AnswersTheShownQuestion`, `ScreenedIsBacked`, `ImplementsSession`** hold for a
  client that waits. A client that does not wait can have its answer recorded
  against a question it never saw, since `SubmitAnswer` carries no question id
  (mutant `AlwaysMay`).
- **`AsksThePending`, `NothingIsDropped`, `ShowsThisRun`, `AnswerIsFollowedUp`**: the
  handler subscribes before anyone can know the interview's id, and the page
  answers one question at a time, so that a single buffer slot suffices; late questions
  after a stall are still the pending ones. The report card, once shown, is kept for the run,
  but its page is not: a connection that fails after the card and before the stream's
  clean end sets the status to "error" (`useInterview.ts:63`, which does not look at
  `sawReport` as the clean end at :58 does). The model has this behaviour.
- **`NoOverlap`, `DoneSuppresses`** hold under crashes, deploys, lost leases and
  Redis errors; they need the claim's TTL to exceed the longest handler run, as the
  code's comment demands (fault "slow" off).
- **`SettledExactly`**: exactly once when nothing but handlers fails.
- **`EverySettles`**: every pending task leaves the queue.
- **`ErasedHasNoRecords`, `SuccessMeansErased`, `IdentityGoesLast`**: the foreign keys
  close the gaps between the statements; failure at any statement can be repeated.
- **`EveryoneElseIsErased`**: a failing candidate does not keep the sweep from others.
- **`NoFork`, `EndedStaysEnded`, `PresentsOnce`**: `Consume` is one conditional `UPDATE`, so
  of any number of presentations one rotates. What they do not promise: tabs log each other out
  (the second presents a token the first has spent); a rotation that fails between
  `Consume` and `Save` ends the login; an answer to a refresh that arrives after the
  logout of its page puts tokens back, and they are live, since the logout
  revoked the grant before them.
- **`GuessesBounded`**: parallel guesses overrun the limit by no more than their number, twice,
  when a lockout is as long as the window, as in the default policy (`throttle.go:14`) and in the
  instance. A shorter one would end inside the window and the count go on.
  A failure counted late, after its window, replaces an entry that is locked.
- **`RegisteredOnceAndWhole`**: an employer is never half registered. A candidate may be, and
  its address is then taken for good.
- **`ContestsHaveSubjects`**: the upsert keeps the id of a match. The in-memory store
  replaces it (mutant `Overwritten`), so contests dangle there. Rows of
  candidates a later shortlist excludes remain.
- **`VerdictStands`, `ClosedStaysClosed`**: only a request that had read the contest as open, or
  the role as a draft, can still overwrite a verdict or reopen a deleted role. Both do
  happen when requests overlap.
- **`PassportIsOfOneCV`**, when writers do not overlap or stop half-way: one profile, of one CV. Two
  first uploads at once, or a failing read, create two profiles. A CV in which nothing
  is evidenced keeps the embedding of the CV before it.
- **`AgentIsHonest`**: each application is backed by one profile the candidate had while
  its execution ran. A retried execution applies again.
- **`EvictionIsInvisible`**: a swept bucket was full; only a map at its ceiling
  resets limits, and never refuses the new key.
- **`OverspendIsBounded`**: by one call of each caller, not of each slot, as the budget is checked
  before the wait. Calls that are refused are recorded with the cost of their prompt.
- **`BufferedIsScheduled`, `EachLineOnce`**: stale callbacks may flush early, but strand
  nothing. `Close` may return while a batch already taken has no goroutine yet: it
  waits for those started.
- **`ShownIsRecent`**: TTL and slowest computation together bound the age, although a
  slow viewer may replace a newer view and a refresh may be undone by one.
- **`SeedIsWhole`**: a reseed that reports success has loaded exactly the dataset.
- **`NothingOnTheOldKey`**: inserts shift rows towards pages still to come, so that without
  deletions every old row is met. A row edited between the listing and its
  `Rewrite` loses the edit.

### What does not hold

1. *A closed interview can be reopened* (`interview_reopened`). Two overlapping
   `SubmitAnswer` calls: one closes the interview and stores the card, the other read
   it before, and stores "asking" over it; the card is gone. "closed is terminal"
   (`internal/domain/interview/interview_test.go:84`) holds of the copy in memory only.
2. *A completed task need not have run* (`jobs_lost`). A worker dies inside a handler.
   asynq redelivers the task within a minute or so; the claim lives for 15. The
   redelivery finds it "in progress", takes itself for a duplicate and returns nil, so
   asynq deletes the task. `docs/scale-out.md:43` promises that "the claim expires and
   another replica retries": nothing is left to retry.
3. *Effects may happen twice* (`jobs_twice`). asynq gives up on a delivery
   just as its handler finishes; `Complete` fails on the cancelled context, the
   deferred `Release` frees the claim, the retry repeats the effect.
   `docs/scale-out.md:45` and `idempotency_redis.go:24` promise exactly once.
4. *A sweep leaves the candidate's contests* (`erasure_contests`). The worker's eraser
   is wired to a contest store of its own, always empty; the contests are in the API's
   memory.
5. *A finished rotation may leave a row on the old key* (`rotation_deletes`). The pass
   goes by `OFFSET` (`reencrypt.go:112`): a row deleted between two pages moves those behind it one
   place forward, onto a page already read. `docs/runbooks/key-rotation.md:64` says that
   "deleted rows need no work", line 68 that "a successful run leaves nothing on the old key".
   With the old key retired, the skipped row can no longer be read.

## 4. Fairness

*Jobs.* Weak fairness of `Proceed(w)`: handlers return, and the calls after them are
made; errors of Redis are excluded, since nothing obliges Redis to fail, and
a handler may fail for ever. Strong fairness of `Deliver` per task: servers poll
all queues by weight, so a task that is pending again and again while workers
become free is taken. Weak fairness of `Forward` and `Recover`: asynq runs both in
every server. No fairness of any fault. `EverySettles` also assumes that deploys
stop some time: a task that is shut down in every delivery is requeued without
counting as a retry.

*Erasure.* Weak fairness of each sweeper's next step: the scheduler of `cmd/worker`
enqueues the sweep daily and the worker carries it through. A failing statement
is such a step, so fairness never makes statements about `Failing` candidates
succeed. `EveryoneElseIsErased` assumes that from some time on the worker is not
restarted: a restart in the middle of every sweep would prevent it.

*InterviewStream.* Weak fairness of `Receive`, `Forward` and `Publish`: the client's event
loop and the server's goroutines go on. Not of `Record`, `Resolved` or `Submit`: calls
may hang, people may leave.

*Interview* has no liveness property: nothing in the code makes a candidate answer.

The modules of `MCComponents` state no fairness: their properties are invariants, action
properties and a refinement without liveness.

## 5. Proofs

The theorems hold for every set of interviews, calls, scorings, tasks, workers,
candidates, erasers, and every `MaxQuestions` and `MaxRetry`; and in the other modules for
every set of tabs, requests, keys, callers, timers, CVs, roles and viewers, and every policy and bound. They
assume what the `ASSUME`s of the modules say (`MaxQuestions` is positive, `MaxRetry` a
natural, the various sets are disjoint, null values lie outside them; in `Buckets`, that a bucket
idle for `IdleAfter` has refilled, which the comment of `evictIdle` takes for granted and the
code leaves to its configuration; in `Seeding`, that the dataset has no row twice; in `ModelCalls`, that the
callers are finitely many) and nothing else, except where stated.

*`InterviewProofs`.* `TypeCorrect` first. `WellFormedInterview` is not inductive: a
request in flight holds an aggregate that will be stored whatever the store
holds by then. The strengthening `MemoryIsStorable` says that whatever is in
memory at "ask" or "score" would be sound if stored now: numbered turns, as
many as permit a further question (at "ask") or at least one (at "score"), without a
card. It is about `mem` and `pc` alone, so other requests cannot disturb it; the
store enters in `TakeAnswer` and `TakeTranscript` only, through the invariant. From
`InterviewInv` (types, the two properties and the strengthening) follow
`InterviewsStayWellFormed` and `ReportsGradeTheirTranscripts`. `RemovedStaysRemoved`
needs types only.

Three theorems are about clients that wait for an answer before they send the next request, and no
scoring task beside them (`ClientsWait`: `Sequential` and `Jobs = {}`, as in the run
`interview_sequential`; any number of interviews and calls, with failures, retries, timeouts and the
erasure). The hypothesis is needed: of two calls that overlap, one can write over what the other has recorded
meanwhile, and a scoring task reads and writes the same aggregate.
`SessionInv` adds to `InterviewInv` that one call per interview is in flight (`OneCall`) and that its
memory agrees with the store (`CallIsCurrent`: what it read is still there, and what it will write is
that with one turn more or with the card); `RemovedIsEmpty` says what erasure leaves behind. From it
follow `AnswersMatchQuestions` and `ScreenedPassportsAreBacked`, and, step by step, the refinement
`InterviewsImplementSessions`: an `Update` is the abstract answer or close, a statement of the erasure the
abstract removal, everything else stutters.

*`StreamProofs`.* None of the stream's properties is inductive, as each is about one end of a chain
(screen, call, buffer, wire) whose other end may be about to break it. `OneAtATime(r)` says for
each run where its pending question is and that it is in one place only: on the screen, in a call under
way (`OneAnswer`), in the buffer (`OneBuffered`) or on the wire (`OneOnTheWire`), and how the greeting
fits in (`Beginning`). With the types and `PageInv` this is the inductive `StreamInv`; the cases of its proof
are the handler's, the hook's and the call's steps and the failures of each. `ScreenIsPending`,
`BrokerHasRoom` and `OnlyThisRun` follow. They hold for any number of questions and runs and
any capacity of the buffer, one slot included.

*`JobsProofs`.* `TypeCorrect`, under any faults. `NoOverlap` alone is not inductive:
`Claim` keeps it only if a free key has no claimant. `EntryHeld` says so: while a
worker is under its claim the key is not free, and until its `Complete` it is in
progress. `ClaimInv` (types, `EntryHeld`, `NoOverlap`) is inductive: only the one
claimant can `Complete` or `Release`, and the claim does not expire under it. From it
follow `ExclusiveHandlers` and the action property `DoneIsKept`. Both assume that
"slow" is not among the faults, which is what the code's comment on the TTL asks for.
`ExactlyOnceWithoutFaults` assumes `Faults = {}`; its invariant `FaultlessInv` ties
worker, lease, key, queue and effect count together (`WorkerKnows`, `TaskKnows`).

*`ErasureProofs`.* `SuccessMeansErased` needs to know what a cascade has done before its
last statement: `Achieved` says that an eraser past "candidate" has an absent subject,
and one past "user" an anonymised one. With the types and the three properties this is
the inductive `ErasureInv`. `ErasureTypeCorrect`, `NoRowsOfErased`, `ReportedErasureIsComplete`
and `IdentityIsLast` follow.

*`IdentityProofs`.* `NoFork` is kept by `Issue` only because a rotation is replaced by its grant
and a new login's name is fresh: `LoginsAreIssued` says that names belong to issued
grants, `CallsAreSound` which calls get to `Issue` at all. With the types this is `SessionInv`, from which
`LoginsNeverFork` and the action property `EndedLoginsStayEnded` follow; each step of a call
that touches neither grants nor rotations is covered once (`Quiet`). `TokensPresentedOnce` rests on
`PagesWait`: a page that presented its token has a refresh under way. `OneRegistration` rests on
`OneRegisters`: at most one attempt is past `CreateUser`, and none once the address is registered.

`GuessesAreBounded` assumes a finite number of attempts and `Lockout >= Window`, which the code's
defaults satisfy (15 minutes each, `memory/throttle.go:15-16`, and `cmd/api/main.go:170` configures no
others). The bound is not inductive: a failure may be counted whenever a login has passed the check, so
`GuessInv` counts the `Guessers` (logins past the check, failure not yet counted) with the failures. Until a lock
ends nobody joins them, and every failure that is counted takes one away. The case to watch is a lock that
ends exactly with the window (it was set in the window's first instant): at that instant everyone is let in, and the
failures are still the old window's. That is where the second `Cardinality(Attempts)` of the bound comes
from; the first of these failures locks beyond the window.

*`CandidateProofs`, the shortlists.* `SeenIsThere`: what a request under way has read (the match a contest is
to be about, the contest to be resolved) is still there when it writes. With the types and
`ContestsHaveSubjects` it is inductive, as ids of stored matches never change.
`SubjectsNeverDangle`, `VerdictsStand` and `DeletedRolesStayClosed` follow.

*`CandidateProofs`.* `RunSound(e)` ties what an execution uses to the profiles since
it began, its job to the gates, and the roles still before it to the applications it has not made;
`AgentInv` adds types and honesty. For the passport, `WritersAreSound` and
`OneAtATime` (the passports' own) say what an undisturbed writer has read and that there is one such
upload; from them `PassportsAreWhole`.

*`PlatformProofs`.* `RadarInv` bounds the expiry of what is cached by its age when it was read.
`SeedingInv`: while loading, exactly the rows before `next` are there. `AlertInv`: recorded spend
and alerts agree after every `Record`. `TimerRuns`: the timer the writer knows of is armed or
has fired. `Placed` writes `EachLineOnce` as a statement about single lines, so that moving a batch
from one place to the next is one lemma for each way of moving.

For the overspend, `ToRecord` is the cost that was billed and not yet recorded, as a set of units, so that
a sum over callers is a cardinality; `Committed` are the calls past the budget and not yet billed. `SpendInv`
says that while the budget is open what was billed is recorded or in `ToRecord`, and that what is billed with
one `MaxCost` for every committed call stays below the bound. The step that matters is `PassBudget`: the
caller has nothing to record itself (`RoomForOneMore`, `UnitsAreShares`). `OverspendBound` follows for any number of
callers and slots.

For the buckets, `CeilingHolds` is about cardinalities (`MapInv`). The refinement needs
`BucketInv` (sound buckets, none from the future) and four lemmas: a tick refills every allowance
(`ElapseRefills`), spending on what is known or swept is `Ask` (`SpendAsks`), cutting the map
is a reset (`SpendResets`), and an idle bucket is full (`IdleIsFull`).
`BucketsImplementLimiter` combines them.

For the rotation, `PassInv` says, while no row is deleted, that an old row is in the batch or on a page to come
(`Later`), that no more has been delivered than the pages read can hold, and that the total read was above that if an
old row is left beyond the batch: so the pass does not end before it. It rests on ranks: they are distinct (`RankFacts`),
a page holds at most `PageSize` rows (`BatchFits`), an empty page has no row after it (`NoGap`: the ranks
of a row and of those newer than it are all numbers up to its own), and creating rows only raises ranks
(`RanksGrow`). `RotationIsComplete` holds for any number of rows and edits and any page size; the hypothesis that no row is
deleted is part of the property, and the run `rotation_deletes` shows that it is needed.

*`ComponentsProofs`.* `EachComponentRuns`: a behaviour of `MCComponents` is, seen through the variables of
each of the eleven modules, a behaviour of that module's specification. So every theorem about a component holds of the
composition: `ComponentsTypeCorrect` and `ComponentsAreSafe` state what the run `components` checks for every value of the
constants, the latter under the two hypotheses of `GuessesAreBounded`.

Only model-checked: the liveness properties (`EverySettles`, `EveryoneElseIsErased`,
`AnswerIsFollowedUp`), as fairness and ENABLED are out of the prover's reach. Every other property of a passing
run is stated by a theorem. Only proved, and in no run: `AlertedExactlyOnce` and `MapIsBounded`.

## 6. Plan

The order was: the interview, the system's central flow and the one where most actors meet; jobs
and erasure, with their proofs; the stream; then the components that stand alone,
with theirs. What is left, in this order:

1. `AgentRuns` as the handler of `Jobs`, where at-least-once delivery produces the overlapping
   executions that `AgentRuns` now allows at any time.
2. Re-encryption of `matches`, listed by score and written by upsert, and the in-memory
   match store as a second implementation of the repository.

## 7. Not modelled, and why

Cryptography (JWT, Argon2, the cipher of field encryption) and floating-point scoring and
ranking are out of TLC's reach: a ciphertext is the key it is under, a gate or score is left open. Model
calls are "returns something or fails". Telemetry, audit wording and access rules keep no state
that changes what the modelled steps do. Configuration is read once; migrate and backup call external tools.
The gates themselves are
pure functions of one candidate and one role (`domain/matching/filter.go`, `fit.go`); `AgentRuns` takes
their verdicts as constants. Reading them beside their callers shows one difference that no module states:
the alert feed of the dashboard (`aggregator.go:193`) does not ask `ViolatesDealBreaker`, which the agent and
the two-way matcher do, although `fit.go:68` says that surfacing and eligibility never diverge.
`RecordRejection` is one audit append. Two reseeds at once are not supported by anything that
starts them, and not modelled. Web pages other than the interview hook and the session
stores hold no protocol state.

The map covers about an eighth of the implementation's lines, and the rest is not state that a
specification could say more about: protobuf code and `sqlcdb`
(modelled where their callers are), prompts, scoring, conversion between layers, constructors and
wiring, and the views of the web client.
