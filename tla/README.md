# A verification project for ai-cloud-ops

TLA+ modules of the concurrent core of ai-cloud-ops, the TLC instances that
check them, and TLAPS proofs about them. Paths are relative to the repository.
`PROJECT.json` lists every run, every mapped definition with its source lines,
the hazards and the theorems.

## 1. Inventory

| Component | State it keeps | Operations | Interacts with | What makes it correct |
|---|---|---|---|---|
| **HITL execution pipeline** `internal/api/exec.go`, `exec_store.go`, migration 0004 | `exec_plans`, `exec_audit` rows | plan, approve, execute, get, list | cloud executor and rollback callbacks, planner, PostgreSQL | nothing runs before approval; a plan starts once; the audit rows tell what happened; the rate limit holds; every execution ends |
| **Incident lifecycle** `internal/api/incidents.go` | `alerts.status` | ack, suppress, maintenance, resolve, replay | worker and webhook, through the table | an alert moves along its graph only |
| **Alert worker** `internal/worker/loop.go` | the batch of a cycle; heartbeat; lifecycle mutex | Start, Stop, poll cycle | `alerts`, `analyses` | every alert is processed; no operator's decision is lost |
| **Webhook ingest** `internal/ingest/webhook.go`, `signature.go`, `internal/db/queries.go` | `alerts` rows | `POST /webhook/cms` | CMS, which retries | one row per alert; a 200 means stored |
| **Resource cache (Python)** `src/ai_cloud_ops/cache.py`, `ingest/fetcher.py` | `_store`, `_in_flight`, the lock | get_or_fetch, invalidate | coroutines of one event loop | one fetch at a time per key; every call ends |
| **STS cache, singleflight** `internal/credentials/` | token map, call map | Get, Invalidate, Do | STS | one AssumeRole at a time; a dropped token is not handed to newcomers; every call returns |
| **WebSocket hub** `internal/api/ws.go` | client map, channels of 16 | subscribe, Publish, disconnect | HTTP server | delivery in order, no send on a closed channel, no publisher held up |
| **Agent loop** `internal/agent/client.go`, `tools.go` | messages, planned and blocked actions | Diagnose, DiagnoseDryRun | model API; `POST /exec/plan` and the evaluation gate, which call it | the run ends; the books of a dry run match the conversation; only a run without an error becomes a plan |
| **Sessions** `internal/auth/` | session store | login, logout, middleware | every handler | a revoked session is refused |
| **Migrations, pool** `internal/db/migrations.go`, `pool.go` | `schema_migrations` | RunMigrations | PostgreSQL, other servers that start | each migration is applied once, in order, together with its row |
| **Evaluation gate** `internal/eval/` | the sum and the cards of one evaluation | EvaluateBaseline, Score | agent loop, judge model, CI | only a full baseline of valid cards passes |
| **Python reference** `src/ai_cloud_ops/` (worker, retry, webhook, credentials, retention, agent, API, MCP, CLI) | the same tables, a dead-letter list | the same | the same | as above |
| rules CRUD, read endpoints, configuration, logging, `web/` | none of their own | | | |

The parts meet in two places: PostgreSQL, where every handler and the worker send
single statements (only `BeginExecution` and the migrations open a transaction),
and the callbacks `Deps` hands to the handlers. There is no lock around a handler
and no isolation between two statements of one request, so the hard behaviours are
check-then-act windows, late writes, answers lost after a write was applied,
handlers that are cut off, and retries by clients and by CMS.

## 2. Modules and plan

| Module | Models | Kind |
|---|---|---|
| `ExecPlan` | the execution pipeline | detailed specification |
| `ExecLedger` | what it promises per plan | abstract specification |
| `ExecView` | `ExecPlan` and the GET handler, which reads plan and audit rows in two statements | composition |
| `ExecPlanProofs` | the inductive invariants of `ExecPlan` | proofs |
| `ExecLedgerProofs` | the refinement of `ExecLedger`, and the reader of `ExecView` | proofs |
| `MCExecPlan`, `MCExecView` | instances, the claim of a comment, the refinement | model checking |
| `AlertTable` | the `alerts` table with the webhook, the incident handlers and the worker's statements, which only meet there | detailed, shared by the next two |
| `AlertPipeline` | the table with one worker that polls, marks, stops anywhere and starts again | detailed for the table, abstract for the worker's life |
| `WorkerLifecycle` | the worker's goroutines, each with its own batch and context, and the Start and Stop that launch and await them; refines `AlertPipeline` | detailed specification |
| `AlertPipelineProofs` | the inductive invariants of both, and the refinement | proofs |
| `MCAlertPipeline`, `MCWorker` | an instance of each | model checking |
| `Diagnosis` | the agent loop and `POST /exec/plan` | detailed specification |
| `EvalGate` | the CI gate as a caller of `Diagnosis` | composition |
| `DiagnosisProofs` | the inductive invariants of `Diagnosis` and `EvalGate` | proofs |
| `MCDiagnosis` | an instance of both | model checking |
| `Migrations` | several servers in `RunMigrations` | detailed specification |
| `MigrationsProofs` | its inductive invariant | proofs |
| `MCMigrations` | an instance | model checking |
| `TTLCache` | the Python cache | detailed specification |
| `TTLCacheProofs` | its inductive invariant, and who holds the lock | proofs |
| `MCTTLCache` | instances and the claim of the cache's docstring | model checking |
| `StsCache` | the Go token cache over its singleflight | detailed specification |
| `StsCacheProofs` | its inductive invariant, and the steps of a call | proofs |
| `MCStsCache` | an instance | model checking |
| `WsHub` | the dashboard hub, its publishers, handlers and readers | detailed specification |
| `WsStream` | what the hub promises each dashboard | abstract specification |
| `WsHubProofs` | its inductive invariant, and the steps of a publisher | proofs |
| `MCWsHub` | an instance | model checking |

What could come next, in this order:

1. `WsHub` with the lazy creation of the hub; `TTLCache` with the age of values,
   for a fetch that stores after an `invalidate`.

## 3. The execution pipeline

**State.** `status`, `approved`, `started`, `done` are the columns `status`,
`approved_at`, `started_at` and `actions_completed` of `exec_plans`; `audit` is the status
of the row `(exec_id, seq)`. `started` only keeps whether the time lies within
the hour the rate limit looks at. The process of each execute request has its
`pc` and the locals of `execExecuteHandler`. `begun` and `calls` are history.

**Actions.** `CreatePlan` and `ApprovePlan` are one statement each. An execute
request goes through `Arrive`, `GetPlan`, `CheckRateLimit`, `BeginExecution`, then
for each action `CapturePreState`, `Execute`, `RecordActionResult`, then
`Rollback` for each completed action, `MarkAuditRolledBack`, `FinishExecution`.
Between two steps anything else may happen. The switch `DBFaults` lets every round
trip of a request fail, a write also after it was applied; `Crashes` cuts a
handler off between two steps (panic, killed process, deadline). `BeginExecution`
keeps what the handler does after an error: it replies and goes on. The decoding
of `would_execute` before it (`exec.go:339-344`) would end the request with 500;
it is left out because the column holds what the plan handler encoded and nothing
else writes it. `Reply` keeps the first status code, as `http.ResponseWriter`
does.

**Runs.**

* `exec_serial`: two plans with three actions and one, three requests one at a
  time, handlers cut off, and one reader of a plan (`ExecView`). `LedgerSpec` is the refinement: `ExecLedger!Spec` with
  `ledger <- audit` is implemented. It holds only when executions do not
  overlap, which is why this run has `MaxInFlight = 1`. `StatusMatchesAudit`
  relates the final status to the audit rows. The store does not fail in this run:
an action whose audit row could not be written, an error `exec.go:379` ignores,
is the matter of `AuditTruthful` in `exec_faults`. `TrailNotBehindStatus` is what the
  order of the reader's two statements gives it: the trail is never older than
  the status, so a finished plan is not shown with unfinished rows. (The other way
  round it may be: status running, all rows finished.)
* `exec_race`: four requests, two at a time, on three plans of one account with
  a limit of one, so that the bound on the overshoot is below what the plans
  could reach; two of the requests race on one plan. `RateLimitOvershoot` bounds what the check-then-act window
  lets through by the number of requests in flight; `EveryCallAudited`; and
  `RunningEnds` under weak fairness of each request.
* `exec_faults`: two requests on one plan with store faults and crashes.
  `AuditTruthful`, `NoCallBeforeApproval`, `SingleBegin`, `NoResurrection`,
  `RequestEnds`, and `AbandonedIsLeft`: a plan whose handler was cut off is not
  taken up, finished or run a second time by any request that comes later.
* `exec_refused`: what a comment says and the code does not do (section 11).

**Bounds.** Three actions are the smallest plan in which rollback undoes more
than one action and stops before a failure; two requests are enough for every
race on one row, and the others, on other plans, for the races on the account.
The limit of one puts the boundary within reach. `LeaveWindow` may happen at any
time, so no clock is bounded. `MaxInFlight` bounds the concurrency of the server.

**Fairness.** `WF(Serve(r))` per request: net/http gives each request a
goroutine, and a round trip or a callback that ends is all the handler waits
for. `Arrive`, approvals and crashes have no fairness. Without recovery code a
crash leaves a plan in `running` for ever, which `AbandonedIsLeft` states; `RunningEnds`
is therefore checked without crashes, and with them only `RequestEnds`.

## 4. The alert pipeline

**State.** `event`, `created`, `status` are the columns `alert_id`, `created_at`
and `status` of each row, rows are numbered as the sequence numbers them.
`request[u]` is what an operator's handler remembers between its SELECT and its
UPDATE. `late` are the rows whose mark the worker sent and never got an answer
for. `acked` holds the events that were answered with 200; `everAcked` is
history. `wpc` and `batch` are the worker of `AlertPipeline`.

**Actions.** `ServeWebhook` inserts with the conflict clause and answers, and
the answer may be lost; CMS may push at any time, also after a 200. An event of
`Stamped` carries its own RFC3339 `created_at`, any other gets the time of
arrival, which is later than everything before it. `Unanalyzed` is the query, the
newest `BatchSize` rows, and `MarkRow` the UPDATE of one of them, newest first,
after whose error the loop goes on. An UPDATE that was on its way when the
context ended (`loop.go:184`), or that failed without an answer, may be applied
at any later time, also after Stop has returned: `LeaveRows` and `MarkRow` enter
it in `late`, `LateMark` is the server coming to it. `ReadStatus` and
`WriteStatus` are the two statements of the transition handler; refused
requests end with the SELECT and change nothing. The join with `analyses` is left
out: no Go code writes that table, so it excludes no row.

**Runs.** `alert_safety` has two events, one stamped, two rows, two operators, a
worker that stops and starts, and faults. Two rows show duplicates, order and a
batch smaller than the backlog; two operators show every race between read and
write.

**The worker's lifecycle.** `WorkerLifecycle` has the mutex `lifecycle`, the loop
that `w.cancel` ends, and for each goroutine of `Run` where it stands (`loop`),
the rows it selected (`todo`) and its context (`runCtx`); `Running` is what the
wait group counts. Nothing in the actions of a loop looks at another loop, so
that there is only one is a result, not a premise. `StartWorker` returns at
once while `w.cancel` is set, `StopWorker` cancels and keeps the mutex,
`WaitReturns` gives it back when nothing runs. `ContextEnds` is the context of
the caller of Start ending from outside.

`worker`: two callers that call Start and Stop in any order, two names for loops,
two rows, batches of one, pushes without a stamp, one operator who acknowledges,
resolves and replays, no faults of the database.

* `OneLoop`, and `StopJoins`: once a Stop has returned, and until the next loop
  is launched, no loop runs. No new statement is sent then; one that was sent
  before may still be applied, which is `LateMark`.
* `AlertSpec`: with `WorkerPc` and `WorkerBatch` as the worker, the goroutines
  implement `AlertPipeline`. It fails when two loops overlap, or when a loop
  begins or ends beside another.
* `CallsEnd` and `RunningWorkerDrains`, under fairness. `WF(Cycle)` and
  `WF(LoopReturns)`: the goroutine is scheduled and its timer fires. `SF(Locked(c))`:
  in its starvation mode a Go mutex is handed to the goroutine that has waited
  longest. Two callers are enough: one in the wait, one before the mutex.

That a running worker processes every alert is *not* true of the code: the query
takes the newest 50 first (`loop.go:25-26`), so an alert stays where it is as
long as 50 newer ones are there at every poll. CMS can do that by pushing, and
operators by replaying. `RunningWorkerDrains` says that this is the only reason: an
alert that is unprocessed for ever has `BatchSize` unprocessed newer ones ahead of it
again and again, and others join them again and again. In the instance
`BatchSize` is 1, so one newer alert does it. `MaxRows` bounds the pushes of a
run, so there the endless arrivals are an operator's replays of the newer row;
pushes that do not end add rows to the same set, `Ahead`. Without the two
conjuncts TLC refutes the property.

When a context has ended from outside, `w.cancel` is still set: Start returns nil
and starts nothing until Stop is called, against "Repeated calls while running
are no-ops" (`loop.go:75`), since nothing runs. `RunningWorkerDrains` therefore
asks for a context that stays live.

## 5. The resource cache

One coroutine per call; a step runs from one suspension point to the next.
`WithLock` is `async with self._lock`: a lock that is free and that nobody queues for is
taken without suspending, otherwise the task joins the FIFO `queue`. `Dedupe`,
`Publish`, `Abandon` are the three bodies. `Cancel` is `asyncio.Task.cancel`
where a task is suspended; `Drop` is invalidation or the end of the TTL, so the store keeps
fresh entries only.

`ttl_shared`: four calls, three of one key, everything may fail or be
cancelled; `SingleFetch`, `NoStaleFuture` and, under fairness (`WF(Run(t))`: the
event loop runs what is ready and every fetcher returns or raises), `GetEnds`:
every call ends, provided that none waits for ever for the fetch of another.
The proviso is needed: two calls that share a key may wait for each other, which
is `ttl_deadlock`. What `GetEnds` adds is that no failure and no cancellation
leaves the lock taken. Three calls of a key are one that fetches, one that
joins it and one that comes after either; the fourth, of another key, meets
them at the lock only.

## 6. The token cache

**State.** `store`, `m` and `call` are `store` of `StsTokenCache`, the map of
`singleflight` and its `sfCall`s; a call, the token it returns and the `Get`
that started it share a name. `fresh` keeps of the clock whether a token expires
later than the refresh margin from now. `asked` is history: which calls of `Get`
had begun when a token was first dropped.

**Actions.** `Get` is the lookup under the cache's mutex, `Do` joins a call or
starts one, `Wait` is the return of `wg.Wait`, `Put` stores the token. The
goroutine that `Do` starts goes through `AssumeRole`, `LeaveMap` and
`WakeWaiters` (its deferred `wg.Done`), which are three steps because anything
may happen between them. `AssumeRole` fails for any reason, also because the
context of the `Get` that started it has ended. `Invalidate` and `Age` happen at
any time.

**Run.** `sts_cache`: three calls for one account, so that a third comes in
between the two that share a token; accounts share nothing but the two mutexes,
whose critical sections are single steps, so one account is enough.
`OneAssumeRole` and `NoDroppedToken`; under `WF(Run(g))` (goroutines are
scheduled, every AssumeRole returns) `GetEnds`.

What the code does not promise, and the model shows: each waiter stores the
token it was handed, so an `Invalidate` between two of them is undone, and a
later `Get` reads the dropped token from the store. `NoDroppedToken` says what
remains: no call that begins after the drop *joins the fetch* of that token.

## 7. The dashboard hub

**State.** `clients` are the keys of `hub.clients`, `ch` the channel of each
connection, `closed` and `cls` the channels that are closed. A handler's `pc`
says where in `wsHandler` it stands, a publisher's `ppc` and `todo` where in the
`range` of `Publish`, which it goes through with the read lock. `last` is
history: what has reached each dashboard.

**Actions.** `Publish` takes the read lock, `Send` offers the event to one
client after the other in any order, `Unlock` ends the loop. `Register` and
`Leave` are the two writers of the map; a writer waits for the readers, and keeps
new ones out while it waits, as `sync.RWMutex` does. `Close` closes the channel
after the lock was released. `ReadFails` is the reader's goroutine, `SeeClosed`,
`Receive` and `Write` are the pump; a write may fail, or never come to an end.
In this repository only tests call `Publish`; the model takes any number of
goroutines that do.

**Run.** `ws_hub`: two publishers with two events and one, two connections, and
channels of two: the smallest that hold two events whose order could be wrong,
and small enough to be full before the third; the code's 16 only takes longer to
fill. `NoSendOnClosed`; `StreamSpec`, the refinement of `WsStream` with
`sent <- no`, `got <- last` and the subscription read off the client map; under
`WF(Loop(p))` and `WF(Pump(c))` (goroutines are scheduled) `PublishEnds` and
`ClosedLeaves`. `Write` has no fairness, since `writeText` sets no deadline: a
peer that stops reading keeps its handler in the map, which `ClosedLeaves`
excepts, and holds up no publisher, which `PublishEnds` says. Events are bounded
by `MaxEvents`; in Go the select picks at random among what is ready, so
`ClosedLeaves` does not rest on the end of the events.

## 8. The agent, the plan and the gate

**State.** `stub` and `dryRun` are the mode of the client and of the call;
`messages`, `toolUses`, `toolResults`, `planned`, `blocked`, `observedReads` are
the locals of `runDiagnosis`; `running` are the goroutines of the round;
`row` is the plan `POST /exec/plan` inserts. The model's answers are free: any
tool, listed or not, any number of calls up to `MaxUses`, or text that parses or
does not. A call is named by its `Place`, round and place in the reply: it
stands for the command of a planned action and for an entry of `observedReads` (in
the code the tool's name and " called"), so the properties can tell calls of one
tool apart.

**Actions.** `AskForTools`, `AskForText`, `InferenceFails` are the outcomes of one
request to the model, `ExecuteTool(i)` is the goroutine of one call with its one
visit to `stateMu`, `WaitForTools` is `group.Wait` and what follows. `Cancel` ends the
context anywhere. `Return` hands the result to `POST /exec/plan` (`StorePlan`, whose
insert may fail, applied or not) or to another caller. `EvalGate` is such a
caller: `DiagnoseSample`, `TakeDiagnosis`, `ScoreSample`, with a judge that may fail
or score out of range.

**Run.** `agent`: three rounds (the code's five only repeat the third), two calls
at once (the smallest number with a race), two read tools, one write tool, one
that is not listed, and baselines of up to two samples.
`PreconditionsWereObserved` bounds from both sides what a planned action says was
read before it: every read of the earlier rounds, each once and in order, and none
of a later round. `BooksMatchConversation`, `PreconditionsWereObserved`,
`PlanOfCleanRun`, `VerdictMatchesCards`; under `WF(Run)` (goroutines are
scheduled, a request to the model returns or times out) `RunEnds`.

What the code leaves open: two write calls of one reply are planned in the order
in which their goroutines reach `stateMu`, and this is the order in which the
plan is executed later; and a run that is cut off after five rounds
("truncated") becomes a plan like any other.

## 9. The migrations

**State.** `recorded` are the rows of `schema_migrations`, `present` the
migrations whose objects are in the database, `byHand` those somebody made with
psql, `broken` those whose text PostgreSQL refuses, `tracked` whether the table of
the rows is there; `pc`, `files`, `applied`, `next` are each server's place in `RunMigrations`
and its locals. `bodies` is history.

**Actions.** One round trip each. `EnsureTable` and `CreateTable` are CREATE TABLE
IF NOT EXISTS (`migrations.go:64`): it looks first and creates then, so of two
servers that found nothing one fails on a key of the catalog. A transaction is
`ExecBody`, `InsertRecord`, `Commit`; it holds the lock on what it creates
(`Creating`) and on the key of its row (`Inserting`), so a second server waits,
and then fails: on the objects if the body is plain, as 0001 is, or on the key. A
body of `broken` fails whoever sends it. Any error ends the server, which is
started again (`Restart`). `Fault` is an error of the database or a kill, and
rolls back; a `Commit` may be applied and its answer lost. Nothing in the
repository calls `RunMigrations` besides the tests; the model takes any servers
that do.

**Run.** `migrations`: three servers, one of which knows the first two of three
migrations only; the first is plain; no file, the first or the last is broken; one
fault. Two servers race on a row and the third
comes in between; a second fault costs only another restart. `NeverHalfMigrated`,
`RecordedInOrder`, `AppliedOnce`; under `WF(Run(s))` (a server
that is down is started again, a lock is given to whoever waits for it)
`AllComeUp`: the failures that servers cause each other come to an end, and all
servers are up whose lists hold no broken file.

The proviso matters for this repository: `db/migrations/0001_init.sql:95-98` ends
the column list of `analyses` with a comma (and two lines of comment) before the
closing parenthesis. PostgreSQL refuses that at every start. The repository as it
stands is the case of `broken` with file 1 in it: no server comes up on an empty
database, and but for an empty `schema_migrations` nothing is left behind, as
`NeverHalfMigrated` says. What
`AllComeUp` says of sound files holds once the comma is gone.

What the code does besides: an unreadable directory counts as empty and
`RunMigrations` returns nil (`migrations.go:47`); a database that was prepared
as `Makefile:60` says ("psql -f db/migrations/*.sql") has no rows, so 0001 fails
at every start, which `AllComeUp` excepts.

## 10. Proofs

`ExecPlanProofs` proves for all constants that satisfy `ConfigAssumption` and
`RequestAssumption`, with faults and crashes:

| Theorem | Property |
|---|---|
| `TypeCorrect` | `TypeOK`: the counters of a request stay within its plan |
| `ApprovalFirst` | `NoCallBeforeApproval` |
| `StartedOnce` | `SingleBegin` |
| `TrailTruthful` | `AuditTruthful` |
| `NoPlanResurrected` | `NoResurrection`, an action property |
| `AbandonedForGood` | `AbandonedIsLeft`, an action property |
| `OvershootBounded` | `RateLimitOvershoot` |
| `CallsAudited` | `EveryCallAudited`, where `DBFaults` is false |

`TypeOK` alone is not inductive: that `calls[r][seq[r]]` stays below 3 needs what
each `pc` says of the loop index and of the calls made so far, and the
approval has to be carried from `GetPlan` through every later step. The
invariant of the module adds these facts, the relation between `begun` and
`status` that makes the compare-and-set exclusive, and who stands behind each
audit row. Each action has its own lemma.

The rate limit needs an invariant of its own. `Room` says that
the executions of the last hour and the requests of the account between the
check and the start (`AtBegin`) are together at most `RateLimit + MaxInFlight - 1`:
a request only enters that window under the limit, when the others in flight
are at most `MaxInFlight - 1`, and a start takes it out of the window and into the
count.

`EveryCallAudited` is only true of a store that does not fail: the theorem has
`~DBFaults` as its hypothesis, `exec_race` is that configuration. The argument is
that a request which is past `begin` found the plan started, by itself or by the
request it lost to, and that a started plan has a row for each of its actions.

`AbandonedForGood` rests on `OwnPlan`, that a request writes nothing but rows of its
own plan, and on `BeforeTheCheck`, that a request which has not come past the check
of the status changes neither rows nor cloud; in a running plan none gets past it.

**How long a call takes.** Liveness is out of the prover's reach, but half of it is
a safety property: a number that each step of a call lowers, that no other step
raises, and that begins at a known value. With it, a call that is scheduled
comes to its end; that it is scheduled is the fairness the runs assume.

| Theorem | Steps, at most | Property it is half of |
|---|---|---|
| `RequestsAreBounded` | 4n + 5 of an execute request on a plan of n actions | `RequestEnds` |
| `RunsAreBounded` | `maxToolIterations * (MaxUses + 2) + 3` of a diagnosis | `RunEnds` |
| `GetsRunOut` | 6 of a `Get` and the goroutine it starts | `GetEnds` of `StsCache` |
| `PublishesRunOut` | one for each client found, and the unlock | `PublishEnds` |
| `CyclesAreBounded` | `BatchSize` rows of a cycle of the worker | `RunningWorkerDrains` |
| `StopHasItsWay` | the return of the loop and that of the wait | `CallsEnd` |
| `RacersMakeProgress` | a failed start for the table and for each row that others make | `AllComeUp` |

Where a call waits for another, the theorem also says for whom. `WaitsForAGoroutine`:
a waiting `Get` waits for a goroutine that needs nobody. `LoopIsTold`: the loop Stop
waits for has been cancelled. `NoCircularWait`: among servers that wait for each
other's locks one does not wait. `SomeRowIsNext`: the batch always has a row that
is ahead of the others, since the order of the query is total
(`NewerIsOrder`); that the batch has no more rows than the LIMIT is a count of
places in that order (`LimitIsKept`).

`ExecLedgerProofs` proves what holds of a plan as a whole. Two handlers that serve
one plan do mix their writes (`exec.go:345` goes on after a lost race), so its
theorems have the hypotheses the comments of `ExecPlan` name: `[]NoOverlap`, that
no two handlers serve one plan at the same time, which is a hypothesis on the
behaviour and not on the code, and `Reliable`, that no round trip to the store
fails and compensated rows can be marked. Handlers may still be cut off
anywhere, executors and compensations may fail, and different plans are served
concurrently.

| Theorem | Property |
|---|---|
| `StatusSupported` | `StatusMatchesAudit` |
| `PlanImplementsLedger` | `LedgerSpec`: each step is a step of `ExecLedger` or a stutter |
| `ReadersSeeTheTrail` | `TrailNotBehindStatus`, of `ExecView` |
| `SerialServer` | with `MaxInFlight = 1` the hypothesis holds, and with it `LedgerSpec` and `StatusMatchesAudit` |

The invariant is `SerialInv`. `SerialOK` says, at each `pc` of a request, what the
audit rows of its plan are: the actions before the loop's have succeeded and
the others are pending (`RowsInRun`), or the one after the last success has
failed (`RowsFailed`) and the compensations have gone down to a given action
(`UndoneFrom`). `FinalOK` says what a final status means for the rows once no
request is there any more; a plan whose handler was cut off stays `running`. Both
are needed: the status is written from what the handler remembers, not from
the rows. `exec_serial` shows the same three properties on an instance with one
request in flight. For the reader,
`ViewInv` says what the row it has read bounds: a final row is not written any
more, and a started plan does not go back.

`AlertPipelineProofs` proves `TypeCorrect`, `NoDuplicate` (`OneRowPerStampedEvent`),
`NothingAckedIsLost` (`AckedIsStored`), `AckComesFirst` (`VerdictNeedsAck`) and
`ProcessedStaysProcessed` (`OnlyLateWriteReopens`) for any number of rows,
events and operators. `VerdictNeedsAck` becomes inductive with `RequestsLegal`,
what a request remembers of its row (a legal transition, of a row that
exists, read from an acknowledged status only if the row was acknowledged), and
`AckedFirst`, which adds the status "acknowledged" itself. `OneRowPerStampedEvent`
needs `StampedRows`: a stamped row has the stamp of its event as its key.

`StsCacheProofs` proves `TypeCorrect`, `OneAtATime` (`OneAssumeRole`) and
`DroppedIsNotJoined` (`NoDroppedToken`) for any calls and accounts. The
invariant says that the map holds exactly the calls that have not left it, that
a `Get` past its wait has joined a call that is done, and that a token in the
store, or about to be stored, is of a call that is done. With it, a call whose
token was dropped is no longer in the map, so no `Get` can join it any more.

`WsHubProofs` proves `TypeCorrect`, `NoPanic` (`NoSendOnClosed`) and
`DashboardInOrder` (`EventsInOrder`) for any connections, publishers, events and
capacity. `LoopHoldsLock`, that a loop under way ranges over clients of the hub
only, is what the read lock gives, and with `TypeOK`, which says that a closed
channel belongs to no client of the map, it gives `NoPanic`. `EventsInOrder` needs
`Numbered`: what a client has of a publisher is older than the event that is
about to be sent to it. On both rests `HubIsStream` (`StreamSpec`): a `Publish` is the
stream's `Emit`, a `Write` that succeeds its `Deliver`, the two writers of the map
are `Subscribe` and `Drop`, and every other step is a stutter.

Of `WorkerLifecycle`, `AlertPipelineProofs` proves `LifecycleTypes`, `SingleLoop`
(`OneLoop`), `StopWaits` (`StopJoins`), `LifecycleAckFirst` (`VerdictNeedsAck`) and
`LifecycleStaysProcessed` (`OnlyLateWriteReopens`) for any callers, loops and rows.
The invariant `LInv` adds to that of the table `CancelCovers` (whichever loop runs,
`w.cancel` is its own, so Start launches none beside it), `HolderWaits` (who waits
holds the mutex), `StoppedIsOff`, `TodoOfMarks` (only a loop in its marks has rows to
come to) and `LiveRuns`. `LifecycleRefines` (`AlertSpec`) rests on it:
by `RunningLoopIsWorker` the loop that runs, if one does, is the worker that
`AlertPipeline` sees, with its batch. Without `CancelCovers` two loops could
start, poll and mark beside each other, and without `TodoOfMarks` a launched loop could
begin with a batch; neither is a step of `AlertPipeline`.

`DiagnosisProofs` proves `TypeCorrect`, `CleanPlans` (`PlanOfCleanRun`),
`BooksAreRight` (`BooksMatchConversation`) and `PreconditionsObserved`
(`PreconditionsWereObserved`) for any tools, rounds and calls per reply. The first
two need `Progress`, what each `pc` says of the round and of the row. For the
third, `Entered` says what one served call leaves behind; `RoundEntered` has it
for the goroutines that have returned as long as none failed, `RoundsEntered` for
the conversation, and `Distinct` and `InOrder` say that no entry is there twice or
of a call still to be served. The fourth needs `PreInv`: `ReadsEntered` and
`ReadsInOrder` say that the book of reads holds calls that were made, each once,
in the order of the rounds, `AllReads` that a dry run misses none of the rounds
before and of the goroutines that have returned, and `PlannedReads` that what a
planned action copied is a beginning of that list, which only grows.

The evaluation gate is a caller of the same agent, with a specification of its
own. `EveryCaller` proves the four properties of `GateSpec` as well: `GateCalls` says
that the gate's client has no API key, so each of its diagnoses is the stub and
leaves messages, books and row as they were, and the next one begins at rest.
`VerdictIsEarned` proves `VerdictMatchesCards`: the gate passes or warns exactly on a
full baseline of valid cards whose total reaches the threshold. `SumOfCards` carries
the partial sums of the cards along with the gate's `sum`. That they are the
recursive total of the property, `CardTotals`, is shown by the least prefix at which the
two would part (`CardTotalsIsSum`): naturals are well-founded, so no induction
principle has to be instantiated.

`MigrationsProofs` proves `TypeCorrect`, `AllOrNothing` (`NeverHalfMigrated`),
`NoGap` (`RecordedInOrder`), `CommittedOnce` (`AppliedOnce`) and `UpIsMigrated`
(`UpMeansMigrated`) for any servers, releases and faults. The invariant adds
`Known`, what a server's loop has gone past is recorded, and a row about to be
committed is not, and `OneInserter`, what the unique key gives. For
`RacersMakeProgress`, `NotYetKnown` says that the file in work is none the server
read as recorded, so a row it stumbles over is new. A server fails without a fault for
one of four reasons: another has made the table since it looked, another has recorded
the file since it read the rows, somebody made the objects of a plain file by hand, or
the file has an error. The first two cost each server one start for the table and one for a row; the
others never end.

`TTLCacheProofs` proves `TypeCorrect`, `OneFetch` (`SingleFetch`) and `NothingStale`
(`NoStaleFuture`) for any calls and keys. `Owned` says that a task between its
entry in `_in_flight` and the removal of it is the entry of its key; three lemmas
say what joining and leaving the lock's queue do to it. `LockIsGivenUp` proves that
the lock is with a task that awaits a shared future inside of it, or with nobody.
`JoinedFetchHangs` proves what `ttl_deadlock` shows on an instance: while a task
awaits a pending future with the lock in its hand, nothing that any other task does
ends the wait, for any calls and keys. It is ended by the cancellation of that very
task.

The type invariants, and `UpMeansMigrated`, which follows from one guard, are
proved for every value of the constants and therefore in no run.

Only model-checked: every liveness property (`RunningEnds`, `RequestEnds`, `RunEnds`,
`CallsEnd`, `RunningWorkerDrains`, `AllComeUp`, `GetEnds`, `PublishEnds`, `ClosedLeaves`):
fairness and ENABLED are out of the prover's reach. Every other property of a run
that passes is a theorem.

## 11. Where code and documents part

| Run | The code | The claim |
|---|---|---|
| `exec_refused` | `exec.go:345-359` replies to an error of `BeginExecution` and does not return: a request refused with 409 runs the actions | only an approved plan runs (`internal/agent/tools.go:100`) |
| `ttl_deadlock` | `cache.py:53` awaits under the lock | concurrent gets share one fetch (`cache.py:27`) |

The models show further disagreements, which no run of their own repeats. In
`AlertTable`, `WriteStatus` follows `incidents.go:89`, which updates by id alone:
of two racing operators the later makes a transition that `incidents.go:14` says
is refused. `MarkRow` follows `loop.go:27`, which writes "analyzed" over
suppressed, maintenance and resolved, while `incidents.go:3` leaves these by
replay only. What remains of the graph is `VerdictNeedsAck`. A failed
`BeginExecution` also leads a plan from `approved` to `completed` without an audit
row, which is why `EveryCallAudited` is checked without store faults. The second
of two racing executions rewrites the final status of the first
(`exec_store.go:242`); what remains true is `NoResurrection`. The rate limit is
exceeded by racing requests (`exec.go:328-345`); `RateLimitOvershoot` says by how
much, and the bound is tight. `validTransitions` has no way out of `analyzed`, so
the replay of a processed alert is refused although `incidents.go:100` speaks of
one; what remains is `OnlyLateWriteReopens`. An alert without an RFC3339
`created_at` is stamped with the time of arrival (`webhook.go:126`), so a second
push of it is a second row, although migration 0001 (line 59) calls the same
alert_id no duplicate; what remains is `OneRowPerStampedEvent`. `RunMigrations`
"applies every *.sql file in dir" (`migrations.go:14`), but the first of the
shipped ones is not SQL that PostgreSQL accepts (section 9).

## 12. Not modelled

* Parsing, JSON, signatures and metrics: a refused input changes nothing. The
  contents of plans, alerts, tokens, prompts and scorecards.
* The action trail the agent reads before its loop (`internal/agent/context.go`):
  best effort, text for the model.
* Sessions (`internal/auth/`): one map under one lock, which the middleware reads
  once per request, before the handler. No two steps of a request depend on it. The map only
  shrinks on logout: sessions that expired stay until the process ends.
* Rules CRUD, the read and list handlers: one statement each.
* The WebSocket handshake and frames, and the lazy creation of the hub.
* The age of values in the Python cache: a fetch that began before `invalidate`
  stores its value after it (`cache.py:71`), for the TTL at most.
* The Python reference implementation beyond its cache; configuration, logging,
  the dashboard.

A definition named `Mutant...` is no part of a specification. It stands before
the definition it imitates and changes it the way a plausible bug would; the
property named with it in `PROJECT.json` tells the two apart.
