# Verification of goscrapyd

TLA+ models of [goscrapyd](../src/README.md), a web application that manages Scrapyd nodes: what
its tables, its in-memory scheduler, its HTTP handlers and its pollers do to each other when they
overlap, fail and restart. TLC checks the models on small instances; TLAPS proves theorems about
them for every instance.

    tlc -workers 2 -config TaskExclusive.cfg MCTaskLifecycle
    tlapm TaskLifecycleProofs.tla

`PROJECT.json` names the module and configuration of every run.

Paths below are relative to `src/`; `web/` stands for `cmd/web/`, `db/` for `internal/database/`.

## 1. The system

One Go process serves pages, runs cron tasks and polls nodes. Its state is one SQLite file (it
survives a crash), a gocron scheduler, and a few in-memory structures (they do not).

| component | state | operations | talks to |
|---|---|---|---|
| **Tasks** `web/scheduler.go`, `web/helpers.go`, `web/task.go`, `db/tasks.sql.go` | `tasks` table; the scheduler's jobs, one per unpaused task, under the same UUID | create, import, list, edit, stop, restart, delete, bulk stop and delete, fire; load on start | scheduler, `tasks`, `scrapyd_nodes` (foreign key with cascades) |
| **Runs** `web/task.go` | a task's `JobID`, `SpiderValues` (shared by its runs), its `settings` mutex | `beforeJobRuns`, `fireFunc`, `afterTaskRunsWithError`; called by gocron or by "fire" | `jobs`, Scrapyd `schedule.json` |
| **Jobs** `db/jobs.sql.go`, `web/handlers.go` | `jobs` table | `InsertJob` (an upsert), `SetErrorWhereJobId`, `SetStoppedByOnJob`, `SoftDeleteJob` | runs, pollers, clients |
| **Pollers** `web/polling.go` | a snapshot each: logparser statistics, then the lists of jobs | `requestScrapydWorkInfo`, from the cycle (`updateAllNodesSchedule`) and from each load of a jobs page | Scrapyd, logparser, `jobs` |
| **Nodes** `web/handlers.go`, `web/helpers.go`, `db/scrapyd_nodes.sql.go` | `scrapyd_nodes` table | add, edit (rename), delete, list with one worker pool per load | Scrapyd `daemonstatus.json`; cascades into `tasks` and `jobs` |
| **Deploy** `web/deploy.go` | `globalMu`; the form's values in a cookie | form, event stream that builds an egg and sends it to every chosen node through a worker pool | Python, Scrapyd `addversion.json` |
| **Server** `web/main.go`, `web/server.go` | the database pool, the scheduler, one or two `http.Server`s | start (migrate, `loadTasksOnStart`, schedule the cycle), graceful shutdown | everything |
| **Rate limiter** `web/middlewares.go`, `web/routes.go` | for each route a map of limiters by IP, a mutex | admit a request, evict idle clients | - |
| **Settings, users, session** `web/settings.go`, `web/users.go` | `settings`, `users` tables; session cookie | save, login, logout, add, edit, delete | - |

Pure code (decoding, validation, templates, cookies, password hashing) keeps no state.

What is hard in it:

* *Interleaving.* A handler touches the scheduler and then the table, or the table and then the
  scheduler, in separate calls with no lock and no transaction around them. Any other handler may
  run in between.
* *Partial failure.* Every database call has a timeout and a request context; a handler whose
  second call fails returns and undoes nothing.
* *Crash and restart.* The scheduler's jobs are rebuilt from the table, and only from it.
* *Stale snapshots.* Pollers do not exclude each other. The only protection of a row is the
  `WHERE` clause of the upsert, on a timestamp the logparser assigns.
* *Per-connection state.* `PRAGMA foreign_keys = ON` holds for one connection of a pool.

What makes each component correct, in the terms in which it is checked:

* Tasks: what a client was told holds, over crashes, until a client asks for something else. A
  stopped task does not run, a deleted one is gone, an acknowledged one runs the configuration its
  row has. The server can always start. A job that runs has a row through which it can be stopped.
* Jobs: the table never shows more than Scrapyd did, does not go back, keeps who started and
  stopped a job, leaves deleted jobs alone, and catches up in the end.
* Nodes: whatever becomes of them, a task that was answered as running keeps its schedule, and is not lost
  from the scheduler.
* Deploy: one deployment at a time, one result per node, and the event stream ends.
* Cycle: every reachable node is polled in every round, and the next round comes.
* Rate limiter: no client gets more than its rate on a route, evicted or not.
* Server: a request in progress finds its database open.

`PROJECT.json` has the full list of hazards, each at its line, with the properties that cover it.

## 2. Modules

| module | models | state |
|---|---|---|
| `TaskLifecycle` | tasks: table, scheduler, handlers, nodes table, crash, start | `row`, `sched`, `req`, `nodes`, `server`; history `seen`, `told` |
| `MCTaskLifecycle` | its instance for TLC (symmetry) | |
| `TaskLifecycleProofs` | its theorems | |
| `JobTable` | a row of `jobs` and the statements that change it, as functions | - |
| `JobHistory` | runs, pollers, clients, Scrapyd and logparser around that table | `table`, `run`, `poll`, `stop`; environment `scrapyd`, `stat`, `now` |
| `JobHistoryProofs` | the theorems about both | |
| `TokenBucket` | abstract: one bucket for each key, nothing evicted | `bucket`, `answer` |
| `RateLimiter` | the `rateLimit` middleware: maps, requests, eviction; implements `TokenBucket` | `clients`, `answer`; history `elapsed`, `admitted` |
| `RateLimiterProofs` | its theorems, with the refinement | |
| `TaskRuns` | the runs of one scheduler job, which share its fields | `job`, `request`, `node`, `jobID`, `values`, `run`, `rows`, `asked`, `now`; history `overtaken` |
| `WorkerPool` | the channels and workers of one request, as functions | - |
| `NodePoll` | the polling cycle and the nodes page, with a `WorkerPool` | `nodes`, `health`, `cycle`, `page`; history `steady` |
| `SerialDeploy` | abstract: deployments one after the other, each node once | `current`, `log` |
| `Deploy` | form, cookie, event stream, lock, `WorkerPool`; implements `SerialDeploy` | `cookie`, `pages`, `chosen`, `stream`, `mu`, `log` |
| `Server` | start, serving, signals, shutdown, of one server or two | `stage`, `at`, `told`, `active`, `running`, `scheduler`, `statements`, `process` |
| `Accounts`, `MCAccounts` | users, sessions, settings; the instance for TLC (symmetry) | `users`, `settings`, `cookie`, `req`; history `crossed`, `outdated` |
| `JobPages` | the pages of a node's jobs, their two queries, and a client's walk | `rows`, `walk`; history `steady`, `shrunk` |
| `TaskRunsProofs`, `JobPagesProofs`, `ServerProofs`, `AccountsProofs` | theorems about the module of that name | |
| `WorkerPoolProofs` | lemmas about pools, theorems about `NodePoll` and `Deploy` | |

`TaskLifecycle` and `JobHistory` share no variable: the first knows which tasks are scheduled, the
second what one run and the polls do to a row. `TaskRuns` composes the two where they meet, at one
scheduler job: it has the job's creation and removal (from `TaskLifecycle`'s handlers), the rows of
`JobTable`, and between them all of the job's runs. `Deploy` and `NodePoll` both extend `WorkerPool`,
which declares the nodes and the number of workers for both. `WorkerPoolProofs` extends the two, so that
the lemmas about a pool are there once; for that the specification of `NodePoll` is called `PollSpec`.

### TaskLifecycle

A handler occupies a slot of `req` from its request to its answer. `at` names the call it makes
next, so that each action is one call to the scheduler or to the database and everything may happen
between two of them:

| handler | actions |
|---|---|
| `createNewTask` | `BeginCreate`, then per node `CreateJob` (scheduler first), `CreateInsert` (row second) |
| `importScrapydWebTimeTasksExport` | `ImportTask` |
| `stopTask`, `deleteTask` | `BeginOne`, `RemoveJob`, `PauseRow`, and for a delete `DropRow` |
| `doBulkAction` | `BeginBulk`, per task `BulkItem` and then as above |
| `editTask` | `BeginEdit`, `EditCheck` (is it running?), `EditUpdate`, `EditWrite` |
| `restartTask` | `BeginOne`, `RestartRead`, `RestartJob`, `RestartUnpause` |
| `loadTasksOnStart` | `Boot`; refuses to start on a cron string gocron refuses |
| node pages | `AddNode`, `DeleteNode`, `RenameNode` with the foreign key's cascades |
| any | `DatabaseFails`, `Crash` |

`told` is what the last handler that finished on a task established ("running", "stopped",
"deleted"), or "none" once something is under way that may change it. It is what a client may rely
on, and the safety properties are stated with it. `seen` is the set of tasks a client can name.

Data that no property needs is gone: a task is a cron string and a node, three sets of cron
strings stand for the two parsers (`cron.ParseStandard` for forms and imports, gocron's own for the
scheduler, which refuses some of what the first accepts). An import asks the first only of a line that
has all five columns of a schedule (`web/handlers.go:709`); of any other it stores the empty string,
which is `Unscheduled`, and neither parser accepts it. Imported tasks are paused, so that it matters
first to a restart.

`Exclusive` is the discipline of the clients: operations that nobody overlaps with another
operation on the same task. The code has none (`Exclusive = {}`), and without it `StopHolds` and
`RunHolds` fail (section 5). With `edit` and `restart` exclusive, everything holds while the nodes
stand still. What is left of `RunHolds` when they do not is `RunKeepsSchedule`: a rename reaches a
task's row by cascade and not its job, and may not reach the row either without the pragma, but no
statement on nodes touches when a task runs. Stops, deletes and bulk
actions may overlap one another and themselves in either case.

External: gocron. `NewJob` with an identifier that exists replaces the job. What `Update` does with
a definition it refuses, or for an unknown identifier, is not visible in this repository, so
`UpdateOutcomes` allows each: an error that leaves the job, an error that costs it, a new job.

### JobTable and JobHistory

`JobTable` has the upsert of `insertJob` clause by clause: refused if the row is deleted or its
`update_time` is later (`Accepted`), otherwise status and `update_time` overwritten, the rest
coalesced. `NULL` and Go's zero time are different values, as they are in the table. Of the columns only those
a property asks about are kept: status, the two times, `deleted`, and whether `task_id`,
`started_by` and `stopped_by` are set.

`JobHistory` has a run, of a cron task or of a one-time job (`OneTime`; the first inserts its row
with its task, the second with its user) (`BeforeJobRuns`, `InsertRun`, `SendRun`, `RecordError`), a poller
(`ReadStats`, `ReadList`, and one `WriteJob` per job: pending, running, finished), the handlers
`DeleteJob`, `SendCancel`/`RecordStop` (the answer of either of Scrapyd's requests may be lost after
it took effect), and an environment: Scrapyd moves a job from pending to
running to finished and may drop it; the logparser parses logs, each time with a later time, and
may drop statistics. Time is counted in rounds of the logparser; 0 is Go's zero time, the
`update_time` of a row without statistics.

### TokenBucket and RateLimiter

`rateLimit` makes its map where it wraps a handler, and `alice` calls it once for each route, so the
map is a route's. A request (`Request`) finds or makes its client's limiter, sets `lastSeen` and asks
the limiter; the goroutine (`Sweep`) drops the clients unseen for three minutes. Both hold the mutex
throughout, so each is one action. Time is counted in ticks, `PerToken` of which are worth a token;
`away` is `time.Since(lastSeen)`, counted no further than the comparison needs. The model sweeps at
any moment, which includes every minute. External: `golang.org/x/time/rate`, as a bucket that refills
with time. Not modelled: `limiter.enabled = false`, where the middleware does nothing, and the
rounding of a rate kept in floating point.

`TokenBucket` is what a limiter promises: a bucket for each route and client that is never dropped
and never made anew. The mapping takes a client without an entry for a full bucket, which is what it
finds when it comes back.

### TaskRuns

One scheduler job, a task's or a one-time job's (`kind`), from `createNewTask` or `fireSpider` to its
removal, with all of its runs. A run is `SetJobID`, `SetValues` (the two writes of `beforeJobRuns`
under the mutex), `InsertRun`, `EncodeRequest`, `SendRequest` and one of the listeners
(`AfterSuccess`, `RecordError`); the last four read `JobID` or `SpiderValues` without the mutex.
`EncodeRequest` beside a run between its two writes is a data race: it may read either id, and Go may
end the process (`MapRace`, `Crash`). Time is counted in the seconds of which ids are made, so that two
runs that begin in one second have one id and one row. A call ends within its `Timeout`, which is what
`InTime` lets the clock wait for. External: gocron, which calls the listeners before and after a run
and starts the cron's runs on time.

Nothing keeps the runs of a task apart: a run and its error listener have 30 seconds each, a cron may
fire every minute or, with `@every`, every second, gocron does not wait for a run to end, and clients
fire tasks when they like. The module has no assumption on `Period` and `Timeout` and no discipline.
`overtaken` is the history of it: the runs that had drawn an id when another run drew a later one, and
the properties say what such a run may still be trusted with.

`node` is the task's node. It may be deleted or renamed under the runs, once, and not come back. From
then on `makeRequestToScrapyd` answers `sql.ErrNoRows`, which the error listener takes for a refused
insert and does not record (`noRows`). Whether cascades and foreign keys apply depends on the
connection a statement gets (`FkModes`), here too. After a rename and a restart of the server the task
has the new name, and its runs are those of another job.

### WorkerPool, NodePoll and Deploy

A `WorkerPool` is a record: the jobs in the channel, those in the workers' hands, the results sent,
and how many the handler still waits for. `listScrapydNodes`, `htmxListOnlineNodes` and
`buildAndDeployEggSSE` each make one.

`NodePoll` has the cycle (`Fire`, `ListNodes`, per node `AskStatus` and `StatusAnswered`, `AllAsked`,
per node `StartPoll` and `EndPoll`, `Wait`), one load of a page, the nodes pages that change the table
beneath both, and nodes that are up, unwell, down or stuck. Both look a node up again, by name, when
they make its request. `Broken` are nodes whose request can never be made.

`Deploy` has a client's form (`SubmitForm`), the page's event source, which connects (`Connect`) as
often as its connection breaks, with whatever cookie the client then has, and the handler: `TryLock`,
`Lock`, `ReadCookie`, `BuildEgg`, the workers, `Received`, `Complete`. `log` is for each node the eggs
that Scrapyd took; that an answer is lost after it did is `EggTaken` followed by `WorkerSends` in any
case. `pages` has for each client the forms whose pages it was sent, in the order of the answers; any of
these pages may connect, and what it deploys is its own form or a later one of the same client
(`ShownIsDeployed`). The abstract `SerialDeploy` opens a deployment, lets nodes accept its egg once each,
and closes it.

### Server, Accounts, JobPages

`Server` is the order of `run` (database, statements, scheduler, tasks, cycle, serve) with a failing
start at each point, and for each server the `serve` that waits for a signal, drains, stops the
scheduler and closes the statements. Two deadlines and `os/signal` (which kills the process if nobody
asked for signals yet) are part of it.

`Accounts`: a request carries its browser's cookie; `Admit` and `TurnAway` are the middlewares
(`authenticate`, `requireAuthenticatedUser`, `requireAnonymousUser`, `requirePermission`), each further
action is one statement of a handler, and `Answered` is the arrival of the answer with its cookie: the
whole session is in it. Requests overlap in any way. Two history variables say which did: `crossed`, the
edits whose row another edit has written since they read it, and `outdated`, the requests whose browser
has got another session since they were sent.

`JobPages` takes the queries as functions of the table (`GetJobsForNode`, `GetTotalJobCountForNode`,
SQLite's order of ties included) and walks over the pages, two statements for each,
while rows come, finish, fail and are deleted.

## 3. Runs

| run | instance | shows |
|---|---|---|
| `task_exclusive` | 2 tasks, 2 handlers, a schedulable and an unschedulable cron string, one failing call, all operations, crashes | `StopHolds`, `DeleteHolds`, `RunHolds`, `SeenJobsHaveRows`, `BootNeverRefused` |
| `task_nodes` | 1 task, 2 nodes, 2 handlers, 3 cron strings, connections with and without foreign keys, 2 changes of the nodes table, one failing call, crashes | `StopHolds`, `RunKeepsSchedule` |
| `job_polls` | 1 one-time job, 2 pollers, one failure, every event | `UpdateTimeMonotone`, `DeletedJobsFrozen`, `UsersKept`, `NeverAhead`, `OwnJobsAttributed` |
| `job_liveness` | 1 job, 2 pollers, one failure | `FinishedShown`, `ScheduledResolves` |
| `rate_limit` | 1 route, 2 clients, a bucket that fills in exactly the time after which a client is dropped | `RouteRate`, `Implements` (refinement of `TokenBucket`), `IdleDropped` |
| `task_runs` | 2 runs of a cron task or a one-time job, that may overlap; seconds 0 to 2, a period and timeouts of 1, connections with and without foreign keys, one failure or one change of the node | `RunKeepsItsId`, `AskedHaveRows`, `FailuresShown`, `RunsEnd` |
| `node_poll` | 2 names, 1 worker, 2 changes of the nodes table, one failing statement | `CycleCovers`, `PageComplete`, `SteadyPolled`, `PageEnds` |
| `deploy` | 2 clients, 2 nodes, 2 versions, 2 streams, 2 workers | `NodesAgree`, `Implements` (refinement of `SerialDeploy`), `CompleteMeansAll`, `ShownIsDeployed`, `StreamsEnd` |
| `server` | 1 or 2 servers, 2 requests, 2 runs, 2 signals | `RequestsServed`, `RunsServed`, `CleanEnds`, `SignalEnds` |
| `accounts` | 2 users, 2 browsers, 2 requests at a time, 4 in all, one failure | `OneSettings`, `PasswordsAsAsked`, `DeletedUsersStay`, `SessionsFollowLogins` |
| `job_pages` | pages of 2 rows, 4 rows, 2 changes during a walk, one failure | `WalkShowsAll`, `LinksLeadSomewhere` |
| `task_stop_race` | 1 task, 2 handlers | the disagreement of section 5 |

Why these bounds. A handler works on one task at a time and two handlers conflict only on one, so
two handlers and two tasks have every pair of steps, a bulk action over both tasks, and one task as
bystander. The nodes run needs only one task, since a cascade treats each row alone, and two names,
so that a rename has a target; it has two schedulable cron strings, so that an edit can change one. A
poller's write is wrong only against one other writer of the same
row, so two pollers suffice, and the second is the one without fairness. The limiters of two routes or clients never touch
each other, so one route with two clients (a sweep that drops one and keeps the other) is enough, and
`Full = Idle + 1` is the largest bucket for which the theorem of section 6 holds. Two ticks of the logparser
give a stale, a current and a zero stamp. One failure is enough to separate a handler's first half
from its second; a second failure would be needed only to fail the recording of the first
(`RecordError`), after which the row does stay scheduled. Two runs, two streams, two
requests or two clients are enough where one actor can harm only one other: each writes the other's
fields, lock or row directly, and a third would do what the second does. In `task_runs` the period is
the shortest there is: the cron fires in the seconds 1 and 2, a run of the first may be at any of its
calls when the second one begins, and a fired run may share either's second. Longer timeouts only
stretch a run over more ticks of the same kind. `MaxFaults` counts failing statements, crashes and the
change of the node together, since each of them alone takes a promise away; Scrapyd's refusals and lost
answers are not counted. In `deploy` the second
stream may be another client's, the first one's reconnection, or that of the client's other page. In
`accounts` four requests are a login and, behind it, a pair that races (edit and delete, edit and edit,
save and save, a page and a logout) with one more request around it; one request more does not change
which pairs exist. In `job_pages` four rows are two full pages, so that
the count sits on the boundary. `MaxFaults`, `MaxNodeChanges`, `MaxChanges`, `MaxStamp`, `MaxTime`,
`MaxSignals`, `MaxRequests`, `MaxRows`, `MaxFinish` and `MaxWindow` (the longest window of admissions)
are the only bounds on behaviours. Symmetry is used only in runs without liveness.

Deadlock is checked in the runs of `TaskLifecycle`, `JobHistory`, `RateLimiter` and `NodePoll`, where the
environment can always move or the bounds were reached with handlers that can still begin. It is not
checked where the system really stops: a `Server` ends, and in `TaskRuns`, `Deploy`, `Accounts` and
`JobPages` all slots for runs, streams, requests or changes may be used up. What must not stop there
is stated as liveness (`RunsEnd`, `StreamsEnd`, `SignalEnds`).

The runs are about behaviour. Type invariants, and the invariants that only carry a proof
(`Coherent`, `Informed`, `StampsBounded`, `PageDrained`, `QuietWhenUnlocked`, `FirstSaveOnce`), are
theorems of section 6 or steps of their proofs, and are not repeated in the runs. Every safety
property and action property of a run is the subject of a theorem; the runs show that what the
theorems say is not void, and their mutants that the code could break it.

Every property of a passing run has a mutant, a faulty variant of one definition kept beside it
(`LockForgotten`, `...Swapped`, `AcceptedStrictly`), under which TLC finds the property violated.

## 4. Fairness

The runs with a temporal property use `FairSpec`. In `JobHistory`:

* `WF(PollStep(Cycle))`: gocron starts `updateAllNodesSchedule` again and again (`web/main.go`) and
  a started cycle goes on. The page poller has no fairness: nobody need load a page.
* `WF(RunStep(j))`: a run that gocron has started is a goroutine that proceeds to its end; its calls
  fail by timeout, not by hanging.

In `RateLimiter`: `WF(Tick)`, since time passes, and `WF(Sweep(r))`, the goroutine's endless loop.

In `TaskRuns`: `WF(RunStep(r))`, as above. Nobody need fire a task, and the clock need not go on.

In `NodePoll`: `WF(Fire)`, gocron's clock; `WF` of each step of the cycle, a goroutine (a stuck node
disables the step that waits for it); `WF(PageStep)`, a page that was asked for is computed, as its
requests have a timeout. Nodes need not come up, and nobody need load a page.

In `Deploy`: `WF(HandlerStep(s))`, a handler and its workers go on, which needs nodes that answer or
break the connection, as the deployment has no timeout; and `SF(Lock(s))`, as Go's mutexes hand
themselves over in order to waiters that starve. Clients need not connect.

In `Server`: `WF` of the steps of `serve` and of its deadlines. Requests and runs may take for ever:
that the process ends all the same is what `SignalEnds` says.

Scrapyd and the logparser owe nothing: `FinishedShown` speaks of jobs that Scrapyd lists as
finished from some time on, and `ScheduledResolves` of rows whose run ended. Neither is true over a
crash (a run is not resumed) or once statistics are dropped (section 5), so these events are not in
that run. That the cycle itself comes round again is assumed there, and is `SteadyPolled` of `NodePoll`:
a node that stays registered and well is polled for ever, if in the end no node is stuck, no node is
`Broken` and there is a worker. Without these three the code does not promise it.

## 5. Where code and text disagree

* `task_stop_race` (a run). `editTask` asks the scheduler whether the task runs and writes
  `paused = false` three calls later. A stop in between is answered and then undone in the table,
  and the next start loads the task.

Facts about the code that a reader of the models should know; of one a comment says otherwise, of the
others the repository says nothing. Each has a configuration that shows the steps, to be run by hand:

* `TaskEditRace.cfg`. `restartTask` schedules the row it read. An edit in between changes scheduler
  and row; the restart puts the old configuration back into the scheduler only.
* `TaskForeignKeys.cfg`. With `FkModes = {TRUE, FALSE}` a statement may run on a connection of the
  pool that never saw the pragma. A node is then deleted without its tasks, or a task inserted
  without its node (`RowNodesExist`). The runs leave this property out and let `FkModes` be both.
* `JobRegress.cfg`. The upsert accepts an equal `update_time`. A poller that listed the jobs before
  they finished, with the same statistics, writes "running" over "finished". The comment at
  `web/polling.go:20-23` says "update time must be greater than previous one or write is rejected"; the
  statement says `>=` (`db/jobs.sql.go:154`), and it must: with the comparison of the comment (the
  mutant `AcceptedStrictly`) a job whose last statistics were seen while it ran is never shown finished.
  The next poll repairs the row, which is why `FinishedShown` holds; `StampsBounded` is the reason.
* `JobFinishTime.cfg`. An unfinished job carries Go's zero time as its finish, which is a value and
  not `NULL`: it overwrites a stored finish time.
* `JobForgotten.cfg`. The logparser keeps statistics of the last jobs only. Without them the update is
  written with the zero time, which any dated row refuses. If that happens before a poll saw the
  job finish, the table shows it running for ever.
* `TaskRunsFirst.cfg`. With "Fire task immediately after adding?" the first run may insert its row
  before the task has one. The foreign key refuses it and the run is lost (`FirstRunRecorded`);
  Scrapyd is not asked either (`AskedHaveRows`).

* `TaskRunsOverlap.cfg`. Two runs of a task overlap. The second draws an id between the first one's
  insert and its request, and the first asks Scrapyd for the job of the second, which may have no row
  yet (`AskedAlwaysHaveRows`). Likewise an overtaken run reports its error in the other's row, or none.
  And if the one encodes `SpiderValues` while the other is in `beforeJobRuns`, Go may find a concurrent
  map read and map write and end the process (`MapRace`).
* `TaskRunsNode.cfg`. A run inserts its row, and its node is deleted or renamed before the request is made.
  The lookup of the node answers `sql.ErrNoRows` (`web/helpers.go:80-83`), which `web/task.go:174` takes for
  a refused insert: the failure is logged as "insert failed?" and, if the cascade has left the row, not
  recorded. The row stays scheduled (`FailuresAlwaysShown`).

And some that need no configuration. A job's id is made of its kind, spider, node and
second (`web/task.go:150-154`) and not of its task: two runs of one task in a second share a row, which is
in `TaskRuns`, and so do those of two tasks of one project, spider and node, which is not; `JobHistory` is
about jobs whose ids differ. A page deploys its own form or a later one of the same browser: with two pages
open, the first may deploy what the second shows. An edit of a user that leaves the password empty
writes back the one it has read, over another edit's. An answer that was under way when its browser
logged in or out brings the former session back. In the three modules these are what the properties except
(`Later`, `crossed`, `outdated`), and nothing else is.

## 6. Proofs

`TaskLifecycleProofs`, checked by `tlapm`, for all sets of tasks, nodes, handlers and cron strings
and all bounds:

* `TypeCorrect`: `Spec => []TypeOK`, with no assumption but those on the constants.
* `StopsHold`, `DeletesHold`, `BootsSucceed`: `StopHolds`, `DeleteHolds`, `BootNeverRefused` hold
  always, assuming `Discipline`: `edit` and `restart` are in `Exclusive`.

None of the three is inductive. A stop's promise can be broken two calls later by a handler that
read something earlier, so the invariant has to say what every handler in progress may rely on.
That is `Coherent`:

* `OneAtATime`: a task in the hands of an exclusive operation is in no other's.
* `LabelsMatch`, `InsertPending`: a handler is where its operation goes, and the UUID a create has
  drawn is known to nobody else.
* `SchedulerKnown`: what a handler saw of the scheduler is still so when it writes the row.
* `RowKnown`: the row a restart read has kept its cron string (its node may have been renamed).
* `KnownTasksOnly`, `DownMeansEmpty`, `JobsSchedulable`: frame facts about tasks nobody has seen,
  the stopped server, and the scheduler's jobs.
* the three properties themselves.

The proof has one lemma per action (group), each with one step per conjunct the action can disturb.
Three lemmas carry the argument: `Alone` (an exclusive handler is the only one on its task),
`OthersKept` (a step on one task leaves what other handlers rely on) and `WorkCoherent` (a step of
one handler restores the whole from what it establishes for itself).

* `RunsKeepTheirSchedule` (`RunKeepsSchedule`), assuming `Discipline`, whatever happens to the nodes and on
  whichever connections. The invariant is `RunningCoherent`, over `Coherent`: a task that was answered
  as running and has its row is loaded and in the scheduler at its row's times, or in the hands of the
  edit that is changing them.
* `RunsHold`, `SeenJobsKeepRows` (`RunHolds`, `SeenJobsHaveRows`), assuming `Discipline` and `NodesFixed`
  (`MaxNodeChanges = 0`: nobody adds, renames or deletes a node). Without the second they are false of
  the code: a rename reaches a task's row by cascade and not its job in the scheduler, and the delete
  of a node takes the row away under a job that runs. With it `RunningCoherent` says more: the job is the
  row's in full (`Matches`), and a restart that is about to schedule or unpause a task holds the
  configuration its row has.

`JobHistoryProofs`, for all jobs, pollers, events and bounds:

* `TypeCorrect`, `UpdateTimesGrow`, `DeletedStayFrozen`, `UsersStay` (`TypeOK`, `UpdateTimeMonotone`,
  `DeletedJobsFrozen`, `UsersKept`): no order of writes takes a row's time back, revives a deleted
  job or loses a user. The argument is the table's alone: by the lemma
  `Statements` every step applies one of the four statements to one row, or none
  (`OneRowChanges`), by `StatementsKeepRows` each of them keeps what these properties ask of a row
  (`RowKept`).
* `TableNeverAhead`, `OwnJobsStayAttributed` (`NeverAhead`, `OwnJobsAttributed`). These relate the
  table to Scrapyd through snapshots of any age, and are inductive only with `Informed`: what a
  poller holds is the past of what Scrapyd has (`SnapshotsBehind`), a run asks Scrapyd only with its
  row in the table (`RowsFirst`), a job nobody has heard of has no row (`NoRowBeforeJob`), and a
  job of this server's is Scrapyd's only after its run sent it (`AskedByRun`). `Advances` carries
  them over Scrapyd's own steps.
* `StampsStayBounded` (`StampsBounded`), assuming `KeepsStatistics`: the logparser drops nothing.

`RateLimiterProofs`, for all clients, routes, bursts, rates, eviction times and windows:

* `TypeCorrect` (`TypeOK`).
* `RatesHold` (`RouteRate`) and `BucketsImplemented` (`Implements`), assuming `FillsBeforeDropped`:
  `Full <= Idle + 1`, a bucket fills in no more time than a client must be away to be dropped (with
  the default flags, two seconds and three minutes; with a rate of one request a minute and a burst
  of four it would fail). The invariant has two parts: a kept client has a full bucket or at least
  as much credit as the time it has been away (`FullWhenDropped`), so that the sweep drops full
  buckets only; and what was admitted and what is left come from the burst and the time elapsed
  (`Account`).

`TaskRunsProofs`, for any number of runs that overlap in any way, any period and timeouts, and any bounds
on time, stamps and failures:

* `TypeCorrect` (`TypeOK`); with it goes `Given`: a run that is past `SetJobID` finds an id in the fields it
  reads, its own or another's.
* `RunsKeepTheirIds` (`RunKeepsItsId`), by `Clock` (no id is of the future) and `KeepsId`: while a run is
  under way and not overtaken, `JobID` and, from its second write on, `SpiderValues` still hold the id it
  drew; a run that is overtaken may find a later one, never an earlier one. The mutex makes it
  inductive: no run is between the two writes of another.
* `AskedOnesHaveRows`, `FailuresAreShown` (`AskedHaveRows`, `FailuresShown`), by `Scheduling`, `Sent` (Scrapyd
  knows no id that no run sent), `Named` (a row that no mistaken run had asked for before names its task
  or user) and `Tracked`, which follows the row a run has inserted over every statement of the polls, of
  other runs and on nodes.

`JobPagesProofs`, for any page size and any bounds, with no other hypothesis: `TypeCorrect`,
`WalksShowAll` and `LinksHaveRows` (`TypeOK`, `WalkShowsAll`, `LinksLeadSomewhere`). The queries rank the
listed rows. `RankOnto` shows that the ranks are 0, 1, ... without a gap (two rows have two ranks, and all
ranks are below the count, so each of them is taken), `PagesCover` that the last page's number is right,
and so `PageHasRow`, that a page which begins before the count has a row. The invariant is `OnWalk`: a
row that must be shown has been, or its rank lies behind what the walk has read (`ToCome`), and the link
names a page that begins before the count. One lemma per statement of `Next`; those that insert, update
and delete are about what they do to the rank of every other row.

`WorkerPoolProofs` begins with the pool, of any size: `Even` (a job is in one place, and the handler waits
for as many results as are owed to it) holds of a new pool and is kept by `Take`, `Send` and `Receive`;
`Owed` is what a received result takes away; and a pool that is collected is empty (`CollectedAll`).

About `NodePoll` it has, for all nodes, broken ones among them, and any number of workers:
`PollTypeCorrect`, `PagesDrain`, `PagesAreComplete` and `CyclesCover` (`PollTypeOK`, `PageDrained`,
`PageComplete`, `CycleCovers`). The invariant `OnTrack` says of the page that its pool is `Even` and that
what it has shown or is owed is what it listed, and of the cycle that a node that was well all along is
still to be asked, being asked, online, in a worker, or polled.

About `Deploy`, for all clients, nodes, streams, versions and workers: `TypeCorrect`, `OneOrder`
(`NodesAgree`), `NothingUnderWay` (`QuietWhenUnlocked`), `EveryNodeAnswered` (`CompleteMeansAll`),
`DeploysAreSerial` (`Implements`: the refinement of `SerialDeploy`) and `PagesAreTrue` (`ShownIsDeployed`,
by the fact that a client's cookie is that of the last of its pages). `NodesAgree` is not inductive:
that an egg which lands now comes last on its node and was not there before needs the invariant
`Ordered`, in which a stream has the mutex exactly while it reads, builds or deploys, has a pool only
while it deploys (`Fit`), and every egg on a node belongs to a stream that knows it landed, once, the
open one's last (`LogsFit`).

`ServerProofs`, for any requests, runs and signals, one server or two: `TypeCorrect`,
`RequestsAreServed`, `RunsAreServed`, `EndsAreClean` (`RequestsServed`, `RunsServed`, `CleanEnds`). The
invariant `Orderly` says what lies behind each stage: the start's order (`StartFirst`), that a server
takes requests only while it serves, what a `serve` that got so far has ended (`EndedBehind`), and
that the scheduler is shut down before the statements are closed (`ClosedInOrder`).

`AccountsProofs`, for any users, browsers, passwords, values and requests: `TypeCorrect`,
`SettingsStayOne`, `FirstSavesAreOne`, `DeletedStayDeleted` (`OneSettings`, `FirstSaveOnce`,
`DeletedUsersStay`), by the invariant `Sound`: a user that is being added is in nobody else's hands, and
who saved as the first has left the row that says so. `PasswordsStay` and `SessionsStay`
(`PasswordsAsAsked`, `SessionsFollowLogins`), by `Kept`: what an edit has read still stands when it writes,
unless it is `crossed` (`SeenStands`), and what a request carries is the session there is, unless it is
`outdated` (`SessionCarried`).

All proofs assume what their modules assume of the constants, and the disciplines where they are
named above; nothing else.

Only model-checked: liveness (`FinishedShown`, `ScheduledResolves`, `IdleDropped`, `RunsEnd`,
`SteadyPolled`, `PageEnds`, `StreamsEnd`, `SignalEnds`), whose proofs need `ENABLED` and fairness, out of the
prover's reach; and what section 5 shows, which are counterexamples. The theorems with a discipline
say nothing without it, where the property is false of the code or, for nodes that change, of the
program the rest describes. Whether a pool or a page of some size is right for every size by induction
over its data is not needed: the proofs count with the library's facts about cardinalities instead.

## 7. Not modelled, and the plan

Not modelled, each for its reason (`PROJECT.json` has them by component):

* The reverse proxy, the cookies' encryption, password hashing, request decoding, validation,
  template functions, responses, templates, mail, metrics, version: functions of one request or
  value. They keep no state, and the repository tests them with examples, which is what fits them.
* The list of common passwords (`internal/password/common.go`) is data: ten thousand strings, and more
  than half of all the lines of the implementation. The models cover about half of the rest.
* The list and search of tasks, and the pages that ask Scrapyd and show the answer: they read once
  and write nothing.
* Of the database pool: journal mode, busy timeout, the number of connections. SQLite's own
  serialization of statements is taken for granted; each statement is one step.
* The names of users, projects, spiders and nodes, except where a rename is the point.

Left of the plan: an abstract specification of a task (stopped, running, deleted) that `TaskLifecycle`
implements under `Discipline`, and one of a job's history that `JobHistory` implements, each with the
theorem that a step of the handlers or pollers maps to a step or a stutter.
