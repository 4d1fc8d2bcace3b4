---------------------------- MODULE TaskLifecycle ----------------------------
(***************************************************************************)
(* The life of a cron task: its row in the tasks table, which survives a   *)
(* crash, and its job in the in-memory gocron scheduler, which does not.   *)
(* HTTP handlers change the two in separate calls with no lock around      *)
(* them, so a handler is a process that takes one step per call; any       *)
(* number of handlers, a crash, a failing database call and changes of the *)
(* nodes table may come between two of its steps.                          *)
(*                                                                         *)
(* Running a job is left out: neither RunNow nor the clock changes the     *)
(* table or the scheduler's set of jobs (module JobHistory is about runs). *)
(***************************************************************************)
EXTENDS Naturals, FiniteSets

CONSTANTS
  Tasks,           \* task UUIDs
  Nodes,           \* node names
  Crons,           \* cron strings a row may hold
  Parsable,        \* those cron.ParseStandard accepts (the check of forms and imports)
  Unscheduled,     \* the empty one, of an imported line without a schedule
  Schedulable,     \* those gocron accepts
  Requests,        \* slots for concurrently running handlers
  Ops,             \* the operations clients use
  Exclusive,       \* operations no client overlaps with another on the same task
  FkModes,         \* is foreign_keys ON for the connection a statement gets?
  MaxFaults,       \* bound on failing database calls
  MaxNodeChanges,  \* bound on changes of the nodes table
  NoRow, NoJob, NoTask

OpNames == {"create", "stop", "delete", "edit", "restart", "bulkStop", "bulkDelete"}

Config == [cron : Crons, node : Nodes]
Row    == [cfg : Config, paused : BOOLEAN]

ASSUME CronAssumption ==
  /\ Parsable \subseteq Crons
  /\ Schedulable \subseteq Parsable
  /\ Unscheduled \in Crons \ Parsable
ASSUME OpAssumption ==
  /\ Ops \subseteq OpNames
  /\ Exclusive \subseteq OpNames
ASSUME NullAssumption ==
  /\ NoRow \notin Row
  /\ NoJob \notin Config
  /\ NoTask \notin Tasks
ASSUME BoundAssumption ==
  /\ FkModes \subseteq BOOLEAN
  /\ MaxFaults \in Nat
  /\ MaxNodeChanges \in Nat

VARIABLES
  row,          \* tasks table
  sched,        \* the scheduler's jobs: the configuration each one runs
  nodes,        \* scrapyd_nodes table
  server,       \* "up", or "down" between a crash and the next start
  req,          \* the running handlers
  seen,         \* tasks whose page or list entry a client may hold
  told,         \* what the last handler that finished on the task established
  faults, nodeChanges

vars == <<row, sched, nodes, server, req, seen, told, faults, nodeChanges>>
-----------------------------------------------------------------------------
(* Handlers *)

\* at: the call the handler makes next.  task: the task it is working on.
\* todo: the tasks it will still touch.  cfg: the form's or the row's
\* configuration.  targets: the nodes a create has still to do.  paused: the
\* value an edit will write.
Labels == {"idle", "new", "insert", "item", "remove", "pause", "drop",
           "check", "update", "write", "read", "start", "unpause"}

Handler == [op : OpNames \cup {"none"}, at : Labels, task : Tasks \cup {NoTask},
            todo : SUBSET Tasks, cfg : Config \cup {NoJob},
            targets : SUBSET Nodes, paused : BOOLEAN]

IdleReq == [op |-> "none", at |-> "idle", task |-> NoTask, todo |-> {},
            cfg |-> NoJob, targets |-> {}, paused |-> FALSE]

\* A handler has tasks in hand exactly when it is past its form, and a
\* configuration from its form or its row on.
WellFormed(h) ==
  /\ h \in Handler
  /\ h.at = "idle" => h = IdleReq
  /\ h.at \in {"idle", "new"} <=> h.todo = {}
  /\ h.at \notin {"idle", "new", "item"} => h.task \in h.todo
  /\ h.at \in {"new", "insert", "check", "update", "write", "start", "unpause"}
       => h.cfg \in Config

Touches(r, t) == t \in req[r].todo
Quiet(t) == \A r \in Requests : ~Touches(r, t)

\* The clients' discipline; with Exclusive = {} there is none, as in the code.
Admitted(op, ts) ==
  \A r \in Requests :
    req[r].todo \cap ts # {} => op \notin Exclusive /\ req[r].op \notin Exclusive

Become(r, h) == req' = [req EXCEPT ![r] = h]

\* On to the next call.
Step(r, label) == Become(r, [req[r] EXCEPT !.at = label])

\* An early return.
Return(r) == Become(r, IdleReq)

\* The task is done: a bulk action goes on with the next one.
FinishItem(r) ==
  LET rest == req[r].todo \ {req[r].task}
  IN IF req[r].op \in {"bulkStop", "bulkDelete"} /\ rest # {}
     THEN Become(r, [req[r] EXCEPT !.at = "item", !.task = NoTask, !.todo = rest])
     ELSE Return(r)

Loaded(t) == row[t] # NoRow /\ ~row[t].paused

\* Faulty variant: the flag is written the wrong way round.
WithPausedSwapped(t, p) ==
  IF row[t] = NoRow THEN NoRow ELSE [row[t] EXCEPT !.paused = ~p]

\* The row an UPDATE leaves; no row, nothing to update and no error.
WithPaused(t, p) == IF row[t] = NoRow THEN NoRow ELSE [row[t] EXCEPT !.paused = p]

-----------------------------------------------------------------------------
(* The gocron scheduler (external) *)

isTaskRunning(t) == sched[t] # NoJob

\* NewJob under an identifier that exists replaces that job.
NewJob(t, c) == sched' = [sched EXCEPT ![t] = c]

\* scheduler.Update: what it may answer and the job it leaves.  A cron string
\* gocron refuses may cost the job; an unknown id is an error or a new job.
UpdateOutcomes(job, c) ==
  IF c.cron \in Schedulable
  THEN {[ok |-> TRUE, job |-> c]} \cup {[ok |-> FALSE, job |-> j] : j \in {job} \cap {NoJob}}
  ELSE {[ok |-> FALSE, job |-> j] : j \in {job, NoJob}}
-----------------------------------------------------------------------------
(* createNewTask *)

Begin(r, op, ts, handler) ==
  /\ server = "up"
  /\ op \in Ops
  /\ req[r] = IdleReq
  /\ Admitted(op, ts)
  /\ Become(r, handler)
  /\ UNCHANGED <<row, sched, nodes, server, seen, told, faults, nodeChanges>>

BeginCreate(r) ==
  \E c \in Parsable, ns \in SUBSET Nodes : \E n \in ns :
    Begin(r, "create", {}, [IdleReq EXCEPT !.op = "create", !.at = "new",
                            !.cfg = [cron |-> c, node |-> n], !.targets = ns \ {n}])

\* newTask draws a random UUID: one nothing in the system knows.
Fresh(t) == t \notin seen /\ sched[t] = NoJob /\ Quiet(t)

CreateJob(r) ==
  /\ req[r].at = "new"
  /\ \/ /\ req[r].cfg.cron \notin Schedulable
        /\ Return(r)
        /\ UNCHANGED sched
     \/ /\ req[r].cfg.cron \in Schedulable
        /\ \E t \in Tasks : /\ Fresh(t)
                            /\ NewJob(t, req[r].cfg)
                            /\ Become(r, [req[r] EXCEPT !.at = "insert", !.task = t,
                                                        !.todo = {t}])
  /\ UNCHANGED <<row, nodes, server, seen, told, faults, nodeChanges>>

\* INSERT into tasks; a dangling node is refused when foreign keys are on.
InsertTask(t, c, p) ==
  /\ row' = [row EXCEPT ![t] = [cfg |-> c, paused |-> p]]
  /\ seen' = seen \cup {t}

NextNode(r) ==
  IF req[r].targets = {}
  THEN Return(r)
  ELSE \E n \in req[r].targets :
         Become(r, [req[r] EXCEPT !.at = "new", !.task = NoTask, !.todo = {},
                                  !.cfg = [cron |-> req[r].cfg.cron, node |-> n],
                                  !.targets = @ \ {n}])

CreateInsert(r) ==
  /\ req[r].at = "insert"
  /\ \E fk \in FkModes :
       IF fk => req[r].cfg.node \in nodes
       THEN /\ InsertTask(req[r].task, req[r].cfg, FALSE)
            /\ told' = [told EXCEPT ![req[r].task] = "running"]
            /\ NextNode(r)
       ELSE /\ Return(r)
            /\ UNCHANGED <<row, seen, told>>
  /\ UNCHANGED <<sched, nodes, server, faults, nodeChanges>>

\* importScrapydWebTimeTasksExport: one INSERT per imported line and node. A
\* schedule is checked as a form's is, but a line need not have one.
ImportTask ==
  /\ server = "up"
  /\ \E t \in Tasks, c \in Config, fk \in FkModes :
       /\ Fresh(t)
       /\ c.cron \in Parsable \cup {Unscheduled}
       /\ fk => c.node \in nodes
       /\ InsertTask(t, c, TRUE)
       /\ told' = [told EXCEPT ![t] = "stopped"]
  /\ UNCHANGED <<sched, nodes, server, req, faults, nodeChanges>>
-----------------------------------------------------------------------------
(* stopTask, deleteTask, doBulkAction *)

BeginOne(r, op, label) ==
  \E t \in seen :
    Begin(r, op, {t}, [IdleReq EXCEPT !.op = op, !.at = label, !.task = t, !.todo = {t}])

BeginBulk(r, op) ==
  \E ts \in (SUBSET seen) \ {{}} :
    Begin(r, op, ts, [IdleReq EXCEPT !.op = op, !.at = "item", !.todo = ts])

\* Faulty variant: a bulk delete takes the row and forgets the job.
BulkItemForgetsJob(r) ==
  /\ req[r].at = "item"
  /\ \E t \in req[r].todo :
       Become(r, [req[r] EXCEPT !.at = IF req[r].op = "bulkDelete"
                                       THEN "drop" ELSE "remove", !.task = t])
  /\ UNCHANGED <<row, sched, nodes, server, seen, told, faults, nodeChanges>>

\* Bulk actions skip the scheduler for a task it does not run.
BulkItem(r) ==
  /\ req[r].at = "item"
  /\ \E t \in req[r].todo :
       \/ /\ isTaskRunning(t)
          /\ Become(r, [req[r] EXCEPT !.at = "remove", !.task = t])
       \/ /\ ~isTaskRunning(t) /\ req[r].op = "bulkDelete"
          /\ Become(r, [req[r] EXCEPT !.at = "drop", !.task = t])
       \/ /\ ~isTaskRunning(t) /\ req[r].op = "bulkStop"
          /\ IF req[r].todo = {t} THEN Return(r)
             ELSE Become(r, [req[r] EXCEPT !.todo = @ \ {t}])
  /\ UNCHANGED <<row, sched, nodes, server, seen, told, faults, nodeChanges>>

\* deleteTaskFromScheduler, first half.  Only deleteTask goes on after
\* ErrJobNotFound.
RemoveJob(r) ==
  LET t == req[r].task IN
  /\ req[r].at = "remove"
  /\ \/ /\ isTaskRunning(t)
        /\ sched' = [sched EXCEPT ![t] = NoJob]
        /\ told' = [told EXCEPT ![t] = "none"]
        /\ Step(r, "pause")
     \/ /\ ~isTaskRunning(t)
        /\ IF req[r].op = "delete" THEN Step(r, "drop") ELSE Return(r)
        /\ UNCHANGED <<sched, told>>
  /\ UNCHANGED <<row, nodes, server, seen, faults, nodeChanges>>

\* deleteTaskFromScheduler, second half: UpdateTaskPaused(true).
PauseRow(r) ==
  LET t == req[r].task IN
  /\ req[r].at = "pause"
  /\ row' = [row EXCEPT ![t] = WithPaused(t, TRUE)]
  /\ IF req[r].op \in {"delete", "bulkDelete"}
     THEN Step(r, "drop") /\ UNCHANGED told
     ELSE FinishItem(r) /\ told' = [told EXCEPT ![t] = "stopped"]
  /\ UNCHANGED <<sched, nodes, server, seen, faults, nodeChanges>>

DropRow(r) ==
  LET t == req[r].task IN
  /\ req[r].at = "drop"
  /\ row' = [row EXCEPT ![t] = NoRow]
  /\ told' = [told EXCEPT ![t] = "deleted"]
  /\ FinishItem(r)
  /\ UNCHANGED <<sched, nodes, server, seen, faults, nodeChanges>>
-----------------------------------------------------------------------------
(* editTask *)

BeginEdit(r) ==
  \E t \in seen, c \in Parsable, n \in Nodes :
    Begin(r, "edit", {t}, [IdleReq EXCEPT !.op = "edit", !.at = "check", !.task = t,
                           !.todo = {t}, !.cfg = [cron |-> c, node |-> n]])

\* Faulty variants: isPaused keeps its zero value, or is set on both branches.
EditCheckNeverPaused(r) ==
  /\ req[r].at = "check"
  /\ Step(r, IF isTaskRunning(req[r].task) THEN "update" ELSE "write")
  /\ UNCHANGED <<row, sched, nodes, server, seen, told, faults, nodeChanges>>

EditCheckAlwaysPaused(r) ==
  /\ req[r].at = "check"
  /\ Become(r, [req[r] EXCEPT !.at = IF isTaskRunning(req[r].task) THEN "update" ELSE "write",
                              !.paused = TRUE])
  /\ UNCHANGED <<row, sched, nodes, server, seen, told, faults, nodeChanges>>

EditCheck(r) ==
  LET running == isTaskRunning(req[r].task) IN
  /\ req[r].at = "check"
  /\ Become(r, [req[r] EXCEPT !.at = IF running THEN "update" ELSE "write",
                              !.paused = ~running])
  /\ UNCHANGED <<row, sched, nodes, server, seen, told, faults, nodeChanges>>

EditUpdate(r) ==
  LET t == req[r].task IN
  /\ req[r].at = "update"
  /\ \E out \in UpdateOutcomes(sched[t], req[r].cfg) :
       /\ sched' = [sched EXCEPT ![t] = out.job]
       /\ IF out.ok
          THEN Step(r, "write") /\ UNCHANGED told
          ELSE /\ Return(r)
               /\ told' = [told EXCEPT ![t] = IF out.job = sched[t] THEN @ ELSE "none"]
  /\ UNCHANGED <<row, nodes, server, seen, faults, nodeChanges>>

\* UpdateTask writes the whole row: the form's configuration and paused.
EditWrite(r) ==
  LET t == req[r].task IN
  /\ req[r].at = "write"
  /\ Return(r)
  /\ \E fk \in FkModes :
       IF row[t] = NoRow \/ (fk => req[r].cfg.node \in nodes)
       THEN /\ row' = [row EXCEPT ![t] = IF row[t] = NoRow THEN NoRow
                         ELSE [cfg |-> req[r].cfg, paused |-> req[r].paused]]
            /\ UNCHANGED told
       ELSE /\ told' = [told EXCEPT ![t] = IF req[r].paused THEN @ ELSE "none"]
            /\ UNCHANGED row
  /\ UNCHANGED <<sched, nodes, server, seen, faults, nodeChanges>>
-----------------------------------------------------------------------------
(* restartTask *)

RestartRead(r) ==
  LET t == req[r].task IN
  /\ req[r].at = "read"
  /\ IF row[t] = NoRow
     THEN Return(r)
     ELSE Become(r, [req[r] EXCEPT !.at = "start", !.cfg = row[t].cfg])
  /\ UNCHANGED <<row, sched, nodes, server, seen, told, faults, nodeChanges>>

RestartJob(r) ==
  LET t == req[r].task IN
  /\ req[r].at = "start"
  /\ IF req[r].cfg.cron \in Schedulable
     THEN /\ NewJob(t, req[r].cfg)
          /\ told' = [told EXCEPT ![t] = "none"]
          /\ Step(r, "unpause")
     ELSE Return(r) /\ UNCHANGED <<sched, told>>
  /\ UNCHANGED <<row, nodes, server, seen, faults, nodeChanges>>

RestartUnpause(r) ==
  LET t == req[r].task IN
  /\ req[r].at = "unpause"
  /\ row' = [row EXCEPT ![t] = WithPaused(t, FALSE)]
  /\ told' = [told EXCEPT ![t] = "running"]
  /\ Return(r)
  /\ UNCHANGED <<sched, nodes, server, seen, faults, nodeChanges>>
-----------------------------------------------------------------------------
(* Failures *)

\* A database call fails (the client went away and cancelled the request's
\* context, the 30 s timeout, SQLITE_BUSY): the handler returns at once and
\* undoes nothing.
DatabaseFails(r) ==
  LET t == req[r].task IN
  /\ req[r].at \in {"insert", "pause", "drop", "write", "read", "unpause"}
  /\ faults < MaxFaults
  /\ faults' = faults + 1
  /\ Return(r)
  /\ told' = IF req[r].at = "write" /\ ~req[r].paused
             THEN [told EXCEPT ![t] = "none"] ELSE told
  /\ UNCHANGED <<row, sched, nodes, server, seen, nodeChanges>>

Crash ==
  /\ server = "up"
  /\ server' = "down"
  /\ sched' = [t \in Tasks |-> NoJob]
  /\ req' = [r \in Requests |-> IdleReq]
  /\ UNCHANGED <<row, nodes, seen, told, faults, nodeChanges>>

\* run: loadTasksOnStart before the first request is served; any error is
\* log.Fatalln and the process does not start.
Boot ==
  /\ server = "down"
  /\ \A t \in Tasks : Loaded(t) => row[t].cfg.cron \in Schedulable
  /\ server' = "up"
  /\ sched' = [t \in Tasks |-> IF Loaded(t) THEN row[t].cfg ELSE NoJob]
  /\ UNCHANGED <<row, nodes, req, seen, told, faults, nodeChanges>>
-----------------------------------------------------------------------------
(* The nodes table: one statement each, and no call to the scheduler *)

NodeStatement ==
  /\ server = "up"
  /\ nodeChanges < MaxNodeChanges
  /\ nodeChanges' = nodeChanges + 1
  /\ UNCHANGED <<sched, server, req, seen, told, faults>>

AddNode ==
  /\ NodeStatement
  /\ \E n \in Nodes \ nodes : nodes' = nodes \cup {n}
  /\ UNCHANGED row

OnNode(t, n) == row[t] # NoRow /\ row[t].cfg.node = n

\* deleteScrapydNode: ON DELETE CASCADE takes the node's tasks.
DeleteNode ==
  /\ NodeStatement
  /\ \E n \in nodes, fk \in FkModes :
       /\ nodes' = nodes \ {n}
       /\ row' = [t \in Tasks |-> IF fk /\ OnNode(t, n) THEN NoRow ELSE row[t]]

\* editNode: ON UPDATE CASCADE renames the node in its tasks.
RenameNode ==
  /\ NodeStatement
  /\ \E n \in nodes, m \in Nodes \ nodes, fk \in FkModes :
       /\ nodes' = (nodes \ {n}) \cup {m}
       /\ row' = [t \in Tasks |->
                    IF fk /\ OnNode(t, n) THEN [row[t] EXCEPT !.cfg.node = m] ELSE row[t]]
-----------------------------------------------------------------------------
Init ==
  /\ row = [t \in Tasks |-> NoRow]
  /\ sched = [t \in Tasks |-> NoJob]
  /\ nodes = Nodes
  /\ server = "up"
  /\ req = [r \in Requests |-> IdleReq]
  /\ seen = {}
  /\ told = [t \in Tasks |-> "none"]
  /\ faults = 0
  /\ nodeChanges = 0

Begins(r) ==
  \/ BeginCreate(r)
  \/ BeginOne(r, "stop", "remove")
  \/ BeginOne(r, "delete", "remove")
  \/ BeginOne(r, "restart", "read")
  \/ BeginBulk(r, "bulkStop")
  \/ BeginBulk(r, "bulkDelete")
  \/ BeginEdit(r)

Continues(r) ==
  \/ CreateJob(r) \/ CreateInsert(r)
  \/ BulkItem(r) \/ RemoveJob(r) \/ PauseRow(r) \/ DropRow(r)
  \/ EditCheck(r) \/ EditUpdate(r) \/ EditWrite(r)
  \/ RestartRead(r) \/ RestartJob(r) \/ RestartUnpause(r)
  \/ DatabaseFails(r)

Next ==
  \/ \E r \in Requests : Begins(r) \/ Continues(r)
  \/ ImportTask \/ Crash \/ Boot
  \/ AddNode \/ DeleteNode \/ RenameNode

Spec == Init /\ [][Next]_vars
-----------------------------------------------------------------------------
(* Properties *)

\* Every variable has its type and every handler is well formed: what each
\* early return of scheduler.go must reset.
TypeOK ==
  /\ row \in [Tasks -> Row \cup {NoRow}]
  /\ sched \in [Tasks -> Config \cup {NoJob}]
  /\ nodes \subseteq Nodes
  /\ server \in {"up", "down"}
  /\ req \in [Requests -> Handler]
  /\ \A r \in Requests : WellFormed(req[r])
  /\ seen \subseteq Tasks
  /\ told \in [Tasks -> {"none", "running", "stopped", "deleted"}]
  /\ faults \in 0..MaxFaults
  /\ nodeChanges \in 0..MaxNodeChanges

\* A stop that was answered "Stopped Task" stays in force, over crashes and
\* restarts, until a client asks for something else: the task has no job and
\* no unpaused row that the next start would load.
StopHolds ==
  \A t \in Tasks : told[t] = "stopped" => sched[t] = NoJob /\ ~Loaded(t)

\* The half of StopHolds that TestStopTask asserts of the row.
StoppedRowStaysPaused ==
  \A t \in Tasks : told[t] = "stopped" => ~Loaded(t)

\* A deleted task is gone from the table and from the scheduler for good:
\* no handler that read its row earlier brings either back.
DeleteHolds ==
  \A t \in Tasks : told[t] = "deleted" => sched[t] = NoJob /\ row[t] = NoRow

\* A task whose start or creation was acknowledged has an unpaused row, and
\* whenever the server is up and no handler is at work on the task, the
\* scheduler runs the very configuration the row holds, edits included.
RunHolds ==
  \A t \in Tasks : told[t] = "running" =>
    /\ Loaded(t)
    /\ server = "up" /\ Quiet(t) => sched[t] = row[t].cfg

\* Once no handler is at work on a task, the scheduler's job for it is the one
\* its row describes (TestUpdateTask looks for the edited job, TestRestartTask
\* for the restarted row's).
SchedulerRunsTheRow ==
  \A t \in Tasks :
    server = "up" /\ Quiet(t) /\ isTaskRunning(t) /\ row[t] # NoRow => sched[t] = row[t].cfg

\* loadTasksOnStart never meets a cron string gocron refuses: one such row
\* and log.Fatalln keeps the whole server from starting.
BootNeverRefused ==
  \A t \in Tasks : Loaded(t) => row[t].cfg.cron \in Schedulable

\* A job the scheduler runs for a task clients have seen has a row to be
\* stopped, edited and deleted through.
SeenJobsHaveRows ==
  \A t \in seen : isTaskRunning(t) => row[t] # NoRow

\* What is left of RunHolds while nodes come, go and change their names, with
\* foreign keys on or off: a task whose start was acknowledged and whose row is
\* still there runs at the times its row says (the node may be another by now).
RunKeepsSchedule ==
  \A t \in Tasks : told[t] = "running" /\ row[t] # NoRow =>
    /\ Loaded(t)
    /\ server = "up" /\ Quiet(t) => isTaskRunning(t) /\ sched[t].cron = row[t].cfg.cron

\* Every task names a registered node (migration 0003). Not so of the code,
\* which sets foreign_keys on one connection of its pool: TaskForeignKeys.cfg.
RowNodesExist == \A t \in Tasks : row[t] # NoRow => row[t].cfg.node \in nodes

-----------------------------------------------------------------------------
(* The inductive invariant behind the properties: what each handler may    *)
(* still rely on at its next call.                                         *)

\* Two handlers share a task only if neither operation is exclusive.
OneAtATime ==
  \A r, q \in Requests :
    r # q /\ req[r].todo \cap req[q].todo # {}
      => req[r].op \notin Exclusive /\ req[q].op \notin Exclusive

LabelsMatch(h) ==
  /\ h.at \in {"check", "update", "write"} => h.op = "edit"
  /\ h.at \in {"read", "start", "unpause"} => h.op = "restart"

\* The UUID of a create in progress is known to nobody else.
InsertPending(r) ==
  req[r].at = "insert" =>
    /\ req[r].todo = {req[r].task}
    /\ req[r].task \notin seen
    /\ sched[req[r].task] = req[r].cfg
    /\ \A q \in Requests \ {r} : req[r].task \notin req[q].todo

\* What the handler saw of the scheduler is still so.
SchedulerKnown(h) ==
  /\ h.at \in {"pause", "drop"} => sched[h.task] = NoJob
  /\ h.at = "update" => sched[h.task] # NoJob /\ ~h.paused
  /\ h.at = "write" => sched[h.task] = (IF h.paused THEN NoJob ELSE h.cfg)
  /\ h.at = "unpause" => sched[h.task] = h.cfg

\* The row restart read has kept its cron string.
RowKnown(h) ==
  h.at \in {"start", "unpause"} /\ row[h.task] # NoRow
    => row[h.task].cfg.cron = h.cfg.cron

KnownTasksOnly ==
  /\ \A r \in Requests : req[r].at # "insert" => req[r].todo \subseteq seen
  /\ \A t \in Tasks \ seen : row[t] = NoRow /\ told[t] = "none"

DownMeansEmpty ==
  server = "down" => /\ \A r \in Requests : req[r] = IdleReq
                     /\ \A t \in Tasks : sched[t] = NoJob

JobsSchedulable == \A t \in Tasks : isTaskRunning(t) => sched[t].cron \in Schedulable

\* Everything the acknowledged outcomes rest on.
Coherent ==
  /\ OneAtATime
  /\ \A r \in Requests : /\ LabelsMatch(req[r])
                         /\ InsertPending(r)
                         /\ SchedulerKnown(req[r])
                         /\ RowKnown(req[r])
  /\ KnownTasksOnly
  /\ DownMeansEmpty
  /\ JobsSchedulable
  /\ StopHolds
  /\ DeleteHolds
  /\ BootNeverRefused

\* What runs is what the table says, up to an edit that is between the scheduler
\* and the table: the very row while nobody changes the nodes table, and at the
\* row's times, if the row is there, in any case.
NodesFixed == MaxNodeChanges = 0

Matches(job, cfg) == job.cron = cfg.cron /\ (NodesFixed => job = cfg)

BeingEdited(t) ==
  \E r \in Requests : req[r].at = "write" /\ req[r].task = t /\ ~req[r].paused

RunningCoherent ==
  /\ NodesFixed =>
       /\ \A r \in Requests : req[r].at \in {"start", "unpause"} =>
            row[req[r].task] # NoRow /\ row[req[r].task].cfg = req[r].cfg
       /\ SeenJobsHaveRows
  /\ \A t \in Tasks : told[t] = "running" /\ (NodesFixed \/ row[t] # NoRow) =>
       /\ Loaded(t)
       /\ server = "up" => /\ isTaskRunning(t)
                           /\ Matches(sched[t], row[t].cfg) \/ BeingEdited(t)
=============================================================================
