------------------------------- MODULE TaskRuns -------------------------------
(* The runs of one scheduler job (cmd/web/task.go), from the request that makes
   it to its removal. All runs of a job share one task value: beforeJobRuns
   writes its JobID and its SpiderValues under the task's mutex, and the run
   that it belongs to, and every other run under way, read both without it. Runs
   overlap: one takes up to twice Timeout, the cron does not wait for it, and
   clients fire tasks when they like.

   The job is a task's ("cron", createNewTask in cmd/web/scheduler.go) or a
   one-time job's ("once", fireSpider in cmd/web/handlers.go). Time is counted
   in ticks, the seconds of which the job's ids are made; the cron fires every
   Period of them, and Timeout is the timeout of a run's calls. *)
EXTENDS JobTable

CONSTANTS
    Runs,      \* the runs, each a slot used once
    Period, Timeout,
    Kinds,     \* the kinds of jobs considered, of {"cron", "once"}
    FkModes,   \* a statement runs on a connection that has the pragma, or has not
    MaxTime, MaxFaults,
    NoId

\* The forms take a cron string that fires every second ("@every 1s").
ASSUME TimeAssumption == Period \in Nat \ {0} /\ Timeout \in Nat \ {0} /\ MaxTime \in Nat
\* Polls date a row when they have statistics, insertJobIntoDB never does.
ASSUME DatedAssumption == MaxStamp >= 1
ASSUME KindsAssumption == Kinds \subseteq {"cron", "once"} /\ FkModes \subseteq BOOLEAN
ASSUME FaultsAssumption == MaxFaults \in Nat
ASSUME NoIdAssumption == NoId \notin 0..MaxTime

Ids == 0..MaxTime

VARIABLES
    kind,     \* "cron" or "once"
    job,      \* the scheduler's job: "none", "loaded" or "removed"
    request,  \* createNewTask: the call it makes next, or how it ended
    parent,   \* the row the job's jobs refer to: the task's, or the user's of a
              \* one-time job; "absent", "present", "deleted"
    node,     \* the node of task.NodeName: "there", "renamed", "gone"
    moved,    \* the rows that have its new name
    jobID, values, \* task.JobID and the jobid of task.SpiderValues
    run,      \* for each run, its goroutine
    rows,     \* jobs, by the second in the job's id
    asked,    \* the ids Scrapyd was asked to schedule
    now, ticked, \* the clock, and whether the cron has seen this second
    faults,
    overtaken \* history: the runs under way when another run drew another id

nodeVars == <<node, moved>>

vars == <<kind, job, request, parent, nodeVars, jobID, values, run, rows, asked, now, ticked,
          faults, overtaken>>

-------------------------------------------------------------------------------
\* since: when the context of its calls began, 0 without one. noRows: its error
\* was sql.ErrNoRows. own: the id it drew. inserted, sent, recorded: the ids it
\* used for its row, its request and its error.
RunTypes ==
    [at : {"new", "before", "set", "insert", "request", "send", "started", "record", "ok", "failed", "lost"},
     since : Ids, noRows : BOOLEAN, own : Ids \cup {NoId},
     inserted : Ids \cup {NoId}, sent : Ids \cup {NoId}, recorded : Ids \cup {NoId}]

NewRun ==
    [at |-> "new", since |-> 0, noRows |-> FALSE, own |-> NoId,
     inserted |-> NoId, sent |-> NoId, recorded |-> NoId]

TypeOK ==
    /\ kind \in Kinds
    /\ job \in {"none", "loaded", "removed"}
    /\ request \in {"new", "fire", "insert", "added", "failed"}
    /\ parent \in {"absent", "present", "deleted"}
    /\ node \in {"there", "renamed", "gone"} /\ moved \subseteq Ids
    /\ {jobID, values} \subseteq Ids \cup {NoId}
    /\ run \in [Runs -> RunTypes]
    /\ rows \in [Ids -> JobRow \cup {NoRow}]
    /\ asked \subseteq Ids
    /\ now \in Ids /\ ticked \in BOOLEAN
    /\ faults \in 0..MaxFaults
    /\ overtaken \subseteq Runs

\* What goes wrong in a behaviour: calls that fail, crashes, a node that goes.
MayFail == faults + (IF node = "there" THEN 0 ELSE 1) < MaxFaults

Ended(r) == run[r].at \in {"ok", "failed", "lost"}
Under(r) == run[r].at \notin {"new", "ok", "failed", "lost"}

Move(r, to) == run' = [run EXCEPT ![r].at = to]

-------------------------------------------------------------------------------
(* Runs start. *)

\* gocron starts a goroutine for each run; it starts with beforeJobRuns.
\* It takes a slot that is free, always the same one: they are all alike.
Start(r) ==
    /\ run[r].at = "new"
    /\ r = CHOOSE q \in Runs : run[q].at = "new"
    /\ run' = [run EXCEPT ![r].at = "before"]

\* A minute of the cron string has begun, and gocron starts its run this second.
MinuteBegins == kind = "cron" /\ job = "loaded" /\ now % Period = 0 /\ now > 0 /\ ~ticked

CronTick(r) ==
    /\ MinuteBegins
    /\ ticked' = TRUE
    /\ Start(r)
    /\ UNCHANGED <<kind, job, request, parent, nodeVars, jobID, values, rows, asked, now, faults, overtaken>>

\* fireTask: RunNow, if the scheduler has the job (otherwise it changes nothing).
FireTask(r) ==
    /\ kind = "cron" /\ job = "loaded" /\ request = "added"
    /\ Start(r)
    /\ UNCHANGED <<kind, job, request, parent, nodeVars, jobID, values, rows, asked, now, ticked, faults, overtaken>>

\* createNewTask: the job is scheduled ...
NewCronJob ==
    /\ kind = "cron" /\ request = "new"
    /\ job' = "loaded"
    /\ request' \in {"fire", "insert"}
    /\ UNCHANGED <<kind, parent, nodeVars, jobID, values, run, rows, asked, now, ticked, faults, overtaken>>

\* ... "immediately" fires it ...
FireFirst(r) ==
    /\ request = "fire"
    /\ request' = "insert"
    /\ Start(r)
    /\ UNCHANGED <<kind, job, parent, nodeVars, jobID, values, rows, asked, now, ticked, faults, overtaken>>

\* ... and the row is inserted.
InsertTask ==
    /\ request = "insert"
    /\ \/ /\ node = "there" \/ FALSE \in FkModes
          /\ request' = "added" /\ parent' = "present"
          /\ UNCHANGED faults
       \/ /\ node # "there" /\ TRUE \in FkModes
          /\ request' = "failed"
          /\ UNCHANGED <<parent, faults>>
       \/ /\ MayFail /\ faults' = faults + 1
          /\ request' = "failed"
          /\ UNCHANGED parent
    /\ UNCHANGED <<kind, job, nodeVars, jobID, values, run, rows, asked, now, ticked, overtaken>>

\* fireSpider: newOneTimeJob, which gocron runs at once.
NewOneTimeJob(r) ==
    /\ kind = "once" /\ request = "new"
    /\ job' = "loaded" /\ request' = "added"
    /\ Start(r)
    /\ UNCHANGED <<kind, parent, nodeVars, jobID, values, rows, asked, now, ticked, faults, overtaken>>

-------------------------------------------------------------------------------
(* A run. *)

\* beforeJobRuns holds the task's mutex over its two writes.
Unlocked == \A r \in Runs : run[r].at # "set"

\* The runs that have drawn their id, and a different one from that of this second.
Overtakes == {q \in Runs : Under(q) /\ run[q].at # "before" /\ run[q].own # now}

SetJobID(r) ==
    /\ run[r].at = "before" /\ Unlocked
    /\ jobID' = now
    /\ run' = [run EXCEPT ![r].at = "set", ![r].own = now]
    /\ overtaken' = overtaken \cup Overtakes
    /\ UNCHANGED <<kind, job, request, parent, nodeVars, values, rows, asked, now, ticked, faults>>

\* A faulty variant: the parameter is set by the first run only.
SetValuesOnce(r) ==
    /\ run[r].at = "set"
    /\ values' = IF values = NoId THEN jobID ELSE values
    /\ run' = [run EXCEPT ![r].at = "insert", ![r].since = now]
    /\ UNCHANGED <<kind, job, request, parent, nodeVars, jobID, rows, asked, now, ticked, faults, overtaken>>

\* fireFunc's context begins.
SetValues(r) ==
    /\ run[r].at = "set"
    /\ values' = jobID
    /\ run' = [run EXCEPT ![r].at = "insert", ![r].since = now]
    /\ UNCHANGED <<kind, job, request, parent, nodeVars, jobID, rows, asked, now, ticked, faults, overtaken>>

\* A call returned an error: gocron calls afterTaskRunsWithError, with a context
\* of its own.
Fails(r, noRows) ==
    run' = [run EXCEPT ![r].at = "record", ![r].since = now, ![r].noRows = noRows]

Inserted == NewJobRow("scheduled", 0, "null", kind = "cron", kind = "once")

\* A faulty variant: an error does not end the run.
InsertRunGoesOn(r) ==
    /\ run[r].at = "insert" /\ jobID \in Ids
    /\ rows' = IF parent = "present" /\ node = "there"
               THEN [rows EXCEPT ![jobID] = InsertJob(@, Inserted)] ELSE rows
    /\ run' = [run EXCEPT ![r].at = "request", ![r].inserted = jobID]
    /\ UNCHANGED <<kind, job, request, parent, nodeVars, jobID, values, asked, now, ticked, faults, overtaken>>

\* insertJobIntoDB reads JobID. The upsert refuses a row that is deleted or has
\* been dated (sql.ErrNoRows). Foreign keys ask a new row for its task or user,
\* and its node.
InsertRun(r) ==
    /\ run[r].at = "insert" /\ jobID \in Ids
    /\ LET old == rows[jobID]
           refused == old # NoRow /\ ~Accepted(old, Inserted)
           dangling == old = NoRow /\ ~(parent = "present" /\ node = "there")
       IN  \/ /\ ~refused /\ (dangling => FALSE \in FkModes)
              /\ rows' = [rows EXCEPT ![jobID] = InsertJob(@, Inserted)]
              /\ run' = [run EXCEPT ![r].at = "request", ![r].inserted = jobID]
              /\ UNCHANGED faults
           \/ /\ refused
              /\ Fails(r, TRUE)
              /\ UNCHANGED <<rows, faults>>
           \/ /\ dangling /\ TRUE \in FkModes
              /\ Fails(r, FALSE)
              /\ UNCHANGED <<rows, faults>>
           \/ /\ MayFail /\ faults' = faults + 1
              /\ Fails(r, FALSE)
              /\ UNCHANGED rows
    /\ UNCHANGED <<kind, job, request, parent, nodeVars, jobID, values, asked, now, ticked, overtaken>>

\* createScrapydRequest looks the node up, then encodes SpiderValues, outside the
\* mutex. No node of the name is sql.ErrNoRows (helpers.go:80-83). With another run in beforeJobRuns
\* (MapRace) the old or the new id is encoded, or Go finds the map read while it
\* is written and ends the process.
EncodeRequest(r) ==
    /\ run[r].at = "request"
    /\ \/ node = "there" /\ run' = [run EXCEPT ![r].at = "send", ![r].sent = values]
       \/ node # "there" /\ Fails(r, TRUE)
       \/ Fails(r, FALSE)
    /\ UNCHANGED <<kind, job, request, parent, nodeVars, jobID, values, rows, asked, now, ticked, faults, overtaken>>

MapRace == ~Unlocked /\ \E r \in Runs : run[r].at = "request"

\* The process ends, and is started again: loadTasksOnStart makes a new task
\* value for each row. One that followed its node's rename draws ids with the
\* new name: another job's story.
Crash ==
    /\ MapRace \/ MayFail
    /\ faults' = IF MapRace THEN faults ELSE faults + 1
    /\ run' = [r \in Runs |-> IF Under(r) THEN [run[r] EXCEPT !.at = "lost", !.since = 0] ELSE run[r]]
    /\ request' = IF request = "added" THEN "added" ELSE "failed"
    /\ job' = IF kind = "cron" /\ job = "loaded" /\ parent = "present" /\ node # "renamed" THEN "loaded" ELSE "removed"
    /\ jobID' = NoId /\ values' = NoId
    /\ UNCHANGED <<kind, parent, nodeVars, rows, asked, now, ticked, overtaken>>

\* schedule.json: Scrapyd takes the request and its answer arrives or is lost,
\* or Scrapyd refuses it.
SendRequest(r) ==
    /\ run[r].at = "send"
    /\ \/ asked' = asked \cup {run[r].sent} /\ Move(r, "started")
       \/ asked' = asked \cup {run[r].sent} /\ Fails(r, FALSE)
       \/ UNCHANGED asked /\ Fails(r, FALSE)
    /\ UNCHANGED <<kind, job, request, parent, nodeVars, jobID, values, rows, now, ticked, faults, overtaken>>

\* A faulty variant: only a run that succeeded is removed.
RemovedIfStarted(r) == IF kind = "once" /\ run[r].at = "started" THEN "removed" ELSE job

\* removeOneTimeJobFromScheduler, deferred in each listener.
Removed(r) == IF kind = "once" THEN "removed" ELSE job

\* afterTaskRunsWithSuccess
AfterSuccess(r) ==
    /\ run[r].at = "started"
    /\ run' = [run EXCEPT ![r].at = "ok", ![r].since = 0]
    /\ job' = Removed(r)
    /\ UNCHANGED <<kind, request, parent, nodeVars, jobID, values, rows, asked, now, ticked, faults, overtaken>>

\* A faulty variant: the condition is the wrong way round.
RecordsOnlyNoRows(r) ==
    /\ run[r].at = "record"
    /\ LET wanted == run[r].noRows
       IN  /\ run' = [run EXCEPT ![r].at = "failed", ![r].since = 0, ![r].recorded = IF wanted THEN jobID ELSE NoId]
           /\ rows' = IF wanted /\ jobID \in Ids \ moved
                      THEN [rows EXCEPT ![jobID] = SetErrorWhereJobId(@)] ELSE rows
    /\ job' = Removed(r)
    /\ UNCHANGED <<kind, request, parent, nodeVars, jobID, values, asked, now, ticked, faults, overtaken>>

\* afterTaskRunsWithError reads JobID. The statement looks for the row under
\* NodeName, and may fail; sql.ErrNoRows is not recorded.
RecordError(r) ==
    /\ run[r].at = "record"
    /\ LET wanted == ~run[r].noRows
       IN  /\ run' = [run EXCEPT ![r].at = "failed", ![r].since = 0, ![r].recorded = IF wanted THEN jobID ELSE NoId]
           /\ \/ /\ rows' = IF wanted /\ jobID \notin moved
                             THEN [rows EXCEPT ![jobID] = SetErrorWhereJobId(@)] ELSE rows
                 /\ UNCHANGED faults
              \/ /\ wanted /\ MayFail /\ faults' = faults + 1
                 /\ UNCHANGED rows
    /\ job' = Removed(r)
    /\ UNCHANGED <<kind, request, parent, nodeVars, jobID, values, asked, now, ticked, overtaken>>

-------------------------------------------------------------------------------
(* Meanwhile. *)

\* stopTask, and the first half of deleteTask: the runs under way go on.
StopTask ==
    /\ kind = "cron" /\ job = "loaded" /\ request = "added"
    /\ job' = "removed"
    /\ UNCHANGED <<kind, request, parent, nodeVars, jobID, values, run, rows, asked, now, ticked, faults, overtaken>>

\* The second half of deleteTask; for a one-time job, deleteUser. The jobs' own
\* reference is set to NULL.
DeleteParent ==
    /\ parent = "present" /\ (kind = "cron" => job = "removed")
    /\ parent' = "deleted"
    /\ \/ FALSE \in FkModes /\ UNCHANGED rows
       \/ /\ TRUE \in FkModes
          /\ rows' = [i \in Ids |-> IF rows[i] = NoRow THEN NoRow
                                    ELSE [rows[i] EXCEPT !.taskId = FALSE, !.startedBy = FALSE]]
    /\ UNCHANGED <<kind, job, request, nodeVars, jobID, values, run, asked, now, ticked, faults, overtaken>>

\* The node goes for good. With the pragma, its tasks and jobs go
\* with it.
DeleteNode ==
    /\ node = "there" /\ MayFail /\ node' = "gone"
    /\ \/ FALSE \in FkModes /\ UNCHANGED <<parent, rows>>
       \/ /\ TRUE \in FkModes
          /\ rows' = [i \in Ids |-> NoRow]
          /\ parent' = IF kind = "cron" /\ parent = "present" THEN "deleted" ELSE parent
    /\ UNCHANGED <<kind, job, request, moved, jobID, values, run, asked, now, ticked, faults, overtaken>>

\* With the pragma, its tasks and jobs follow; task.NodeName does not. Without, its
\* name is gone from under them.
RenameNode ==
    /\ node = "there" /\ MayFail
    /\ \/ /\ FALSE \in FkModes
          /\ node' = "gone" /\ UNCHANGED moved
       \/ /\ TRUE \in FkModes
          /\ node' = "renamed" /\ moved' = {i \in Ids : rows[i] # NoRow}
    /\ UNCHANGED <<kind, job, request, parent, jobID, values, run, rows, asked, now, ticked, faults, overtaken>>

\* A poll finds the job in Scrapyd's list and writes it, with a date if the
\* logparser has statistics of it. A new row has the name the poller read.
Poll(i) ==
    /\ i \in asked
    /\ \E update \in {0, 1} :
          rows' = [rows EXCEPT ![i] = InsertJob(@, NewJobRow("pending", update, "null", FALSE, FALSE))]
    /\ \/ /\ rows[i] # NoRow \/ node = "there" \/ FALSE \in FkModes
          /\ UNCHANGED moved
       \/ rows[i] = NoRow /\ node = "renamed" /\ moved' = moved \cup {i}
    /\ UNCHANGED <<kind, job, request, parent, node, jobID, values, run, asked, now, ticked, faults, overtaken>>

\* fireFunc's calls, and those of afterTaskRunsWithError, end within Timeout of
\* its context's begin. What does not wait for anybody takes no time.
InTime(r) ==
    CASE run[r].at \in {"new", "ok", "failed", "lost"} -> TRUE
      [] run[r].at \in {"insert", "request", "send", "record"} -> now < run[r].since + Timeout
      [] OTHER -> FALSE

\* A second passes: no call is over time, and gocron is not late with a run.
Tick ==
    /\ now < MaxTime
    /\ \A r \in Runs : InTime(r)
    /\ MinuteBegins => \A r \in Runs : run[r].at # "new"
    /\ now' = now + 1 /\ ticked' = FALSE
    /\ UNCHANGED <<kind, job, request, parent, nodeVars, jobID, values, run, rows, asked, faults, overtaken>>

-------------------------------------------------------------------------------
Init ==
    /\ kind \in Kinds
    /\ job = "none" /\ request = "new"
    /\ parent = IF kind = "cron" THEN "absent" ELSE "present"
    /\ jobID = NoId /\ values = NoId
    /\ run = [r \in Runs |-> NewRun]
    /\ rows = [i \in Ids |-> NoRow]
    /\ asked = {}
    /\ now = 0 /\ ticked = FALSE
    /\ node = "there" /\ moved = {}
    /\ faults = 0 /\ overtaken = {}

RunStep(r) ==
    \/ SetJobID(r) \/ SetValues(r) \/ InsertRun(r) \/ EncodeRequest(r) \/ SendRequest(r)
    \/ AfterSuccess(r) \/ RecordError(r)

Next ==
    \/ \E r \in Runs : \/ RunStep(r)
                       \/ CronTick(r) \/ FireTask(r) \/ FireFirst(r) \/ NewOneTimeJob(r)
    \/ NewCronJob \/ InsertTask \/ StopTask \/ DeleteParent
    \/ DeleteNode \/ RenameNode
    \/ \E i \in Ids : Poll(i)
    \/ Tick \/ Crash

Spec == Init /\ [][Next]_vars

\* A run is a goroutine; its calls end by their timeout.
Fairness == \A r \in Runs : WF_vars(RunStep(r))

FairSpec == Spec /\ Fairness

-------------------------------------------------------------------------------
\* A run inserts, sends and reports the id it drew, although each is read from
\* the shared fields (task.go:107, 127, 178). Only a run that another one overtakes
\* may take another's, and then a later one.
RunKeepsItsId ==
    \A r \in Runs :
        \A i \in {run[r].inserted, run[r].sent, run[r].recorded} \ {NoId} :
            i = run[r].own \/ (r \in overtaken /\ run[r].own < i)

\* Overtaken between insert and request, it asks for another run's job.
Mistaken(r) == run[r].sent \notin {NoId, run[r].inserted}

\* What a run asks Scrapyd for under the id it inserted has a row as long as the
\* node is there, and, while the task or user exists, one that names it
\* (task.go:87-98): no poll came first. Except that another run has been mistaken
\* for it before.
AskedHaveRows ==
    \A r \in Runs :
        node = "there" /\ run[r].sent # NoId /\ ~Mistaken(r)
            => /\ rows[run[r].sent] # NoRow
               /\ parent = "present" =>
                      \/ rows[run[r].sent].taskId \/ rows[run[r].sent].startedBy
                      \/ \E q \in Runs : Mistaken(q) /\ run[q].sent = run[r].sent

\* A run that failed after it inserted its row says so in that row
\* (task.go:174-180) if it was not overtaken, or not before it reported, and the
\* node is there.
FailuresShown ==
    node = "there" /\ faults = 0 =>
        \A r \in Runs :
            run[r].at = "failed" /\ run[r].inserted # NoId
            /\ (r \in overtaken => run[r].recorded = run[r].inserted)
                => rows[run[r].inserted].error

\* The same without the exceptions. False: see the README.
AskedAlwaysHaveRows == node = "there" => \A i \in asked : rows[i] # NoRow

FailuresAlwaysShown ==
    \A r \in Runs :
        run[r].at = "failed" /\ run[r].inserted # NoId /\ faults = 0
            => LET row == rows[run[r].inserted] IN row # NoRow => row.error

\* A task fired while it is being added (the form asks "Fire task immediately
\* after adding?", add_tasks.tmpl:109) has a row of that run in the jobs table.
\* False: the run may insert its row before the task has one (scheduler.go:93, 113).
FirstRunRecorded ==
    \A r \in Runs :
        Ended(r) /\ request = "added" /\ parent = "present" /\ faults = 0
            => run[r].inserted # NoId

\* A run ends, and a one-time job leaves the scheduler with it, however it went
\* (task.go:159, 164).
RunsEnd == \A r \in Runs : Under(r) ~> Ended(r) /\ (kind = "once" => job = "removed")
===============================================================================
