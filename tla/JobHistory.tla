----------------------------- MODULE JobHistory -----------------------------
(***************************************************************************)
(* How the jobs table follows what Scrapyd does.  A run writes its row and  *)
(* then asks Scrapyd to start the spider; pollers (the scheduled cycle and  *)
(* every load of a node's jobs page) read the logparser's statistics, then  *)
(* the list of jobs, then upsert the jobs one by one; clients stop and      *)
(* delete jobs.  None of them waits for another, so a poller may write a    *)
(* snapshot that is older than the row.                                     *)
(*                                                                         *)
(* A job here is one row: no two runs draw the same id (they may, when they *)
(* start in the same second), and all jobs are on one node.                 *)
(***************************************************************************)
EXTENDS JobTable, FiniteSets

CONSTANTS
  Jobs,
  OneTime,    \* those a user fires; the others are runs of a cron task
  Pollers,
  Cycle,      \* the poller that runs on the schedule
  Events,     \* what may go wrong or be asked for, besides plain running
  MaxFaults   \* bound on failing calls and crashes

ASSUME OneTimeAssumption == OneTime \subseteq Jobs
ASSUME CycleAssumption == Cycle \in Pollers
ASSUME EventAssumption ==
  Events \subseteq {"crash", "stop", "delete", "elsewhere", "forget", "drop", "rename"}
ASSUME FaultAssumption == MaxFaults \in Nat

VARIABLES
  table,    \* jobs table
  scrapyd,  \* where Scrapyd has the job
  stat,     \* the logparser's last_update_time for the job; 0: it has none
  now,      \* the logparser's clock
  run,      \* how far the run that owns the job is
  stop,     \* stopJob handlers that Scrapyd has answered
  poll,     \* the pollers
  faults

vars == <<table, scrapyd, stat, now, run, stop, poll, faults>>

Listed == {"pending", "running", "finished"}

IdlePoll == [at |-> "idle", stat |-> [j \in Jobs |-> 0],
             list |-> [j \in Jobs |-> "none"], todo |-> {}]

Poll == [at : {"idle", "list", "write"}, stat : [Jobs -> Stamps],
         list : [Jobs -> Listed \cup {"none"}], todo : SUBSET Jobs]

Fault == faults < MaxFaults /\ faults' = faults + 1
-----------------------------------------------------------------------------
(* The run of a job: beforeJobRuns names it, fireFunc inserts its row and  *)
(* asks Scrapyd for it, afterTaskRunsWithError records a failure.          *)

BeforeJobRuns(j) ==
  /\ run[j] = "none" /\ scrapyd[j] = "none"
  /\ run' = [run EXCEPT ![j] = "insert"]
  /\ UNCHANGED <<table, scrapyd, stat, now, stop, poll, faults>>

\* What insertJobIntoDB inserts: a one-time job names its user, a cron run its
\* task, which names the user who created it.
Scheduled(j) == NewJobRow("scheduled", 0, "null", j \notin OneTime, j \in OneTime)

\* Faulty variant: the error of the insert is dropped and the run goes on.
InsertRunIgnoresError(j) ==
  /\ run[j] = "insert"
  /\ \/ /\ table' = [table EXCEPT ![j] = InsertJob(@, Scheduled(j))]
        /\ UNCHANGED faults
     \/ Fault /\ UNCHANGED table
  /\ run' = [run EXCEPT ![j] = "send"]
  /\ UNCHANGED <<scrapyd, stat, now, stop, poll>>

InsertRun(j) ==
  /\ run[j] = "insert"
  /\ \/ /\ table' = [table EXCEPT ![j] = InsertJob(@, Scheduled(j))]
        /\ run' = [run EXCEPT ![j] = "send"]
        /\ UNCHANGED faults
     \/ /\ Fault
        /\ run' = [run EXCEPT ![j] = "failed"]
        /\ UNCHANGED table
  /\ UNCHANGED <<scrapyd, stat, now, stop, poll>>

\* The answer may be lost after Scrapyd has queued the job.  A node renamed
\* meanwhile is sql.ErrNoRows, which afterTaskRunsWithError takes for a
\* refused insert and does not record.
SendRun(j) ==
  /\ run[j] = "send"
  /\ \/ /\ scrapyd' = [scrapyd EXCEPT ![j] = "pending"]
        /\ run' = [run EXCEPT ![j] = "done"]
        /\ UNCHANGED faults
     \/ /\ Fault
        /\ scrapyd' \in {scrapyd, [scrapyd EXCEPT ![j] = "pending"]}
        /\ run' = [run EXCEPT ![j] = "failed"]
     \/ /\ "rename" \in Events
        /\ run' = [run EXCEPT ![j] = "done"]
        /\ UNCHANGED <<scrapyd, faults>>
  /\ UNCHANGED <<table, stat, now, stop, poll>>

RecordError(j) ==
  /\ run[j] = "failed"
  /\ run' = [run EXCEPT ![j] = "done"]
  /\ \/ /\ table' = [table EXCEPT ![j] = SetErrorWhereJobId(@)]
        /\ UNCHANGED faults
     \/ Fault /\ UNCHANGED table
  /\ UNCHANGED <<scrapyd, stat, now, stop, poll>>

RunStep(j) == InsertRun(j) \/ SendRun(j) \/ RecordError(j)
-----------------------------------------------------------------------------
(* requestScrapydWorkInfo, handleListOfSpiders, doPartialUpdate *)

ReadStats(p) ==
  /\ poll[p].at = "idle"
  /\ poll' = [poll EXCEPT ![p] = [IdlePoll EXCEPT !.at = "list", !.stat = stat]]
  /\ UNCHANGED <<table, scrapyd, stat, now, run, stop, faults>>

ReadList(p) ==
  LET listed == [j \in Jobs |-> IF scrapyd[j] \in Listed THEN scrapyd[j] ELSE "none"]
      todo   == {j \in Jobs : listed[j] # "none"}
  IN
  /\ poll[p].at = "list"
  /\ poll' = [poll EXCEPT ![p] =
                IF todo = {} THEN IdlePoll
                ELSE [@ EXCEPT !.at = "write", !.list = listed, !.todo = todo]]
  /\ UNCHANGED <<table, scrapyd, stat, now, run, stop, faults>>

\* The pending ones first, then the running, then the finished.
Rank == [pending |-> 1, running |-> 2, finished |-> 3]
Due(q) == {j \in q.todo : \A k \in q.todo : Rank[q.list[j]] <= Rank[q.list[k]]}

\* What a poll knows of a job: a finish time only of a finished one (the
\* others carry Go's zero time, which is not NULL); without a statistic the
\* update time is zero too.
Reported(q, j) ==
  NewJobRow(q.list[j], q.stat[j], IF q.list[j] = "finished" THEN "time" ELSE "zero",
            FALSE, FALSE)

Done(p, j) ==
  IF poll[p].todo = {j} THEN IdlePoll ELSE [poll[p] EXCEPT !.todo = @ \ {j}]

\* Faulty variant: the running list is stored under the next status.
WriteJobSwapsLists(p) ==
  /\ poll[p].at = "write"
  /\ \E j \in Due(poll[p]) :
       /\ poll' = [poll EXCEPT ![p] = Done(p, j)]
       /\ table' = [table EXCEPT ![j] = InsertJob(@,
            [Reported(poll[p], j) EXCEPT !.status = IF @ = "running" THEN "finished" ELSE @])]
  /\ UNCHANGED <<scrapyd, stat, now, run, stop, faults>>

\* A refused or failed upsert is logged and the next job is done.
WriteJob(p) ==
  /\ poll[p].at = "write"
  /\ \E j \in Due(poll[p]) :
       /\ poll' = [poll EXCEPT ![p] = Done(p, j)]
       /\ \/ /\ table' = [table EXCEPT ![j] = InsertJob(@, Reported(poll[p], j))]
             /\ UNCHANGED faults
          \/ Fault /\ UNCHANGED table
  /\ UNCHANGED <<scrapyd, stat, now, run, stop>>

\* Either request fails: the poll is over.
PollFails(p) ==
  /\ poll[p].at \in {"idle", "list"}
  /\ Fault
  /\ poll' = [poll EXCEPT ![p] = IdlePoll]
  /\ UNCHANGED <<table, scrapyd, stat, now, run, stop>>

PollStep(p) == ReadStats(p) \/ ReadList(p) \/ WriteJob(p)
-----------------------------------------------------------------------------
(* Clients *)

DeleteJob(j) ==
  /\ "delete" \in Events
  /\ table[j] # NoRow
  /\ table' = [table EXCEPT ![j] = SoftDeleteJob(@)]
  /\ UNCHANGED <<scrapyd, stat, now, run, stop, poll, faults>>

\* stopJob: Scrapyd drops a pending job from its queue for good and signals
\* a running one.  When its answer is lost, nobody is recorded to have asked.
SendCancel(j) ==
  /\ "stop" \in Events
  /\ table[j] # NoRow /\ ~stop[j]
  /\ \/ /\ stop' = [stop EXCEPT ![j] = TRUE]
        /\ UNCHANGED faults
     \/ Fault /\ UNCHANGED stop
  /\ scrapyd' = [scrapyd EXCEPT ![j] = IF @ = "pending" THEN "gone" ELSE @]
  /\ UNCHANGED <<table, stat, now, run, poll>>

RecordStop(j) ==
  /\ stop[j]
  /\ stop' = [stop EXCEPT ![j] = FALSE]
  /\ \/ /\ table' = [table EXCEPT ![j] = SetStoppedByOnJob(@)]
        /\ UNCHANGED faults
     \/ Fault /\ UNCHANGED table
  /\ UNCHANGED <<scrapyd, stat, now, run, poll>>
-----------------------------------------------------------------------------
(* Scrapyd and the logparser (external) *)

\* A job that was not started through this server.
Elsewhere(j) ==
  /\ "elsewhere" \in Events
  /\ scrapyd[j] = "none" /\ run[j] = "none"
  /\ scrapyd' = [scrapyd EXCEPT ![j] = "pending"]
  /\ UNCHANGED <<table, stat, now, run, stop, poll, faults>>

Progress(j) ==
  /\ \/ scrapyd[j] = "pending"  /\ scrapyd' = [scrapyd EXCEPT ![j] = "running"]
     \/ scrapyd[j] = "running"  /\ scrapyd' = [scrapyd EXCEPT ![j] = "finished"]
     \/ scrapyd[j] = "finished" /\ "drop" \in Events
                                /\ scrapyd' = [scrapyd EXCEPT ![j] = "gone"]
  /\ UNCHANGED <<table, stat, now, run, stop, poll, faults>>

\* The logparser's round: it parses the log of a job that has one.
ParseLog(j) ==
  /\ scrapyd[j] \in {"running", "finished"}
  /\ now < MaxStamp
  /\ now' = now + 1
  /\ stat' = [stat EXCEPT ![j] = now + 1]
  /\ UNCHANGED <<table, scrapyd, run, stop, poll, faults>>

\* It drops the job's statistics.
ForgetLog(j) ==
  /\ "forget" \in Events
  /\ stat[j] > 0
  /\ stat' = [stat EXCEPT ![j] = 0]
  /\ UNCHANGED <<table, scrapyd, now, run, stop, poll, faults>>

\* This server stops and starts again: nothing that was under way resumes.
Crash ==
  /\ "crash" \in Events
  /\ Fault
  /\ run' = [j \in Jobs |-> IF run[j] = "none" THEN "none" ELSE "done"]
  /\ stop' = [j \in Jobs |-> FALSE]
  /\ poll' = [p \in Pollers |-> IdlePoll]
  /\ UNCHANGED <<table, scrapyd, stat, now>>
-----------------------------------------------------------------------------
Init ==
  /\ table = [j \in Jobs |-> NoRow]
  /\ scrapyd = [j \in Jobs |-> "none"]
  /\ stat = [j \in Jobs |-> 0]
  /\ now = 0
  /\ run = [j \in Jobs |-> "none"]
  /\ stop = [j \in Jobs |-> FALSE]
  /\ poll = [p \in Pollers |-> IdlePoll]
  /\ faults = 0

OfJob(j) ==
  \/ BeforeJobRuns(j) \/ RunStep(j)
  \/ DeleteJob(j) \/ SendCancel(j) \/ RecordStop(j)
  \/ Elsewhere(j) \/ Progress(j) \/ ParseLog(j) \/ ForgetLog(j)

Next ==
  \/ \E j \in Jobs : OfJob(j)
  \/ \E p \in Pollers : PollStep(p) \/ PollFails(p)
  \/ Crash

Spec == Init /\ [][Next]_vars

\* gocron runs the cycle again and again and a started run or handler to its
\* end (each has a timeout); page loads, Scrapyd and the logparser owe nothing.
Fairness ==
  /\ WF_vars(PollStep(Cycle))
  /\ \A j \in Jobs : WF_vars(RunStep(j))

FairSpec == Spec /\ Fairness
-----------------------------------------------------------------------------
(* Properties *)

\* The variables have their types, and a poller that writes has jobs to write
\* that its list named.
TypeOK ==
  /\ table \in [Jobs -> JobRow \cup {NoRow}]
  /\ scrapyd \in [Jobs -> Listed \cup {"none", "gone"}]
  /\ stat \in [Jobs -> Stamps] /\ now \in Stamps
  /\ run \in [Jobs -> {"none", "insert", "send", "failed", "done"}]
  /\ stop \in [Jobs -> BOOLEAN]
  /\ poll \in [Pollers -> Poll]
  /\ \A p \in Pollers : /\ poll[p].at = "write" <=> poll[p].todo # {}
                        /\ \A j \in poll[p].todo : poll[p].list[j] # "none"
  /\ faults \in 0..MaxFaults

\* A row's update_time never goes back, whatever order the pollers write in
\* (the WHERE clause of insertJob).
UpdateTimeMonotone ==
  [][\A j \in Jobs : table[j] # NoRow =>
       table'[j] # NoRow /\ table'[j].update >= table[j].update]_vars

\* A job the client deleted stays deleted: no poller whose snapshot still
\* holds it, and no run that ends late, brings it back or updates it; only
\* its error may still be recorded.
DeletedJobsFrozen ==
  [][\A j \in Jobs : table[j] # NoRow /\ table[j].deleted =>
       /\ table'[j].deleted /\ table'[j].update = table[j].update
       /\ table'[j].status \in {table[j].status, "error"}]_vars

\* Which task or user started a job, and who stopped it, is never lost to the
\* polls, which know none of them (README: "tracks which user started each
\* job/task").
UsersKept ==
  [][\A j \in Jobs : table[j] # NoRow =>
       /\ table[j].taskId => table'[j].taskId
       /\ table[j].startedBy => table'[j].startedBy
       /\ table[j].stoppedBy => table'[j].stoppedBy]_vars

\* A job this server started is in the table, with its user or its task,
\* before Scrapyd knows of it: no poll can create its row without one.
OwnJobsAttributed ==
  \A j \in Jobs : run[j] # "none" =>
    /\ scrapyd[j] # "none" => table[j] # NoRow
    /\ table[j] # NoRow => IF j \in OneTime THEN table[j].startedBy ELSE table[j].taskId

\* Where Scrapyd may have a job that was seen in one of its lists.
Since == [pending  |-> {"pending", "running", "finished", "gone"},
          running  |-> {"running", "finished", "gone"},
          finished |-> {"finished", "gone"}]

\* The table never runs ahead of Scrapyd: a job shown running has been
\* started, and one shown finished has finished.
NeverAhead ==
  \A j \in Jobs :
    table[j] # NoRow /\ table[j].status \in Listed => scrapyd[j] \in Since[table[j].status]

\* A job shown finished is not shown running again: the comment of polling.go
\* says that an older update is rejected.
FinishedStays ==
  [][\A j \in Jobs : table[j] # NoRow /\ table[j].status = "finished" =>
       table'[j].status = "finished"]_vars

\* The time a job finished survives the writes that do not know it, as a
\* coalesced column would.
FinishTimeKept ==
  [][\A j \in Jobs : table[j] # NoRow /\ table[j].finish = "time" =>
       table'[j].finish = "time"]_vars

Shown(j) == table[j] # NoRow /\ (table[j].deleted \/ table[j].status = "finished")

\* In the end the table shows every finished job that Scrapyd still lists as
\* finished, whichever stale snapshots and late errors were written before.
FinishedShown == \A j \in Jobs : <>[](scrapyd[j] = "finished" => Shown(j))

\* A row does not stay "scheduled", a status no page shows: its run ends in an
\* error, or Scrapyd has the job and a poll finds it there.
Unresolved(j) == table[j] # NoRow /\ ~table[j].deleted /\ table[j].status = "scheduled"

ScheduledResolves ==
  \A j \in Jobs : Unresolved(j) ~> ~Unresolved(j) \/ scrapyd[j] = "gone"

\* What every stale write can do at worst: a snapshot is never newer than the
\* statistics, so the next poll's write is accepted again.
StampsBounded ==
  \A j \in Jobs :
    /\ stat[j] <= now
    /\ table[j] # NoRow => table[j].update <= stat[j]
    /\ \A p \in Pollers : poll[p].stat[j] <= stat[j]
-----------------------------------------------------------------------------
(* The inductive invariant behind NeverAhead and OwnJobsAttributed *)

\* What a poller holds is the past of what Scrapyd has.
SnapshotsBehind ==
  \A p \in Pollers, j \in Jobs :
    poll[p].list[j] \in Listed => scrapyd[j] \in Since[poll[p].list[j]]

\* Scrapyd has no job of this server's without a row, a run asks it only with
\* one, and a job nobody has heard of has none.
RowsFirst ==
  \A j \in Jobs :
    table[j] = NoRow => run[j] # "send" /\ (run[j] # "none" => scrapyd[j] = "none")

NoRowBeforeJob ==
  \A j \in Jobs : run[j] = "none" /\ scrapyd[j] = "none" => table[j] = NoRow

\* Scrapyd hears of a run's job only from the run.
AskedByRun == \A j \in Jobs : run[j] \in {"insert", "send"} => scrapyd[j] = "none"

Informed ==
  /\ NeverAhead /\ OwnJobsAttributed
  /\ SnapshotsBehind /\ RowsFirst /\ NoRowBeforeJob /\ AskedByRun
=============================================================================
