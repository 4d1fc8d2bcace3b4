-------------------------- MODULE JobHistoryProofs --------------------------
(***************************************************************************)
(* Proofs about JobHistory, for every set of jobs and pollers, every event  *)
(* and whatever the bounds are.                                             *)
(***************************************************************************)
EXTENDS JobHistory, TLAPS

USE StampAssumption, NoRowAssumption, OneTimeAssumption, CycleAssumption,
    EventAssumption, FaultAssumption
-----------------------------------------------------------------------------
(* The statements on a row *)

Column == JobRow \cup {NoRow}

LEMMA NewRowTyped ==
  ASSUME NEW s \in JobStatus, NEW u \in Stamps, NEW f \in Times,
         NEW t \in BOOLEAN, NEW b \in BOOLEAN
  PROVE  NewJobRow(s, u, f, t, b) \in JobRow
  BY DEF NewJobRow, JobRow

LEMMA StatementsTyped ==
  ASSUME NEW old \in Column
  PROVE  /\ \A new \in JobRow : InsertJob(old, new) \in JobRow
         /\ SetErrorWhereJobId(old) \in Column
         /\ SetStoppedByOnJob(old) \in Column
         /\ SoftDeleteJob(old) \in Column
<1>1. ASSUME NEW new \in JobRow PROVE InsertJob(old, new) \in JobRow
  <2>1. CASE old = NoRow
    BY <2>1 DEF InsertJob
  <2>2. CASE old # NoRow /\ ~Accepted(old, new)
    BY <2>2 DEF InsertJob, Column
  <2>3. CASE old # NoRow /\ Accepted(old, new)
    <3>1. old \in JobRow
      BY <2>3 DEF Column
    <3>2. Coalesce(new.finish, old.finish) \in Times
      BY <3>1 DEF Coalesce, JobRow
    <3> QED BY <2>3, <3>1, <3>2 DEF InsertJob, JobRow
  <2> QED BY <2>1, <2>2, <2>3
<1>2. /\ SetErrorWhereJobId(old) \in Column
      /\ SetStoppedByOnJob(old) \in Column
      /\ SoftDeleteJob(old) \in Column
  <2>1. CASE old = NoRow
    BY <2>1 DEF SetErrorWhereJobId, SetStoppedByOnJob, SoftDeleteJob, Column
  <2>2. CASE old \in JobRow
    BY <2>2 DEF SetErrorWhereJobId, SetStoppedByOnJob, SoftDeleteJob, Column, JobRow, JobStatus
  <2> QED BY <2>1, <2>2 DEF Column
<1> QED BY <1>1, <1>2

\* What the statements do to a row that is there, all that the properties of
\* one step rest on: update_time grows, a deleted row is left but for its
\* error, and what it says of tasks and users stays.
RowKept(old, new) ==
  /\ new # NoRow
  /\ new.update >= old.update
  /\ old.deleted => /\ new.deleted /\ new.update = old.update
                    /\ new.status \in {old.status, "error"}
  /\ old.taskId => new.taskId
  /\ old.startedBy => new.startedBy
  /\ old.stoppedBy => new.stoppedBy

LEMMA StatementsKeepRows ==
  ASSUME NEW old \in JobRow
  PROVE  /\ RowKept(old, old)
         /\ \A new \in JobRow : RowKept(old, InsertJob(old, new))
         /\ RowKept(old, SetErrorWhereJobId(old))
         /\ RowKept(old, SetStoppedByOnJob(old))
         /\ RowKept(old, SoftDeleteJob(old))
<1>1. old # NoRow /\ old.update \in Nat
  BY DEF JobRow, Stamps
<1>2. ASSUME NEW new \in JobRow PROVE RowKept(old, InsertJob(old, new))
  <2>1. InsertJob(old, new) \in JobRow
    BY StatementsTyped DEF Column
  <2>2. new.update \in Nat
    BY DEF JobRow, Stamps
  <2>3. CASE Accepted(old, new)
    <3> DEFINE row == [old EXCEPT !.status = new.status, !.update = new.update,
                        !.finish = Coalesce(new.finish, @),
                        !.startedBy = new.startedBy \/ @, !.stoppedBy = new.stoppedBy \/ @]
    <3>1. InsertJob(old, new) = row
      BY <1>1, <2>3 DEF InsertJob
    <3>2. /\ row.update = new.update /\ row.taskId = old.taskId
          /\ row.startedBy = (new.startedBy \/ old.startedBy)
          /\ row.stoppedBy = (new.stoppedBy \/ old.stoppedBy)
      BY DEF JobRow
    <3> HIDE DEF row
    <3> QED BY <1>1, <2>1, <2>2, <2>3, <3>1, <3>2 DEF RowKept, Accepted
  <2>4. CASE ~Accepted(old, new)
    BY <1>1, <2>4 DEF InsertJob, RowKept
  <2> QED BY <2>3, <2>4
<1>3. RowKept(old, SetErrorWhereJobId(old))
  <2> DEFINE row == [old EXCEPT !.status = "error", !.error = TRUE]
  <2>1. row \in JobRow
    BY DEF JobRow, JobStatus
  <2>2. /\ row.update = old.update /\ row.taskId = old.taskId
        /\ row.startedBy = old.startedBy
        /\ old.stoppedBy => row.stoppedBy
        /\ old.deleted => row.deleted
        /\ row.status \in {old.status, "error"}
    BY DEF JobRow
  <2>3. SetErrorWhereJobId(old) = row
    BY <1>1 DEF SetErrorWhereJobId
  <2> HIDE DEF row
  <2> QED BY <1>1, <2>1, <2>2, <2>3 DEF RowKept
<1>4. RowKept(old, SetStoppedByOnJob(old))
  <2> DEFINE row == [old EXCEPT !.stoppedBy = TRUE]
  <2>1. row \in JobRow
    BY DEF JobRow
  <2>2. /\ row.update = old.update /\ row.taskId = old.taskId
        /\ row.startedBy = old.startedBy
        /\ old.stoppedBy => row.stoppedBy
        /\ old.deleted => row.deleted
        /\ row.status \in {old.status, "error"}
    BY DEF JobRow
  <2>3. SetStoppedByOnJob(old) = row
    BY <1>1 DEF SetStoppedByOnJob
  <2> HIDE DEF row
  <2> QED BY <1>1, <2>1, <2>2, <2>3 DEF RowKept
<1>5. RowKept(old, SoftDeleteJob(old))
  <2> DEFINE row == [old EXCEPT !.deleted = TRUE]
  <2>1. row \in JobRow
    BY DEF JobRow
  <2>2. /\ row.update = old.update /\ row.taskId = old.taskId
        /\ row.startedBy = old.startedBy
        /\ old.stoppedBy => row.stoppedBy
        /\ old.deleted => row.deleted
        /\ row.status \in {old.status, "error"}
    BY DEF JobRow
  <2>3. SoftDeleteJob(old) = row
    BY <1>1 DEF SoftDeleteJob
  <2> HIDE DEF row
  <2> QED BY <1>1, <2>1, <2>2, <2>3 DEF RowKept
<1>6. RowKept(old, old)
  BY <1>1 DEF RowKept
<1> QED BY <1>2, <1>3, <1>4, <1>5, <1>6
-----------------------------------------------------------------------------
(* Types *)

LEMMA ScheduledTyped ==
  ASSUME NEW j \in Jobs
  PROVE  Scheduled(j) \in JobRow
<1>1. 0 \in Stamps
  BY DEF Stamps
<1>2. "scheduled" \in JobStatus /\ "null" \in Times
  BY DEF JobStatus, Times
<1>3. (j \notin OneTime) \in BOOLEAN /\ (j \in OneTime) \in BOOLEAN
  OBVIOUS
<1> QED BY <1>1, <1>2, <1>3, NewRowTyped, Zenon DEF Scheduled

LEMMA ReportedTyped ==
  ASSUME NEW q \in Poll, NEW j \in Jobs, q.list[j] # "none"
  PROVE  Reported(q, j) \in JobRow
<1>1. q.list[j] \in JobStatus /\ q.stat[j] \in Stamps
  BY DEF Poll, Listed, JobStatus
<1> QED BY <1>1, NewRowTyped DEF Reported, Times

LEMMA IdlePollTyped == IdlePoll \in Poll
<1>1. 0 \in Stamps
  BY DEF Stamps
<1> QED BY <1>1 DEF IdlePoll, Poll

\* A job a poller is about to write is one its list named.
LEMMA DueListed ==
  ASSUME TypeOK, NEW p \in Pollers, NEW j \in Due(poll[p])
  PROVE  /\ j \in Jobs /\ poll[p] \in Poll /\ j \in poll[p].todo
         /\ poll[p].list[j] \in Listed
         /\ Reported(poll[p], j) \in JobRow
<1>1. j \in poll[p].todo /\ poll[p] \in Poll
  BY DEF Due, TypeOK
<1>2. j \in Jobs /\ poll[p].list[j] # "none"
  BY <1>1 DEF TypeOK, Poll
<1>3. poll[p].list[j] \in Listed
  BY <1>1, <1>2 DEF Poll
<1> QED BY <1>1, <1>2, <1>3, ReportedTyped

\* The part of TypeOK about the pollers.
PollsOK ==
  /\ poll \in [Pollers -> Poll]
  /\ \A p \in Pollers : /\ poll[p].at = "write" <=> poll[p].todo # {}
                        /\ \A j \in poll[p].todo : poll[p].list[j] # "none"

\* The rest of it.
OthersOK ==
  /\ scrapyd \in [Jobs -> Listed \cup {"none", "gone"}]
  /\ stat \in [Jobs -> Stamps] /\ now \in Stamps
  /\ run \in [Jobs -> {"none", "insert", "send", "failed", "done"}]
  /\ stop \in [Jobs -> BOOLEAN]
  /\ faults \in 0..MaxFaults

LEMMA TypeParts ==
  TypeOK <=> table \in [Jobs -> Column] /\ PollsOK /\ OthersOK
  BY DEF TypeOK, PollsOK, OthersOK, Column

\* How a step of the system changes the table: one statement on one row.
Upserts(j) ==
  \/ /\ run[j] = "insert"
     /\ table'[j] = InsertJob(table[j], Scheduled(j))
  \/ \E p \in Pollers : /\ poll[p].at = "write" /\ j \in Due(poll[p])
                        /\ table'[j] = InsertJob(table[j], Reported(poll[p], j))

Updates(j) ==
  \/ table'[j] = SetErrorWhereJobId(table[j])
  \/ table'[j] = SetStoppedByOnJob(table[j])
  \/ table'[j] = SoftDeleteJob(table[j])

OneRowChanges ==
  \/ UNCHANGED table
  \/ \E j \in Jobs : /\ table' = [table EXCEPT ![j] = table'[j]]
                     /\ Upserts(j) \/ Updates(j)

LEMMA RunStatements ==
  ASSUME TypeOK, NEW j \in Jobs, RunStep(j)
  PROVE  OneRowChanges
<1>1. table \in [Jobs -> Column]
  BY TypeParts
<1>2. CASE InsertRun(j)
  BY <1>1, <1>2 DEF InsertRun, Fault, OneRowChanges, Upserts
<1>3. CASE SendRun(j)
  BY <1>3 DEF SendRun, OneRowChanges
<1>4. CASE RecordError(j)
  BY <1>1, <1>4 DEF RecordError, Fault, OneRowChanges, Updates
<1> QED BY <1>2, <1>3, <1>4 DEF RunStep

LEMMA PollStatements ==
  ASSUME TypeOK, NEW p \in Pollers, PollStep(p) \/ PollFails(p)
  PROVE  OneRowChanges
<1>1. table \in [Jobs -> Column]
  BY TypeParts
<1>2. CASE ReadStats(p) \/ ReadList(p) \/ PollFails(p)
  BY <1>2 DEF ReadStats, ReadList, PollFails, OneRowChanges
<1>3. CASE WriteJob(p)
  <2>1. PICK j \in Due(poll[p]) :
          \/ table' = [table EXCEPT ![j] = InsertJob(@, Reported(poll[p], j))]
          \/ UNCHANGED table
    BY <1>3 DEF WriteJob
  <2>2. j \in Jobs /\ poll[p].at = "write"
    BY <1>3, DueListed DEF WriteJob
  <2> QED BY <1>1, <2>1, <2>2 DEF OneRowChanges, Upserts
<1> QED BY <1>2, <1>3 DEF PollStep

LEMMA Statements ==
  ASSUME TypeOK, [Next]_vars
  PROVE  OneRowChanges
<1>1. table \in [Jobs -> Column]
  BY TypeParts
<1>2. ASSUME NEW j \in Jobs, OfJob(j) PROVE OneRowChanges
  <2>1. CASE RunStep(j)
    BY <2>1, RunStatements
  <2>2. CASE DeleteJob(j)
    BY <1>1, <2>2 DEF DeleteJob, OneRowChanges, Updates
  <2>3. CASE RecordStop(j)
    BY <1>1, <2>3 DEF RecordStop, Fault, OneRowChanges, Updates
  <2>4. CASE ~RunStep(j) /\ ~DeleteJob(j) /\ ~RecordStop(j)
    BY <1>2, <2>4 DEF OfJob, BeforeJobRuns, SendCancel, Elsewhere, Progress, ParseLog,
                      ForgetLog, OneRowChanges
  <2> QED BY <2>1, <2>2, <2>3, <2>4
<1>3. CASE Crash \/ UNCHANGED vars
  BY <1>3 DEF Crash, vars, OneRowChanges
<1> QED BY <1>2, <1>3, PollStatements DEF Next

LEMMA UpsertsTyped ==
  ASSUME TypeOK, NEW j \in Jobs, Upserts(j)
  PROVE  \E r \in JobRow : table'[j] = InsertJob(table[j], r)
  BY ScheduledTyped, DueListed DEF Upserts

LEMMA TableTyped ==
  ASSUME TypeOK, OneRowChanges
  PROVE  table' \in [Jobs -> Column]
<1>1. table \in [Jobs -> Column]
  BY TypeParts
<1>2. ASSUME NEW j \in Jobs, Upserts(j) \/ Updates(j) PROVE table'[j] \in Column
  BY <1>1, <1>2, UpsertsTyped, StatementsTyped DEF Updates, Column
<1> QED BY <1>1, <1>2 DEF OneRowChanges

\* A poller's step leaves it either idle or with jobs of its list to write.
PollerOK(q) ==
  /\ q \in Poll
  /\ q.at = "write" <=> q.todo # {}
  /\ \A j \in q.todo : q.list[j] # "none"

LEMMA IdlePollerOK == PollerOK(IdlePoll)
  BY IdlePollTyped DEF PollerOK, IdlePoll

LEMMA OnePollChanges ==
  ASSUME PollsOK, NEW p \in Pollers, NEW q, PollerOK(q), poll' = [poll EXCEPT ![p] = q]
  PROVE  PollsOK'
  BY DEF PollsOK, PollerOK

LEMMA PollStepTyped ==
  ASSUME TypeOK, NEW p \in Pollers, PollStep(p) \/ PollFails(p)
  PROVE  PollsOK' /\ OthersOK'
<1>1. PollsOK /\ OthersOK /\ PollerOK(poll[p])
  BY TypeParts DEF PollsOK, PollerOK
<1>2. CASE ReadStats(p)
  <2>1. PollerOK([IdlePoll EXCEPT !.at = "list", !.stat = stat])
    BY <1>1, IdlePollTyped DEF PollerOK, IdlePoll, Poll, OthersOK
  <2> QED BY <1>1, <1>2, <2>1, OnePollChanges DEF ReadStats, OthersOK
<1>3. CASE ReadList(p)
  <2> DEFINE listed == [j \in Jobs |-> IF scrapyd[j] \in Listed THEN scrapyd[j] ELSE "none"]
             todo == {j \in Jobs : listed[j] # "none"}
  <2>1. PollerOK([poll[p] EXCEPT !.at = "write", !.list = listed, !.todo = todo]) \/ todo = {}
    BY <1>1 DEF PollerOK, Poll
  <2>2. poll' = [poll EXCEPT ![p] = IF todo = {} THEN IdlePoll
                   ELSE [poll[p] EXCEPT !.at = "write", !.list = listed, !.todo = todo]]
    BY <1>1, <1>3 DEF ReadList, PollsOK
  <2> HIDE DEF listed, todo
  <2>3. PollsOK'
    BY <1>1, <2>1, <2>2, IdlePollerOK, OnePollChanges
  <2> QED BY <1>1, <1>3, <2>3 DEF ReadList, OthersOK
<1>4. CASE WriteJob(p)
  <2>1. PICK j \in Due(poll[p]) : poll' = [poll EXCEPT ![p] = Done(p, j)]
    BY <1>4 DEF WriteJob
  <2>2. PollerOK(Done(p, j))
    <3>1. CASE poll[p].todo = {j}
      BY <3>1, IdlePollerOK DEF Done
    <3>2. CASE poll[p].todo # {j}
      <4>1. poll[p].todo \ {j} # {} /\ poll[p].at = "write"
        BY <1>4, <3>2, DueListed DEF WriteJob
      <4> QED BY <1>1, <3>2, <4>1 DEF Done, PollerOK, Poll
    <3> QED BY <3>1, <3>2
  <2>3. PollsOK'
    BY <1>1, <2>1, <2>2, OnePollChanges
  <2> QED BY <1>1, <1>4, <2>3 DEF WriteJob, OthersOK, Fault
<1>5. CASE PollFails(p)
  <2>1. PollsOK'
    BY <1>1, <1>5, IdlePollerOK, OnePollChanges DEF PollFails
  <2> QED BY <1>1, <1>5, <2>1 DEF PollFails, OthersOK, Fault
<1> QED BY <1>2, <1>3, <1>4, <1>5 DEF PollStep

LEMMA JobStepTyped ==
  ASSUME TypeOK, NEW j \in Jobs, OfJob(j)
  PROVE  PollsOK' /\ OthersOK'
<1>1. PollsOK /\ OthersOK
  BY TypeParts
<1>2. PollsOK'
  <2>1. UNCHANGED poll
    BY DEF OfJob, RunStep, BeforeJobRuns, InsertRun, SendRun, RecordError, DeleteJob,
           SendCancel, RecordStop, Elsewhere, Progress, ParseLog, ForgetLog
  <2> QED BY <1>1, <2>1 DEF PollsOK
<1>3. CASE RunStep(j) \/ BeforeJobRuns(j)
  BY <1>1, <1>2, <1>3 DEF RunStep, InsertRun, SendRun, RecordError, BeforeJobRuns, OthersOK, Fault,
                    Listed
<1>4. CASE DeleteJob(j) \/ SendCancel(j) \/ RecordStop(j)
  <2>1. CASE DeleteJob(j)
    BY <1>1, <1>2, <2>1 DEF DeleteJob, OthersOK
  <2>2. CASE SendCancel(j)
    <3>1. scrapyd' \in [Jobs -> Listed \cup {"none", "gone"}]
      BY <1>1, <2>2 DEF SendCancel, OthersOK
    <3>2. [stop EXCEPT ![j] = TRUE] \in [Jobs -> BOOLEAN]
      BY <1>1 DEF OthersOK
    <3>3. stop' \in [Jobs -> BOOLEAN]
      BY <1>1, <2>2, <3>2 DEF SendCancel, OthersOK
    <3>4. faults' \in 0..MaxFaults
      BY <1>1, <2>2 DEF SendCancel, OthersOK, Fault
    <3> QED BY <1>1, <1>2, <2>2, <3>1, <3>3, <3>4 DEF SendCancel, OthersOK
  <2>3. CASE RecordStop(j)
    BY <1>1, <1>2, <2>3 DEF RecordStop, OthersOK, Fault
  <2> QED BY <1>4, <2>1, <2>2, <2>3
<1>5. CASE Elsewhere(j) \/ Progress(j)
  BY <1>1, <1>2, <1>5 DEF Elsewhere, Progress, OthersOK, Listed
<1>6. CASE ParseLog(j) \/ ForgetLog(j)
  <2>1. now' \in Stamps /\ stat' \in [Jobs -> Stamps]
    BY <1>1, <1>6 DEF ParseLog, ForgetLog, OthersOK, Stamps
  <2> QED BY <1>1, <1>2, <1>6, <2>1 DEF ParseLog, ForgetLog, OthersOK
<1> QED BY <1>2, <1>3, <1>4, <1>5, <1>6 DEF OfJob

LEMMA TypeInductive ==
  ASSUME TypeOK, [Next]_vars
  PROVE  TypeOK'
<1>1. table' \in [Jobs -> Column]
  BY Statements, TableTyped
<1>2. PollsOK' /\ OthersOK'
  <2>1. PollsOK /\ OthersOK
    BY TypeParts
  <2>2. CASE Crash
    <3>1. PollsOK'
      BY <2>1, <2>2, IdlePollerOK DEF Crash, PollsOK, PollerOK
    <3> QED BY <2>1, <2>2, <3>1 DEF Crash, OthersOK, Fault
  <2>3. CASE UNCHANGED vars
    BY <2>1, <2>3 DEF vars, PollsOK, OthersOK
  <2> QED BY <2>2, <2>3, PollStepTyped, JobStepTyped DEF Next
<1> QED BY <1>1, <1>2 DEF TypeOK, PollsOK, OthersOK, Column

LEMMA TypeInitially == Init => TypeOK
<1> SUFFICES ASSUME Init PROVE TypeOK
  OBVIOUS
<1>1. PollsOK
  BY IdlePollerOK DEF Init, PollsOK, PollerOK
<1>2. OthersOK
  BY DEF Init, OthersOK, Stamps
<1>3. table \in [Jobs -> Column]
  BY DEF Init, Column
<1> QED BY <1>1, <1>2, <1>3, TypeParts

\* Rows, snapshots and runs have their types in every reachable state, and a
\* poller that writes has jobs to write that its list named
\* (requestScrapydWorkInfo).
THEOREM TypeCorrect == Spec => []TypeOK
<1>1. TypeOK /\ [Next]_vars => TypeOK'
  BY TypeInductive
<1> QED BY <1>1, TypeInitially, PTL DEF Spec
-----------------------------------------------------------------------------
(* What one step may do to a row *)

LEMMA StepKeepsRows ==
  ASSUME TypeOK, [Next]_vars, NEW j \in Jobs, table[j] # NoRow
  PROVE  RowKept(table[j], table'[j])
<1>1. table \in [Jobs -> Column] /\ table[j] \in JobRow
  BY TypeParts DEF Column
<1>2. OneRowChanges
  BY Statements
<1>3. CASE UNCHANGED table
  BY <1>1, <1>3, StatementsKeepRows
<1>4. ASSUME NEW k \in Jobs, table' = [table EXCEPT ![k] = table'[k]],
             Upserts(k) \/ Updates(k)
      PROVE  RowKept(table[j], table'[j])
  <2>1. CASE k = j
    BY <1>1, <1>4, <2>1, UpsertsTyped, StatementsKeepRows DEF Updates
  <2>2. CASE k # j
    BY <1>1, <1>4, <2>2, StatementsKeepRows
  <2> QED BY <2>1, <2>2
<1> QED BY <1>2, <1>3, <1>4 DEF OneRowChanges

\* No order of pollers, runs and clients moves a row's update_time back.
THEOREM UpdateTimesGrow == Spec => UpdateTimeMonotone
<1>1. TypeOK /\ [Next]_vars =>
        [\A j \in Jobs : table[j] # NoRow =>
           table'[j] # NoRow /\ table'[j].update >= table[j].update]_vars
  BY StepKeepsRows DEF RowKept
<1> QED BY <1>1, TypeCorrect, PTL DEF Spec, UpdateTimeMonotone

\* A job that was deleted stays deleted and as it was, whatever snapshots of
\* it pollers still hold.
THEOREM DeletedStayFrozen == Spec => DeletedJobsFrozen
<1>1. TypeOK /\ [Next]_vars =>
        [\A j \in Jobs : table[j] # NoRow /\ table[j].deleted =>
           /\ table'[j].deleted /\ table'[j].update = table[j].update
           /\ table'[j].status \in {table[j].status, "error"}]_vars
  BY StepKeepsRows DEF RowKept
<1> QED BY <1>1, TypeCorrect, PTL DEF Spec, DeletedJobsFrozen

\* No upsert loses the task or the user that started a job, or the user that
\* stopped it.
THEOREM UsersStay == Spec => UsersKept
<1>1. TypeOK /\ [Next]_vars =>
        [\A j \in Jobs : table[j] # NoRow =>
           /\ table[j].taskId => table'[j].taskId
           /\ table[j].startedBy => table'[j].startedBy
           /\ table[j].stoppedBy => table'[j].stoppedBy]_vars
  BY StepKeepsRows DEF RowKept
<1> QED BY <1>1, TypeCorrect, PTL DEF Spec, UsersKept
-----------------------------------------------------------------------------
(* The table is never ahead of Scrapyd, and rows come before jobs *)

\* How a run and Scrapyd move on, seen at one job.
Advances(j) ==
  /\ \A s \in Listed : scrapyd[j] \in Since[s] => scrapyd'[j] \in Since[s]
  /\ scrapyd'[j] = "none" => scrapyd[j] = "none"
  /\ run'[j] = "none" => run[j] = "none"
  /\ scrapyd[j] = "none" /\ scrapyd'[j] # "none" =>
       /\ run[j] = "send" \/ (run[j] = "none" /\ run'[j] = "none")
       /\ run'[j] \notin {"insert", "send"}
  /\ run[j] = "none" /\ run'[j] # "none" =>
       scrapyd[j] = "none" /\ scrapyd'[j] = "none" /\ run'[j] = "insert"
  /\ run'[j] = "send" => run[j] = "send" \/ (run[j] = "insert" /\ table'[j] # NoRow)
  /\ run'[j] = "insert" => run[j] \in {"none", "insert"}

LEMMA NothingAdvances ==
  ASSUME NEW j \in Jobs, scrapyd'[j] = scrapyd[j], run'[j] = run[j]
  PROVE  Advances(j)
  BY DEF Advances

LEMMA RunAdvances ==
  ASSUME TypeOK, AskedByRun, NEW j \in Jobs, RunStep(j) \/ BeforeJobRuns(j)
  PROVE  Advances(j)
<1>1. OthersOK /\ table \in [Jobs -> Column]
  BY TypeParts
<1>2. CASE BeforeJobRuns(j)
  BY <1>1, <1>2 DEF BeforeJobRuns, OthersOK, Advances
<1>3. CASE InsertRun(j)
  <2>1. run'[j] = "failed" \/ (run'[j] = "send" /\ table'[j] \in JobRow)
    BY <1>1, <1>3, ScheduledTyped, StatementsTyped DEF InsertRun, OthersOK
  <2>2. run[j] = "insert" /\ scrapyd'[j] = scrapyd[j]
    BY <1>3 DEF InsertRun
  <2> QED BY <2>1, <2>2 DEF Advances
<1>4. CASE SendRun(j)
  <2>1. run[j] = "send" /\ run'[j] \in {"done", "failed"}
    BY <1>1, <1>4 DEF SendRun, OthersOK
  <2>2. scrapyd'[j] = scrapyd[j] \/ scrapyd'[j] = "pending"
    BY <1>1, <1>4 DEF SendRun, OthersOK
  <2>3. CASE scrapyd'[j] = scrapyd[j]
    BY <2>1, <2>3 DEF Advances
  <2>4. CASE scrapyd'[j] = "pending"
    BY <2>1, <2>4 DEF Advances, AskedByRun, Since, Listed
  <2> QED BY <2>2, <2>3, <2>4
<1>5. CASE RecordError(j)
  BY <1>1, <1>5 DEF RecordError, OthersOK, Advances
<1> QED BY <1>2, <1>3, <1>4, <1>5 DEF RunStep

LEMMA ClientOrScrapydAdvances ==
  ASSUME TypeOK, NEW j \in Jobs, SendCancel(j) \/ Elsewhere(j) \/ Progress(j)
  PROVE  Advances(j)
<1>1. OthersOK
  BY TypeParts
<1>2. CASE SendCancel(j)
  <2>1. run'[j] = run[j]
    BY <1>2 DEF SendCancel
  <2>2. scrapyd'[j] = IF scrapyd[j] = "pending" THEN "gone" ELSE scrapyd[j]
    BY <1>1, <1>2 DEF SendCancel, OthersOK
  <2> QED BY <2>1, <2>2 DEF Advances, Since, Listed
<1>3. CASE Elsewhere(j)
  <2>1. /\ run'[j] = run[j] /\ run[j] = "none"
        /\ scrapyd[j] = "none" /\ scrapyd'[j] = "pending"
    BY <1>1, <1>3 DEF Elsewhere, OthersOK
  <2> QED BY <2>1 DEF Advances, Since, Listed
<1>4. CASE Progress(j)
  <2>1. /\ run'[j] = run[j]
        /\ \/ scrapyd[j] = "pending" /\ scrapyd'[j] = "running"
           \/ scrapyd[j] = "running" /\ scrapyd'[j] = "finished"
           \/ scrapyd[j] = "finished" /\ scrapyd'[j] = "gone"
    BY <1>1, <1>4 DEF Progress, OthersOK
  <2> QED BY <2>1 DEF Advances, Since, Listed
<1> QED BY <1>2, <1>3, <1>4

LEMMA StepAdvances ==
  ASSUME TypeOK, AskedByRun, [Next]_vars, NEW j \in Jobs
  PROVE  Advances(j)
<1>1. OthersOK
  BY TypeParts
<1>2. ASSUME NEW k \in Jobs, OfJob(k) PROVE Advances(j)
  <2>1. CASE DeleteJob(k) \/ RecordStop(k) \/ ParseLog(k) \/ ForgetLog(k)
    BY <2>1, NothingAdvances DEF DeleteJob, RecordStop, ParseLog, ForgetLog
  <2>2. CASE k = j /\ ~(DeleteJob(k) \/ RecordStop(k) \/ ParseLog(k) \/ ForgetLog(k))
    BY <1>2, <2>2, RunAdvances, ClientOrScrapydAdvances DEF OfJob
  <2>3. CASE k # j
    <3>1. scrapyd'[j] = scrapyd[j]
      BY <1>1, <1>2, <2>3 DEF OfJob, RunStep, BeforeJobRuns, InsertRun, SendRun, RecordError,
         DeleteJob, SendCancel, RecordStop, Elsewhere, Progress, ParseLog, ForgetLog, OthersOK
    <3>2. run'[j] = run[j]
      BY <1>1, <1>2, <2>3 DEF OfJob, RunStep, BeforeJobRuns, InsertRun, SendRun, RecordError,
         DeleteJob, SendCancel, RecordStop, Elsewhere, Progress, ParseLog, ForgetLog, OthersOK
    <3> QED BY <3>1, <3>2, NothingAdvances
  <2> QED BY <2>1, <2>2, <2>3
<1>3. ASSUME NEW p \in Pollers, PollStep(p) \/ PollFails(p) PROVE Advances(j)
  BY <1>3, NothingAdvances DEF PollStep, ReadStats, ReadList, WriteJob, PollFails
<1>4. CASE Crash
  <2>1. scrapyd'[j] = scrapyd[j] /\ run'[j] = IF run[j] = "none" THEN "none" ELSE "done"
    BY <1>4 DEF Crash
  <2> QED BY <2>1 DEF Advances
<1>5. CASE UNCHANGED vars
  BY <1>5, NothingAdvances DEF vars
<1> QED BY <1>2, <1>3, <1>4, <1>5 DEF Next

\* What a poller holds after a step: nothing, what it held, or the lists as
\* they are.
LEMMA ListsAreRead ==
  ASSUME TypeOK, [Next]_vars, NEW p \in Pollers, NEW j \in Jobs
  PROVE  poll'[p].list[j] \in {"none", poll[p].list[j], scrapyd[j]}
<1>1. PollsOK /\ OthersOK
  BY TypeParts
<1>2. IdlePoll.list[j] = "none" /\ poll[p] \in Poll
  BY <1>1 DEF IdlePoll, PollsOK
<1>3. ASSUME NEW q \in Pollers, PollStep(q) \/ PollFails(q)
      PROVE  poll'[p].list[j] \in {"none", poll[p].list[j], scrapyd[j]}
  <2>1. CASE q # p
    BY <1>1, <1>3, <2>1 DEF PollStep, ReadStats, ReadList, WriteJob, PollFails, PollsOK
  <2>2. CASE q = p /\ ReadStats(p)
    <3>1. poll'[p] = [IdlePoll EXCEPT !.at = "list", !.stat = stat]
      BY <1>1, <2>2 DEF ReadStats, PollsOK
    <3> QED BY <1>2, <3>1 DEF IdlePoll
  <2>3. CASE q = p /\ ReadList(p)
    <3> DEFINE listed == [k \in Jobs |-> IF scrapyd[k] \in Listed THEN scrapyd[k] ELSE "none"]
               todo == {k \in Jobs : listed[k] # "none"}
    <3>1. \/ poll'[p] = IdlePoll
          \/ poll'[p] = [poll[p] EXCEPT !.at = "write", !.list = listed, !.todo = todo]
      BY <1>1, <2>3 DEF ReadList, PollsOK
    <3>2. listed[j] \in {"none", scrapyd[j]}
      OBVIOUS
    <3> HIDE DEF listed, todo
    <3> QED BY <1>2, <3>1, <3>2 DEF Poll
  <2>4. CASE q = p /\ WriteJob(p)
    <3>1. PICK k \in Due(poll[p]) : poll'[p] = Done(p, k)
      BY <1>1, <2>4 DEF WriteJob, PollsOK
    <3> QED BY <1>2, <3>1 DEF Done, Poll
  <2>5. CASE q = p /\ PollFails(p)
    BY <1>1, <1>2, <2>5 DEF PollFails, PollsOK
  <2> QED BY <1>3, <2>1, <2>2, <2>3, <2>4, <2>5 DEF PollStep
<1>4. ASSUME NEW k \in Jobs, OfJob(k) PROVE poll'[p].list[j] = poll[p].list[j]
  BY <1>4 DEF OfJob, RunStep, BeforeJobRuns, InsertRun, SendRun, RecordError, DeleteJob,
              SendCancel, RecordStop, Elsewhere, Progress, ParseLog, ForgetLog
<1>5. CASE Crash
  BY <1>2, <1>5 DEF Crash
<1>6. CASE UNCHANGED vars
  BY <1>6 DEF vars
<1> QED BY <1>3, <1>4, <1>5, <1>6 DEF Next

LEMMA SnapshotsStayBehind ==
  ASSUME TypeOK, Informed, [Next]_vars
  PROVE  SnapshotsBehind'
<1> SUFFICES ASSUME NEW p \in Pollers, NEW j \in Jobs, poll'[p].list[j] \in Listed
             PROVE  scrapyd'[j] \in Since[poll'[p].list[j]]
  BY DEF SnapshotsBehind
<1>1. Advances(j)
  BY StepAdvances DEF Informed
<1>2. poll'[p].list[j] = poll[p].list[j] \/ poll'[p].list[j] = scrapyd[j]
  BY ListsAreRead DEF Listed
<1>3. CASE poll'[p].list[j] = poll[p].list[j]
  BY <1>1, <1>3 DEF Informed, SnapshotsBehind, Advances
<1>4. CASE poll'[p].list[j] = scrapyd[j]
  <2>1. scrapyd[j] \in Since[scrapyd[j]]
    BY <1>4 DEF Since, Listed
  <2> QED BY <1>1, <1>4, <2>1 DEF Advances
<1> QED BY <1>2, <1>3, <1>4

\* What an upsert leaves of status and update_time: both of them or neither.
LEMMA UpsertResult ==
  ASSUME NEW old \in Column, NEW new \in JobRow
  PROVE  \/ old # NoRow /\ InsertJob(old, new) = old
         \/ /\ InsertJob(old, new).status = new.status
            /\ InsertJob(old, new).update = new.update
<1>1. CASE old = NoRow
  BY <1>1 DEF InsertJob
<1>2. CASE old # NoRow /\ ~Accepted(old, new)
  BY <1>2 DEF InsertJob
<1>3. CASE old # NoRow /\ Accepted(old, new)
  <2>1. old \in JobRow
    BY <1>3 DEF Column
  <2> QED BY <1>3, <2>1 DEF InsertJob, JobRow
<1> QED BY <1>1, <1>2, <1>3

LEMMA UpdateResult ==
  ASSUME NEW old \in Column
  PROVE  IF old = NoRow
         THEN /\ SetErrorWhereJobId(old) = NoRow
              /\ SetStoppedByOnJob(old) = NoRow
              /\ SoftDeleteJob(old) = NoRow
         ELSE /\ SetErrorWhereJobId(old).status = "error"
              /\ SetErrorWhereJobId(old).update = old.update
              /\ SetStoppedByOnJob(old).status = old.status
              /\ SetStoppedByOnJob(old).update = old.update
              /\ SoftDeleteJob(old).status = old.status
              /\ SoftDeleteJob(old).update = old.update
<1>1. CASE old = NoRow
  BY <1>1 DEF SetErrorWhereJobId, SetStoppedByOnJob, SoftDeleteJob
<1>2. CASE old # NoRow
  <2>1. old \in JobRow
    BY <1>2 DEF Column
  <2> QED BY <1>2, <2>1 DEF SetErrorWhereJobId, SetStoppedByOnJob, SoftDeleteJob, JobRow
<1> QED BY <1>1, <1>2

LEMMA ReportedFields ==
  ASSUME NEW q \in Poll, NEW j \in Jobs
  PROVE  /\ Reported(q, j).status = q.list[j]
         /\ Reported(q, j).update = q.stat[j]
  BY DEF Reported, NewJobRow

LEMMA ScheduledFields ==
  ASSUME NEW j \in Jobs
  PROVE  /\ Scheduled(j).status = "scheduled"
         /\ Scheduled(j).update = 0
         /\ IF j \in OneTime THEN Scheduled(j).startedBy ELSE Scheduled(j).taskId
  BY DEF Scheduled, NewJobRow

\* Where a row's status comes from: it was there, or a run or an error gave
\* it, or Scrapyd had the job in that list.
StatusGrounded(j) ==
  \/ table[j] # NoRow /\ table'[j].status = table[j].status
  \/ table'[j].status \in {"scheduled", "error"}
  \/ table'[j].status \in Listed /\ scrapyd[j] \in Since[table'[j].status]

LEMMA StatusesGrounded ==
  ASSUME TypeOK, Informed, [Next]_vars, NEW j \in Jobs, table'[j] # NoRow
  PROVE  StatusGrounded(j)
<1>1. table \in [Jobs -> Column]
  BY TypeParts
<1>2. CASE table'[j] = table[j]
  BY <1>2 DEF StatusGrounded
<1>3. CASE run[j] = "insert" /\ table'[j] = InsertJob(table[j], Scheduled(j))
  BY <1>1, <1>3, UpsertResult, ScheduledTyped, ScheduledFields DEF StatusGrounded
<1>4. ASSUME NEW p \in Pollers, j \in Due(poll[p]),
             table'[j] = InsertJob(table[j], Reported(poll[p], j))
      PROVE  StatusGrounded(j)
  <2>1. scrapyd[j] \in Since[poll[p].list[j]] /\ poll[p].list[j] \in Listed
    BY <1>4, DueListed DEF Informed, SnapshotsBehind
  <2> QED BY <1>1, <1>4, <2>1, DueListed, UpsertResult, ReportedFields DEF StatusGrounded
<1>5. CASE Updates(j)
  BY <1>1, <1>5, UpdateResult DEF Updates, StatusGrounded
<1>6. table'[j] = table[j] \/ Upserts(j) \/ Updates(j)
  BY <1>1, Statements DEF OneRowChanges
<1> QED BY <1>2, <1>3, <1>4, <1>5, <1>6 DEF Upserts

\* Where a row comes from: the run that owns the job, or Scrapyd had it.
LEMMA NewRowsGrounded ==
  ASSUME TypeOK, Informed, [Next]_vars, NEW j \in Jobs, table[j] = NoRow, table'[j] # NoRow
  PROVE  \/ /\ run[j] = "insert"
            /\ IF j \in OneTime THEN table'[j].startedBy ELSE table'[j].taskId
         \/ scrapyd[j] # "none"
<1>1. table \in [Jobs -> Column]
  BY TypeParts
<1>2. CASE run[j] = "insert" /\ table'[j] = InsertJob(table[j], Scheduled(j))
  BY <1>2, ScheduledFields DEF InsertJob
<1>3. ASSUME NEW p \in Pollers, j \in Due(poll[p])
      PROVE  scrapyd[j] # "none"
  BY <1>3, DueListed DEF Informed, SnapshotsBehind, Since, Listed
<1>4. CASE Updates(j)
  BY <1>1, <1>4, UpdateResult DEF Updates
<1>5. Upserts(j) \/ Updates(j)
  BY <1>1, Statements DEF OneRowChanges
<1> QED BY <1>2, <1>3, <1>4, <1>5 DEF Upserts

LEMMA InformedInductive ==
  ASSUME TypeOK, Informed, [Next]_vars
  PROVE  Informed'
<1>1. ASSUME NEW j \in Jobs PROVE Advances(j)
  BY StepAdvances DEF Informed
<1>2. ASSUME NEW j \in Jobs, table[j] # NoRow PROVE RowKept(table[j], table'[j])
  BY <1>2, StepKeepsRows
<1>3. NeverAhead'
  <2> SUFFICES ASSUME NEW j \in Jobs, table'[j] # NoRow, table'[j].status \in Listed
               PROVE  scrapyd'[j] \in Since[table'[j].status]
    BY DEF NeverAhead
  <2>1. scrapyd[j] \in Since[table'[j].status]
    BY StatusesGrounded DEF StatusGrounded, Informed, NeverAhead, Listed
  <2> QED BY <1>1, <2>1 DEF Advances
<1>4. RowsFirst'
  <2> SUFFICES ASSUME NEW j \in Jobs, table'[j] = NoRow
               PROVE  run'[j] # "send" /\ (run'[j] # "none" => scrapyd'[j] = "none")
    BY DEF RowsFirst
  <2>1. table[j] = NoRow
    BY <1>2 DEF RowKept
  <2> QED BY <1>1, <2>1 DEF Advances, Informed, RowsFirst
<1>5. NoRowBeforeJob'
  <2> SUFFICES ASSUME NEW j \in Jobs, run'[j] = "none", scrapyd'[j] = "none"
               PROVE  table'[j] = NoRow
    BY DEF NoRowBeforeJob
  <2>1. run[j] = "none" /\ scrapyd[j] = "none"
    BY <1>1 DEF Advances
  <2> QED BY <2>1, NewRowsGrounded DEF Informed, NoRowBeforeJob
<1>6. OwnJobsAttributed'
  <2> SUFFICES ASSUME NEW j \in Jobs, run'[j] # "none"
               PROVE  /\ scrapyd'[j] # "none" => table'[j] # NoRow
                      /\ table'[j] # NoRow =>
                           IF j \in OneTime THEN table'[j].startedBy ELSE table'[j].taskId
    BY DEF OwnJobsAttributed
  <2>1. scrapyd'[j] # "none" => table'[j] # NoRow
    BY <1>4 DEF RowsFirst
  <2>2. CASE table[j] # NoRow /\ run[j] # "none"
    BY <1>2, <2>1, <2>2 DEF RowKept, Informed, OwnJobsAttributed
  <2>3. CASE run[j] = "none"
    <3>1. table[j] = NoRow /\ scrapyd[j] = "none"
      BY <1>1, <2>3 DEF Advances, Informed, NoRowBeforeJob
    <3> QED BY <2>1, <2>3, <3>1, NewRowsGrounded
  <2>4. CASE table[j] = NoRow /\ run[j] # "none"
    BY <2>1, <2>4, NewRowsGrounded DEF Informed, RowsFirst
  <2> QED BY <2>2, <2>3, <2>4
<1>7. AskedByRun'
  <2> SUFFICES ASSUME NEW j \in Jobs, run'[j] \in {"insert", "send"}
               PROVE  scrapyd'[j] = "none"
    BY DEF AskedByRun
  <2> QED BY <1>1 DEF Advances, Informed, AskedByRun
<1> QED BY <1>3, <1>4, <1>5, <1>6, <1>7, SnapshotsStayBehind DEF Informed

LEMMA InformedInitially == Init => Informed
  BY DEF Init, Informed, NeverAhead, OwnJobsAttributed, SnapshotsBehind, RowsFirst,
         NoRowBeforeJob, AskedByRun, IdlePoll, Listed

LEMMA InformedAlways == Spec => []Informed
<1>1. TypeOK /\ Informed /\ [Next]_vars => Informed'
  BY InformedInductive
<1> QED BY <1>1, InformedInitially, TypeCorrect, PTL DEF Spec

\* The table never shows a job further on than Scrapyd has it, however old the
\* snapshots are that pollers write.
THEOREM TableNeverAhead == Spec => []NeverAhead
<1>1. Informed => NeverAhead
  BY DEF Informed
<1> QED BY <1>1, InformedAlways, PTL

\* A job started through this server has a row that names its user or its task
\* before any poll can meet it, whatever fails (fireFunc inserts first).
THEOREM OwnJobsStayAttributed == Spec => []OwnJobsAttributed
<1>1. Informed => OwnJobsAttributed
  BY DEF Informed
<1> QED BY <1>1, InformedAlways, PTL
-----------------------------------------------------------------------------
(* The bound on stamps, as long as the logparser drops no statistics *)

KeepsStatistics == "forget" \notin Events

\* A step brings statistics forward, and pollers read those there are.
LEMMA StatsGrow ==
  ASSUME KeepsStatistics, TypeOK, [Next]_vars, NEW j \in Jobs, stat[j] <= now
  PROVE  /\ stat'[j] >= stat[j] /\ stat'[j] <= now'
         /\ \A p \in Pollers : poll'[p].stat[j] \in {0, poll[p].stat[j], stat[j]}
<1>1. PollsOK /\ OthersOK /\ stat[j] \in Nat /\ now \in Nat
  BY TypeParts DEF OthersOK, Stamps
<1>2. ASSUME NEW p \in Pollers PROVE poll[p] \in Poll /\ IdlePoll.stat[j] = 0
  BY <1>1 DEF PollsOK, IdlePoll
<1>3. ASSUME NEW k \in Jobs, OfJob(k)
      PROVE  stat'[j] >= stat[j] /\ stat'[j] <= now' /\ UNCHANGED poll
  <2>1. CASE ParseLog(k)
    BY <1>1, <2>1 DEF ParseLog, OthersOK
  <2>2. CASE ~ParseLog(k)
    BY <1>1, <1>3, <2>2 DEF OfJob, RunStep, BeforeJobRuns, InsertRun, SendRun, RecordError,
       DeleteJob, SendCancel, RecordStop, Elsewhere, Progress, ForgetLog, KeepsStatistics
  <2> QED BY <2>1, <2>2
<1>4. ASSUME NEW q \in Pollers, PollStep(q) \/ PollFails(q)
      PROVE  /\ UNCHANGED <<stat, now>>
             /\ \A p \in Pollers : poll'[p].stat[j] \in {0, poll[p].stat[j], stat[j]}
  <2>1. UNCHANGED <<stat, now>>
    BY <1>4 DEF PollStep, ReadStats, ReadList, WriteJob, PollFails
  <2>2. ASSUME NEW p \in Pollers PROVE poll'[p].stat[j] \in {0, poll[p].stat[j], stat[j]}
    <3>1. CASE q # p
      BY <1>1, <1>4, <3>1 DEF PollStep, ReadStats, ReadList, WriteJob, PollFails, PollsOK
    <3>2. CASE q = p /\ ReadStats(p)
      <4>1. poll'[p] = [IdlePoll EXCEPT !.at = "list", !.stat = stat]
        BY <1>1, <3>2 DEF ReadStats, PollsOK
      <4> QED BY <4>1 DEF IdlePoll
    <3>3. CASE q = p /\ ReadList(p)
      <4>1. poll'[p] = IdlePoll \/ poll'[p].stat = poll[p].stat
        BY <1>1, <1>2, <3>3 DEF ReadList, PollsOK, Poll
      <4> QED BY <1>2, <4>1
    <3>4. CASE q = p /\ WriteJob(p)
      <4>1. PICK k \in Due(poll[p]) : poll'[p] = Done(p, k)
        BY <1>1, <3>4 DEF WriteJob, PollsOK
      <4> QED BY <1>2, <4>1 DEF Done, Poll
    <3>5. CASE q = p /\ PollFails(p)
      BY <1>1, <1>2, <3>5 DEF PollFails, PollsOK
    <3> QED BY <1>4, <3>1, <3>2, <3>3, <3>4, <3>5 DEF PollStep
  <2> QED BY <2>1, <2>2
<1>5. CASE Crash
  BY <1>1, <1>2, <1>5 DEF Crash
<1>6. CASE UNCHANGED vars
  BY <1>1, <1>6 DEF vars
<1>7. CASE \E p \in Pollers : PollStep(p) \/ PollFails(p)
  BY <1>1, <1>4, <1>7
<1>8. CASE \E k \in Jobs : OfJob(k)
  BY <1>3, <1>8
<1> QED BY <1>5, <1>6, <1>7, <1>8 DEF Next

\* Where the update_time of a row comes from.
LEMMA UpdateTimesGrounded ==
  ASSUME TypeOK, [Next]_vars, NEW j \in Jobs, table'[j] # NoRow
  PROVE  \/ table[j] # NoRow /\ table'[j].update = table[j].update
         \/ table'[j].update = 0
         \/ \E p \in Pollers : table'[j].update = poll[p].stat[j]
<1>1. table \in [Jobs -> Column]
  BY TypeParts
<1>2. CASE table'[j] = InsertJob(table[j], Scheduled(j))
  BY <1>1, <1>2, UpsertResult, ScheduledTyped, ScheduledFields
<1>3. ASSUME NEW p \in Pollers, j \in Due(poll[p]),
             table'[j] = InsertJob(table[j], Reported(poll[p], j))
      PROVE  (table[j] # NoRow /\ table'[j] = table[j]) \/ table'[j].update = poll[p].stat[j]
  BY <1>1, <1>3, DueListed, UpsertResult, ReportedFields
<1>4. CASE Updates(j)
  BY <1>1, <1>4, UpdateResult DEF Updates
<1>5. table'[j] = table[j] \/ Upserts(j) \/ Updates(j)
  BY <1>1, Statements DEF OneRowChanges
<1> QED BY <1>2, <1>3, <1>4, <1>5 DEF Upserts

\* Without dropped statistics no stale snapshot can push a row's update_time
\* past the statistics, so every later poll's write of the job is accepted.
THEOREM StampsStayBounded ==
  ASSUME KeepsStatistics
  PROVE  Spec => []StampsBounded
<1>1. Init => StampsBounded
  BY DEF Init, StampsBounded, IdlePoll
<1>2. TypeOK /\ StampsBounded /\ [Next]_vars => StampsBounded'
  <2> SUFFICES ASSUME TypeOK, StampsBounded, [Next]_vars, NEW j \in Jobs
               PROVE  /\ stat'[j] <= now'
                      /\ table'[j] # NoRow => table'[j].update <= stat'[j]
                      /\ \A p \in Pollers : poll'[p].stat[j] <= stat'[j]
    BY DEF StampsBounded
  <2>1. stat[j] \in Nat /\ stat'[j] \in Nat
    BY TypeInductive DEF TypeOK, Stamps
  <2>2. \A p \in Pollers : poll[p].stat[j] \in Nat
    BY DEF TypeOK, Poll, Stamps
  <2>3. table[j] # NoRow => table[j].update \in Nat
    BY DEF TypeOK, JobRow, Stamps
  <2>4. /\ stat'[j] >= stat[j] /\ stat'[j] <= now'
        /\ \A p \in Pollers : poll'[p].stat[j] \in {0, poll[p].stat[j], stat[j]}
    BY StatsGrow, KeepsStatistics DEF StampsBounded
  <2>5. table'[j] # NoRow => table'[j].update <= stat'[j]
    BY <2>1, <2>2, <2>3, <2>4, UpdateTimesGrounded DEF StampsBounded
  <2>6. \A p \in Pollers : poll'[p].stat[j] <= stat'[j]
    BY <2>1, <2>2, <2>4 DEF StampsBounded
  <2> QED BY <2>4, <2>5, <2>6
<1> QED BY <1>1, <1>2, TypeCorrect, PTL DEF Spec
=============================================================================
