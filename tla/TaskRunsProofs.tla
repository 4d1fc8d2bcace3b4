---------------------------- MODULE TaskRunsProofs ----------------------------
(* Proofs about TaskRuns: for any number of runs, which may overlap in any way,
   any period and timeout, connections with and without the pragma, and any
   bounds on time and on faults. *)
EXTENDS TaskRuns, TLAPS

USE StampAssumption, DatedAssumption, NoRowAssumption, TimeAssumption,
    KindsAssumption, FaultsAssumption, NoIdAssumption
USE DEF nodeVars

-------------------------------------------------------------------------------
(* The jobs table: what a statement leaves of a row. *)

Column == JobRow \cup {NoRow}

Names(w) == w.taskId \/ w.startedBy

LEMMA InsertedRow ==
    ASSUME NEW old \in Column, NEW new \in JobRow
    PROVE  /\ InsertJob(old, new) \in JobRow
           /\ InsertJob(old, new) # NoRow
           /\ old = NoRow => InsertJob(old, new) = new
           /\ old # NoRow => /\ InsertJob(old, new).error = old.error
                             /\ Names(old) => Names(InsertJob(old, new))
<1>1. CASE old = NoRow
  BY <1>1 DEF InsertJob
<1>2. CASE old # NoRow /\ ~Accepted(old, new)
  BY <1>2 DEF InsertJob, Column
<1>3. CASE old # NoRow /\ Accepted(old, new)
  <2> DEFINE row == [old EXCEPT !.status = new.status, !.update = new.update,
                        !.finish = Coalesce(new.finish, @),
                        !.startedBy = new.startedBy \/ @, !.stoppedBy = new.stoppedBy \/ @]
  <2>1. old \in JobRow /\ InsertJob(old, new) = row
    BY <1>3 DEF InsertJob, Column
  <2>2. Coalesce(new.finish, old.finish) \in Times
    BY <2>1 DEF Coalesce, JobRow
  <2>3. /\ row.error = old.error /\ row.taskId = old.taskId
        /\ row.startedBy = (new.startedBy \/ old.startedBy)
    BY <2>1 DEF JobRow
  <2>4. row \in JobRow
    BY <2>1, <2>2 DEF JobRow
  <2> HIDE DEF row
  <2>5. QED BY <1>3, <2>1, <2>3, <2>4 DEF Names
<1>4. QED BY <1>1, <1>2, <1>3

LEMMA FailedRow ==
    ASSUME NEW old \in Column
    PROVE  /\ SetErrorWhereJobId(old) \in Column
           /\ old = NoRow => SetErrorWhereJobId(old) = NoRow
           /\ old # NoRow => /\ SetErrorWhereJobId(old) # NoRow
                             /\ SetErrorWhereJobId(old).error
                             /\ Names(old) => Names(SetErrorWhereJobId(old))
<1>1. CASE old = NoRow
  BY <1>1 DEF SetErrorWhereJobId, Column
<1>2. CASE old \in JobRow
  <2> DEFINE row == [old EXCEPT !.status = "error", !.error = TRUE]
  <2>1. row \in JobRow /\ row.error /\ row.taskId = old.taskId /\ row.startedBy = old.startedBy
    BY <1>2 DEF JobRow, JobStatus
  <2>2. SetErrorWhereJobId(old) = row
    BY <1>2 DEF SetErrorWhereJobId
  <2> HIDE DEF row
  <2>3. row # NoRow /\ old # NoRow
    BY <1>2, <2>1
  <2>4. QED BY <2>1, <2>2, <2>3 DEF Names, Column
<1>3. QED BY <1>1, <1>2 DEF Column

LEMMA OrphanedRow ==
    ASSUME NEW old \in JobRow
    PROVE  /\ [old EXCEPT !.taskId = FALSE, !.startedBy = FALSE] \in JobRow
           /\ [old EXCEPT !.taskId = FALSE, !.startedBy = FALSE].error = old.error
  BY DEF JobRow

\* The rows that insertJobIntoDB and a poll bring.
LEMMA NewRows ==
    ASSUME TypeOK
    PROVE  /\ Inserted \in JobRow /\ Names(Inserted)
           /\ \A update \in {0, 1} :
                 NewJobRow("pending", update, "null", FALSE, FALSE) \in JobRow
<1>1. kind = "cron" \/ kind = "once"
  BY DEF TypeOK
<1>2. 0 \in Stamps /\ 1 \in Stamps
  BY DEF Stamps
<1>3. ASSUME NEW s \in {"scheduled", "pending"}, NEW u \in Stamps,
             NEW t \in BOOLEAN, NEW b \in BOOLEAN
      PROVE  /\ NewJobRow(s, u, "null", t, b) \in JobRow
             /\ Names(NewJobRow(s, u, "null", t, b)) <=> t \/ b
  BY DEF NewJobRow, JobRow, JobStatus, Times, Names
<1>4. (kind = "cron") \in BOOLEAN /\ (kind = "once") \in BOOLEAN
  OBVIOUS
<1>5. Inserted \in JobRow /\ Names(Inserted)
  BY <1>1, <1>2, <1>3, <1>4 DEF Inserted
<1>6. QED BY <1>2, <1>3, <1>5

-------------------------------------------------------------------------------
(* A run's slot after a step of its own. *)

Others(r) == \A q \in Runs \ {r} : run'[q] = run[q]

\* The fields of a run that name an id, or decide what is done with one.
SameOwn(r) == run'[r].own = run[r].own
SameInserted(r) == run'[r].inserted = run[r].inserted
SameSent(r) == run'[r].sent = run[r].sent
SameRecorded(r) == run'[r].recorded = run[r].recorded
SameNoRows(r) == run'[r].noRows = run[r].noRows

LEMMA Slot ==
    ASSUME TypeOK, NEW r \in Runs, NEW h \in RunTypes, run' = [run EXCEPT ![r] = h]
    PROVE  run' \in [Runs -> RunTypes] /\ run'[r] = h /\ Others(r)
  BY DEF TypeOK, Others

LEMMA StartSlot ==
    ASSUME TypeOK, NEW r \in Runs, Start(r)
    PROVE  /\ run' \in [Runs -> RunTypes] /\ Others(r)
           /\ run[r].at = "new"
           /\ run'[r].at = "before"
           /\ SameNoRows(r) /\ SameOwn(r) /\ SameInserted(r) /\ SameSent(r) /\ SameRecorded(r)
<1> DEFINE h == [run[r] EXCEPT !.at = "before"]
<1>1. run[r] \in RunTypes
  BY DEF TypeOK
<1>2. /\ h \in RunTypes
      /\ h.at = "before"
      /\ h.noRows = run[r].noRows /\ h.own = run[r].own
      /\ h.inserted = run[r].inserted /\ h.sent = run[r].sent /\ h.recorded = run[r].recorded
  BY <1>1 DEF RunTypes
<1>3. run' = [run EXCEPT ![r] = h] /\ run[r].at = "new"
  BY DEF Start
<1> HIDE DEF h
<1>4. QED BY <1>2, <1>3, Slot DEF SameNoRows, SameOwn, SameInserted, SameSent, SameRecorded

LEMMA DrawnSlot ==
    ASSUME TypeOK, NEW r \in Runs, SetJobID(r)
    PROVE  /\ run' \in [Runs -> RunTypes] /\ Others(r)
           /\ run[r].at = "before"
           /\ run'[r].at = "set"
           /\ run'[r].own = now
           /\ SameNoRows(r) /\ SameInserted(r) /\ SameSent(r) /\ SameRecorded(r)
<1> DEFINE h == [run[r] EXCEPT !.at = "set", !.own = now]
<1>1. run[r] \in RunTypes /\ now \in Ids
  BY DEF TypeOK
<1>2. /\ h \in RunTypes
      /\ h.at = "set"
      /\ h.own = now
      /\ h.noRows = run[r].noRows /\ h.inserted = run[r].inserted
      /\ h.sent = run[r].sent /\ h.recorded = run[r].recorded
  BY <1>1 DEF RunTypes
<1>3. run' = [run EXCEPT ![r] = h]
  BY DEF SetJobID
<1> HIDE DEF h
<1>4. QED BY <1>2, <1>3, Slot DEF SameNoRows, SameInserted, SameSent, SameRecorded, SetJobID

LEMMA SetValuesSlot ==
    ASSUME TypeOK, NEW r \in Runs, SetValues(r)
    PROVE  /\ run' \in [Runs -> RunTypes] /\ Others(r)
           /\ run[r].at = "set"
           /\ run'[r].at = "insert"
           /\ SameNoRows(r) /\ SameOwn(r) /\ SameInserted(r) /\ SameSent(r) /\ SameRecorded(r)
<1> DEFINE h == [run[r] EXCEPT !.at = "insert", !.since = now]
<1>1. run[r] \in RunTypes /\ now \in Ids
  BY DEF TypeOK
<1>2. /\ h \in RunTypes
      /\ h.at = "insert"
      /\ h.noRows = run[r].noRows /\ h.own = run[r].own
      /\ h.inserted = run[r].inserted /\ h.sent = run[r].sent /\ h.recorded = run[r].recorded
  BY <1>1 DEF RunTypes
<1>3. run' = [run EXCEPT ![r] = h]
  BY DEF SetValues
<1> HIDE DEF h
<1>4. QED BY <1>2, <1>3, Slot DEF SameNoRows, SameOwn, SameInserted, SameSent, SameRecorded, SetValues

LEMMA FailsSlot ==
    ASSUME TypeOK, NEW r \in Runs, NEW noRows \in BOOLEAN, Fails(r, noRows)
    PROVE  /\ run' \in [Runs -> RunTypes] /\ Others(r)
           /\ run'[r].at = "record"
           /\ run'[r].noRows = noRows
           /\ SameOwn(r) /\ SameInserted(r) /\ SameSent(r) /\ SameRecorded(r)
<1> DEFINE h == [run[r] EXCEPT !.at = "record", !.since = now, !.noRows = noRows]
<1>1. run[r] \in RunTypes /\ now \in Ids
  BY DEF TypeOK
<1>2. /\ h \in RunTypes
      /\ h.at = "record"
      /\ h.noRows = noRows
      /\ h.own = run[r].own /\ h.inserted = run[r].inserted
      /\ h.sent = run[r].sent /\ h.recorded = run[r].recorded
  BY <1>1 DEF RunTypes
<1>3. run' = [run EXCEPT ![r] = h]
  BY DEF Fails
<1> HIDE DEF h
<1>4. QED BY <1>2, <1>3, Slot DEF SameOwn, SameInserted, SameSent, SameRecorded, Fails

LEMMA InsertedSlot ==
    ASSUME TypeOK, NEW r \in Runs, jobID \in Ids,
           run' = [run EXCEPT ![r].at = "request", ![r].inserted = jobID]
    PROVE  /\ run' \in [Runs -> RunTypes] /\ Others(r)
           /\ run'[r].at = "request"
           /\ run'[r].inserted = jobID
           /\ SameNoRows(r) /\ SameOwn(r) /\ SameSent(r) /\ SameRecorded(r)
<1> DEFINE h == [run[r] EXCEPT !.at = "request", !.inserted = jobID]
<1>1. run[r] \in RunTypes /\ jobID \in Ids \cup {NoId}
  BY DEF TypeOK
<1>2. /\ h \in RunTypes
      /\ h.at = "request"
      /\ h.inserted = jobID
      /\ h.noRows = run[r].noRows /\ h.own = run[r].own
      /\ h.sent = run[r].sent /\ h.recorded = run[r].recorded
  BY <1>1 DEF RunTypes
<1>3. run' = [run EXCEPT ![r] = h]
  OBVIOUS
<1> HIDE DEF h
<1>4. QED BY <1>2, <1>3, Slot DEF SameNoRows, SameOwn, SameSent, SameRecorded

LEMMA EncodedSlot ==
    ASSUME TypeOK, NEW r \in Runs, run' = [run EXCEPT ![r].at = "send", ![r].sent = values]
    PROVE  /\ run' \in [Runs -> RunTypes] /\ Others(r)
           /\ run'[r].at = "send"
           /\ run'[r].sent = values
           /\ SameNoRows(r) /\ SameOwn(r) /\ SameInserted(r) /\ SameRecorded(r)
<1> DEFINE h == [run[r] EXCEPT !.at = "send", !.sent = values]
<1>1. run[r] \in RunTypes /\ values \in Ids \cup {NoId}
  BY DEF TypeOK
<1>2. /\ h \in RunTypes
      /\ h.at = "send"
      /\ h.sent = values
      /\ h.noRows = run[r].noRows /\ h.own = run[r].own
      /\ h.inserted = run[r].inserted /\ h.recorded = run[r].recorded
  BY <1>1 DEF RunTypes
<1>3. run' = [run EXCEPT ![r] = h]
  OBVIOUS
<1> HIDE DEF h
<1>4. QED BY <1>2, <1>3, Slot DEF SameNoRows, SameOwn, SameInserted, SameRecorded

LEMMA StartedSlot ==
    ASSUME TypeOK, NEW r \in Runs, Move(r, "started")
    PROVE  /\ run' \in [Runs -> RunTypes] /\ Others(r)
           /\ run'[r].at = "started"
           /\ SameNoRows(r) /\ SameOwn(r) /\ SameInserted(r) /\ SameSent(r) /\ SameRecorded(r)
<1> DEFINE h == [run[r] EXCEPT !.at = "started"]
<1>1. run[r] \in RunTypes
  BY DEF TypeOK
<1>2. /\ h \in RunTypes
      /\ h.at = "started"
      /\ h.noRows = run[r].noRows /\ h.own = run[r].own
      /\ h.inserted = run[r].inserted /\ h.sent = run[r].sent /\ h.recorded = run[r].recorded
  BY <1>1 DEF RunTypes
<1>3. run' = [run EXCEPT ![r] = h]
  BY DEF Move
<1> HIDE DEF h
<1>4. QED BY <1>2, <1>3, Slot DEF SameNoRows, SameOwn, SameInserted, SameSent, SameRecorded, Move

LEMMA SuccessSlot ==
    ASSUME TypeOK, NEW r \in Runs, AfterSuccess(r)
    PROVE  /\ run' \in [Runs -> RunTypes] /\ Others(r)
           /\ run[r].at = "started"
           /\ run'[r].at = "ok"
           /\ SameNoRows(r) /\ SameOwn(r) /\ SameInserted(r) /\ SameSent(r) /\ SameRecorded(r)
<1> DEFINE h == [run[r] EXCEPT !.at = "ok", !.since = 0]
<1>1. run[r] \in RunTypes /\ 0 \in Ids
  BY DEF TypeOK, Ids
<1>2. /\ h \in RunTypes
      /\ h.at = "ok"
      /\ h.noRows = run[r].noRows /\ h.own = run[r].own
      /\ h.inserted = run[r].inserted /\ h.sent = run[r].sent /\ h.recorded = run[r].recorded
  BY <1>1 DEF RunTypes
<1>3. run' = [run EXCEPT ![r] = h]
  BY DEF AfterSuccess
<1> HIDE DEF h
<1>4. QED BY <1>2, <1>3, Slot DEF SameNoRows, SameOwn, SameInserted, SameSent, SameRecorded, AfterSuccess

LEMMA RecordedSlot ==
    ASSUME TypeOK, NEW r \in Runs, RecordError(r)
    PROVE  /\ run' \in [Runs -> RunTypes] /\ Others(r)
           /\ run[r].at = "record"
           /\ run'[r].at = "failed"
           /\ run'[r].recorded = (IF ~run[r].noRows THEN jobID ELSE NoId)
           /\ SameNoRows(r) /\ SameOwn(r) /\ SameInserted(r) /\ SameSent(r)
<1> DEFINE h == [run[r] EXCEPT !.at = "failed", !.since = 0,
                               !.recorded = IF ~run[r].noRows THEN jobID ELSE NoId]
<1>1. run[r] \in RunTypes /\ jobID \in Ids \cup {NoId} /\ 0 \in Ids
  BY DEF TypeOK, Ids
<1>2. /\ h \in RunTypes
      /\ h.at = "failed"
      /\ h.recorded = (IF ~run[r].noRows THEN jobID ELSE NoId)
      /\ h.noRows = run[r].noRows /\ h.own = run[r].own
      /\ h.inserted = run[r].inserted /\ h.sent = run[r].sent
  BY <1>1 DEF RunTypes
<1>3. run' = [run EXCEPT ![r] = h]
  BY DEF RecordError
<1> HIDE DEF h
<1>4. QED BY <1>2, <1>3, Slot DEF SameNoRows, SameOwn, SameInserted, SameSent, RecordError

SameIds(r) == SameOwn(r) /\ SameInserted(r) /\ SameSent(r) /\ SameRecorded(r) /\ SameNoRows(r)

\* The runs after the process has ended.
LEMMA CrashSlots ==
    ASSUME TypeOK, Crash
    PROVE  /\ run' \in [Runs -> RunTypes]
           /\ \A q \in Runs : /\ ~Under(q)' /\ SameIds(q)
                              /\ run'[q].at \in {run[q].at, "lost"}
<1>1. ASSUME NEW h \in RunTypes, NEW c, c = [h EXCEPT !.at = "lost", !.since = 0]
      PROVE  /\ c \in RunTypes /\ c.at = "lost"
             /\ c.own = h.own /\ c.inserted = h.inserted /\ c.sent = h.sent
             /\ c.recorded = h.recorded /\ c.noRows = h.noRows
  <2>1. 0 \in Ids
    BY DEF Ids
  <2>2. QED BY <1>1, <2>1 DEF RunTypes
<1>2. ASSUME NEW q \in Runs
      PROVE  /\ run'[q] \in RunTypes /\ ~Under(q)' /\ SameIds(q)
             /\ run'[q].at \in {run[q].at, "lost"}
  <2>1. run[q] \in RunTypes
    BY DEF TypeOK
  <2>2. CASE Under(q)
    <3>1. run'[q] = [run[q] EXCEPT !.at = "lost", !.since = 0]
      BY <2>2 DEF Crash
    <3>2. /\ run'[q] \in RunTypes /\ run'[q].at = "lost"
          /\ run'[q].own = run[q].own /\ run'[q].inserted = run[q].inserted
          /\ run'[q].sent = run[q].sent /\ run'[q].recorded = run[q].recorded
          /\ run'[q].noRows = run[q].noRows
      BY <1>1, <2>1, <3>1
    <3>3. QED
      BY <3>2 DEF Under, SameIds, SameOwn, SameInserted, SameSent, SameRecorded, SameNoRows
  <2>3. CASE ~Under(q)
    <3>1. run'[q] = run[q]
      BY <2>3 DEF Crash
    <3>2. QED
      BY <2>1, <2>3, <3>1 DEF Under, SameIds, SameOwn, SameInserted, SameSent, SameRecorded, SameNoRows
  <2>4. QED BY <2>2, <2>3
<1>3. run' = [q \in Runs |-> run'[q]]
  BY DEF Crash
<1>4. run' \in [Runs -> RunTypes]
  BY <1>2, <1>3
<1>5. QED BY <1>2, <1>4

-------------------------------------------------------------------------------
(* Types. Nobody reads task.JobID before a run of this process has set it. *)

Given(r) ==
    /\ Under(r) /\ run[r].at # "before" => jobID \in Ids /\ run[r].own \in Ids
    /\ run[r].at \in {"insert", "request", "send"} => values \in Ids
    /\ run[r].at = "send" => run[r].sent \in Ids

LEMMA GivenKept ==
    ASSUME NEW r \in Runs, \A q \in Runs : Given(q), Others(r), Given(r)',
           jobID' \in {jobID} \cup Ids, values' \in {values} \cup Ids
    PROVE  \A q \in Runs : Given(q)'
<1>1. ASSUME NEW q \in Runs \ {r} PROVE Given(q)'
  <2>1. Given(q) /\ run'[q] = run[q]
    BY DEF Others
  <2>2. QED BY <2>1 DEF Given, Under
<1>2. QED BY <1>1

LEMMA StartTyped ==
    ASSUME TypeOK, \A q \in Runs : Given(q), NEW r \in Runs,
           CronTick(r) \/ FireTask(r) \/ FireFirst(r) \/ NewOneTimeJob(r)
    PROVE  TypeOK' /\ \A q \in Runs : Given(q)'
<1>1. Start(r)
  BY DEF CronTick, FireTask, FireFirst, NewOneTimeJob
<1>2. run' \in [Runs -> RunTypes] /\ Others(r) /\ run'[r].at = "before"
  BY <1>1, StartSlot
<1>3. UNCHANGED <<kind, parent, node, moved, jobID, values, rows, asked, now, faults, overtaken>>
  BY DEF CronTick, FireTask, FireFirst, NewOneTimeJob
<1>4. TypeOK'
  BY <1>2, <1>3 DEF TypeOK, CronTick, FireTask, FireFirst, NewOneTimeJob
<1>5. Given(r)'
  BY <1>2 DEF Given
<1>6. QED BY <1>2, <1>3, <1>4, <1>5, GivenKept

\* What a step of a run leaves to the others.
LEMMA RunFrame ==
    ASSUME TypeOK, NEW r \in Runs, RunStep(r)
    PROVE  /\ UNCHANGED <<kind, request, parent, node, moved, now, ticked>>
           /\ overtaken' \subseteq Runs /\ overtaken \subseteq overtaken'
           /\ job' \in {job, "removed"}
           /\ faults' \in 0..MaxFaults /\ (faults' = 0 => faults = 0)
<1>1. CASE SetJobID(r) \/ SetValues(r) \/ EncodeRequest(r) \/ SendRequest(r)
  BY <1>1 DEF SetJobID, SetValues, EncodeRequest, SendRequest, Overtakes, TypeOK
<1>2. CASE InsertRun(r)
  <2>1. UNCHANGED <<kind, job, request, parent, node, moved, now, ticked, overtaken>>
    BY <1>2 DEF InsertRun
  <2>2. UNCHANGED faults \/ (MayFail /\ faults' = faults + 1)
    BY <1>2 DEF InsertRun
  <2>3. QED BY <2>1, <2>2 DEF MayFail, TypeOK
<1>3. CASE AfterSuccess(r)
  BY <1>3 DEF AfterSuccess, Removed, TypeOK
<1>4. CASE RecordError(r)
  <2>1. UNCHANGED <<kind, request, parent, node, moved, now, ticked, overtaken>> /\ job' \in {job, "removed"}
    BY <1>4 DEF RecordError, Removed
  <2>2. UNCHANGED faults \/ (MayFail /\ faults' = faults + 1)
    BY <1>4 DEF RecordError
  <2>3. QED BY <2>1, <2>2 DEF MayFail, TypeOK
<1>5. QED BY <1>1, <1>2, <1>3, <1>4 DEF RunStep

LEMMA RunTyped ==
    ASSUME TypeOK, \A q \in Runs : Given(q), NEW r \in Runs, RunStep(r)
    PROVE  TypeOK' /\ \A q \in Runs : Given(q)'
<1>0. Given(r) /\ UNCHANGED <<kind, request, parent, node, moved, now, ticked>>
  BY RunFrame
<1>a. /\ job' \in {"none", "loaded", "removed"} /\ faults' \in 0..MaxFaults
      /\ overtaken' \subseteq Runs
  BY RunFrame DEF TypeOK
<1>b. ASSUME run' \in [Runs -> RunTypes], {jobID', values'} \subseteq Ids \cup {NoId},
             rows' \in [Ids -> Column], asked' \subseteq Ids
      PROVE  TypeOK'
  BY <1>0, <1>a, <1>b DEF TypeOK, Column
<1>1. CASE SetJobID(r)
  <2>1. /\ run' \in [Runs -> RunTypes] /\ Others(r)
        /\ run'[r].at = "set" /\ run'[r].own = now
    BY <1>1, DrawnSlot
  <2>2. jobID' \in Ids /\ now \in Ids /\ UNCHANGED <<values, rows, asked>>
    BY <1>1 DEF SetJobID, TypeOK
  <2>3. Given(r)' /\ TypeOK'
    BY <1>b, <2>1, <2>2 DEF Given, TypeOK, Column
  <2>4. QED BY <2>1, <2>2, <2>3, GivenKept
<1>2. CASE SetValues(r)
  <2>1. /\ run' \in [Runs -> RunTypes] /\ Others(r)
        /\ run[r].at = "set" /\ run'[r].at = "insert" /\ SameOwn(r)
    BY <1>2, SetValuesSlot
  <2>2. jobID \in Ids /\ run'[r].own \in Ids /\ values' = jobID /\ UNCHANGED <<jobID, rows, asked>>
    BY <1>0, <1>2, <2>1 DEF SetValues, Given, Under, SameOwn
  <2>3. Given(r)' /\ TypeOK'
    BY <1>b, <2>1, <2>2 DEF Given, TypeOK, Column
  <2>4. QED BY <2>1, <2>2, <2>3, GivenKept
<1>3. ASSUME NEW noRows \in BOOLEAN, Fails(r, noRows),
             run[r].at \in {"insert", "request", "send"},
             UNCHANGED <<jobID, values>>, rows' \in [Ids -> Column], asked' \subseteq Ids
      PROVE  TypeOK' /\ \A q \in Runs : Given(q)'
  <2>1. run' \in [Runs -> RunTypes] /\ Others(r) /\ run'[r].at = "record" /\ SameOwn(r)
    BY <1>3, FailsSlot
  <2>2. Given(r)' /\ TypeOK'
    BY <1>0, <1>3, <1>b, <2>1 DEF Given, Under, TypeOK, SameOwn
  <2>3. QED BY <1>3, <2>1, <2>2, GivenKept
<1>4. CASE InsertRun(r)
  <2>0. /\ run[r].at = "insert" /\ jobID \in Ids /\ UNCHANGED <<jobID, values, asked>>
        /\ rows \in [Ids -> Column] /\ asked \subseteq Ids
    BY <1>4 DEF InsertRun, TypeOK, Column
  <2>1. CASE \E noRows \in BOOLEAN : Fails(r, noRows) /\ UNCHANGED rows
    BY <1>3, <2>0, <2>1
  <2>2. CASE /\ rows' = [rows EXCEPT ![jobID] = InsertJob(@, Inserted)]
             /\ run' = [run EXCEPT ![r].at = "request", ![r].inserted = jobID]
    <3>1. InsertJob(rows[jobID], Inserted) \in JobRow
      BY <2>0, InsertedRow, NewRows
    <3>2. rows' \in [Ids -> Column]
      BY <2>0, <2>2, <3>1 DEF Column
    <3>3. run' \in [Runs -> RunTypes] /\ Others(r) /\ run'[r].at = "request" /\ SameOwn(r)
      BY <2>0, <2>2, InsertedSlot
    <3>4. Given(r)' /\ TypeOK'
      BY <1>0, <1>b, <2>0, <3>2, <3>3 DEF Given, Under, TypeOK, SameOwn
    <3>5. QED BY <2>0, <3>3, <3>4, GivenKept
  <2>3. QED BY <1>4, <2>1, <2>2 DEF InsertRun
<1>5. CASE EncodeRequest(r)
  <2>0. /\ run[r].at = "request" /\ UNCHANGED <<jobID, values, rows, asked>>
        /\ rows \in [Ids -> Column] /\ asked \subseteq Ids
    BY <1>5 DEF EncodeRequest, TypeOK, Column
  <2>1. CASE Fails(r, FALSE) \/ Fails(r, TRUE)
    BY <1>3, <2>0, <2>1
  <2>2. CASE run' = [run EXCEPT ![r].at = "send", ![r].sent = values]
    <3>1. /\ run' \in [Runs -> RunTypes] /\ Others(r)
          /\ run'[r].at = "send" /\ run'[r].sent = values /\ SameOwn(r)
      BY <2>2, EncodedSlot
    <3>2. Given(r)' /\ TypeOK'
      BY <1>0, <1>b, <2>0, <3>1 DEF Given, Under, TypeOK, SameOwn
    <3>3. QED BY <2>0, <3>1, <3>2, GivenKept
  <2>3. QED BY <1>5, <2>1, <2>2 DEF EncodeRequest
<1>6. CASE SendRequest(r)
  <2>0. /\ run[r].at = "send" /\ UNCHANGED <<jobID, values, rows>>
        /\ rows \in [Ids -> Column] /\ asked' \subseteq Ids
    BY <1>0, <1>6 DEF SendRequest, Given, TypeOK, Column
  <2>1. CASE Fails(r, FALSE)
    BY <1>3, <2>0, <2>1
  <2>2. CASE Move(r, "started")
    <3>1. run' \in [Runs -> RunTypes] /\ Others(r) /\ run'[r].at = "started" /\ SameOwn(r)
      BY <2>2, StartedSlot
    <3>2. Given(r)' /\ TypeOK'
      BY <1>0, <1>b, <2>0, <3>1 DEF Given, Under, TypeOK, SameOwn
    <3>3. QED BY <2>0, <3>1, <3>2, GivenKept
  <2>3. QED BY <1>6, <2>1, <2>2 DEF SendRequest
<1>7. CASE AfterSuccess(r)
  <2>1. run' \in [Runs -> RunTypes] /\ Others(r) /\ run'[r].at = "ok"
    BY <1>7, SuccessSlot
  <2>2. UNCHANGED <<jobID, values, rows, asked>>
    BY <1>7 DEF AfterSuccess
  <2>3. Given(r)' /\ TypeOK'
    BY <1>b, <2>1, <2>2 DEF Given, Under, TypeOK, Column
  <2>4. QED BY <2>1, <2>2, <2>3, GivenKept
<1>8. CASE RecordError(r)
  <2>1. run' \in [Runs -> RunTypes] /\ Others(r) /\ run[r].at = "record" /\ run'[r].at = "failed"
    BY <1>8, RecordedSlot
  <2>2. UNCHANGED <<jobID, values, asked>>
    BY <1>8 DEF RecordError
  <2>3. rows \in [Ids -> Column] /\ jobID \in Ids
    BY <1>0, <2>1 DEF Given, Under, TypeOK, Column
  <2>4. SetErrorWhereJobId(rows[jobID]) \in Column
    BY <2>3, FailedRow
  <2>5. rows' \in [Ids -> Column]
    BY <1>8, <2>3, <2>4 DEF RecordError
  <2>6. Given(r)' /\ TypeOK'
    BY <1>b, <2>1, <2>2, <2>5 DEF Given, Under, TypeOK
  <2>7. QED BY <2>1, <2>2, <2>6, GivenKept
<1>9. QED BY <1>1, <1>2, <1>4, <1>5, <1>6, <1>7, <1>8 DEF RunStep

\* What a poll, and the removal of the task, the user or the node, leave alone.
LEMMA RowStepTyped ==
    ASSUME TypeOK, DeleteParent \/ DeleteNode \/ RenameNode \/ \E i \in Ids : Poll(i)
    PROVE  /\ rows' \in [Ids -> Column] /\ parent' \in {parent, "deleted"}
           /\ node' \in {node, "renamed", "gone"} /\ moved' \subseteq Ids
           /\ UNCHANGED <<kind, job, request, jobID, values, run, asked, now, ticked, faults, overtaken>>
<1>0. rows \in [Ids -> Column] /\ moved \subseteq Ids
  BY DEF TypeOK, Column
<1>1. CASE DeleteParent
  <2>1. \A i \in Ids : rows[i] = NoRow \/ rows[i] \in JobRow
    BY DEF TypeOK
  <2>2. rows' \in [Ids -> Column]
    BY <1>0, <1>1, <2>1, OrphanedRow DEF DeleteParent, Column
  <2>3. QED BY <1>0, <1>1, <2>2 DEF DeleteParent
<1>2. ASSUME NEW i \in Ids, Poll(i)
      PROVE  /\ rows' \in [Ids -> Column] /\ moved' \subseteq Ids
             /\ UNCHANGED <<kind, job, request, parent, node, jobID, values, run, asked,
                            now, ticked, faults, overtaken>>
  <2>1. PICK update \in {0, 1} :
           rows' = [rows EXCEPT ![i] = InsertJob(@, NewJobRow("pending", update, "null", FALSE, FALSE))]
    BY <1>2 DEF Poll
  <2>2. InsertJob(rows[i], NewJobRow("pending", update, "null", FALSE, FALSE)) \in Column
    BY <1>0, InsertedRow, NewRows DEF Column
  <2>3. rows' \in [Ids -> Column]
    BY <1>0, <2>1, <2>2
  <2>4. moved' \subseteq Ids
    BY <1>0, <1>2 DEF Poll
  <2>5. QED BY <1>2, <2>3, <2>4 DEF Poll
<1>3. CASE DeleteNode
  <2>1. rows' \in [Ids -> Column]
    BY <1>0, <1>3 DEF DeleteNode, Column
  <2>2. QED BY <1>0, <1>3, <2>1 DEF DeleteNode
<1>4. CASE RenameNode
  BY <1>0, <1>4 DEF RenameNode
<1>5. QED BY <1>1, <1>2, <1>3, <1>4

LEMMA FaultCounted ==
    ASSUME TypeOK, MayFail
    PROVE  faults + 1 \in 0..MaxFaults
<1>1. faults \in Nat /\ MaxFaults \in Nat
  BY DEF TypeOK
<1>2. node = "there" => faults < MaxFaults
  BY <1>1 DEF MayFail
<1>3. node # "there" => faults + 1 < MaxFaults
  BY <1>1 DEF MayFail
<1>4. QED BY <1>1, <1>2, <1>3

LEMMA TypedInductive == Spec => [](TypeOK /\ \A r \in Runs : Given(r))
<1> DEFINE Inv == TypeOK /\ \A r \in Runs : Given(r)
<1>1. Init => Inv
  <2> SUFFICES ASSUME Init PROVE Inv
    OBVIOUS
  <2>1. NewRun \in RunTypes /\ NewRun.at = "new"
    BY DEF NewRun, RunTypes, Ids
  <2>2. \A r \in Runs : Given(r)
    BY <2>1 DEF Init, Given, Under
  <2>3. TypeOK
    <3>1. 0 \in Ids /\ 0 \in 0..MaxFaults
      BY DEF Ids
    <3>2. run \in [Runs -> RunTypes] /\ rows \in [Ids -> Column]
      BY <2>1 DEF Init, Column
    <3>3. QED BY <3>1, <3>2 DEF Init, TypeOK, Column
  <2>4. QED BY <2>2, <2>3
<1>2. Inv /\ [Next]_vars => Inv'
  <2> SUFFICES ASSUME TypeOK, \A r \in Runs : Given(r), [Next]_vars
               PROVE  TypeOK' /\ \A r \in Runs : Given(r)'
    OBVIOUS
  <2>1. ASSUME NEW r \in Runs, RunStep(r)
        PROVE  TypeOK' /\ \A q \in Runs : Given(q)'
    BY <2>1, RunTyped
  <2>2. ASSUME NEW r \in Runs, CronTick(r) \/ FireTask(r) \/ FireFirst(r) \/ NewOneTimeJob(r)
        PROVE  TypeOK' /\ \A q \in Runs : Given(q)'
    BY <2>2, StartTyped
  <2>3. ASSUME UNCHANGED <<jobID, values, run>>
        PROVE  \A q \in Runs : Given(q)'
    BY <2>3 DEF Given, Under
  <2>4. CASE NewCronJob \/ StopTask
    BY <2>3, <2>4 DEF NewCronJob, StopTask, TypeOK
  <2>5. CASE InsertTask
    <3>1. faults' \in 0..MaxFaults
      BY <2>5, FaultCounted DEF InsertTask, TypeOK
    <3>2. QED BY <2>3, <2>5, <3>1 DEF InsertTask, TypeOK
  <2>6. CASE DeleteParent \/ DeleteNode \/ RenameNode \/ \E i \in Ids : Poll(i)
    <3>1. TypeOK'
      BY <2>6, RowStepTyped DEF TypeOK, Column
    <3>2. QED BY <2>3, <2>6, <3>1, RowStepTyped
  <2>7. CASE Tick
    <3>1. now' \in Ids
      BY <2>7 DEF Tick, TypeOK, Ids
    <3>2. QED BY <2>3, <2>7, <3>1 DEF Tick, TypeOK
  <2>8. CASE Crash
    <3>1. run' \in [Runs -> RunTypes] /\ \A q \in Runs : ~Under(q)'
      BY <2>8, CrashSlots
    <3>2. faults' \in 0..MaxFaults
      BY <2>8, FaultCounted DEF Crash, TypeOK
    <3>3. TypeOK'
      BY <2>8, <3>1, <3>2 DEF Crash, TypeOK
    <3>4. QED BY <3>1, <3>3 DEF Given, Under
  <2>9. CASE UNCHANGED vars
    BY <2>3, <2>9 DEF vars, TypeOK
  <2>10. QED BY <2>1, <2>2, <2>4, <2>5, <2>6, <2>7, <2>8, <2>9 DEF Next
<1>3. QED BY <1>1, <1>2, PTL DEF Spec

\* Type correctness: no interleaving of runs, events, polls and failures makes
\* a run use an id that no run of this process has set.
THEOREM TypeCorrect == Spec => []TypeOK
  BY TypedInductive, PTL

-------------------------------------------------------------------------------
(* The ids. *)

\* An id in one of the shared fields is the run's own, or a later run's that has
\* overtaken it.
Fresh(r, i) == run[r].own <= i /\ (r \notin overtaken => i = run[r].own)

Used(r) == {run[r].inserted, run[r].sent, run[r].recorded} \ {NoId}

Proper(r) == \A i \in Used(r) : i = run[r].own \/ (r \in overtaken /\ run[r].own < i)

\* What the step a run is at says of the ids it has used.
Fields(r) ==
    /\ run[r].at \in {"new", "before", "set", "insert"} => run[r].inserted = NoId
    /\ run[r].at \in {"new", "before", "set", "insert", "request"} => run[r].sent = NoId
    /\ run[r].at # "failed" => run[r].recorded = NoId
    /\ run[r].at = "failed" /\ run[r].recorded = NoId => run[r].noRows
    /\ run[r].noRows => run[r].at \in {"record", "failed", "lost"}

KeepsId(r) ==
    /\ Under(r) /\ run[r].at # "before" => Fresh(r, jobID)
    /\ run[r].at \in {"insert", "request"} => Fresh(r, values)
    /\ Fields(r) /\ Proper(r)

Clock == jobID \in Ids => jobID <= now

\* What a step of another run leaves: the shared fields only get later ids, and
\* who is overtaken is known.
LEMMA OthersKeepIds ==
    ASSUME TypeOK, Clock, NEW r \in Runs, NEW q \in Runs \ {r}, Given(q), KeepsId(q), Others(r),
           overtaken \subseteq overtaken', UNCHANGED now,
           \/ UNCHANGED jobID
           \/ jobID' = now /\ Overtakes \subseteq overtaken',
           \/ UNCHANGED values
           \/ values' = jobID
    PROVE  KeepsId(q)'
<1>1. run'[q] = run[q] /\ now \in Nat
  BY DEF Others, TypeOK, Ids
<1>2. Fields(q)'
  BY <1>1 DEF KeepsId, Fields
<1>3. Proper(q)'
  BY <1>1 DEF KeepsId, Proper, Used
<1>4. ASSUME Under(q), run[q].at # "before" PROVE Fresh(q, jobID)'
  <2>1. jobID \in Ids /\ run[q].own \in Ids /\ Fresh(q, jobID)
    BY <1>4 DEF Given, KeepsId
  <2>2. CASE UNCHANGED jobID
    BY <1>1, <2>1, <2>2 DEF Fresh
  <2>3. CASE jobID' = now /\ Overtakes \subseteq overtaken'
    <3>1. run[q].own <= now
      BY <1>1, <2>1 DEF Clock, Fresh, Ids
    <3>2. q \notin overtaken' => run[q].own = now
      BY <1>4, <2>3 DEF Overtakes
    <3>3. QED BY <1>1, <2>3, <3>1, <3>2 DEF Fresh
  <2>4. QED BY <2>2, <2>3
<1>5. ASSUME run[q].at \in {"insert", "request"} PROVE Fresh(q, values)'
  <2>1. Fresh(q, values) /\ Fresh(q, jobID)
    BY <1>5 DEF KeepsId, Under
  <2>2. values' \in {values, jobID}
    OBVIOUS
  <2>3. QED BY <1>1, <2>1, <2>2 DEF Fresh
<1>6. QED BY <1>1, <1>2, <1>3, <1>4, <1>5 DEF KeepsId, Under

LEMMA FreshIsProper ==
    ASSUME NEW r \in Runs, NEW i \in Ids, run[r].own \in Ids, Fresh(r, i)
    PROVE  i = run[r].own \/ (r \in overtaken /\ run[r].own < i)
  BY DEF Fresh, Ids

\* A run's own step: it takes what the shared fields hold.
LEMMA RunKeepsIds ==
    ASSUME TypeOK, Clock, NEW r \in Runs, Given(r), KeepsId(r), RunStep(r)
    PROVE  KeepsId(r)'
<1>1. CASE SetJobID(r)
  <2>1. /\ run[r].at = "before" /\ run'[r].at = "set" /\ run'[r].own = now
        /\ SameNoRows(r) /\ SameInserted(r) /\ SameSent(r) /\ SameRecorded(r)
    BY <1>1, DrawnSlot
  <2>2. jobID' = now /\ now \in Nat
    BY <1>1 DEF SetJobID, TypeOK, Ids
  <2>3. Fresh(r, jobID)'
    BY <2>1, <2>2 DEF Fresh
  <2>4. Fields(r)' /\ Used(r)' = {}
    BY <2>1 DEF KeepsId, Fields, Used, SameNoRows, SameInserted, SameSent, SameRecorded
  <2>5. QED BY <2>1, <2>3, <2>4 DEF KeepsId, Proper
<1>a. ASSUME ~SetJobID(r) PROVE UNCHANGED <<jobID, overtaken>>
  BY <1>a DEF RunStep, SetValues, InsertRun, EncodeRequest, SendRequest, AfterSuccess, RecordError
<1>b. ASSUME UNCHANGED <<jobID, overtaken>>, SameOwn(r), Under(r), run[r].at # "before"
      PROVE  Fresh(r, jobID)'
  BY <1>b DEF KeepsId, Fresh, SameOwn
<1>2. CASE SetValues(r)
  <2>1. run[r].at = "set" /\ run'[r].at = "insert" /\ SameIds(r)
    BY <1>2, SetValuesSlot DEF SameIds
  <2>2. UNCHANGED <<jobID, overtaken>> /\ values' = jobID
    BY <1>2 DEF SetValues
  <2>3. Fresh(r, jobID)' /\ Fresh(r, values)'
    BY <1>b, <2>1, <2>2 DEF SameIds, Under, Fresh
  <2>4. Fields(r)' /\ Proper(r)'
    BY <2>1, <2>2 DEF KeepsId, Fields, Proper, Used, SameIds, SameNoRows, SameOwn,
                      SameInserted, SameSent, SameRecorded
  <2>5. QED BY <2>1, <2>3, <2>4 DEF KeepsId
<1>3. ASSUME NEW noRows \in BOOLEAN, Fails(r, noRows),
             run[r].at \in {"insert", "request", "send"}, UNCHANGED <<jobID, overtaken>>
      PROVE  KeepsId(r)'
  <2>1. /\ run'[r].at = "record" /\ run'[r].noRows = noRows
        /\ SameOwn(r) /\ SameInserted(r) /\ SameSent(r) /\ SameRecorded(r)
    BY <1>3, FailsSlot
  <2>2. Fresh(r, jobID)'
    BY <1>b, <1>3, <2>1 DEF Under
  <2>3. Fields(r)' /\ Proper(r)'
    BY <1>3, <2>1 DEF KeepsId, Fields, Proper, Used, SameOwn, SameInserted, SameSent, SameRecorded
  <2>4. QED BY <2>1, <2>2, <2>3 DEF KeepsId
<1>4. CASE InsertRun(r)
  <2>0. run[r].at = "insert" /\ jobID \in Ids /\ UNCHANGED <<jobID, values, overtaken>>
    BY <1>4 DEF InsertRun
  <2>1. CASE \E noRows \in BOOLEAN : Fails(r, noRows)
    BY <1>3, <2>0, <2>1
  <2>2. CASE run' = [run EXCEPT ![r].at = "request", ![r].inserted = jobID]
    <3>1. /\ run'[r].at = "request" /\ run'[r].inserted = jobID
          /\ SameNoRows(r) /\ SameOwn(r) /\ SameSent(r) /\ SameRecorded(r)
      BY <2>0, <2>2, InsertedSlot
    <3>2. Fresh(r, jobID) /\ Fresh(r, values) /\ run[r].own \in Ids
      BY <2>0 DEF KeepsId, Given, Under
    <3>3. Fresh(r, jobID)' /\ Fresh(r, values)'
      BY <2>0, <3>1, <3>2 DEF Fresh, SameOwn
    <3>4. Fields(r)'
      BY <2>0, <3>1 DEF KeepsId, Fields, SameNoRows, SameSent, SameRecorded
    <3>5. Proper(r)'
      <4>1. Used(r)' \subseteq {jobID}
        BY <2>0, <3>1, <3>4 DEF KeepsId, Fields, Used, SameSent
      <4>2. jobID = run[r].own \/ (r \in overtaken /\ run[r].own < jobID)
        BY <2>0, <3>2, FreshIsProper
      <4>3. QED BY <2>0, <3>1, <4>1, <4>2 DEF Proper, SameOwn
    <3>6. QED BY <3>1, <3>3, <3>4, <3>5 DEF KeepsId
  <2>3. QED BY <1>4, <2>1, <2>2 DEF InsertRun
<1>5. CASE EncodeRequest(r)
  <2>0. run[r].at = "request" /\ UNCHANGED <<jobID, values, overtaken>>
    BY <1>5 DEF EncodeRequest
  <2>1. CASE Fails(r, FALSE) \/ Fails(r, TRUE)
    BY <1>3, <2>0, <2>1
  <2>2. CASE run' = [run EXCEPT ![r].at = "send", ![r].sent = values]
    <3>1. /\ run'[r].at = "send" /\ run'[r].sent = values
          /\ SameNoRows(r) /\ SameOwn(r) /\ SameInserted(r) /\ SameRecorded(r)
      BY <2>2, EncodedSlot
    <3>2. Fresh(r, values) /\ values \in Ids /\ run[r].own \in Ids
      BY <2>0 DEF KeepsId, Given, Under
    <3>3. Fresh(r, jobID)'
      BY <1>b, <2>0, <3>1 DEF Under
    <3>4. Fields(r)'
      BY <2>0, <3>1 DEF KeepsId, Fields, SameNoRows, SameRecorded
    <3>5. Proper(r)'
      <4>1. Used(r)' \subseteq Used(r) \cup {values}
        BY <3>1 DEF Used, SameInserted, SameRecorded
      <4>2. values = run[r].own \/ (r \in overtaken /\ run[r].own < values)
        BY <3>2, FreshIsProper
      <4>3. QED BY <2>0, <3>1, <4>1, <4>2 DEF KeepsId, Proper, SameOwn
    <3>6. QED BY <3>1, <3>3, <3>4, <3>5 DEF KeepsId
  <2>3. QED BY <1>5, <2>1, <2>2 DEF EncodeRequest
<1>6. CASE SendRequest(r)
  <2>0. run[r].at = "send" /\ UNCHANGED <<jobID, overtaken>>
    BY <1>6 DEF SendRequest
  <2>1. CASE Fails(r, FALSE)
    BY <1>3, <2>0, <2>1
  <2>2. CASE Move(r, "started")
    <3>1. run'[r].at = "started" /\ SameIds(r)
      BY <2>2, StartedSlot DEF SameIds
    <3>2. Fresh(r, jobID)'
      BY <1>b, <2>0, <3>1 DEF SameIds, Under
    <3>3. Fields(r)' /\ Proper(r)'
      BY <2>0, <3>1 DEF KeepsId, Fields, Proper, Used, SameIds, SameNoRows, SameOwn,
                        SameInserted, SameSent, SameRecorded
    <3>4. QED BY <3>1, <3>2, <3>3 DEF KeepsId
  <2>3. QED BY <1>6, <2>1, <2>2 DEF SendRequest
<1>7. CASE AfterSuccess(r)
  <2>1. run[r].at = "started" /\ run'[r].at = "ok" /\ SameIds(r) /\ UNCHANGED overtaken
    BY <1>7, SuccessSlot DEF SameIds, AfterSuccess
  <2>2. Fields(r)' /\ Proper(r)'
    BY <2>1 DEF KeepsId, Fields, Proper, Used, SameIds, SameNoRows, SameOwn,
                SameInserted, SameSent, SameRecorded
  <2>3. QED BY <2>1, <2>2 DEF KeepsId, Under
<1>8. CASE RecordError(r)
  <2>1. /\ run[r].at = "record" /\ run'[r].at = "failed"
        /\ run'[r].recorded = (IF ~run[r].noRows THEN jobID ELSE NoId)
        /\ SameNoRows(r) /\ SameOwn(r) /\ SameInserted(r) /\ SameSent(r)
    BY <1>8, RecordedSlot
  <2>2. UNCHANGED overtaken
    BY <1>8 DEF RecordError
  <2>3. Fresh(r, jobID) /\ jobID \in Ids /\ run[r].own \in Ids
    BY <2>1 DEF KeepsId, Given, Under
  <2>4. jobID # NoId
    BY <2>3 DEF Ids
  <2>5. Fields(r)'
    BY <2>1, <2>4 DEF KeepsId, Fields, SameNoRows
  <2>6. Used(r)' \subseteq Used(r) \cup {jobID}
    BY <2>1 DEF Used, SameInserted, SameSent
  <2>7. jobID = run[r].own \/ (r \in overtaken /\ run[r].own < jobID)
    BY <2>3, FreshIsProper
  <2>8. Proper(r)'
    BY <2>1, <2>2, <2>6, <2>7 DEF KeepsId, Proper, SameOwn
  <2>9. QED BY <2>1, <2>5, <2>8 DEF KeepsId, Under
<1>9. QED BY <1>1, <1>2, <1>4, <1>5, <1>6, <1>7, <1>8 DEF RunStep

\* What happens between the steps of runs changes no id, and only adds to the
\* clock.
LEMMA QuietStep ==
    ASSUME TypeOK, [Next]_vars, ~\E r \in Runs : RunStep(r), ~Crash,
           ~\E r \in Runs : CronTick(r) \/ FireTask(r) \/ FireFirst(r) \/ NewOneTimeJob(r)
    PROVE  /\ UNCHANGED <<kind, jobID, values, run, asked, overtaken>>
           /\ now' \in Nat /\ now <= now'
<1>1. now \in Nat
  BY DEF TypeOK, Ids
<1>2. CASE DeleteParent \/ DeleteNode \/ RenameNode \/ \E i \in Ids : Poll(i)
  BY <1>1, <1>2, RowStepTyped
<1>3. CASE NewCronJob \/ StopTask
  BY <1>1, <1>3 DEF NewCronJob, StopTask
<1>4. CASE InsertTask
  BY <1>1, <1>4 DEF InsertTask
<1>5. CASE Tick
  BY <1>1, <1>5 DEF Tick
<1>6. CASE UNCHANGED vars
  BY <1>1, <1>6 DEF vars
<1>7. QED BY <1>2, <1>3, <1>4, <1>5, <1>6 DEF Next

\* A run that starts has used no id yet.
LEMMA StartKeepsIds ==
    ASSUME TypeOK, NEW r \in Runs, \A q \in Runs : KeepsId(q),
           CronTick(r) \/ FireTask(r) \/ FireFirst(r) \/ NewOneTimeJob(r)
    PROVE  /\ UNCHANGED <<jobID, values, asked, now, overtaken>>
           /\ \A q \in Runs : KeepsId(q)' /\ SameInserted(q) /\ SameSent(q)
<1>1. Start(r)
  BY DEF CronTick, FireTask, FireFirst, NewOneTimeJob
<1>2. /\ Others(r) /\ run[r].at = "new" /\ run'[r].at = "before"
      /\ SameNoRows(r) /\ SameOwn(r) /\ SameInserted(r) /\ SameSent(r) /\ SameRecorded(r)
  BY <1>1, StartSlot
<1>3. UNCHANGED <<jobID, values, asked, now, overtaken>>
  BY DEF CronTick, FireTask, FireFirst, NewOneTimeJob
<1>4. KeepsId(r)'
  <2>1. Fields(r)'
    BY <1>2 DEF KeepsId, Fields, SameNoRows, SameInserted, SameSent, SameRecorded
  <2>2. Proper(r)'
    BY <1>2, <1>3 DEF KeepsId, Proper, Used, SameOwn, SameInserted, SameSent, SameRecorded
  <2>3. QED BY <1>2, <2>1, <2>2 DEF KeepsId
<1>5. ASSUME NEW q \in Runs \ {r} PROVE KeepsId(q)' /\ SameInserted(q) /\ SameSent(q)
  <2>1. KeepsId(q) /\ run'[q] = run[q]
    BY <1>2 DEF Others
  <2>2. SameInserted(q) /\ SameSent(q)
    BY <2>1 DEF SameInserted, SameSent
  <2>3. Fields(q)' /\ Proper(q)'
    BY <1>3, <2>1 DEF KeepsId, Fields, Proper, Used
  <2>4. QED BY <1>3, <2>1, <2>2, <2>3 DEF KeepsId, Fresh, Under
<1>6. QED BY <1>2, <1>3, <1>4, <1>5

\* A run that is lost keeps what it had used.
LEMMA LostKeepsIds ==
    ASSUME TypeOK, NEW q \in Runs, KeepsId(q), Crash
    PROVE  KeepsId(q)'
<1>1. ~Under(q)' /\ SameIds(q) /\ run'[q].at \in {run[q].at, "lost"} /\ UNCHANGED overtaken
  BY CrashSlots DEF Crash
<1>2. Fields(q)'
  <2>1. run'[q].at \in {"new", "ok", "failed", "lost"}
    BY <1>1 DEF Under
  <2>2. Fields(q)
    BY DEF KeepsId
  <2>3. /\ run'[q].noRows = run[q].noRows /\ run'[q].inserted = run[q].inserted
        /\ run'[q].sent = run[q].sent /\ run'[q].recorded = run[q].recorded
    BY <1>1 DEF SameIds, SameNoRows, SameInserted, SameSent, SameRecorded
  <2>4. CASE run'[q].at = run[q].at
    BY <2>2, <2>3, <2>4 DEF Fields
  <2>5. CASE run'[q].at = "lost" /\ run[q].at # "failed"
    BY <2>2, <2>3, <2>5 DEF Fields
  <2>6. run'[q].at = "lost" => run[q].at # "failed"
    BY DEF Crash, Under
  <2>7. QED BY <1>1, <2>4, <2>5, <2>6
<1>3. Proper(q)'
  BY <1>1 DEF KeepsId, Proper, Used, SameIds, SameOwn, SameInserted, SameSent, SameRecorded
<1>4. run'[q].at \notin {"insert", "request"}
  BY <1>1 DEF Under
<1>5. QED BY <1>1, <1>2, <1>3, <1>4 DEF KeepsId

LEMMA RunOthers ==
    ASSUME TypeOK, NEW r \in Runs, RunStep(r)
    PROVE  Others(r)
<1>1. CASE SetJobID(r) \/ SetValues(r) \/ AfterSuccess(r) \/ RecordError(r)
  BY <1>1, DrawnSlot, SetValuesSlot, SuccessSlot, RecordedSlot
<1>2. ASSUME NEW noRows \in BOOLEAN, Fails(r, noRows) PROVE Others(r)
  BY <1>2, FailsSlot
<1>3. CASE InsertRun(r)
  BY <1>2, <1>3, InsertedSlot DEF InsertRun
<1>4. CASE EncodeRequest(r)
  BY <1>2, <1>4, EncodedSlot DEF EncodeRequest
<1>5. CASE SendRequest(r)
  BY <1>2, <1>5, StartedSlot DEF SendRequest
<1>6. QED BY <1>1, <1>3, <1>4, <1>5 DEF RunStep

LEMMA IdsInductive == Spec => [](Clock /\ \A r \in Runs : KeepsId(r))
<1> DEFINE Typed == TypeOK /\ \A r \in Runs : Given(r)
           Kept == Clock /\ \A r \in Runs : KeepsId(r)
<1>1. Init => Kept
  <2> SUFFICES ASSUME Init PROVE Kept
    OBVIOUS
  <2>1. Clock
    BY DEF Init, Clock, Ids
  <2>2. ASSUME NEW r \in Runs PROVE KeepsId(r)
    <3>1. run[r] = NewRun
      BY DEF Init
    <3>2. QED BY <3>1 DEF NewRun, KeepsId, Fields, Proper, Used, Under
  <2>3. QED BY <2>1, <2>2
<1>2. Typed /\ Kept /\ [Next]_vars => Kept'
  <2> SUFFICES ASSUME Typed, Kept, [Next]_vars PROVE Kept'
    OBVIOUS
  <2>1. ASSUME NEW r \in Runs, RunStep(r) PROVE Kept'
    <3>1. Others(r) /\ overtaken \subseteq overtaken' /\ UNCHANGED now
      BY <2>1, RunFrame, RunOthers
    <3>2. \/ UNCHANGED jobID
          \/ jobID' = now /\ Overtakes \subseteq overtaken'
      BY <2>1 DEF RunStep, SetJobID, SetValues, InsertRun, EncodeRequest, SendRequest,
                  AfterSuccess, RecordError
    <3>3. UNCHANGED values \/ values' = jobID
      BY <2>1 DEF RunStep, SetJobID, SetValues, InsertRun, EncodeRequest, SendRequest,
                  AfterSuccess, RecordError
    <3>4. KeepsId(r)'
      BY <2>1, RunKeepsIds
    <3>5. ASSUME NEW q \in Runs \ {r} PROVE KeepsId(q)'
      BY <3>1, <3>2, <3>3, OthersKeepIds
    <3>6. Clock'
      BY <3>1, <3>2 DEF Clock, TypeOK, Ids
    <3>7. QED BY <3>4, <3>5, <3>6
  <2>2. ASSUME NEW r \in Runs, CronTick(r) \/ FireTask(r) \/ FireFirst(r) \/ NewOneTimeJob(r)
        PROVE  Kept'
    BY <2>2, StartKeepsIds DEF Clock
  <2>3. CASE Crash
    <3>1. Clock'
      BY <2>3 DEF Crash, Clock, Ids
    <3>2. QED BY <2>3, <3>1, LostKeepsIds
  <2>4. ASSUME UNCHANGED <<jobID, values, run, overtaken>>, now' \in Nat, now <= now'
        PROVE  Kept'
    <3>1. now \in Nat /\ (jobID \in Ids => jobID \in Nat)
      BY DEF TypeOK, Ids
    <3>2. Clock'
      BY <2>4, <3>1 DEF Clock
    <3>3. \A r \in Runs : KeepsId(r)'
      BY <2>4 DEF KeepsId, Fresh, Fields, Proper, Used, Under
    <3>4. QED BY <3>2, <3>3
  <2>5. QED BY <2>1, <2>2, <2>3, <2>4, QuietStep
<1>3. QED BY <1>1, <1>2, TypedInductive, PTL DEF Spec

\* The row, the request and the error of a run carry the id that it drew, or that
\* of a later run that has overtaken it, although each is read from the shared
\* fields at a time of its own (task.go:107, 127, 178).
THEOREM RunsKeepTheirIds == Spec => []RunKeepsItsId
<1>1. (\A r \in Runs : KeepsId(r)) => RunKeepsItsId
  BY DEF KeepsId, Proper, Used, RunKeepsItsId
<1>2. QED BY <1>1, IdsInductive, PTL

-------------------------------------------------------------------------------
(* The rows. *)

\* No statement takes a row or its error away, while the node is there.
RowsStay ==
    \A i \in Ids : rows[i] # NoRow => rows'[i] # NoRow /\ (rows[i].error => rows'[i].error)

\* Nor its task or user, before the task or the user goes.
RowsKeepNames ==
    \A i \in Ids : rows'[i] # NoRow => Names(rows'[i]) \/ (rows[i] # NoRow /\ ~Names(rows[i]))

\* A run that has asked Scrapyd is past its insert.
SentStays ==
    \A q \in Runs : run[q].sent # NoId => SameSent(q) /\ SameInserted(q)

MistakenFor(i) == \E q \in Runs : Mistaken(q) /\ run[q].sent = i

Tracked(r) ==
    /\ node = "there" /\ run[r].inserted # NoId =>
           /\ rows[run[r].inserted] # NoRow
           /\ run[r].at = "failed" /\ faults = 0 /\ run[r].recorded = run[r].inserted
                  => rows[run[r].inserted].error
    /\ run[r].noRows /\ run[r].inserted # NoId => node # "there"

Scheduling ==
    /\ request \in {"new", "fire", "insert"} /\ kind = "cron" => parent = "absent"
    /\ request \in {"fire", "insert"} => kind = "cron"
    /\ node = "there" => moved = {}

Named ==
    node = "there" /\ parent # "deleted" =>
        \A i \in Ids : rows[i] # NoRow => Names(rows[i]) \/ MistakenFor(i)

Sent == \A i \in asked : \E q \in Runs : run[q].sent = i

LEMMA MistakenStay ==
    ASSUME SentStays, NEW i \in Ids
    PROVE  MistakenFor(i) => MistakenFor(i)'
<1> SUFFICES ASSUME MistakenFor(i) PROVE MistakenFor(i)'
  OBVIOUS
<1>1. PICK q \in Runs : Mistaken(q) /\ run[q].sent = i
  BY DEF MistakenFor
<1>2. run[q].sent # NoId
  BY <1>1 DEF Mistaken
<1>3. SameSent(q) /\ SameInserted(q)
  BY <1>2 DEF SentStays
<1>4. Mistaken(q)' /\ run'[q].sent = i
  BY <1>1, <1>3 DEF Mistaken, SameSent, SameInserted
<1>5. QED BY <1>4 DEF MistakenFor

LEMMA NamedKept ==
    ASSUME Named, SentStays, RowsKeepNames, node' = "there" => node = "there",
           parent = "deleted" => parent' = "deleted"
    PROVE  Named'
<1> SUFFICES ASSUME node' = "there", parent' # "deleted", NEW i \in Ids, rows'[i] # NoRow
             PROVE  Names(rows'[i]) \/ MistakenFor(i)'
  BY DEF Named
<1>1. rows[i] # NoRow => Names(rows[i]) \/ MistakenFor(i)
  BY DEF Named
<1>2. QED BY <1>1, MistakenStay DEF RowsKeepNames

LEMMA SentKept ==
    ASSUME TypeOK, Sent, SentStays, UNCHANGED asked
    PROVE  Sent'
<1> SUFFICES ASSUME NEW i \in asked PROVE \E q \in Runs : run'[q].sent = i
  BY DEF Sent
<1>1. PICK q \in Runs : run[q].sent = i
  BY DEF Sent
<1>2. i # NoId
  BY DEF TypeOK, Ids
<1>3. QED BY <1>1, <1>2 DEF SentStays, SameSent

\* What the other runs have in the table stays.
LEMMA TrackedKept ==
    ASSUME TypeOK, NEW q \in Runs, Tracked(q), node' = "there" => node = "there" /\ RowsStay,
           faults' = 0 => faults = 0, SameInserted(q), SameNoRows(q), SameRecorded(q),
           run'[q].at = "failed" => run[q].at = "failed"
    PROVE  Tracked(q)'
<1>1. run[q].inserted # NoId => run[q].inserted \in Ids
  BY DEF TypeOK, RunTypes
<1>2. QED BY <1>1 DEF Tracked, RowsStay, SameInserted, SameNoRows, SameRecorded

LEMMA InsertKeepsRows ==
    ASSUME TypeOK, NEW i \in Ids, NEW new \in JobRow, Names(new) \/ rows[i] # NoRow,
           rows' = [rows EXCEPT ![i] = InsertJob(@, new)]
    PROVE  RowsStay /\ RowsKeepNames /\ rows'[i] # NoRow
<1>1. rows \in [Ids -> Column]
  BY DEF TypeOK, Column
<1>2. rows'[i] = InsertJob(rows[i], new) /\ \A j \in Ids \ {i} : rows'[j] = rows[j]
  BY <1>1
<1>3. /\ rows'[i] # NoRow /\ (rows[i] = NoRow => rows'[i] = new)
      /\ rows[i] # NoRow => rows'[i].error = rows[i].error /\ (Names(rows[i]) => Names(rows'[i]))
  BY <1>1, <1>2, InsertedRow
<1>4. RowsStay
  BY <1>2, <1>3 DEF RowsStay
<1>5. RowsKeepNames
  BY <1>2, <1>3 DEF RowsKeepNames
<1>6. QED BY <1>3, <1>4, <1>5

LEMMA ErrorKeepsRows ==
    ASSUME TypeOK, NEW i \in Ids, rows' = [rows EXCEPT ![i] = SetErrorWhereJobId(@)]
    PROVE  RowsStay /\ RowsKeepNames /\ (rows[i] # NoRow => rows'[i].error)
<1>1. rows \in [Ids -> Column]
  BY DEF TypeOK, Column
<1>2. rows'[i] = SetErrorWhereJobId(rows[i]) /\ \A j \in Ids \ {i} : rows'[j] = rows[j]
  BY <1>1
<1>3. /\ rows[i] = NoRow => rows'[i] = NoRow
      /\ rows[i] # NoRow => /\ rows'[i] # NoRow /\ rows'[i].error
                            /\ Names(rows[i]) => Names(rows'[i])
  BY <1>1, <1>2, FailedRow
<1>4. RowsStay
  BY <1>2, <1>3 DEF RowsStay
<1>5. RowsKeepNames
  BY <1>2, <1>3 DEF RowsKeepNames
<1>6. QED BY <1>3, <1>4, <1>5

LEMMA SameRows ==
    ASSUME UNCHANGED rows
    PROVE  RowsStay /\ RowsKeepNames
  BY DEF RowsStay, RowsKeepNames

\* What a run has asked for stays what it was.
LEMMA RunSentStays ==
    ASSUME TypeOK, NEW r \in Runs, RunStep(r), KeepsId(r)
    PROVE  SentStays
<1>1. Others(r)
  BY RunOthers
<1>2. run[r].sent # NoId => run[r].at \notin {"new", "before", "set", "insert", "request"}
  BY DEF KeepsId, Fields
<1>3. ASSUME run[r].sent # NoId PROVE SameSent(r) /\ SameInserted(r)
  <2>1. CASE SendRequest(r)
    BY <2>1, StartedSlot, FailsSlot DEF SendRequest
  <2>2. CASE AfterSuccess(r) \/ RecordError(r)
    BY <2>2, SuccessSlot, RecordedSlot
  <2>3. QED
    BY <1>2, <1>3, <2>1, <2>2 DEF RunStep, SetJobID, SetValues, InsertRun, EncodeRequest
<1>4. ASSUME NEW q \in Runs \ {r} PROVE SameSent(q) /\ SameInserted(q)
  BY <1>1 DEF Others, SameSent, SameInserted
<1>5. QED BY <1>3, <1>4 DEF SentStays

\* A run's own step: it asks for what it has inserted, unless it is mistaken, and
\* reports what it asked for, unless it is overtaken.
LEMMA RunTracked ==
    ASSUME TypeOK, NEW r \in Runs, RunStep(r), Given(r), KeepsId(r), Tracked(r), Scheduling, Sent
    PROVE  /\ node = "there" => RowsStay /\ RowsKeepNames
           /\ Tracked(r)' /\ Sent'
<1>0. UNCHANGED <<kind, request, parent, node, moved>> /\ (faults' = 0 => faults = 0)
  BY RunFrame
<1>a. SentStays
  BY RunSentStays
<1>b. ASSUME UNCHANGED <<rows, asked>>, SameInserted(r), SameNoRows(r), SameRecorded(r),
             run'[r].at # "failed"
      PROVE  RowsStay /\ RowsKeepNames /\ Tracked(r)' /\ Sent'
  BY <1>0, <1>a, <1>b, SameRows, TrackedKept, SentKept
<1>1. CASE SetJobID(r)
  BY <1>b, <1>1, DrawnSlot DEF SetJobID
<1>2. CASE SetValues(r)
  BY <1>b, <1>2, SetValuesSlot DEF SetValues
<1>3. ASSUME NEW noRows \in BOOLEAN, Fails(r, noRows),
             noRows /\ run[r].inserted # NoId => node # "there"
      PROVE  UNCHANGED rows => Tracked(r)'
  <2>1. /\ run'[r].at = "record" /\ run'[r].noRows = noRows /\ SameInserted(r)
    BY <1>3, FailsSlot
  <2>2. QED BY <1>0, <1>3, <2>1 DEF Tracked, SameInserted
<1>4. CASE InsertRun(r)
  <2>0. /\ run[r].at = "insert" /\ jobID \in Ids /\ UNCHANGED asked
        /\ run[r].inserted = NoId /\ ~run[r].noRows
    BY <1>4 DEF InsertRun, KeepsId, Fields
  <2>1. CASE /\ rows' = [rows EXCEPT ![jobID] = InsertJob(@, Inserted)]
             /\ run' = [run EXCEPT ![r].at = "request", ![r].inserted = jobID]
    <3>1. RowsStay /\ RowsKeepNames /\ rows'[jobID] # NoRow
      BY <2>0, <2>1, NewRows, InsertKeepsRows
    <3>2. run'[r].at = "request" /\ run'[r].inserted = jobID /\ SameNoRows(r)
      BY <2>0, <2>1, InsertedSlot
    <3>3. Tracked(r)'
      BY <2>0, <3>1, <3>2 DEF Tracked, SameNoRows
    <3>4. QED BY <1>a, <2>0, <3>1, <3>3, SentKept
  <2>2. CASE \E noRows \in BOOLEAN : Fails(r, noRows) /\ UNCHANGED rows
    BY <1>3, <1>a, <2>0, <2>2, SameRows, SentKept
  <2>3. QED BY <1>4, <2>1, <2>2 DEF InsertRun
<1>5. CASE EncodeRequest(r)
  <2>0. UNCHANGED <<rows, asked>>
    BY <1>5 DEF EncodeRequest
  <2>1. CASE run' = [run EXCEPT ![r].at = "send", ![r].sent = values]
    BY <1>b, <2>0, <2>1, EncodedSlot
  <2>2. CASE Fails(r, FALSE) \/ (node # "there" /\ Fails(r, TRUE))
    BY <1>3, <1>a, <2>0, <2>2, SameRows, SentKept
  <2>3. QED BY <1>5, <2>1, <2>2 DEF EncodeRequest
<1>6. CASE SendRequest(r)
  <2>0. run[r].at = "send" /\ run[r].sent # NoId /\ UNCHANGED rows /\ asked' \subseteq asked \cup {run[r].sent}
    BY <1>6 DEF SendRequest, Given, Ids
  <2>1. SameSent(r) /\ SameInserted(r)
    BY <1>a, <2>0 DEF SentStays
  <2>2. Sent'
    <3> SUFFICES ASSUME NEW i \in asked' PROVE \E q \in Runs : run'[q].sent = i
      BY DEF Sent
    <3>1. CASE i = run[r].sent
      BY <2>1, <3>1 DEF SameSent
    <3>2. CASE i \in asked
      <4>1. PICK q \in Runs : run[q].sent = i
        BY <3>2 DEF Sent
      <4>2. i # NoId
        BY <3>2 DEF TypeOK, Ids
      <4>3. QED BY <1>a, <4>1, <4>2 DEF SentStays, SameSent
    <3>3. QED BY <2>0, <3>1, <3>2
  <2>3. Tracked(r)'
    <3>1. CASE Move(r, "started")
      <4>1. run'[r].at = "started" /\ SameNoRows(r) /\ SameRecorded(r)
        BY <3>1, StartedSlot
      <4>2. QED BY <1>0, <2>0, <2>1, <4>1, SameRows, TrackedKept
    <3>2. CASE Fails(r, FALSE)
      BY <1>3, <2>0, <3>2
    <3>3. QED BY <1>6, <3>1, <3>2 DEF SendRequest
  <2>4. QED BY <2>0, <2>2, <2>3, SameRows
<1>7. CASE AfterSuccess(r)
  BY <1>b, <1>7, SuccessSlot DEF AfterSuccess
<1>8. CASE RecordError(r)
  <2>0. /\ run[r].at = "record" /\ UNCHANGED asked /\ jobID \in Ids /\ jobID # NoId
        /\ run'[r].recorded = (IF ~run[r].noRows THEN jobID ELSE NoId)
        /\ SameInserted(r) /\ SameNoRows(r)
    BY <1>8, RecordedSlot DEF RecordError, Given, Under, Ids
  <2>1. CASE rows' = [rows EXCEPT ![jobID] = SetErrorWhereJobId(@)] /\ ~run[r].noRows
    <3>1. RowsStay /\ RowsKeepNames /\ (rows[jobID] # NoRow => rows'[jobID].error)
      BY <2>0, <2>1, ErrorKeepsRows
    <3>2. run'[r].recorded = jobID
      BY <2>0, <2>1
    <3>3. run[r].inserted # NoId => run[r].inserted \in Ids
      BY DEF TypeOK, RunTypes
    <3>4. Tracked(r)'
      BY <1>0, <2>0, <2>1, <3>1, <3>2, <3>3 DEF Tracked, RowsStay, SameInserted, SameNoRows
    <3>5. QED BY <1>a, <2>0, <3>1, <3>4, SentKept
  <2>2. CASE UNCHANGED rows /\ (run[r].noRows \/ faults' # 0 \/ node # "there")
    <3>1. run[r].noRows => run'[r].recorded = NoId
      BY <2>0
    <3>2. Tracked(r)'
      BY <1>0, <2>0, <2>2, <3>1 DEF Tracked, SameInserted, SameNoRows
    <3>3. QED BY <1>a, <2>0, <2>2, <3>2, SameRows, SentKept
  <2>3. faults \in Nat /\ (node = "there" => moved = {})
    BY DEF TypeOK, Scheduling
  <2>4. QED BY <1>8, <2>1, <2>2, <2>3 DEF RecordError
<1>9. QED BY <1>1, <1>2, <1>4, <1>5, <1>6, <1>7, <1>8 DEF RunStep

\* A run starts with what it had in the table, nothing, and changes none of it.
LEMMA StartTracked ==
    ASSUME TypeOK, NEW r \in Runs, \A q \in Runs : KeepsId(q) /\ Tracked(q), Scheduling,
           CronTick(r) \/ FireTask(r) \/ FireFirst(r) \/ NewOneTimeJob(r)
    PROVE  /\ Scheduling' /\ SentStays /\ \A q \in Runs : Tracked(q)'
           /\ UNCHANGED <<kind, parent, node, moved, rows, asked, faults>>
<1>1. Start(r)
  BY DEF CronTick, FireTask, FireFirst, NewOneTimeJob
<1>2. /\ Others(r) /\ run'[r].at = "before"
      /\ SameNoRows(r) /\ SameInserted(r) /\ SameRecorded(r) /\ SameSent(r)
  BY <1>1, StartSlot
<1>3. UNCHANGED <<kind, parent, node, moved, rows, asked, faults>>
  BY DEF CronTick, FireTask, FireFirst, NewOneTimeJob
<1>4. \/ UNCHANGED request
      \/ request = "fire" /\ request' = "insert"
      \/ request' = "added"
  BY DEF CronTick, FireTask, FireFirst, NewOneTimeJob
<1>5. Scheduling'
  BY <1>3, <1>4 DEF Scheduling
<1>6. ASSUME NEW q \in Runs
      PROVE  /\ SameNoRows(q) /\ SameInserted(q) /\ SameRecorded(q) /\ SameSent(q)
             /\ run'[q].at = "failed" => run[q].at = "failed"
  BY <1>2 DEF Others, SameNoRows, SameInserted, SameRecorded, SameSent
<1>7. \A q \in Runs : Tracked(q)'
  BY <1>3, <1>6, SameRows, TrackedKept
<1>8. SentStays
  BY <1>6 DEF SentStays
<1>9. QED BY <1>3, <1>5, <1>7, <1>8

\* A poll makes a row of its own only for a job that a run asked for by mistake.
LEMMA PollTracked ==
    ASSUME TypeOK, NEW i \in Ids, Poll(i), Sent, \A q \in Runs : Tracked(q), Named
    PROVE  node = "there" => RowsStay /\ Named'
<1> SUFFICES ASSUME node = "there" PROVE RowsStay /\ Named'
  OBVIOUS
<1>1. i \in asked /\ UNCHANGED <<parent, node, run>>
  BY DEF Poll
<1>2. PICK update \in {0, 1} :
         rows' = [rows EXCEPT ![i] = InsertJob(@, NewJobRow("pending", update, "null", FALSE, FALSE))]
  BY DEF Poll
<1>3. rows \in [Ids -> Column]
  BY DEF TypeOK, Column
<1>4. NewJobRow("pending", update, "null", FALSE, FALSE) \in JobRow
  BY NewRows
<1>5. SentStays
  BY <1>1 DEF SentStays, SameSent, SameInserted
<1>6. CASE rows[i] # NoRow
  <2>1. RowsStay /\ RowsKeepNames
    BY <1>2, <1>4, <1>6, InsertKeepsRows
  <2>2. QED BY <1>1, <1>5, <2>1, NamedKept
<1>7. CASE rows[i] = NoRow
  <2>1. PICK q \in Runs : run[q].sent = i
    BY <1>1 DEF Sent
  <2>2. Mistaken(q)
    <3>1. i # NoId /\ (run[q].inserted = i => rows[i] # NoRow)
      BY DEF Tracked, Ids
    <3>2. QED BY <1>7, <2>1, <3>1 DEF Mistaken
  <2>3. MistakenFor(i)'
    BY <1>5, <2>1, <2>2, MistakenStay DEF MistakenFor
  <2>4. \A j \in Ids \ {i} : rows'[j] = rows[j]
    BY <1>2, <1>3
  <2>5. RowsStay
    BY <1>7, <2>4 DEF RowsStay
  <2>6. Named'
    <3> SUFFICES ASSUME parent' # "deleted", NEW j \in Ids \ {i}, rows'[j] # NoRow
                 PROVE  Names(rows'[j]) \/ MistakenFor(j)'
      BY <2>3 DEF Named
    <3>1. Names(rows[j]) \/ MistakenFor(j)
      BY <1>1, <2>4 DEF Named
    <3>2. QED BY <1>5, <2>4, <3>1, MistakenStay
  <2>7. QED BY <2>5, <2>6
<1>8. QED BY <1>6, <1>7

\* The task, or the user, goes: the rows lose their references, and stay.
LEMMA DeleteTracked ==
    ASSUME TypeOK, DeleteParent
    PROVE  RowsStay /\ Named'
<1>1. parent' = "deleted"
  BY DEF DeleteParent
<1>2. CASE UNCHANGED rows
  BY <1>1, <1>2, SameRows DEF Named
<1>3. CASE rows' = [i \in Ids |-> IF rows[i] = NoRow THEN NoRow
                                  ELSE [rows[i] EXCEPT !.taskId = FALSE, !.startedBy = FALSE]]
  <2>1. ASSUME NEW i \in Ids, rows[i] # NoRow
        PROVE  rows'[i] # NoRow /\ rows'[i].error = rows[i].error
    <3>1. rows[i] \in JobRow
      BY <2>1 DEF TypeOK
    <3>2. rows'[i] = [rows[i] EXCEPT !.taskId = FALSE, !.startedBy = FALSE]
      BY <1>3, <2>1
    <3>3. QED BY <3>1, <3>2, OrphanedRow
  <2>2. QED BY <1>1, <2>1 DEF RowsStay, Named
<1>4. QED BY <1>2, <1>3 DEF DeleteParent

LEMMA RowsInductive == Spec => [](Scheduling /\ Sent /\ Named /\ \A r \in Runs : Tracked(r))
<1> DEFINE Inv == Scheduling /\ Sent /\ Named /\ \A r \in Runs : Tracked(r)
           Typed == TypeOK /\ \A r \in Runs : Given(r)
           Kept == \A r \in Runs : KeepsId(r)
<1>1. Init => Inv
  <2> SUFFICES ASSUME Init PROVE Inv
    OBVIOUS
  <2>1. \A r \in Runs : run[r].inserted = NoId /\ ~run[r].noRows
    BY DEF Init, NewRun
  <2>2. Scheduling /\ Sent /\ Named
    BY DEF Init, Scheduling, Sent, Named
  <2>3. QED BY <2>1, <2>2 DEF Tracked
<1>2. Typed /\ Kept /\ Inv /\ [Next]_vars => Inv'
  <2> SUFFICES ASSUME Typed, Kept, Inv, [Next]_vars PROVE Inv'
    OBVIOUS
  <2>1. ASSUME NEW r \in Runs, RunStep(r) PROVE Inv'
    <3>1. /\ node = "there" => RowsStay /\ RowsKeepNames
          /\ Tracked(r)' /\ Sent'
      BY <2>1, RunTracked
    <3>2. /\ Others(r) /\ SentStays /\ (faults' = 0 => faults = 0)
          /\ UNCHANGED <<kind, request, parent, node, moved>>
      BY <2>1, RunOthers, RunSentStays, RunFrame
    <3>3. ASSUME NEW q \in Runs \ {r} PROVE Tracked(q)'
      <4>1. run'[q] = run[q]
        BY <3>2 DEF Others
      <4>2. SameInserted(q) /\ SameNoRows(q) /\ SameRecorded(q)
        BY <4>1 DEF SameInserted, SameNoRows, SameRecorded
      <4>3. QED BY <3>1, <3>2, <4>1, <4>2, TrackedKept
    <3>4. Named'
      <4>1. CASE node = "there"
        BY <3>1, <3>2, <4>1, NamedKept
      <4>2. QED BY <3>2, <4>1 DEF Named
    <3>5. Scheduling'
      BY <3>2 DEF Scheduling
    <3>6. QED BY <3>1, <3>3, <3>4, <3>5
  <2>2. ASSUME NEW r \in Runs, CronTick(r) \/ FireTask(r) \/ FireFirst(r) \/ NewOneTimeJob(r)
        PROVE  Inv'
    <3>1. /\ Scheduling' /\ SentStays /\ \A q \in Runs : Tracked(q)'
          /\ UNCHANGED <<kind, parent, node, rows, asked>>
      BY <2>2, StartTracked
    <3>2. QED BY <3>1, SameRows, NamedKept, SentKept
  <2>3. ASSUME UNCHANGED <<run, asked>>, faults' = 0 => faults = 0,
               node' = "there" => node = "there" /\ RowsStay,
               Scheduling', Named'
        PROVE  Inv'
    <3>1. SentStays
      BY <2>3 DEF SentStays, SameSent, SameInserted
    <3>2. ASSUME NEW q \in Runs PROVE Tracked(q)'
      <4>1. SameInserted(q) /\ SameNoRows(q) /\ SameRecorded(q)
        BY <2>3 DEF SameInserted, SameNoRows, SameRecorded
      <4>2. QED BY <2>3, <4>1, TrackedKept
    <3>3. QED BY <2>3, <3>1, <3>2, SentKept
  <2>4. CASE DeleteParent
    <3>1. RowsStay /\ Named'
      BY <2>4, DeleteTracked
    <3>2. /\ UNCHANGED <<kind, request, node, moved, run, asked, faults>>
          /\ parent = "present" /\ parent' = "deleted"
      BY <2>4 DEF DeleteParent
    <3>3. QED BY <2>3, <3>1, <3>2 DEF Scheduling
  <2>5. CASE DeleteNode \/ RenameNode
    <3>1. /\ UNCHANGED <<kind, request, run, asked, faults>>
          /\ node' # "there" /\ parent' \in {parent, "deleted"}
          /\ parent' # parent => parent = "present"
      BY <2>5 DEF DeleteNode, RenameNode
    <3>2. QED BY <2>3, <3>1 DEF Scheduling, Named
  <2>6. ASSUME NEW i \in Ids, Poll(i) PROVE Inv'
    <3>1. /\ UNCHANGED <<kind, request, parent, node, run, asked, faults>>
          /\ node = "there" => UNCHANGED moved \/ rows[i] = NoRow
      BY <2>6 DEF Poll
    <3>2. node = "there" => UNCHANGED moved
      BY <2>6 DEF Poll
    <3>3. node = "there" => RowsStay /\ Named'
      BY <2>6, PollTracked
    <3>4. QED BY <2>3, <3>1, <3>2, <3>3 DEF Scheduling, Named
  <2>7. ASSUME UNCHANGED <<node, run, rows, asked>>, faults' = 0 => faults = 0,
               parent = "deleted" => parent' = "deleted", Scheduling'
        PROVE  Inv'
    <3>1. SentStays
      BY <2>7 DEF SentStays, SameSent, SameInserted
    <3>2. Named' /\ RowsStay
      BY <2>7, <3>1, SameRows, NamedKept
    <3>3. QED BY <2>3, <2>7, <3>2
  <2>8. CASE NewCronJob \/ StopTask \/ Tick \/ UNCHANGED vars
    <3>1. /\ UNCHANGED <<kind, parent, node, moved, run, rows, asked, faults>>
          /\ UNCHANGED request \/ (request = "new" /\ kind = "cron")
      BY <2>8 DEF NewCronJob, StopTask, Tick, vars
    <3>2. Scheduling'
      BY <3>1 DEF Scheduling
    <3>3. QED BY <2>7, <3>1, <3>2
  <2>9. CASE InsertTask
    <3>1. /\ UNCHANGED <<kind, node, moved, run, rows, asked>> /\ request = "insert"
          /\ request' \in {"added", "failed"}
      BY <2>9 DEF InsertTask
    <3>2. parent = "absent" /\ faults' \in {faults, faults + 1}
      BY <2>9, <3>1 DEF InsertTask, Scheduling
    <3>3. faults' = 0 => faults = 0
      BY <3>2 DEF TypeOK
    <3>4. Scheduling'
      BY <3>1 DEF Scheduling
    <3>5. QED BY <2>7, <3>1, <3>2, <3>3, <3>4
  <2>10. CASE Crash
    <3>1. /\ UNCHANGED <<kind, parent, node, moved, rows, asked>>
          /\ request' \in {"added", "failed"}
      BY <2>10 DEF Crash
    <3>2. faults' = 0 => faults = 0
      <4>1. faults' \in {faults, faults + 1}
        BY <2>10 DEF Crash
      <4>2. QED BY <4>1 DEF TypeOK
    <3>3. \A q \in Runs : SameIds(q) /\ run'[q].at \in {run[q].at, "lost"}
      BY <2>10, CrashSlots
    <3>4. SentStays
      BY <3>3 DEF SentStays, SameIds
    <3>5. Scheduling'
      BY <3>1 DEF Scheduling
    <3>6. \A q \in Runs : Tracked(q)'
      BY <3>1, <3>2, <3>3, SameRows, TrackedKept DEF SameIds
    <3>7. QED BY <3>1, <3>4, <3>5, <3>6, SameRows, NamedKept, SentKept
  <2>11. QED BY <2>1, <2>2, <2>4, <2>5, <2>6, <2>8, <2>9, <2>10 DEF Next
<1>3. QED BY <1>1, <1>2, TypedInductive, IdsInductive, PTL DEF Spec

\* What a run asks Scrapyd for has a row while the node is there, and one that
\* names the task or the user as long as there is one: the row is inserted before
\* the request is made, and a poll that comes later keeps its references
\* (task.go:87-98). Overtaken in between, a run asks for a job whose row may not
\* be there yet.
THEOREM AskedOnesHaveRows == Spec => []AskedHaveRows
<1>1. TypeOK /\ Named /\ (\A r \in Runs : Tracked(r)) => AskedHaveRows
  <2> SUFFICES ASSUME TypeOK, Named, NEW r \in Runs, Tracked(r),
                      node = "there", run[r].sent # NoId, ~Mistaken(r)
               PROVE  /\ rows[run[r].sent] # NoRow
                      /\ parent = "present" => Names(rows[run[r].sent]) \/ MistakenFor(run[r].sent)
    BY DEF AskedHaveRows, Names, MistakenFor
  <2>1. run[r].sent = run[r].inserted /\ run[r].sent \in Ids
    BY DEF Mistaken, TypeOK, RunTypes
  <2>2. rows[run[r].sent] # NoRow
    BY <2>1 DEF Tracked
  <2>3. QED BY <2>1, <2>2 DEF Named
<1>2. QED BY <1>1, TypeCorrect, RowsInductive, PTL

\* A run that failed after its insert says so in the row it inserted, if the node
\* is there and nothing else failed: the error is recorded under the id of the
\* insert unless the run was overtaken, and no later statement takes it away
\* (task.go:174-180).
THEOREM FailuresAreShown == Spec => []FailuresShown
<1>1. TypeOK /\ (\A r \in Runs : KeepsId(r)) /\ (\A r \in Runs : Tracked(r)) => FailuresShown
  <2> SUFFICES ASSUME TypeOK, NEW r \in Runs, KeepsId(r), Tracked(r), node = "there", faults = 0, run[r].at = "failed",
                      run[r].inserted # NoId,
                      r \in overtaken => run[r].recorded = run[r].inserted
               PROVE  rows[run[r].inserted].error
    BY DEF FailuresShown
  <2>1. ~run[r].noRows /\ run[r].recorded # NoId
    BY DEF Tracked, KeepsId, Fields
  <2>2. r \notin overtaken => run[r].recorded = run[r].own /\ run[r].inserted = run[r].own
    BY <2>1 DEF KeepsId, Proper, Used
  <2>3. run[r].recorded = run[r].inserted
    BY <2>2
  <2>4. QED BY <2>3 DEF Tracked
<1>2. QED BY <1>1, TypeCorrect, IdsInductive, RowsInductive, PTL
===============================================================================
