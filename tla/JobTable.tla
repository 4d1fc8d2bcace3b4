------------------------------ MODULE JobTable ------------------------------
(***************************************************************************)
(* The jobs table: its rows and the four statements that change one, as    *)
(* functions from the row before to the row after (jobs.sql.go).  SQLite   *)
(* runs each statement atomically; everything that happens between two of  *)
(* them is the subject of module JobHistory.                               *)
(*                                                                         *)
(* Of the columns the upsert coalesces, finish and stopped_by stand for    *)
(* all: finish for those every poll fills, stopped_by for those no poll    *)
(* does.                                                                   *)
(***************************************************************************)
EXTENDS Naturals

CONSTANTS MaxStamp,   \* bound on update_time; 0 is Go's zero time
          NoRow

ASSUME StampAssumption == MaxStamp \in Nat

Stamps == 0..MaxStamp

\* A nullable time column: Go's zero time is a value, not NULL.
Times == {"null", "zero", "time"}

JobStatus == {"scheduled", "pending", "running", "finished", "error"}

\* taskId, startedBy, stoppedBy: does the row name a task, a user?
JobRow == [status : JobStatus, update : Stamps, finish : Times, deleted : BOOLEAN,
           error : BOOLEAN, taskId : BOOLEAN, startedBy : BOOLEAN, stoppedBy : BOOLEAN]

ASSUME NoRowAssumption == NoRow \notin JobRow

\* INSERT of a job nobody has stopped, failed or deleted yet.
NewJobRow(status, update, finish, taskId, startedBy) ==
  [status |-> status, update |-> update, finish |-> finish, deleted |-> FALSE,
   error |-> FALSE, taskId |-> taskId, startedBy |-> startedBy, stoppedBy |-> FALSE]

Coalesce(new, old) == IF new = "null" THEN old ELSE new

\* Faulty variants: a clause of the upsert's WHERE is missing, or its
\* comparison is strict.
AcceptedOutOfOrder(old, new) == ~old.deleted
AcceptedDeleted(old, new) == new.update >= old.update
AcceptedStrictly(old, new) == ~old.deleted /\ new.update > old.update

\* ON CONFLICT ... DO UPDATE ... WHERE: a refused row is sql.ErrNoRows.
Accepted(old, new) == ~old.deleted /\ new.update >= old.update

\* Faulty variant: the two users are not coalesced.
InsertJobForgetsUsers(old, new) ==
  IF old = NoRow THEN new
  ELSE IF ~Accepted(old, new) THEN old
  ELSE [old EXCEPT !.status = new.status, !.update = new.update,
                   !.finish = Coalesce(new.finish, @),
                   !.startedBy = new.startedBy, !.stoppedBy = new.stoppedBy]

InsertJob(old, new) ==
  IF old = NoRow THEN new
  ELSE IF ~Accepted(old, new) THEN old
  ELSE [old EXCEPT !.status = new.status, !.update = new.update,
                   !.finish = Coalesce(new.finish, @),
                   !.startedBy = new.startedBy \/ @, !.stoppedBy = new.stoppedBy \/ @]

\* Faulty variant: the error is stored and the status is left.
SetErrorKeepsStatus(old) == IF old = NoRow THEN NoRow ELSE [old EXCEPT !.error = TRUE]

SetErrorWhereJobId(old) ==
  IF old = NoRow THEN NoRow ELSE [old EXCEPT !.status = "error", !.error = TRUE]

SetStoppedByOnJob(old) == IF old = NoRow THEN NoRow ELSE [old EXCEPT !.stoppedBy = TRUE]

SoftDeleteJob(old) == IF old = NoRow THEN NoRow ELSE [old EXCEPT !.deleted = TRUE]
=============================================================================
