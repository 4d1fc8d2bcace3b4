------------------------- MODULE TaskLifecycleProofs -------------------------
(***************************************************************************)
(* Proofs about TaskLifecycle, for every set of tasks, nodes, cron strings *)
(* and handlers and whatever the bounds are.                               *)
(***************************************************************************)
EXTENDS TaskLifecycle, TLAPS

USE NullAssumption, BoundAssumption, CronAssumption, OpAssumption

(* What changes in the handlers when one of them takes a step. *)
HandlersOK == req \in [Requests -> Handler] /\ \A r \in Requests : WellFormed(req[r])

LEMMA IdleWellFormed == WellFormed(IdleReq)
  BY DEF WellFormed, IdleReq, Handler, OpNames, Labels

LEMMA BecomeKeepsHandlers ==
  ASSUME HandlersOK, NEW r \in Requests, NEW h, WellFormed(h), Become(r, h)
  PROVE  /\ HandlersOK'
         /\ req'[r] = h
         /\ \A q \in Requests \ {r} : req'[q] = req[q]
  BY DEF HandlersOK, Become, WellFormed

(* The handler's local state after each kind of step is well formed again. *)
LEMMA StepWellFormed ==
  ASSUME NEW h, WellFormed(h), NEW label \in Labels,
         h.at \in Labels \ {"idle", "new", "item"}, label \notin {"idle", "new", "item"},
         label \in {"new", "insert", "check", "update", "write", "start", "unpause"}
           => h.cfg \in Config
  PROVE  WellFormed([h EXCEPT !.at = label])
  BY DEF WellFormed, Handler, Labels

LEMMA FinishItemKeepsHandlers ==
  ASSUME HandlersOK, NEW r \in Requests, FinishItem(r), req[r].at # "idle"
  PROVE  HandlersOK'
<1> DEFINE rest == req[r].todo \ {req[r].task}
           h == [req[r] EXCEPT !.at = "item", !.task = NoTask, !.todo = rest]
<1>1. CASE req[r].op \in {"bulkStop", "bulkDelete"} /\ rest # {}
  <2>1. Become(r, h)
    BY <1>1 DEF FinishItem
  <2>2. req[r] \in Handler
    BY DEF HandlersOK
  <2>3. rest \in SUBSET Tasks /\ NoTask \in Tasks \cup {NoTask} /\ "item" \in Labels
    BY <2>2 DEF Handler, Labels
  <2>4. h \in Handler
    BY <2>2, <2>3 DEF Handler
  <2>5. h.at = "item" /\ h.todo = rest
    BY <2>2 DEF Handler
  <2>6. WellFormed(h)
    BY <1>1, <2>4, <2>5 DEF WellFormed
  <2> QED BY <2>1, <2>6, BecomeKeepsHandlers
<1>2. CASE ~(req[r].op \in {"bulkStop", "bulkDelete"} /\ rest # {})
  BY <1>2, BecomeKeepsHandlers, IdleWellFormed DEF FinishItem, Return
<1> QED BY <1>1, <1>2

LEMMA BeginKeepsHandlers ==
  ASSUME HandlersOK, NEW r \in Requests, TypeOK, Begins(r)
  PROVE  /\ HandlersOK'
         /\ UNCHANGED <<row, sched, nodes, server, seen, told, faults, nodeChanges>>
<1> USE DEF Begin
<1>1. CASE BeginCreate(r)
  <2> PICK c \in Parsable, ns \in SUBSET Nodes, n \in Nodes :
        n \in ns /\ Begin(r, "create", {}, [IdleReq EXCEPT !.op = "create", !.at = "new",
                                !.cfg = [cron |-> c, node |-> n], !.targets = ns \ {n}])
    BY <1>1 DEF BeginCreate
  <2> DEFINE h == [IdleReq EXCEPT !.op = "create", !.at = "new",
                   !.cfg = [cron |-> c, node |-> n], !.targets = ns \ {n}]
  <2>1. WellFormed(h)
    BY DEF WellFormed, Handler, IdleReq, OpNames, Labels, Config
  <2> QED BY <2>1, BecomeKeepsHandlers
<1>2. ASSUME NEW op \in {"stop", "delete", "restart"}, NEW label \in {"remove", "read"},
             BeginOne(r, op, label)
      PROVE  /\ HandlersOK'
             /\ UNCHANGED <<row, sched, nodes, server, seen, told, faults, nodeChanges>>
  <2> PICK t \in seen :
        Begin(r, op, {t}, [IdleReq EXCEPT !.op = op, !.at = label, !.task = t, !.todo = {t}])
    BY <1>2 DEF BeginOne
  <2> DEFINE h == [IdleReq EXCEPT !.op = op, !.at = label, !.task = t, !.todo = {t}]
  <2>1. t \in Tasks
    BY DEF TypeOK
  <2>2. WellFormed(h)
    BY <2>1 DEF WellFormed, Handler, IdleReq, OpNames, Labels
  <2> QED BY <2>2, BecomeKeepsHandlers
<1>3. ASSUME NEW op \in {"bulkStop", "bulkDelete"}, BeginBulk(r, op)
      PROVE  /\ HandlersOK'
             /\ UNCHANGED <<row, sched, nodes, server, seen, told, faults, nodeChanges>>
  <2> PICK ts \in (SUBSET seen) \ {{}} :
        Begin(r, op, ts, [IdleReq EXCEPT !.op = op, !.at = "item", !.todo = ts])
    BY <1>3 DEF BeginBulk
  <2> DEFINE h == [IdleReq EXCEPT !.op = op, !.at = "item", !.todo = ts]
  <2>1. WellFormed(h)
    BY DEF WellFormed, Handler, IdleReq, OpNames, Labels, TypeOK
  <2> QED BY <2>1, BecomeKeepsHandlers
<1>4. CASE BeginEdit(r)
  <2> PICK t \in seen, c \in Parsable, n \in Nodes :
        Begin(r, "edit", {t}, [IdleReq EXCEPT !.op = "edit", !.at = "check", !.task = t,
                               !.todo = {t}, !.cfg = [cron |-> c, node |-> n]])
    BY <1>4 DEF BeginEdit
  <2> DEFINE h == [IdleReq EXCEPT !.op = "edit", !.at = "check", !.task = t,
                   !.todo = {t}, !.cfg = [cron |-> c, node |-> n]]
  <2>1. t \in Tasks /\ [cron |-> c, node |-> n] \in Config
    BY DEF TypeOK, Config
  <2>2. WellFormed(h)
    BY <2>1 DEF WellFormed, Handler, IdleReq, OpNames, Labels
  <2> QED BY <2>2, BecomeKeepsHandlers
<1> QED
  BY <1>1, <1>2, <1>3, <1>4 DEF Begins

LEMMA ContinueKeepsHandlers ==
  ASSUME HandlersOK, TypeOK, NEW r \in Requests, Continues(r)
  PROVE  HandlersOK'
<1>1. WellFormed(req[r])
  BY DEF HandlersOK
<1>2. CASE Return(r)
  BY <1>2, IdleWellFormed, BecomeKeepsHandlers DEF Return
<1>3. ASSUME NEW label \in Labels, Step(r, label),
             req[r].at \in Labels \ {"idle", "new", "item"}, label \notin {"idle", "new", "item"},
             label \in {"new", "insert", "check", "update", "write", "start", "unpause"}
               => req[r].cfg \in Config
      PROVE  HandlersOK'
  <2>1. WellFormed([req[r] EXCEPT !.at = label])
    BY <1>1, <1>3, StepWellFormed
  <2> QED BY <1>3, <2>1, BecomeKeepsHandlers DEF Step
<1>4. CASE CreateJob(r)
  <2>1. ASSUME NEW t \in Tasks,
               Become(r, [req[r] EXCEPT !.at = "insert", !.task = t, !.todo = {t}])
        PROVE  HandlersOK'
    <3> DEFINE h == [req[r] EXCEPT !.at = "insert", !.task = t, !.todo = {t}]
    <3>1. WellFormed(h)
      BY <1>1, <1>4 DEF WellFormed, Handler, Labels, CreateJob
    <3> QED BY <2>1, <3>1, BecomeKeepsHandlers
  <2> QED BY <1>2, <1>4, <2>1 DEF CreateJob
<1>5. CASE CreateInsert(r)
  <2>1. CASE NextNode(r) /\ req[r].targets # {}
    <3> PICK n \in req[r].targets :
          Become(r, [req[r] EXCEPT !.at = "new", !.task = NoTask, !.todo = {},
                                  !.cfg = [cron |-> req[r].cfg.cron, node |-> n],
                                  !.targets = @ \ {n}])
      BY <2>1 DEF NextNode
    <3> DEFINE h == [req[r] EXCEPT !.at = "new", !.task = NoTask, !.todo = {},
                                  !.cfg = [cron |-> req[r].cfg.cron, node |-> n],
                                  !.targets = @ \ {n}]
    <3>1. WellFormed(h)
      BY <1>1, <1>5 DEF WellFormed, Handler, Labels, CreateInsert, Config
    <3> QED BY <3>1, BecomeKeepsHandlers
  <2> QED BY <1>2, <1>5, <2>1 DEF CreateInsert, NextNode
<1>6. CASE BulkItem(r)
  <2>1. ASSUME NEW t \in req[r].todo, NEW label \in {"remove", "drop"},
               Become(r, [req[r] EXCEPT !.at = label, !.task = t])
        PROVE  HandlersOK'
    <3> DEFINE h == [req[r] EXCEPT !.at = label, !.task = t]
    <3>1. WellFormed(h)
      BY <1>1 DEF WellFormed, Handler, Labels
    <3> QED BY <2>1, <3>1, BecomeKeepsHandlers
  <2>2. ASSUME NEW t \in req[r].todo, req[r].todo # {t},
               Become(r, [req[r] EXCEPT !.todo = @ \ {t}])
        PROVE  HandlersOK'
    <3> DEFINE h == [req[r] EXCEPT !.todo = @ \ {t}]
    <3>1. WellFormed(h)
      BY <1>1, <1>6, <2>2 DEF WellFormed, Handler, Labels, BulkItem
    <3> QED BY <2>2, <3>1, BecomeKeepsHandlers
  <2> QED BY <1>2, <1>6, <2>1, <2>2 DEF BulkItem
<1>7. CASE RemoveJob(r)
  BY <1>2, <1>3, <1>7 DEF RemoveJob, Labels
<1>8. CASE PauseRow(r)
  BY <1>3, <1>8, FinishItemKeepsHandlers DEF PauseRow, Labels
<1>9. CASE DropRow(r)
  BY <1>9, FinishItemKeepsHandlers DEF DropRow
<1>10. CASE EditCheck(r)
  <2> DEFINE h == [req[r] EXCEPT !.at = IF isTaskRunning(req[r].task) THEN "update" ELSE "write",
                                !.paused = ~isTaskRunning(req[r].task)]
  <2>1. isTaskRunning(req[r].task) \in BOOLEAN
    BY DEF isTaskRunning
  <2>2. WellFormed(h)
    BY <1>1, <1>10, <2>1 DEF WellFormed, Handler, Labels, EditCheck
  <2> QED BY <1>10, <2>2, BecomeKeepsHandlers DEF EditCheck
<1>11. CASE EditUpdate(r)
  BY <1>1, <1>2, <1>3, <1>11 DEF EditUpdate, Labels, WellFormed
<1>12. CASE EditWrite(r)
  BY <1>2, <1>12 DEF EditWrite
<1>13. CASE RestartRead(r)
  <2>1. CASE row[req[r].task] # NoRow
    <3> DEFINE h == [req[r] EXCEPT !.at = "start", !.cfg = row[req[r].task].cfg]
    <3>1. req[r].task \in Tasks
      BY <1>1, <1>13 DEF RestartRead, WellFormed, Handler
    <3>2. row[req[r].task].cfg \in Config
      BY <2>1, <3>1 DEF TypeOK, Row
    <3>3. WellFormed(h)
      BY <1>1, <1>13, <3>2 DEF WellFormed, Handler, Labels, RestartRead
    <3> QED BY <1>13, <2>1, <3>3, BecomeKeepsHandlers DEF RestartRead
  <2> QED BY <1>2, <1>13, <2>1 DEF RestartRead
<1>14. CASE RestartJob(r)
  BY <1>1, <1>2, <1>3, <1>14 DEF RestartJob, Labels, WellFormed
<1>15. CASE RestartUnpause(r)
  BY <1>2, <1>15 DEF RestartUnpause
<1>16. CASE DatabaseFails(r)
  BY <1>2, <1>16 DEF DatabaseFails
<1> QED
  BY <1>4, <1>5, <1>6, <1>7, <1>8, <1>9, <1>10, <1>11, <1>12, <1>13, <1>14, <1>15, <1>16
  DEF Continues

(* The data types: row by row, what each call writes. *)
LEMMA ContinueKeepsData ==
  ASSUME TypeOK, NEW r \in Requests, Continues(r)
  PROVE  /\ row' \in [Tasks -> Row \cup {NoRow}]
         /\ sched' \in [Tasks -> Config \cup {NoJob}]
         /\ told' \in [Tasks -> {"none", "running", "stopped", "deleted"}]
         /\ seen' \subseteq Tasks
         /\ faults' \in 0..MaxFaults
         /\ UNCHANGED <<nodes, server, nodeChanges>>
<1> DEFINE t == req[r].task
<1>1. WellFormed(req[r]) /\ req[r] \in Handler
  BY DEF TypeOK
<1>2. req[r].at \notin {"idle", "new", "item"} => t \in Tasks
  BY <1>1 DEF WellFormed, Handler
<1>3. \A p \in BOOLEAN : t \in Tasks => WithPaused(t, p) \in Row \cup {NoRow}
  BY DEF TypeOK, WithPaused, Row
<1> USE DEF TypeOK
<1>4. CASE CreateJob(r)
  BY <1>1, <1>4 DEF CreateJob, NewJob, WellFormed
<1>5. CASE CreateInsert(r)
  <2>1. [cfg |-> req[r].cfg, paused |-> FALSE] \in Row
    BY <1>1, <1>5 DEF CreateInsert, WellFormed, Row
  <2> QED BY <1>2, <1>5, <2>1 DEF CreateInsert, InsertTask
<1>6. CASE BulkItem(r)
  BY <1>6 DEF BulkItem
<1>7. CASE RemoveJob(r)
  BY <1>2, <1>7 DEF RemoveJob
<1>8. CASE PauseRow(r)
  BY <1>2, <1>3, <1>8 DEF PauseRow
<1>9. CASE DropRow(r)
  BY <1>2, <1>9 DEF DropRow
<1>10. CASE EditCheck(r)
  BY <1>10 DEF EditCheck
<1>11. CASE EditUpdate(r)
  <2>1. \A out \in UpdateOutcomes(sched[t], req[r].cfg) : out.job \in Config \cup {NoJob}
    BY <1>1, <1>2, <1>11 DEF EditUpdate, UpdateOutcomes, WellFormed
  <2> QED BY <1>2, <1>11, <2>1 DEF EditUpdate
<1>12. CASE EditWrite(r)
  <2>1. [cfg |-> req[r].cfg, paused |-> req[r].paused] \in Row
    BY <1>1, <1>12 DEF EditWrite, WellFormed, Row, Handler
  <2> QED BY <1>2, <1>12, <2>1 DEF EditWrite
<1>13. CASE RestartRead(r)
  BY <1>13 DEF RestartRead
<1>14. CASE RestartJob(r)
  BY <1>1, <1>2, <1>14 DEF RestartJob, NewJob, WellFormed
<1>15. CASE RestartUnpause(r)
  BY <1>2, <1>3, <1>15 DEF RestartUnpause
<1>16. CASE DatabaseFails(r)
  BY <1>2, <1>16 DEF DatabaseFails
<1> QED
  BY <1>4, <1>5, <1>6, <1>7, <1>8, <1>9, <1>10, <1>11, <1>12, <1>13, <1>14, <1>15, <1>16
  DEF Continues

(* Type correctness: no interleaving of handlers, crashes, failing calls and
   node changes leaves the tables, the scheduler or a handler ill formed. *)
THEOREM TypeCorrect == Spec => []TypeOK
<1>1. Init => TypeOK
  BY IdleWellFormed DEF Init, TypeOK, WellFormed
<1>2. TypeOK /\ [Next]_vars => TypeOK'
  <2> SUFFICES ASSUME TypeOK, [Next]_vars PROVE TypeOK'
    OBVIOUS
  <2>1. HandlersOK
    BY DEF TypeOK, HandlersOK
  <2>2. ASSUME NEW r \in Requests, Begins(r) PROVE TypeOK'
    BY <2>1, <2>2, BeginKeepsHandlers DEF TypeOK, HandlersOK
  <2>3. ASSUME NEW r \in Requests, Continues(r) PROVE TypeOK'
    BY <2>1, <2>3, ContinueKeepsHandlers, ContinueKeepsData DEF TypeOK, HandlersOK
  <2>4. CASE ImportTask
    <3>1. \A c \in Config : [cfg |-> c, paused |-> TRUE] \in Row
      BY DEF Row
    <3> QED BY <2>4, <3>1 DEF ImportTask, InsertTask, TypeOK
  <2>5. CASE Crash
    BY <2>5, IdleWellFormed DEF Crash, TypeOK, WellFormed
  <2>6. CASE Boot
    <3>1. \A t \in Tasks : Loaded(t) => row[t].cfg \in Config
      BY DEF Loaded, TypeOK, Row
    <3> QED BY <2>6, <3>1 DEF Boot, TypeOK
  <2>7. CASE AddNode
    BY <2>7 DEF AddNode, NodeStatement, TypeOK
  <2>8. CASE DeleteNode
    BY <2>8 DEF DeleteNode, NodeStatement, TypeOK
  <2>9. CASE RenameNode
    <3>1. \A t \in Tasks, n, m \in Nodes :
            OnNode(t, n) => [row[t] EXCEPT !.cfg.node = m] \in Row
      BY DEF OnNode, TypeOK, Row, Config
    <3> QED BY <2>9, <3>1 DEF RenameNode, NodeStatement, TypeOK
  <2>10. CASE UNCHANGED vars
    BY <2>10 DEF vars, TypeOK
  <2> QED
    BY <2>2, <2>3, <2>4, <2>5, <2>6, <2>7, <2>8, <2>9, <2>10 DEF Next
<1> QED
  BY <1>1, <1>2, PTL DEF Spec

-----------------------------------------------------------------------------
(* The acknowledged outcomes, when edits and restarts have a task to        *)
(* themselves.                                                              *)

Discipline == {"edit", "restart"} \subseteq Exclusive

HandlerOK(q) ==
  LabelsMatch(req[q]) /\ InsertPending(q) /\ SchedulerKnown(req[q]) /\ RowKnown(req[q])

(* While one handler has a task in hand, the others that have it too only
   stop or delete it; with an edit or a restart there is no other. *)
LEMMA Alone ==
  ASSUME Discipline, TypeOK, Coherent, NEW r \in Requests, NEW q \in Requests \ {r},
         NEW t \in req[r].todo, t \in req[q].todo
  PROVE  /\ req[r].at \notin {"insert", "check", "update", "write", "read", "start", "unpause"}
         /\ req[q].at \notin {"insert", "check", "update", "write", "read", "start", "unpause"}
<1>1. req[r].op \notin {"edit", "restart"} /\ req[q].op \notin {"edit", "restart"}
  BY DEF Discipline, Coherent, OneAtATime
<1>2. req[r].at # "insert" /\ req[q].at # "insert"
  BY DEF Coherent, InsertPending
<1>3. LabelsMatch(req[r]) /\ LabelsMatch(req[q])
  BY DEF Coherent
<1> QED BY <1>1, <1>2, <1>3 DEF LabelsMatch

(* A step that works on one task leaves what the other handlers know intact. *)
LEMMA OthersKept ==
  ASSUME Discipline, TypeOK, Coherent, NEW r \in Requests, NEW t \in Tasks,
         \A q \in Requests \ {r} : req'[q] = req[q],
         \A u \in Tasks \ {t} : sched'[u] = sched[u] /\ row'[u] = row[u],
         req'[r].todo \subseteq req[r].todo \cup {t},
         seen' \subseteq seen \cup {t},
         \A q \in Requests \ {r} : t \in req[q].todo =>
           /\ sched'[t] \in {NoJob, sched[t]}
           /\ req[q].at \notin {"insert", "check", "update", "write", "read", "start", "unpause"},
         NEW q \in Requests \ {r}
  PROVE  HandlerOK(q)'
<1>1. HandlerOK(q) /\ WellFormed(req[q]) /\ req'[q] = req[q]
  BY DEF Coherent, HandlerOK, TypeOK
<1>2. req[q].at \notin {"idle", "new", "item"} => req[q].task \in req[q].todo /\ req[q].task \in Tasks
  BY <1>1 DEF WellFormed, Handler
<1>3. LabelsMatch(req[q])'
  BY <1>1 DEF HandlerOK, LabelsMatch
<1>4. InsertPending(q)'
  BY <1>1, <1>2 DEF HandlerOK, InsertPending
<1>5. SchedulerKnown(req[q])'
  BY <1>1, <1>2 DEF HandlerOK, SchedulerKnown
<1>6. RowKnown(req[q])'
  BY <1>1, <1>2 DEF HandlerOK, RowKnown
<1> QED BY <1>3, <1>4, <1>5, <1>6 DEF HandlerOK

LEMMA OneAtATimeKept ==
  ASSUME TypeOK, OneAtATime, NEW r \in Requests,
         \A q \in Requests \ {r} : req'[q] = req[q],
         req'[r].todo \subseteq req[r].todo,
         req'[r].op = req[r].op \/ req'[r].todo = {}
  PROVE  OneAtATime'
  BY DEF OneAtATime

(* The slot after a handler has returned, or has finished a task. *)
LEMMA ReturnSlot ==
  ASSUME TypeOK, NEW r \in Requests, Return(r)
  PROVE  /\ req'[r] = IdleReq
         /\ req'[r].at = "idle" /\ req'[r].todo = {}
         /\ \A q \in Requests \ {r} : req'[q] = req[q]
  BY DEF Return, Become, TypeOK, IdleReq

LEMMA FinishItemSlot ==
  ASSUME TypeOK, NEW r \in Requests, FinishItem(r)
  PROVE  /\ req'[r].at \in {"idle", "item"}
         /\ req'[r].todo \subseteq req[r].todo
         /\ req'[r].op = req[r].op \/ req'[r].todo = {}
         /\ \A q \in Requests \ {r} : req'[q] = req[q]
<1>1. CASE Return(r)
  BY <1>1, ReturnSlot
<1>2. CASE ~Return(r)
  <2> DEFINE rest == req[r].todo \ {req[r].task}
             h == [req[r] EXCEPT !.at = "item", !.task = NoTask, !.todo = rest]
  <2>1. Become(r, h)
    BY <1>2 DEF FinishItem
  <2>2. req'[r] = h /\ \A q \in Requests \ {r} : req'[q] = req[q]
    BY <2>1 DEF Become, TypeOK
  <2>3. req[r] \in Handler
    BY DEF TypeOK
  <2>4. h.at = "item" /\ h.todo = rest /\ h.op = req[r].op
    BY <2>3 DEF Handler
  <2> QED BY <2>2, <2>4
<1> QED BY <1>1, <1>2

LEMMA StepSlot ==
  ASSUME TypeOK, NEW r \in Requests, NEW label, Step(r, label)
  PROVE  /\ req'[r] = [req[r] EXCEPT !.at = label]
         /\ req'[r].at = label
         /\ req'[r].op = req[r].op
         /\ req'[r].todo = req[r].todo /\ req'[r].task = req[r].task
         /\ req'[r].cfg = req[r].cfg /\ req'[r].paused = req[r].paused
         /\ \A q \in Requests \ {r} : req'[q] = req[q]
  BY DEF Step, Become, TypeOK, Handler

LEMMA BecomeSlot ==
  ASSUME TypeOK, NEW r \in Requests, NEW h, Become(r, h)
  PROVE  req'[r] = h /\ \A q \in Requests \ {r} : req'[q] = req[q]
  BY DEF Become, TypeOK

(* The parts of Coherent that speak of the tables and the scheduler. *)
TablesOK ==
  KnownTasksOnly /\ DownMeansEmpty /\ JobsSchedulable
    /\ StopHolds /\ DeleteHolds /\ BootNeverRefused

LEMMA CoherentParts ==
  Coherent <=> OneAtATime /\ (\A q \in Requests : HandlerOK(q)) /\ TablesOK
  BY DEF Coherent, HandlerOK, TablesOK

(* A handler that is not past its form, or is between two tasks, knows
   nothing yet. *)
LEMMA NothingKnown ==
  ASSUME NEW r \in Requests, req'[r].at \in {"idle", "new", "item", "remove"}
  PROVE  HandlerOK(r)'
  BY DEF HandlerOK, LabelsMatch, InsertPending, SchedulerKnown, RowKnown

(* All a stop or a delete knows is that the task has no job any more. *)
LEMMA NoJobKnown ==
  ASSUME NEW r \in Requests, req'[r].at \in {"pause", "drop"},
         sched'[req'[r].task] = NoJob
  PROVE  HandlerOK(r)'
  BY DEF HandlerOK, LabelsMatch, InsertPending, SchedulerKnown, RowKnown

(* What the UPDATE of one column leaves. *)
LEMMA PausedRow ==
  ASSUME TypeOK, NEW t \in Tasks, NEW p \in BOOLEAN
  PROVE  /\ row[t] = NoRow => WithPaused(t, p) = NoRow
         /\ row[t] # NoRow => /\ row[t] \in Row /\ WithPaused(t, p) \in Row
                              /\ WithPaused(t, p) # NoRow
                              /\ WithPaused(t, p).cfg = row[t].cfg
                              /\ WithPaused(t, p).paused = p
<1>1. row[t] # NoRow => row[t] \in Row
  BY DEF TypeOK
<1>2. ASSUME NEW w \in Row
      PROVE  /\ [w EXCEPT !.paused = p] \in Row
             /\ [w EXCEPT !.paused = p].cfg = w.cfg
             /\ [w EXCEPT !.paused = p].paused = p
  BY DEF Row
<1> QED BY <1>1, <1>2 DEF WithPaused

(* Every operation begins alike: with tasks the client has seen, if any. *)
BeginsWith(r, op, ts, h) ==
  /\ Begin(r, op, ts, h)
  /\ h.op = op /\ h.todo = ts
  /\ \/ h.at \in {"new", "item", "remove"}
     \/ h.at = "check" /\ op = "edit"
     \/ h.at = "read" /\ op = "restart"

LEMMA BeginsAlike ==
  ASSUME TypeOK, NEW r \in Requests, Begins(r)
  PROVE  \E op \in OpNames, ts \in SUBSET seen, h \in Handler : BeginsWith(r, op, ts, h)
<1>1. CASE BeginCreate(r)
  <2> PICK c \in Parsable, ns \in SUBSET Nodes, n \in Nodes :
        n \in ns /\ Begin(r, "create", {}, [IdleReq EXCEPT !.op = "create", !.at = "new",
                                !.cfg = [cron |-> c, node |-> n], !.targets = ns \ {n}])
    BY <1>1 DEF BeginCreate
  <2> DEFINE h == [IdleReq EXCEPT !.op = "create", !.at = "new",
                   !.cfg = [cron |-> c, node |-> n], !.targets = ns \ {n}]
  <2>1. h \in Handler /\ h.op = "create" /\ h.at = "new" /\ h.todo = {}
    BY DEF Handler, IdleReq, OpNames, Labels, Config
  <2>2. BeginsWith(r, "create", {}, h)
    BY <2>1 DEF BeginsWith
  <2> QED BY <2>1, <2>2 DEF OpNames
<1>2. ASSUME NEW op \in {"stop", "delete", "restart"}, NEW label \in {"remove", "read"},
             BeginOne(r, op, label), label = "read" => op = "restart"
      PROVE  \E o \in OpNames, ts \in SUBSET seen, h \in Handler : BeginsWith(r, o, ts, h)
  <2> PICK t \in seen :
        Begin(r, op, {t}, [IdleReq EXCEPT !.op = op, !.at = label, !.task = t, !.todo = {t}])
    BY <1>2 DEF BeginOne
  <2> DEFINE h == [IdleReq EXCEPT !.op = op, !.at = label, !.task = t, !.todo = {t}]
  <2>1. t \in Tasks
    BY DEF TypeOK
  <2>2. h \in Handler /\ h.op = op /\ h.at = label /\ h.todo = {t}
    BY <2>1 DEF Handler, IdleReq, OpNames, Labels
  <2>3. BeginsWith(r, op, {t}, h)
    BY <1>2, <2>2 DEF BeginsWith
  <2> QED BY <2>2, <2>3 DEF OpNames
<1>3. ASSUME NEW op \in {"bulkStop", "bulkDelete"}, BeginBulk(r, op)
      PROVE  \E o \in OpNames, ts \in SUBSET seen, h \in Handler : BeginsWith(r, o, ts, h)
  <2> PICK ts \in (SUBSET seen) \ {{}} :
        Begin(r, op, ts, [IdleReq EXCEPT !.op = op, !.at = "item", !.todo = ts])
    BY <1>3 DEF BeginBulk
  <2> DEFINE h == [IdleReq EXCEPT !.op = op, !.at = "item", !.todo = ts]
  <2>1. ts \subseteq Tasks
    BY DEF TypeOK
  <2>2. h \in Handler /\ h.op = op /\ h.at = "item" /\ h.todo = ts
    BY <2>1 DEF Handler, IdleReq, OpNames, Labels
  <2>3. BeginsWith(r, op, ts, h)
    BY <2>2 DEF BeginsWith
  <2> QED BY <2>2, <2>3 DEF OpNames
<1>4. CASE BeginEdit(r)
  <2> PICK t \in seen, c \in Parsable, n \in Nodes :
        Begin(r, "edit", {t}, [IdleReq EXCEPT !.op = "edit", !.at = "check", !.task = t,
                               !.todo = {t}, !.cfg = [cron |-> c, node |-> n]])
    BY <1>4 DEF BeginEdit
  <2> DEFINE h == [IdleReq EXCEPT !.op = "edit", !.at = "check", !.task = t,
                   !.todo = {t}, !.cfg = [cron |-> c, node |-> n]]
  <2>1. t \in Tasks /\ [cron |-> c, node |-> n] \in Config
    BY DEF TypeOK, Config
  <2>2. h \in Handler /\ h.op = "edit" /\ h.at = "check" /\ h.todo = {t}
    BY <2>1 DEF Handler, IdleReq, OpNames, Labels
  <2>3. BeginsWith(r, "edit", {t}, h)
    BY <2>2 DEF BeginsWith
  <2> QED BY <2>2, <2>3 DEF OpNames
<1> QED BY <1>1, <1>2, <1>3, <1>4 DEF Begins

LEMMA BeginCoherent ==
  ASSUME Discipline, TypeOK, TypeOK', Coherent, NEW r \in Requests, Begins(r)
  PROVE  Coherent'
<1>1. PICK op \in OpNames, ts \in SUBSET seen, h \in Handler : BeginsWith(r, op, ts, h)
  BY BeginsAlike
<1>2. /\ req'[r] = h
      /\ \A q \in Requests \ {r} : req'[q] = req[q]
      /\ UNCHANGED <<row, sched, nodes, server, seen, told>>
      /\ server = "up"
      /\ Admitted(op, ts)
  BY <1>1 DEF BeginsWith, Begin, Become, TypeOK
<1>3. OneAtATime'
  <2> SUFFICES ASSUME NEW p \in Requests, NEW q \in Requests,
                      p # q, (req[p].todo \cap req[q].todo)' # {}
               PROVE  req'[p].op \notin Exclusive /\ req'[q].op \notin Exclusive
    BY DEF OneAtATime
  <2>1. CASE p # r /\ q # r
    BY <1>2, <2>1 DEF Coherent, OneAtATime
  <2>2. CASE p = r
    BY <1>1, <1>2, <2>2 DEF Admitted, BeginsWith
  <2>3. CASE q = r
    BY <1>1, <1>2, <2>3 DEF Admitted, BeginsWith
  <2> QED BY <2>1, <2>2, <2>3
<1>4. HandlerOK(r)'
  BY <1>1, <1>2 DEF BeginsWith, HandlerOK, LabelsMatch, InsertPending, SchedulerKnown, RowKnown
<1>5. ASSUME NEW q \in Requests \ {r} PROVE HandlerOK(q)'
  <2>1. HandlerOK(q)
    BY DEF Coherent, HandlerOK
  <2>2. LabelsMatch(req[q])' /\ SchedulerKnown(req[q])' /\ RowKnown(req[q])'
    BY <1>2, <2>1 DEF HandlerOK, LabelsMatch, SchedulerKnown, RowKnown
  <2>3. InsertPending(q)'
    BY <1>1, <1>2, <2>1 DEF BeginsWith, HandlerOK, InsertPending
  <2> QED BY <2>2, <2>3 DEF HandlerOK
<1>6. TablesOK'
  <2>1. KnownTasksOnly'
    BY <1>1, <1>2 DEF BeginsWith, KnownTasksOnly, Coherent
  <2>2. DownMeansEmpty'
    BY <1>2 DEF DownMeansEmpty
  <2>3. JobsSchedulable' /\ StopHolds' /\ DeleteHolds' /\ BootNeverRefused'
    BY <1>2 DEF Coherent, JobsSchedulable, StopHolds, DeleteHolds, BootNeverRefused,
                isTaskRunning, Loaded
  <2> QED BY <2>1, <2>2, <2>3 DEF TablesOK
<1> QED
  BY <1>3, <1>4, <1>5, <1>6 DEF Coherent, HandlerOK, TablesOK

(* A handler that is running proves that the server is. *)
LEMMA WorkingMeansUp ==
  ASSUME TypeOK, Coherent, NEW r \in Requests, req[r].at # "idle"
  PROVE  server = "up"
  BY DEF TypeOK, Coherent, DownMeansEmpty, IdleReq

(* A step that reads, or returns, touches neither the table nor the scheduler. *)
LEMMA SlotOnlyCoherent ==
  ASSUME Discipline, TypeOK, Coherent, NEW r \in Requests,
         server = "up", UNCHANGED <<row, sched, server, seen>>,
         told' \in [Tasks -> {"none", "running", "stopped", "deleted"}],
         \A t \in Tasks : told'[t] \in {told[t], "none"},
         \A q \in Requests \ {r} : req'[q] = req[q],
         req'[r].todo \subseteq req[r].todo,
         req'[r].op = req[r].op \/ req'[r].todo = {},
         req[r].at = "insert" => req'[r].todo = {},
         HandlerOK(r)'
  PROVE  Coherent'
<1>1. OneAtATime'
  BY OneAtATimeKept DEF Coherent
<1>2. ASSUME NEW q \in Requests \ {r} PROVE HandlerOK(q)'
  <2>1. HandlerOK(q)
    BY DEF Coherent, HandlerOK
  <2>2. LabelsMatch(req[q])' /\ SchedulerKnown(req[q])' /\ RowKnown(req[q])'
    BY <2>1 DEF HandlerOK, LabelsMatch, SchedulerKnown, RowKnown
  <2>3. InsertPending(q)'
    BY <2>1 DEF HandlerOK, InsertPending
  <2> QED BY <2>2, <2>3 DEF HandlerOK
<1>3. TablesOK'
  <2>1. KnownTasksOnly'
    BY DEF KnownTasksOnly, Coherent
  <2>2. DownMeansEmpty'
    BY DEF DownMeansEmpty
  <2>3. JobsSchedulable' /\ BootNeverRefused'
    BY DEF Coherent, JobsSchedulable, BootNeverRefused, isTaskRunning, Loaded
  <2>4. StopHolds' /\ DeleteHolds'
    BY DEF Coherent, StopHolds, DeleteHolds, Loaded
  <2> QED BY <2>1, <2>2, <2>3, <2>4 DEF TablesOK
<1> QED
  BY <1>1, <1>2, <1>3 DEF Coherent, HandlerOK, TablesOK

(* The same when the handler returns early. *)
LEMMA ReturnCoherent ==
  ASSUME Discipline, TypeOK, Coherent, NEW r \in Requests, req[r].at # "idle", Return(r),
         UNCHANGED <<row, sched, server, seen>>,
         told' \in [Tasks -> {"none", "running", "stopped", "deleted"}],
         \A t \in Tasks : told'[t] \in {told[t], "none"}
  PROVE  Coherent'
<1>1. HandlerOK(r)'
  BY ReturnSlot DEF HandlerOK, LabelsMatch, InsertPending, SchedulerKnown, RowKnown
<1>2. req'[r].todo = {} /\ \A q \in Requests \ {r} : req'[q] = req[q]
  BY ReturnSlot
<1> QED
  BY <1>1, <1>2, WorkingMeansUp, SlotOnlyCoherent

LEMMA ReadingCoherent ==
  ASSUME Discipline, TypeOK, TypeOK', Coherent, NEW r \in Requests,
         BulkItem(r) \/ EditCheck(r) \/ RestartRead(r)
  PROVE  Coherent'
<1> DEFINE t == req[r].task
<1>0. req[r].at \notin {"idle", "insert"} /\ req[r] \in Handler /\ HandlerOK(r)
  BY DEF BulkItem, EditCheck, RestartRead, TypeOK, Coherent, HandlerOK
<1>1. UNCHANGED <<row, sched, server, seen, told>>
  BY DEF BulkItem, EditCheck, RestartRead
<1>2. told' \in [Tasks -> {"none", "running", "stopped", "deleted"}]
      /\ \A u \in Tasks : told'[u] \in {told[u], "none"}
  BY <1>1 DEF TypeOK
<1>3. CASE Return(r)
  BY <1>0, <1>1, <1>2, <1>3, ReturnCoherent
<1>4. ASSUME NEW u \in Tasks, NEW label \in {"remove", "drop"},
             Become(r, [req[r] EXCEPT !.at = label, !.task = u]),
             label = "drop" => ~isTaskRunning(u)
      PROVE  Coherent'
  <2>1. /\ req'[r].at = label /\ req'[r].task = u
        /\ req'[r].todo = req[r].todo /\ req'[r].op = req[r].op
        /\ \A q \in Requests \ {r} : req'[q] = req[q]
    BY <1>0, <1>4 DEF Become, TypeOK, Handler
  <2>2. HandlerOK(r)'
    BY <1>1, <1>4, <2>1
    DEF HandlerOK, LabelsMatch, InsertPending, SchedulerKnown, RowKnown, isTaskRunning
  <2> QED BY <1>0, <1>1, <1>2, <2>1, <2>2, WorkingMeansUp, SlotOnlyCoherent
<1>5. CASE BulkItem(r)
  <2>1. ASSUME NEW u \in req[r].todo, Become(r, [req[r] EXCEPT !.todo = @ \ {u}])
        PROVE  Coherent'
    <3>1. /\ req'[r].at = "item" /\ req'[r].todo = req[r].todo \ {u}
          /\ req'[r].op = req[r].op
          /\ \A q \in Requests \ {r} : req'[q] = req[q]
      BY <1>0, <1>5, <2>1 DEF BulkItem, Become, TypeOK, Handler
    <3>2. HandlerOK(r)'
      BY <3>1 DEF HandlerOK, LabelsMatch, InsertPending, SchedulerKnown, RowKnown
    <3> QED BY <1>0, <1>1, <1>2, <3>1, <3>2, WorkingMeansUp, SlotOnlyCoherent
  <2>2. req[r].todo \subseteq Tasks
    BY <1>0 DEF Handler
  <2> QED BY <1>3, <1>4, <1>5, <2>1, <2>2 DEF BulkItem
<1>6. CASE EditCheck(r)
  <2>1. /\ req'[r].at = (IF isTaskRunning(t) THEN "update" ELSE "write")
        /\ req'[r].paused = ~isTaskRunning(t) /\ req'[r].task = t
        /\ req'[r].todo = req[r].todo /\ req'[r].op = req[r].op
        /\ \A q \in Requests \ {r} : req'[q] = req[q]
    BY <1>0, <1>6 DEF EditCheck, Become, TypeOK, Handler
  <2>2. req[r].op = "edit"
    BY <1>0, <1>6 DEF EditCheck, HandlerOK, LabelsMatch
  <2>3. HandlerOK(r)'
    BY <1>1, <2>1, <2>2
    DEF HandlerOK, LabelsMatch, InsertPending, SchedulerKnown, RowKnown, isTaskRunning
  <2> QED BY <1>0, <1>1, <1>2, <2>1, <2>3, WorkingMeansUp, SlotOnlyCoherent
<1>7. CASE RestartRead(r) /\ ~Return(r)
  <2> DEFINE h == [req[r] EXCEPT !.at = "start", !.cfg = row[t].cfg]
  <2>0. Become(r, h)
    BY <1>7 DEF RestartRead
  <2>a. /\ h.at = "start" /\ h.cfg = row[t].cfg /\ h.task = t
        /\ h.todo = req[r].todo /\ h.op = req[r].op
    BY <1>0 DEF Handler
  <2>1. /\ req'[r].at = "start" /\ req'[r].cfg = row[t].cfg /\ req'[r].task = t
        /\ req'[r].todo = req[r].todo /\ req'[r].op = req[r].op
        /\ \A q \in Requests \ {r} : req'[q] = req[q]
    BY <2>0, <2>a, BecomeSlot
  <2>2. req[r].op = "restart"
    BY <1>0, <1>7 DEF RestartRead, HandlerOK, LabelsMatch
  <2>3. HandlerOK(r)'
    BY <1>1, <2>1, <2>2
    DEF HandlerOK, LabelsMatch, InsertPending, SchedulerKnown, RowKnown
  <2> QED BY <1>0, <1>1, <1>2, <2>1, <2>3, WorkingMeansUp, SlotOnlyCoherent
<1> QED
  BY <1>3, <1>5, <1>6, <1>7

(* What the tables owe to one task. *)
TaskOK(t) ==
  /\ isTaskRunning(t) => sched[t].cron \in Schedulable
  /\ told[t] = "stopped" => sched[t] = NoJob /\ ~Loaded(t)
  /\ told[t] = "deleted" => sched[t] = NoJob /\ row[t] = NoRow
  /\ Loaded(t) => row[t].cfg.cron \in Schedulable

LEMMA TasksOK ==
  ASSUME Coherent, NEW t \in Tasks
  PROVE  TaskOK(t)
  BY DEF Coherent, TaskOK, JobsSchedulable, StopHolds, DeleteHolds, BootNeverRefused

(* A handler's step on the task it has in hand: what is left to show is what
   the handler itself relies on next, and the state of that task. *)
LEMMA WorkCoherent ==
  ASSUME Discipline, TypeOK, Coherent, NEW r \in Requests, NEW t \in req[r].todo,
         req[r].at \notin {"idle", "insert"},
         UNCHANGED <<server, seen>>,
         \A u \in Tasks \ {t} :
           sched'[u] = sched[u] /\ row'[u] = row[u] /\ told'[u] = told[u],
         sched'[t] \in {NoJob, sched[t]} \/ req[r].op \in {"edit", "restart"},
         \A q \in Requests \ {r} : req'[q] = req[q],
         req'[r].todo \subseteq req[r].todo,
         req'[r].op = req[r].op \/ req'[r].todo = {},
         HandlerOK(r)', TaskOK(t)'
  PROVE  Coherent'
<1>1. t \in Tasks /\ t \in seen /\ req[r].todo \subseteq seen
  BY DEF TypeOK, WellFormed, Handler, Coherent, KnownTasksOnly
<1>2. OneAtATime'
  BY OneAtATimeKept DEF Coherent
<1>3. ASSUME NEW q \in Requests \ {r} PROVE HandlerOK(q)'
  <2>1. ASSUME NEW p \in Requests \ {r}, t \in req[p].todo
        PROVE  /\ sched'[t] \in {NoJob, sched[t]}
               /\ req[p].at \notin {"insert", "check", "update", "write", "read", "start", "unpause"}
    <3>1. req[p].at \notin {"insert", "check", "update", "write", "read", "start", "unpause"}
      BY <2>1, Alone
    <3>2. req[r].op \notin {"edit", "restart"}
      BY <2>1 DEF Coherent, OneAtATime, Discipline
    <3> QED BY <3>1, <3>2
  <2> QED BY <1>1, <2>1, OthersKept
<1>4. KnownTasksOnly'
  <2>1. ASSUME NEW q \in Requests, req'[q].at # "insert" PROVE req'[q].todo \subseteq seen'
    BY <1>1, <2>1 DEF Coherent, KnownTasksOnly
  <2>2. ASSUME NEW u \in Tasks \ seen' PROVE row'[u] = NoRow /\ told'[u] = "none"
    BY <1>1 DEF Coherent, KnownTasksOnly
  <2> QED BY <2>1, <2>2 DEF KnownTasksOnly
<1>5. DownMeansEmpty'
  BY WorkingMeansUp DEF DownMeansEmpty
<1>6. ASSUME NEW u \in Tasks PROVE TaskOK(u)'
  <2>1. CASE u = t
    BY <2>1
  <2>2. CASE u # t
    BY <2>2, TasksOK DEF TaskOK, isTaskRunning, Loaded
  <2> QED BY <2>1, <2>2
<1>7. JobsSchedulable' /\ StopHolds' /\ DeleteHolds' /\ BootNeverRefused'
  BY <1>6 DEF TaskOK, JobsSchedulable, StopHolds, DeleteHolds, BootNeverRefused
<1> QED
  BY <1>2, <1>3, <1>4, <1>5, <1>7 DEF Coherent, HandlerOK, TablesOK

(* stopTask, deleteTask and the bulk actions: a task loses its job first, so
   that whoever finds no job may pause or drop the row. *)
LEMMA RemovingCoherent ==
  ASSUME Discipline, TypeOK, TypeOK', Coherent, NEW r \in Requests,
         RemoveJob(r) \/ PauseRow(r) \/ DropRow(r)
  PROVE  Coherent'
<1>0. /\ req[r].at \in {"remove", "pause", "drop"} /\ HandlerOK(r)
      /\ req[r].task \in req[r].todo /\ req[r].task \in Tasks
  BY DEF RemoveJob, PauseRow, DropRow, TypeOK, WellFormed, Handler, Coherent, HandlerOK
<1> SUFFICES ASSUME NEW t \in Tasks, t = req[r].task
             PROVE  Coherent'
  BY <1>0
<1>t. TaskOK(t)
  BY TasksOK
<1>1. CASE RemoveJob(r) /\ isTaskRunning(t)
  <2>1. /\ UNCHANGED <<row, server, seen>> /\ Step(r, "pause")
        /\ sched'[t] = NoJob /\ told'[t] = "none"
        /\ \A u \in Tasks \ {t} : sched'[u] = sched[u] /\ told'[u] = told[u]
    BY <1>0, <1>1 DEF RemoveJob, TypeOK
  <2>2. /\ req'[r].at = "pause" /\ req'[r].task = t
        /\ req'[r].op = req[r].op /\ req'[r].todo = req[r].todo
        /\ \A q \in Requests \ {r} : req'[q] = req[q]
    BY <2>1, StepSlot
  <2>3. HandlerOK(r)'
    BY <2>1, <2>2, NoJobKnown
  <2>4. TaskOK(t)'
    BY <1>t, <2>1 DEF TaskOK, isTaskRunning, Loaded
  <2> QED BY <1>0, <2>1, <2>2, <2>3, <2>4, WorkCoherent
<1>2. CASE RemoveJob(r) /\ ~isTaskRunning(t)
  <2>1. UNCHANGED <<row, sched, server, seen, told>>
    BY <1>2 DEF RemoveJob
  <2>2. CASE Return(r)
    BY <1>0, <2>1, <2>2, ReturnCoherent DEF TypeOK
  <2>3. CASE Step(r, "drop")
    <3>1. /\ req'[r].at = "drop" /\ req'[r].task = t
          /\ req'[r].op = req[r].op /\ req'[r].todo = req[r].todo
          /\ \A q \in Requests \ {r} : req'[q] = req[q]
      BY <2>3, StepSlot
    <3>2. HandlerOK(r)'
      BY <1>2, <2>1, <3>1, NoJobKnown DEF isTaskRunning
    <3>3. TaskOK(t)'
      BY <1>t, <2>1 DEF TaskOK, isTaskRunning, Loaded
    <3> QED BY <1>0, <2>1, <3>1, <3>2, <3>3, WorkCoherent
  <2> QED BY <1>2, <2>2, <2>3 DEF RemoveJob
<1>3. CASE PauseRow(r)
  <2>1. /\ UNCHANGED <<sched, server, seen>>
        /\ row'[t] = WithPaused(t, TRUE) /\ told'[t] \in {told[t], "stopped"}
        /\ \A u \in Tasks \ {t} : row'[u] = row[u] /\ told'[u] = told[u]
    BY <1>0, <1>3 DEF PauseRow, TypeOK
  <2>2. sched[t] = NoJob
    BY <1>0, <1>3 DEF PauseRow, HandlerOK, SchedulerKnown
  <2>3. ~Loaded(t)' /\ (row[t] = NoRow => row'[t] = NoRow)
    BY <2>1, PausedRow DEF Loaded
  <2>4. TaskOK(t)'
    BY <1>t, <2>1, <2>2, <2>3 DEF TaskOK, isTaskRunning
  <2>5. CASE Step(r, "drop")
    <3>1. /\ req'[r].at = "drop" /\ req'[r].task = t
          /\ req'[r].op = req[r].op /\ req'[r].todo = req[r].todo
          /\ \A q \in Requests \ {r} : req'[q] = req[q]
      BY <2>5, StepSlot
    <3>2. HandlerOK(r)'
      BY <2>1, <2>2, <3>1, NoJobKnown
    <3> QED BY <1>0, <2>1, <2>4, <3>1, <3>2, WorkCoherent
  <2>6. CASE FinishItem(r)
    <3>1. HandlerOK(r)'
      BY <2>6, FinishItemSlot, NothingKnown
    <3>2. /\ req'[r].todo \subseteq req[r].todo
          /\ req'[r].op = req[r].op \/ req'[r].todo = {}
          /\ \A q \in Requests \ {r} : req'[q] = req[q]
      BY <2>6, FinishItemSlot
    <3> QED BY <1>0, <2>1, <2>4, <3>1, <3>2, WorkCoherent
  <2> QED BY <1>3, <2>5, <2>6 DEF PauseRow
<1>4. CASE DropRow(r)
  <2>1. /\ UNCHANGED <<sched, server, seen>> /\ FinishItem(r)
        /\ row'[t] = NoRow /\ told'[t] = "deleted"
        /\ \A u \in Tasks \ {t} : row'[u] = row[u] /\ told'[u] = told[u]
    BY <1>0, <1>4 DEF DropRow, TypeOK
  <2>2. sched[t] = NoJob
    BY <1>0, <1>4 DEF DropRow, HandlerOK, SchedulerKnown
  <2>3. TaskOK(t)'
    BY <2>1, <2>2 DEF TaskOK, isTaskRunning, Loaded
  <2>4. HandlerOK(r)'
    BY <2>1, FinishItemSlot, NothingKnown
  <2>5. /\ req'[r].todo \subseteq req[r].todo
        /\ req'[r].op = req[r].op \/ req'[r].todo = {}
        /\ \A q \in Requests \ {r} : req'[q] = req[q]
    BY <2>1, FinishItemSlot
  <2> QED BY <1>0, <2>1, <2>3, <2>4, <2>5, WorkCoherent
<1> QED
  BY <1>0, <1>1, <1>2, <1>3, <1>4

(* editTask: what the check saw of the scheduler decides the flag, and is
   still true at the write. *)
LEMMA EditingCoherent ==
  ASSUME Discipline, TypeOK, TypeOK', Coherent, NEW r \in Requests,
         EditUpdate(r) \/ EditWrite(r)
  PROVE  Coherent'
<1>0. /\ req[r].at \in {"update", "write"} /\ HandlerOK(r) /\ req[r].op = "edit"
      /\ req[r].task \in req[r].todo /\ req[r].task \in Tasks /\ req[r].cfg \in Config
  BY DEF EditUpdate, EditWrite, TypeOK, WellFormed, Handler, Coherent, HandlerOK, LabelsMatch
<1> SUFFICES ASSUME NEW t \in Tasks, t = req[r].task
             PROVE  Coherent'
  BY <1>0
<1>t. TaskOK(t)
  BY TasksOK
<1>1. CASE EditUpdate(r)
  <2> PICK out \in UpdateOutcomes(sched[t], req[r].cfg) :
        /\ sched' = [sched EXCEPT ![t] = out.job]
        /\ IF out.ok
           THEN Step(r, "write") /\ UNCHANGED told
           ELSE /\ Return(r)
                /\ told' = [told EXCEPT ![t] = IF out.job = sched[t] THEN @ ELSE "none"]
    BY <1>1 DEF EditUpdate
  <2>1. /\ UNCHANGED <<row, server, seen>> /\ sched'[t] = out.job
        /\ told'[t] = IF out.ok \/ out.job = sched[t] THEN told[t] ELSE "none"
        /\ \A u \in Tasks \ {t} : sched'[u] = sched[u] /\ told'[u] = told[u]
    BY <1>1 DEF EditUpdate, TypeOK
  <2>2. sched[t] # NoJob /\ ~req[r].paused
    BY <1>0, <1>1 DEF EditUpdate, HandlerOK, SchedulerKnown
  <2>3. CASE out.ok
    <3>1. out.job = req[r].cfg /\ req[r].cfg.cron \in Schedulable
      BY <2>3, <2>2 DEF UpdateOutcomes
    <3>2. /\ req'[r].at = "write" /\ req'[r].task = t /\ req'[r].cfg = req[r].cfg
          /\ req'[r].op = "edit" /\ req'[r].todo = req[r].todo
          /\ req'[r].paused = req[r].paused
          /\ \A q \in Requests \ {r} : req'[q] = req[q]
      BY <1>0, <2>3, StepSlot
    <3>3. HandlerOK(r)'
      BY <2>1, <2>2, <3>1, <3>2
      DEF HandlerOK, LabelsMatch, InsertPending, SchedulerKnown, RowKnown
    <3>4. TaskOK(t)'
      BY <1>t, <2>1, <2>2, <2>3, <3>1 DEF TaskOK, isTaskRunning, Loaded
    <3> QED BY <1>0, <2>1, <3>2, <3>3, <3>4, WorkCoherent
  <2>4. CASE ~out.ok
    <3>1. out.job \in {sched[t], NoJob}
      BY <2>4 DEF UpdateOutcomes
    <3>2. Return(r)
      BY <2>4
    <3>3. TaskOK(t)'
      BY <1>t, <2>1, <2>2, <2>4, <3>1 DEF TaskOK, isTaskRunning, Loaded
    <3>4. HandlerOK(r)' /\ req'[r].todo = {} /\ \A q \in Requests \ {r} : req'[q] = req[q]
      BY <3>2, ReturnSlot, NothingKnown
    <3> QED BY <1>0, <2>1, <3>3, <3>4, WorkCoherent
  <2> QED BY <2>3, <2>4
<1>2. CASE EditWrite(r)
  <2>0. Return(r) /\ UNCHANGED <<sched, server, seen>>
    BY <1>2 DEF EditWrite
  <2>1. HandlerOK(r)' /\ req'[r].todo = {} /\ \A q \in Requests \ {r} : req'[q] = req[q]
    BY <2>0, ReturnSlot, NothingKnown
  <2>2. sched[t] = IF req[r].paused THEN NoJob ELSE req[r].cfg
    BY <1>0, <1>2 DEF EditWrite, HandlerOK, SchedulerKnown
  <2>3. CASE row[t] = NoRow /\ UNCHANGED <<row, told>>
    <3>1. TaskOK(t)'
      BY <1>t, <2>0, <2>3 DEF TaskOK, isTaskRunning, Loaded
    <3> QED BY <1>0, <2>0, <2>1, <2>3, <3>1, WorkCoherent
  <2>4. CASE row' = [row EXCEPT ![t] = [cfg |-> req[r].cfg, paused |-> req[r].paused]]
             /\ UNCHANGED told /\ row[t] # NoRow
    <3>1. /\ row'[t].cfg = req[r].cfg /\ row'[t].paused = req[r].paused
          /\ \A u \in Tasks \ {t} : row'[u] = row[u]
      BY <2>4 DEF TypeOK
    <3>2. CASE req[r].paused
      <4>1. ~Loaded(t)'
        BY <3>1, <3>2 DEF Loaded
      <4>2. TaskOK(t)'
        BY <1>t, <2>0, <2>4, <4>1 DEF TaskOK, isTaskRunning
      <4> QED BY <1>0, <2>0, <2>1, <2>4, <3>1, <4>2, WorkCoherent
    <3>3. CASE ~req[r].paused
      <4>1. sched[t] = req[r].cfg /\ sched[t] # NoJob
        BY <1>0, <2>2, <3>3
      <4>2. TaskOK(t)'
        BY <1>t, <2>0, <2>4, <3>1, <4>1 DEF TaskOK, isTaskRunning, Loaded
      <4> QED BY <1>0, <2>0, <2>1, <2>4, <3>1, <4>2, WorkCoherent
    <3> QED BY <3>2, <3>3
  <2>5. CASE told' = [told EXCEPT ![t] = IF req[r].paused THEN @ ELSE "none"] /\ UNCHANGED row
    <3>1. \A u \in Tasks : told'[u] \in {told[u], "none"}
      BY <2>5 DEF TypeOK
    <3>2. told' \in [Tasks -> {"none", "running", "stopped", "deleted"}]
      BY DEF TypeOK
    <3> QED BY <1>0, <2>0, <2>5, <3>1, <3>2, ReturnCoherent
  <2>6. row[t] = NoRow => [row EXCEPT ![t] = NoRow] = row
    BY DEF TypeOK
  <2> QED BY <1>2, <2>3, <2>4, <2>5, <2>6 DEF EditWrite
<1> QED
  BY <1>0, <1>1, <1>2

(* restartTask: the row it read may have been deleted since, but not edited. *)
LEMMA RestartingCoherent ==
  ASSUME Discipline, TypeOK, TypeOK', Coherent, NEW r \in Requests,
         RestartJob(r) \/ RestartUnpause(r)
  PROVE  Coherent'
<1>0. /\ req[r].at \in {"start", "unpause"} /\ HandlerOK(r) /\ req[r].op = "restart"
      /\ req[r].task \in req[r].todo /\ req[r].task \in Tasks /\ req[r].cfg \in Config
  BY DEF RestartJob, RestartUnpause, TypeOK, WellFormed, Handler, Coherent, HandlerOK,
         LabelsMatch
<1> SUFFICES ASSUME NEW t \in Tasks, t = req[r].task
             PROVE  Coherent'
  BY <1>0
<1>t. TaskOK(t)
  BY TasksOK
<1>1. CASE RestartJob(r) /\ req[r].cfg.cron \in Schedulable
  <2>1. /\ UNCHANGED <<row, server, seen>> /\ Step(r, "unpause")
        /\ sched'[t] = req[r].cfg /\ told'[t] = "none"
        /\ \A u \in Tasks \ {t} : sched'[u] = sched[u] /\ told'[u] = told[u]
    BY <1>1 DEF RestartJob, NewJob, TypeOK
  <2>2. /\ req'[r].at = "unpause" /\ req'[r].task = t /\ req'[r].cfg = req[r].cfg
        /\ req'[r].op = "restart" /\ req'[r].todo = req[r].todo
        /\ \A q \in Requests \ {r} : req'[q] = req[q]
    BY <1>0, <2>1, StepSlot
  <2>3. HandlerOK(r)'
    BY <1>0, <2>1, <2>2
    DEF HandlerOK, LabelsMatch, InsertPending, SchedulerKnown, RowKnown
  <2>4. TaskOK(t)'
    BY <1>t, <1>1, <2>1 DEF TaskOK, isTaskRunning, Loaded
  <2> QED BY <1>0, <2>1, <2>2, <2>3, <2>4, WorkCoherent
<1>2. CASE RestartJob(r) /\ req[r].cfg.cron \notin Schedulable
  BY <1>0, <1>2, ReturnCoherent DEF RestartJob, TypeOK
<1>3. CASE RestartUnpause(r)
  <2>1. /\ UNCHANGED <<sched, server, seen>> /\ Return(r)
        /\ row'[t] = WithPaused(t, FALSE) /\ told'[t] = "running"
        /\ \A u \in Tasks \ {t} : row'[u] = row[u] /\ told'[u] = told[u]
    BY <1>3 DEF RestartUnpause, TypeOK
  <2>2. sched[t] = req[r].cfg /\ sched[t] # NoJob
    BY <1>0, <1>3 DEF RestartUnpause, HandlerOK, SchedulerKnown
  <2>3. row[t] # NoRow => row[t].cfg.cron = req[r].cfg.cron
    BY <1>0, <1>3 DEF RestartUnpause, HandlerOK, RowKnown
  <2>4. row'[t] # NoRow => row'[t].cfg.cron = req[r].cfg.cron
    BY <2>1, <2>3, PausedRow
  <2>5. TaskOK(t)'
    BY <1>t, <2>1, <2>2, <2>4 DEF TaskOK, isTaskRunning, Loaded
  <2>6. HandlerOK(r)' /\ req'[r].todo = {} /\ \A q \in Requests \ {r} : req'[q] = req[q]
    BY <2>1, ReturnSlot, NothingKnown
  <2> QED BY <1>0, <2>1, <2>5, <2>6, WorkCoherent
<1> QED
  BY <1>0, <1>1, <1>2, <1>3

LEMMA DatabaseFailsCoherent ==
  ASSUME Discipline, TypeOK, TypeOK', Coherent, NEW r \in Requests, DatabaseFails(r)
  PROVE  Coherent'
<1>1. req[r].at # "idle" /\ Return(r) /\ UNCHANGED <<row, sched, server, seen>>
  BY DEF DatabaseFails
<1>2. \A t \in Tasks : told'[t] \in {told[t], "none"}
  BY DEF DatabaseFails, TypeOK
<1>3. told' \in [Tasks -> {"none", "running", "stopped", "deleted"}]
  BY DEF TypeOK
<1> QED BY <1>1, <1>2, <1>3, ReturnCoherent

(* createNewTask: the job exists before the row, under a UUID nobody knows. *)
LEMMA CreateJobCoherent ==
  ASSUME Discipline, TypeOK, TypeOK', Coherent, NEW r \in Requests, CreateJob(r)
  PROVE  Coherent'
<1>0. /\ req[r].at = "new" /\ req[r] \in Handler /\ req[r].cfg \in Config
      /\ UNCHANGED <<row, server, seen, told>>
  BY DEF CreateJob, TypeOK, WellFormed
<1>1. CASE Return(r) /\ UNCHANGED sched
  BY <1>0, <1>1, ReturnCoherent DEF TypeOK
<1>2. ASSUME NEW t \in Tasks, Fresh(t), NewJob(t, req[r].cfg), req[r].cfg.cron \in Schedulable,
             Become(r, [req[r] EXCEPT !.at = "insert", !.task = t, !.todo = {t}])
      PROVE  Coherent'
  <2> DEFINE h == [req[r] EXCEPT !.at = "insert", !.task = t, !.todo = {t}]
  <2>1. /\ h.at = "insert" /\ h.task = t /\ h.todo = {t} /\ h.cfg = req[r].cfg
        /\ h.op = req[r].op
    BY <1>0 DEF Handler
  <2>2. req'[r] = h /\ \A q \in Requests \ {r} : req'[q] = req[q]
    BY <1>2, BecomeSlot
  <2>3. sched'[t] = req[r].cfg /\ \A u \in Tasks \ {t} : sched'[u] = sched[u]
    BY <1>2 DEF NewJob, TypeOK
  <2>4. t \notin seen /\ \A q \in Requests : t \notin req[q].todo
    BY <1>2 DEF Fresh, Quiet, Touches
  <2>5. row[t] = NoRow /\ told[t] = "none"
    BY <2>4 DEF Coherent, KnownTasksOnly
  <2> HIDE DEF h
  <2>6. OneAtATime'
    BY <2>1, <2>2, <2>4 DEF Coherent, OneAtATime
  <2>7. HandlerOK(r)'
    BY <1>0, <2>1, <2>2, <2>3, <2>4
    DEF HandlerOK, LabelsMatch, InsertPending, SchedulerKnown, RowKnown
  <2>8. ASSUME NEW q \in Requests \ {r} PROVE HandlerOK(q)'
    <3>1. req'[r].todo \subseteq req[r].todo \cup {t}
      BY <2>1, <2>2
    <3> QED BY <1>0, <2>2, <2>3, <2>4, <3>1, OthersKept
  <2>9. KnownTasksOnly'
    BY <1>0, <2>1, <2>2 DEF Coherent, KnownTasksOnly
  <2>10. DownMeansEmpty'
    BY <1>0, WorkingMeansUp DEF DownMeansEmpty
  <2>11. JobsSchedulable' /\ StopHolds' /\ DeleteHolds' /\ BootNeverRefused'
    BY <1>0, <1>2, <2>3, <2>5
    DEF Coherent, JobsSchedulable, StopHolds, DeleteHolds, BootNeverRefused, isTaskRunning, Loaded
  <2> QED BY <2>6, <2>7, <2>8, <2>9, <2>10, <2>11 DEF Coherent, HandlerOK
<1> QED BY <1>1, <1>2 DEF CreateJob

LEMMA NextNodeSlot ==
  ASSUME TypeOK, NEW r \in Requests, NextNode(r)
  PROVE  /\ req'[r].at \in {"idle", "new"} /\ req'[r].todo = {}
         /\ \A q \in Requests \ {r} : req'[q] = req[q]
<1>1. CASE Return(r)
  BY <1>1, ReturnSlot
<1>2. ASSUME NEW n \in req[r].targets,
             Become(r, [req[r] EXCEPT !.at = "new", !.task = NoTask, !.todo = {},
                                  !.cfg = [cron |-> req[r].cfg.cron, node |-> n],
                                  !.targets = @ \ {n}])
      PROVE  /\ req'[r].at \in {"idle", "new"} /\ req'[r].todo = {}
             /\ \A q \in Requests \ {r} : req'[q] = req[q]
  <2> DEFINE h == [req[r] EXCEPT !.at = "new", !.task = NoTask, !.todo = {},
                                  !.cfg = [cron |-> req[r].cfg.cron, node |-> n],
                                  !.targets = @ \ {n}]
  <2>1. h.at = "new" /\ h.todo = {}
    BY DEF TypeOK, Handler
  <2>2. req'[r] = h /\ \A q \in Requests \ {r} : req'[q] = req[q]
    BY <1>2, BecomeSlot
  <2> QED BY <2>1, <2>2
<1> QED BY <1>1, <1>2 DEF NextNode

LEMMA CreateInsertCoherent ==
  ASSUME Discipline, TypeOK, TypeOK', Coherent, NEW r \in Requests, CreateInsert(r)
  PROVE  Coherent'
<1>0. /\ req[r].at = "insert" /\ req[r] \in Handler /\ req[r].cfg \in Config
      /\ UNCHANGED <<sched, server>> /\ HandlerOK(r)
      /\ req[r].task \in req[r].todo /\ req[r].task \in Tasks
  BY DEF CreateInsert, TypeOK, WellFormed, Handler, Coherent, HandlerOK
<1> SUFFICES ASSUME NEW t \in Tasks, t = req[r].task
             PROVE  Coherent'
  BY <1>0
<1>1. /\ req[r].todo = {t} /\ t \notin seen /\ sched[t] = req[r].cfg
      /\ \A q \in Requests \ {r} : t \notin req[q].todo
  BY <1>0 DEF HandlerOK, InsertPending
<1>2. CASE Return(r) /\ UNCHANGED <<row, seen, told>>
  BY <1>0, <1>2, ReturnCoherent DEF TypeOK
<1>3. CASE /\ InsertTask(t, req[r].cfg, FALSE)
           /\ told' = [told EXCEPT ![t] = "running"]
           /\ NextNode(r)
  <2>1. /\ row'[t].cfg = req[r].cfg /\ told'[t] = "running" /\ seen' = seen \cup {t}
        /\ \A u \in Tasks \ {t} : row'[u] = row[u] /\ told'[u] = told[u]
    BY <1>3 DEF InsertTask, TypeOK
  <2>2. /\ req'[r].at \in {"idle", "new"} /\ req'[r].todo = {}
        /\ \A q \in Requests \ {r} : req'[q] = req[q]
    BY <1>3, NextNodeSlot
  <2>3. OneAtATime'
    BY <2>2, OneAtATimeKept DEF Coherent
  <2>4. HandlerOK(r)'
    BY <2>2, NothingKnown
  <2>5. ASSUME NEW q \in Requests \ {r} PROVE HandlerOK(q)'
    BY <1>0, <1>1, <2>1, <2>2, OthersKept
  <2>6. KnownTasksOnly'
    <3>1. ASSUME NEW q \in Requests, req'[q].at # "insert" PROVE req'[q].todo \subseteq seen'
      BY <2>1, <2>2, <3>1 DEF Coherent, KnownTasksOnly
    <3>2. ASSUME NEW u \in Tasks \ seen' PROVE row'[u] = NoRow /\ told'[u] = "none"
      BY <2>1 DEF Coherent, KnownTasksOnly
    <3> QED BY <3>1, <3>2 DEF KnownTasksOnly
  <2>7. DownMeansEmpty'
    BY <1>0, WorkingMeansUp DEF DownMeansEmpty
  <2>8. ASSUME NEW u \in Tasks PROVE TaskOK(u)'
    <3>1. CASE u = t
      <4>1. TaskOK(t)
        BY TasksOK
      <4>2. req[r].cfg.cron \in Schedulable
        BY <1>0, <1>1, <4>1 DEF TaskOK, isTaskRunning
      <4> QED BY <1>0, <1>1, <2>1, <3>1, <4>2 DEF TaskOK, isTaskRunning, Loaded
    <3>2. CASE u # t
      BY <1>0, <2>1, <3>2, TasksOK DEF TaskOK, isTaskRunning, Loaded
    <3> QED BY <3>1, <3>2
  <2>9. JobsSchedulable' /\ StopHolds' /\ DeleteHolds' /\ BootNeverRefused'
    BY <2>8 DEF TaskOK, JobsSchedulable, StopHolds, DeleteHolds, BootNeverRefused
  <2> QED BY <2>3, <2>4, <2>5, <2>6, <2>7, <2>9 DEF Coherent, HandlerOK
<1> QED BY <1>2, <1>3 DEF CreateInsert

(* Steps that no handler takes: the slots keep their state. *)
LEMMA ImportCoherent ==
  ASSUME Discipline, TypeOK, TypeOK', Coherent, ImportTask
  PROVE  Coherent'
<1> PICK t \in Tasks, c \in Config, fk \in FkModes :
      Fresh(t) /\ InsertTask(t, c, TRUE) /\ told' = [told EXCEPT ![t] = "stopped"]
  BY DEF ImportTask
<1>0. UNCHANGED <<sched, server, req>> /\ server = "up"
  BY DEF ImportTask
<1>1. t \notin seen /\ sched[t] = NoJob /\ \A q \in Requests : t \notin req[q].todo
  BY DEF Fresh, Quiet, Touches
<1>2. /\ row'[t] # NoRow /\ row'[t].paused /\ told'[t] = "stopped" /\ seen' = seen \cup {t}
      /\ \A u \in Tasks \ {t} : row'[u] = row[u] /\ told'[u] = told[u]
  <2>1. [cfg |-> c, paused |-> TRUE] \in Row
    BY DEF Row
  <2> QED BY <2>1 DEF InsertTask, TypeOK
<1>3. ASSUME NEW q \in Requests PROVE HandlerOK(q)'
  <2>1. HandlerOK(q) /\ WellFormed(req[q])
    BY DEF Coherent, HandlerOK, TypeOK
  <2>2. req[q].at \notin {"idle", "new", "item"} => req[q].task \in Tasks \ {t}
    BY <1>1, <2>1 DEF WellFormed, Handler
  <2> QED BY <1>0, <1>2, <2>1, <2>2
          DEF HandlerOK, LabelsMatch, InsertPending, SchedulerKnown, RowKnown
<1>4. OneAtATime' /\ DownMeansEmpty'
  BY <1>0 DEF Coherent, OneAtATime, DownMeansEmpty
<1>5. KnownTasksOnly'
  BY <1>0, <1>2 DEF Coherent, KnownTasksOnly
<1>6. ASSUME NEW u \in Tasks PROVE TaskOK(u)'
  <2>1. CASE u = t
    BY <1>0, <1>1, <1>2, <2>1 DEF TaskOK, isTaskRunning, Loaded
  <2>2. CASE u # t
    BY <1>0, <1>2, <2>2, TasksOK DEF TaskOK, isTaskRunning, Loaded
  <2> QED BY <2>1, <2>2
<1>7. JobsSchedulable' /\ StopHolds' /\ DeleteHolds' /\ BootNeverRefused'
  BY <1>6 DEF TaskOK, JobsSchedulable, StopHolds, DeleteHolds, BootNeverRefused
<1> QED BY <1>3, <1>4, <1>5, <1>7 DEF Coherent, HandlerOK

(* Across a crash the tables alone carry the outcomes; the next start makes
   the scheduler of them. *)
LEMMA RestartOfServerCoherent ==
  ASSUME TypeOK, Coherent, Crash \/ Boot
  PROVE  Coherent'
<1>1. /\ UNCHANGED <<row, seen, told>>
      /\ \A r \in Requests : req'[r] = IdleReq
      /\ \A t \in Tasks : \/ sched'[t] = NoJob
                          \/ /\ sched'[t] = row[t].cfg /\ Loaded(t)
                             /\ sched'[t].cron \in Schedulable
      /\ server' = "down" => \A t \in Tasks : sched'[t] = NoJob
  <2>1. CASE Crash
    BY <2>1 DEF Crash
  <2>2. CASE Boot
    BY <2>2 DEF Boot, Coherent, DownMeansEmpty
  <2> QED BY <2>1, <2>2
<1>2. \A r \in Requests : req'[r].todo = {} /\ req'[r].at = "idle"
  BY <1>1 DEF IdleReq
<1>3. OneAtATime' /\ KnownTasksOnly' /\ DownMeansEmpty'
  BY <1>1, <1>2 DEF Coherent, OneAtATime, KnownTasksOnly, DownMeansEmpty, IdleReq
<1>4. \A r \in Requests : HandlerOK(r)'
  BY <1>2, NothingKnown
<1>5. JobsSchedulable' /\ StopHolds' /\ DeleteHolds' /\ BootNeverRefused'
  BY <1>1 DEF Coherent, JobsSchedulable, StopHolds, DeleteHolds, BootNeverRefused,
              isTaskRunning, Loaded
<1> QED BY <1>3, <1>4, <1>5 DEF Coherent, HandlerOK

(* A change of the nodes table can drop rows and rename the node they name. *)
LEMMA NodesStep ==
  ASSUME TypeOK, AddNode \/ DeleteNode \/ RenameNode
  PROVE  /\ UNCHANGED <<sched, server, req, seen, told>> /\ ~NodesFixed
         /\ \A t \in Tasks :
              \/ row'[t] = NoRow
              \/ /\ row[t] # NoRow /\ row'[t].cfg.cron = row[t].cfg.cron
                 /\ row'[t].paused = row[t].paused
<1>1. UNCHANGED <<sched, server, req, seen, told>> /\ ~NodesFixed
  BY DEF AddNode, DeleteNode, RenameNode, NodeStatement, NodesFixed, TypeOK
<1>2. ASSUME NEW t \in Tasks
      PROVE  \/ row'[t] = NoRow
             \/ /\ row[t] # NoRow /\ row'[t].cfg.cron = row[t].cfg.cron
                /\ row'[t].paused = row[t].paused
  <2>1. CASE AddNode
    BY <2>1 DEF AddNode
  <2>2. CASE DeleteNode
    BY <2>2 DEF DeleteNode
  <2>3. CASE RenameNode
    <3>1. ASSUME NEW w \in Row, NEW m \in Nodes
          PROVE  /\ [w EXCEPT !.cfg.node = m].cfg.cron = w.cfg.cron
                 /\ [w EXCEPT !.cfg.node = m].paused = w.paused
      BY DEF Row, Config
    <3>2. row[t] # NoRow => row[t] \in Row
      BY DEF TypeOK
    <3> QED BY <2>3, <3>1, <3>2 DEF RenameNode, OnNode
  <2> QED BY <2>1, <2>2, <2>3
<1> QED BY <1>1, <1>2

LEMMA NodesCoherent ==
  ASSUME TypeOK, TypeOK', Coherent, AddNode \/ DeleteNode \/ RenameNode
  PROVE  Coherent'
<1>1. UNCHANGED <<sched, server, req, seen, told>>
  BY NodesStep
<1>2. \A t \in Tasks :
        \/ row'[t] = NoRow
        \/ /\ row[t] # NoRow /\ row'[t].cfg.cron = row[t].cfg.cron
           /\ row'[t].paused = row[t].paused
  BY NodesStep
<1>3. OneAtATime' /\ KnownTasksOnly' /\ DownMeansEmpty'
  BY <1>1, <1>2 DEF Coherent, OneAtATime, KnownTasksOnly, DownMeansEmpty
<1>4. ASSUME NEW q \in Requests PROVE HandlerOK(q)'
  <2>1. HandlerOK(q) /\ WellFormed(req[q])
    BY DEF Coherent, HandlerOK, TypeOK
  <2>2. req[q].at \notin {"idle", "new", "item"} => req[q].task \in Tasks
    BY <2>1 DEF WellFormed, Handler
  <2>3. RowKnown(req[q])'
    BY <1>1, <1>2, <2>1, <2>2 DEF HandlerOK, RowKnown
  <2> QED BY <1>1, <2>1, <2>3
          DEF HandlerOK, LabelsMatch, InsertPending, SchedulerKnown
<1>5. ASSUME NEW u \in Tasks PROVE TaskOK(u)'
  <2>1. TaskOK(u)
    BY TasksOK
  <2>2. Loaded(u)' => Loaded(u) /\ row'[u].cfg.cron = row[u].cfg.cron
    BY <1>2 DEF Loaded
  <2>3. row[u] = NoRow => row'[u] = NoRow
    BY <1>2
  <2> QED BY <1>1, <2>1, <2>2, <2>3 DEF TaskOK, isTaskRunning
<1>6. JobsSchedulable' /\ StopHolds' /\ DeleteHolds' /\ BootNeverRefused'
  BY <1>5 DEF TaskOK, JobsSchedulable, StopHolds, DeleteHolds, BootNeverRefused
<1> QED BY <1>3, <1>4, <1>6 DEF Coherent, HandlerOK

(* No edit and no restart overlapping another operation on its task: then
   every step keeps the handlers, the tables and the scheduler coherent. *)
LEMMA CoherentInductive ==
  ASSUME Discipline
  PROVE  Spec => []Coherent
<1>1. Init => Coherent
  <2> SUFFICES ASSUME Init PROVE Coherent
    OBVIOUS
  <2>1. \A r \in Requests : req[r].at = "idle" /\ req[r].todo = {}
    BY DEF Init, IdleReq
  <2>2. \A r \in Requests : LabelsMatch(req[r]) /\ InsertPending(r)
                            /\ SchedulerKnown(req[r]) /\ RowKnown(req[r])
    BY <2>1 DEF LabelsMatch, InsertPending, SchedulerKnown, RowKnown
  <2>3. OneAtATime /\ KnownTasksOnly /\ DownMeansEmpty
    BY <2>1 DEF Init, OneAtATime, KnownTasksOnly, DownMeansEmpty
  <2>4. JobsSchedulable /\ StopHolds /\ DeleteHolds /\ BootNeverRefused
    BY DEF Init, JobsSchedulable, StopHolds, DeleteHolds, BootNeverRefused, isTaskRunning, Loaded
  <2> QED BY <2>2, <2>3, <2>4 DEF Coherent
<1>2. TypeOK /\ TypeOK' /\ Coherent /\ [Next]_vars => Coherent'
  <2> SUFFICES ASSUME TypeOK, TypeOK', Coherent, [Next]_vars PROVE Coherent'
    OBVIOUS
  <2>1. ASSUME NEW r \in Requests, Begins(r) PROVE Coherent'
    BY <2>1, BeginCoherent
  <2>2. ASSUME NEW r \in Requests, Continues(r) PROVE Coherent'
    BY <2>2, ReadingCoherent, RemovingCoherent, EditingCoherent, RestartingCoherent,
       DatabaseFailsCoherent, CreateJobCoherent, CreateInsertCoherent DEF Continues
  <2>3. CASE ImportTask
    BY <2>3, ImportCoherent
  <2>4. CASE Crash \/ Boot
    BY <2>4, RestartOfServerCoherent
  <2>5. CASE AddNode \/ DeleteNode \/ RenameNode
    BY <2>5, NodesCoherent
  <2>6. CASE UNCHANGED vars
    BY <2>6 DEF vars, Coherent, OneAtATime, LabelsMatch, InsertPending, SchedulerKnown,
                RowKnown, KnownTasksOnly, DownMeansEmpty, JobsSchedulable, StopHolds,
                DeleteHolds, BootNeverRefused, isTaskRunning, Loaded
  <2> QED BY <2>1, <2>2, <2>3, <2>4, <2>5, <2>6 DEF Next
<1> QED BY <1>1, <1>2, TypeCorrect, PTL DEF Spec

\* When edits and restarts have a task to themselves, an acknowledged stop
\* (stopTask, doBulkAction) stays in force over crashes, failing database
\* calls, node changes and whatever else the other handlers do.
THEOREM StopsHold ==
  ASSUME Discipline
  PROVE  Spec => []StopHolds
<1>1. Coherent => StopHolds
  BY DEF Coherent
<1> QED BY <1>1, CoherentInductive, PTL

\* Under the same discipline an acknowledged delete (deleteTask,
\* doBulkAction) leaves neither a row nor a job behind, ever.
THEOREM DeletesHold ==
  ASSUME Discipline
  PROVE  Spec => []DeleteHolds
<1>1. Coherent => DeleteHolds
  BY DEF Coherent
<1> QED BY <1>1, CoherentInductive, PTL

\* Under the same discipline loadTasksOnStart never meets a row whose cron
\* string gocron refuses, although the forms only ask cron.ParseStandard.
THEOREM BootsSucceed ==
  ASSUME Discipline
  PROVE  Spec => []BootNeverRefused
<1>1. Coherent => BootNeverRefused
  BY DEF Coherent
<1> QED BY <1>1, CoherentInductive, PTL

-----------------------------------------------------------------------------
(* What runs is what the table says: in full when the nodes table stands still,
   and by its times in any case. *)

(* RunningCoherent, by task and by handler. *)
RunOK(t) ==
  /\ NodesFixed /\ t \in seen /\ isTaskRunning(t) => row[t] # NoRow
  /\ told[t] = "running" /\ (NodesFixed \/ row[t] # NoRow) =>
       /\ Loaded(t)
       /\ server = "up" => /\ isTaskRunning(t)
                           /\ Matches(sched[t], row[t].cfg) \/ BeingEdited(t)

Restarting(q) ==
  NodesFixed /\ req[q].at \in {"start", "unpause"} =>
    row[req[q].task] # NoRow /\ row[req[q].task].cfg = req[q].cfg

LEMMA RunningParts ==
  ASSUME TypeOK
  PROVE  RunningCoherent <=> (\A t \in Tasks : RunOK(t)) /\ (\A q \in Requests : Restarting(q))
  BY DEF RunningCoherent, SeenJobsHaveRows, RunOK, Restarting, TypeOK

LEMMA RunningPartsNext ==
  ASSUME TypeOK', \A t \in Tasks : RunOK(t)', \A q \in Requests : Restarting(q)'
  PROVE  RunningCoherent'
  BY DEF RunningCoherent, SeenJobsHaveRows, RunOK, Restarting, TypeOK

(* A step of a handler that leaves tables and scheduler as they are.  Only the
   end of an edit can matter: then the task is no longer being edited. *)
LEMMA SlotOnlyRunning ==
  ASSUME TypeOK, TypeOK', RunningCoherent, NEW r \in Requests,
         UNCHANGED <<row, sched, server, seen>>,
         \A t \in Tasks : told'[t] \in {told[t], "none"},
         \A q \in Requests \ {r} : req'[q] = req[q],
         req[r].at = "write" /\ ~req[r].paused => told'[req[r].task] # "running",
         Restarting(r)'
  PROVE  RunningCoherent'
<1>1. ASSUME NEW t \in Tasks PROVE RunOK(t)'
  <2>1. RunOK(t)
    BY RunningParts
  <2>2. BeingEdited(t) /\ told'[t] = "running" => BeingEdited(t)'
    BY DEF BeingEdited
  <2>3. told'[t] = "running" => told[t] = "running"
    OBVIOUS
  <2>4. (isTaskRunning(t)' <=> isTaskRunning(t)) /\ (Loaded(t)' <=> Loaded(t))
    BY DEF isTaskRunning, Loaded
  <2> QED BY <2>1, <2>2, <2>3, <2>4 DEF RunOK
<1>2. ASSUME NEW q \in Requests \ {r} PROVE Restarting(q)'
  BY RunningParts DEF Restarting
<1> QED BY <1>1, <1>2, RunningPartsNext

(* A handler's step on one task: nobody else restarts it, and of the handler
   and the task it has in hand the caller says the rest. *)
LEMMA WorkRunning ==
  ASSUME Discipline, TypeOK, TypeOK', Coherent, RunningCoherent,
         NEW r \in Requests, NEW t \in Tasks,
         UNCHANGED server, seen' \subseteq seen \cup {t},
         \A u \in Tasks \ {t} :
           sched'[u] = sched[u] /\ row'[u] = row[u] /\ told'[u] = told[u],
         \A q \in Requests \ {r} : req'[q] = req[q],
         t \in req[r].todo \/ \A q \in Requests \ {r} : t \notin req[q].todo,
         req[r].at = "write" => req[r].task = t,
         RunOK(t)', Restarting(r)'
  PROVE  RunningCoherent'
<1>1. ASSUME NEW u \in Tasks \ {t} PROVE RunOK(u)'
  <2>1. RunOK(u)
    BY RunningParts
  <2>2. BeingEdited(u) => BeingEdited(u)'
    BY DEF BeingEdited
  <2>3. (isTaskRunning(u)' <=> isTaskRunning(u)) /\ (Loaded(u)' <=> Loaded(u))
    BY DEF isTaskRunning, Loaded
  <2> QED BY <2>1, <2>2, <2>3 DEF RunOK
<1>2. ASSUME NEW q \in Requests \ {r} PROVE Restarting(q)'
  <2> SUFFICES ASSUME req[q].at \in {"start", "unpause"}
               PROVE  Restarting(q)'
    BY DEF Restarting
  <2>1. Restarting(q) /\ WellFormed(req[q])
    BY RunningParts DEF TypeOK
  <2>2. req[q].task \in req[q].todo /\ req[q].task \in Tasks
    BY <2>1 DEF WellFormed, Handler
  <2>3. t \notin req[q].todo
    BY Alone
  <2> QED BY <2>1, <2>2, <2>3 DEF Restarting
<1> QED BY <1>1, <1>2, RunningPartsNext

LEMMA BeginRunning ==
  ASSUME TypeOK, TypeOK', RunningCoherent, NEW r \in Requests, Begins(r)
  PROVE  RunningCoherent'
<1>1. PICK op \in OpNames, ts \in SUBSET seen, h \in Handler : BeginsWith(r, op, ts, h)
  BY BeginsAlike
<1>2. /\ req[r].at = "idle" /\ req'[r] = h /\ \A q \in Requests \ {r} : req'[q] = req[q]
      /\ UNCHANGED <<row, sched, server, seen, told>>
  BY <1>1, BecomeSlot DEF BeginsWith, Begin, IdleReq
<1>3. Restarting(r)'
  BY <1>1, <1>2 DEF BeginsWith, Restarting
<1> QED BY <1>2, <1>3, SlotOnlyRunning

LEMMA ReturnRunning ==
  ASSUME TypeOK, TypeOK', RunningCoherent, NEW r \in Requests, Return(r),
         UNCHANGED <<row, sched, server, seen>>,
         \A t \in Tasks : told'[t] \in {told[t], "none"},
         req[r].at = "write" /\ ~req[r].paused => told'[req[r].task] # "running"
  PROVE  RunningCoherent'
<1>1. Restarting(r)' /\ \A q \in Requests \ {r} : req'[q] = req[q]
  BY ReturnSlot DEF Restarting
<1> QED BY <1>1, SlotOnlyRunning

LEMMA ReadingRunning ==
  ASSUME TypeOK, TypeOK', Coherent, RunningCoherent, NEW r \in Requests,
         BulkItem(r) \/ EditCheck(r) \/ RestartRead(r)
  PROVE  RunningCoherent'
<1> DEFINE t == req[r].task
<1>0. /\ req[r].at \in {"item", "check", "read"} /\ req[r] \in Handler
      /\ UNCHANGED <<row, sched, server, seen, told>>
  BY DEF BulkItem, EditCheck, RestartRead, TypeOK
<1>1. CASE Return(r)
  BY <1>0, <1>1, ReturnRunning
<1>2. ASSUME NEW h, Become(r, h), h.at \notin {"start", "unpause"}
      PROVE  RunningCoherent'
  <2>1. req'[r] = h /\ \A q \in Requests \ {r} : req'[q] = req[q]
    BY <1>2, BecomeSlot
  <2>2. Restarting(r)'
    BY <1>2, <2>1 DEF Restarting
  <2> QED BY <1>0, <2>1, <2>2, SlotOnlyRunning
<1>3. CASE BulkItem(r)
  <2>1. ASSUME NEW u, NEW label \in {"remove", "drop"}
        PROVE  [req[r] EXCEPT !.at = label, !.task = u].at \notin {"start", "unpause"}
    BY <1>0 DEF Handler
  <2>2. ASSUME NEW u PROVE [req[r] EXCEPT !.todo = @ \ {u}].at \notin {"start", "unpause"}
    BY <1>0, <1>3 DEF Handler, BulkItem
  <2>3. CASE \E u \in req[r].todo : Become(r, [req[r] EXCEPT !.todo = @ \ {u}])
    BY <1>2, <2>2, <2>3
  <2>4. CASE \E u \in req[r].todo : Become(r, [req[r] EXCEPT !.at = "remove", !.task = u])
    BY <1>2, <2>1, <2>4
  <2>5. CASE \E u \in req[r].todo : Become(r, [req[r] EXCEPT !.at = "drop", !.task = u])
    BY <1>2, <2>1, <2>5
  <2> QED BY <1>1, <1>3, <2>3, <2>4, <2>5 DEF BulkItem
<1>4. CASE EditCheck(r)
  <2> DEFINE h == [req[r] EXCEPT !.at = IF isTaskRunning(t) THEN "update" ELSE "write",
                                !.paused = ~isTaskRunning(t)]
  <2>1. h.at \notin {"start", "unpause"}
    BY <1>0 DEF Handler
  <2>2. Become(r, h)
    BY <1>4 DEF EditCheck
  <2> QED BY <1>2, <2>1, <2>2
<1>5. CASE RestartRead(r) /\ row[t] # NoRow
  <2> DEFINE h == [req[r] EXCEPT !.at = "start", !.cfg = row[t].cfg]
  <2>1. Become(r, h)
    BY <1>5 DEF RestartRead
  <2>2. h.at = "start" /\ h.cfg = row[t].cfg /\ h.task = t
    BY <1>0 DEF Handler
  <2>3. req'[r] = h /\ \A q \in Requests \ {r} : req'[q] = req[q]
    BY <2>1, BecomeSlot
  <2>4. Restarting(r)'
    BY <1>0, <1>5, <2>2, <2>3 DEF Restarting
  <2> QED BY <1>0, <2>3, <2>4, SlotOnlyRunning
<1> QED BY <1>1, <1>3, <1>4, <1>5 DEF RestartRead

(* A task loses its job and its "running" together. *)
LEMMA RemovingRunning ==
  ASSUME Discipline, TypeOK, TypeOK', Coherent, RunningCoherent, NEW r \in Requests,
         RemoveJob(r) \/ PauseRow(r) \/ DropRow(r)
  PROVE  RunningCoherent'
<1>0. /\ req[r].at \in {"remove", "pause", "drop"} /\ HandlerOK(r) /\ server = "up"
      /\ req[r].task \in req[r].todo /\ req[r].task \in Tasks
  BY WorkingMeansUp
     DEF RemoveJob, PauseRow, DropRow, TypeOK, WellFormed, Handler, Coherent, HandlerOK
<1> SUFFICES ASSUME NEW t \in Tasks, t = req[r].task
             PROVE  RunningCoherent'
  BY <1>0
<1>t. RunOK(t)
  BY RunningParts
<1>1. CASE RemoveJob(r) /\ isTaskRunning(t)
  <2>1. /\ UNCHANGED <<row, server, seen>> /\ Step(r, "pause")
        /\ sched'[t] = NoJob /\ told'[t] = "none"
        /\ \A u \in Tasks \ {t} : sched'[u] = sched[u] /\ told'[u] = told[u]
    BY <1>0, <1>1 DEF RemoveJob, TypeOK
  <2>2. req'[r].at = "pause" /\ \A q \in Requests \ {r} : req'[q] = req[q]
    BY <2>1, StepSlot
  <2>3. RunOK(t)' /\ Restarting(r)'
    BY <2>1, <2>2 DEF RunOK, Restarting, isTaskRunning
  <2> QED BY <1>0, <2>1, <2>2, <2>3, WorkRunning
<1>2. CASE RemoveJob(r) /\ ~isTaskRunning(t)
  <2>1. UNCHANGED <<row, sched, server, seen, told>>
    BY <1>2 DEF RemoveJob
  <2>2. CASE Return(r)
    BY <1>0, <2>1, <2>2, ReturnRunning
  <2>3. CASE Step(r, "drop")
    <3>1. req'[r].at = "drop" /\ \A q \in Requests \ {r} : req'[q] = req[q]
      BY <2>3, StepSlot
    <3>2. Restarting(r)'
      BY <3>1 DEF Restarting
    <3> QED BY <1>0, <2>1, <3>1, <3>2, SlotOnlyRunning
  <2> QED BY <1>2, <2>2, <2>3 DEF RemoveJob
<1>3. CASE PauseRow(r) \/ DropRow(r)
  <2>1. sched[t] = NoJob
    BY <1>0, <1>3 DEF PauseRow, DropRow, HandlerOK, SchedulerKnown
  <2>2. /\ UNCHANGED <<sched, server, seen>> /\ told'[t] \in {told[t], "stopped", "deleted"}
        /\ \A u \in Tasks \ {t} : row'[u] = row[u] /\ told'[u] = told[u]
        /\ row[t] = NoRow => row'[t] = NoRow
    BY <1>0, <1>3 DEF PauseRow, DropRow, TypeOK, WithPaused
  <2>3. RunOK(t)'
    BY <1>0, <1>t, <2>1, <2>2 DEF RunOK, isTaskRunning
  <2>a. Step(r, "drop") \/ FinishItem(r)
    BY <1>3 DEF PauseRow, DropRow
  <2>4. req'[r].at \in {"idle", "item", "drop"} /\ \A q \in Requests \ {r} : req'[q] = req[q]
    <3>1. CASE Step(r, "drop")
      <4>1. req'[r].at = "drop" /\ \A q \in Requests \ {r} : req'[q] = req[q]
        BY <3>1, StepSlot
      <4> QED BY <4>1
    <3>2. CASE FinishItem(r)
      BY <3>2, FinishItemSlot
    <3> QED BY <2>a, <3>1, <3>2
  <2>5. Restarting(r)'
    BY <2>4 DEF Restarting
  <2> QED BY <1>0, <2>2, <2>3, <2>4, <2>5, WorkRunning
<1> QED BY <1>0, <1>1, <1>2, <1>3

(* While an edit is between the scheduler and the table, the job is the form's;
   a failing write leaves the two different and the task without an outcome. *)
LEMMA EditingRunning ==
  ASSUME Discipline, TypeOK, TypeOK', Coherent, RunningCoherent, NEW r \in Requests,
         EditUpdate(r) \/ EditWrite(r)
  PROVE  RunningCoherent'
<1>0. /\ req[r].at \in {"update", "write"} /\ HandlerOK(r) /\ server = "up"
      /\ req[r].task \in req[r].todo /\ req[r].task \in Tasks /\ req[r].cfg \in Config
  BY WorkingMeansUp
     DEF EditUpdate, EditWrite, TypeOK, WellFormed, Handler, Coherent, HandlerOK
<1> SUFFICES ASSUME NEW t \in Tasks, t = req[r].task
             PROVE  RunningCoherent'
  BY <1>0
<1>t. RunOK(t)
  BY RunningParts
<1>1. CASE EditUpdate(r)
  <2> PICK out \in UpdateOutcomes(sched[t], req[r].cfg) :
        /\ sched' = [sched EXCEPT ![t] = out.job]
        /\ IF out.ok
           THEN Step(r, "write") /\ UNCHANGED told
           ELSE /\ Return(r)
                /\ told' = [told EXCEPT ![t] = IF out.job = sched[t] THEN @ ELSE "none"]
    BY <1>1 DEF EditUpdate
  <2>1. /\ UNCHANGED <<row, server, seen>> /\ sched'[t] = out.job
        /\ told'[t] = IF out.ok \/ out.job = sched[t] THEN told[t] ELSE "none"
        /\ \A u \in Tasks \ {t} : sched'[u] = sched[u] /\ told'[u] = told[u]
    BY <1>1 DEF EditUpdate, TypeOK
  <2>2. sched[t] # NoJob /\ ~req[r].paused
    BY <1>0, <1>1 DEF EditUpdate, HandlerOK, SchedulerKnown
  <2>3. CASE out.ok
    <3>1. out.job = req[r].cfg
      BY <2>2, <2>3 DEF UpdateOutcomes
    <3>2. /\ req'[r].at = "write" /\ req'[r].task = t /\ req'[r].paused = req[r].paused
          /\ \A q \in Requests \ {r} : req'[q] = req[q]
      BY <1>0, <2>3, StepSlot
    <3>3. BeingEdited(t)'
      BY <2>2, <3>2 DEF BeingEdited
    <3>4. RunOK(t)' /\ Restarting(r)'
      BY <1>0, <1>t, <2>1, <2>2, <2>3, <3>1, <3>2, <3>3
      DEF RunOK, Restarting, isTaskRunning, Loaded
    <3> QED BY <1>0, <2>1, <3>2, <3>4, WorkRunning
  <2>4. CASE ~out.ok
    <3>1. out.job \in {sched[t], NoJob}
      BY <2>4 DEF UpdateOutcomes
    <3>2. Return(r) /\ req'[r].at = "idle" /\ \A q \in Requests \ {r} : req'[q] = req[q]
      BY <2>4, ReturnSlot
    <3>3. ~BeingEdited(t)
      <4> SUFFICES ASSUME NEW q \in Requests, req[q].at = "write", req[q].task = t
                   PROVE  FALSE
        BY DEF BeingEdited
      <4>1. t \in req[q].todo
        BY DEF TypeOK, WellFormed
      <4>2. q # r
        BY <1>1 DEF EditUpdate
      <4> QED BY <1>0, <4>1, <4>2, Alone
    <3>4. RunOK(t)'
      BY <1>0, <1>t, <2>1, <2>4, <3>1, <3>3 DEF RunOK, isTaskRunning, Loaded
    <3>5. Restarting(r)'
      BY <3>2 DEF Restarting
    <3> QED BY <1>0, <2>1, <3>2, <3>4, <3>5, WorkRunning
  <2> QED BY <2>3, <2>4
<1>2. CASE EditWrite(r)
  <2>0. Return(r) /\ UNCHANGED <<sched, server, seen>>
    BY <1>2 DEF EditWrite
  <2>1. Restarting(r)' /\ \A q \in Requests \ {r} : req'[q] = req[q]
    BY <2>0, ReturnSlot DEF Restarting
  <2>2. sched[t] = IF req[r].paused THEN NoJob ELSE req[r].cfg
    BY <1>0, <1>2 DEF EditWrite, HandlerOK, SchedulerKnown
  <2>3. told[t] = "running" /\ (NodesFixed \/ row[t] # NoRow) => ~req[r].paused /\ Loaded(t)
    BY <1>0, <1>t, <2>2 DEF RunOK, isTaskRunning
  <2>4. CASE row[t] = NoRow /\ UNCHANGED <<row, told>>
    <3>1. RunOK(t)'
      BY <1>t, <2>0, <2>3, <2>4 DEF RunOK, isTaskRunning, Loaded
    <3> QED BY <1>0, <2>0, <2>1, <2>4, <3>1, WorkRunning
  <2>5. CASE row' = [row EXCEPT ![t] = [cfg |-> req[r].cfg, paused |-> req[r].paused]]
             /\ UNCHANGED told /\ row[t] # NoRow
    <3> DEFINE w == [cfg |-> req[r].cfg, paused |-> req[r].paused]
    <3>1. w \in Row
      BY <1>0 DEF Row, TypeOK, Handler
    <3>2. row'[t] = w /\ w # NoRow /\ \A u \in Tasks \ {t} : row'[u] = row[u]
      BY <2>5, <3>1 DEF TypeOK
    <3>3. RunOK(t)'
      BY <1>0, <2>0, <2>2, <2>3, <2>5, <3>2 DEF RunOK, isTaskRunning, Loaded, Matches
    <3> QED BY <1>0, <2>0, <2>1, <2>5, <3>2, <3>3, WorkRunning
  <2>6. CASE told' = [told EXCEPT ![t] = IF req[r].paused THEN @ ELSE "none"] /\ UNCHANGED row
    <3>1. \A u \in Tasks : told'[u] \in {told[u], "none"}
      BY <2>6 DEF TypeOK
    <3>2. ~req[r].paused => told'[t] = "none"
      BY <2>6 DEF TypeOK
    <3> QED BY <2>0, <2>6, <3>1, <3>2, ReturnRunning
  <2>7. row[t] = NoRow => [row EXCEPT ![t] = NoRow] = row
    BY DEF TypeOK
  <2> QED BY <1>2, <2>4, <2>5, <2>6, <2>7 DEF EditWrite
<1> QED
  BY <1>0, <1>1, <1>2

(* restartTask starts the job of the very row it will unpause. *)
LEMMA RestartingRunning ==
  ASSUME Discipline, TypeOK, TypeOK', Coherent, RunningCoherent, NEW r \in Requests,
         RestartJob(r) \/ RestartUnpause(r)
  PROVE  RunningCoherent'
<1>0. /\ req[r].at \in {"start", "unpause"} /\ HandlerOK(r)
      /\ req[r].task \in req[r].todo /\ req[r].task \in Tasks /\ req[r].cfg \in Config
  BY DEF RestartJob, RestartUnpause, TypeOK, WellFormed, Handler, Coherent, HandlerOK
<1> SUFFICES ASSUME NEW t \in Tasks, t = req[r].task
             PROVE  RunningCoherent'
  BY <1>0
<1>r. /\ NodesFixed => row[t] # NoRow /\ row[t].cfg = req[r].cfg
      /\ row[t] # NoRow => Matches(req[r].cfg, row[t].cfg)
  BY <1>0, RunningParts DEF Restarting, HandlerOK, RowKnown, Matches
<1>1. CASE RestartJob(r) /\ req[r].cfg.cron \in Schedulable
  <2>1. /\ UNCHANGED <<row, server, seen>> /\ Step(r, "unpause")
        /\ sched'[t] = req[r].cfg /\ told'[t] = "none"
        /\ \A u \in Tasks \ {t} : sched'[u] = sched[u] /\ told'[u] = told[u]
    BY <1>1 DEF RestartJob, NewJob, TypeOK
  <2>2. /\ req'[r].task = t /\ req'[r].cfg = req[r].cfg
        /\ \A q \in Requests \ {r} : req'[q] = req[q]
    BY <2>1, StepSlot
  <2>3. RunOK(t)' /\ Restarting(r)'
    BY <1>r, <2>1, <2>2 DEF RunOK, Restarting
  <2> QED BY <1>0, <2>1, <2>2, <2>3, WorkRunning
<1>2. CASE RestartJob(r) /\ req[r].cfg.cron \notin Schedulable
  BY <1>0, <1>2, ReturnRunning DEF RestartJob
<1>3. CASE RestartUnpause(r)
  <2>1. /\ UNCHANGED <<sched, server, seen>> /\ Return(r)
        /\ row'[t] = WithPaused(t, FALSE)
        /\ \A u \in Tasks \ {t} : row'[u] = row[u] /\ told'[u] = told[u]
    BY <1>3 DEF RestartUnpause, TypeOK
  <2>2. sched[t] = req[r].cfg /\ sched[t] # NoJob
    BY <1>0, <1>3 DEF RestartUnpause, HandlerOK, SchedulerKnown
  <2>3. /\ NodesFixed => row'[t] # NoRow
        /\ row'[t] # NoRow => Matches(req[r].cfg, row'[t].cfg) /\ ~row'[t].paused
    BY <1>r, <2>1, PausedRow
  <2>4. RunOK(t)'
    BY <2>1, <2>2, <2>3 DEF RunOK, isTaskRunning, Loaded
  <2>5. Restarting(r)' /\ \A q \in Requests \ {r} : req'[q] = req[q]
    BY <2>1, ReturnSlot DEF Restarting
  <2> QED BY <1>0, <2>1, <2>4, <2>5, WorkRunning
<1> QED
  BY <1>0, <1>1, <1>2, <1>3

LEMMA DatabaseFailsRunning ==
  ASSUME TypeOK, TypeOK', RunningCoherent, NEW r \in Requests, DatabaseFails(r)
  PROVE  RunningCoherent'
<1>1. Return(r) /\ UNCHANGED <<row, sched, server, seen>>
  BY DEF DatabaseFails
<1>2. \A t \in Tasks : told'[t] \in {told[t], "none"}
  BY DEF DatabaseFails, TypeOK
<1>3. ASSUME req[r].at = "write", ~req[r].paused PROVE told'[req[r].task] # "running"
  <2>1. req[r].task \in Tasks
    BY <1>3 DEF TypeOK, WellFormed, Handler
  <2> QED BY <1>3, <2>1 DEF DatabaseFails, TypeOK
<1> QED BY <1>1, <1>2, <1>3, ReturnRunning

(* createNewTask and the import: a task begins with a UUID nobody has seen. *)
LEMMA CreatingRunning ==
  ASSUME Discipline, TypeOK, TypeOK', Coherent, RunningCoherent, NEW r \in Requests,
         CreateJob(r) \/ CreateInsert(r)
  PROVE  RunningCoherent'
<1>1. CASE CreateJob(r)
  <2>0. req[r].at = "new" /\ req[r] \in Handler /\ UNCHANGED <<row, server, seen, told>>
    BY <1>1 DEF CreateJob, TypeOK
  <2>1. CASE Return(r) /\ UNCHANGED sched
    BY <2>0, <2>1, ReturnRunning
  <2>2. ASSUME NEW t \in Tasks, Fresh(t), NewJob(t, req[r].cfg),
               Become(r, [req[r] EXCEPT !.at = "insert", !.task = t, !.todo = {t}])
        PROVE  RunningCoherent'
    <3> DEFINE h == [req[r] EXCEPT !.at = "insert", !.task = t, !.todo = {t}]
    <3>1. h.at = "insert"
      BY <2>0 DEF Handler
    <3>2. req'[r] = h /\ \A q \in Requests \ {r} : req'[q] = req[q]
      BY <2>2, BecomeSlot
    <3>3. \A u \in Tasks \ {t} : sched'[u] = sched[u]
      BY <2>2 DEF NewJob, TypeOK
    <3>4. t \notin seen /\ \A q \in Requests : t \notin req[q].todo
      BY <2>2 DEF Fresh, Quiet, Touches
    <3>5. told[t] = "none"
      BY <3>4 DEF Coherent, KnownTasksOnly
    <3>6. RunOK(t)' /\ Restarting(r)'
      BY <2>0, <3>1, <3>2, <3>4, <3>5 DEF RunOK, Restarting
    <3> QED BY <2>0, <3>2, <3>3, <3>4, <3>6, WorkRunning
  <2> QED BY <1>1, <2>1, <2>2 DEF CreateJob
<1>2. CASE CreateInsert(r)
  <2>0. /\ req[r].at = "insert" /\ UNCHANGED <<sched, server>> /\ HandlerOK(r)
        /\ req[r].task \in req[r].todo /\ req[r].task \in Tasks /\ req[r].cfg \in Config
    BY <1>2 DEF CreateInsert, TypeOK, WellFormed, Handler, Coherent, HandlerOK
  <2> SUFFICES ASSUME NEW t \in Tasks, t = req[r].task
               PROVE  RunningCoherent'
    BY <2>0
  <2>1. sched[t] = req[r].cfg /\ sched[t] # NoJob
    BY <2>0 DEF HandlerOK, InsertPending
  <2>2. CASE Return(r) /\ UNCHANGED <<row, seen, told>>
    BY <2>0, <2>2, ReturnRunning
  <2>3. CASE /\ InsertTask(t, req[r].cfg, FALSE)
             /\ told' = [told EXCEPT ![t] = "running"]
             /\ NextNode(r)
    <3> DEFINE w == [cfg |-> req[r].cfg, paused |-> FALSE]
    <3>1. w \in Row
      BY <2>0 DEF Row
    <3>2. /\ row'[t] = w /\ seen' = seen \cup {t}
          /\ \A u \in Tasks \ {t} : row'[u] = row[u] /\ told'[u] = told[u]
      BY <2>3 DEF InsertTask, TypeOK
    <3>3. RunOK(t)'
      <4>1. w # NoRow /\ w.cfg = sched[t] /\ ~w.paused
        BY <2>1, <3>1
      <4> QED BY <2>0, <2>1, <3>2, <4>1 DEF RunOK, isTaskRunning, Loaded, Matches
    <3>4. Restarting(r)' /\ \A q \in Requests \ {r} : req'[q] = req[q]
      BY <2>3, NextNodeSlot DEF Restarting
    <3> QED BY <2>0, <3>2, <3>3, <3>4, WorkRunning
  <2> QED BY <1>2, <2>2, <2>3 DEF CreateInsert
<1> QED BY <1>1, <1>2

LEMMA ImportRunning ==
  ASSUME TypeOK, TypeOK', RunningCoherent, ImportTask
  PROVE  RunningCoherent'
<1> PICK t \in Tasks, c \in Config :
      Fresh(t) /\ InsertTask(t, c, TRUE) /\ told' = [told EXCEPT ![t] = "stopped"]
  BY DEF ImportTask
<1>1. UNCHANGED <<sched, server, req>>
  BY DEF ImportTask
<1>2. sched[t] = NoJob /\ \A q \in Requests : t \notin req[q].todo
  BY DEF Fresh, Quiet, Touches
<1>3. /\ told'[t] = "stopped" /\ seen' = seen \cup {t}
      /\ \A u \in Tasks \ {t} : row'[u] = row[u] /\ told'[u] = told[u]
  BY DEF InsertTask, TypeOK
<1>4. ASSUME NEW u \in Tasks PROVE RunOK(u)'
  <2>1. CASE u = t
    BY <1>1, <1>2, <1>3, <2>1 DEF RunOK, isTaskRunning
  <2>2. CASE u # t
    <3>1. RunOK(u) /\ (BeingEdited(u) => BeingEdited(u)')
      BY <1>1, RunningParts DEF BeingEdited
    <3> QED BY <1>1, <1>3, <2>2, <3>1 DEF RunOK, isTaskRunning, Loaded
  <2> QED BY <2>1, <2>2
<1>5. ASSUME NEW q \in Requests PROVE Restarting(q)'
  <2> SUFFICES ASSUME req[q].at \in {"start", "unpause"}
               PROVE  Restarting(q)'
    BY <1>1 DEF Restarting
  <2>1. Restarting(q) /\ req[q].task \in req[q].todo /\ req[q].task \in Tasks
    BY RunningParts DEF TypeOK, WellFormed, Handler
  <2> QED BY <1>1, <1>2, <1>3, <2>1 DEF Restarting
<1> QED BY <1>4, <1>5, RunningPartsNext

(* A crash takes the handlers with it; the next start loads the very rows. *)
LEMMA RestartOfServerRunning ==
  ASSUME TypeOK, TypeOK', Coherent, RunningCoherent, Crash \/ Boot
  PROVE  RunningCoherent'
<1>1. \A q \in Requests : req'[q].at = "idle"
  BY DEF Crash, Boot, Coherent, DownMeansEmpty, IdleReq
<1>2. ASSUME NEW t \in Tasks PROVE RunOK(t)'
  <2>1. RunOK(t) /\ UNCHANGED <<row, seen, told>>
    BY RunningParts DEF Crash, Boot
  <2>2. CASE Crash
    BY <2>1, <2>2 DEF Crash, RunOK, isTaskRunning, Loaded
  <2>3. CASE Boot
    <3>1. Loaded(t) => row[t].cfg # NoJob
      BY DEF Loaded, TypeOK, Row
    <3> QED BY <2>1, <2>3, <3>1 DEF Boot, RunOK, isTaskRunning, Loaded, Matches
  <2> QED BY <2>2, <2>3
<1>3. \A q \in Requests : Restarting(q)'
  BY <1>1 DEF Restarting
<1> QED BY <1>2, <1>3, RunningPartsNext

(* A row that keeps its place keeps its times. *)
LEMMA NodesRunning ==
  ASSUME TypeOK, TypeOK', RunningCoherent, AddNode \/ DeleteNode \/ RenameNode
  PROVE  RunningCoherent'
<1>1. /\ UNCHANGED <<sched, server, req, seen, told>> /\ ~NodesFixed
      /\ \A t \in Tasks :
           \/ row'[t] = NoRow
           \/ /\ row[t] # NoRow /\ row'[t].cfg.cron = row[t].cfg.cron
              /\ row'[t].paused = row[t].paused
  BY NodesStep
<1>2. ASSUME NEW t \in Tasks PROVE RunOK(t)'
  BY <1>1, RunningParts DEF RunOK, isTaskRunning, Loaded, Matches, BeingEdited
<1>3. \A q \in Requests : Restarting(q)'
  BY <1>1 DEF Restarting
<1> QED BY <1>2, <1>3, RunningPartsNext

LEMMA RunningInductive ==
  ASSUME Discipline
  PROVE  Spec => []RunningCoherent
<1>1. Init => RunningCoherent
  BY DEF Init, IdleReq, RunningCoherent, SeenJobsHaveRows
<1>2. TypeOK /\ TypeOK' /\ Coherent /\ RunningCoherent /\ [Next]_vars => RunningCoherent'
  <2> SUFFICES ASSUME TypeOK, TypeOK', Coherent, RunningCoherent, [Next]_vars
               PROVE  RunningCoherent'
    OBVIOUS
  <2>1. ASSUME NEW r \in Requests, Begins(r) \/ Continues(r) PROVE RunningCoherent'
    BY <2>1, BeginRunning, ReadingRunning, RemovingRunning, EditingRunning,
       RestartingRunning, DatabaseFailsRunning, CreatingRunning DEF Continues
  <2>2. CASE ImportTask \/ Crash \/ Boot
    BY <2>2, ImportRunning, RestartOfServerRunning
  <2>3. CASE AddNode \/ DeleteNode \/ RenameNode
    BY <2>3, NodesRunning
  <2>4. CASE UNCHANGED vars
    BY <2>4 DEF vars, RunningCoherent, SeenJobsHaveRows, isTaskRunning, Loaded, BeingEdited, Matches
  <2> QED BY <2>1, <2>2, <2>3, <2>4 DEF Next
<1> QED BY <1>1, <1>2, TypeCorrect, CoherentInductive, PTL DEF Spec

\* When edits and restarts have a task to themselves, a task whose creation or
\* restart was acknowledged (createNewTask, restartTask) runs at the times its
\* row says as long as it has one, whatever becomes of the nodes, with foreign
\* keys on or off, over edits, crashes and starts.
THEOREM RunsKeepTheirSchedule ==
  ASSUME Discipline
  PROVE  Spec => []RunKeepsSchedule
<1>1. TypeOK /\ RunningCoherent => RunKeepsSchedule
  <2> SUFFICES ASSUME TypeOK, RunningCoherent, NEW t \in Tasks, told[t] = "running", row[t] # NoRow
               PROVE  /\ Loaded(t)
                      /\ server = "up" /\ Quiet(t) =>
                           isTaskRunning(t) /\ sched[t].cron = row[t].cfg.cron
    BY DEF RunKeepsSchedule
  <2>1. BeingEdited(t) => ~Quiet(t)
    BY DEF BeingEdited, Quiet, Touches, TypeOK, WellFormed
  <2> QED BY <2>1 DEF RunningCoherent, Matches
<1> QED BY <1>1, TypeCorrect, RunningInductive, PTL

\* When edits and restarts have a task to themselves and nobody changes the
\* nodes table, a task whose creation or restart was acknowledged (createNewTask,
\* restartTask) keeps an unpaused row, and with no handler at work on it the
\* scheduler runs that very row, edits, crashes and starts included.
THEOREM RunsHold ==
  ASSUME Discipline, NodesFixed
  PROVE  Spec => []RunHolds
<1>1. TypeOK /\ RunningCoherent => RunHolds
  <2> SUFFICES ASSUME TypeOK, RunningCoherent, NEW t \in Tasks, told[t] = "running"
               PROVE  /\ Loaded(t)
                      /\ server = "up" /\ Quiet(t) => sched[t] = row[t].cfg
    BY DEF RunHolds
  <2>1. BeingEdited(t) => ~Quiet(t)
    BY DEF BeingEdited, Quiet, Touches, TypeOK, WellFormed
  <2> QED BY <2>1 DEF RunningCoherent, Matches
<1> QED BY <1>1, TypeCorrect, RunningInductive, PTL

\* Under the same hypotheses no job runs for a task whose page a client may
\* hold and whose row is gone: stopTask, editTask and deleteTask can reach it.
THEOREM SeenJobsKeepRows ==
  ASSUME Discipline, NodesFixed
  PROVE  Spec => []SeenJobsHaveRows
<1>1. RunningCoherent => SeenJobsHaveRows
  BY DEF RunningCoherent
<1> QED BY <1>1, RunningInductive, PTL
=============================================================================
