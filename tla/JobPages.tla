------------------------------- MODULE JobPages -------------------------------
(* The pages that list the jobs of one node (nodeJobs, cmd/web/handlers.go):
   what its two queries return, and what a client sees
   who follows "Next" from the first page to the last while runs, pollers and
   other clients change the table under the walk. Each page is two statements,
   one for its rows and one for the number of all of them.

   How a row comes to be what it is is JobHistory's subject; here a row becomes
   whatever a poller may write into it. *)
EXTENDS Integers, Sequences, FiniteSets

CONSTANTS
    PageSize,
    MaxRows,     \* rows of the table
    MaxFinish,   \* seconds at which a job may finish
    MaxChanges,  \* changes of the table during a walk
    MaxFaults    \* failing statements

ASSUME PageSizeAssumption == PageSize \in Nat \ {0}
ASSUME BoundsAssumption == {MaxRows, MaxFinish, MaxChanges, MaxFaults} \subseteq Nat

VARIABLES
    rows,    \* the node's rows of the jobs table; the index is the column id
    walk,    \* the client
    changes, faults,
    \* history, from the walk's first request on
    steady,  \* the rows listed then and neither deleted nor moved since
    shrunk   \* some row was deleted, or moved towards the end

vars == <<rows, walk, changes, faults, steady, shrunk>>

-------------------------------------------------------------------------------
(* The queries. *)

\* finish: NULL, Go's zero time (a job that a poll found unfinished), or a time.
\* The query puts a row without finish by its runtime, which it has not either:
\* no statement sets one of the two alone.
Null == -1
Zero == 0
Rows == [status : {"scheduled", "pending", "running", "finished", "error"},
         finish : Null..MaxFinish, deleted : BOOLEAN]

\* WHERE node = ? AND deleted = 0
Listed == {i \in DOMAIN rows : ~rows[i].deleted}

\* ORDER BY ... DESC. SQLite keeps rows of one key in the order in which it
\* finds them.
Before(i, j) ==
    rows[i].finish > rows[j].finish \/ (rows[i].finish = rows[j].finish /\ i < j)

Rank(i) == Cardinality({j \in Listed : Before(j, i)})

\* LIMIT ? OFFSET ?
GetJobsForNode(limit, offset) == {i \in Listed : Rank(i) \in offset..(offset + limit - 1)}

GetTotalJobCountForNode == Cardinality(Listed)

\* A faulty variant: pages are counted from 0.
PageOfFromZero(page) == GetJobsForNode(PageSize, page * PageSize)
PageOf(page) == GetJobsForNode(PageSize, (page - 1) * PageSize)

PagesOf(count) == (count + PageSize - 1) \div PageSize

\* The page has a table for each status but "scheduled".
Visible(found) == {i \in found : rows[i].status # "scheduled"}

-------------------------------------------------------------------------------
\* next: the page the link names, 0 without one; got: the rows read for the
\* page; shown: on any page so far; asked, answered: of the page's requests.
Walks ==
    [at : {"idle", "read", "count", "shown"}, page : Nat, next : Nat,
     got : SUBSET (1..MaxRows), shown : SUBSET (1..MaxRows)]

IdleWalk == [at |-> "idle", page |-> 0, next |-> 0, got |-> {}, shown |-> {}]

TypeOK ==
    /\ rows \in Seq(Rows) /\ Len(rows) <= MaxRows
    /\ walk \in Walks
    /\ walk.at # "idle" => walk.page > 0
    /\ changes \in 0..MaxChanges /\ faults \in 0..MaxFaults
    /\ steady \subseteq Listed /\ shrunk \in BOOLEAN

\* The first page, which any other number than that of a page gives too, polls
\* the node before it reads.
OpenPages ==
    /\ walk.at = "idle"
    /\ walk' = [IdleWalk EXCEPT !.at = "read", !.page = 1]
    /\ steady' = Visible(Listed) /\ shrunk' = FALSE
    /\ UNCHANGED <<rows, changes, faults>>

ReadJobs ==
    /\ walk.at = "read"
    /\ walk' = [walk EXCEPT !.at = "count", !.got = Visible(PageOf(walk.page))]
    /\ UNCHANGED <<rows, changes, faults, steady, shrunk>>

\* A faulty variant: the last page has a link too.
CountJobsOffByOne ==
    /\ walk.at = "count"
    /\ LET pages == PagesOf(GetTotalJobCountForNode)
       IN  walk' = [walk EXCEPT !.at = "shown", !.shown = @ \cup walk.got,
                                !.next = IF walk.page > pages THEN 0 ELSE walk.page + 1]
    /\ UNCHANGED <<rows, changes, faults, steady, shrunk>>

\* The page is shown, with a link to the next if there is one.
CountJobs ==
    /\ walk.at = "count"
    /\ LET pages == PagesOf(GetTotalJobCountForNode)
       IN  walk' = [walk EXCEPT !.at = "shown", !.shown = @ \cup walk.got,
                                !.next = IF walk.page + 1 > pages THEN 0 ELSE walk.page + 1]
    /\ UNCHANGED <<rows, changes, faults, steady, shrunk>>

FollowNext ==
    /\ walk.at = "shown" /\ walk.next # 0
    /\ walk' = [walk EXCEPT !.at = "read", !.page = walk.next]
    /\ UNCHANGED <<rows, changes, faults, steady, shrunk>>

\* The client turns away.
Leave ==
    /\ walk.at = "shown"
    /\ walk' = IdleWalk /\ steady' = {} /\ shrunk' = FALSE
    /\ UNCHANGED <<rows, changes, faults>>

\* A statement fails: an error page.
PageFails ==
    /\ walk.at \in {"read", "count"} /\ faults < MaxFaults
    /\ faults' = faults + 1
    /\ walk' = IdleWalk /\ steady' = {} /\ shrunk' = FALSE
    /\ UNCHANGED <<rows, changes>>

-------------------------------------------------------------------------------
(* Meanwhile. What changes before a walk is in the initial table. *)

May == walk.at # "idle" /\ changes < MaxChanges

\* A run's row, or that of a job a poll finds for the first time.
InsertJob(status, finish) ==
    /\ May /\ Len(rows) < MaxRows
    /\ rows' = Append(rows, [status |-> status, finish |-> finish, deleted |-> FALSE])
    /\ changes' = changes + 1
    /\ UNCHANGED <<walk, faults, steady, shrunk>>

\* A poll; finish moves back to zero too, with a list that is older than the row.
UpdateJob(i, status, finish) ==
    /\ May /\ i \in Listed
    /\ rows' = [rows EXCEPT ![i].status = status, ![i].finish = finish]
    /\ changes' = changes + 1
    /\ steady' = IF finish = rows[i].finish THEN steady ELSE steady \ {i}
    /\ shrunk' = (shrunk \/ finish < rows[i].finish)
    /\ UNCHANGED <<walk, faults>>

SetErrorWhereJobId(i) ==
    /\ May /\ i \in DOMAIN rows
    /\ rows' = [rows EXCEPT ![i].status = "error"]
    /\ changes' = changes + 1
    /\ UNCHANGED <<walk, faults, steady, shrunk>>

SoftDeleteJob(i) ==
    /\ May /\ i \in Listed
    /\ rows' = [rows EXCEPT ![i].deleted = TRUE]
    /\ changes' = changes + 1
    /\ steady' = steady \ {i} /\ shrunk' = TRUE
    /\ UNCHANGED <<walk, faults>>

Polled == {<<"pending", Zero>>, <<"running", Zero>>} \cup ({"finished"} \X (1..MaxFinish))

-------------------------------------------------------------------------------
\* A table from earlier days: jobs that ran, are running, or were deleted.
Init ==
    /\ \E n \in 0..(MaxRows - 1) :
        rows \in [1..n -> [status : {"finished"}, finish : 1..MaxFinish, deleted : BOOLEAN]
                            \cup [status : {"running"}, finish : {Zero}, deleted : {FALSE}]]
    /\ walk = IdleWalk
    /\ changes = 0 /\ faults = 0
    /\ steady = {} /\ shrunk = FALSE

Next ==
    \/ OpenPages \/ ReadJobs \/ CountJobs \/ FollowNext \/ Leave \/ PageFails
    \/ InsertJob("scheduled", Null)
    \/ \E how \in Polled : InsertJob(how[1], how[2])
    \/ \E i \in 1..MaxRows :
        \/ \E how \in Polled : UpdateJob(i, how[1], how[2])
        \/ SetErrorWhereJobId(i) \/ SoftDeleteJob(i)

Spec == Init /\ [][Next]_vars

-------------------------------------------------------------------------------
\* A client who followed "Next" to the last page has been shown every job that
\* was listed all the while, although every page is a query of its own and jobs
\* come, finish and move to the front between them. It is so because a page reads
\* its rows before it counts them (handlers.go:240, 249). Not so when a job is
\* deleted or a finish is taken back: the rows behind it move up a page.
WalkShowsAll ==
    walk.at = "shown" /\ walk.next = 0 /\ ~shrunk => steady \subseteq walk.shown

\* A link leads to a page that has rows (handlers.go:282), shrunk tables apart.
LinksLeadSomewhere == walk.next # 0 /\ ~shrunk => PageOf(walk.next) # {}

===============================================================================
