------------------------------- MODULE NodePoll -------------------------------
(* Who is asked for its state, and when: the scheduled cycle over all nodes
   (updateAllNodesSchedule, cmd/web/polling.go), started by gocron in singleton
   mode, and the page that lists the nodes (listScrapydNodes and
   htmxListOnlineNodes, cmd/web/handlers.go), which asks them through a worker
   pool. Both read the list of nodes first and look every node up again by name
   when they make its request, while the nodes pages add, rename and delete.

   What a poll writes into the jobs table is JobHistory's subject; here a poll
   succeeds or fails as a whole. *)
EXTENDS WorkerPool

CONSTANTS
    Broken,      \* names whose request cannot be made: a URL that does not
                 \* parse, a password that another secret encrypted
    NoNode,      \* the cycle has no status request under way
    MaxChanges,  \* changes of the nodes table
    MaxFaults    \* failing database statements

ASSUME BrokenAssumption == Broken \subseteq Nodes /\ NoNode \notin Nodes
ASSUME BoundsAssumption == {MaxChanges, MaxFaults} \subseteq Nat

VARIABLES
    nodes,    \* scrapyd_nodes: the registered names
    health,   \* what is behind each name
    cycle,    \* updateAllNodesSchedule
    page,     \* one load of a page that lists the nodes
    changes, faults,
    \* history
    steady    \* the nodes that were registered and well since the cycle began

pollVars == <<nodes, health, cycle, page, changes, faults, steady>>

-------------------------------------------------------------------------------
\* "up" answers ok, "unwell" answers with another status, "down" refuses the
\* connection, "stuck" accepts it and does not answer.
Health == {"up", "unwell", "down", "stuck"}

\* todo: listed and not yet asked for their status; asking: the one being
\* asked; online: to be polled; active: in a worker; polled: done.
Cycles ==
    [at : {"idle", "list", "ping", "poll"}, todo : SUBSET Nodes, asking : Nodes \cup {NoNode},
     online : SUBSET Nodes, active : SUBSET Nodes, polled : SUBSET Nodes]

IdleCycle ==
    [at |-> "idle", todo |-> {}, asking |-> NoNode, online |-> {}, active |-> {}, polled |-> {}]

\* listed: what the handler read; shown: the results it has received.
Pages ==
    [at : {"idle", "list", "gather"}, listed : SUBSET Nodes, pool : Pools(Nodes),
     shown : SUBSET Nodes]

IdlePage == [at |-> "idle", listed |-> {}, pool |-> Idle, shown |-> {}]

PollTypeOK ==
    /\ nodes \subseteq Nodes
    /\ health \in [Nodes -> Health]
    /\ cycle \in Cycles
    /\ page \in Pages
    /\ changes \in 0..MaxChanges
    /\ faults \in 0..MaxFaults
    /\ steady \subseteq Nodes

\* makeRequestToScrapyd: the node is looked up by name, its URL parsed and its
\* password decrypted.
Requestable(n) == n \in nodes \ Broken

-------------------------------------------------------------------------------
\* gocron's cron tick, and RunNow when the server starts. In singleton mode a
\* tick that finds the cycle at work is dropped.
Fire ==
    /\ cycle.at = "idle"
    /\ cycle' = [IdleCycle EXCEPT !.at = "list"]
    /\ UNCHANGED <<nodes, health, page, changes, faults, steady>>

ListNodes ==
    /\ cycle.at = "list"
    /\ cycle' = [cycle EXCEPT !.at = "ping", !.todo = nodes]
    /\ steady' = {n \in nodes : health[n] = "up"} \ Broken
    /\ UNCHANGED <<nodes, health, page, changes, faults>>

\* The request for daemonstatus.json is made, or the whole cycle returns.
AskStatus(n) ==
    /\ cycle.at = "ping" /\ cycle.asking = NoNode /\ n \in cycle.todo
    /\ cycle' = IF Requestable(n)
                THEN [cycle EXCEPT !.todo = @ \ {n}, !.asking = n]
                ELSE IdleCycle
    /\ UNCHANGED <<nodes, health, page, changes, faults, steady>>

\* A faulty variant, for the mutants of PROJECT.json: a node that does not answer
\* ends the cycle.
StatusAnsweredOrOver ==
    LET n == cycle.asking
    IN  /\ cycle.at = "ping" /\ n # NoNode /\ health[n] # "stuck"
        /\ cycle' = IF health[n] = "up"
                    THEN [cycle EXCEPT !.asking = NoNode, !.online = @ \cup {n}]
                    ELSE IdleCycle
        /\ UNCHANGED <<nodes, health, page, changes, faults, steady>>

\* Its answer. The client and the context have no timeout, so a node that is
\* stuck keeps the cycle here.
StatusAnswered ==
    LET n == cycle.asking
    IN  /\ cycle.at = "ping" /\ n # NoNode /\ health[n] # "stuck"
        /\ cycle' = [cycle EXCEPT !.asking = NoNode,
                                  !.online = IF health[n] = "up" THEN @ \cup {n} ELSE @]
        /\ UNCHANGED <<nodes, health, page, changes, faults, steady>>

AllAsked ==
    /\ cycle.at = "ping" /\ cycle.asking = NoNode /\ cycle.todo = {}
    /\ cycle' = [cycle EXCEPT !.at = "poll"]
    /\ UNCHANGED <<nodes, health, page, changes, faults, steady>>

\* g.Go: waits while Workers goroutines are at work.
StartPoll(n) ==
    /\ cycle.at = "poll" /\ n \in cycle.online
    /\ Cardinality(cycle.active) < Workers
    /\ cycle' = [cycle EXCEPT !.online = @ \ {n}, !.active = @ \cup {n}]
    /\ UNCHANGED <<nodes, health, page, changes, faults, steady>>

\* requestScrapydWorkInfo returns. An error, and a panic, are logged and touch
\* no other node.
EndPoll(n) ==
    /\ n \in cycle.active /\ health[n] # "stuck"
    /\ cycle' = [cycle EXCEPT !.active = @ \ {n},
                              !.polled = IF Requestable(n) /\ health[n] = "up"
                                         THEN @ \cup {n} ELSE @]
    /\ UNCHANGED <<nodes, health, page, changes, faults, steady>>

\* A faulty variant: the cycle does not wait
\* for its workers.
WaitForNobody ==
    /\ cycle.at = "poll" /\ cycle.online = {}
    /\ cycle' = [IdleCycle EXCEPT !.active = cycle.active]
    /\ UNCHANGED <<nodes, health, page, changes, faults, steady>>

\* g.Wait, with an error or without.
Wait ==
    /\ cycle.at = "poll" /\ cycle.online = {} /\ cycle.active = {}
    /\ cycle' = IdleCycle
    /\ UNCHANGED <<nodes, health, page, changes, faults, steady>>

\* ListScrapydNodes or GetNodeWithName fails, in the cycle's own goroutine.
CycleStatementFails ==
    /\ faults < MaxFaults
    /\ \/ cycle.at = "list"
       \/ cycle.at = "ping" /\ cycle.asking = NoNode /\ cycle.todo # {}
    /\ cycle' = IdleCycle
    /\ faults' = faults + 1
    /\ UNCHANGED <<nodes, health, page, changes, steady>>

\* GetNodeWithName fails in a worker: the node is polled again in a later cycle.
PollStatementFails(n) ==
    /\ faults < MaxFaults
    /\ n \in cycle.active
    /\ cycle' = [cycle EXCEPT !.active = @ \ {n}]
    /\ steady' = steady \ {n}
    /\ faults' = faults + 1
    /\ UNCHANGED <<nodes, health, page, changes>>

-------------------------------------------------------------------------------
\* A load of the page. Its workers are one more than config.workerCount.
LoadPage ==
    /\ page.at = "idle"
    /\ page' = [IdlePage EXCEPT !.at = "list"]
    /\ UNCHANGED <<nodes, health, cycle, changes, faults, steady>>

PageLists ==
    /\ page.at = "list"
    /\ page' = [page EXCEPT !.at = "gather", !.listed = nodes, !.pool = Started(nodes)]
    /\ UNCHANGED <<nodes, health, cycle, changes, faults, steady>>

\* A statement fails, or its context ends: the page is an error.
PageFails ==
    /\ page.at = "list" /\ faults < MaxFaults
    /\ page' = IdlePage
    /\ faults' = faults + 1
    /\ UNCHANGED <<nodes, health, cycle, changes, steady>>

PageTakes(n) ==
    /\ page.at = "gather" /\ MayTake(page.pool, Workers + 1, n)
    /\ page' = [page EXCEPT !.pool = Take(@, n)]
    /\ UNCHANGED <<nodes, health, cycle, changes, faults, steady>>

\* A faulty variant: an error is logged and not sent.
PageSendsAnswers(n) ==
    /\ n \in page.pool.busy /\ Requestable(n) /\ health[n] = "up"
    /\ page' = [page EXCEPT !.pool = Send(@, n)]
    /\ UNCHANGED <<nodes, health, cycle, changes, faults, steady>>

\* The page's requests end with its context (DefaultTimeout), so a worker has
\* an answer or an error to send, for a stuck, broken or deleted node too.
PageSends(n) ==
    /\ n \in page.pool.busy
    /\ page' = [page EXCEPT !.pool = Send(@, n)]
    /\ UNCHANGED <<nodes, health, cycle, changes, faults, steady>>

PageReceives(n) ==
    /\ page.at = "gather" /\ n \in page.pool.results
    /\ page' = [page EXCEPT !.pool = Receive(@, n), !.shown = @ \cup {n}]
    /\ UNCHANGED <<nodes, health, cycle, changes, faults, steady>>

PageAnswers ==
    /\ page.at = "gather" /\ Collected(page.pool)
    /\ page' = [IdlePage EXCEPT !.pool = page.pool]
    /\ UNCHANGED <<nodes, health, cycle, changes, faults, steady>>

-------------------------------------------------------------------------------
\* The nodes pages: insertNewScrapydNode, deleteScrapydNode, editNode.
ChangeNodes(to) ==
    /\ changes < MaxChanges
    /\ changes' = changes + 1
    /\ nodes' = to
    /\ steady' = steady \cap to
    /\ UNCHANGED <<health, cycle, page, faults>>

AddNode(n) == n \notin nodes /\ ChangeNodes(nodes \cup {n})
DeleteNode(n) == n \in nodes /\ ChangeNodes(nodes \ {n})
RenameNode(n, name) ==
    /\ n \in nodes /\ name \notin nodes
    /\ ChangeNodes((nodes \ {n}) \cup {name})

\* What is behind a node comes and goes.
Turns(n, how) ==
    /\ health[n] # how
    /\ health' = [health EXCEPT ![n] = how]
    /\ steady' = steady \ {n}
    /\ UNCHANGED <<nodes, cycle, page, changes, faults>>

-------------------------------------------------------------------------------
\* The server starts with some nodes registered, and runs its first cycle.
PollInit ==
    /\ nodes \in SUBSET Nodes
    /\ health = [n \in Nodes |-> "up"]
    /\ cycle = [IdleCycle EXCEPT !.at = "list"]
    /\ page = IdlePage
    /\ changes = 0 /\ faults = 0
    /\ steady = {}

CycleStep ==
    \/ ListNodes \/ StatusAnswered \/ AllAsked \/ Wait
    \/ \E n \in Nodes : AskStatus(n) \/ StartPoll(n) \/ EndPoll(n)

PageStep ==
    \/ PageLists \/ PageAnswers
    \/ \E n \in Nodes : PageTakes(n) \/ PageSends(n) \/ PageReceives(n)

PollNext ==
    \/ Fire \/ CycleStep
    \/ LoadPage \/ PageStep
    \/ CycleStatementFails \/ PageFails
    \/ \E n \in Nodes : \/ PollStatementFails(n)
                        \/ AddNode(n) \/ DeleteNode(n)
                        \/ \E name \in Nodes : RenameNode(n, name)
                        \/ \E how \in Health : Turns(n, how)

PollSpec == PollInit /\ [][PollNext]_pollVars

\* gocron's clock goes on, the cycle's goroutines run, and a page that was
\* asked for is computed. Nobody need load a page.
PollFairness ==
    /\ WF_pollVars(Fire)
    /\ WF_pollVars(ListNodes) /\ WF_pollVars(StatusAnswered)
    /\ WF_pollVars(AllAsked) /\ WF_pollVars(Wait)
    /\ \A n \in Nodes :
        WF_pollVars(AskStatus(n)) /\ WF_pollVars(StartPoll(n)) /\ WF_pollVars(EndPoll(n))
    /\ WF_pollVars(PageStep)

PollFairSpec == PollSpec /\ PollFairness

-------------------------------------------------------------------------------
\* A cycle that runs to its end (polling.go:301) has polled every node that was
\* registered and answering since it read the list, whatever was changed or
\* broke beside it.
CycleCovers ==
    [][cycle.at = "poll" /\ cycle'.at = "idle" => steady \subseteq cycle.polled]_pollVars

\* No worker sends on the page's closed channel, and none is still at work when
\* the page is shown (handlers.go:201-212).
PageDrained == page.at = "idle" => page.pool = Idle

\* A page has one entry for each node it read, reachable or not, deleted
\* meanwhile or not (handlers.go:207-216).
PageComplete ==
    [][page.at = "gather" /\ page'.at = "idle" => page.shown = page.listed]_pollVars

\* A node that stays registered and well is polled again and again, if in the
\* end no node is stuck: cycles end, the next one starts, and the changes of
\* other nodes cost it some cycles, never all. Needs Workers > 0 and Broken = {}:
\* errgroup with a limit of zero never runs anything (polling.go:278), and one
\* broken node ends every cycle (polling.go:262).
SteadyPolled ==
    \A n \in Nodes :
        <>[](n \in nodes /\ health[n] = "up" /\ \A m \in Nodes : health[m] # "stuck")
            => []<><<n \in cycle'.polled \ cycle.polled>>_pollVars

\* A page that was asked for is answered, with stuck nodes and with no worker
\* configured too (one worker more is started, handlers.go:202).
PageEnds == page.at # "idle" ~> page.at = "idle"
===============================================================================
