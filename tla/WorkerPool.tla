------------------------------ MODULE WorkerPool ------------------------------
(* The worker pool a handler makes for one request: a channel of jobs, filled
   and closed before the workers are through; workers that take a job and send
   one result; and a handler that receives as many results as there were jobs
   and then closes their channel. listScrapydNodes, htmxListOnlineNodes
   (cmd/web/handlers.go) and buildAndDeployEggSSE (cmd/web/deploy.go) have one
   each. Both channels hold as many elements as there are jobs, so no send
   blocks; their order matters to nobody, so they are sets. *)
EXTENDS Naturals, FiniteSets

CONSTANTS
    Nodes,      \* the names a node may have: what a pool works through
    Workers     \* config.workerCount

ASSUME NodesAssumption == IsFiniteSet(Nodes)
ASSUME WorkersAssumption == Workers \in Nat

\* jobs: in the channel; busy: in a worker's hands; results: sent and not yet
\* received; left: how many results the handler has still to receive.
Pools(Items) ==
    [jobs : SUBSET Items, busy : SUBSET Items, results : SUBSET Items, left : 0..Cardinality(Items)]

Idle == [jobs |-> {}, busy |-> {}, results |-> {}, left |-> 0]

Started(items) == [Idle EXCEPT !.jobs = items, !.left = Cardinality(items)]

\* A job of the channel and a worker that is free.
MayTake(pool, size, item) == item \in pool.jobs /\ Cardinality(pool.busy) < size

Take(pool, item) == [pool EXCEPT !.jobs = @ \ {item}, !.busy = @ \cup {item}]

Send(pool, item) == [pool EXCEPT !.busy = @ \ {item}, !.results = @ \cup {item}]

\* A faulty variant: the handler stops at the first result.
ReceiveStops(pool, item) == [pool EXCEPT !.results = @ \ {item}, !.left = 0]
Receive(pool, item) == [pool EXCEPT !.results = @ \ {item}, !.left = @ - 1]

Collected(pool) == pool.left = 0
===============================================================================
