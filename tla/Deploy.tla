-------------------------------- MODULE Deploy --------------------------------
(* Deployments (cmd/web/deploy.go). A form draws a version and puts what was
   asked into the client's cookie; the page it answers with opens an event
   stream, whose request brings the cookie back; the stream's handler waits for
   globalMu, builds the egg and sends it to every chosen node through a worker
   pool. The handler does not look at its client again: a client whose
   connection broke opens another stream with the same cookie, and both run. *)
EXTENDS WorkerPool, Sequences

CONSTANTS
    Clients,
    Streams,    \* requests for /deploy-sse, each a slot used once
    Versions,   \* the versions forms can draw, none twice (uuid.NewUUID)
    NoStream, NoVersion

ASSUME NamesAssumption == NoStream \notin Streams /\ NoVersion \notin Versions
ASSUME ClientsAssumption == Clients # {}

VARIABLES
    cookie,   \* for each client, the version of its deploy-session cookie
    pages,    \* for each client, the versions its pages show as in progress, in the
              \* order in which the forms were answered; any of them may still be open
    chosen,   \* for each version, the nodes its form chose; {} before it is drawn
    stream,   \* for each stream, its handler
    mu,       \* globalMu: the stream that holds it, or NoStream
    log       \* for each node, the streams whose egg Scrapyd took, in order

vars == <<cookie, pages, chosen, stream, mu, log>>

-------------------------------------------------------------------------------
\* ends with "complete" (the deployment-complete event) or "failed"; sent: the
\* nodes whose status event was written; landed: taken by Scrapyd, answer due.
Handlers ==
    [at : {"new", "try", "wait", "read", "build", "deploy", "complete", "failed"},
     client : Clients, version : Versions \cup {NoVersion},
     shown : Versions \cup {NoVersion}, pool : Pools(Nodes),
     landed : SUBSET Nodes, sent : SUBSET Nodes]

NewStream ==
    [at |-> "new", client |-> CHOOSE c \in Clients : TRUE, version |-> NoVersion,
     shown |-> NoVersion, pool |-> Idle, landed |-> {}, sent |-> {}]

TypeOK ==
    /\ cookie \in [Clients -> Versions \cup {NoVersion}]
    /\ pages \in [Clients -> Seq(Versions)]
    /\ chosen \in [Versions -> SUBSET Nodes]
    /\ stream \in [Streams -> Handlers]
    /\ mu \in Streams \cup {NoStream}
    /\ log \in [Nodes -> Seq(Streams)]

\* c's form that drew v was answered, and the one that drew w with it or later.
Later(c, v, w) ==
    \E i, j \in DOMAIN pages[c] : i <= j /\ pages[c][i] = v /\ pages[c][j] = w

Ended(s) == stream[s].at \in {"complete", "failed"}
Under(s) == stream[s].at \notin {"new", "complete", "failed"}

-------------------------------------------------------------------------------
\* A faulty variant, for the mutants of PROJECT.json: the form is kept for the
\* server, not for the client.
SubmitFormShared(c, v, picked) ==
    /\ chosen[v] = {} /\ picked # {}
    /\ chosen' = [chosen EXCEPT ![v] = picked]
    /\ cookie' = [d \in Clients |-> v]
    /\ pages' = [pages EXCEPT ![c] = Append(@, v)]
    /\ UNCHANGED <<stream, mu, log>>

\* POST /deploy-project. Forms that the validator refuses change nothing.
SubmitForm(c, v, picked) ==
    /\ chosen[v] = {} /\ picked # {}
    /\ chosen' = [chosen EXCEPT ![v] = picked]
    /\ cookie' = [cookie EXCEPT ![c] = v]
    /\ pages' = [pages EXCEPT ![c] = Append(@, v)]
    /\ UNCHANGED <<stream, mu, log>>

\* A page's event source connects, or connects again: it brings the cookie the
\* client has by then.
Connect(s, c) ==
    /\ stream[s].at = "new"
    /\ \E i \in DOMAIN pages[c] :
        stream' = [stream EXCEPT ![s] = [@ EXCEPT !.at = "try", !.client = c,
                                                !.version = cookie[c], !.shown = pages[c][i]]]
    /\ UNCHANGED <<cookie, pages, chosen, mu, log>>

TryLock(s) ==
    /\ stream[s].at = "try"
    /\ IF mu = NoStream
       THEN mu' = s /\ stream' = [stream EXCEPT ![s].at = "read"]
       ELSE UNCHANGED mu /\ stream' = [stream EXCEPT ![s].at = "wait"]
    /\ UNCHANGED <<cookie, pages, chosen, log>>

\* A faulty variant: the handler says that it waits, and does not.
LockForgotten(s) ==
    /\ stream[s].at = "wait"
    /\ mu' = mu
    /\ stream' = [stream EXCEPT ![s].at = "read"]
    /\ UNCHANGED <<cookie, pages, chosen, log>>

Lock(s) ==
    /\ stream[s].at = "wait" /\ mu = NoStream
    /\ mu' = s
    /\ stream' = [stream EXCEPT ![s].at = "read"]
    /\ UNCHANGED <<cookie, pages, chosen, log>>

\* A faulty variant: the early returns keep the lock.
ReturnLocked(s, how) ==
    /\ stream' = [stream EXCEPT ![s].at = how]
    /\ mu' = IF how = "complete" THEN NoStream ELSE mu
    /\ UNCHANGED <<cookie, pages, chosen, log>>

\* The handler ends; the deferred call unlocks.
Return(s, how) ==
    /\ stream' = [stream EXCEPT ![s].at = how]
    /\ mu' = NoStream
    /\ UNCHANGED <<cookie, pages, chosen, log>>

\* The cookie of the request is decrypted and decoded. It may have expired or
\* be another server's.
ReadCookie(s) ==
    /\ stream[s].at = "read"
    /\ \/ Return(s, "failed")
       \/ /\ stream' = [stream EXCEPT ![s].at = "build"]
          /\ UNCHANGED <<cookie, pages, chosen, mu, log>>

\* Python builds the egg, or fails; then the jobs and the workers are made.
BuildEgg(s) ==
    /\ stream[s].at = "build"
    /\ \/ Return(s, "failed")
       \/ /\ stream' = [stream EXCEPT ![s].at = "deploy",
                                      ![s].pool = Started(chosen[stream[s].version])]
          /\ UNCHANGED <<cookie, pages, chosen, mu, log>>

\* deployToNodeWorker takes a job and asks Scrapyd, which takes the egg ...
WorkerTakes(s, n) ==
    /\ MayTake(stream[s].pool, Workers, n)
    /\ stream' = [stream EXCEPT ![s].pool = Take(@, n)]
    /\ UNCHANGED <<cookie, pages, chosen, mu, log>>

EggTaken(s, n) ==
    /\ n \in stream[s].pool.busy \ stream[s].landed
    /\ stream' = [stream EXCEPT ![s].landed = @ \cup {n}]
    /\ log' = [log EXCEPT ![n] = Append(@, s)]
    /\ UNCHANGED <<cookie, pages, chosen, mu>>

\* ... and the worker sends a result. Without the egg in Scrapyd it is an error:
\* the node is unknown, down, or refuses. With it, it may be one too: the answer
\* was lost or says so.
WorkerSends(s, n) ==
    /\ n \in stream[s].pool.busy
    /\ stream' = [stream EXCEPT ![s].pool = Send(@, n)]
    /\ UNCHANGED <<cookie, pages, chosen, mu, log>>

\* The handler writes the node's status event. That the client is gone is only
\* logged.
Received(s, n) ==
    /\ stream[s].at = "deploy" /\ n \in stream[s].pool.results
    /\ stream' = [stream EXCEPT ![s].pool = Receive(@, n), ![s].sent = @ \cup {n}]
    /\ UNCHANGED <<cookie, pages, chosen, mu, log>>

Complete(s) ==
    /\ stream[s].at = "deploy" /\ Collected(stream[s].pool)
    /\ Return(s, "complete")

\* The process ends and is started again. The cookies are the clients', the eggs
\* Scrapyd's.
Crash ==
    /\ \E s \in Streams : Under(s)
    /\ stream' = [s \in Streams |->
                    IF Under(s) THEN [stream[s] EXCEPT !.at = "failed", !.pool = Idle]
                    ELSE stream[s]]
    /\ mu' = NoStream
    /\ UNCHANGED <<cookie, pages, chosen, log>>

-------------------------------------------------------------------------------
Init ==
    /\ cookie = [c \in Clients |-> NoVersion]
    /\ pages = [c \in Clients |-> <<>>]
    /\ chosen = [v \in Versions |-> {}]
    /\ stream = [s \in Streams |-> NewStream]
    /\ mu = NoStream
    /\ log = [n \in Nodes |-> <<>>]

HandlerStep(s) ==
    \/ TryLock(s) \/ ReadCookie(s) \/ BuildEgg(s) \/ Complete(s)
    \/ \E n \in Nodes : WorkerTakes(s, n) \/ WorkerSends(s, n) \/ Received(s, n)

Next ==
    \/ \E c \in Clients :
        \/ \E v \in Versions, picked \in SUBSET Nodes : SubmitForm(c, v, picked)
        \/ \E s \in Streams : Connect(s, c)
    \/ \E s \in Streams :
        \/ HandlerStep(s) \/ Lock(s)
        \/ \E n \in Nodes : EggTaken(s, n)
    \/ Crash

Spec == Init /\ [][Next]_vars

\* A handler and its workers go on, and every request to a node ends. A waiting
\* handler gets the mutex in the end: Go's mutexes serve waiters in order once
\* they are starved.
Fairness == \A s \in Streams : WF_vars(HandlerStep(s)) /\ SF_vars(Lock(s))

FairSpec == Spec /\ Fairness

-------------------------------------------------------------------------------
\* Deployments that share nodes reach them in the same order, so that after any
\* number of them, clients and lost connections the nodes end with the same
\* version (deploy.go:141-146). A handler that returned with a worker still at
\* work would break it as surely as one that did not lock.
NodesAgree ==
    \A m, n \in Nodes : \A i, j \in DOMAIN log[m] : \A k, l \in DOMAIN log[n] :
        log[m][i] = log[n][k] /\ log[m][j] = log[n][l] /\ i < j => k < l

\* While nobody holds globalMu nothing is on its way to a node, and no worker
\* can send on a closed channel (deploy.go:180-190).
QuietWhenUnlocked ==
    \A s \in Streams : mu # s => stream[s].pool.jobs = {} /\ stream[s].pool.busy = {}

\* The deployment-complete event comes after a status event for each node of the
\* form (deploy.go:180-191).
CompleteMeansAll ==
    \A s \in Streams :
        stream[s].at = "complete" => stream[s].sent = chosen[stream[s].version]

\* A stream deploys the form its page shows, or one the same client was answered
\* after it: never another client's, and never an older one than the page shows,
\* with any number of pages open and connections lost (deploy.go:104-118,
\* 148-159). That it is the page's own form does not hold: two pages, one cookie.
ShownIsDeployed ==
    \A s \in Streams : Under(s) => Later(stream[s].client, stream[s].shown, stream[s].version)

\* Deployments are serial (SerialDeploy): one is open from the build to the
\* last result.
Serial == INSTANCE SerialDeploy WITH current <- mu
Implements == Serial!Spec

\* Every stream ends and lets the next one in, whatever fails (deploy.go:146):
\* needs Workers > 0 and nodes that answer or break the connection.
StreamsEnd == \A s \in Streams : Under(s) ~> Ended(s)
===============================================================================
