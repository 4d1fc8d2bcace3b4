-------------------------------- MODULE Server --------------------------------
(* The process from its start (run in cmd/web/main.go) to its end
   (cmd/web/server.go). The start opens the database, prepares the statements,
   starts the gocron scheduler and loads the tasks, one after the other, and ends
   the process at the first error. Then it serves: one http.Server, or with
   automatic HTTPS one for the application and one that redirects, each in its
   own call of serve. They share the scheduler and the prepared statements with
   everything that is under way. A signal makes each serve drain its own server,
   shut down the scheduler and close the statements; the first to finish does so
   for all.

   net/http drains a server, gocron a scheduler: both are external. *)
EXTENDS Naturals, FiniteSets

CONSTANTS
    App, Redirect,  \* the two servers: the routes of the application, port 80
    Requests, Runs, \* each a slot used once
    MaxSignals

ASSUME ServersAssumption == App # Redirect
ASSUME SignalsAssumption == MaxSignals \in Nat

VARIABLES
    stage,      \* of run: what it does next, or "serve"
    servers,    \* {App}, or with automatic HTTPS {App, Redirect}
    told,       \* for each server, what its goroutine knows of signals
    at,         \* for each server, where its serve is
    active,     \* for each server, the requests it has in progress
    came,       \* the requests that have come
    running, started, \* the scheduler's runs
    scheduler,  \* "none", "up", or "down": starts no run any more
    statements, \* DB.queries: "none", "prepared" or "closed"
    gaveUp,     \* a Shutdown of the scheduler did not wait for its runs
    process,    \* "up", or how it ended: "clean", "error", "killed"
    signals

vars == <<stage, servers, told, at, active, came, running, started, scheduler, statements,
          gaveUp, process, signals>>

AllServers == {App, Redirect}

Stages == {"open", "prepare", "schedule", "load", "cycle", "serve"}
Serving == process = "up" /\ stage = "serve"

TypeOK ==
    /\ stage \in Stages
    /\ servers \in {{App}, AllServers}
    /\ told \in [AllServers -> {"nothing", "waits", "signalled", "stopping"}]
    /\ at \in [AllServers -> {"listen", "serve", "drain", "stop", "runs", "done", "failed", "ended"}]
    /\ active \in [AllServers -> SUBSET came]
    /\ came \subseteq Requests
    /\ running \subseteq started /\ started \subseteq Runs
    /\ scheduler \in {"none", "up", "down"}
    /\ statements \in {"none", "prepared", "closed"} /\ gaveUp \in BOOLEAN
    /\ process \in {"up", "clean", "error", "killed"}
    /\ signals \in 0..MaxSignals
    /\ \A s \in AllServers : at[s] \in {"drain", "stop", "runs", "done"} => told[s] = "stopping"

Go(s, to) == at' = [at EXCEPT ![s] = to]

-------------------------------------------------------------------------------
(* Requests, runs and signals come when they like. *)

Arrive(s, r) ==
    /\ process = "up" /\ at[s] = "serve" /\ r \notin came
    /\ came' = came \cup {r}
    /\ active' = [active EXCEPT ![s] = @ \cup {r}]
    /\ UNCHANGED <<stage, servers, told, at, running, started, scheduler, statements, gaveUp, process, signals>>

Answer(s, r) ==
    /\ process = "up" /\ r \in active[s]
    /\ active' = [active EXCEPT ![s] = @ \ {r}]
    /\ UNCHANGED <<stage, servers, told, at, came, running, started, scheduler, statements, gaveUp, process, signals>>

\* A task's run or the node cycle; gocron's clock starts before the servers do.
RunStarts(j) ==
    /\ process = "up" /\ scheduler = "up" /\ j \notin started
    /\ started' = started \cup {j} /\ running' = running \cup {j}
    /\ UNCHANGED <<stage, servers, told, at, active, came, scheduler, statements, gaveUp, process, signals>>

RunEnds(j) ==
    /\ process = "up" /\ j \in running
    /\ running' = running \ {j}
    /\ UNCHANGED <<stage, servers, told, at, active, came, started, scheduler, statements, gaveUp, process, signals>>

\* SIGINT or SIGTERM goes to every goroutine that has asked for it; if none
\* has, it ends the process. Each waits for one signal only.
Signal ==
    /\ process = "up" /\ signals < MaxSignals
    /\ signals' = signals + 1
    /\ told' = [s \in AllServers |-> IF told[s] = "waits" THEN "signalled" ELSE told[s]]
    /\ process' = IF \A s \in servers : told[s] = "nothing" THEN "killed" ELSE "up"
    /\ UNCHANGED <<stage, servers, at, active, came, running, started, scheduler, statements, gaveUp>>

-------------------------------------------------------------------------------
(* run: the start. *)

StartGoesOn(from, to) == process = "up" /\ stage = from /\ stage' = to

\* openDB up to Prepare: the pragmas, a ping and the migrations.
OpenDatabase ==
    /\ StartGoesOn("open", "prepare")
    /\ UNCHANGED <<servers, told, at, active, came, running, started, scheduler, statements, gaveUp, process, signals>>

\* database.Prepare, all statements or an error; then -create-default-user.
Prepare ==
    /\ StartGoesOn("prepare", "schedule")
    /\ statements' = "prepared"
    /\ UNCHANGED <<servers, told, at, active, came, running, started, scheduler, gaveUp, process, signals>>

\* The templates, then NewScheduler and Start.
StartScheduler ==
    /\ StartGoesOn("schedule", "load")
    /\ scheduler' = "up"
    /\ UNCHANGED <<servers, told, at, active, came, running, started, statements, gaveUp, process, signals>>

\* loadTasksOnStart: the tasks may run from here on.
LoadTasks ==
    /\ StartGoesOn("load", "cycle")
    /\ UNCHANGED <<servers, told, at, active, came, running, started, scheduler, statements, gaveUp, process, signals>>

\* The node cycle is scheduled and run; then serveHTTP or serveAutoHTTPS.
ScheduleCycle ==
    /\ StartGoesOn("cycle", "serve")
    /\ UNCHANGED <<servers, told, at, active, came, running, started, scheduler, statements, gaveUp, process, signals>>

\* log.Fatalln, or run's error: nobody waits for the runs that have started.
StartFails ==
    /\ process = "up" /\ stage # "serve"
    /\ process' = "error"
    /\ UNCHANGED <<stage, servers, told, at, active, came, running, started, scheduler, statements, gaveUp, signals>>

-------------------------------------------------------------------------------
(* serve *)

\* signal.Notify, in a goroutine of its own: the server may listen before it.
Notify(s) ==
    /\ Serving /\ s \in servers /\ told[s] = "nothing"
    /\ told' = [told EXCEPT ![s] = "waits"]
    /\ UNCHANGED <<stage, servers, at, active, came, running, started, scheduler, statements, gaveUp, process, signals>>

\* ListenAndServe; if Shutdown was called first it returns at once.
Listen(s) ==
    /\ Serving /\ s \in servers /\ at[s] = "listen"
    /\ Go(s, IF told[s] = "stopping" THEN "drain" ELSE "serve")
    /\ UNCHANGED <<stage, servers, told, active, came, running, started, scheduler, statements, gaveUp, process, signals>>

\* The port is taken, or accepting fails.
ListenFails(s) ==
    /\ Serving /\ s \in servers /\ at[s] \in {"listen", "serve"}
    /\ Go(s, "failed")
    /\ UNCHANGED <<stage, servers, told, active, came, running, started, scheduler, statements, gaveUp, process, signals>>

\* srv.Shutdown begins: the server accepts nothing more, ListenAndServe returns
\* and serve waits for what Shutdown returns.
ShutDown(s) ==
    /\ process = "up" /\ told[s] = "signalled"
    /\ told' = [told EXCEPT ![s] = "stopping"]
    /\ at' = IF at[s] = "serve" THEN [at EXCEPT ![s] = "drain"] ELSE at
    /\ UNCHANGED <<stage, servers, active, came, running, started, scheduler, statements, gaveUp, process, signals>>

Drained(s) ==
    /\ process = "up" /\ at[s] = "drain" /\ told[s] = "stopping" /\ active[s] = {}
    /\ Go(s, "stop")
    /\ UNCHANGED <<stage, servers, told, active, came, running, started, scheduler, statements, gaveUp, process, signals>>

\* Faulty variants, for the mutants of PROJECT.json: the error of Shutdown is
\* only logged; Shutdown has no deadline.
DeadlineIgnored(s) ==
    /\ process = "up" /\ at[s] = "drain" /\ told[s] = "stopping" /\ active[s] # {}
    /\ Go(s, "stop")
    /\ UNCHANGED <<stage, servers, told, active, came, running, started, scheduler, statements, gaveUp, process, signals>>
DeadlineNever(s) == FALSE /\ UNCHANGED vars

\* The 30 seconds are over: serve returns Shutdown's error, and leaves the
\* scheduler and the statements to the end of the process.
Deadline(s) ==
    /\ process = "up" /\ at[s] = "drain" /\ told[s] = "stopping" /\ active[s] # {}
    /\ Go(s, "failed")
    /\ UNCHANGED <<stage, servers, told, active, came, running, started, scheduler, statements, gaveUp, process, signals>>

\* scheduler.Shutdown starts no run any more ...
StopScheduler(s) ==
    /\ process = "up" /\ at[s] = "stop"
    /\ scheduler' = "down"
    /\ Go(s, "runs")
    /\ UNCHANGED <<stage, servers, told, active, came, running, started, statements, gaveUp, process, signals>>

\* A faulty variant: it is not waited for.
RunsEndedOrNot(s) ==
    /\ process = "up" /\ at[s] = "runs"
    /\ statements' = "closed"
    /\ Go(s, "done")
    /\ UNCHANGED <<stage, servers, told, active, came, running, started, scheduler, gaveUp, process, signals>>

\* ... and returns when the runs have ended; the deferred call closes the
\* statements.
RunsEnded(s) ==
    /\ process = "up" /\ at[s] = "runs" /\ running = {}
    /\ statements' = "closed"
    /\ Go(s, "done")
    /\ UNCHANGED <<stage, servers, told, active, came, running, started, scheduler, gaveUp, process, signals>>

\* It returns an error after its own timeout, or when it is called a second
\* time; the statements are closed all the same.
RunsLate(s) ==
    /\ process = "up" /\ at[s] = "runs"
    /\ running # {} \/ Cardinality(servers) > 1
    /\ statements' = "closed"
    /\ gaveUp' = (gaveUp \/ running # {})
    /\ Go(s, "failed")
    /\ UNCHANGED <<stage, servers, told, active, came, running, started, scheduler, process, signals>>

-------------------------------------------------------------------------------
(* serveHTTP and serveAutoHTTPS, and with them the process. *)

\* A faulty variant: the first result of two is taken for both.
ReturnAtFirst(s) ==
    /\ process = "up" /\ at[s] \in {"done", "failed"}
    /\ Go(s, "ended")
    /\ process' = IF at[s] = "failed" THEN "error" ELSE "clean"
    /\ UNCHANGED <<stage, servers, told, active, came, running, started, scheduler, statements, gaveUp, signals>>

\* The result of a serve is taken: an error ends the process, otherwise the
\* last one does.
Return(s) ==
    /\ process = "up" /\ at[s] \in {"done", "failed"}
    /\ Go(s, "ended")
    /\ process' = IF at[s] = "failed" THEN "error"
                  ELSE IF \A q \in servers \ {s} : at[q] = "ended" THEN "clean"
                  ELSE "up"
    /\ UNCHANGED <<stage, servers, told, active, came, running, started, scheduler, statements, gaveUp, signals>>

-------------------------------------------------------------------------------
Init ==
    /\ servers \in {{App}, AllServers}
    /\ told = [s \in AllServers |-> "nothing"]
    /\ at = [s \in AllServers |-> "listen"]
    /\ active = [s \in AllServers |-> {}]
    /\ came = {} /\ running = {} /\ started = {}
    /\ stage = "open" /\ scheduler = "none" /\ statements = "none" /\ gaveUp = FALSE
    /\ process = "up" /\ signals = 0

Next ==
    \/ \E s \in AllServers :
        \/ Notify(s) \/ Listen(s) \/ ListenFails(s) \/ ShutDown(s) \/ Drained(s) \/ Deadline(s)
        \/ StopScheduler(s) \/ RunsEnded(s) \/ RunsLate(s) \/ Return(s)
        \/ \E r \in Requests : Arrive(s, r) \/ Answer(s, r)
    \/ \E j \in Runs : RunStarts(j) \/ RunEnds(j)
    \/ OpenDatabase \/ Prepare \/ StartScheduler \/ LoadTasks \/ ScheduleCycle \/ StartFails
    \/ Signal

Spec == Init /\ [][Next]_vars

\* The goroutines of serve go on, and timers expire. Requests and runs may take
\* for ever.
Fairness ==
    \A s \in AllServers :
        /\ WF_vars(Notify(s)) /\ WF_vars(Listen(s)) /\ WF_vars(ShutDown(s))
        /\ WF_vars(Drained(s)) /\ WF_vars(Deadline(s)) /\ WF_vars(StopScheduler(s))
        /\ WF_vars(RunsEnded(s) \/ RunsLate(s)) /\ WF_vars(Return(s))

FairSpec == Spec /\ Fairness

-------------------------------------------------------------------------------
\* While the application has a request in progress its statements are open and
\* the scheduler takes its tasks (server.go:140, 157-171). With automatic HTTPS
\* it need not be so: the redirecting server has drained long before.
RequestsServed ==
    process = "up" /\ servers = {App} /\ active[App] # {} => statements = "prepared" /\ scheduler = "up"

\* A run that began before the signal finds its statements open until it ends,
\* unless the scheduler gave it up, with one server and with two (server.go:161-170).
RunsServed == process = "up" /\ running # {} /\ ~gaveUp => statements = "prepared"

\* A process that says it ended well cut off nobody: no request of either server
\* and no run (server.go:119-126, 157-174).
CleanEnds == process = "clean" => running = {} /\ \A s \in AllServers : active[s] = {}

\* A signal that reached every server ends the process, whatever requests and
\* runs are stuck (server.go:137, 167).
SignalEnds == (\A s \in servers : told[s] \in {"signalled", "stopping"}) ~> process # "up"
===============================================================================
