----------------------------- MODULE ServerProofs -----------------------------
(* Theorems about Server: for any requests, runs and number of signals, with one
   server and with two. *)
EXTENDS Server, TLAPS

Scheduled == {"load", "cycle", "serve"}

\* The start comes before the servers, and opens things in its order.
StartFirst ==
    /\ \A s \in AllServers : at[s] # "listen" => stage = "serve"
    /\ scheduler = "none" <=> stage \notin Scheduled
    /\ stage \in Scheduled \cup {"schedule"} => statements # "none"
    /\ running # {} => scheduler # "none"

\* Only a server that is run does anything, and only one that serves takes
\* requests.
TakesWhileServing ==
    \A s \in AllServers :
        /\ s \notin servers => at[s] = "listen"
        /\ at[s] = "listen" => active[s] = {}

\* While the process is up, what a serve has behind it has ended.
EndedBehind ==
    process = "up" =>
        \A s \in AllServers :
            /\ at[s] \in {"stop", "runs", "done", "ended"} => active[s] = {}
            /\ at[s] \in {"runs", "done", "ended"} => scheduler = "down"
            /\ at[s] \in {"done", "ended"} => running = {}

\* The scheduler is shut down by a serve whose server is drained, and the
\* statements after it.
ClosedInOrder ==
    /\ scheduler = "down" =>
        \E s \in servers : at[s] \in {"runs", "done", "failed", "ended"} /\ active[s] = {}
    /\ statements = "closed" => scheduler = "down" /\ (running = {} \/ gaveUp)

Orderly ==
    TypeOK /\ StartFirst /\ TakesWhileServing /\ EndedBehind /\ ClosedInOrder /\ CleanEnds

-------------------------------------------------------------------------------
LEMMA OrderlyInit == Init => Orderly
<1> SUFFICES ASSUME Init PROVE Orderly
  OBVIOUS
<1>2. TypeOK
  <2>1. /\ told \in [AllServers -> {"nothing", "waits", "signalled", "stopping"}]
        /\ at \in [AllServers -> {"listen", "serve", "drain", "stop", "runs", "done", "failed", "ended"}]
        /\ \A s \in AllServers : at[s] \in {"drain", "stop", "runs", "done"} => told[s] = "stopping"
    BY DEF Init
  <2>2. active \in [AllServers -> SUBSET came] /\ signals \in 0..MaxSignals
    BY SignalsAssumption DEF Init
  <2>3. /\ stage \in Stages /\ servers \in {{App}, AllServers}
        /\ came \subseteq Requests /\ running \subseteq started /\ started \subseteq Runs
        /\ scheduler \in {"none", "up", "down"}
        /\ statements \in {"none", "prepared", "closed"} /\ gaveUp \in BOOLEAN
        /\ process \in {"up", "clean", "error", "killed"}
    BY DEF Init, Stages
  <2>4. QED BY <2>1, <2>2, <2>3 DEF TypeOK
<1>3. StartFirst /\ TakesWhileServing /\ EndedBehind /\ ClosedInOrder /\ CleanEnds
  BY DEF Init, StartFirst, TakesWhileServing, EndedBehind, ClosedInOrder, CleanEnds, Scheduled
<1>4. QED BY <1>2, <1>3 DEF Orderly

\* Requests, runs and signals.
LEMMA ArrivalsKeep ==
    ASSUME Orderly,
           \/ \E s \in AllServers, r \in Requests : Arrive(s, r) \/ Answer(s, r)
           \/ \E j \in Runs : RunStarts(j) \/ RunEnds(j)
           \/ Signal
    PROVE  Orderly'
<1>0. servers \subseteq AllServers
  BY DEF Orderly, TypeOK, AllServers
<1>1. ASSUME NEW s \in AllServers, NEW r \in Requests, Arrive(s, r) PROVE Orderly'
  <2>1. TypeOK'
    BY <1>1 DEF Orderly, TypeOK, Arrive
  <2>2. StartFirst' /\ TakesWhileServing' /\ EndedBehind' /\ CleanEnds'
    BY <1>1 DEF Orderly, TypeOK, StartFirst, TakesWhileServing, EndedBehind, CleanEnds, Arrive
  <2>3. ClosedInOrder'
    BY <1>0, <1>1 DEF Orderly, TypeOK, ClosedInOrder, Arrive
  <2>4. QED BY <2>1, <2>2, <2>3 DEF Orderly
<1>2. ASSUME NEW s \in AllServers, NEW r \in Requests, Answer(s, r) PROVE Orderly'
  <2>1. TypeOK'
    BY <1>2 DEF Orderly, TypeOK, Answer
  <2>2. StartFirst' /\ TakesWhileServing' /\ EndedBehind' /\ CleanEnds'
    BY <1>2 DEF Orderly, TypeOK, StartFirst, TakesWhileServing, EndedBehind, CleanEnds, Answer
  <2>3. ClosedInOrder'
    BY <1>0, <1>2 DEF Orderly, TypeOK, ClosedInOrder, Answer
  <2>4. QED BY <2>1, <2>2, <2>3 DEF Orderly
<1>3. ASSUME NEW j \in Runs, RunStarts(j) \/ RunEnds(j) PROVE Orderly'
  BY <1>3 DEF Orderly, TypeOK, StartFirst, TakesWhileServing, EndedBehind, ClosedInOrder,
              CleanEnds, RunStarts, RunEnds
<1>4. CASE Signal
  <2>1. TypeOK'
    BY <1>4, SignalsAssumption DEF Orderly, TypeOK, Signal
  <2>2. StartFirst' /\ TakesWhileServing' /\ EndedBehind' /\ CleanEnds'
    BY <1>4 DEF Orderly, TypeOK, StartFirst, TakesWhileServing, EndedBehind, CleanEnds, Signal
  <2>3. ClosedInOrder'
    BY <1>4 DEF Orderly, ClosedInOrder, Signal
  <2>4. QED BY <2>1, <2>2, <2>3 DEF Orderly
<1>5. QED BY <1>1, <1>2, <1>3, <1>4

\* The steps of run.
LEMMA StartKeeps ==
    ASSUME Orderly,
           \/ OpenDatabase \/ Prepare \/ StartScheduler \/ LoadTasks \/ ScheduleCycle
           \/ StartFails
    PROVE  Orderly'
<1>1. CASE OpenDatabase \/ Prepare \/ LoadTasks \/ ScheduleCycle \/ StartFails
  BY <1>1
  DEF Orderly, TypeOK, StartFirst, TakesWhileServing, EndedBehind, ClosedInOrder, CleanEnds,
      Stages, Scheduled, StartGoesOn, OpenDatabase, Prepare, LoadTasks, ScheduleCycle, StartFails
<1>2. CASE StartScheduler
  <2>1. \A s \in AllServers : at[s] = "listen"
    BY <1>2 DEF Orderly, StartFirst, StartGoesOn, StartScheduler
  <2>2. TypeOK'
    BY <1>2 DEF Orderly, TypeOK, Stages, StartGoesOn, StartScheduler
  <2>3. StartFirst'
    BY <1>2, <2>1 DEF Orderly, StartFirst, Scheduled, StartGoesOn, StartScheduler
  <2>4. TakesWhileServing' /\ EndedBehind' /\ CleanEnds'
    BY <1>2, <2>1
    DEF Orderly, TakesWhileServing, EndedBehind, CleanEnds, StartGoesOn, StartScheduler
  <2>5. ClosedInOrder'
    BY <1>2 DEF Orderly, StartFirst, ClosedInOrder, Scheduled, StartGoesOn, StartScheduler
  <2>6. QED BY <2>2, <2>3, <2>4, <2>5 DEF Orderly
<1>3. QED BY <1>1, <1>2

\* The steps of one serve.
LEMMA ServeKeeps ==
    ASSUME Orderly, NEW s \in AllServers,
           \/ Notify(s) \/ Listen(s) \/ ListenFails(s) \/ ShutDown(s) \/ Drained(s) \/ Deadline(s)
           \/ StopScheduler(s) \/ RunsEnded(s) \/ RunsLate(s) \/ Return(s)
    PROVE  Orderly'
<1> USE DEF Orderly, Go, Serving
<1>0. servers \subseteq AllServers
  BY DEF TypeOK, AllServers
<1>1. CASE Notify(s)
  BY <1>1 DEF TypeOK, StartFirst, TakesWhileServing, EndedBehind, ClosedInOrder, CleanEnds, Notify
<1>2. CASE Listen(s) \/ ListenFails(s)
  <2>1. TypeOK'
    BY <1>2 DEF TypeOK, Listen, ListenFails
  <2>2. StartFirst' /\ TakesWhileServing' /\ EndedBehind' /\ CleanEnds'
    BY <1>2 DEF TypeOK, StartFirst, TakesWhileServing, EndedBehind, CleanEnds, Listen, ListenFails
  <2>3. ClosedInOrder'
    BY <1>0, <1>2 DEF TypeOK, ClosedInOrder, Listen, ListenFails
  <2>4. QED BY <2>1, <2>2, <2>3
<1>3. CASE ShutDown(s)
  <2>1. TypeOK'
    BY <1>3 DEF TypeOK, ShutDown
  <2>2. StartFirst' /\ TakesWhileServing' /\ EndedBehind' /\ CleanEnds'
    BY <1>3 DEF TypeOK, StartFirst, TakesWhileServing, EndedBehind, CleanEnds, ShutDown
  <2>3. ClosedInOrder'
    BY <1>0, <1>3 DEF TypeOK, ClosedInOrder, ShutDown
  <2>4. QED BY <2>1, <2>2, <2>3
<1>4. CASE Drained(s) \/ Deadline(s)
  <2>1. TypeOK'
    BY <1>4 DEF TypeOK, Drained, Deadline
  <2>2. StartFirst' /\ TakesWhileServing' /\ EndedBehind' /\ CleanEnds'
    BY <1>4 DEF TypeOK, StartFirst, TakesWhileServing, EndedBehind, CleanEnds, Drained, Deadline
  <2>3. ClosedInOrder'
    BY <1>0, <1>4 DEF TypeOK, ClosedInOrder, Drained, Deadline
  <2>4. QED BY <2>1, <2>2, <2>3
<1>5. CASE StopScheduler(s)
  <2>1. TypeOK'
    BY <1>5 DEF TypeOK, StopScheduler
  <2>2. StartFirst' /\ TakesWhileServing' /\ EndedBehind' /\ CleanEnds'
    BY <1>5 DEF TypeOK, StartFirst, TakesWhileServing, EndedBehind, CleanEnds, Scheduled, StopScheduler
  <2>3. s \in servers /\ active[s] = {}
    BY <1>5 DEF TypeOK, TakesWhileServing, EndedBehind, StopScheduler
  <2>4. ClosedInOrder'
    BY <1>0, <1>5, <2>3 DEF TypeOK, ClosedInOrder, StopScheduler
  <2>5. QED BY <2>1, <2>2, <2>4
<1>6. CASE RunsEnded(s) \/ RunsLate(s)
  <2>1. TypeOK'
    BY <1>6 DEF TypeOK, RunsEnded, RunsLate
  <2>2. StartFirst' /\ TakesWhileServing' /\ EndedBehind' /\ CleanEnds'
    BY <1>6 DEF TypeOK, StartFirst, TakesWhileServing, EndedBehind, CleanEnds, RunsEnded, RunsLate
  <2>3. scheduler = "down"
    BY <1>6 DEF EndedBehind, RunsEnded, RunsLate
  <2>4. ClosedInOrder'
    BY <1>0, <1>6, <2>3 DEF TypeOK, ClosedInOrder, RunsEnded, RunsLate
  <2>5. QED BY <2>1, <2>2, <2>4
<1>7. CASE Return(s)
  <2>1. TypeOK'
    BY <1>7 DEF TypeOK, Return
  <2>2. StartFirst' /\ TakesWhileServing'
    BY <1>7 DEF TypeOK, StartFirst, TakesWhileServing, Return
  <2>3. EndedBehind'
    <3>1. CASE at[s] = "failed"
      BY <1>7, <3>1 DEF EndedBehind, Return
    <3>2. CASE at[s] = "done"
      BY <1>7, <3>2 DEF TypeOK, EndedBehind, Return
    <3>3. QED BY <1>7, <3>1, <3>2 DEF Return
  <2>4. ClosedInOrder'
    BY <1>0, <1>7 DEF TypeOK, ClosedInOrder, Return
  <2>5. CleanEnds'
    <3>1. CASE at[s] = "done" /\ \A q \in servers \ {s} : at[q] = "ended"
      <4>1. \A q \in AllServers : active[q] = {}
        BY <1>7, <3>1 DEF TakesWhileServing, EndedBehind, Return
      <4>2. running = {}
        BY <1>7, <3>1 DEF EndedBehind, Return
      <4>3. QED BY <1>7, <4>1, <4>2 DEF CleanEnds, Return
    <3>2. CASE ~(at[s] = "done" /\ \A q \in servers \ {s} : at[q] = "ended")
      BY <1>7, <3>2 DEF CleanEnds, Return
    <3>3. QED BY <3>1, <3>2
  <2>6. QED BY <2>1, <2>2, <2>3, <2>4, <2>5
<1>8. QED BY <1>1, <1>2, <1>3, <1>4, <1>5, <1>6, <1>7

LEMMA OrderlyStep == Orderly /\ [Next]_vars => Orderly'
<1> SUFFICES ASSUME Orderly, [Next]_vars PROVE Orderly'
  OBVIOUS
<1>1. CASE Next
  BY <1>1, ArrivalsKeep, StartKeeps, ServeKeeps DEF Next
<1>2. CASE UNCHANGED vars
  BY <1>2 DEF vars, Orderly, TypeOK, StartFirst, TakesWhileServing, EndedBehind, ClosedInOrder,
              CleanEnds
<1>3. QED BY <1>1, <1>2

LEMMA AlwaysOrderly == Spec => []Orderly
BY OrderlyInit, OrderlyStep, PTL DEF Spec

-------------------------------------------------------------------------------
\* Every reachable state of the process is well typed; a serve that is through
\* with its server was told to stop (server.go:132-160).
THEOREM TypeCorrect == Spec => []TypeOK
<1>1. Orderly => TypeOK
  BY DEF Orderly
<1>2. QED BY <1>1, AlwaysOrderly, PTL

\* With one server no request in progress loses the scheduler or the statements,
\* whatever fails and whenever the signal comes (server.go:140, 157-171).
THEOREM RequestsAreServed == Spec => []RequestsServed
<1>1. Orderly => RequestsServed
  <2> SUFFICES ASSUME Orderly, process = "up", servers = {App}, active[App] # {}
               PROVE  statements = "prepared" /\ scheduler = "up"
    BY DEF RequestsServed
  <2>1. stage = "serve" /\ scheduler # "none" /\ statements # "none"
    BY DEF Orderly, StartFirst, TakesWhileServing, AllServers, Scheduled
  <2>2. scheduler # "down"
    BY DEF Orderly, ClosedInOrder
  <2>3. statements # "closed"
    BY <2>2 DEF Orderly, ClosedInOrder
  <2>4. QED BY <2>1, <2>2, <2>3 DEF Orderly, TypeOK
<1>2. QED BY <1>1, AlwaysOrderly, PTL

\* With one server or two, a run in progress keeps its statements, unless a
\* Shutdown of the scheduler gave it up (server.go:161-170).
THEOREM RunsAreServed == Spec => []RunsServed
<1>1. Orderly => RunsServed
  <2> SUFFICES ASSUME Orderly, running # {}, ~gaveUp PROVE statements = "prepared"
    BY DEF RunsServed
  <2>1. statements # "none"
    BY DEF Orderly, StartFirst, Scheduled
  <2>2. statements # "closed"
    BY DEF Orderly, ClosedInOrder
  <2>3. QED BY <2>1, <2>2 DEF Orderly, TypeOK
<1>2. QED BY <1>1, AlwaysOrderly, PTL

\* A clean end cuts off no request and no run (server.go:119-126, 157-174).
THEOREM EndsAreClean == Spec => []CleanEnds
<1>1. Orderly => CleanEnds
  BY DEF Orderly
<1>2. QED BY <1>1, AlwaysOrderly, PTL
===============================================================================
