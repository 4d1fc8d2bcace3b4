--------------------------- MODULE WorkerPoolProofs ---------------------------
(* Theorems about the two modules built on WorkerPool: NodePoll, for any nodes,
   broken ones among them, and any number of workers, changes and faults; and
   Deploy, for any clients, nodes, streams, versions and workers. *)
EXTENDS NodePoll, Deploy, FiniteSetTheorems, SequenceTheorems, TLAPS

-------------------------------------------------------------------------------
(* The worker pool: what its operations preserve, for pools of any size. *)

\* The jobs whose results the handler has not received.
Owed(pool) == pool.jobs \cup pool.busy \cup pool.results

\* A job is in one place, and the handler will receive as many results as are
\* owed to it: no result is lost, no send finds the channel full or closed.
Even(pool, Items) ==
    /\ pool \in [jobs : SUBSET Items, busy : SUBSET Items, results : SUBSET Items, left : Int]
    /\ pool.jobs \cap pool.busy = {} /\ pool.jobs \cap pool.results = {}
    /\ pool.busy \cap pool.results = {}
    /\ pool.left = Cardinality(Owed(pool))

LEMMA EvenTyped ==
    ASSUME NEW Items, IsFiniteSet(Items), NEW pool, Even(pool, Items)
    PROVE  pool \in Pools(Items) /\ IsFiniteSet(Owed(pool))
<1>1. Owed(pool) \subseteq Items
  BY DEF Even, Owed
<1>2. IsFiniteSet(Owed(pool)) /\ Cardinality(Owed(pool)) <= Cardinality(Items)
  BY <1>1, FS_Subset
<1>3. Cardinality(Owed(pool)) \in Nat /\ Cardinality(Items) \in Nat
  BY <1>2, FS_CardinalityType
<1>4. pool.left \in 0..Cardinality(Items)
  BY <1>2, <1>3 DEF Even
<1>5. QED BY <1>2, <1>4 DEF Even, Pools

LEMMA StartedEven ==
    ASSUME NEW Items, IsFiniteSet(Items), NEW items \in SUBSET Items
    PROVE  Even(Started(items), Items) /\ Owed(Started(items)) = items
<1>1. Owed(Started(items)) = items /\ Cardinality(items) \in Int
  BY FS_Subset, FS_CardinalityType DEF Owed, Started, Idle
<1>2. QED BY <1>1 DEF Even, Started, Idle

\* No job, no pool: the handler has all it waited for.
LEMMA IdleEven ==
    ASSUME NEW Items, IsFiniteSet(Items)
    PROVE  Even(Idle, Items)
<1>1. Owed(Idle) = {} /\ Cardinality({}) = 0
  BY FS_EmptySet DEF Idle, Owed
<1>2. QED BY <1>1 DEF Even, Idle

LEMMA TakeEven ==
    ASSUME NEW Items, NEW pool, Even(pool, Items), NEW item \in pool.jobs
    PROVE  Even(Take(pool, item), Items) /\ Owed(Take(pool, item)) = Owed(pool)
<1>1. Owed(Take(pool, item)) = Owed(pool)
  BY DEF Take, Even, Owed
<1>2. QED BY <1>1 DEF Take, Even

LEMMA SendEven ==
    ASSUME NEW Items, NEW pool, Even(pool, Items), NEW item \in pool.busy
    PROVE  Even(Send(pool, item), Items) /\ Owed(Send(pool, item)) = Owed(pool)
<1>1. Owed(Send(pool, item)) = Owed(pool)
  BY DEF Send, Even, Owed
<1>2. QED BY <1>1 DEF Send, Even

LEMMA ReceiveEven ==
    ASSUME NEW Items, IsFiniteSet(Items), NEW pool, Even(pool, Items), NEW item \in pool.results
    PROVE  Even(Receive(pool, item), Items) /\ Owed(Receive(pool, item)) = Owed(pool) \ {item}
<1>1. Owed(Receive(pool, item)) = Owed(pool) \ {item} /\ item \in Owed(pool)
  BY DEF Receive, Even, Owed
<1>2. Cardinality(Owed(pool) \ {item}) = Cardinality(Owed(pool)) - 1
  BY <1>1, EvenTyped, FS_RemoveElement
<1>3. pool.left - 1 \in Int /\ pool.left - 1 = Cardinality(Owed(Receive(pool, item)))
  BY <1>1, <1>2 DEF Even
<1>4. QED BY <1>1, <1>3 DEF Receive, Even

\* A handler that has received as many results as there were jobs leaves no job
\* in the channel, no worker at work and no result behind (handlers.go:209-212,
\* deploy.go:180-190).
LEMMA CollectedAll ==
    ASSUME NEW Items, IsFiniteSet(Items), NEW pool, Even(pool, Items), Collected(pool)
    PROVE  pool = Idle /\ Owed(pool) = {}
<1>1. Owed(pool) = {}
  BY EvenTyped, FS_EmptySet DEF Even, Collected
<1>2. QED BY <1>1 DEF Even, Owed, Collected, Idle

-------------------------------------------------------------------------------
(* NodePoll: the cycle and the page. *)

\* A node that was well all along is somewhere in the cycle until it is polled.
CycleOnTrack ==
    /\ steady \subseteq nodes \ Broken /\ \A n \in steady : health[n] = "up"
    /\ cycle.at # "poll" => cycle.active = {}
    /\ cycle.at = "ping" => steady \subseteq cycle.todo \cup {cycle.asking} \cup cycle.online
    /\ cycle.at = "poll" => steady \subseteq cycle.online \cup cycle.active \cup cycle.polled

\* A page has shown, or is owed, what it listed.
PageOnTrack ==
    /\ Even(page.pool, Nodes)
    /\ page.at # "gather" => page.pool = Idle /\ page.shown = {}
    /\ page.at = "gather" => page.shown \cup Owed(page.pool) = page.listed

OnTrack == PollTypeOK /\ CycleOnTrack /\ PageOnTrack

Stages == {"idle", "list", "ping", "poll"}

LEMMA CycleTyped ==
    ASSUME PollTypeOK
    PROVE  /\ cycle \in Cycles
           /\ cycle.at \in Stages /\ cycle.asking \in Nodes \cup {NoNode}
           /\ cycle.todo \subseteq Nodes /\ cycle.online \subseteq Nodes
           /\ cycle.active \subseteq Nodes /\ cycle.polled \subseteq Nodes
BY DEF PollTypeOK, Cycles, Stages

LEMMA IdleCycleTyped ==
    /\ IdleCycle \in Cycles /\ IdleCycle.at = "idle" /\ IdleCycle.active = {}
    /\ [IdleCycle EXCEPT !.at = "list"] \in Cycles
    /\ [IdleCycle EXCEPT !.at = "list"].at = "list" /\ [IdleCycle EXCEPT !.at = "list"].active = {}
BY DEF IdleCycle, Cycles

\* What is left to show of a step of the cycle that does not touch the page.
LEMMA CycleMoves ==
    ASSUME OnTrack, cycle' \in Cycles, faults' \in 0..MaxFaults, steady' \subseteq Nodes,
           UNCHANGED <<nodes, health, page, changes>>, CycleOnTrack'
    PROVE  OnTrack'
BY DEF OnTrack, PollTypeOK, PageOnTrack

LEMMA PageMoves ==
    ASSUME OnTrack, page' \in Pages, faults' \in 0..MaxFaults,
           UNCHANGED <<nodes, health, cycle, changes, steady>>, PageOnTrack'
    PROVE  OnTrack'
BY DEF OnTrack, PollTypeOK, CycleOnTrack

-------------------------------------------------------------------------------
(* The cycle. *)

LEMMA FireKeeps == ASSUME OnTrack, Fire PROVE OnTrack'
<1>1. /\ cycle' \in Cycles /\ cycle'.at = "list" /\ cycle'.active = {}
      /\ UNCHANGED <<nodes, health, page, changes, faults, steady>>
  BY IdleCycleTyped DEF Fire
<1>2. CycleOnTrack'
  BY <1>1 DEF OnTrack, CycleOnTrack
<1>3. QED BY <1>1, <1>2, CycleMoves DEF OnTrack, PollTypeOK

LEMMA ListKeeps == ASSUME OnTrack, ListNodes PROVE OnTrack'
<1>1. /\ cycle' \in Cycles /\ cycle'.at = "ping" /\ cycle'.active = {} /\ cycle'.todo = nodes
      /\ steady' = {n \in nodes : health[n] = "up"} \ Broken
      /\ UNCHANGED <<nodes, health, page, changes, faults>>
  BY CycleTyped DEF OnTrack, PollTypeOK, CycleOnTrack, Cycles, ListNodes
<1>2. CycleOnTrack' /\ steady' \subseteq Nodes
  BY <1>1 DEF OnTrack, PollTypeOK, CycleOnTrack
<1>3. QED BY <1>1, <1>2, CycleMoves DEF OnTrack, PollTypeOK

LEMMA AskKeeps == ASSUME OnTrack, NEW n \in Nodes, AskStatus(n) PROVE OnTrack'
<1>0. /\ cycle.at = "ping" /\ cycle.asking = NoNode
      /\ UNCHANGED <<nodes, health, page, changes, faults, steady>>
  BY DEF AskStatus
<1>1. CASE cycle' = [[cycle EXCEPT !.todo = @ \ {n}] EXCEPT !.asking = n]
  <2>1. /\ cycle' \in Cycles /\ cycle'.at = "ping" /\ cycle'.todo = cycle.todo \ {n}
        /\ cycle'.asking = n /\ cycle'.online = cycle.online /\ cycle'.active = cycle.active
    BY <1>0, <1>1, CycleTyped DEF OnTrack, Cycles
  <2>2. CycleOnTrack'
    BY <1>0, <2>1, BrokenAssumption DEF OnTrack, PollTypeOK, CycleOnTrack
  <2>3. QED BY <1>0, <2>1, <2>2, CycleMoves DEF OnTrack, PollTypeOK
<1>2. CASE cycle' = IdleCycle
  <2>1. CycleOnTrack'
    BY <1>0, <1>2, IdleCycleTyped DEF OnTrack, CycleOnTrack
  <2>2. QED BY <1>0, <1>2, <2>1, IdleCycleTyped, CycleMoves DEF OnTrack, PollTypeOK
<1>3. QED BY <1>1, <1>2 DEF AskStatus

LEMMA AnsweredKeeps == ASSUME OnTrack, StatusAnswered PROVE OnTrack'
<1>0. /\ cycle.at = "ping" /\ cycle.asking # NoNode
      /\ UNCHANGED <<nodes, health, page, changes, faults, steady>>
      /\ cycle' = [[cycle EXCEPT !.asking = NoNode] EXCEPT
                    !.online = IF health[cycle.asking] = "up" THEN @ \cup {cycle.asking} ELSE @]
  BY DEF StatusAnswered
<1>1. /\ cycle' \in Cycles /\ cycle'.at = "ping" /\ cycle'.todo = cycle.todo
      /\ cycle'.active = cycle.active /\ cycle.online \subseteq cycle'.online
      /\ health[cycle.asking] = "up" => cycle.asking \in cycle'.online
  BY <1>0, CycleTyped DEF OnTrack, Cycles
<1>2. CycleOnTrack'
  BY <1>0, <1>1 DEF OnTrack, CycleOnTrack
<1>3. QED BY <1>0, <1>1, <1>2, CycleMoves DEF OnTrack, PollTypeOK

LEMMA AllAskedKeeps == ASSUME OnTrack, AllAsked PROVE OnTrack'
<1>0. /\ cycle.at = "ping" /\ cycle.asking = NoNode /\ cycle.todo = {}
      /\ UNCHANGED <<nodes, health, page, changes, faults, steady>>
  BY DEF AllAsked
<1>1. /\ cycle' \in Cycles /\ cycle'.at = "poll" /\ cycle'.online = cycle.online
      /\ cycle'.active = cycle.active /\ cycle'.polled = cycle.polled
  BY CycleTyped DEF OnTrack, AllAsked, Cycles
<1>2. CycleOnTrack'
  BY <1>0, <1>1, BrokenAssumption DEF OnTrack, PollTypeOK, CycleOnTrack
<1>3. QED BY <1>0, <1>1, <1>2, CycleMoves DEF OnTrack, PollTypeOK

LEMMA StartKeeps == ASSUME OnTrack, NEW n \in Nodes, StartPoll(n) PROVE OnTrack'
<1>0. /\ cycle.at = "poll" /\ UNCHANGED <<nodes, health, page, changes, faults, steady>>
  BY DEF StartPoll
<1>1. /\ cycle' \in Cycles /\ cycle'.at = "poll" /\ cycle'.online = cycle.online \ {n}
      /\ cycle'.active = cycle.active \cup {n} /\ cycle'.polled = cycle.polled
  BY CycleTyped DEF OnTrack, StartPoll, Cycles
<1>2. CycleOnTrack'
  BY <1>0, <1>1 DEF OnTrack, CycleOnTrack
<1>3. QED BY <1>0, <1>1, <1>2, CycleMoves DEF OnTrack, PollTypeOK

LEMMA EndKeeps == ASSUME OnTrack, NEW n \in Nodes, EndPoll(n) PROVE OnTrack'
<1>0. /\ n \in cycle.active /\ cycle.at = "poll"
      /\ UNCHANGED <<nodes, health, page, changes, faults, steady>>
      /\ cycle' = [[cycle EXCEPT !.active = @ \ {n}] EXCEPT
                    !.polled = IF Requestable(n) /\ health[n] = "up" THEN @ \cup {n} ELSE @]
  BY DEF OnTrack, CycleOnTrack, EndPoll
<1>1. /\ cycle' \in Cycles /\ cycle'.at = "poll" /\ cycle'.online = cycle.online
      /\ cycle'.active = cycle.active \ {n} /\ cycle.polled \subseteq cycle'.polled
      /\ Requestable(n) /\ health[n] = "up" => n \in cycle'.polled
  BY <1>0, CycleTyped DEF OnTrack, Cycles
<1>2. CycleOnTrack'
  BY <1>0, <1>1 DEF OnTrack, CycleOnTrack, Requestable
<1>3. QED BY <1>0, <1>1, <1>2, CycleMoves DEF OnTrack, PollTypeOK

LEMMA OverKeeps == ASSUME OnTrack, Wait \/ CycleStatementFails PROVE OnTrack'
<1>1. /\ cycle' \in Cycles /\ cycle'.at = "idle" /\ cycle'.active = {}
      /\ UNCHANGED <<nodes, health, page, changes, steady>> /\ faults' \in 0..MaxFaults
  BY IdleCycleTyped, BoundsAssumption DEF OnTrack, PollTypeOK, Wait, CycleStatementFails
<1>2. CycleOnTrack'
  BY <1>1 DEF OnTrack, CycleOnTrack
<1>3. QED BY <1>1, <1>2, CycleMoves DEF OnTrack, PollTypeOK

LEMMA PollFailsKeeps == ASSUME OnTrack, NEW n \in Nodes, PollStatementFails(n) PROVE OnTrack'
<1>0. /\ n \in cycle.active /\ cycle.at = "poll" /\ steady' = steady \ {n}
      /\ UNCHANGED <<nodes, health, page, changes>> /\ faults' \in 0..MaxFaults
  BY BoundsAssumption DEF OnTrack, PollTypeOK, CycleOnTrack, PollStatementFails
<1>1. /\ cycle' \in Cycles /\ cycle'.at = "poll" /\ cycle'.online = cycle.online
      /\ cycle'.active = cycle.active \ {n} /\ cycle'.polled = cycle.polled
  BY <1>0, CycleTyped DEF OnTrack, PollStatementFails, Cycles
<1>2. CycleOnTrack'
  BY <1>0, <1>1 DEF OnTrack, CycleOnTrack
<1>3. QED BY <1>0, <1>1, <1>2, CycleMoves DEF OnTrack, PollTypeOK

-------------------------------------------------------------------------------
(* The page. *)

LEMMA PageTyped ==
    ASSUME PollTypeOK
    PROVE  /\ page \in Pages /\ page.at \in {"idle", "list", "gather"}
           /\ page.listed \subseteq Nodes /\ page.pool \in Pools(Nodes) /\ page.shown \subseteq Nodes
BY DEF PollTypeOK, Pages

LEMMA IdlePageTyped ==
    /\ IdlePage \in Pages /\ IdlePage.at = "idle" /\ IdlePage.pool = Idle /\ IdlePage.shown = {}
    /\ Even(Idle, Nodes) /\ Idle \in Pools(Nodes)
<1>1. Even(Idle, Nodes) /\ Idle \in Pools(Nodes)
  BY NodesAssumption, IdleEven, EvenTyped
<1>2. QED BY <1>1 DEF IdlePage, Pages

LEMMA LoadKeeps == ASSUME OnTrack, LoadPage \/ PageFails \/ PageAnswers PROVE OnTrack'
<1>1. /\ page' \in Pages /\ page'.at # "gather" /\ page'.pool = Idle /\ page'.shown = {}
      /\ UNCHANGED <<nodes, health, cycle, changes, steady>> /\ faults' \in 0..MaxFaults
  <2>1. CASE LoadPage
    BY <2>1, IdlePageTyped DEF OnTrack, PollTypeOK, LoadPage, IdlePage, Pages
  <2>2. CASE PageFails
    BY <2>2, IdlePageTyped, BoundsAssumption DEF OnTrack, PollTypeOK, PageFails
  <2>3. CASE PageAnswers
    <3>1. page.pool = Idle
      BY <2>3, NodesAssumption, CollectedAll DEF OnTrack, PageOnTrack, PageAnswers
    <3>2. page' = [IdlePage EXCEPT !.pool = Idle]
          /\ UNCHANGED <<nodes, health, cycle, changes, faults, steady>>
      BY <2>3, <3>1 DEF PageAnswers
    <3>3. QED BY <3>2, IdlePageTyped DEF OnTrack, PollTypeOK, IdlePage, Pages
  <2>4. QED BY <2>1, <2>2, <2>3
<1>2. PageOnTrack'
  BY <1>1, IdlePageTyped DEF PageOnTrack
<1>3. QED BY <1>1, <1>2, PageMoves

LEMMA ListsKeeps == ASSUME OnTrack, PageLists PROVE OnTrack'
<1> DEFINE pool == Started(nodes)
<1>1. Even(pool, Nodes) /\ Owed(pool) = nodes /\ pool \in Pools(Nodes)
  BY NodesAssumption, StartedEven, EvenTyped DEF OnTrack, PollTypeOK
<1>2. /\ page' = [[[page EXCEPT !.at = "gather"] EXCEPT !.listed = nodes] EXCEPT !.pool = pool]
      /\ page.at = "list" /\ UNCHANGED <<nodes, health, cycle, changes, faults, steady>>
  BY DEF PageLists
<1> HIDE DEF pool
<1>3. /\ page' \in Pages /\ page'.at = "gather" /\ page'.listed = nodes /\ page'.pool = pool
      /\ page'.shown = page.shown
  BY <1>1, <1>2, PageTyped DEF OnTrack, PollTypeOK, Pages
<1>4. page.shown = {}
  BY <1>2 DEF OnTrack, PageOnTrack
<1>5. PageOnTrack'
  BY <1>1, <1>3, <1>4 DEF PageOnTrack
<1>6. QED BY <1>2, <1>3, <1>5, PageMoves DEF OnTrack, PollTypeOK

LEMMA PageWorkerKeeps == ASSUME OnTrack, NEW n \in Nodes, PageTakes(n) \/ PageSends(n) PROVE OnTrack'
<1>1. PICK pool : /\ Even(pool, Nodes) /\ Owed(pool) = Owed(page.pool)
                  /\ page' = [page EXCEPT !.pool = pool]
                  /\ n \in page.pool.jobs \cup page.pool.busy
  <2>1. CASE PageTakes(n)
    BY <2>1, NodesAssumption, TakeEven DEF OnTrack, PageOnTrack, PageTakes, MayTake
  <2>2. CASE PageSends(n)
    BY <2>2, NodesAssumption, SendEven DEF OnTrack, PageOnTrack, PageSends
  <2>3. QED BY <2>1, <2>2
<1>2. page.at = "gather" /\ pool \in Pools(Nodes)
  BY <1>1, NodesAssumption, EvenTyped DEF OnTrack, PageOnTrack, Idle
<1>3. /\ page' \in Pages /\ page'.at = "gather" /\ page'.listed = page.listed /\ page'.pool = pool
      /\ page'.shown = page.shown
  BY <1>1, <1>2, PageTyped DEF OnTrack, Pages
<1>4. UNCHANGED <<nodes, health, cycle, changes, faults, steady>>
  BY DEF PageTakes, PageSends
<1>5. PageOnTrack'
  BY <1>1, <1>2, <1>3 DEF OnTrack, PageOnTrack
<1>6. QED BY <1>3, <1>4, <1>5, PageMoves DEF OnTrack, PollTypeOK

LEMMA PageReceivesKeeps == ASSUME OnTrack, NEW n \in Nodes, PageReceives(n) PROVE OnTrack'
<1>0. /\ page.at = "gather" /\ n \in page.pool.results /\ Even(page.pool, Nodes)
      /\ UNCHANGED <<nodes, health, cycle, changes, faults, steady>>
  BY DEF OnTrack, PageOnTrack, PageReceives
<1> DEFINE pool == Receive(page.pool, n)
<1>1. Even(pool, Nodes) /\ Owed(pool) = Owed(page.pool) \ {n} /\ n \in Owed(page.pool)
  BY <1>0, NodesAssumption, ReceiveEven DEF Owed
<1>2. pool \in Pools(Nodes)
  BY <1>1, NodesAssumption, EvenTyped
<1>3. page' = [[page EXCEPT !.pool = pool] EXCEPT !.shown = @ \cup {n}]
  BY DEF PageReceives
<1> HIDE DEF pool
<1>4. /\ page' \in Pages /\ page'.at = "gather" /\ page'.listed = page.listed /\ page'.pool = pool
      /\ page'.shown = page.shown \cup {n}
  BY <1>0, <1>2, <1>3, PageTyped DEF OnTrack, Pages
<1>5. page.shown \cup Owed(page.pool) = page.listed
  BY <1>0 DEF OnTrack, PageOnTrack
<1>6. PageOnTrack'
  BY <1>1, <1>4, <1>5 DEF PageOnTrack
<1>7. QED BY <1>0, <1>4, <1>6, PageMoves DEF OnTrack, PollTypeOK

-------------------------------------------------------------------------------
(* NodePoll: the nodes, and the invariant. *)

LEMMA ChangeKeeps ==
    ASSUME OnTrack, NEW to \in SUBSET Nodes, ChangeNodes(to)
    PROVE  OnTrack'
BY BoundsAssumption DEF OnTrack, PollTypeOK, CycleOnTrack, PageOnTrack, ChangeNodes

LEMMA TurnsKeeps ==
    ASSUME OnTrack, NEW n \in Nodes, NEW how \in Health, Turns(n, how)
    PROVE  OnTrack'
BY DEF OnTrack, PollTypeOK, CycleOnTrack, PageOnTrack, Turns

LEMMA OnTrackFirst == PollInit => OnTrack
<1> SUFFICES ASSUME PollInit PROVE OnTrack
  OBVIOUS
<1>1. PollTypeOK
  BY IdleCycleTyped, IdlePageTyped, BoundsAssumption DEF PollInit, PollTypeOK, Health
<1>2. CycleOnTrack
  BY IdleCycleTyped DEF PollInit, CycleOnTrack
<1>3. PageOnTrack
  BY IdlePageTyped DEF PollInit, PageOnTrack
<1>4. QED BY <1>1, <1>2, <1>3 DEF OnTrack

LEMMA OnTrackNext == OnTrack /\ [PollNext]_pollVars => OnTrack'
<1> SUFFICES ASSUME OnTrack, [PollNext]_pollVars PROVE OnTrack'
  OBVIOUS
<1>1. ASSUME CycleStep PROVE OnTrack'
  BY <1>1, ListKeeps, AnsweredKeeps, AllAskedKeeps, OverKeeps, AskKeeps, StartKeeps, EndKeeps
     DEF CycleStep
<1>2. ASSUME PageStep PROVE OnTrack'
  BY <1>2, ListsKeeps, LoadKeeps, PageWorkerKeeps, PageReceivesKeeps DEF PageStep
<1>3. ASSUME NEW n \in Nodes, NEW name \in Nodes,
             AddNode(n) \/ DeleteNode(n) \/ RenameNode(n, name)
      PROVE  OnTrack'
  <2>1. nodes \subseteq Nodes
    BY DEF OnTrack, PollTypeOK
  <2>2. QED BY <1>3, <2>1, ChangeKeeps DEF AddNode, DeleteNode, RenameNode
<1>4. CASE UNCHANGED pollVars
  BY <1>4 DEF pollVars, OnTrack, PollTypeOK, CycleOnTrack, PageOnTrack
<1>5. QED BY <1>1, <1>2, <1>3, <1>4, FireKeeps, LoadKeeps, OverKeeps, PollFailsKeeps, TurnsKeeps
     DEF PollNext

LEMMA AlwaysOnTrack == PollSpec => []OnTrack
BY OnTrackFirst, OnTrackNext, PTL DEF PollSpec

-------------------------------------------------------------------------------
(* NodePoll: the theorems. *)

\* The cycle and the page are always what their declarations say
\* (polling.go:250-302, handlers.go:194-226).
THEOREM PollTypeCorrect == PollSpec => []PollTypeOK
<1>1. OnTrack => PollTypeOK
  BY DEF OnTrack
<1>2. QED BY <1>1, AlwaysOnTrack, PTL

\* A page that is not being gathered has no worker and nothing in its channels
\* (handlers.go:201-212).
THEOREM PagesDrain == PollSpec => []PageDrained
<1>1. OnTrack => PageDrained
  BY DEF OnTrack, PageOnTrack, PageDrained
<1>2. QED BY <1>1, AlwaysOnTrack, PTL

\* Every page shows each node it read, for any number of nodes and workers
\* (handlers.go:207-216).
THEOREM PagesAreComplete == PollSpec => PageComplete
<1>1. ASSUME OnTrack, [PollNext]_pollVars, page.at = "gather", page'.at = "idle"
      PROVE  page.shown = page.listed
  <2>1. PageAnswers
    <3>1. page'.at # page.at
      BY <1>1
    <3>2. ~UNCHANGED page
      BY <3>1
    <3>3. \A n \in Nodes : ~(PageTakes(n) \/ PageSends(n) \/ PageReceives(n))
      BY <1>1, PageTyped DEF OnTrack, Pages, PageTakes, PageSends, PageReceives
    <3>4. ~(LoadPage \/ PageLists \/ PageFails)
      BY <1>1 DEF LoadPage, PageLists, PageFails
    <3>5. PageAnswers \/ UNCHANGED page
      BY <1>1, <3>3, <3>4 DEF PollNext, pollVars, Fire, CycleStep, ListNodes, AskStatus,
         StatusAnswered, AllAsked, StartPoll, EndPoll, Wait, CycleStatementFails, PollStatementFails, PageStep,
         AddNode, DeleteNode, RenameNode, ChangeNodes, Turns
    <3>6. QED BY <3>2, <3>5
  <2>2. Owed(page.pool) = {}
    <3>1. Even(page.pool, Nodes) /\ Collected(page.pool)
      BY <1>1, <2>1 DEF OnTrack, PageOnTrack, PageAnswers
    <3>2. QED BY <3>1, NodesAssumption, CollectedAll
  <2>3. QED BY <1>1, <2>2 DEF OnTrack, PageOnTrack
<1>2. OnTrack /\ [PollNext]_pollVars
        => [page.at = "gather" /\ page'.at = "idle" => page.shown = page.listed]_pollVars
  BY <1>1
<1>3. QED BY <1>2, AlwaysOnTrack, PTL DEF PollSpec, PageComplete

\* No change of the nodes, dead node, panic or failing worker makes a cycle that
\* ends leave out a node that was well all along (polling.go:250-302).
THEOREM CyclesCover == PollSpec => CycleCovers
<1>1. ASSUME OnTrack, [PollNext]_pollVars, cycle.at = "poll", cycle'.at = "idle"
      PROVE  steady \subseteq cycle.polled
  <2>1. Wait
    <3>1. ~UNCHANGED cycle
      BY <1>1
    <3>2. \A n \in Nodes : ~(StartPoll(n) \/ EndPoll(n) \/ PollStatementFails(n) \/ AskStatus(n))
      BY <1>1, CycleTyped DEF OnTrack, Cycles, StartPoll, EndPoll, PollStatementFails, AskStatus
    <3>3. ~(Fire \/ ListNodes \/ StatusAnswered \/ AllAsked \/ CycleStatementFails)
      BY <1>1 DEF Fire, ListNodes, StatusAnswered, AllAsked, CycleStatementFails
    <3>4. Wait \/ UNCHANGED cycle
      BY <1>1, <3>2, <3>3 DEF PollNext, pollVars, CycleStep, LoadPage, PageStep, PageLists, PageFails,
         PageTakes, PageSends, PageReceives, PageAnswers, AddNode, DeleteNode, RenameNode, ChangeNodes, Turns
    <3>5. QED BY <3>1, <3>4
  <2>2. QED BY <1>1, <2>1 DEF OnTrack, CycleOnTrack, Wait
<1>2. OnTrack /\ [PollNext]_pollVars
        => [cycle.at = "poll" /\ cycle'.at = "idle" => steady \subseteq cycle.polled]_pollVars
  BY <1>1
<1>3. QED BY <1>2, AlwaysOnTrack, PTL DEF PollSpec, CycleCovers

-------------------------------------------------------------------------------
(* Deploy: streams, pages and logs. *)

Holding == {"read", "build", "deploy"}

\* A stream's handler is where its mutex, its pool and its results say.
Fit(s) ==
    /\ Even(stream[s].pool, Nodes)
    /\ stream[s].at # "new" =>
        /\ stream[s].version \in Versions /\ chosen[stream[s].version] # {}
        /\ Later(stream[s].client, stream[s].shown, stream[s].version)
    /\ stream[s].at \in Holding <=> mu = s
    /\ stream[s].at # "deploy" => stream[s].pool = Idle
    /\ stream[s].at \notin {"deploy", "complete", "failed"} =>
        stream[s].landed = {} /\ stream[s].sent = {}
    /\ stream[s].at = "deploy" =>
        stream[s].sent \cup Owed(stream[s].pool) = chosen[stream[s].version]
    /\ stream[s].at = "complete" => stream[s].sent = chosen[stream[s].version]

\* A client's cookie is the form it was answered last.
PagesFit ==
    \A c \in Clients : pages[c] # <<>> =>
        cookie[c] = pages[c][Len(pages[c])] /\ chosen[cookie[c]] # {}

\* A node has an egg once, only from a stream that knows it landed there, and
\* what the open deployment sent came last.
LogsFit ==
    \A n \in Nodes : \A i \in DOMAIN log[n] :
        /\ n \in stream[log[n][i]].landed
        /\ \A j \in DOMAIN log[n] : log[n][i] = log[n][j] => i = j
        /\ log[n][i] = mu => i = Len(log[n])

Ordered == TypeOK /\ (\A s \in Streams : Fit(s)) /\ PagesFit /\ LogsFit /\ NodesAgree

\* A step that leaves a stream and its hold on the mutex alone.
Beside(s) ==
    /\ stream'[s] = stream[s] /\ (mu' = s <=> mu = s)
    /\ \A v \in Versions : chosen[v] # {} => chosen'[v] = chosen[v]
    /\ \A c \in Clients, v, w \in Versions \cup {NoVersion} : Later(c, v, w) => Later(c, v, w)'

LEMMA BesideFits ==
    ASSUME TypeOK, NEW s \in Streams, Fit(s), Beside(s)
    PROVE  Fit(s)'
<1>1. /\ stream[s].client \in Clients /\ stream[s].version \in Versions \cup {NoVersion}
      /\ stream[s].shown \in Versions \cup {NoVersion}
  BY DEF TypeOK, Handlers
<1> HIDE DEF Later
<1>2. QED BY <1>1 DEF Fit, Beside

\* The step of one stream.
StepOf(s) ==
    /\ stream' \in [Streams -> Handlers]
    /\ \A q \in Streams \ {s} : stream'[q] = stream[q]

LEMMA StreamTyped ==
    ASSUME TypeOK, NEW s \in Streams
    PROVE  /\ stream[s] \in Handlers
           /\ stream[s].at \in {"new", "try", "wait", "read", "build", "deploy", "complete", "failed"}
           /\ stream[s].client \in Clients /\ stream[s].version \in Versions \cup {NoVersion}
           /\ stream[s].shown \in Versions \cup {NoVersion} /\ stream[s].pool \in Pools(Nodes)
           /\ stream[s].landed \subseteq Nodes /\ stream[s].sent \subseteq Nodes
BY DEF TypeOK, Handlers

LEMMA StepTyped ==
    ASSUME TypeOK, NEW s \in Streams, NEW new \in Handlers, stream' = [stream EXCEPT ![s] = new]
    PROVE  StepOf(s) /\ stream'[s] = new
BY DEF TypeOK, StepOf

\* The handler goes on to another place, with its pool, or with a new one.
LEMMA MoveTyped ==
    ASSUME TypeOK, NEW s \in Streams,
           NEW to \in {"new", "try", "wait", "read", "build", "deploy", "complete", "failed"},
           stream' = [stream EXCEPT ![s].at = to]
    PROVE  /\ StepOf(s) /\ stream'[s].at = to
           /\ stream'[s].version = stream[s].version /\ stream'[s].shown = stream[s].shown
           /\ stream'[s].client = stream[s].client
           /\ stream'[s].pool = stream[s].pool
           /\ stream'[s].landed = stream[s].landed /\ stream'[s].sent = stream[s].sent
<1> DEFINE new == [stream[s] EXCEPT !.at = to]
<1>1. new \in Handlers
  BY StreamTyped DEF Handlers
<1>2. stream' = [stream EXCEPT ![s] = new]
  BY DEF TypeOK
<1>3. StepOf(s) /\ stream'[s] = new
  BY <1>1, <1>2, StepTyped
<1>4. QED BY <1>3, StreamTyped DEF Handlers

LEMMA PoolTyped ==
    ASSUME TypeOK, NEW s \in Streams, NEW pool \in Pools(Nodes),
           stream' = [stream EXCEPT ![s].pool = pool]
    PROVE  /\ StepOf(s) /\ stream'[s].at = stream[s].at
           /\ stream'[s].version = stream[s].version /\ stream'[s].shown = stream[s].shown
           /\ stream'[s].client = stream[s].client
           /\ stream'[s].pool = pool
           /\ stream'[s].landed = stream[s].landed /\ stream'[s].sent = stream[s].sent
<1> DEFINE new == [stream[s] EXCEPT !.pool = pool]
<1>1. new \in Handlers
  BY StreamTyped DEF Handlers
<1>2. stream' = [stream EXCEPT ![s] = new]
  BY DEF TypeOK
<1>3. StepOf(s) /\ stream'[s] = new
  BY <1>1, <1>2, StepTyped
<1>4. QED BY <1>3, StreamTyped DEF Handlers

\* Nothing lands, and whoever gets the mutex has not sent anything.
LEMMA LogsKept ==
    ASSUME TypeOK, LogsFit, NodesAgree, log' = log,
           \A s \in Streams : stream'[s].landed = stream[s].landed,
           \/ mu' \in {mu, NoStream}
           \/ mu' \in Streams /\ stream[mu'].landed = {}
    PROVE  LogsFit' /\ NodesAgree'
<1>1. \A n \in Nodes : \A i \in DOMAIN log[n] : log[n][i] \in Streams
  BY ElementOfSeq, LenProperties DEF TypeOK
<1>2. ASSUME NEW n \in Nodes, NEW i \in DOMAIN log[n], log[n][i] = mu' PROVE i = Len(log[n])
  BY <1>1, <1>2, NamesAssumption DEF LogsFit
<1>3. QED BY <1>1, <1>2 DEF LogsFit, NodesAgree

-------------------------------------------------------------------------------
(* Forms and connections. *)

LEMMA SubmitKeeps ==
    ASSUME Ordered, NEW c \in Clients, NEW v \in Versions, NEW picked \in SUBSET Nodes,
           SubmitForm(c, v, picked)
    PROVE  Ordered'
<1>1. /\ chosen[v] = {} /\ picked # {} /\ UNCHANGED <<stream, mu, log>>
      /\ chosen' = [chosen EXCEPT ![v] = picked] /\ cookie' = [cookie EXCEPT ![c] = v]
      /\ pages' = [pages EXCEPT ![c] = Append(@, v)]
  BY DEF SubmitForm
<1>2. \A d \in Clients :
        /\ pages[d] \in Seq(Versions) /\ pages'[d] \in Seq(Versions)
        /\ Len(pages[d]) \in Nat /\ DOMAIN pages[d] = 1..Len(pages[d])
        /\ d # c => pages'[d] = pages[d]
  BY <1>1, AppendProperties, LenProperties DEF Ordered, TypeOK
<1>3. /\ Len(pages'[c]) = Len(pages[c]) + 1 /\ DOMAIN pages'[c] = 1..Len(pages[c]) + 1
      /\ pages'[c][Len(pages[c]) + 1] = v
      /\ \A i \in DOMAIN pages[c] : pages'[c][i] = pages[c][i]
  BY <1>1, <1>2, AppendProperties DEF Ordered, TypeOK
<1>4. TypeOK'
  BY <1>1, <1>2 DEF Ordered, TypeOK
<1>5. \A s \in Streams : Beside(s)
  <2>1. \A d \in Clients : \A i \in DOMAIN pages[d] : i \in DOMAIN pages'[d] /\ pages'[d][i] = pages[d][i]
    BY <1>2, <1>3
  <2>2. \A d \in Clients, x, w \in Versions \cup {NoVersion} : Later(d, x, w) => Later(d, x, w)'
    BY <2>1 DEF Later
  <2>3. QED BY <1>1, <2>2 DEF Ordered, TypeOK, Beside
<1>6. PagesFit'
  <2> SUFFICES ASSUME NEW d \in Clients, pages'[d] # <<>>
               PROVE  cookie'[d] = pages'[d][Len(pages'[d])] /\ chosen'[cookie'[d]] # {}
    BY DEF PagesFit
  <2>1. CASE d = c
    BY <1>1, <1>3, <2>1 DEF Ordered, TypeOK
  <2>2. CASE d # c
    <3>1. pages'[d] = pages[d] /\ cookie'[d] = cookie[d] /\ chosen[cookie[d]] # {}
          /\ cookie[d] = pages[d][Len(pages[d])]
      BY <1>1, <1>2, <2>2 DEF Ordered, TypeOK, PagesFit
    <3>2. cookie[d] # v
      BY <1>1, <3>1
    <3>3. QED BY <1>1, <3>1, <3>2 DEF Ordered, TypeOK
  <2>3. QED BY <2>1, <2>2
<1>7. LogsFit' /\ NodesAgree'
  BY <1>1, LogsKept DEF Ordered
<1>8. QED BY <1>4, <1>5, <1>6, <1>7, BesideFits DEF Ordered

\* A step of one stream that takes or gives back the mutex at most, and lands
\* nothing: what is left to show is that the stream itself fits.
LEMMA StepKeeps ==
    ASSUME Ordered, NEW s \in Streams, StepOf(s), UNCHANGED <<cookie, pages, chosen, log>>,
           stream'[s].landed = stream[s].landed,
           \/ mu' = mu
           \/ mu = s /\ mu' = NoStream
           \/ mu = NoStream /\ mu' = s /\ stream[s].landed = {},
           Fit(s)'
    PROVE  Ordered'
<1>1. TypeOK'
  BY DEF Ordered, TypeOK, StepOf
<1>2. \A q \in Streams \ {s} : Fit(q)'
  <2>1. \A q \in Streams \ {s} : Beside(q)
    BY NamesAssumption DEF StepOf, Beside, Later
  <2>2. QED BY <2>1, BesideFits DEF Ordered
<1>3. PagesFit'
  BY DEF Ordered, PagesFit
<1>4. LogsFit' /\ NodesAgree'
  <2>1. \A q \in Streams : stream'[q].landed = stream[q].landed
    BY DEF StepOf
  <2>2. QED BY <2>1, LogsKept DEF Ordered
<1>5. QED BY <1>1, <1>2, <1>3, <1>4 DEF Ordered

LEMMA ConnectKeeps ==
    ASSUME Ordered, NEW s \in Streams, NEW c \in Clients, Connect(s, c)
    PROVE  Ordered'
<1>0. TypeOK /\ Fit(s)
  BY DEF Ordered
<1>1. PICK i \in DOMAIN pages[c] :
        stream' = [stream EXCEPT ![s] = [@ EXCEPT !.at = "try", !.client = c,
                                                !.version = cookie[c], !.shown = pages[c][i]]]
  BY DEF Connect
<1> DEFINE v == pages[c][i]
<1>2. /\ stream[s].at = "new" /\ UNCHANGED <<cookie, pages, chosen, mu, log>>
      /\ v \in Versions /\ cookie[c] \in Versions /\ chosen[cookie[c]] # {}
      /\ Later(c, v, cookie[c])
  <2>1. pages[c] \in Seq(Versions) /\ Len(pages[c]) \in Nat /\ DOMAIN pages[c] = 1..Len(pages[c])
    BY <1>0, LenProperties DEF TypeOK
  <2>2. /\ pages[c] # <<>> /\ i <= Len(pages[c]) /\ Len(pages[c]) \in DOMAIN pages[c]
        /\ v \in Versions /\ pages[c][Len(pages[c])] \in Versions
    BY <2>1, ElementOfSeq
  <2>3. cookie[c] = pages[c][Len(pages[c])] /\ chosen[cookie[c]] # {}
    BY <2>2 DEF Ordered, PagesFit
  <2>4. QED BY <2>2, <2>3 DEF Connect, Later
<1> HIDE DEF v
<1> DEFINE new == [[[[stream[s] EXCEPT !.at = "try"] EXCEPT !.client = c] EXCEPT !.version = cookie[c]]
                    EXCEPT !.shown = v]
<1>3. stream' = [stream EXCEPT ![s] = new]
  BY <1>1 DEF Ordered, TypeOK, v
<1>4. /\ new \in Handlers /\ new.at = "try" /\ new.client = c /\ new.version = cookie[c] /\ new.shown = v
      /\ new.pool = stream[s].pool /\ new.landed = stream[s].landed /\ new.sent = stream[s].sent
  BY <1>0, <1>2, StreamTyped DEF Handlers
<1>5. StepOf(s) /\ stream'[s] = new
  BY <1>0, <1>3, <1>4, StepTyped
<1>6. Fit(s)'
  BY <1>0, <1>2, <1>4, <1>5 DEF Fit, Holding, Later
<1>7. QED BY <1>2, <1>4, <1>5, <1>6, StepKeeps

-------------------------------------------------------------------------------
(* The handler. *)

LEMMA LockKeeps ==
    ASSUME Ordered, NEW s \in Streams, TryLock(s) \/ Lock(s)
    PROVE  Ordered'
<1>0. TypeOK /\ Fit(s)
  BY DEF Ordered
<1>1. CASE mu = NoStream
  <2>1. /\ stream[s].at \in {"try", "wait"} /\ mu' = s /\ stream' = [stream EXCEPT ![s].at = "read"]
        /\ UNCHANGED <<cookie, pages, chosen, log>>
    BY <1>1 DEF TryLock, Lock
  <2>2. /\ StepOf(s) /\ stream'[s].at = "read"
        /\ stream'[s].version = stream[s].version /\ stream'[s].shown = stream[s].shown
        /\ stream'[s].client = stream[s].client
        /\ stream'[s].pool = stream[s].pool
        /\ stream'[s].landed = stream[s].landed /\ stream'[s].sent = stream[s].sent
    BY <1>0, <2>1, MoveTyped
  <2>3. Fit(s)' /\ stream[s].landed = {}
    BY <1>0, <2>1, <2>2 DEF Fit, Holding, Later
  <2>4. QED BY <1>1, <2>1, <2>2, <2>3, StepKeeps
<1>2. CASE mu # NoStream
  <2>1. /\ stream[s].at = "try" /\ mu' = mu /\ stream' = [stream EXCEPT ![s].at = "wait"]
        /\ UNCHANGED <<cookie, pages, chosen, log>>
    BY <1>2 DEF TryLock, Lock
  <2>2. /\ StepOf(s) /\ stream'[s].at = "wait"
        /\ stream'[s].version = stream[s].version /\ stream'[s].shown = stream[s].shown
        /\ stream'[s].client = stream[s].client
        /\ stream'[s].pool = stream[s].pool
        /\ stream'[s].landed = stream[s].landed /\ stream'[s].sent = stream[s].sent
    BY <1>0, <2>1, MoveTyped
  <2>3. Fit(s)'
    BY <1>0, <2>1, <2>2 DEF Fit, Holding, Later
  <2>4. QED BY <2>1, <2>2, <2>3, StepKeeps
<1>3. QED BY <1>1, <1>2

\* The handler returns, which is only from where it holds the mutex.
LEMMA ReturnKeeps ==
    ASSUME Ordered, NEW s \in Streams, stream[s].at \in Holding, NEW how \in {"complete", "failed"},
           Return(s, how), how = "complete" => stream[s].sent = chosen[stream[s].version],
           how = "complete" \/ stream[s].at # "deploy", stream[s].pool = Idle
    PROVE  Ordered'
<1>0. TypeOK /\ Fit(s)
  BY DEF Ordered
<1>1. mu = s /\ mu' = NoStream /\ UNCHANGED <<cookie, pages, chosen, log>>
  BY <1>0 DEF Fit, Return
<1>2. /\ StepOf(s) /\ stream'[s].at = how
      /\ stream'[s].version = stream[s].version /\ stream'[s].shown = stream[s].shown
      /\ stream'[s].client = stream[s].client
      /\ stream'[s].pool = stream[s].pool
      /\ stream'[s].landed = stream[s].landed /\ stream'[s].sent = stream[s].sent
  BY <1>0, MoveTyped DEF Return
<1>3. Fit(s)'
  BY <1>0, <1>1, <1>2, NamesAssumption DEF Fit, Holding, Later
<1>4. QED BY <1>1, <1>2, <1>3, StepKeeps

LEMMA ReadCookieKeeps ==
    ASSUME Ordered, NEW s \in Streams, ReadCookie(s)
    PROVE  Ordered'
<1>0. TypeOK /\ Fit(s) /\ stream[s].at = "read"
  BY DEF Ordered, ReadCookie
<1>1. CASE Return(s, "failed")
  BY <1>0, <1>1, ReturnKeeps DEF Fit, Holding, Later
<1>2. CASE stream' = [stream EXCEPT ![s].at = "build"] /\ UNCHANGED <<cookie, pages, chosen, mu, log>>
  <2>1. /\ StepOf(s) /\ stream'[s].at = "build"
        /\ stream'[s].version = stream[s].version /\ stream'[s].shown = stream[s].shown
        /\ stream'[s].client = stream[s].client
        /\ stream'[s].pool = stream[s].pool
        /\ stream'[s].landed = stream[s].landed /\ stream'[s].sent = stream[s].sent
    BY <1>0, <1>2, MoveTyped
  <2>2. Fit(s)'
    BY <1>0, <1>2, <2>1 DEF Fit, Holding, Later
  <2>3. QED BY <1>2, <2>1, <2>2, StepKeeps
<1>3. QED BY <1>1, <1>2 DEF ReadCookie

LEMMA BuildEggKeeps ==
    ASSUME Ordered, NEW s \in Streams, BuildEgg(s)
    PROVE  Ordered'
<1>0. TypeOK /\ Fit(s) /\ stream[s].at = "build"
  BY DEF Ordered, BuildEgg
<1>1. CASE Return(s, "failed")
  BY <1>0, <1>1, ReturnKeeps DEF Fit, Holding, Later
<1>2. CASE /\ stream' = [stream EXCEPT ![s].at = "deploy",
                                      ![s].pool = Started(chosen[stream[s].version])]
           /\ UNCHANGED <<cookie, pages, chosen, mu, log>>
  <2> DEFINE pool == Started(chosen[stream[s].version])
             new == [[stream[s] EXCEPT !.at = "deploy"] EXCEPT !.pool = pool]
  <2>1. chosen[stream[s].version] \in SUBSET Nodes
    BY <1>0 DEF TypeOK, Fit
  <2>2. Even(pool, Nodes) /\ Owed(pool) = chosen[stream[s].version] /\ pool \in Pools(Nodes)
    BY <2>1, NodesAssumption, StartedEven, EvenTyped
  <2> HIDE DEF pool
  <2>3. /\ new \in Handlers /\ new.at = "deploy" /\ new.pool = pool
        /\ new.version = stream[s].version /\ new.shown = stream[s].shown
        /\ new.client = stream[s].client
        /\ new.landed = stream[s].landed /\ new.sent = stream[s].sent
    BY <1>0, <2>2, StreamTyped DEF Handlers
  <2>4. stream' = [stream EXCEPT ![s] = new]
    BY <1>0, <1>2 DEF TypeOK, pool
  <2>5. StepOf(s) /\ stream'[s] = new
    BY <1>0, <2>3, <2>4, StepTyped
  <2>6. /\ mu = s /\ mu' = mu /\ chosen' = chosen /\ pages' = pages
        /\ stream[s].version \in Versions /\ chosen[stream[s].version] # {}
        /\ Later(stream[s].client, stream[s].shown, stream[s].version)
        /\ stream[s].landed = {} /\ stream[s].sent = {}
    BY <1>0, <1>2 DEF Fit, Holding, Later
  <2> HIDE DEF new
  <2>7. Fit(s)'
    BY <2>2, <2>3, <2>5, <2>6 DEF Fit, Holding, Later
  <2>8. QED BY <1>2, <2>3, <2>5, <2>7, StepKeeps
<1>3. QED BY <1>1, <1>2 DEF BuildEgg

LEMMA CompleteKeeps ==
    ASSUME Ordered, NEW s \in Streams, Complete(s)
    PROVE  Ordered'
<1>0. /\ Fit(s) /\ stream[s].at = "deploy" /\ Collected(stream[s].pool)
      /\ Return(s, "complete")
  BY DEF Ordered, Complete
<1>1. stream[s].pool = Idle /\ Owed(stream[s].pool) = {}
  BY <1>0, NodesAssumption, CollectedAll DEF Fit
<1>2. stream[s].sent = chosen[stream[s].version]
  BY <1>0, <1>1 DEF Fit
<1>3. QED BY <1>0, <1>1, <1>2, ReturnKeeps DEF Holding

-------------------------------------------------------------------------------
(* The workers. *)

LEMMA WorkerKeeps ==
    ASSUME Ordered, NEW s \in Streams, NEW n \in Nodes, WorkerTakes(s, n) \/ WorkerSends(s, n)
    PROVE  Ordered'
<1>0. TypeOK /\ Fit(s) /\ Even(stream[s].pool, Nodes)
  BY DEF Ordered, Fit
<1>1. PICK pool : /\ Even(pool, Nodes) /\ Owed(pool) = Owed(stream[s].pool)
                  /\ stream' = [stream EXCEPT ![s].pool = pool]
                  /\ UNCHANGED <<cookie, pages, chosen, mu, log>>
                  /\ n \in stream[s].pool.jobs \cup stream[s].pool.busy
  <2>1. CASE WorkerTakes(s, n)
    BY <1>0, <2>1, NodesAssumption, TakeEven DEF WorkerTakes, MayTake
  <2>2. CASE WorkerSends(s, n)
    BY <1>0, <2>2, NodesAssumption, SendEven DEF WorkerSends
  <2>3. QED BY <2>1, <2>2
<1>2. stream[s].at = "deploy"
  BY <1>0, <1>1 DEF Fit, Idle
<1>3. pool \in Pools(Nodes)
  BY <1>1, NodesAssumption, EvenTyped
<1>4. /\ StepOf(s) /\ stream'[s].at = stream[s].at
      /\ stream'[s].version = stream[s].version /\ stream'[s].shown = stream[s].shown
      /\ stream'[s].client = stream[s].client
      /\ stream'[s].pool = pool
      /\ stream'[s].landed = stream[s].landed /\ stream'[s].sent = stream[s].sent
  BY <1>0, <1>1, <1>3, PoolTyped
<1>5. Fit(s)'
  BY <1>0, <1>1, <1>2, <1>4 DEF Fit, Holding, Later
<1>6. QED BY <1>1, <1>4, <1>5, StepKeeps

LEMMA ReceivedKeeps ==
    ASSUME Ordered, NEW s \in Streams, NEW n \in Nodes, Received(s, n)
    PROVE  Ordered'
<1>0. /\ TypeOK /\ Fit(s) /\ Even(stream[s].pool, Nodes)
      /\ stream[s].at = "deploy" /\ n \in stream[s].pool.results
      /\ UNCHANGED <<cookie, pages, chosen, mu, log>>
  BY DEF Ordered, Fit, Received
<1> DEFINE pool == Receive(stream[s].pool, n)
           new == [[stream[s] EXCEPT !.pool = pool] EXCEPT !.sent = @ \cup {n}]
<1>1. /\ Even(pool, Nodes) /\ Owed(pool) = Owed(stream[s].pool) \ {n}
      /\ n \in Owed(stream[s].pool)
  BY <1>0, NodesAssumption, ReceiveEven DEF Owed
<1>2. pool \in Pools(Nodes)
  BY <1>1, NodesAssumption, EvenTyped
<1>3. stream' = [stream EXCEPT ![s] = new]
  BY <1>0 DEF TypeOK, Received
<1> HIDE DEF pool
<1>4. /\ new \in Handlers /\ new.at = "deploy" /\ new.pool = pool
      /\ new.version = stream[s].version /\ new.shown = stream[s].shown
      /\ new.client = stream[s].client
      /\ new.landed = stream[s].landed /\ new.sent = stream[s].sent \cup {n}
  BY <1>0, <1>2, StreamTyped DEF Handlers
<1> HIDE DEF new
<1>5. StepOf(s) /\ stream'[s] = new
  BY <1>0, <1>3, <1>4, StepTyped
<1>6. new.sent \cup Owed(new.pool) = chosen[stream[s].version]
  BY <1>0, <1>1, <1>4 DEF Fit
<1>7. Fit(s)'
  BY <1>0, <1>1, <1>4, <1>5, <1>6 DEF Fit, Holding, Later
<1>8. QED BY <1>0, <1>4, <1>5, <1>7, StepKeeps

\* A node's egg is a stream's whose deployment is open, and comes last.
LEMMA EggTakenKeeps ==
    ASSUME Ordered, NEW s \in Streams, NEW n \in Nodes, EggTaken(s, n)
    PROVE  Ordered'
<1>0. /\ TypeOK /\ Fit(s) /\ LogsFit /\ NodesAgree
      /\ n \in stream[s].pool.busy /\ n \notin stream[s].landed
      /\ UNCHANGED <<cookie, pages, chosen, mu>>
      /\ stream' = [stream EXCEPT ![s].landed = @ \cup {n}]
      /\ log' = [log EXCEPT ![n] = Append(@, s)]
  BY DEF Ordered, EggTaken
<1>1. stream[s].at = "deploy" /\ mu = s
  BY <1>0 DEF Fit, Idle, Holding
<1> DEFINE new == [stream[s] EXCEPT !.landed = @ \cup {n}]
<1>2. stream' = [stream EXCEPT ![s] = new]
  BY <1>0 DEF TypeOK
<1>3. /\ new \in Handlers /\ new.at = "deploy" /\ new.pool = stream[s].pool
      /\ new.version = stream[s].version /\ new.shown = stream[s].shown
      /\ new.client = stream[s].client
      /\ new.landed = stream[s].landed \cup {n} /\ new.sent = stream[s].sent
  BY <1>0, <1>1, StreamTyped DEF Handlers
<1> HIDE DEF new
<1>4. StepOf(s) /\ stream'[s] = new
  BY <1>0, <1>2, <1>3, StepTyped
<1>5. \A m \in Nodes : /\ log[m] \in Seq(Streams) /\ log'[m] \in Seq(Streams)
                       /\ Len(log[m]) \in Nat /\ DOMAIN log[m] = 1..Len(log[m])
                       /\ m # n => log'[m] = log[m]
  BY <1>0, AppendProperties, LenProperties DEF TypeOK
<1>6. /\ log'[n] = Append(log[n], s) /\ DOMAIN log'[n] = 1..Len(log[n]) + 1
      /\ Len(log'[n]) = Len(log[n]) + 1
      /\ log'[n][Len(log[n]) + 1] = s
      /\ \A i \in DOMAIN log[n] : log'[n][i] = log[n][i] /\ log[n][i] # s
  BY <1>0, <1>5, AppendProperties DEF TypeOK, LogsFit
<1>7. TypeOK'
  BY <1>0, <1>4, <1>5 DEF TypeOK, StepOf
<1>8. \A q \in Streams : Fit(q)'
  <2>1. Fit(s)'
    BY <1>0, <1>1, <1>3, <1>4 DEF Fit, Holding, Later
  <2>2. \A q \in Streams \ {s} : Beside(q)
    BY <1>0, <1>4 DEF StepOf, Beside, Later
  <2>3. QED BY <2>1, <2>2, BesideFits DEF Ordered
<1>9. PagesFit'
  BY <1>0 DEF Ordered, PagesFit
<1>10. LogsFit'
  <2> SUFFICES ASSUME NEW m \in Nodes, NEW i \in DOMAIN log'[m]
               PROVE  /\ m \in stream'[log'[m][i]].landed
                      /\ \A j \in DOMAIN log'[m] : log'[m][i] = log'[m][j] => i = j
                      /\ log'[m][i] = mu' => i = Len(log'[m])
    BY DEF LogsFit
  <2>1. \A q \in Streams : stream[q].landed \subseteq stream'[q].landed
    BY <1>3, <1>4 DEF StepOf
  <2>2. CASE m # n
    <3>1. log[m][i] \in Streams
      BY <1>5, <2>2, ElementOfSeq
    <3>2. QED BY <1>0, <1>5, <2>1, <2>2, <3>1 DEF LogsFit
  <2>3. CASE m = n /\ i \in DOMAIN log[n]
    <3>1. log[n][i] \in Streams
      BY <1>5, <2>3, ElementOfSeq
    <3>2. \A j \in DOMAIN log'[n] : log'[n][i] = log'[n][j] => i = j
      BY <1>0, <1>5, <1>6, <2>3 DEF LogsFit
    <3>3. QED BY <1>0, <1>1, <1>6, <2>1, <2>3, <3>1, <3>2 DEF LogsFit
  <2>4. CASE m = n /\ i = Len(log[n]) + 1
    <3>1. \A j \in DOMAIN log'[n] : log'[n][i] = log'[n][j] => i = j
      BY <1>5, <1>6, <2>4
    <3>2. QED BY <1>3, <1>4, <1>6, <2>4, <3>1
  <2>5. QED BY <1>5, <1>6, <2>2, <2>3, <2>4
<1>11. NodesAgree'
  <2> SUFFICES ASSUME NEW m \in Nodes, NEW p \in Nodes,
                      NEW i \in DOMAIN log'[m], NEW j \in DOMAIN log'[m],
                      NEW k \in DOMAIN log'[p], NEW l \in DOMAIN log'[p],
                      log'[m][i] = log'[p][k], log'[m][j] = log'[p][l], i < j
               PROVE  k < l
    BY DEF NodesAgree
  <2>1. \A q \in Nodes : \A h \in DOMAIN log'[q] :
          \/ h \in DOMAIN log[q] /\ log'[q][h] = log[q][h]
          \/ h = Len(log'[q]) /\ log'[q][h] = s
    <3> SUFFICES ASSUME NEW q \in Nodes, NEW h \in DOMAIN log'[q]
                 PROVE  \/ h \in DOMAIN log[q] /\ log'[q][h] = log[q][h]
                        \/ h = Len(log'[q]) /\ log'[q][h] = s
      OBVIOUS
    <3>1. CASE q # n
      BY <1>5, <3>1
    <3>2. CASE q = n
      <4>1. h \in DOMAIN log[n] \/ h = Len(log[n]) + 1
        BY <1>5, <1>6, <3>2
      <4>2. QED BY <1>6, <3>2, <4>1
    <3>3. QED BY <3>1, <3>2
  <2>2. \A q \in Nodes : \A h \in DOMAIN log'[q] : log'[q][h] = s => h = Len(log'[q])
    BY <1>1, <1>10, <1>0 DEF LogsFit
  <2>3. /\ Len(log'[m]) \in Nat /\ DOMAIN log'[m] = 1..Len(log'[m])
        /\ Len(log'[p]) \in Nat /\ DOMAIN log'[p] = 1..Len(log'[p])
    BY <1>5, LenProperties
  <2>4. log'[m][i] # s
    BY <2>2, <2>3
  <2>5. i \in DOMAIN log[m] /\ log'[m][i] = log[m][i] /\ k \in DOMAIN log[p] /\ log'[p][k] = log[p][k]
    BY <2>1, <2>4
  <2>6. CASE log'[m][j] = s
    <3>1. l = Len(log'[p]) /\ k # l
      BY <2>2, <2>4, <2>6
    <3>2. QED BY <2>3, <3>1
  <2>7. CASE log'[m][j] # s
    <3>1. j \in DOMAIN log[m] /\ log'[m][j] = log[m][j] /\ l \in DOMAIN log[p] /\ log'[p][l] = log[p][l]
      BY <2>1, <2>7
    <3>2. QED BY <1>0, <2>5, <3>1 DEF NodesAgree
  <2>8. QED BY <2>6, <2>7
<1>12. QED BY <1>7, <1>8, <1>9, <1>10, <1>11 DEF Ordered

\* A restart: the deployment that was open is not any more.
LEMMA CrashKeeps ==
    ASSUME Ordered, Crash
    PROVE  Ordered'
<1>0. /\ TypeOK /\ (\A s \in Streams : Fit(s)) /\ LogsFit /\ NodesAgree
      /\ stream' = [s \in Streams |->
                    IF Under(s) THEN [stream[s] EXCEPT !.at = "failed", !.pool = Idle]
                    ELSE stream[s]]
      /\ mu' = NoStream /\ UNCHANGED <<cookie, pages, chosen, log>>
  BY DEF Ordered, Crash
<1>1. /\ Even(Idle, Nodes) /\ Idle \in Pools(Nodes)
  BY NodesAssumption, IdleEven, EvenTyped
<1>2. ASSUME NEW s \in Streams
      PROVE  /\ stream'[s] \in Handlers /\ stream'[s].landed = stream[s].landed /\ Fit(s)'
  <2>1. CASE Under(s)
    <3> DEFINE new == [[stream[s] EXCEPT !.at = "failed"] EXCEPT !.pool = Idle]
    <3>1. stream'[s] = new
      BY <1>0, <2>1
    <3>2. /\ new \in Handlers /\ new.at = "failed" /\ new.pool = Idle
          /\ new.version = stream[s].version /\ new.shown = stream[s].shown
          /\ new.client = stream[s].client
          /\ new.landed = stream[s].landed /\ new.sent = stream[s].sent
      BY <1>0, <1>1, StreamTyped DEF Handlers
    <3> HIDE DEF new
    <3>3. stream[s].at # "new" /\ Fit(s)
      BY <1>0, <2>1 DEF Under
    <3>4. Later(stream[s].client, stream[s].shown, stream[s].version)'
      <4>1. Later(stream[s].client, stream[s].shown, stream[s].version)
        BY <3>3 DEF Fit
      <4>2. pages' = pages /\ stream'[s].client = stream[s].client
            /\ stream'[s].shown = stream[s].shown /\ stream'[s].version = stream[s].version
        BY <1>0, <3>1, <3>2
      <4>3. QED BY <4>1, <4>2 DEF Later
    <3> HIDE DEF Later
    <3>5. Fit(s)'
      BY <1>0, <1>1, <3>1, <3>2, <3>3, <3>4, NamesAssumption DEF Fit, Holding
    <3>6. QED BY <3>1, <3>2, <3>5
  <2>2. CASE ~Under(s)
    <3>1. stream'[s] = stream[s]
      BY <1>0, <2>2
    <3>2. Fit(s) /\ mu # s /\ mu' # s
      BY <1>0, <2>2, NamesAssumption DEF Under, Fit, Holding
    <3>3. Beside(s)
      BY <1>0, <3>1, <3>2 DEF Beside, Later
    <3>4. QED BY <1>0, <3>1, <3>2, <3>3, StreamTyped, BesideFits
  <2>3. QED BY <2>1, <2>2
<1>3. TypeOK'
  BY <1>0, <1>2 DEF TypeOK
<1>4. PagesFit'
  BY <1>0 DEF Ordered, PagesFit
<1>5. LogsFit' /\ NodesAgree'
  BY <1>0, <1>2, LogsKept
<1>6. QED BY <1>2, <1>3, <1>4, <1>5 DEF Ordered

LEMMA OrderedFirst == Init => Ordered
<1> SUFFICES ASSUME Init PROVE Ordered
  OBVIOUS
<1>1. Even(Idle, Nodes) /\ Idle \in Pools(Nodes)
  BY NodesAssumption, IdleEven, EvenTyped
<1>2. NewStream \in Handlers
  BY <1>1, ClientsAssumption DEF NewStream, Handlers
<1>3. /\ NewStream.at = "new" /\ NewStream.pool = Idle
      /\ NewStream.landed = {} /\ NewStream.sent = {}
  BY DEF NewStream
<1>4. TypeOK
  BY <1>2, EmptySeq DEF Init, TypeOK
<1>5. \A s \in Streams : Fit(s)
  BY <1>1, <1>3, NamesAssumption DEF Init, Fit, Holding
<1>6. PagesFit /\ LogsFit /\ NodesAgree
  BY EmptySeq DEF Init, PagesFit, LogsFit, NodesAgree
<1>7. QED BY <1>4, <1>5, <1>6 DEF Ordered

LEMMA OrderedNext == Ordered /\ [Next]_vars => Ordered'
<1> SUFFICES ASSUME Ordered, [Next]_vars PROVE Ordered'
  OBVIOUS
<1>1. ASSUME NEW c \in Clients, NEW v \in Versions, NEW picked \in SUBSET Nodes,
             SubmitForm(c, v, picked) PROVE Ordered'
  BY <1>1, SubmitKeeps
<1>2. ASSUME NEW c \in Clients, NEW s \in Streams, Connect(s, c) PROVE Ordered'
  BY <1>2, ConnectKeeps
<1>3. ASSUME NEW s \in Streams, HandlerStep(s) \/ Lock(s) PROVE Ordered'
  BY <1>3, LockKeeps, ReadCookieKeeps, BuildEggKeeps, CompleteKeeps, WorkerKeeps, ReceivedKeeps
     DEF HandlerStep
<1>4. ASSUME NEW s \in Streams, NEW n \in Nodes, EggTaken(s, n) PROVE Ordered'
  BY <1>4, EggTakenKeeps
<1>5. CASE UNCHANGED vars
  BY <1>5 DEF vars, Ordered, TypeOK, Fit, Later, PagesFit, LogsFit, NodesAgree
<1>6. QED BY <1>1, <1>2, <1>3, <1>4, <1>5, CrashKeeps DEF Next

LEMMA AlwaysOrdered == Spec => []Ordered
BY OrderedFirst, OrderedNext, PTL DEF Spec

-------------------------------------------------------------------------------
(* Deploy: the theorems. *)

\* Every handler, pool and cookie is always what its declaration says
\* (deploy.go:80-260).
THEOREM TypeCorrect == Spec => []TypeOK
<1>1. Ordered => TypeOK
  BY DEF Ordered
<1>2. QED BY <1>1, AlwaysOrdered, PTL

\* Any number of clients, nodes, lost connections and restarts: deployments
\* reach the nodes they share in one order (deploy.go:141-146).
THEOREM OneOrder == Spec => []NodesAgree
<1>1. Ordered => NodesAgree
  BY DEF Ordered
<1>2. QED BY <1>1, AlwaysOrdered, PTL

\* A handler that does not hold globalMu has no job and no worker
\* (deploy.go:180-190).
THEOREM NothingUnderWay == Spec => []QuietWhenUnlocked
<1>1. Ordered => QuietWhenUnlocked
  BY DEF Ordered, Fit, QuietWhenUnlocked, Holding, Idle
<1>2. QED BY <1>1, AlwaysOrdered, PTL

\* The deployment-complete event is the last word on every chosen node
\* (deploy.go:180-191).
THEOREM EveryNodeAnswered == Spec => []CompleteMeansAll
<1>1. Ordered => CompleteMeansAll
  BY DEF Ordered, Fit, CompleteMeansAll
<1>2. QED BY <1>1, AlwaysOrdered, PTL

\* However many pages a client has open and however often they reconnect, none
\* is shown the deployment of another client or of an older form
\* (deploy.go:104-118, 148-159).
THEOREM PagesAreTrue == Spec => []ShownIsDeployed
<1>1. Ordered => ShownIsDeployed
  BY DEF Ordered, Fit, ShownIsDeployed, Under
<1>2. QED BY <1>1, AlwaysOrdered, PTL

\* An egg that a node takes is the open deployment's first there; the rest of
\* what the handlers do opens a deployment, closes it, or is not seen.
LEMMA StepIsSerial ==
    ASSUME Ordered, [Next]_vars
    PROVE  [Serial!Next]_(Serial!vars)
<1>0. TypeOK /\ LogsFit /\ \A s \in Streams : Fit(s)
  BY DEF Ordered
<1>1. ASSUME NEW c \in Clients, NEW v \in Versions, NEW picked \in SUBSET Nodes,
             SubmitForm(c, v, picked) PROVE UNCHANGED Serial!vars
  BY <1>1 DEF SubmitForm, Serial!vars
<1>2. ASSUME NEW c \in Clients, NEW s \in Streams, Connect(s, c) PROVE UNCHANGED Serial!vars
  BY <1>2 DEF Connect, Serial!vars
<1>3. ASSUME NEW s \in Streams, TryLock(s) \/ Lock(s) PROVE Serial!Open(s) \/ UNCHANGED Serial!vars
  BY <1>3 DEF TryLock, Lock, Serial!Open, Serial!vars
<1>4. ASSUME NEW s \in Streams, ReadCookie(s) \/ BuildEgg(s) \/ Complete(s)
      PROVE  Serial!Close \/ UNCHANGED Serial!vars
  <2>1. mu = s
    BY <1>0, <1>4 DEF Fit, Holding, ReadCookie, BuildEgg, Complete
  <2>2. log' = log /\ mu' \in {mu, NoStream}
    BY <1>4 DEF ReadCookie, BuildEgg, Complete, Return
  <2>3. QED BY <2>1, <2>2, NamesAssumption DEF Serial!Close, Serial!vars
<1>5. ASSUME NEW s \in Streams, NEW n \in Nodes,
             WorkerTakes(s, n) \/ WorkerSends(s, n) \/ Received(s, n)
      PROVE  UNCHANGED Serial!vars
  BY <1>5 DEF WorkerTakes, WorkerSends, Received, Serial!vars
<1>6. ASSUME NEW s \in Streams, NEW n \in Nodes, EggTaken(s, n) PROVE Serial!Accept(n)
  <2>1. /\ n \in stream[s].pool.busy /\ n \notin stream[s].landed
        /\ mu' = mu /\ log' = [log EXCEPT ![n] = Append(@, s)]
    BY <1>6 DEF EggTaken
  <2>2. mu = s /\ mu # NoStream
    BY <1>0, <2>1, NamesAssumption DEF Fit, Idle, Holding
  <2>3. s \notin Serial!Deployed(n)
    BY <1>0, <2>1 DEF LogsFit, Serial!Deployed
  <2>4. QED BY <2>1, <2>2, <2>3 DEF Serial!Accept
<1>7. ASSUME Crash PROVE Serial!Close \/ UNCHANGED Serial!vars
  <2>1. mu' = NoStream /\ log' = log
    BY <1>7 DEF Crash
  <2>2. QED BY <2>1 DEF Serial!Close, Serial!vars
<1>8. ASSUME UNCHANGED vars PROVE UNCHANGED Serial!vars
  BY <1>8 DEF vars, Serial!vars
<1>9. QED BY <1>1, <1>2, <1>3, <1>4, <1>5, <1>6, <1>7, <1>8 DEF Next, HandlerStep, Serial!Next

\* Deployments are serial: with globalMu, the worker pools and the deferred
\* unlock, the server does what SerialDeploy promises (deploy.go:141-192).
THEOREM DeploysAreSerial == Spec => Implements
<1>1. Init => Serial!Init
  BY DEF Init, Serial!Init
<1>2. Spec => Serial!Spec
  BY <1>1, StepIsSerial, AlwaysOrdered, PTL DEF Spec, Serial!Spec
<1>3. QED BY <1>2 DEF Implements
===============================================================================
