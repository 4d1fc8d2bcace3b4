-------------------------- MODULE RateLimiterProofs --------------------------
(***************************************************************************)
(* Theorems of RateLimiter, for any clients, routes, burst, rate, eviction  *)
(* time and window.  That eviction goes unnoticed needs one assumption: a   *)
(* bucket fills in no more than the time after which a client is dropped.   *)
(***************************************************************************)
EXTENDS RateLimiter, TLAPS

\* Two seconds against three minutes, with the flags' defaults.
FillsBeforeDropped == Full <= Idle + 1

LEMMA FullNat == Full \in Nat
  BY BurstAssumption, PerTokenAssumption DEF Full

-----------------------------------------------------------------------------
(* What a request does to the one entry it touches *)

\* The entry a request finds and the one it leaves.
LEMMA RequestEntry ==
  ASSUME TypeOK, NEW r \in Routes, NEW ip \in Clients, Request(r, ip)
  PROVE  /\ Found(r, ip) \in Client /\ clients'[r][ip] \in Client
         /\ clients'[r][ip].away = 0
         /\ \A q \in Routes, c \in Clients :
              <<q, c>> # <<r, ip>> => clients'[q][c] = clients[q][c]
         /\ clients' \in [Routes -> [Clients -> Client \cup {NoClient}]]
<1>1. Found(r, ip) \in Client
  BY FullNat, IdleAssumption DEF TypeOK, Found, NewClient, Client
<1> DEFINE left == IF Found(r, ip).credit >= PerToken
                   THEN Found(r, ip).credit - PerToken ELSE Found(r, ip).credit
           e    == [credit |-> left, away |-> 0]
<1>2. left \in 0..Full
  BY <1>1, FullNat, PerTokenAssumption DEF Client
<1>3. e \in Client
  BY <1>2, IdleAssumption DEF Client
<1>4. clients' = [clients EXCEPT ![r][ip] = e]
  BY DEF Request
<1> HIDE DEF e, left
<1>5. clients'[r][ip] = e /\ e.away = 0
  BY <1>4 DEF TypeOK, e
<1>6. \A q \in Routes, c \in Clients :
        <<q, c>> # <<r, ip>> => clients'[q][c] = clients[q][c]
  BY <1>4 DEF TypeOK
<1>7. clients' \in [Routes -> [Clients -> Client \cup {NoClient}]]
  BY <1>3, <1>4 DEF TypeOK
<1> QED  BY <1>1, <1>3, <1>5, <1>6, <1>7

LEMMA TickEntry ==
  ASSUME TypeOK, Tick, NEW r \in Routes, NEW ip \in Clients
  PROVE  /\ clients'[r][ip] = Aged(clients[r][ip])
         /\ clients'[r][ip] \in Client \cup {NoClient}
         /\ clients[r][ip] = NoClient <=> clients'[r][ip] = NoClient
<1>1. clients'[r][ip] = Aged(clients[r][ip])
  BY DEF Tick
<1>2. clients[r][ip] \in Client \cup {NoClient}
  BY DEF TypeOK
<1>3. ASSUME clients[r][ip] \in Client PROVE Aged(clients[r][ip]) \in Client
  BY <1>3, FullNat, IdleAssumption, NoClientAssumption DEF Aged, Client
<1> QED  BY <1>1, <1>2, <1>3, NoClientAssumption DEF Aged
-----------------------------------------------------------------------------
(* TypeOK *)

\* Whatever the requests, ticks and sweeps, no limiter is overdrawn or
\* overfull (TypeOK).
THEOREM TypeCorrect == Spec => []TypeOK
<1>1. Init => TypeOK
  BY WindowAssumption DEF Init, TypeOK, NoneAdmitted
<1>2. TypeOK /\ [Next]_vars => TypeOK'
  <2> SUFFICES ASSUME TypeOK, [Next]_vars PROVE TypeOK'
    OBVIOUS
  <2>1. CASE Tick
    <3>1. clients' \in [Routes -> [Clients -> Client \cup {NoClient}]]
      BY <2>1, TickEntry DEF Tick
    <3>2. elapsed' \in 0..MaxWindow /\ admitted' \in [Routes -> [Clients -> Nat]]
      BY <2>1, WindowAssumption DEF Tick, TypeOK, NoneAdmitted
    <3> QED  BY <3>1, <3>2 DEF TypeOK
  <2>2. ASSUME NEW r \in Routes, Sweep(r) PROVE TypeOK'
    BY <2>2 DEF Sweep, TypeOK
  <2>3. ASSUME NEW r \in Routes, NEW ip \in Clients, Request(r, ip) PROVE TypeOK'
    <3>1. clients' \in [Routes -> [Clients -> Client \cup {NoClient}]]
      BY <2>3, RequestEntry
    <3>2. elapsed' \in 0..MaxWindow /\ admitted' \in [Routes -> [Clients -> Nat]]
      BY <2>3 DEF Request, TypeOK
    <3> QED  BY <3>1, <3>2 DEF TypeOK
  <2>4. CASE UNCHANGED vars
    BY <2>4 DEF TypeOK, vars
  <2> QED  BY <2>1, <2>2, <2>3, <2>4 DEF Next
<1> QED  BY <1>1, <1>2, PTL DEF Spec
-----------------------------------------------------------------------------
(* RouteRate *)

IInv == TypeOK /\ FullWhenDropped /\ Account

LEMMA NatProduct ==
  ASSUME NEW a \in Nat
  PROVE  a * PerToken \in Nat /\ (a + 1) * PerToken = a * PerToken + PerToken
  BY PerTokenAssumption

LEMMA LevelRange ==
  ASSUME TypeOK, NEW r \in Routes, NEW ip \in Clients
  PROVE  Level(r, ip) \in 0..Full
  BY FullNat DEF TypeOK, Level, Found, NewClient, Client

LEMMA RequestKeeps ==
  ASSUME IInv, NEW r \in Routes, NEW ip \in Clients, Request(r, ip)
  PROVE  FullWhenDropped' /\ Account'
<1> USE DEF IInv
<1> DEFINE c  == Found(r, ip)
           ok == c.credit >= PerToken
<1>1. /\ c \in Client /\ clients'[r][ip] \in Client
      /\ clients'[r][ip].away = 0
  BY RequestEntry
<1>2. \A q \in Routes, d \in Clients :
        <<q, d>> # <<r, ip>> => clients'[q][d] = clients[q][d]
  BY RequestEntry
<1>3. FullWhenDropped'
  BY <1>1, <1>2, FullNat DEF FullWhenDropped, Client
<1>4. ASSUME NEW q \in Routes, NEW d \in Clients
      PROVE  admitted'[q][d] * PerToken + Level(q, d)' <= Full + elapsed'
  <2>1. admitted[q][d] * PerToken + Level(q, d) <= Full + elapsed /\ elapsed' = elapsed
    BY DEF Account, Request
  <2>2. CASE <<q, d>> # <<r, ip>>
    <3>1. admitted'[q][d] = admitted[q][d]
      BY <2>2 DEF Request, TypeOK
    <3>2. Level(q, d)' = Level(q, d)
      BY <2>2, <1>2 DEF Level, Found
    <3> QED  BY <2>1, <3>1, <3>2
  <2>3. CASE q = r /\ d = ip
    <3>1. Level(r, ip) = c.credit
      BY DEF Level
    <3>2. Level(r, ip)' = clients'[r][ip].credit
      BY <1>1, NoClientAssumption DEF Level, Found
    <3>3. clients'[r][ip].credit = IF ok THEN c.credit - PerToken ELSE c.credit
      BY DEF Request, TypeOK
    <3>4. admitted'[r][ip] = IF ok THEN admitted[r][ip] + 1 ELSE admitted[r][ip]
      BY DEF Request, TypeOK
    <3>5. admitted[r][ip] \in Nat
      BY DEF TypeOK
    <3>6. c.credit \in Nat /\ elapsed \in Nat
      BY <1>1, FullNat, WindowAssumption DEF Client, TypeOK
    <3> HIDE DEF c
    <3>7. CASE ok
      <4>1. Level(r, ip)' + PerToken = Level(r, ip) /\ Level(r, ip)' \in Nat
        BY <3>7, <3>1, <3>2, <3>3, <3>6, PerTokenAssumption
      <4>2. admitted'[r][ip] * PerToken = admitted[r][ip] * PerToken + PerToken
        BY <3>7, <3>4, <3>5, NatProduct
      <4>3. admitted[r][ip] * PerToken \in Nat
        BY <3>5, NatProduct
      <4> QED
        BY <2>1, <2>3, <4>1, <4>2, <4>3, <3>6, PerTokenAssumption, FullNat
    <3>8. CASE ~ok
      BY <2>1, <2>3, <3>1, <3>2, <3>3, <3>4, <3>8
    <3> QED  BY <3>7, <3>8
  <2> QED  BY <2>2, <2>3
<1> QED  BY <1>3, <1>4 DEF Account

\* The one step that may hand out credit: it drops only full buckets.
LEMMA SweepKeepsLevels ==
  ASSUME IInv, FillsBeforeDropped, NEW s \in Routes, Sweep(s),
         NEW r \in Routes, NEW ip \in Clients
  PROVE  Level(r, ip)' = Level(r, ip)
<1> USE DEF IInv
<1>1. clients'[r][ip] = IF r = s /\ Gone(clients[r][ip]) THEN NoClient ELSE clients[r][ip]
  BY DEF Sweep, TypeOK
<1>2. ASSUME Gone(clients[r][ip]) PROVE clients[r][ip].credit = Full
  <2>1. clients[r][ip] # NoClient /\ clients[r][ip].away > Idle
    BY <1>2 DEF Gone
  <2>2. clients[r][ip] \in Client
    BY <2>1 DEF TypeOK
  <2>3. clients[r][ip].credit = Full \/ clients[r][ip].credit >= clients[r][ip].away
    BY <2>1 DEF FullWhenDropped
  <2> QED
    BY <2>1, <2>2, <2>3, FullNat, IdleAssumption DEF Client, FillsBeforeDropped
<1>3. Gone(clients[r][ip]) => clients[r][ip] # NoClient
  BY DEF Gone
<1> QED  BY <1>1, <1>2, <1>3, NoClientAssumption DEF Level, Found, NewClient

LEMMA SweepKeeps ==
  ASSUME IInv, FillsBeforeDropped, NEW s \in Routes, Sweep(s)
  PROVE  FullWhenDropped' /\ Account'
<1>1. \A r \in Routes, ip \in Clients : clients'[r][ip] \in {NoClient, clients[r][ip]}
  BY DEF Sweep, IInv, TypeOK
<1>2. FullWhenDropped'
  BY <1>1 DEF FullWhenDropped, IInv
<1>3. Account'
  BY SweepKeepsLevels DEF Account, IInv, Sweep
<1> QED  BY <1>2, <1>3

LEMMA TickKeeps ==
  ASSUME IInv, Tick
  PROVE  FullWhenDropped' /\ Account'
<1> USE DEF IInv
<1>1. ASSUME NEW r \in Routes, NEW ip \in Clients, clients'[r][ip] # NoClient
      PROVE  clients'[r][ip].credit = Full \/ clients'[r][ip].credit >= clients'[r][ip].away
  <2>1. clients[r][ip] # NoClient /\ clients'[r][ip] = Aged(clients[r][ip])
    BY <1>1, TickEntry
  <2>2. clients[r][ip] \in Client
    BY <2>1 DEF TypeOK
  <2>3. clients[r][ip].credit = Full \/ clients[r][ip].credit >= clients[r][ip].away
    BY <2>1 DEF FullWhenDropped
  <2> QED
    BY <2>1, <2>2, <2>3, FullNat, IdleAssumption DEF Aged, Client
<1>2. ASSUME NEW r \in Routes, NEW ip \in Clients
      PROVE  admitted'[r][ip] * PerToken + Level(r, ip)' <= Full + elapsed'
  <2>1. Level(r, ip) \in 0..Full
    BY LevelRange
  <2>2. Level(r, ip)' \in 0..Full /\ Level(r, ip)' <= Level(r, ip) + 1
    <3>1. CASE clients[r][ip] = NoClient
      BY <3>1, TickEntry, FullNat DEF Level, Found, NewClient
    <3>2. CASE clients[r][ip] # NoClient
      <4>1. clients[r][ip] \in Client /\ clients'[r][ip] = Aged(clients[r][ip])
        BY <3>2, TickEntry DEF TypeOK
      <4>2. clients'[r][ip] # NoClient
        BY <3>2, TickEntry
      <4> QED
        BY <3>2, <4>1, <4>2, FullNat DEF Level, Found, Aged, Client
    <3> QED  BY <3>1, <3>2
  <2>3. elapsed \in Nat
    BY WindowAssumption DEF TypeOK
  <2>4. CASE elapsed' = elapsed + 1 /\ admitted' = admitted
    <3>1. admitted[r][ip] * PerToken + Level(r, ip) <= Full + elapsed
      BY DEF Account
    <3>2. admitted[r][ip] * PerToken \in Nat
      BY NatProduct DEF TypeOK
    <3> QED
      BY <2>1, <2>2, <2>3, <2>4, <3>1, <3>2, FullNat
  <2>5. CASE elapsed' = 0 /\ admitted' = NoneAdmitted
    <3>1. admitted'[r][ip] * PerToken = 0
      BY <2>5, PerTokenAssumption DEF NoneAdmitted
    <3> QED  BY <2>2, <2>5, <3>1, FullNat
  <2> QED  BY <2>4, <2>5 DEF Tick
<1> QED  BY <1>1, <1>2 DEF FullWhenDropped, Account

LEMMA Inductive ==
  ASSUME FillsBeforeDropped
  PROVE  Spec => []IInv
<1>1. Init => FullWhenDropped /\ Account
  <2> SUFFICES ASSUME Init PROVE FullWhenDropped /\ Account
    OBVIOUS
  <2>1. \A r \in Routes, ip \in Clients :
          clients[r][ip] = NoClient /\ admitted[r][ip] * PerToken = 0
    BY PerTokenAssumption DEF Init, NoneAdmitted
  <2> QED  BY <2>1, FullNat DEF FullWhenDropped, Account, Level, Found, NewClient, Init
<1>2. TypeOK /\ TypeOK' /\ FullWhenDropped /\ Account /\ [Next]_vars
        => FullWhenDropped' /\ Account'
  <2> SUFFICES ASSUME IInv, [Next]_vars PROVE FullWhenDropped' /\ Account'
    BY DEF IInv
  <2>1. CASE UNCHANGED vars
    BY <2>1 DEF IInv, vars, FullWhenDropped, Account, Level, Found
  <2> QED  BY <2>1, RequestKeeps, SweepKeeps, TickKeeps DEF Next
<1> QED  BY <1>1, <1>2, TypeCorrect, PTL DEF Spec, IInv

\* A route lets no client through more often than the burst and the rate
\* allow, in no stretch of time, although limiters are evicted (RouteRate).
THEOREM RatesHold ==
  ASSUME FillsBeforeDropped
  PROVE  Spec => []RouteRate
<1>1. IInv => RouteRate
  <2> SUFFICES ASSUME IInv, NEW r \in Routes, NEW ip \in Clients
               PROVE  admitted[r][ip] * PerToken <= Full + elapsed
    BY DEF RouteRate
  <2>1. admitted[r][ip] * PerToken \in Nat
    BY NatProduct DEF IInv, TypeOK
  <2>2. Level(r, ip) \in 0..Full /\ elapsed \in Nat
    BY LevelRange, WindowAssumption DEF IInv, TypeOK
  <2> QED  BY <2>1, <2>2, FullNat DEF IInv, Account
<1> QED  BY <1>1, Inductive, PTL
-----------------------------------------------------------------------------
(* Implements *)

Key == Routes \X Clients
Bucket == [k \in Key |-> Level(k[1], k[2])]

\* Created on demand and evicted when idle, the limiters answer as one bucket
\* for each route and client would (Implements): a sweep is a stutter, a tick
\* refills every bucket, a request asks its own.
THEOREM BucketsImplemented ==
  ASSUME FillsBeforeDropped
  PROVE  Spec => Implements
<1>1. Init => Promise!Init
  BY DEF Init, Promise!Init, Promise!Full, Full, Level, Found, NewClient
<1>2. IInv /\ IInv' /\ [Next]_vars => [Promise!Next]_(Promise!bucketVars)
  <2> SUFFICES ASSUME IInv, IInv', [Next]_vars
               PROVE  Promise!Next \/ UNCHANGED Promise!bucketVars
    OBVIOUS
  <2>1. CASE Tick
    <3>1. ASSUME NEW r \in Routes, NEW ip \in Clients
          PROVE  Level(r, ip)' = Promise!Refilled(Level(r, ip))
      <4>1. clients[r][ip] \in Client \cup {NoClient}
        BY DEF IInv, TypeOK
      <4>2. /\ clients'[r][ip] = Aged(clients[r][ip])
            /\ clients[r][ip] = NoClient <=> clients'[r][ip] = NoClient
        BY <2>1, TickEntry DEF IInv
      <4> QED
        BY <4>1, <4>2, FullNat
           DEF Level, Found, NewClient, Aged, Client, Promise!Refilled, Promise!Full, Full
    <3>2. Promise!Refill
      BY <2>1, <3>1 DEF Promise!Refill, Tick
    <3> QED  BY <3>2 DEF Promise!Next
  <2>2. ASSUME NEW r \in Routes, Sweep(r) PROVE UNCHANGED Promise!bucketVars
    BY <2>2, SweepKeepsLevels DEF Promise!bucketVars, Sweep
  <2>3. ASSUME NEW r \in Routes, NEW ip \in Clients, Request(r, ip) PROVE Promise!Next
    <3> DEFINE c  == Found(r, ip)
               ok == c.credit >= PerToken
    <3>1. \A q \in Routes, d \in Clients :
            <<q, d>> # <<r, ip>> => Level(q, d)' = Level(q, d)
      BY <2>3, RequestEntry DEF Level, Found, IInv
    <3>2. Level(r, ip)' = IF ok THEN c.credit - PerToken ELSE c.credit
      <4>1. clients'[r][ip] # NoClient
        BY <2>3, RequestEntry, NoClientAssumption DEF IInv
      <4>2. clients'[r][ip].credit = IF ok THEN c.credit - PerToken ELSE c.credit
        BY <2>3 DEF Request, IInv, TypeOK
      <4> QED  BY <4>1, <4>2 DEF Level, Found
    <3>3. Level(r, ip) = c.credit
      BY DEF Level
    <3>4. answer' = [key |-> <<r, ip>>, ok |-> ok]
      BY <2>3 DEF Request
    <3>5. Bucket' = [Bucket EXCEPT ![<<r, ip>>] =
                       IF Bucket[<<r, ip>>] >= PerToken THEN @ - PerToken ELSE @]
      <4> DEFINE k == <<r, ip>>
                 b == IF Bucket[k] >= PerToken THEN Bucket[k] - PerToken ELSE Bucket[k]
      <4>1. k \in Key /\ Bucket[k] = c.credit
        BY <3>3 DEF Bucket, Key
      <4>2. ASSUME NEW q \in Routes, NEW d \in Clients
            PROVE  Level(q, d)' = IF <<q, d>> = k THEN b ELSE Level(q, d)
        <5>1. CASE <<q, d>> = k
          BY <4>1, <3>2, <5>1
        <5>2. CASE <<q, d>> # k
          BY <3>1, <5>2
        <5> QED  BY <5>1, <5>2
      <4> HIDE DEF b
      <4>3. \A j \in Key : Level(j[1], j[2])' = IF j = k THEN b ELSE Level(j[1], j[2])
        BY <4>2 DEF Key
      <4>4. Bucket' = [Bucket EXCEPT ![k] = b]
        BY <4>1, <4>3 DEF Bucket
      <4> QED  BY <4>4 DEF b
    <3>6. Promise!Ask(<<r, ip>>)
      BY <3>3, <3>4, <3>5 DEF Promise!Ask, Bucket, Key
    <3> QED  BY <3>6 DEF Promise!Next
  <2>4. CASE UNCHANGED vars
    BY <2>4 DEF vars, Promise!bucketVars, Level, Found
  <2> QED  BY <2>1, <2>2, <2>3, <2>4 DEF Next
<1>3. Spec => []IInv
  BY Inductive
<1> QED  BY <1>1, <1>2, <1>3, PTL DEF Spec, Implements, Promise!Spec
=============================================================================
