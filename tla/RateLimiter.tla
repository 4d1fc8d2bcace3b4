----------------------------- MODULE RateLimiter -----------------------------
(***************************************************************************)
(* The rateLimit middleware.  Each route it wraps has a map of its own from *)
(* a client's address to a limiter, filled on demand, and a goroutine that  *)
(* drops the clients it has not seen for a while.  Both hold the map's      *)
(* mutex for the whole of what they do, so each is one step.                *)
(*                                                                         *)
(* Time is counted in ticks; a limiter (golang.org/x/time/rate) gains a     *)
(* token in PerToken of them, and its credit is counted in ticks too.       *)
(* lastSeen is kept as the time since.  The limiter is enabled.             *)
(***************************************************************************)
EXTENDS Naturals

CONSTANTS
  Clients, Routes,
  Burst,      \* limiter-burst
  PerToken,   \* the inverse of limiter-rps
  Idle,       \* the goroutine's three minutes
  MaxWindow,  \* bound on the window over which admissions are counted
  NoClient    \* no entry in the map

ASSUME BurstAssumption == Burst \in Nat
ASSUME PerTokenAssumption == PerToken \in Nat \ {0}
ASSUME IdleAssumption == Idle \in Nat
ASSUME WindowAssumption == MaxWindow \in Nat

VARIABLES
  clients,   \* each route's map
  answer,    \* the last answer: to whom, and whether the request went through
  elapsed,   \* history: ticks since some moment
  admitted   \* history: requests let through since then

vars == <<clients, answer, elapsed, admitted>>

Full == Burst * PerToken

\* away counts no further than the eviction asks.
Client == [credit : 0..Full, away : 0..(Idle + 1)]

ASSUME NoClientAssumption == NoClient \notin Client

NewClient == [credit |-> Full, away |-> 0]
NoneAdmitted == [r \in Routes |-> [ip \in Clients |-> 0]]
-----------------------------------------------------------------------------
Found(r, ip) == IF clients[r][ip] = NoClient THEN NewClient ELSE clients[r][ip]

\* Faulty variant: only the first request of a client sets lastSeen.
RequestSeenOnce(r, ip) ==
  LET ok == Found(r, ip).credit >= PerToken
  IN /\ clients' = [clients EXCEPT ![r][ip] =
          [Found(r, ip) EXCEPT !.credit = IF ok THEN @ - PerToken ELSE @]]
     /\ answer' = [key |-> <<r, ip>>, ok |-> ok]
     /\ admitted' = IF ok THEN [admitted EXCEPT ![r][ip] = @ + 1] ELSE admitted
     /\ UNCHANGED elapsed

Request(r, ip) ==
  LET ok == Found(r, ip).credit >= PerToken
  IN /\ clients' = [clients EXCEPT ![r][ip] =
          [credit |-> IF ok THEN Found(r, ip).credit - PerToken ELSE Found(r, ip).credit,
           away   |-> 0]]
     /\ answer' = [key |-> <<r, ip>>, ok |-> ok]
     /\ admitted' = IF ok THEN [admitted EXCEPT ![r][ip] = @ + 1] ELSE admitted
     /\ UNCHANGED elapsed

\* Faulty variant: the comparison is the wrong way round.
GoneSwapped(c) == c # NoClient /\ c.away < Idle

\* The clients the goroutine drops when it wakes.
Gone(c) == c # NoClient /\ c.away > Idle

Sweep(r) ==
  /\ clients' = [clients EXCEPT ![r] =
       [ip \in Clients |-> IF Gone(@[ip]) THEN NoClient ELSE @[ip]]]
  /\ UNCHANGED <<answer, elapsed, admitted>>

Aged(c) ==
  IF c = NoClient THEN NoClient
  ELSE [credit |-> IF c.credit < Full THEN c.credit + 1 ELSE c.credit,
        away   |-> IF c.away <= Idle THEN c.away + 1 ELSE c.away]

\* Time passes; the history may start anew at any moment.
Tick ==
  /\ clients' = [r \in Routes |-> [ip \in Clients |-> Aged(clients[r][ip])]]
  /\ \/ elapsed < MaxWindow /\ elapsed' = elapsed + 1 /\ UNCHANGED admitted
     \/ elapsed' = 0 /\ admitted' = NoneAdmitted
  /\ UNCHANGED answer

Init ==
  /\ clients = [r \in Routes |-> [ip \in Clients |-> NoClient]]
  /\ answer = <<>>
  /\ elapsed = 0
  /\ admitted = NoneAdmitted

Next == Tick \/ \E r \in Routes : Sweep(r) \/ \E ip \in Clients : Request(r, ip)

Spec == Init /\ [][Next]_vars

\* Time passes, and the goroutine of each route wakes every minute.
Fairness == WF_vars(Tick) /\ \A r \in Routes : WF_vars(Sweep(r))

FairSpec == Spec /\ Fairness
-----------------------------------------------------------------------------
(* Properties *)

\* The variables have their types; no limiter is overdrawn or overfull.
TypeOK ==
  /\ clients \in [Routes -> [Clients -> Client \cup {NoClient}]]
  /\ elapsed \in 0..MaxWindow
  /\ admitted \in [Routes -> [Clients -> Nat]]

\* In no stretch of time does a route let a client through more often than
\* the burst and the rate allow, although the goroutine replaces limiters that
\* have been spent by full ones (flags limiter-rps and limiter-burst).
RouteRate ==
  \A r \in Routes, ip \in Clients : admitted[r][ip] * PerToken <= Full + elapsed

\* The credit of a client nobody keeps is what a new limiter starts with.
Level(r, ip) == Found(r, ip).credit

Promise == INSTANCE TokenBucket WITH
  Keys <- Routes \X Clients,
  bucket <- [k \in Routes \X Clients |-> Level(k[1], k[2])]

\* No client can tell that limiters are created on demand and evicted: the
\* answers are those of one bucket for each route and client.
Implements == Promise!Spec

\* The map does not grow with every address ever seen: a client that stays
\* away is dropped (the goroutine of rateLimit).
IdleDropped ==
  \A r \in Routes, ip \in Clients :
    []<>(clients[r][ip] = NoClient \/ clients[r][ip].away = 0)
-----------------------------------------------------------------------------
(* The inductive invariant *)

\* A client that has been away for long enough to be dropped has had the time
\* to fill its bucket.
FullWhenDropped ==
  \A r \in Routes, ip \in Clients :
    clients[r][ip] # NoClient =>
      clients[r][ip].credit = Full \/ clients[r][ip].credit >= clients[r][ip].away

\* What a client has left and what it has used come from the same credit.
Account ==
  \A r \in Routes, ip \in Clients :
    admitted[r][ip] * PerToken + Level(r, ip) <= Full + elapsed
=============================================================================
