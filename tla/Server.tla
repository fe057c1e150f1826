------------------------------- MODULE Server -------------------------------
(***************************************************************************)
(* ProxyServer::run (server.rs): the accept loop, the connection limiter,  *)
(* one task per admitted connection, and the connection counters of        *)
(* stats.rs, from bind to the end of the runtime.                          *)
(*                                                                         *)
(* A member of Clients is a client that holds at most one connection at a  *)
(* time and may connect again and again.  stage[c] follows that            *)
(* connection through the loop and then through its own task; each value   *)
(* is a place where other tasks, the clients or a reader of the counters   *)
(* may run:                                                                *)
(*                                                                         *)
(*   idle -> queued -> accepted -> refused -> halfClosed -> idle           *)
(*                     accepted -> permitted -> counted -> spawned ->      *)
(*       first -> socks | http -> guard -> permit -> idle                  *)
(*                                                                         *)
(* What a session does between socks (or http) and its end is the business *)
(* of the modules Socks5 and HttpProxy; here it may last for ever.         *)
(***************************************************************************)
EXTENDS Naturals, FiniteSets

CONSTANTS
  Clients,          \* the clients that may hold a connection
  MaxConnections,   \* server.max_connections, at least 1 (Config::validate)
  CounterMax,       \* the largest value of an AtomicU64 counter (2^64 - 1)
  HasShutdown       \* does the caller pass a shutdown receiver to run()?

ASSUME ServerAssumption ==
  /\ IsFiniteSet(Clients)
  /\ MaxConnections \in Nat \ {0}
  /\ CounterMax \in Nat
  /\ MaxConnections <= CounterMax
  /\ HasShutdown \in BOOLEAN

VARIABLES
  run,      \* where the accept loop is: binding, running, returned, failed
  stop,     \* the watch channel has changed (or its sender is gone)
  permits,  \* the permits the semaphore has left
  stage,    \* where each client's connection is
  inbox,    \* what the server's next read of the connection would meet
  notice,   \* how a refused client sees its connection end
  total, active, rejections, socks5, http,  \* the counters of Stats
  silent    \* history: admitted connections that ended unclassified

conns  == <<stage, inbox, notice>>
stats  == <<total, active, rejections, socks5, http, silent>>
vars   == <<run, stop, permits, conns, stats>>

Stages == {"idle", "queued", "accepted", "refused", "halfClosed", "permitted",
           "counted", "spawned", "first", "socks", "http", "guard", "permit"}
Request == {"socks", "http"}
Counter == 0..CounterMax

In(S) == {c \in Clients : stage[c] \in S}

\* The connection the accept loop is working on: at most one.
LoopStages == {"accepted", "refused", "halfClosed", "permitted", "counted"}

\* The connections that own a permit, and those counted as active.
HolderStages == {"permitted", "counted", "spawned", "first", "socks", "http",
                 "guard", "permit"}
LiveStages   == {"spawned", "first", "socks", "http", "guard"}
Holders == In(HolderStages)
Live    == In(LiveStages)

AtSelect == run = "running" /\ In(LoopStages) = {}

\* AtomicU64::fetch_add and fetch_sub wrap around.
IncSaturates(n) == IF n = CounterMax THEN n ELSE n + 1  \* faulty
Inc(n) == IF n = CounterMax THEN 0 ELSE n + 1
Dec(n) == IF n = 0 THEN CounterMax ELSE n - 1

Move(c, from, to) ==
  /\ stage[c] = from
  /\ stage' = [stage EXCEPT ![c] = to]

Init ==
  /\ run = "binding"
  /\ stop = FALSE
  /\ permits = MaxConnections
  /\ stage = [c \in Clients |-> "idle"]
  /\ inbox = [c \in Clients |-> "empty"]
  /\ notice = [c \in Clients |-> "none"]
  /\ total = 0 /\ active = 0 /\ rejections = 0
  /\ socks5 = 0 /\ http = 0 /\ silent = 0

-----------------------------------------------------------------------------
(* The clients, the network and the owner of the shutdown channel.         *)

Connect(c) ==
  /\ run = "running"
  /\ Move(c, "idle", "queued")
  /\ inbox' = [inbox EXCEPT ![c] = "empty"]
  /\ notice' = [notice EXCEPT ![c] = "none"]
  /\ UNCHANGED <<run, stop, permits, stats>>

\* The first byte arrives, or the client closes without sending one.
ClientSends(c) ==
  /\ stage[c] \notin {"idle", "socks", "http", "guard", "permit"}
  /\ inbox[c] = "empty"
  /\ \E kind \in Request : inbox' = [inbox EXCEPT ![c] = kind]
  /\ UNCHANGED <<run, stop, permits, stage, notice, stats>>

ClientCloses(c) ==
  /\ stage[c] \notin {"idle", "guard", "permit"}
  /\ inbox[c] = "empty"
  /\ inbox' = [inbox EXCEPT ![c] = "fin"]
  /\ UNCHANGED <<run, stop, permits, stage, notice, stats>>

RequestStop ==
  /\ HasShutdown
  /\ ~stop
  /\ stop' = TRUE
  /\ UNCHANGED <<run, permits, conns, stats>>

-----------------------------------------------------------------------------
(* The accept loop.                                                        *)

Bind ==
  /\ run = "binding"
  /\ run' \in {"running", "failed"}
  /\ UNCHANGED <<stop, permits, conns, stats>>

Accept(c) ==
  /\ AtSelect
  /\ Move(c, "queued", "accepted")
  /\ UNCHANGED <<run, stop, permits, inbox, notice, stats>>

\* Leaving run() drops the listener, and with it the unaccepted connections.
Return(outcome) ==
  /\ run' = outcome
  /\ stage' = [c \in Clients |-> IF stage[c] = "queued" THEN "idle" ELSE stage[c]]
  /\ UNCHANGED <<stop, permits, inbox, notice, stats>>

AcceptFails == AtSelect /\ Return("failed")
StopSeen    == AtSelect /\ stop /\ Return("returned")

\* Faulty: the last permit is never handed out; the loop awaits a permit.
TryAcquireTooEarly(c) ==
  /\ IF permits > 1
       THEN Move(c, "accepted", "permitted") /\ permits' = permits - 1
       ELSE Move(c, "accepted", "refused") /\ UNCHANGED permits
  /\ UNCHANGED <<run, stop, inbox, notice, stats>>

AcquireAwaited(c) ==
  /\ permits > 0
  /\ Move(c, "accepted", "permitted")
  /\ permits' = permits - 1
  /\ UNCHANGED <<run, stop, inbox, notice, stats>>

TryAcquire(c) ==
  /\ IF permits > 0
       THEN Move(c, "accepted", "permitted") /\ permits' = permits - 1
       ELSE Move(c, "accepted", "refused") /\ UNCHANGED permits
  /\ UNCHANGED <<run, stop, inbox, notice, stats>>

\* The refusal is counted, then shutdown() sends a FIN ...
Refuse(c) ==
  /\ Move(c, "refused", "halfClosed")
  /\ rejections' = Inc(rejections)
  /\ UNCHANGED <<run, stop, permits, inbox, notice, total, active, socks5, http, silent>>

\* ... and `continue` drops the socket: closing one with unread bytes resets it.
DropRefused(c) ==
  /\ Move(c, "halfClosed", "idle")
  /\ notice' = [notice EXCEPT ![c] = IF inbox[c] \in Request THEN "reset" ELSE "eof"]
  /\ UNCHANGED <<run, stop, permits, inbox, stats>>

CountTotal(c) ==
  /\ Move(c, "permitted", "counted")
  /\ total' = Inc(total)
  /\ UNCHANGED <<run, stop, permits, inbox, notice, active, rejections, socks5, http, silent>>

Spawn(c) ==
  /\ Move(c, "counted", "spawned")
  /\ active' = Inc(active)
  /\ UNCHANGED <<run, stop, permits, inbox, notice, total, rejections, socks5, http, silent>>

-----------------------------------------------------------------------------
(* The task of an admitted connection.                                     *)

\* Faulty: `let _ = permit` drops the permit at the task's first poll.
FirstPollDropsPermit(c) ==
  /\ Move(c, "spawned", "first")
  /\ permits' = permits + 1
  /\ UNCHANGED <<run, stop, inbox, notice, stats>>

\* The task takes the permit and builds its guard; set_nodelay may fail.
FirstPoll(c) ==
  /\ \/ Move(c, "spawned", "first") /\ UNCHANGED silent
     \/ Move(c, "spawned", "guard") /\ silent' = Inc(silent)
  /\ UNCHANGED <<run, stop, permits, inbox, notice, total, active, rejections, socks5, http>>

\* Faulty: every connection is also counted as HTTP.
ReadFirstCountsBoth(c) ==
  /\ inbox[c] \in Request
  /\ Move(c, "first", inbox[c])
  /\ inbox' = [inbox EXCEPT ![c] = "empty"]
  /\ socks5' = IF inbox[c] = "socks" THEN Inc(socks5) ELSE socks5
  /\ http' = Inc(http)
  /\ UNCHANGED <<run, stop, permits, notice, total, active, rejections, silent>>

ReadFirst(c) ==
  /\ inbox[c] \in Request
  /\ Move(c, "first", inbox[c])
  /\ inbox' = [inbox EXCEPT ![c] = "empty"]
  /\ socks5' = IF inbox[c] = "socks" THEN Inc(socks5) ELSE socks5
  /\ http'   = IF inbox[c] = "http" THEN Inc(http) ELSE http
  /\ UNCHANGED <<run, stop, permits, notice, total, active, rejections, silent>>

\* Faulty: the early return skips the guard; the first read has no timeout.
FirstReadSkipsGuard(c) ==
  /\ inbox[c] \in {"empty", "fin"}
  /\ Move(c, "first", "permit")
  /\ silent' = Inc(silent)
  /\ UNCHANGED <<run, stop, permits, inbox, notice, total, active, rejections, socks5, http>>

FirstReadNeverTimesOut(c) ==
  /\ inbox[c] = "fin"
  /\ Move(c, "first", "guard")
  /\ silent' = Inc(silent)
  /\ UNCHANGED <<run, stop, permits, inbox, notice, total, active, rejections, socks5, http>>

\* The first read meets the client's FIN, or gives up after IO_TIMEOUT.
FirstReadEnds(c) ==
  /\ inbox[c] \in {"empty", "fin"}
  /\ Move(c, "first", "guard")
  /\ silent' = Inc(silent)
  /\ UNCHANGED <<run, stop, permits, inbox, notice, total, active, rejections, socks5, http>>

\* The session returns, and its future drops the client socket.
SessionEnds(c) ==
  /\ \E kind \in Request : Move(c, kind, "guard")
  /\ UNCHANGED <<run, stop, permits, inbox, notice, stats>>

DropGuard(c) ==
  /\ Move(c, "guard", "permit")
  /\ active' = Dec(active)
  /\ UNCHANGED <<run, stop, permits, inbox, notice, total, rejections, socks5, http, silent>>

\* Faulty: the permit is returned twice.
DropPermitTwice(c) ==
  /\ Move(c, "permit", "idle")
  /\ permits' = permits + 2
  /\ UNCHANGED <<run, stop, inbox, notice, stats>>

DropPermit(c) ==
  /\ Move(c, "permit", "idle")
  /\ permits' = permits + 1
  /\ UNCHANGED <<run, stop, inbox, notice, stats>>

\* When run() is over its caller drops the runtime, which drops every task
\* at its await.  One that was never polled has no guard to drop.
Over == run \in {"returned", "failed"}

\* Faulty: the runtime is kept until the sessions are over.
AbortOnlyUnclassified(c) ==
  /\ Over
  /\ Move(c, "first", "guard")
  /\ silent' = Inc(silent)
  /\ UNCHANGED <<run, stop, permits, inbox, notice, total, active, rejections, socks5, http>>

AbortPolled(c) ==
  /\ Over
  /\ \E at \in {"first"} \cup Request : Move(c, at, "guard")
  /\ silent' = IF stage[c] = "first" THEN Inc(silent) ELSE silent
  /\ UNCHANGED <<run, stop, permits, inbox, notice, total, active, rejections, socks5, http>>

AbortUnpolled(c) ==
  /\ Over
  /\ Move(c, "spawned", "idle")
  /\ permits' = permits + 1
  /\ silent' = Inc(silent)
  /\ UNCHANGED <<run, stop, inbox, notice, total, active, rejections, socks5, http>>

\* The process has ended: nothing is left to happen.
Terminated ==
  /\ Over
  /\ In(Stages \ {"idle"}) = {}
  /\ UNCHANGED vars

-----------------------------------------------------------------------------
Loop(c) == Accept(c) \/ TryAcquire(c) \/ Refuse(c) \/ DropRefused(c)
             \/ CountTotal(c) \/ Spawn(c)

Task(c) == FirstPoll(c) \/ ReadFirst(c) \/ FirstReadEnds(c) \/ SessionEnds(c)
             \/ DropGuard(c) \/ DropPermit(c)

Abort(c) == AbortPolled(c) \/ AbortUnpolled(c)

Next ==
  \/ \E c \in Clients : Connect(c) \/ ClientSends(c) \/ ClientCloses(c)
  \/ RequestStop
  \/ Bind \/ AcceptFails \/ StopSeen
  \/ \E c \in Clients : Loop(c) \/ Task(c) \/ Abort(c)
  \/ Terminated

Spec == Init /\ [][Next]_vars

(***************************************************************************)
(* The runtime polls a task that can run; a read that gets nothing ends    *)
(* after IO_TIMEOUT.  The backlog is a queue, so no connection in it is    *)
(* passed over for ever, and select! starts at a branch chosen at random,  *)
(* so a stop request is not either: both are strong fairness.  Nothing     *)
(* makes a session end.                                                    *)
(***************************************************************************)
Fairness ==
  /\ WF_vars(Bind)
  /\ SF_vars(StopSeen)
  /\ \A c \in Clients :
       /\ SF_vars(Accept(c))
       /\ WF_vars(TryAcquire(c) \/ Refuse(c) \/ DropRefused(c) \/ CountTotal(c) \/ Spawn(c))
       /\ WF_vars(FirstPoll(c) \/ ReadFirst(c) \/ FirstReadEnds(c) \/ DropGuard(c) \/ DropPermit(c))
       /\ WF_vars(Abort(c))

FairSpec == Spec /\ Fairness

-----------------------------------------------------------------------------
(* Properties                                                              *)

TypeOK ==
  /\ run \in {"binding", "running", "returned", "failed"}
  /\ stop \in BOOLEAN
  /\ permits \in 0..MaxConnections
  /\ stage \in [Clients -> Stages]
  /\ inbox \in [Clients -> {"empty", "fin"} \cup Request]
  /\ notice \in [Clients -> {"none", "eof", "reset"}]
  /\ total \in Counter /\ active \in Counter /\ rejections \in Counter
  /\ socks5 \in Counter /\ http \in Counter /\ silent \in Counter

\* Permits are conserved: every one is in the semaphore or owned by exactly
\* one connection between admission and the end of its task, on every way out
\* of the task (return, error, timeout, abort).  So none leaks, which would
\* shrink the server for ever, and none is released early, which would let
\* more than MaxConnections connections be handled at once.
PermitsConserved == permits + Cardinality(Holders) = MaxConnections

\* While the server runs, the active_connections counter is the number of
\* spawned tasks that still have their socket or guard, whatever way tasks
\* end; it never wraps below zero.  (A runtime that drops a task it never
\* polled leaves the counter high, but only after run() is over.)
ActiveTracksTasks ==
  /\ run \in {"binding", "running"} => active = Cardinality(Live)
  /\ Cardinality(Live) <= active
  /\ active <= MaxConnections

\* Every connection counted in total_connections is, up to the counters'
\* wrap-around, classified once as SOCKS5 or HTTP, ended unclassified, or
\* still waits for its first byte.
DispatchCounted ==
  total = (socks5 + http + silent
             + Cardinality(In({"counted", "spawned", "first"}))) % (CounterMax + 1)

Verdict(s) == IF s \in HolderStages THEN "served"
              ELSE IF s \in {"refused", "halfClosed"} THEN "refused" ELSE "none"

Limit == INSTANCE ConnectionLimit WITH verdict <- [c \in Clients |-> Verdict(stage[c])]

\* The server implements the limit: it admits only below MaxConnections and
\* refuses only while MaxConnections connections own a permit.
ImplementsLimit == Limit!Spec

\* A client that connects and never sends a complete first byte does not keep
\* its slot: after the timeout its permit goes back to the semaphore.
SilentClientReleased ==
  \A c \in Clients : (stage[c] \in {"spawned", "first"}) ~> (stage[c] \in {"idle"} \cup Request)

\* Every queued connection is answered: admitted, refused, or dropped with
\* the listener, however many others are queued and refused meanwhile.
QueuedIsAnswered ==
  \A c \in Clients : (stage[c] = "queued") ~> (stage[c] \notin {"queued", "accepted"})

\* A stop request ends the accept loop although clients keep connecting, and so
\* does an error of accept; every session ends with it, however long it would have
\* lasted.
StopIsHonoured == (stop \/ run = "failed") ~> (Over /\ In(Stages \ {"idle"}) = {})

\* server.rs: "cleanly close the accepted socket so the client sees EOF rather
\* than a spurious RST".
RefusedSeesEof == \A c \in Clients : notice[c] # "reset"

=============================================================================
