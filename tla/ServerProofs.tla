---------------------------- MODULE ServerProofs ----------------------------
(***************************************************************************)
(* Server's type invariant, the conservation of its permits, the meaning   *)
(* of active_connections and the refinement of ConnectionLimit, for every  *)
(* finite set of clients and every limit.                                  *)
(*                                                                         *)
(* The inductive invariant adds to these that the accept loop only has a   *)
(* connection in hand while it runs: without it a connection could be      *)
(* spawned after an abort has left active_connections too high.  And it    *)
(* says how often the classified connections may be ahead of the total by  *)
(* a whole turn of the counter.                                            *)
(***************************************************************************)
EXTENDS Server, TLAPS, FiniteSetTheorems

LoopOnlyRuns == In(LoopStages) # {} => run = "running"

\* The connections counted and not yet classified, and those that were counted.
Pending   == {"counted", "spawned", "first"}
Width     == CounterMax + 1
Accounted == socks5 + http + silent + Cardinality(In(Pending))

\* Three counters and the connections pending make less than four turns of one.
WholeTurns ==
  Accounted \in {total, total + Width, total + Width + Width, total + Width + Width + Width}

IInv == TypeOK /\ PermitsConserved /\ ActiveTracksTasks /\ LoopOnlyRuns /\ WholeTurns

-----------------------------------------------------------------------------
(* How one connection's move changes the number of connections in a set of *)
(* stages.                                                                 *)

LEMMA InFinite ==
  ASSUME NEW CONSTANT S
  PROVE  IsFiniteSet(In(S)) /\ Cardinality(In(S)) \in Nat
  BY ServerAssumption, FS_Subset, FS_CardinalityType DEF In, ServerAssumption

LEMMA Enter ==
  ASSUME NEW CONSTANT S, NEW c \in Clients, NEW to \in S,
         stage \in [Clients -> Stages],
         stage[c] \notin S,
         stage' = [stage EXCEPT ![c] = to]
  PROVE  Cardinality(In(S)') = Cardinality(In(S)) + 1
<1>1. In(S)' = In(S) \cup {c} /\ c \notin In(S)
  BY DEF In
<1> QED
  BY <1>1, InFinite, FS_AddElement

LEMMA Leave ==
  ASSUME NEW CONSTANT S, NEW c \in Clients, NEW to,
         to \notin S,
         stage \in [Clients -> Stages],
         stage[c] \in S,
         stage' = [stage EXCEPT ![c] = to]
  PROVE  Cardinality(In(S)') = Cardinality(In(S)) - 1
<1>1. In(S)' = In(S) \ {c} /\ c \in In(S)
  BY DEF In
<1> QED
  BY <1>1, InFinite, FS_RemoveElement

LEMMA Stay ==
  ASSUME NEW CONSTANT S, NEW c \in Clients, NEW to,
         stage \in [Clients -> Stages],
         stage[c] \in S <=> to \in S,
         stage' = [stage EXCEPT ![c] = to]
  PROVE  In(S)' = In(S)
  BY DEF In

-----------------------------------------------------------------------------
(* Typing.                                                                 *)

LEMMA IncType == \A n \in Counter : Inc(n) \in Counter
  BY ServerAssumption DEF ServerAssumption, Counter, Inc

LEMMA DecType == \A n \in Counter : Dec(n) \in Counter
  BY ServerAssumption DEF ServerAssumption, Counter, Dec

LEMMA TypeInit == Init => TypeOK
<1> SUFFICES ASSUME Init PROVE TypeOK
  OBVIOUS
<1>1. permits \in 0..MaxConnections /\ 0 \in Counter
  BY ServerAssumption DEF ServerAssumption, Init, Counter
<1>2. /\ stage \in [Clients -> Stages]
      /\ inbox \in [Clients -> {"empty", "fin"} \cup Request]
      /\ notice \in [Clients -> {"none", "eof", "reset"}]
  BY DEF Init, Stages
<1> QED
  BY <1>1, <1>2 DEF Init, TypeOK

\* No step leaves the types; the permit count needs its conservation law.
LEMMA TypeStep ==
  ASSUME TypeOK, PermitsConserved, [Next]_vars
  PROVE  TypeOK'
<1> USE DEF TypeOK, conns, stats
<1>0. \A c \in Clients : stage[c] \in HolderStages => permits + 1 \in 0..MaxConnections
  <2> SUFFICES ASSUME NEW c \in Clients, stage[c] \in HolderStages
               PROVE  permits + 1 \in 0..MaxConnections
    OBVIOUS
  <2>1. Cardinality(Holders) # 0
    BY InFinite, FS_EmptySet DEF Holders, In
  <2> QED
    BY <2>1, InFinite, ServerAssumption DEF PermitsConserved, Holders, ServerAssumption
<1>1. ASSUME NEW c \in Clients, Connect(c) \/ ClientSends(c) \/ ClientCloses(c)
      PROVE  TypeOK'
  BY <1>1 DEF Connect, ClientSends, ClientCloses, Move, Stages, Request
<1>2. CASE RequestStop \/ Bind
  BY <1>2 DEF RequestStop, Bind
<1>3. CASE AcceptFails \/ StopSeen
  BY <1>3 DEF AcceptFails, StopSeen, Return, AtSelect, Stages
<1>4. ASSUME NEW c \in Clients, Accept(c) \/ TryAcquire(c) \/ DropRefused(c)
      PROVE  TypeOK'
  BY <1>4, ServerAssumption
     DEF Accept, TryAcquire, DropRefused, Move, Stages, ServerAssumption
<1>5. ASSUME NEW c \in Clients, Refuse(c) \/ CountTotal(c) \/ Spawn(c)
      PROVE  TypeOK'
  BY <1>5, IncType DEF Refuse, CountTotal, Spawn, Move, Stages
<1>6. ASSUME NEW c \in Clients, FirstPoll(c) \/ FirstReadEnds(c) \/ SessionEnds(c)
      PROVE  TypeOK'
  BY <1>6, IncType DEF FirstPoll, FirstReadEnds, SessionEnds, Move, Stages
<1>7. ASSUME NEW c \in Clients, ReadFirst(c)
      PROVE  TypeOK'
  BY <1>7, IncType DEF ReadFirst, Move, Stages, Request
<1>8. ASSUME NEW c \in Clients, DropGuard(c) \/ DropPermit(c)
      PROVE  TypeOK'
  BY <1>8, <1>0, DecType DEF DropGuard, DropPermit, Move, Stages, HolderStages
<1>9. ASSUME NEW c \in Clients, AbortPolled(c) \/ AbortUnpolled(c)
      PROVE  TypeOK'
  BY <1>9, <1>0, IncType DEF AbortPolled, AbortUnpolled, Move, Stages, HolderStages
<1>10. CASE Terminated \/ UNCHANGED vars
  BY <1>10 DEF Terminated, vars
<1> QED
  BY <1>1, <1>2, <1>3, <1>4, <1>5, <1>6, <1>7, <1>8, <1>9, <1>10
     DEF Next, Loop, Task, Abort

-----------------------------------------------------------------------------
(* The permits and the counter of active connections.                      *)

LEMMA InvInit == Init => IInv
<1> SUFFICES ASSUME Init PROVE IInv
  OBVIOUS
<1>1. Holders = {} /\ Live = {} /\ In(LoopStages) = {} /\ In(Pending) = {}
  BY DEF Init, Holders, Live, In, HolderStages, LiveStages, LoopStages, Pending
<1>2. WholeTurns
  BY <1>1, FS_EmptySet DEF Init, WholeTurns, Accounted
<1> QED
  BY <1>1, <1>2, TypeInit, FS_EmptySet, ServerAssumption
     DEF IInv, Init, PermitsConserved, ActiveTracksTasks, LoopOnlyRuns, ServerAssumption

LEMMA LoopStep ==
  ASSUME TypeOK, LoopOnlyRuns, [Next]_vars
  PROVE  LoopOnlyRuns'
<1> USE DEF LoopOnlyRuns, TypeOK
<1>1. ASSUME NEW c \in Clients, Loop(c)
      PROVE  run = "running" /\ run' = run
  BY <1>1 DEF Loop, Accept, AtSelect, TryAcquire, Refuse, DropRefused, CountTotal, Spawn,
              Move, In, LoopStages
<1>2. ASSUME NEW c \in Clients,
             Connect(c) \/ ClientSends(c) \/ ClientCloses(c) \/ Task(c) \/ Abort(c)
      PROVE  run' = run /\ In(LoopStages)' = In(LoopStages)
  <2>1. CASE Connect(c) \/ ClientSends(c) \/ ClientCloses(c)
    BY <2>1 DEF Connect, ClientSends, ClientCloses, Move, In, LoopStages
  <2>2. CASE Task(c)
    BY <2>2 DEF Task, FirstPoll, ReadFirst, FirstReadEnds, SessionEnds, DropGuard, DropPermit,
                Move, In, LoopStages, Request
  <2>3. CASE Abort(c)
    BY <2>3 DEF Abort, AbortPolled, AbortUnpolled, Move, In, LoopStages, Request
  <2> QED
    BY <1>2, <2>1, <2>2, <2>3
<1>3. CASE AcceptFails \/ StopSeen
  BY <1>3 DEF AcceptFails, StopSeen, Return, AtSelect, In, LoopStages
<1>4. CASE Bind
  BY <1>4 DEF Bind, In, LoopStages, conns
<1>5. CASE RequestStop \/ Terminated \/ UNCHANGED vars
  BY <1>5 DEF RequestStop, Terminated, vars, conns, In
<1> QED
  BY <1>1, <1>2, <1>3, <1>4, <1>5 DEF Next

LEMMA PermitStep ==
  ASSUME TypeOK, PermitsConserved, [Next]_vars
  PROVE  PermitsConserved'
<1> USE DEF TypeOK, PermitsConserved, Holders
<1>a. Cardinality(In(HolderStages)) \in Nat /\ permits \in Nat /\ MaxConnections \in Nat
  BY InFinite, ServerAssumption DEF ServerAssumption
<1>1. ASSUME NEW c \in Clients, TryAcquire(c)
      PROVE  PermitsConserved'
  <2>1. CASE permits > 0
    BY <1>1, <1>a, <2>1, Enter DEF TryAcquire, Move, HolderStages
  <2>2. CASE ~(permits > 0)
    BY <1>1, <2>2, Stay DEF TryAcquire, Move, HolderStages
  <2> QED
    BY <2>1, <2>2
<1>2. ASSUME NEW c \in Clients, DropPermit(c) \/ AbortUnpolled(c)
      PROVE  PermitsConserved'
  <2>1. /\ stage[c] \in HolderStages /\ "idle" \notin HolderStages
        /\ stage' = [stage EXCEPT ![c] = "idle"]
        /\ permits' = permits + 1
    BY <1>2 DEF DropPermit, AbortUnpolled, Move, HolderStages
  <2>2. Cardinality(In(HolderStages)') = Cardinality(In(HolderStages)) - 1
    BY <2>1, Leave DEF HolderStages
  <2> QED
    BY <2>1, <2>2, <1>a DEF HolderStages
<1>3. ASSUME NEW c \in Clients,
             \/ Connect(c) \/ Accept(c) \/ Refuse(c) \/ DropRefused(c)
             \/ CountTotal(c) \/ Spawn(c)
      PROVE  PermitsConserved'
  BY <1>3, Stay DEF Connect, Accept, Refuse, DropRefused, CountTotal, Spawn, Move, HolderStages
<1>4. ASSUME NEW c \in Clients,
             \/ FirstPoll(c) \/ ReadFirst(c) \/ FirstReadEnds(c) \/ SessionEnds(c)
             \/ DropGuard(c) \/ AbortPolled(c)
      PROVE  PermitsConserved'
  BY <1>4, Stay DEF FirstPoll, ReadFirst, FirstReadEnds, SessionEnds, DropGuard, AbortPolled,
                    Move, HolderStages, Request
<1>5. CASE AcceptFails \/ StopSeen
  BY <1>5 DEF AcceptFails, StopSeen, Return, In, HolderStages
<1>6. CASE \/ RequestStop \/ Bind \/ Terminated \/ UNCHANGED vars
           \/ \E c \in Clients : ClientSends(c) \/ ClientCloses(c)
  BY <1>6 DEF RequestStop, Bind, Terminated, ClientSends, ClientCloses, vars, conns, In
<1> QED
  BY <1>1, <1>2, <1>3, <1>4, <1>5, <1>6 DEF Next, Loop, Task, Abort

LEMMA ActiveStep ==
  ASSUME IInv, PermitsConserved', TypeOK', [Next]_vars
  PROVE  ActiveTracksTasks'
<1> USE DEF IInv, TypeOK, ActiveTracksTasks, Live
<1>a. /\ Cardinality(In(LiveStages)) \in Nat /\ active \in Nat
      /\ MaxConnections \in Nat /\ CounterMax \in Nat /\ MaxConnections <= CounterMax
  BY InFinite, ServerAssumption DEF ServerAssumption, Counter
<1>1. ASSUME NEW c \in Clients, Spawn(c)
      PROVE  ActiveTracksTasks'
  <2>1. run = "running" /\ run' = run
    BY <1>1 DEF Spawn, Move, LoopOnlyRuns, In, LoopStages
  <2>2. Cardinality(In(LiveStages)') = Cardinality(In(LiveStages)) + 1
    BY <1>1, Enter DEF Spawn, Move, LiveStages
  <2>3. Cardinality(In(LiveStages)') <= MaxConnections
    <3>1. IsFiniteSet(Clients) /\ Holders' \subseteq Clients /\ Live' \subseteq Holders'
      BY ServerAssumption DEF ServerAssumption, Holders, In, LiveStages, HolderStages
    <3>2. IsFiniteSet(Holders') /\ Cardinality(Holders)' \in Nat
      BY <3>1, FS_Subset, FS_CardinalityType
    <3>3. Cardinality(Live)' <= Cardinality(Holders)'
      BY <3>1, <3>2, FS_Subset
    <3>4. Cardinality(Holders)' <= MaxConnections
      BY <1>a, <3>2 DEF PermitsConserved
    <3> QED
      BY <1>a, <2>2, <3>2, <3>3, <3>4
  <2>4. active' = active + 1
    BY <1>1, <1>a, <2>1, <2>2, <2>3 DEF Spawn, Inc
  <2> QED
    BY <1>a, <2>1, <2>2, <2>3, <2>4
<1>2. ASSUME NEW c \in Clients, DropGuard(c)
      PROVE  ActiveTracksTasks'
  <2>1. Cardinality(In(LiveStages)') = Cardinality(In(LiveStages)) - 1
    BY <1>2, Leave DEF DropGuard, Move, LiveStages
  <2>2. Cardinality(In(LiveStages)) # 0
    <3>1. c \in In(LiveStages)
      BY <1>2 DEF DropGuard, Move, LiveStages, In
    <3> QED
      BY <3>1, InFinite, FS_EmptySet
  <2>3. active' = active - 1 /\ run' = run
    BY <1>2, <1>a, <2>2 DEF DropGuard, Dec
  <2> QED
    BY <1>a, <2>1, <2>2, <2>3
<1>3. ASSUME NEW c \in Clients, AbortUnpolled(c)
      PROVE  ActiveTracksTasks'
  <2>1. Cardinality(In(LiveStages)') = Cardinality(In(LiveStages)) - 1
    BY <1>3, Leave DEF AbortUnpolled, Move, LiveStages
  <2> QED
    BY <1>3, <1>a, <2>1 DEF AbortUnpolled, Over
<1>4. ASSUME NEW c \in Clients,
             \/ Connect(c) \/ Accept(c) \/ TryAcquire(c) \/ Refuse(c) \/ DropRefused(c)
             \/ CountTotal(c) \/ DropPermit(c)
      PROVE  ActiveTracksTasks'
  <2>1. PICK to \in Stages \ LiveStages :
          stage[c] \notin LiveStages /\ stage' = [stage EXCEPT ![c] = to]
    BY <1>4 DEF Connect, Accept, TryAcquire, Refuse, DropRefused, CountTotal, DropPermit,
                Move, Stages, LiveStages
  <2>2. active' = active /\ run' = run
    BY <1>4 DEF Connect, Accept, TryAcquire, Refuse, DropRefused, CountTotal, DropPermit, stats
  <2> QED
    BY <2>1, <2>2, Stay
<1>5. ASSUME NEW c \in Clients,
             \/ FirstPoll(c) \/ ReadFirst(c) \/ FirstReadEnds(c) \/ SessionEnds(c)
             \/ AbortPolled(c)
      PROVE  ActiveTracksTasks'
  BY <1>5, Stay DEF FirstPoll, ReadFirst, FirstReadEnds, SessionEnds, AbortPolled,
                    Move, LiveStages, Request, stats
<1>6. CASE AcceptFails \/ StopSeen
  <2>1. In(LiveStages)' = In(LiveStages)
    BY <1>6 DEF AcceptFails, StopSeen, Return, In, LiveStages
  <2> QED
    BY <1>6, <2>1 DEF AcceptFails, StopSeen, Return, AtSelect, stats
<1>7. CASE \/ RequestStop \/ Bind \/ Terminated \/ UNCHANGED vars
           \/ \E c \in Clients : ClientSends(c) \/ ClientCloses(c)
  BY <1>7 DEF RequestStop, Bind, Terminated, ClientSends, ClientCloses, vars, conns, stats, In
<1> QED
  BY <1>1, <1>2, <1>3, <1>4, <1>5, <1>6, <1>7 DEF Next, Loop, Task, Abort

\* A connection that is counted, or one that is classified, is one more on either
\* side, up to the turn of its counter.
LEMMA TurnStep ==
  ASSUME TypeOK, TypeOK', PermitsConserved', WholeTurns, [Next]_vars
  PROVE  WholeTurns'
<1> USE DEF WholeTurns, Accounted
<1> DEFINE left == Cardinality(In(Pending))
<1>a. /\ left \in Nat /\ left' \in Nat /\ left' <= CounterMax
      /\ CounterMax \in Nat /\ Width = CounterMax + 1
  <2>1. IsFiniteSet(Clients) /\ Holders' \subseteq Clients /\ In(Pending)' \subseteq Holders'
    BY ServerAssumption DEF ServerAssumption, Holders, In, Pending, HolderStages
  <2>2. IsFiniteSet(Holders') /\ Cardinality(Holders)' \in Nat
    BY <2>1, FS_Subset, FS_CardinalityType
  <2>3. left' <= Cardinality(Holders)' /\ left' \in Nat
    BY <2>1, <2>2, FS_Subset, FS_CardinalityType
  <2>4. /\ Cardinality(Holders)' <= MaxConnections
        /\ MaxConnections \in Nat /\ CounterMax \in Nat /\ MaxConnections <= CounterMax
    BY <2>2, ServerAssumption DEF PermitsConserved, ServerAssumption, TypeOK
  <2> QED
    BY <2>2, <2>3, <2>4, InFinite DEF Width
<1>b. /\ socks5 \in 0..CounterMax /\ http \in 0..CounterMax /\ silent \in 0..CounterMax
      /\ total \in 0..CounterMax
  BY DEF TypeOK, Counter
<1>1. ASSUME NEW c \in Clients, CountTotal(c)
      PROVE  WholeTurns'
  <2>1. left' = left + 1
    BY <1>1, Enter DEF CountTotal, Move, Pending, TypeOK
  <2>2. /\ total' = (IF total = CounterMax THEN 0 ELSE total + 1)
        /\ UNCHANGED <<socks5, http, silent>>
    BY <1>1 DEF CountTotal, Inc
  <2> HIDE DEF left
  <2> QED
    BY <1>a, <1>b, <2>1, <2>2 DEF left
<1>2. ASSUME left' = left - 1, total' = total,
             \/ UNCHANGED <<http, silent>> /\ socks5' = Inc(socks5)
             \/ UNCHANGED <<socks5, silent>> /\ http' = Inc(http)
             \/ UNCHANGED <<socks5, http>> /\ silent' = Inc(silent)
      PROVE  WholeTurns'
  <2>1. /\ socks5 + http + silent = Accounted - left
        /\ \/ socks5' + http' + silent' = socks5 + http + silent + 1
           \/ socks5' + http' + silent' = socks5 + http + silent + 1 - Width
    BY <1>2, <1>a, <1>b DEF Inc
  <2>2. Accounted' = Accounted \/ Accounted' = Accounted - Width
    BY <1>2, <1>a, <1>b, <2>1
  <2>3. Accounted' >= 0
    BY <1>2, <1>a, <1>b DEF Inc
  <2> QED
    BY <1>2, <1>a, <1>b, <2>2, <2>3
<1>3. ASSUME NEW c \in Clients, ReadFirst(c)
      PROVE  WholeTurns'
  <2>1. left' = left - 1
    BY <1>3, Leave DEF ReadFirst, Move, Pending, Request, TypeOK
  <2> HIDE DEF left
  <2> QED
    BY <1>2, <1>3, <2>1 DEF ReadFirst, Request
<1>4. ASSUME NEW c \in Clients,
             FirstReadEnds(c) \/ AbortUnpolled(c)
      PROVE  WholeTurns'
  <2>1. left' = left - 1
    BY <1>4, Leave DEF FirstReadEnds, AbortUnpolled, Move, Pending, TypeOK
  <2> HIDE DEF left
  <2> QED
    BY <1>2, <1>4, <2>1 DEF FirstReadEnds, AbortUnpolled
<1>5. ASSUME NEW c \in Clients, NEW to, stage[c] \in Pending <=> to \in Pending,
             stage' = [stage EXCEPT ![c] = to], UNCHANGED <<total, socks5, http, silent>>
      PROVE  WholeTurns'
  <2>1. In(Pending)' = In(Pending)
    BY <1>5, Stay DEF TypeOK
  <2> QED
    BY <1>5, <2>1
<1>6. ASSUME NEW c \in Clients, FirstPoll(c)
      PROVE  WholeTurns'
  <2>1. CASE Move(c, "spawned", "first") /\ UNCHANGED silent
    BY <1>5, <1>6, <2>1 DEF FirstPoll, Move, Pending
  <2>2. CASE Move(c, "spawned", "guard") /\ silent' = Inc(silent)
    <3>1. left' = left - 1
      BY <2>2, Leave DEF Move, Pending, TypeOK
    <3> HIDE DEF left
    <3> QED
      BY <1>2, <1>6, <2>2, <3>1 DEF FirstPoll
  <2> QED
    BY <1>6, <2>1, <2>2 DEF FirstPoll
<1>7. ASSUME NEW c \in Clients, AbortPolled(c)
      PROVE  WholeTurns'
  <2>1. CASE stage[c] = "first"
    <3>1. left' = left - 1
      BY <1>7, <2>1, Leave DEF AbortPolled, Move, Pending, TypeOK
    <3> HIDE DEF left
    <3> QED
      BY <1>2, <1>7, <2>1, <3>1 DEF AbortPolled
  <2>2. CASE stage[c] # "first"
    BY <1>5, <1>7, <2>2 DEF AbortPolled, Move, Pending, Request
  <2> QED
    BY <2>1, <2>2
<1>8. ASSUME NEW c \in Clients,
             \/ Connect(c) \/ Accept(c) \/ TryAcquire(c) \/ Refuse(c) \/ DropRefused(c)
             \/ Spawn(c) \/ SessionEnds(c) \/ DropGuard(c) \/ DropPermit(c)
      PROVE  WholeTurns'
  <2>1. PICK to : (stage[c] \in Pending <=> to \in Pending) /\ stage' = [stage EXCEPT ![c] = to]
    BY <1>8 DEF Connect, Accept, TryAcquire, Refuse, DropRefused, Spawn, SessionEnds,
                DropGuard, DropPermit, Move, Pending, Request
  <2>2. UNCHANGED <<total, socks5, http, silent>>
    BY <1>8 DEF Connect, Accept, TryAcquire, Refuse, DropRefused, Spawn, SessionEnds,
                DropGuard, DropPermit, stats
  <2> QED
    BY <1>5, <2>1, <2>2
<1>9. CASE AcceptFails \/ StopSeen
  <2>1. In(Pending)' = In(Pending)
    BY <1>9 DEF AcceptFails, StopSeen, Return, In, Pending
  <2> QED
    BY <1>9, <2>1 DEF AcceptFails, StopSeen, Return, stats
<1>10. CASE \/ RequestStop \/ Bind \/ Terminated \/ UNCHANGED vars
            \/ \E c \in Clients : ClientSends(c) \/ ClientCloses(c)
  BY <1>10 DEF RequestStop, Bind, Terminated, ClientSends, ClientCloses, vars, conns, stats, In
<1> QED
  BY <1>1, <1>3, <1>4, <1>6, <1>7, <1>8, <1>9, <1>10 DEF Next, Loop, Task, Abort

\* A number that is below the width is what is left of it after any number of turns.
LEMMA TurnsVanish ==
  ASSUME NEW n \in Nat, NEW w \in Nat, n < w
  PROVE  /\ n % w = n /\ (n + w) % w = n
         /\ (n + w + w) % w = n /\ (n + w + w + w) % w = n
  OBVIOUS

LEMMA InvStep == IInv /\ [Next]_vars => IInv'
  BY TypeStep, LoopStep, PermitStep, ActiveStep, TurnStep DEF IInv

LEMMA Invariance == Spec => []IInv
  BY InvInit, InvStep, PTL DEF Spec

-----------------------------------------------------------------------------
(* The refinement: an admission or a refusal of the server is one of the   *)
(* abstract limit's, and every other step changes no verdict or ends one.  *)

LEMMA ServedAreHolders == TypeOK => Limit!Served = Holders
  BY DEF TypeOK, Limit!Served, Holders, In, Verdict, HolderStages

LEMMA LimitCardinality == \A S : Limit!Cardinality(S) = Cardinality(S)
  BY Zenon DEF Limit!Cardinality, Cardinality

LEMMA RefineInit == Init => Limit!Init
  BY DEF Init, Limit!Init, Verdict, HolderStages

\* A move of one connection that does not change its verdict is a stutter.
LEMMA SameVerdict ==
  ASSUME TypeOK, NEW c \in Clients, NEW to,
         stage' = [stage EXCEPT ![c] = to],
         Verdict(to) = Verdict(stage[c])
  PROVE  [d \in Clients |-> Verdict(stage[d])]' = [d \in Clients |-> Verdict(stage[d])]
  BY DEF TypeOK

\* A move that ends a verdict is a Finish step.
LEMMA EndsVerdict ==
  ASSUME TypeOK, NEW c \in Clients, NEW to,
         stage' = [stage EXCEPT ![c] = to],
         Verdict(stage[c]) # "none",
         Verdict(to) = "none"
  PROVE  Limit!Finish(c)
<1> DEFINE v == [d \in Clients |-> Verdict(stage[d])]
<1>1. v' = [v EXCEPT ![c] = "none"]
  BY DEF TypeOK
<1> QED
  BY <1>1 DEF Limit!Finish

LEMMA RefineAcquire ==
  ASSUME TypeOK, PermitsConserved, NEW c \in Clients, TryAcquire(c)
  PROVE  Limit!Admit(c) \/ Limit!Refuse(c)
<1> DEFINE v == [d \in Clients |-> Verdict(stage[d])]
<1>a. /\ Limit!Cardinality(Limit!Served) = MaxConnections - permits
      /\ permits \in Nat /\ MaxConnections \in Nat
  BY ServedAreHolders, LimitCardinality, InFinite, ServerAssumption
     DEF PermitsConserved, TypeOK, Holders, ServerAssumption
<1>b. stage[c] = "accepted" /\ v[c] = "none"
  BY DEF TryAcquire, Move, Verdict, HolderStages
<1>1. CASE permits > 0
  <2>1. v' = [v EXCEPT ![c] = "served"]
    BY <1>1 DEF TryAcquire, Move, TypeOK, Verdict, HolderStages
  <2> QED
    BY <1>1, <1>a, <1>b, <2>1 DEF Limit!Admit
<1>2. CASE ~(permits > 0)
  <2>1. v' = [v EXCEPT ![c] = "refused"]
    BY <1>2 DEF TryAcquire, Move, TypeOK, Verdict, HolderStages
  <2> QED
    BY <1>2, <1>a, <1>b, <2>1 DEF Limit!Refuse
<1> QED
  BY <1>1, <1>2

LEMMA RefineStep ==
  ASSUME TypeOK, PermitsConserved, [Next]_vars
  PROVE  [Limit!Next]_[c \in Clients |-> Verdict(stage[c])]
<1> DEFINE v == [d \in Clients |-> Verdict(stage[d])]
<1>1. ASSUME NEW c \in Clients, TryAcquire(c)
      PROVE  Limit!Next
  BY <1>1, RefineAcquire DEF Limit!Next
<1>2. ASSUME NEW c \in Clients, DropRefused(c) \/ DropPermit(c) \/ AbortUnpolled(c)
      PROVE  Limit!Next
  <2>1. Verdict(stage[c]) # "none" /\ Verdict("idle") = "none"
    BY <1>2 DEF DropRefused, DropPermit, AbortUnpolled, Move, Verdict, HolderStages
  <2>2. stage' = [stage EXCEPT ![c] = "idle"]
    BY <1>2 DEF DropRefused, DropPermit, AbortUnpolled, Move
  <2> QED
    BY <2>1, <2>2, EndsVerdict DEF Limit!Next
<1>3. ASSUME NEW c \in Clients, Connect(c) \/ Accept(c) \/ Refuse(c)
      PROVE  v' = v
  BY <1>3, SameVerdict DEF Connect, Accept, Refuse, Move, Verdict, HolderStages
<1>4. ASSUME NEW c \in Clients,
             \/ CountTotal(c) \/ Spawn(c) \/ FirstPoll(c) \/ ReadFirst(c)
             \/ FirstReadEnds(c) \/ SessionEnds(c) \/ DropGuard(c) \/ AbortPolled(c)
      PROVE  v' = v
  <2>1. PICK to \in HolderStages :
          stage[c] \in HolderStages /\ stage' = [stage EXCEPT ![c] = to]
    BY <1>4 DEF CountTotal, Spawn, FirstPoll, ReadFirst, FirstReadEnds, SessionEnds, DropGuard,
                AbortPolled, Move, HolderStages, Request
  <2> QED
    BY <2>1, SameVerdict DEF Verdict
<1>5. CASE AcceptFails \/ StopSeen
  BY <1>5 DEF AcceptFails, StopSeen, Return, Verdict, HolderStages
<1>6. CASE \/ RequestStop \/ Bind \/ Terminated \/ UNCHANGED vars
           \/ \E c \in Clients : ClientSends(c) \/ ClientCloses(c)
  <2>1. stage' = stage
    BY <1>6 DEF RequestStop, Bind, Terminated, ClientSends, ClientCloses, vars, conns
  <2> QED
    BY <2>1
<1> QED
  BY <1>1, <1>2, <1>3, <1>4, <1>5, <1>6 DEF Next, Loop, Task, Abort

-----------------------------------------------------------------------------
(* Theorems.                                                               *)

\* Every variable keeps its type: in particular the semaphore never has more
\* permits than it was built with.
THEOREM TypeCorrect == Spec => []TypeOK
<1>1. IInv => TypeOK
  BY DEF IInv
<1> QED
  BY <1>1, Invariance, PTL

\* No permit is lost or returned twice, whichever way a task ends.
THEOREM PermitsAreConserved == Spec => []PermitsConserved
<1>1. IInv => PermitsConserved
  BY DEF IInv
<1> QED
  BY <1>1, Invariance, PTL

\* active_connections counts the tasks and never wraps below zero.
THEOREM ActiveIsExact == Spec => []ActiveTracksTasks
<1>1. IInv => ActiveTracksTasks
  BY DEF IInv
<1> QED
  BY <1>1, Invariance, PTL

\* Every connection in total_connections is classified once, ended unclassified or
\* still waits, modulo the width of the counters.
THEOREM DispatchIsExact == Spec => []DispatchCounted
<1>1. IInv => DispatchCounted
  <2> SUFFICES ASSUME IInv PROVE DispatchCounted
    OBVIOUS
  <2>1. total \in Nat /\ Width \in Nat /\ total < Width /\ Width = CounterMax + 1
    BY ServerAssumption DEF IInv, TypeOK, Counter, ServerAssumption, Width
  <2>2. Accounted % Width = total
    BY <2>1, TurnsVanish DEF IInv, WholeTurns
  <2> QED
    BY <2>1, <2>2 DEF DispatchCounted, Accounted, Pending
<1> QED
  BY <1>1, Invariance, PTL

\* The accept loop implements ConnectionLimit: it admits only below the limit
\* and refuses only while the limit is reached.
THEOREM LimitIsImplemented == Spec => ImplementsLimit
<1>1. IInv => TypeOK /\ PermitsConserved
  BY DEF IInv
<1>2. Spec => Limit!Spec
  BY <1>1, Invariance, RefineInit, RefineStep, PTL DEF Spec, Limit!Spec
<1> QED
  BY <1>2 DEF ImplementsLimit

=============================================================================
