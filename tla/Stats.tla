------------------------------- MODULE Stats -------------------------------
(***************************************************************************)
(* The failure counters, the ring of recent errors and the stats page      *)
(* (stats.rs), shared by all tasks without a common lock: a failing task   *)
(* first adds to a counter, then takes the time, then locks the ring and   *)
(* pushes its error; a page loads the counters one by one, then locks the  *)
(* ring and renders it.  Any of these steps of different tasks interleave. *)
(* (The connection counters are in Server, the byte counters in the        *)
(* modules of the relays.)                                                 *)
(***************************************************************************)
EXTENDS Naturals, Sequences, FiniteSets

CONSTANTS
  Tasks,       \* tasks that may fail
  Counters,    \* the failure counters, in the order snapshot() loads them
  RingMax,     \* MAX_RECENT_ERRORS
  MaxClock,    \* bound: the last second of the wall clock
  MaxErrors    \* bound: how many errors are recorded

ASSUME StatsAssumption ==
  /\ IsFiniteSet(Tasks)
  /\ Counters \in Seq(STRING) /\ Len(Counters) > 0
  /\ \A i, j \in DOMAIN Counters : Counters[i] = Counters[j] => i = j
  /\ RingMax \in Nat \ {0}
  /\ MaxClock \in Nat /\ MaxErrors \in Nat

Kinds == {Counters[i] : i \in DOMAIN Counters}
Other == "other"   \* an error without a counter: a failed name lookup of the UDP relay

VARIABLES
  clock,    \* the wall clock, in seconds
  count,    \* the counters
  stage,    \* per task: idle, counted (about to record), stamped
  error,    \* per task: the error it is recording
  ring,     \* recent_errors
  log,      \* history: every error ever pushed, oldest first
  pushed,   \* history: how many of them, per kind
  page,     \* the page being rendered: counters loaded, what it shows
  before    \* history: pushed, as it was when the page was begun

vars == <<clock, count, stage, error, ring, log, pushed, page, before>>

NoError == [kind |-> Other, time |-> 0]
NoPage  == [loaded |-> 0, count |-> [k \in Kinds |-> 0], rows |-> <<>>]

Recording    == {t \in Tasks : stage[t] # "idle"}
InFlight(k)  == {t \in Recording : error[t].kind = k}
Loaded       == {Counters[i] : i \in {j \in DOMAIN Counters : j <= page.loaded}}

Init ==
  /\ clock = 0
  /\ count = [k \in Kinds |-> 0]
  /\ stage = [t \in Tasks |-> "idle"]
  /\ error = [t \in Tasks |-> NoError]
  /\ ring = <<>> /\ log = <<>>
  /\ pushed = [k \in Kinds |-> 0]
  /\ page = NoPage
  /\ before = [k \in Kinds |-> 0]

Tick ==
  /\ clock < MaxClock
  /\ clock' = clock + 1
  /\ UNCHANGED <<count, stage, error, ring, log, pushed, page, before>>

-----------------------------------------------------------------------------
(* A failure: inc_*_failures(), then record_error().                       *)

\* Faulty: the error is recorded before it is counted.
FailUncounted(t, k) ==
  /\ stage[t] = "idle"
  /\ Len(log) + Cardinality(Recording) < MaxErrors
  /\ stage' = [stage EXCEPT ![t] = "counted"]
  /\ error' = [error EXCEPT ![t] = [kind |-> k, time |-> 0]]
  /\ UNCHANGED <<clock, count, ring, log, pushed, page, before>>

\* MaxErrors bounds the errors that are ever recorded.
Fail(t, k) ==
  /\ stage[t] = "idle"
  /\ Len(log) + Cardinality(Recording) < MaxErrors
  /\ stage' = [stage EXCEPT ![t] = "counted"]
  /\ error' = [error EXCEPT ![t] = [kind |-> k, time |-> 0]]
  /\ count' = IF k \in Kinds THEN [count EXCEPT ![k] = @ + 1] ELSE count
  /\ UNCHANGED <<clock, ring, log, pushed, page, before>>

\* Faulty: rounded up to the next second.
StampRoundsUp(t) ==
  /\ stage[t] = "counted"
  /\ stage' = [stage EXCEPT ![t] = "stamped"]
  /\ error' = [error EXCEPT ![t].time = clock + 1]
  /\ UNCHANGED <<clock, count, ring, log, pushed, page, before>>

\* The time is taken before the lock.
Stamp(t) ==
  /\ stage[t] = "counted"
  /\ stage' = [stage EXCEPT ![t] = "stamped"]
  /\ error' = [error EXCEPT ![t].time = clock]
  /\ UNCHANGED <<clock, count, ring, log, pushed, page, before>>

\* Faulty: the ring grows to one more than its bound.
BoundedOffByOne(s) == IF Len(s) > RingMax THEN Tail(s) ELSE s

\* A full ring drops its oldest error first.
Bounded(s) == IF Len(s) = RingMax THEN Tail(s) ELSE s

Push(t) ==
  /\ stage[t] = "stamped"
  /\ stage' = [stage EXCEPT ![t] = "idle"]
  /\ error' = [error EXCEPT ![t] = NoError]
  /\ ring' = Append(Bounded(ring), error[t])
  /\ log' = Append(log, error[t])
  /\ pushed' = IF error[t].kind \in Kinds THEN [pushed EXCEPT ![error[t].kind] = @ + 1] ELSE pushed
  /\ UNCHANGED <<clock, count, page, before>>

-----------------------------------------------------------------------------
(* A page: snapshot(), one load at a time, then render_recent_errors().    *)
(* Loads and adds are taken to be seen in one order; the code's are        *)
(* Relaxed, and ordered only by what else orders the tasks.                *)

\* Faulty: the counters of the page before are shown again.
BeginPageCached ==
  /\ page.loaded \notin 1..Len(Counters)
  /\ page' = IF page.loaded = 0 THEN [NoPage EXCEPT !.loaded = 1, !.count[Counters[1]] = count[Counters[1]]]
             ELSE [page EXCEPT !.loaded = Len(Counters), !.rows = <<>>]
  /\ before' = pushed
  /\ UNCHANGED <<clock, count, stage, error, ring, log, pushed>>

BeginPage ==
  /\ page.loaded \notin 1..Len(Counters)
  /\ page' = [NoPage EXCEPT !.loaded = 1, !.count[Counters[1]] = count[Counters[1]]]
  /\ before' = pushed
  /\ UNCHANGED <<clock, count, stage, error, ring, log, pushed>>

LoadCounter ==
  /\ page.loaded \in 1..(Len(Counters) - 1)
  /\ LET k == Counters[page.loaded + 1]
     IN  page' = [page EXCEPT !.loaded = @ + 1, !.count[k] = count[k]]
  /\ UNCHANGED <<clock, count, stage, error, ring, log, pushed, before>>

RenderErrors ==
  /\ page.loaded = Len(Counters)
  /\ page' = [page EXCEPT !.loaded = @ + 1,
                             !.rows = [i \in DOMAIN ring |-> ring[Len(ring) + 1 - i]]]
  /\ UNCHANGED <<clock, count, stage, error, ring, log, pushed, before>>

-----------------------------------------------------------------------------
Next ==
  \/ Tick
  \/ \E t \in Tasks : Stamp(t) \/ Push(t) \/ \E k \in Kinds \cup {Other} : Fail(t, k)
  \/ BeginPage \/ LoadCounter \/ RenderErrors

Spec == Init /\ [][Next]_vars

-----------------------------------------------------------------------------
(* Properties                                                              *)

Errors == [kind : Kinds \cup {Other}, time : 0..MaxClock]

TypeOK ==
  /\ clock \in 0..MaxClock
  /\ count \in [Kinds -> Nat] /\ pushed \in [Kinds -> Nat] /\ before \in [Kinds -> Nat]
  /\ stage \in [Tasks -> {"idle", "counted", "stamped"}]
  /\ error \in [Tasks -> Errors]
  /\ ring \in Seq(Errors) /\ log \in Seq(Errors)
  /\ page \in [loaded : 0..(Len(Counters) + 1), count : [Kinds -> Nat], rows : Seq(Errors)]

\* The ring is the RingMax newest of all errors pushed, in the order of the
\* pushes: however tasks race to the lock, none is lost while there is room,
\* none is shown twice, and the one dropped is the oldest.
RingIsLastErrors ==
  /\ Len(ring) = IF Len(log) < RingMax THEN Len(log) ELSE RingMax
  /\ \A i \in DOMAIN ring : ring[i] = log[Len(log) - Len(ring) + i]

\* A failure counter is the number of such errors pushed so far and of tasks
\* still on their way to the ring.
FailuresAreRecorded == \A k \in Kinds : count[k] = pushed[k] + Cardinality(InFlight(k))

\* The page's counters are not one consistent snapshot, but each of them
\* counts every error that was in the ring when the page was begun (the
\* counter is added to before the error is pushed) and none that is to come.
PageCountsItsErrors ==
  \A k \in Loaded : before[k] <= page.count[k] /\ page.count[k] <= count[k]

=============================================================================
