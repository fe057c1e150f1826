---------------------------- MODULE StatsProofs ----------------------------
(***************************************************************************)
(* For any number of tasks, any counters and a ring of any size: the ring  *)
(* and the counters are exact at every step of every task, and a page      *)
(* counts at least the errors that were pushed before it was begun.        *)
(***************************************************************************)
EXTENDS Stats, FiniteSetTheorems, SequenceTheorems, TLAPS

\* What a page relies on: nothing was pushed after it was begun that had not been.
PushedOnlyGrows == \A k \in Kinds : before[k] <= pushed[k]

IInv ==
  TypeOK /\ RingIsLastErrors /\ FailuresAreRecorded /\ PushedOnlyGrows /\ PageCountsItsErrors

-----------------------------------------------------------------------------
(* The parameters.                                                         *)

LEMMA Parameters ==
  /\ IsFiniteSet(Tasks)
  /\ RingMax \in Nat /\ RingMax > 0 /\ MaxClock \in Nat
  /\ Len(Counters) \in Nat /\ Len(Counters) > 0
  /\ \A i \in 1..Len(Counters) : Counters[i] \in Kinds
<1>1. Counters \in Seq(STRING)
  BY StatsAssumption DEF StatsAssumption
<1>2. Len(Counters) \in Nat /\ DOMAIN Counters = 1..Len(Counters)
  BY <1>1, LenProperties
<1> QED
  BY <1>2, StatsAssumption DEF StatsAssumption, Kinds

LEMMA NoErrorIsError == NoError \in Errors
  BY Parameters DEF NoError, Errors

-----------------------------------------------------------------------------
(* The type invariant.                                                     *)

\* The rows of a page are the ring backwards.
LEMMA RowsType ==
  ASSUME NEW s \in Seq(Errors)
  PROVE  [i \in DOMAIN s |-> s[Len(s) + 1 - i]] \in Seq(Errors)
<1>1. Len(s) \in Nat /\ DOMAIN s = 1..Len(s)
  BY LenProperties
<1>2. \A i \in 1..Len(s) : s[Len(s) + 1 - i] \in Errors
  BY <1>1, ElementOfSeq
<1> QED
  BY <1>1, <1>2, IsASeq

LEMMA BoundedType ==
  ASSUME NEW s \in Seq(Errors)
  PROVE  Bounded(s) \in Seq(Errors)
<1>1. CASE Len(s) = RingMax
  <2>1. s # <<>>
    BY <1>1, Parameters, EmptySeq
  <2> QED
    BY <1>1, <2>1, HeadTailProperties DEF Bounded
<1>2. CASE Len(s) # RingMax
  BY <1>2 DEF Bounded
<1> QED
  BY <1>1, <1>2

IsPage(p) ==
  p \in [loaded : 0..(Len(Counters) + 1), count : [Kinds -> Nat], rows : Seq(Errors)]

LEMMA PageType ==
  ASSUME NEW l \in Nat, l <= Len(Counters) + 1,
         NEW counts \in [Kinds -> Nat], NEW rows \in Seq(Errors)
  PROVE  IsPage([loaded |-> l, count |-> counts, rows |-> rows])
<1>1. l \in 0..(Len(Counters) + 1)
  BY Parameters
<1> QED
  BY ONLY <1>1, counts \in [Kinds -> Nat], rows \in Seq(Errors) DEF IsPage

LEMMA TypeStep ==
  ASSUME TypeOK, [Next]_vars
  PROVE  TypeOK'
<1> USE DEF TypeOK
<1>1. CASE Tick
  <2>1. clock' \in 0..MaxClock
    BY <1>1, Parameters DEF Tick
  <2>2. UNCHANGED <<count, stage, error, ring, log, pushed, page, before>>
    BY <1>1 DEF Tick
  <2> QED
    BY ONLY TypeOK, <2>1, <2>2
<1>2. ASSUME NEW t \in Tasks, NEW k \in Kinds \cup {Other}, Fail(t, k)
      PROVE  TypeOK'
  <2>1. [kind |-> k, time |-> 0] \in Errors
    BY Parameters DEF Errors
  <2>2. error' \in [Tasks -> Errors] /\ stage' \in [Tasks -> {"idle", "counted", "stamped"}]
    BY <1>2, <2>1 DEF Fail
  <2>3. count' \in [Kinds -> Nat]
    BY <1>2 DEF Fail
  <2> QED
    BY <1>2, <2>2, <2>3 DEF Fail
<1>3. ASSUME NEW t \in Tasks, Stamp(t)
      PROVE  TypeOK'
  <2>1. error' \in [Tasks -> Errors]
    BY <1>3 DEF Stamp, Errors
  <2>2. stage' \in [Tasks -> {"idle", "counted", "stamped"}]
    BY <1>3 DEF Stamp
  <2> QED
    BY <1>3, <2>1, <2>2 DEF Stamp
<1>4. ASSUME NEW t \in Tasks, Push(t)
      PROVE  TypeOK'
  <2>1. error[t] \in Errors /\ Bounded(ring) \in Seq(Errors)
    BY BoundedType
  <2>2. ring' \in Seq(Errors) /\ log' \in Seq(Errors)
    <3>1. ring' = Append(Bounded(ring), error[t]) /\ log' = Append(log, error[t])
      BY <1>4 DEF Push
    <3>2. log \in Seq(Errors)
      OBVIOUS
    <3>3. /\ Append(Bounded(ring), error[t]) \in Seq(Errors)
          /\ Append(log, error[t]) \in Seq(Errors)
      <4>1. \A s \in Seq(Errors) : Append(s, error[t]) \in Seq(Errors)
        BY ONLY error[t] \in Errors, AppendProperties
      <4> QED
        BY ONLY <2>1, <3>2, <4>1
    <3> QED
      BY ONLY <3>1, <3>3
  <2>3. error' \in [Tasks -> Errors] /\ stage' \in [Tasks -> {"idle", "counted", "stamped"}]
    BY <1>4, NoErrorIsError DEF Push
  <2>4. pushed' \in [Kinds -> Nat]
    <3>1. /\ pushed' = IF error[t].kind \in Kinds
                       THEN [pushed EXCEPT ![error[t].kind] = @ + 1] ELSE pushed
          /\ pushed \in [Kinds -> Nat]
      BY <1>4 DEF Push
    <3> QED
      BY ONLY <3>1
  <2>5. UNCHANGED <<clock, count, page, before>>
    BY <1>4 DEF Push
  <2> QED
    BY ONLY TypeOK, <2>2, <2>3, <2>4, <2>5
<1>5. CASE BeginPage
  <2> DEFINE counts == [[k \in Kinds |-> 0] EXCEPT ![Counters[1]] = count[Counters[1]]]
  <2>1. Counters[1] \in Kinds /\ 1 <= Len(Counters) + 1
    BY Parameters
  <2>2. <<>> \in Seq(Errors)
    BY EmptySeq
  <2>3. counts \in [Kinds -> Nat]
    BY <2>1
  <2>4. page' = [loaded |-> 1, count |-> counts, rows |-> <<>>]
    BY <1>5 DEF BeginPage, NoPage
  <2> HIDE DEF counts
  <2>5. IsPage(page')
    BY <2>1, <2>2, <2>3, <2>4, PageType
  <2> QED
    BY <1>5, <2>5 DEF BeginPage, IsPage
<1>6. CASE LoadCounter
  <2> DEFINE k == Counters[page.loaded + 1]
             counts == [page.count EXCEPT ![k] = count[k]]
  <2>a. /\ page.loaded \in Nat /\ page.loaded + 1 <= Len(Counters) + 1
        /\ page.loaded + 1 \in 1..Len(Counters)
    BY <1>6, Parameters DEF LoadCounter
  <2>1. k \in Kinds /\ page.loaded + 1 \in Nat /\ page.loaded + 1 <= Len(Counters) + 1
    BY <2>a, Parameters
  <2>2. counts \in [Kinds -> Nat] /\ page.rows \in Seq(Errors)
    BY <2>1
  <2>3. page' = [loaded |-> page.loaded + 1, count |-> counts, rows |-> page.rows]
    BY <1>6 DEF LoadCounter
  <2> HIDE DEF k, counts
  <2>4. IsPage(page')
    BY <2>1, <2>2, <2>3, PageType
  <2> QED
    BY <1>6, <2>4 DEF LoadCounter, IsPage
<1>7. CASE RenderErrors
  <2> DEFINE rows == [i \in DOMAIN ring |-> ring[Len(ring) + 1 - i]]
  <2>1. rows \in Seq(Errors)
    BY RowsType
  <2>2. page' = [loaded |-> page.loaded + 1, count |-> page.count, rows |-> rows]
    BY <1>7 DEF RenderErrors
  <2>3. page.loaded + 1 \in Nat /\ page.loaded + 1 <= Len(Counters) + 1
    BY <1>7, Parameters DEF RenderErrors
  <2>4. page.count \in [Kinds -> Nat]
    OBVIOUS
  <2> HIDE DEF rows
  <2>5. IsPage(page')
    BY <2>1, <2>2, <2>3, <2>4, PageType
  <2> QED
    BY <1>7, <2>5 DEF RenderErrors, IsPage
<1>8. CASE UNCHANGED vars
  BY <1>8 DEF vars
<1> QED
  BY <1>1, <1>2, <1>3, <1>4, <1>5, <1>6, <1>7, <1>8 DEF Next

-----------------------------------------------------------------------------
(* The ring.                                                               *)

\* A push to a ring that is the end of the log leaves it the end of the log.
LEMMA RingStep ==
  ASSUME TypeOK, RingIsLastErrors, [Next]_vars
  PROVE  RingIsLastErrors'
<1>1. CASE \E t \in Tasks : Push(t)
  <2>1. PICK t \in Tasks : Push(t)
    BY <1>1
  <2> DEFINE e    == error[t]
             kept == Bounded(ring)
  <2>2. /\ ring \in Seq(Errors) /\ log \in Seq(Errors) /\ e \in Errors
        /\ kept \in Seq(Errors)
    BY BoundedType DEF TypeOK
  <2>3. ring' = Append(kept, e) /\ log' = Append(log, e)
    BY <2>1 DEF Push
  <2>4. /\ Len(ring) \in Nat /\ Len(log) \in Nat /\ RingMax \in Nat /\ RingMax > 0
        /\ DOMAIN ring = 1..Len(ring)
    BY <2>2, Parameters, LenProperties
  <2>5. /\ Len(ring) = IF Len(log) < RingMax THEN Len(log) ELSE RingMax
        /\ \A i \in 1..Len(ring) : ring[i] = log[Len(log) - Len(ring) + i]
    BY <2>4 DEF RingIsLastErrors
  <2>6. /\ Len(kept) = IF Len(ring) = RingMax THEN RingMax - 1 ELSE Len(ring)
        /\ \A i \in 1..Len(kept) : kept[i] = log[Len(log) - Len(kept) + i]
    <3>1. CASE Len(ring) = RingMax
      <4>1. ring # <<>>
        BY <2>4, <3>1, EmptySeq
      <4>2. /\ kept = Tail(ring) /\ Len(kept) = Len(ring) - 1
            /\ \A i \in 1..Len(kept) : kept[i] = ring[i + 1]
        BY <2>2, <3>1, <4>1, HeadTailProperties DEF Bounded
      <4> HIDE DEF kept
      <4> QED
        <5>a. /\ Len(kept) = Len(ring) - 1 /\ Len(ring) = RingMax
              /\ RingMax \in Nat /\ RingMax > 0 /\ Len(log) \in Nat
          BY <2>4, <3>1, <4>2, Zenon
        <5>1. /\ Len(kept) = RingMax - 1 /\ Len(kept) \in Nat /\ Len(ring) = Len(kept) + 1
              /\ Len(log) - Len(kept) = Len(log) - Len(ring) + 1
          BY ONLY <5>a
        <5>2. \A i \in 1..Len(kept) : kept[i] = log[Len(log) - Len(kept) + i]
          <6> SUFFICES ASSUME NEW i \in 1..Len(kept)
                       PROVE  kept[i] = log[Len(log) - Len(kept) + i]
            OBVIOUS
          <6>1. i \in Nat /\ i >= 1 /\ i <= Len(kept)
            BY <5>1
          <6>2. i + 1 \in 1..Len(ring)
            BY ONLY <2>4, <5>1, <6>1
          <6>3. Len(log) - Len(ring) + (i + 1) = Len(log) - Len(kept) + i
            BY ONLY <2>4, <5>1, <6>1
          <6> QED
            BY <2>5, <4>2, <6>2, <6>3
        <5> QED
          BY <3>1, <5>1, <5>2
    <3>2. CASE Len(ring) # RingMax
      BY <2>5, <3>2 DEF Bounded
    <3> QED
      BY <3>1, <3>2
  <2> HIDE DEF e, kept
  <2>7. /\ ring' \in Seq(Errors) /\ Len(ring') = Len(kept) + 1
        /\ \A i \in 1..Len(kept) : ring'[i] = kept[i]
        /\ ring'[Len(kept) + 1] = e
    BY <2>2, <2>3, AppendProperties
  <2>8. /\ Len(log') = Len(log) + 1
        /\ \A i \in 1..Len(log) : log'[i] = log[i]
        /\ log'[Len(log) + 1] = e
    BY <2>2, <2>3, AppendProperties
  <2>9. Len(kept) \in Nat /\ DOMAIN ring' = 1..Len(ring')
    BY <2>2, <2>7, LenProperties
  <2>10. Len(ring') = IF Len(log') < RingMax THEN Len(log') ELSE RingMax
    BY <2>4, <2>5, <2>6, <2>7, <2>8
  <2>11. \A i \in 1..Len(ring') : ring'[i] = log'[Len(log') - Len(ring') + i]
    <3> SUFFICES ASSUME NEW i \in 1..Len(ring')
                 PROVE  ring'[i] = log'[Len(log') - Len(ring') + i]
      OBVIOUS
    <3>1. CASE i = Len(kept) + 1
      <4>1. Len(log') - Len(ring') + i = Len(log) + 1
        BY <2>4, <2>7, <2>8, <2>9, <3>1
      <4> QED
        BY <2>7, <2>8, <3>1, <4>1
    <3>2. CASE i # Len(kept) + 1
      <4>1. /\ i \in 1..Len(kept)
            /\ Len(log') - Len(ring') + i = Len(log) - Len(kept) + i
            /\ Len(log) - Len(kept) + i \in 1..Len(log)
        BY <2>4, <2>5, <2>6, <2>7, <2>8, <2>9, <3>2
      <4> QED
        BY <2>6, <2>7, <2>8, <4>1
    <3> QED
      BY <3>1, <3>2
  <2> QED
    BY <2>9, <2>10, <2>11 DEF RingIsLastErrors
<1>2. CASE UNCHANGED <<ring, log>>
  BY <1>2 DEF RingIsLastErrors
<1> QED
  BY <1>1, <1>2 DEF Next, vars, Tick, Fail, Stamp, BeginPage, LoadCounter, RenderErrors

-----------------------------------------------------------------------------
(* The counters.                                                           *)

LEMMA FlightIsFinite ==
  ASSUME NEW k
  PROVE  IsFiniteSet(InFlight(k)) /\ Cardinality(InFlight(k)) \in Nat
<1>1. InFlight(k) \subseteq Tasks
  BY DEF InFlight, Recording
<1> QED
  BY <1>1, Parameters, FS_Subset, FS_CardinalityType

\* A task that fails adds one to its counter and joins those in flight; one that
\* pushes leaves them and adds one to what is pushed.
LEMMA CountStep ==
  ASSUME TypeOK, FailuresAreRecorded, [Next]_vars
  PROVE  FailuresAreRecorded'
<1> USE DEF TypeOK
<1> SUFFICES ASSUME NEW k \in Kinds
             PROVE  count'[k] = pushed'[k] + Cardinality(InFlight(k)')
  BY DEF FailuresAreRecorded
<1>0. /\ count[k] = pushed[k] + Cardinality(InFlight(k))
      /\ count[k] \in Nat /\ pushed[k] \in Nat /\ Cardinality(InFlight(k)) \in Nat
      /\ IsFiniteSet(InFlight(k))
  BY FlightIsFinite DEF FailuresAreRecorded
<1>1. ASSUME NEW t \in Tasks, NEW f \in Kinds \cup {Other}, Fail(t, f)
      PROVE  count'[k] = pushed'[k] + Cardinality(InFlight(k)')
  <2>1. t \notin InFlight(k) /\ pushed' = pushed
    BY <1>1 DEF Fail, InFlight, Recording
  <2>2. /\ stage' = [stage EXCEPT ![t] = "counted"]
        /\ error' = [error EXCEPT ![t] = [kind |-> f, time |-> 0]]
    BY <1>1 DEF Fail
  <2>3. CASE f = k
    <3>1. \A u \in Tasks : /\ u = t => stage'[u] # "idle" /\ error'[u].kind = k
                           /\ u # t => stage'[u] = stage[u] /\ error'[u] = error[u]
      BY <2>2, <2>3
    <3>4. InFlight(k)' = InFlight(k) \cup {t}
      <4>1. \A u : u \in InFlight(k)' <=> u \in Tasks /\ stage'[u] # "idle" /\ error'[u].kind = k
        BY ONLY TRUE DEF InFlight, Recording
      <4>2. \A u : u \in InFlight(k) <=> u \in Tasks /\ stage[u] # "idle" /\ error[u].kind = k
        BY ONLY TRUE DEF InFlight, Recording
      <4>3. \A u : u \in InFlight(k)' <=> u \in InFlight(k) \/ u = t
        BY ONLY <3>1, <4>1, <4>2, t \in Tasks
      <4> QED
        BY ONLY <4>3
    <3>2. Cardinality(InFlight(k)') = Cardinality(InFlight(k)) + 1
      BY <1>0, <2>1, <3>4, FS_AddElement
    <3>3. count'[k] = count[k] + 1
      BY <1>1, <2>3 DEF Fail
    <3> QED
      BY <1>0, <2>1, <3>2, <3>3
  <2>4. CASE f # k
    <3>1. InFlight(k)' = InFlight(k)
      BY <2>1, <2>2, <2>4 DEF InFlight, Recording
    <3>2. count'[k] = count[k]
      BY <1>1, <2>4 DEF Fail
    <3> QED
      BY <1>0, <2>1, <3>1, <3>2
  <2> QED
    BY <2>3, <2>4
<1>2. ASSUME NEW t \in Tasks, Stamp(t)
      PROVE  count'[k] = pushed'[k] + Cardinality(InFlight(k)')
  <2>1. InFlight(k)' = InFlight(k)
    BY <1>2 DEF Stamp, InFlight, Recording
  <2> QED
    BY <1>0, <1>2, <2>1 DEF Stamp
<1>3. ASSUME NEW t \in Tasks, Push(t)
      PROVE  count'[k] = pushed'[k] + Cardinality(InFlight(k)')
  <2>1. /\ stage[t] = "stamped" /\ stage' = [stage EXCEPT ![t] = "idle"]
        /\ error' = [error EXCEPT ![t] = NoError] /\ count' = count
    BY <1>3 DEF Push
  <2>2. CASE error[t].kind = k
    <3>1. t \in InFlight(k) /\ InFlight(k)' = InFlight(k) \ {t}
      BY <2>1, <2>2 DEF InFlight, Recording
    <3>2. Cardinality(InFlight(k)') = Cardinality(InFlight(k)) - 1
      BY <1>0, <3>1, FS_RemoveElement
    <3>3. pushed'[k] = pushed[k] + 1
      BY <1>3, <2>2 DEF Push
    <3> QED
      BY <1>0, <2>1, <3>2, <3>3
  <2>3. CASE error[t].kind # k
    <3>1. InFlight(k)' = InFlight(k)
      BY <2>1, <2>3 DEF InFlight, Recording
    <3>2. pushed'[k] = pushed[k]
      BY <1>3, <2>3 DEF Push
    <3> QED
      BY <1>0, <2>1, <3>1, <3>2
  <2> QED
    BY <2>2, <2>3
<1>4. CASE UNCHANGED <<count, pushed, stage, error>>
  BY <1>0, <1>4 DEF InFlight, Recording
<1> QED
  BY <1>1, <1>2, <1>3, <1>4 DEF Next, vars, Tick, BeginPage, LoadCounter, RenderErrors

-----------------------------------------------------------------------------
(* The page.                                                               *)

LEMMA GrowStep ==
  ASSUME TypeOK, PushedOnlyGrows, [Next]_vars
  PROVE  PushedOnlyGrows'
<1> USE DEF TypeOK, PushedOnlyGrows
<1>1. ASSUME NEW t \in Tasks, Push(t)
      PROVE  PushedOnlyGrows'
  BY <1>1 DEF Push
<1>2. CASE BeginPage
  BY <1>2 DEF BeginPage
<1>3. CASE UNCHANGED <<pushed, before>>
  BY <1>3
<1> QED
  BY <1>1, <1>2, <1>3 DEF Next, vars, Tick, Fail, Stamp, LoadCounter, RenderErrors

LEMMA PageStep ==
  ASSUME TypeOK, FailuresAreRecorded, PushedOnlyGrows, PageCountsItsErrors, [Next]_vars
  PROVE  PageCountsItsErrors'
<1> USE DEF TypeOK
<1>0. /\ DOMAIN Counters = 1..Len(Counters) /\ Len(Counters) \in Nat /\ Len(Counters) > 0
      /\ \A i \in 1..Len(Counters) : Counters[i] \in Kinds
      /\ Loaded \subseteq Kinds
  BY StatsAssumption, LenProperties, Parameters DEF StatsAssumption, Loaded, Kinds
\* What may be loaded now: a value between what was pushed before and the counter.
<1>1. \A k \in Kinds : /\ before[k] <= count[k] /\ pushed[k] <= count[k]
                       /\ before[k] \in Nat /\ count[k] \in Nat /\ pushed[k] \in Nat
                       /\ page.count[k] \in Nat
  BY FlightIsFinite DEF FailuresAreRecorded, PushedOnlyGrows
<1>2. CASE BeginPage
  <2> DEFINE first == Counters[1]
             counts == [[k \in Kinds |-> 0] EXCEPT ![first] = count[first]]
  <2>a. page' = [loaded |-> 1, count |-> counts, rows |-> <<>>]
    BY <1>2 DEF BeginPage, NoPage
  <2>b. first \in Kinds /\ counts[first] = count[first]
    BY <1>0
  <2>c. page'.loaded = 1 /\ page'.count = counts
    <3> HIDE DEF counts
    <3> QED
      BY ONLY <2>a
  <2>1. /\ page'.loaded = 1 /\ page'.count[first] = count[first]
        /\ before' = pushed /\ count' = count
    BY <1>2, <2>b, <2>c, Zenon DEF BeginPage
  <2>2. Loaded' \subseteq {first}
    BY <1>0, <2>1 DEF Loaded
  <2> QED
    BY <1>0, <1>1, <2>1, <2>2 DEF PageCountsItsErrors
<1>3. CASE LoadCounter
  <2> DEFINE k == Counters[page.loaded + 1]
  <2>1. /\ page'.loaded = page.loaded + 1 /\ page.loaded \in Nat
        /\ page'.count = [page.count EXCEPT ![k] = count[k]]
        /\ before' = before /\ count' = count
        /\ k \in Kinds
    <3>1. page.loaded \in Nat /\ page.loaded + 1 \in 1..Len(Counters)
      BY <1>0, <1>3 DEF LoadCounter
    <3>2. k \in Kinds
      BY <1>0, <3>1
    <3> QED
      BY <1>3, <3>1, <3>2 DEF LoadCounter
  <2>2. Loaded' \subseteq Loaded \cup {k}
    BY <1>0, <2>1 DEF Loaded
  <2> HIDE DEF k
  <2> QED
    BY <1>0, <1>1, <2>1, <2>2, SMTT(30) DEF PageCountsItsErrors
<1>4. CASE RenderErrors
  <2>1. /\ page.loaded = Len(Counters) /\ page'.loaded = page.loaded + 1
        /\ page'.count = page.count /\ before' = before /\ count' = count
    BY <1>4 DEF RenderErrors
  <2>2. Loaded' = Loaded
    BY <1>0, <2>1 DEF Loaded
  <2> QED
    BY <2>1, <2>2 DEF PageCountsItsErrors
<1>5. ASSUME NEW t \in Tasks, NEW f \in Kinds \cup {Other}, Fail(t, f)
      PROVE  PageCountsItsErrors'
  <2>1. page' = page /\ before' = before /\ Loaded' = Loaded
    BY <1>5 DEF Fail, Loaded
  <2>2. \A k \in Kinds : count'[k] >= count[k] /\ count'[k] \in Nat
    BY <1>1, <1>5 DEF Fail
  <2> QED
    BY <1>0, <1>1, <2>1, <2>2, SMTT(30) DEF PageCountsItsErrors
<1>6. CASE UNCHANGED <<page, before, count>>
  BY <1>6 DEF PageCountsItsErrors, Loaded
<1> QED
  BY <1>2, <1>3, <1>4, <1>5, <1>6 DEF Next, vars, Tick, Stamp, Push

-----------------------------------------------------------------------------
(* The theorems.                                                           *)

LEMMA Invariant == Spec => []IInv
<1>1. Init => IInv
  <2> SUFFICES ASSUME Init PROVE IInv
    OBVIOUS
  <2>1. <<>> \in Seq(Errors) /\ Len(<<>>) = 0 /\ DOMAIN <<>> = {}
    BY EmptySeq
  <2>2. TypeOK
    <3> DEFINE zero == [k \in Kinds |-> 0]
    <3>1. zero \in [Kinds -> Nat] /\ 0 <= Len(Counters) + 1
      BY Parameters
    <3>2. IsPage([loaded |-> 0, count |-> zero, rows |-> <<>>])
      <4> HIDE DEF zero
      <4> QED
        BY <2>1, <3>1, PageType
    <3>3. IsPage(page)
      BY <3>2, Zenon DEF Init, NoPage
    <3>4. clock \in 0..MaxClock /\ error \in [Tasks -> Errors]
      BY Parameters, NoErrorIsError DEF Init
    <3> QED
      BY <2>1, <3>1, <3>3, <3>4 DEF Init, TypeOK, IsPage
  <2>3. RingIsLastErrors
    <3>1. ring = <<>> /\ log = <<>> /\ RingMax > 0
      BY Parameters DEF Init
    <3>2. Len(ring) = 0 /\ Len(log) = 0 /\ DOMAIN ring = {}
      BY ONLY <2>1, <3>1
    <3> QED
      BY <3>1, <3>2, Parameters DEF RingIsLastErrors
  <2>4. \A k \in Kinds : InFlight(k) = {}
    BY DEF Init, InFlight, Recording
  <2>5. FailuresAreRecorded
    <3> SUFFICES ASSUME NEW k \in Kinds
                 PROVE  count[k] = pushed[k] + Cardinality(InFlight(k))
      BY DEF FailuresAreRecorded
    <3>1. count[k] = 0 /\ pushed[k] = 0
      BY DEF Init
    <3>2. Cardinality(InFlight(k)) = 0
      BY <2>4, FS_EmptySet, Zenon
    <3> QED
      BY <3>1, <3>2
  <2>6. PushedOnlyGrows
    BY DEF Init, PushedOnlyGrows
  <2>7. Loaded = {}
    <3>1. page.loaded = 0 /\ \A j \in DOMAIN Counters : ~(j <= 0)
      BY StatsAssumption, LenProperties DEF Init, NoPage, StatsAssumption
    <3> QED
      BY <3>1 DEF Loaded
  <2>8. PageCountsItsErrors
    BY <2>7 DEF PageCountsItsErrors
  <2> QED
    BY <2>2, <2>3, <2>5, <2>6, <2>8 DEF IInv
<1>2. IInv /\ [Next]_vars => IInv'
  BY TypeStep, RingStep, CountStep, GrowStep, PageStep DEF IInv
<1> QED
  BY <1>1, <1>2, PTL DEF Spec

\* Every state of counters, ring and page is of its type, whichever steps of
\* record_error and of a page interleave.
THEOREM TypeCorrect == Spec => []TypeOK
<1>1. IInv => TypeOK
  BY DEF IInv
<1> QED
  BY <1>1, Invariant, PTL

\* record_error keeps in the ring the newest errors, in the order of the pushes.
THEOREM RingIsExact == Spec => []RingIsLastErrors
<1>1. IInv => RingIsLastErrors
  BY DEF IInv
<1> QED
  BY <1>1, Invariant, PTL

\* No failure that was counted is lost on its way to the ring, and none is
\* recorded that was not counted.
THEOREM FailuresAreExact == Spec => []FailuresAreRecorded
<1>1. IInv => FailuresAreRecorded
  BY DEF IInv
<1> QED
  BY <1>1, Invariant, PTL

\* snapshot() loads every counter at least as high as the errors that were pushed
\* before it began.
THEOREM PageIsSound == Spec => []PageCountsItsErrors
<1>1. IInv => PageCountsItsErrors
  BY DEF IInv
<1> QED
  BY <1>1, Invariant, PTL

=============================================================================
