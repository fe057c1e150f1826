--------------------------- MODULE UdpRelayProofs ---------------------------
(***************************************************************************)
(* The safety of a UDP association, for any set of endpoints, any table    *)
(* size and any datagram sizes.  IInv is the conjunction of the checked    *)
(* invariants; only RelaysForClientOnly needs the type of client, and the  *)
(* lock (an action property) needs RelaysForClientOnly for nothing but the *)
(* order of a datagram's steps.                                            *)
(***************************************************************************)
EXTENDS UdpRelay, TLAPS, FiniteSetTheorems

IInv == TypeOK /\ RelaysForClientOnly /\ TableIsBounded /\ BytesAreMoved

\* Wrap-around keeps a counter in its range.
LEMMA AddType == \A n, k \in Nat : Add(n, k) \in Counter
  BY RelayAssumption DEF RelayAssumption, Add, Counter

LEMMA TargetsFinite ==
  ASSUME TypeOK
  PROVE  IsFiniteSet(targets) /\ Cardinality(targets) \in Nat
  BY RelayAssumption, FS_Subset, FS_CardinalityType DEF RelayAssumption, TypeOK

LEMMA TypeInit == Init => TypeOK
<1> SUFFICES ASSUME Init PROVE TypeOK
  OBVIOUS
<1>1. 0 \in Counter /\ 0 \in Lens
  BY RelayAssumption DEF RelayAssumption, Counter, Lens
<1>2. hand \in [from : Endpoints \cup {None}, to : Endpoints \cup {None}, len : Lens]
  BY <1>1 DEF Init, NoDatagram
<1> QED
  BY <1>1, <1>2 DEF Init, TypeOK

LEMMA TypeStep ==
  ASSUME TypeOK, [Next]_vars
  PROVE  TypeOK'
<1> USE DEF TypeOK, counters, history, Goto
<1>a. /\ NoDatagram \in [from : Endpoints \cup {None}, to : Endpoints \cup {None}, len : Lens]
      /\ hand.len \in Nat /\ 1 \in Nat /\ Lens \subseteq Nat
      /\ \A n \in Counter : n \in Nat
      /\ PeerHost \subseteq Endpoints
  BY RelayAssumption DEF RelayAssumption, NoDatagram, Lens, Counter
<1>1. CASE ControlEvent \/ RuntimeDown \/ Abort
  BY <1>1 DEF ControlEvent, RuntimeDown, Abort
<1>2. CASE BindRelay \/ SendReply \/ ReadControl
  BY <1>2 DEF BindRelay, SendReply, ReadControl
<1>3. CASE ReceiveFails
  BY <1>3, <1>a, AddType DEF ReceiveFails
<1>4. ASSUME NEW source \in Endpoints, NEW len \in Lens, FromClient(source, len)
      PROVE  TypeOK'
  <2>1. source \in PeerHost
    BY <1>4 DEF FromClient, MayBeClient
  <2>2. len - Header \in Lens
    BY <1>4, RelayAssumption DEF FromClient, Lens, RelayAssumption
  <2> QED
    BY <1>4, <1>a, <2>1, <2>2 DEF FromClient
<1>5. ASSUME NEW source \in Endpoints, NEW len \in Lens, FromTarget(source, len)
      PROVE  TypeOK'
  BY <1>5, <1>a, AddType DEF FromTarget
<1>6. CASE Respond
  <2>1. Add(delivered, hand.len) \in Counter /\ Add(failures, 1) \in Counter
    BY <1>a, AddType
  <2> QED
    BY <1>6, <1>a, <2>1 DEF Respond
<1>7. CASE Send
  <2>1. /\ Add(bytesOut, hand.len) \in Counter /\ Add(sent, hand.len) \in Counter
        /\ Add(failures, 1) \in Counter
    BY <1>a, AddType
  <2> QED
    BY <1>7, <1>a, <2>1 DEF Send
<1>8. CASE ResolveFails
  BY <1>8, <1>a DEF ResolveFails
<1>9. ASSUME NEW t \in Endpoints, Resolve(t) \/ TableFull(t)
      PROVE  TypeOK'
  BY <1>9, <1>a DEF Resolve, TableFull
<1>10. CASE Terminated \/ (\E source \in Endpoints : Ignore(source)) \/ UNCHANGED vars
  BY <1>10 DEF Terminated, Ignore, vars
<1> QED
  BY <1>1, <1>2, <1>3, <1>4, <1>5, <1>6, <1>7, <1>8, <1>9, <1>10 DEF Next

LEMMA ClientStep ==
  ASSUME TypeOK, RelaysForClientOnly, [Next]_vars
  PROVE  RelaysForClientOnly'
<1> USE DEF TypeOK, RelaysForClientOnly, counters, history, Goto
<1>1. CASE ControlEvent \/ RuntimeDown \/ Abort \/ BindRelay \/ SendReply
  BY <1>1 DEF ControlEvent, RuntimeDown, Abort, BindRelay, SendReply
<1>2. CASE ReadControl \/ ReceiveFails \/ Respond \/ Send \/ ResolveFails
  BY <1>2 DEF ReadControl, ReceiveFails, Respond, Send, ResolveFails
<1>3. ASSUME NEW source \in Endpoints, NEW len \in Lens, FromClient(source, len)
      PROVE  RelaysForClientOnly'
  BY <1>3, RelayAssumption DEF FromClient, MayBeClient, RelayAssumption
<1>4. ASSUME NEW source \in Endpoints, NEW len \in Lens, FromTarget(source, len)
      PROVE  RelaysForClientOnly'
  BY <1>4 DEF FromTarget
<1>5. ASSUME NEW t \in Endpoints, Resolve(t) \/ TableFull(t)
      PROVE  RelaysForClientOnly'
  BY <1>5 DEF Resolve, TableFull
<1>6. CASE Terminated \/ (\E source \in Endpoints : Ignore(source)) \/ UNCHANGED vars
  BY <1>6 DEF Terminated, Ignore, vars
<1> QED
  BY <1>1, <1>2, <1>3, <1>4, <1>5, <1>6 DEF Next

LEMMA TableStep ==
  ASSUME TypeOK, TableIsBounded, [Next]_vars
  PROVE  TableIsBounded'
<1> USE DEF TableIsBounded
<1>a. Cardinality(targets) \in Nat /\ IsFiniteSet(targets) /\ MaxTargets \in Nat
  BY TargetsFinite, RelayAssumption DEF RelayAssumption
<1>1. ASSUME NEW t \in Endpoints, Resolve(t)
      PROVE  TableIsBounded'
  <2>1. CASE t \in targets
    <3>1. targets' = targets /\ refused' = refused
      BY <1>1, <2>1 DEF Resolve, history
    <3> QED
      BY <3>1
  <2>2. CASE t \notin targets
    <3>1. Cardinality(targets') = Cardinality(targets) + 1
      BY <1>1, <1>a, <2>2, FS_AddElement DEF Resolve
    <3>2. refused = {} /\ refused' = {}
      BY <1>1, <1>a, <2>2 DEF Resolve, HasRoom, history
    <3> QED
      BY <1>1, <1>a, <2>2, <3>1, <3>2 DEF Resolve, HasRoom
  <2> QED
    BY <2>1, <2>2
<1>2. ASSUME NEW t \in Endpoints, TableFull(t)
      PROVE  TableIsBounded'
  BY <1>2, <1>a DEF TableFull, HasRoom
<1>3. CASE UNCHANGED <<targets, refused>>
  BY <1>3
<1>4. CASE \/ ControlEvent \/ RuntimeDown \/ Abort \/ BindRelay \/ SendReply
           \/ ReadControl \/ ReceiveFails \/ Respond \/ Send \/ ResolveFails
           \/ Terminated \/ UNCHANGED vars
  BY <1>3, <1>4 DEF ControlEvent, RuntimeDown, Abort, BindRelay, SendReply, ReadControl,
       ReceiveFails, Respond, Send, ResolveFails, Terminated, vars, history
<1>5. ASSUME NEW source \in Endpoints,
             Ignore(source) \/ \E len \in Lens : FromClient(source, len) \/ FromTarget(source, len)
      PROVE  TableIsBounded'
  BY <1>3, <1>5 DEF Ignore, FromClient, FromTarget, vars, history
<1> QED
  BY <1>1, <1>2, <1>4, <1>5 DEF Next

LEMMA BytesStep ==
  ASSUME TypeOK, BytesAreMoved, [Next]_vars
  PROVE  BytesAreMoved'
<1> USE DEF TypeOK, BytesAreMoved, counters, history, Goto
<1>1. CASE ControlEvent \/ RuntimeDown \/ Abort \/ BindRelay \/ SendReply
  BY <1>1 DEF ControlEvent, RuntimeDown, Abort, BindRelay, SendReply
<1>2. CASE ReadControl \/ ReceiveFails \/ Send \/ ResolveFails
  BY <1>2 DEF ReadControl, ReceiveFails, Send, ResolveFails
<1>3. CASE Respond
  BY <1>3 DEF Respond
<1>4. ASSUME NEW source \in Endpoints, NEW len \in Lens,
             FromClient(source, len) \/ FromTarget(source, len)
      PROVE  BytesAreMoved'
  BY <1>4 DEF FromClient, FromTarget, Add
<1>5. ASSUME NEW t \in Endpoints, Resolve(t) \/ TableFull(t)
      PROVE  BytesAreMoved'
  BY <1>5 DEF Resolve, TableFull
<1>6. CASE Terminated \/ (\E source \in Endpoints : Ignore(source)) \/ UNCHANGED vars
  BY <1>6 DEF Terminated, Ignore, vars
<1> QED
  BY <1>1, <1>2, <1>3, <1>4, <1>5, <1>6 DEF Next

LEMMA InvInit == Init => IInv
<1> SUFFICES ASSUME Init PROVE IInv
  OBVIOUS
<1>1. RelaysForClientOnly /\ BytesAreMoved
  BY DEF Init, RelaysForClientOnly, BytesAreMoved
<1>2. TableIsBounded
  BY FS_EmptySet, RelayAssumption DEF Init, TableIsBounded, RelayAssumption
<1> QED
  BY <1>1, <1>2, TypeInit DEF IInv

LEMMA Invariance == Spec => []IInv
<1>1. IInv /\ [Next]_vars => IInv'
  BY TypeStep, ClientStep, TableStep, BytesStep DEF IInv
<1> QED
  BY <1>1, InvInit, PTL DEF Spec

-----------------------------------------------------------------------------
(* Theorems.                                                               *)

\* Every variable keeps its type; the client is always on the peer's host.
THEOREM TypeCorrect == Spec => []TypeOK
<1>1. IInv => TypeOK
  BY DEF IInv
<1> QED
  BY <1>1, Invariance, PTL

\* Nothing is relayed but between the locked client and its targets.
THEOREM RelaysOnlyForTheClient == Spec => []RelaysForClientOnly
<1>1. IInv => RelaysForClientOnly
  BY DEF IInv
<1> QED
  BY <1>1, Invariance, PTL

\* The target table never exceeds MaxTargets, and what it turned away stays out.
THEOREM TableStaysBounded == Spec => []TableIsBounded
<1>1. IInv => TableIsBounded
  BY DEF IInv
<1> QED
  BY <1>1, Invariance, PTL

\* The UDP byte counters agree with what was moved, up to wrap-around.
THEOREM CountedBytesAreMoved == Spec => []BytesAreMoved
<1>1. IInv => BytesAreMoved
  BY DEF IInv
<1> QED
  BY <1>1, Invariance, PTL

\* Once locked, the relay keeps its client.
THEOREM LockIsKept == Spec => LockIsForEver
<1>1. ASSUME [Next]_vars
      PROVE  client # None => client' = client
  <2> USE <1>1 DEF vars, counters, history
  <2>1. ASSUME NEW source \in Endpoints, NEW len \in Lens, FromClient(source, len)
        PROVE  client # None => client' = client
    BY <2>1 DEF FromClient, MayBeClient
  <2>2. ASSUME NEW source \in Endpoints, NEW len \in Lens, FromTarget(source, len)
        PROVE  client' = client
    BY <2>2 DEF FromTarget
  <2>3. CASE \/ ControlEvent \/ RuntimeDown \/ Abort \/ BindRelay \/ SendReply
             \/ ReadControl \/ ReceiveFails \/ Respond \/ Send \/ ResolveFails
             \/ Terminated \/ UNCHANGED vars
    BY <2>3 DEF ControlEvent, RuntimeDown, Abort, BindRelay, SendReply, ReadControl,
                ReceiveFails, Respond, Send, ResolveFails, Terminated
  <2>4. ASSUME NEW t \in Endpoints, Resolve(t) \/ TableFull(t)
        PROVE  client' = client
    BY <2>4 DEF Resolve, TableFull
  <2>5. ASSUME NEW source \in Endpoints, Ignore(source)
        PROVE  client' = client
    BY <2>5 DEF Ignore
  <2> QED
    BY <2>1, <2>2, <2>3, <2>4, <2>5 DEF Next
<1> QED
  BY <1>1, PTL DEF Spec, LockIsForEver

\* A relay never ends by itself, with its control connection open, unnoticed
\* by relay_failures.
THEOREM EndsAreCounted == Spec => EndIsCounted
<1> DEFINE Ends == /\ pc \in {"select", "respond"} /\ pc' = "done"
                   /\ control = "open" /\ runtime = "up"
<1>1. ASSUME [Next]_vars, Ends
      PROVE  failures' = Add(failures, 1)
  <2> USE <1>1 DEF Goto
  <2>1. CASE ReceiveFails \/ Respond
    BY <2>1 DEF ReceiveFails, Respond
  <2>2. ~ (\/ ControlEvent \/ RuntimeDown \/ Abort \/ BindRelay \/ SendReply
           \/ ReadControl \/ Send \/ ResolveFails \/ Terminated \/ UNCHANGED vars)
    BY DEF ControlEvent, RuntimeDown, Abort, BindRelay, SendReply, ReadControl, Send,
           ResolveFails, Terminated, vars
  <2>3. ASSUME NEW t \in Endpoints, Resolve(t) \/ TableFull(t)
        PROVE  FALSE
    BY <2>3 DEF Resolve, TableFull
  <2>4. ASSUME NEW source \in Endpoints,
               Ignore(source) \/ \E len \in Lens : FromClient(source, len) \/ FromTarget(source, len)
        PROVE  FALSE
    BY <2>4 DEF Ignore, FromClient, FromTarget, vars
  <2> QED
    BY <2>1, <2>2, <2>3, <2>4 DEF Next
<1>2. [Next]_vars => (Ends => failures' = Add(failures, 1))
  BY <1>1
<1> QED
  BY <1>2, PTL DEF Spec, EndIsCounted

=============================================================================
