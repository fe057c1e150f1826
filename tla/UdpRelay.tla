------------------------------ MODULE UdpRelay ------------------------------
(***************************************************************************)
(* One SOCKS5 UDP association (handler.rs): handle_udp_associate, the      *)
(* relay loop relay_udp and handle_client_udp_packet.                      *)
(*                                                                         *)
(* The relay is one task.  It waits in select! for the TCP control         *)
(* connection or a datagram; while it resolves a destination or sends, it  *)
(* looks at neither.  The network may hand it any datagram from any        *)
(* endpoint.  A datagram is known by its source and its length; what a     *)
(* client's datagram names as its destination is chosen when the name is   *)
(* resolved, since any destination may be named.  The session has been     *)
(* counted (udp_associate_sessions) when this module's behaviour begins.   *)
(***************************************************************************)
EXTENDS Naturals, FiniteSets

CONSTANTS
  Endpoints,    \* UDP socket addresses
  PeerHost,     \* those whose IP is that of the TCP control connection's peer
  None,         \* no endpoint
  MaxTargets,   \* MAX_UDP_REMOTE_ENDPOINTS
  MaxDatagram,  \* the longest UDP payload a socket sends or receives
  Header,       \* what encode_udp_datagram puts before a payload
  CounterMax    \* the largest value of an AtomicU64 counter

ASSUME RelayAssumption ==
  /\ IsFiniteSet(Endpoints)
  /\ PeerHost \subseteq Endpoints
  /\ None \notin Endpoints
  /\ MaxTargets \in Nat \ {0}
  /\ MaxDatagram \in Nat /\ Header \in Nat /\ CounterMax \in Nat
  /\ 0 < Header /\ Header < MaxDatagram

VARIABLES
  pc,        \* where the session is
  control,   \* what a read of the TCP control connection would meet
  runtime,   \* "down" once run() is over and its tasks are being dropped
  client,    \* client_udp_addr
  targets,   \* relayed_targets
  hand,      \* the datagram in udp_buf: who sent it, where it goes, its length
  bytesIn, bytesOut, failures,  \* counters of Stats
  refused,   \* history: destinations turned away because the table was full
  delivered, sent               \* history: bytes that did reach the client, a target

counters == <<bytesIn, bytesOut, failures>>
history  == <<refused, delivered, sent>>
vars     == <<pc, control, runtime, client, targets, hand, counters, history>>

Counter == 0..CounterMax
Lens    == 0..MaxDatagram
Add(n, k) == (n + k) % (CounterMax + 1)

NoDatagram == [from |-> None, to |-> None, len |-> 0]

Init ==
  /\ pc = "bind"
  /\ control = "open"
  /\ runtime = "up"
  /\ client = None
  /\ targets = {}
  /\ hand = NoDatagram
  /\ bytesIn = 0 /\ bytesOut = 0 /\ failures = 0
  /\ refused = {} /\ delivered = 0 /\ sent = 0

Goto(from, to) == pc = from /\ pc' = to

-----------------------------------------------------------------------------
(* The world around the relay.                                             *)

\* The client closes the control connection, writes to it, or it breaks.
ControlEvent ==
  /\ control = "open"
  /\ control' \in {"eof", "data", "error"}
  /\ UNCHANGED <<pc, runtime, client, targets, hand, counters, history>>

RuntimeDown ==
  /\ runtime = "up"
  /\ runtime' = "down"
  /\ UNCHANGED <<pc, control, client, targets, hand, counters, history>>

\* The task is dropped at whatever await it is in.
Abort ==
  /\ runtime = "down"
  /\ pc # "done"
  /\ pc' = "done"
  /\ UNCHANGED <<control, runtime, client, targets, hand, counters, history>>

-----------------------------------------------------------------------------
(* handle_udp_associate: bind the relay socket, then answer the client.    *)

BindRelay ==
  /\ Goto("bind", "reply") \/ Goto("bind", "done")
  /\ UNCHANGED <<control, runtime, client, targets, hand, counters, history>>

SendReply ==
  /\ Goto("reply", "select") \/ Goto("reply", "done")
  /\ UNCHANGED <<control, runtime, client, targets, hand, counters, history>>

-----------------------------------------------------------------------------
(* relay_udp.                                                              *)

\* Faulty: data on the control connection is read and dropped.
ReadControlEofOnly ==
  /\ control \in {"eof", "error"}
  /\ Goto("select", "done")
  /\ UNCHANGED <<control, runtime, client, targets, hand, counters, history>>

\* End of file returns Ok; data and errors return Err.  All end the relay.
ReadControl ==
  /\ control # "open"
  /\ Goto("select", "done")
  /\ UNCHANGED <<control, runtime, client, targets, hand, counters, history>>

ReceiveFails ==
  /\ Goto("select", "done")
  /\ failures' = Add(failures, 1)
  /\ UNCHANGED <<control, runtime, client, targets, hand, bytesIn, bytesOut, history>>

\* Faulty: any host may be the client; any port of its host, also after the lock.
MayBeAnyHost(source) == IF client = None THEN TRUE ELSE source = client
MayBeAnyPort(source) == source \in PeerHost

\* Before the relay is locked to a client, any port of the peer's host may be it.
MayBeClient(source) ==
  IF client = None THEN source \in PeerHost ELSE source = client

\* Faulty: the datagram is handled without taking the lock.
FromClientUnlocked(source, len) ==
  /\ MayBeClient(source)
  /\ len >= Header
  /\ Goto("select", "resolve")
  /\ hand' = [from |-> source, to |-> None, len |-> len - Header]
  /\ UNCHANGED <<control, runtime, client, targets, counters, history>>

\* A datagram that parses: the lock is taken before its destination is known.
FromClient(source, len) ==
  /\ MayBeClient(source)
  /\ len >= Header
  /\ Goto("select", "resolve")
  /\ client' = source
  /\ hand' = [from |-> source, to |-> None, len |-> len - Header]
  /\ UNCHANGED <<control, runtime, targets, counters, history>>

\* A datagram that does not parse (or is a fragment), or comes from a stranger.
Ignore(source) ==
  /\ pc = "select"
  /\ MayBeClient(source) \/ source \notin targets
  /\ UNCHANGED vars

\* A reply is counted before it is sent on.
FromTarget(source, len) ==
  /\ client # None
  /\ source # client
  /\ source \in targets
  /\ Goto("select", "respond")
  /\ hand' = [from |-> source, to |-> client, len |-> len]
  /\ bytesIn' = Add(bytesIn, len)
  /\ UNCHANGED <<control, runtime, client, targets, bytesOut, failures, history>>

\* Faulty: a failed reply ends the relay uncounted.
RespondUncounted ==
  /\ hand' = NoDatagram
  /\ \/ /\ hand.len + Header <= MaxDatagram
        /\ Goto("respond", "select")
        /\ delivered' = Add(delivered, hand.len)
     \/ Goto("respond", "done") /\ UNCHANGED delivered
  /\ UNCHANGED <<control, runtime, client, targets, bytesIn, bytesOut, failures, refused, sent>>

\* Wrapped, the reply may be too long for one datagram: the error ends the relay.
Respond ==
  /\ hand' = NoDatagram
  /\ \/ /\ hand.len + Header <= MaxDatagram
        /\ Goto("respond", "select")
        /\ delivered' = Add(delivered, hand.len)
        /\ UNCHANGED failures
     \/ /\ Goto("respond", "done")
        /\ failures' = Add(failures, 1)
        /\ UNCHANGED delivered
  /\ UNCHANGED <<control, runtime, client, targets, bytesIn, bytesOut, refused, sent>>

-----------------------------------------------------------------------------
(* handle_client_udp_packet, after the parse and the lock.                 *)

ResolveFails ==
  /\ Goto("resolve", "select")
  /\ hand' = NoDatagram
  /\ UNCHANGED <<control, runtime, client, targets, counters, history>>

HasRoomOffByOne(t) == t \in targets \/ Cardinality(targets) <= MaxTargets  \* faulty

HasRoom(t) == t \in targets \/ Cardinality(targets) < MaxTargets

Resolve(t) ==
  /\ HasRoom(t)
  /\ Goto("resolve", "send")
  /\ targets' = targets \cup {t}
  /\ hand' = [hand EXCEPT !.to = t]
  /\ UNCHANGED <<control, runtime, client, counters, history>>

TableFull(t) ==
  /\ ~HasRoom(t)
  /\ Goto("resolve", "select")
  /\ hand' = NoDatagram
  /\ refused' = refused \cup {t}
  /\ UNCHANGED <<control, runtime, client, targets, counters, delivered, sent>>

\* Faulty: the bytes are counted before the outcome of the send is known.
SendCountsFirst ==
  /\ Goto("send", "select")
  /\ hand' = NoDatagram
  /\ bytesOut' = Add(bytesOut, hand.len)
  /\ \/ sent' = Add(sent, hand.len) /\ UNCHANGED failures
     \/ failures' = Add(failures, 1) /\ UNCHANGED sent
  /\ UNCHANGED <<control, runtime, client, targets, bytesIn, refused, delivered>>

\* A request that cannot be sent is counted and dropped; the relay goes on.
Send ==
  /\ Goto("send", "select")
  /\ hand' = NoDatagram
  /\ \/ /\ bytesOut' = Add(bytesOut, hand.len)
        /\ sent' = Add(sent, hand.len)
        /\ UNCHANGED failures
     \/ /\ failures' = Add(failures, 1)
        /\ UNCHANGED <<bytesOut, sent>>
  /\ UNCHANGED <<control, runtime, client, targets, bytesIn, refused, delivered>>

Terminated == pc = "done" /\ UNCHANGED vars

-----------------------------------------------------------------------------
Next ==
  \/ ControlEvent \/ RuntimeDown \/ Abort
  \/ BindRelay \/ SendReply
  \/ ReadControl \/ ReceiveFails
  \/ \E source \in Endpoints :
       Ignore(source) \/ \E len \in Lens : FromClient(source, len) \/ FromTarget(source, len)
  \/ Respond \/ ResolveFails \/ Send
  \/ \E t \in Endpoints : Resolve(t) \/ TableFull(t)
  \/ Terminated

Spec == Init /\ [][Next]_vars

(***************************************************************************)
(* Every await but select! ends: a bind, a send and a lookup finish, and   *)
(* the reply has a write timeout.  select! starts at a random branch, so   *)
(* datagrams that keep coming do not hide the control connection for ever. *)
(***************************************************************************)
Fairness ==
  /\ WF_vars(BindRelay) /\ WF_vars(SendReply)
  /\ SF_vars(ReadControl)
  /\ WF_vars(ResolveFails \/ \E t \in Endpoints : Resolve(t) \/ TableFull(t))
  /\ WF_vars(Send) /\ WF_vars(Respond)
  /\ WF_vars(Abort)

FairSpec == Spec /\ Fairness

-----------------------------------------------------------------------------
(* Properties                                                              *)

TypeOK ==
  /\ pc \in {"bind", "reply", "select", "resolve", "send", "respond", "done"}
  /\ control \in {"open", "eof", "data", "error"}
  /\ runtime \in {"up", "down"}
  /\ client \in PeerHost \cup {None}
  /\ targets \subseteq Endpoints
  /\ hand \in [from : Endpoints \cup {None}, to : Endpoints \cup {None}, len : Lens]
  /\ bytesIn \in Counter /\ bytesOut \in Counter /\ failures \in Counter
  /\ refused \subseteq Endpoints /\ delivered \in Counter /\ sent \in Counter

\* What goes out to a target came from the locked client; what goes to the
\* client came from a target; before the lock there are no targets at all.
RelaysForClientOnly ==
  /\ pc \in {"resolve", "send"} => hand.from = client /\ client # None
  /\ pc = "send" => hand.to \in targets
  /\ pc = "respond" => hand.from \in targets /\ hand.to = client /\ client # None
  /\ client = None => targets = {}

\* The target table is bounded, and a destination it once turned away is never
\* contacted and never heard: the table does not shrink, so it stays full.
TableIsBounded ==
  /\ Cardinality(targets) <= MaxTargets
  /\ refused # {} => Cardinality(targets) = MaxTargets
  /\ refused \cap targets = {}

\* Counted bytes were moved: out exactly, and in except for the reply in hand
\* (which a failed send leaves counted, and ends the relay).
BytesAreMoved ==
  /\ bytesOut = sent
  /\ pc \in {"bind", "reply", "select", "resolve", "send"} => bytesIn = delivered
  /\ pc = "respond" => bytesIn = Add(delivered, hand.len)

\* The lock is taken once: the relay never changes its client.
LockIsForEver == [][client # None => client' = client]_vars

\* A relay that has started and ends by itself while the control connection
\* is open was counted in relay_failures.
EndIsCounted ==
  [][(pc \in {"select", "respond"} /\ pc' = "done" /\ control = "open" /\ runtime = "up")
       => failures' = Add(failures, 1)]_vars

\* "The UDP relay is scoped to the lifetime of the TCP control connection":
\* once that ends (or says anything), the relay ends, whatever datagrams keep
\* arriving and even if a lookup is under way.
ControlEndsRelay == (control # "open") ~> (pc = "done")

\* handler.rs: "Relay UDP datagrams while the TCP control connection stays open."
RelayWhileControlOpen ==
  [][(pc \in {"select", "resolve", "send", "respond"} /\ pc' = "done")
       => control # "open" \/ runtime = "down"]_vars

=============================================================================
