------------------------------- MODULE Socks5 -------------------------------
(***************************************************************************)
(* One SOCKS5 session (the SOCKS branch of server.rs with handshake,       *)
(* read_request, send_reply of protocol.rs, basic_authenticate of auth.rs  *)
(* and handle_connect of handler.rs), from the replayed first byte to the  *)
(* end of the relay.                                                       *)
(*                                                                         *)
(* The client sends the fields of its messages whenever it likes: it may   *)
(* send everything ahead, stop anywhere, send anything, close or vanish.   *)
(* The session reads one field at a time with read_exact, each with a      *)
(* timeout; pc names the field it waits for or the step it is at.          *)
(***************************************************************************)
EXTENDS TcpRelay

CONSTANTS
  MaxData   \* bound: tokens each side sends once the connection is proxied

ASSUME DataAssumption == MaxData \in Nat

VARIABLES
  pc,
  bypass,       \* ip_authenticate: the peer's address is in bypass_ips
  configured,   \* a username and a password are configured
  eaten,        \* the fields the session has read
  counted       \* the counters (statistics are on): auth, connect and relay
                \* failures, TCP tokens

vars == <<pipe, pc, bypass, configured, eaten, counted>>
session == <<bypass, configured>>

Methods == {"noAuth", "password"}
Desired == IF bypass THEN "noAuth" ELSE "password"

(***************************************************************************)
(* The fields in the order they are read, and what each may hold.  The     *)
(* version of the greeting is 5 (the dispatcher saw it); it may announce   *)
(* no methods.  A bad value of any other field is one the code rejects.    *)
(***************************************************************************)
Greeting == <<"hello", "methods">>
Login    == <<"authver", "user", "pass">>
Request  == <<"head", "addr", "port">>
Messages == Greeting \o (IF bypass THEN <<>> ELSE Login) \o Request

Values(f) ==
  CASE f = "hello" -> {"some", "empty"}
    [] f = "methods" -> SUBSET Methods
    [] f = "head" -> {"connect", "udp", "other", "bad"}
    [] f = "port" -> {"any"}
    [] OTHER -> {"good", "bad"}

Reply(r)     == <<"reply", r>>
IsReply(t)   == t[1] = "reply"

\* Where each field leads when its own check succeeds.
After == [
  hello |-> "methods", methods |-> "select",
  authver |-> "user", user |-> "pass", pass |-> "login",
  head |-> "addr", addr |-> "port", port |-> "command"]

Negotiation == {"hello", "methods", "select", "reject"}
Authenticating == {"authver", "user", "pass", "login", "authBad", "authOk"}

Zero == [auth |-> 0, connect |-> 0, relay |-> 0, up |-> 0, down |-> 0]

Init ==
  /\ PipeInit
  /\ pc = "hello"
  /\ bypass \in BOOLEAN
  /\ configured \in BOOLEAN
  /\ eaten = <<>>
  /\ counted = Zero

Goto(from, to) == pc = from /\ pc' = to

\* The value of a field the session has read.
Said(f) == LET i == CHOOSE j \in DOMAIN eaten : eaten[j][1] = f IN eaten[i][2]

UserMatches == Said("user") = "good"   \* faulty: the password is not compared

CredentialsMatch == Said("user") = "good" /\ Said("pass") = "good"

-----------------------------------------------------------------------------
(* The client and the upstream.                                            *)

NextField == Messages[Len(log["up"]) + 1]

ClientSends ==
  /\ pc # "closed"
  /\ IF Len(log["up"]) < Len(Messages)
       THEN \E v \in Values(NextField) : SendToken("up", <<NextField, v>>)
       ELSE /\ Len(log["up"]) < Len(Messages) + MaxData
            /\ SendToken("up", <<"data", Len(log["up"])>>)
  /\ UNCHANGED <<pc, session, eaten, counted>>

UpstreamSends ==
  /\ pc # "closed"
  /\ Len(log["down"]) < MaxData
  /\ SendToken("down", <<"data", Len(log["down"])>>)
  /\ UNCHANGED <<pc, session, eaten, counted>>

PeerEnds ==
  /\ pc # "closed"
  /\ \E d \in Dirs : FinishSending(d) \/ Break(d)
  /\ UNCHANGED <<pc, session, eaten, counted>>

-----------------------------------------------------------------------------
(* Failures.  server.rs counts every error of the handshake and of the     *)
(* authentication, unless the peer bypasses authentication.                *)

CountAlways == [counted EXCEPT !.auth = @ + 1]  \* faulty: a bypassing peer is counted too

CountAuth == IF ~bypass /\ pc \in Negotiation \cup Authenticating
               THEN [counted EXCEPT !.auth = @ + 1] ELSE counted

Fail ==
  /\ pc' = "closed"
  /\ counted' = CountAuth
  /\ UNCHANGED <<pipe, session, eaten>>

Waiting == pc \in {"hello", "methods", "authver", "user", "pass", "head", "addr", "port"}
Writing == pc \in {"select", "reject", "authOk", "authBad", "reply"}

\* Faulty: a read without a timeout.
ReadFailsUntimed ==
  /\ Waiting
  /\ wire["up"] = <<>>
  /\ src["up"] \in {"fin", "broken"}
  /\ Fail

\* Nothing arrives: the timeout, end of file or a reset.
ReadFails ==
  /\ Waiting
  /\ wire["up"] = <<>>
  /\ Fail

WriteFailsUntimed == src["up"] = "broken" /\ Writing /\ Fail   \* faulty: a write without a timeout

\* The client does not read its answer within the timeout, or is gone.
WriteFails == Writing /\ Fail

-----------------------------------------------------------------------------
(* The session.                                                            *)

\* The values the code goes on with.  The user name and the password are
\* only compared when both are read, and an unknown command is only refused
\* after its address.  (So is a domain that is no text, but after its port: here
\* with any other bad address, since neither is answered.)
Accepts(f, v) ==
  /\ f = "hello" => v = "some"
  /\ f = "methods" => Desired \in v
  /\ f \in {"authver", "addr"} => v = "good"
  /\ f = "head" => v # "bad"

\* Of what it does not accept it only answers a greeting.
ReadField ==
  /\ Waiting
  /\ Take(1)
  /\ LET token == Head(wire["up"]) IN
       /\ eaten' = Append(eaten, token)
       /\ IF token[1] = pc /\ Accepts(pc, token[2])
            THEN pc' = After[pc] /\ UNCHANGED counted
          ELSE IF token[1] = pc /\ pc \in {"hello", "methods"}
            THEN pc' = "reject" /\ UNCHANGED counted
          ELSE pc' = "closed" /\ counted' = CountAuth
  /\ UNCHANGED session

Reject ==
  /\ pc = "reject"
  /\ pc' = "closed"
  /\ WriteTo("down", <<Reply("noMethod")>>)
  /\ counted' = CountAuth
  /\ UNCHANGED <<session, eaten>>

SelectMethod ==
  /\ Goto("select", IF bypass THEN "head" ELSE "authver")
  /\ WriteTo("down", <<Reply("method")>>)
  /\ UNCHANGED <<session, eaten, counted>>

CheckLogin ==
  /\ pc = "login"
  /\ IF configured
       THEN pc' = (IF CredentialsMatch THEN "authOk" ELSE "authBad") /\ UNCHANGED counted
       ELSE pc' = "closed" /\ counted' = CountAuth
  /\ UNCHANGED <<pipe, session, eaten>>

AuthOk ==
  /\ Goto("authOk", "head")
  /\ WriteTo("down", <<Reply("authOk")>>)
  /\ UNCHANGED <<session, eaten, counted>>

AuthBad ==
  /\ Goto("authBad", "closed")
  /\ WriteTo("down", <<Reply("authBad")>>)
  /\ counted' = CountAuth
  /\ UNCHANGED <<session, eaten>>

\* Faulty: the reply goes out before the upstream is connected.
DispatchRepliesFirst ==
  /\ pc = "command"
  /\ pc' = IF Said("head") = "connect" THEN "reply"
           ELSE IF Said("head") = "udp" THEN "udp" ELSE "closed"
  /\ UNCHANGED <<pipe, session, eaten, counted>>

Dispatch ==
  /\ pc = "command"
  /\ pc' = IF Said("head") = "connect" THEN "connect"
           ELSE IF Said("head") = "udp" THEN "udp" ELSE "closed"
  /\ UNCHANGED <<pipe, session, eaten, counted>>

Connect ==
  /\ Goto("connect", "reply")
  /\ ConnectUpstream
  /\ UNCHANGED <<session, eaten, counted>>

\* The connect fails (counted), or the new socket does (not counted).  The
\* client gets no reply: the session just ends.
ConnectFails ==
  /\ Goto("connect", "closed")
  /\ counted' \in {counted, [counted EXCEPT !.connect = @ + 1]}
  /\ UNCHANGED <<pipe, session, eaten>>

\* Faulty: what the client has sent ahead is lost when the relay starts.
SendReplyDropsEarlyData ==
  /\ Goto("reply", "relay")
  /\ out' = [out EXCEPT !["down"] = Append(@, Reply("connected"))]
  /\ wire' = [wire EXCEPT !["up"] = <<>>]
  /\ UNCHANGED <<log, src, buf, dst, session, eaten, counted>>

SendReply ==
  /\ Goto("reply", "relay")
  /\ WriteTo("down", <<Reply("connected")>>)
  /\ UNCHANGED <<session, eaten, counted>>

Relay ==
  /\ pc = "relay"
  /\ CopyStep
  /\ UNCHANGED <<pc, session, eaten, counted>>

\* The session's own replies are the first that the client gets; the rest the
\* relay has moved.
Replies ==
  CHOOSE n \in 0..Len(out["down"]) :
    /\ \A i \in 1..n : IsReply(out["down"][i])
    /\ n < Len(out["down"]) => ~IsReply(out["down"][n + 1])
GotReplies == SubSeq(out["down"], 1, Replies)
GotData    == Behind(Replies, out["down"])

\* Both directions are done; copy_bidirectional returns what it moved.
RelayEnds ==
  /\ CopyDone
  /\ Goto("relay", "closed")
  /\ counted' = [counted EXCEPT
       !.up = Len(out["up"]),
       !.down = Len(GotData)]
  /\ UNCHANGED <<pipe, session, eaten>>

\* An error of either direction ends both; the bytes are not counted.
RelayFails ==
  /\ CopyBroken
  /\ Goto("relay", "closed")
  /\ counted' = [counted EXCEPT !.relay = @ + 1]
  /\ UNCHANGED <<pipe, session, eaten>>

\* UdpRelay takes over; it ends when it likes.
UdpEnds == Goto("udp", "closed") /\ UNCHANGED <<pipe, session, eaten, counted>>

Terminated == pc = "closed" /\ UNCHANGED vars

-----------------------------------------------------------------------------
Step ==
  \/ ReadField \/ ReadFails \/ WriteFails
  \/ Reject \/ SelectMethod \/ CheckLogin \/ AuthOk \/ AuthBad
  \/ Dispatch \/ Connect \/ ConnectFails \/ SendReply
  \/ Relay \/ RelayEnds \/ RelayFails

Next == ClientSends \/ UpstreamSends \/ PeerEnds \/ Step \/ UdpEnds \/ Terminated

Spec == Init /\ [][Next]_vars

\* The session's task is polled; the peers may do nothing for ever, not even take
\* what is written to them: no step that writes to a peer need ever be done.
FairSpec == Spec /\ WF_vars(Step /\ UNCHANGED out)

-----------------------------------------------------------------------------
(* Properties                                                              *)

Fields == {"hello", "methods", "authver", "user", "pass", "head", "addr", "port"}
FieldTokens == UNION {{<<f, v>> : v \in Values(f)} : f \in Fields}
Token == FieldTokens \cup {<<"data", i>> : i \in 0..(8 + MaxData)}
           \cup {Reply(r) : r \in {"method", "noMethod", "authOk", "authBad", "connected"}}

TypeOK ==
  /\ PipeTypeOK(Token)
  /\ pc \in Fields \cup {"select", "reject", "login", "authOk", "authBad", "command", "connect",
                         "reply", "relay", "udp", "closed"}
  /\ bypass \in BOOLEAN /\ configured \in BOOLEAN
  /\ eaten \in Seq(FieldTokens)
  /\ counted \in [auth : 0..1, connect : 0..1, relay : 0..1,
                  up : 0..MaxData, down : 0..MaxData]

\* An upstream is only contacted, and a UDP association only begun, for a peer
\* in bypass_ips or one that sent the configured user name and password.
AuthenticatedBeforeUse ==
  pc \in {"connect", "reply", "relay", "udp"} \/ src["down"] # "none"
    => bypass \/ (configured /\ Said("user") = "good" /\ Said("pass") = "good")

\* The replies the client has got are a prefix of a legal dialogue, none comes
\* after a refusal or after upstream data, and success is only ever reported
\* once the upstream connection exists.
Dialogues  == {<<"noMethod">>, <<"method", "authBad">>, <<"method", "authOk", "connected">>,
               <<"method", "connected">>}
RepliesAreTruthful ==
  /\ \E dialogue \in Dialogues :
       /\ Len(GotReplies) <= Len(dialogue)
       /\ \A i \in DOMAIN GotReplies : GotReplies[i] = Reply(dialogue[i])
  /\ \A i \in DOMAIN GotData : ~IsReply(GotData[i])
  /\ Reply("connected") \in {out["down"][i] : i \in DOMAIN out["down"]} => src["down"] # "none"

\* No token is lost, duplicated or reordered: what the session has read, what
\* the upstream got and what is on its way are the client's tokens in order,
\* and likewise back; only a reset loses the end of a stream.  Once the relay
\* runs, the session has read exactly its messages, and the rest is data that
\* the upstream gets even if the client sent it ahead.
StreamsAreIntact ==
  /\ Intact("up", eaten \o out["up"]) /\ Intact("down", GotData)
  /\ pc \in {"connect", "reply", "relay", "udp"} => Len(eaten) = Len(Messages)

\* A relay that ends without an error has moved and counted all that either
\* side sent, and has told each side of the other's end.  What is counted has been
\* moved, also by a session that is cut off.
CleanEndIsComplete ==
  /\ pc = "closed" /\ CopyDone =>
       /\ out["up"] = Behind(Len(Messages), log["up"])
       /\ out["down"] = GotReplies \o log["down"]
       /\ counted = [Zero EXCEPT !.up = Len(out["up"]), !.down = Len(log["down"])]
  /\ counted.up <= Len(out["up"]) /\ counted.down <= Len(GotData)

\* auth_failures counts a session once, exactly if it had to authenticate and
\* ended before it was told of its success.
AuthFailuresCounted ==
  pc = "closed" =>
    (counted.auth = 1 <=> ~bypass /\ \A i \in DOMAIN out["down"] : out["down"][i] # Reply("authOk"))

\* A client that stops at any point of its messages, or stops reading the
\* answers, does not keep the session: it gets to a relay or ends.
HandshakeEnds == <>(pc \in {"relay", "udp", "closed"})

\* A half-close is forwarded, after the data before it, to a receiver that takes
\* what it is sent, even if the other direction is silent or stalled for ever.  To
\* one that does not, it need not be: the relay's writes have no timeout.
Takes(d) == WF_vars(Step /\ out'[d] # out[d])
EofIsForwarded ==
  \A d \in Dirs :
    Takes(d) => ((pc = "relay" /\ src[d] = "fin") ~> (dst[d] = "fin" \/ pc = "closed"))

=============================================================================
