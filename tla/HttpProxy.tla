----------------------------- MODULE HttpProxy -----------------------------
(***************************************************************************)
(* One HTTP connection (http.rs): the request header is read in chunks,    *)
(* then the request is refused, answered with the stats page, tunnelled    *)
(* (CONNECT) or forwarded with a rewritten header.  The last two end in    *)
(* the byte relay, which starts behind whatever the last chunk held beyond *)
(* the header (body_start).                                                *)
(*                                                                         *)
(* The client's stream is header lines, the end of the header (a token     *)
(* that stands for all the code asks of the request), and then data: a     *)
(* body, tunnelled bytes, or a further request on the same connection.     *)
(***************************************************************************)
EXTENDS TcpRelay

CONSTANTS
  HeaderMax,  \* MAX_HEADER_SIZE: tokens the header buffer may hold
  ChunkMax,   \* the most tokens one read returns
  MaxData     \* bound: tokens each side sends after the header

ASSUME HttpAssumption == {HeaderMax, ChunkMax, MaxData} \subseteq Nat

VARIABLES
  pc,
  bypass,     \* bypass_auth
  enabled,    \* stats.is_enabled()
  read,       \* the header buffer: all that read_http_request has read
  counted     \* counters: auth, connect and relay failures, TCP tokens

vars == <<pipe, pc, bypass, enabled, read, counted>>
config == <<bypass, enabled>>

(***************************************************************************)
(* A request whose header parses: what it asks for, which header carries   *)
(* the configured credentials, and whether a Via hop names this listener.  *)
(* "stats" is GET /stats with this listener's port in Host; a "badTarget"  *)
(* is one that parse_connect_target or split_target refuses.               *)
(***************************************************************************)
Requests == [form : {"stats", "connect", "forward", "badTarget"},
             auth : {"none", "authorization", "proxyAuthorization"},
             ownVia : BOOLEAN]

\* The parser refuses a malformed line wherever the header is cut, but how a
\* misframed one says the body ends is only looked at in a complete header.
Lines    == {"good", "malformed", "misframed"}
Line(v)  == <<"line", v>>
End(r)   == <<"end", r>>
IsEnd(t) == t[1] = "end"
Laters   == {"data", "request"}     \* what may follow the header
Reply(r) == <<"reply", r>>
IsReply(t) == t[1] = "reply"
Rewritten(r) == <<"rewritten", [r EXCEPT !.ownVia = TRUE, !.auth =
                   IF r.auth = "proxyAuthorization" THEN "none" ELSE r.auth]>>
IsRewritten(t) == t[1] = "rewritten"

Complete  == \E i \in DOMAIN read : IsEnd(read[i])
EndOf(s)  == CHOOSE i \in DOMAIN s : IsEnd(s[i])
HeaderEnd == EndOf(read)
Req       == read[HeaderEnd][2]
BodyStart == Behind(HeaderEnd, read)

Zero == [auth |-> 0, connect |-> 0, relay |-> 0, up |-> 0, down |-> 0]
Count(c) == counted' = IF enabled THEN c ELSE counted

Init ==
  /\ PipeInit
  /\ pc = "request"
  /\ bypass \in BOOLEAN
  /\ enabled \in BOOLEAN
  /\ read = <<>>
  /\ counted = Zero

Goto(from, to) == pc = from /\ pc' = to

-----------------------------------------------------------------------------
(* The client and the upstream.                                            *)

HeaderSent == \E i \in DOMAIN log["up"] : IsEnd(log["up"][i])

\* The client's header may have up to HeaderMax + 1 lines.
ClientSends ==
  /\ pc # "closed"
  /\ IF HeaderSent
       THEN /\ Len(log["up"]) < EndOf(log["up"]) + MaxData
            /\ \E kind \in Laters : SendToken("up", <<kind, Len(log["up"])>>)
       ELSE \/ /\ Len(log["up"]) <= HeaderMax
               /\ \E v \in Lines : SendToken("up", Line(v))
            \/ \E r \in Requests : SendToken("up", End(r))
  /\ UNCHANGED <<pc, config, read, counted>>

UpstreamSends ==
  /\ pc # "closed"
  /\ Len(log["down"]) < MaxData
  /\ SendToken("down", <<"data", Len(log["down"])>>)
  /\ UNCHANGED <<pc, config, read, counted>>

PeerEnds ==
  /\ pc # "closed"
  /\ \E d \in Dirs : FinishSending(d) \/ Break(d)
  /\ UNCHANGED <<pc, config, read, counted>>

-----------------------------------------------------------------------------
(* Reading the request.                                                    *)

\* The session reads on until the header is complete; one that is malformed,
\* misframed or, with what the last chunk holds beyond it, too long ends it
\* unanswered.
ReadRequest(n) ==
  /\ pc = "request"
  /\ n <= ChunkMax
  /\ Take(n)
  /\ read' = read \o SubSeq(wire["up"], 1, n)
  /\ pc' = IF Len(read') > HeaderMax \/ Line("malformed") \in ToSet(read') THEN "closed"
           ELSE IF ~Complete' THEN "request"
           ELSE IF Line("misframed") \in ToSet(read') THEN "closed" ELSE "route"
  /\ UNCHANGED <<config, counted>>

\* Faulty: a read without a timeout.
ReadFailsUntimed ==
  /\ Goto("request", "closed")
  /\ wire["up"] = <<>>
  /\ src["up"] \in {"fin", "broken"}
  /\ UNCHANGED <<pipe, config, read, counted>>

\* Nothing arrives: the timeout, end of file or a reset.
ReadFails ==
  /\ Goto("request", "closed")
  /\ wire["up"] = <<>>
  /\ UNCHANGED <<pipe, config, read, counted>>

-----------------------------------------------------------------------------
(* What becomes of it: handle_http_proxy.                                  *)

ForProxy == Req.auth = "proxyAuthorization"
ForStats == Req.auth # "none"
IsStats  == enabled /\ Req.form = "stats"

RouteByAnyCredentials ==  \* faulty: a request is forwarded on the stats page's terms
  IF Req.ownVia THEN "508"
  ELSE IF IsStats THEN (IF bypass \/ ForStats THEN "page" ELSE "401")
  ELSE IF ~bypass /\ ~ForStats THEN "407"
  ELSE IF Req.form = "badTarget" THEN "closed" ELSE "connect"

Verdict ==
  IF Req.ownVia THEN "508"
  ELSE IF IsStats THEN (IF bypass \/ ForStats THEN "page" ELSE "401")
  ELSE IF ~bypass /\ ~ForProxy THEN "407"
  ELSE IF Req.form = "badTarget" THEN "closed" ELSE "connect"

RouteUncounted ==  \* faulty: a failed authentication is not counted
  /\ Goto("route", Verdict)
  /\ UNCHANGED <<pipe, config, read, counted>>

Route ==
  /\ Goto("route", Verdict)
  /\ Count(IF pc' \in {"401", "407"} THEN [counted EXCEPT !.auth = @ + 1] ELSE counted)
  /\ UNCHANGED <<pipe, config, read>>

Answers == {"508", "401", "407", "page"}

Answer ==
  /\ pc \in Answers
  /\ pc' = "closed"
  /\ WriteTo("down", <<Reply(pc)>>)
  /\ UNCHANGED <<config, read, counted>>

\* The client or the upstream does not take it within the timeout, or is gone.
WriteFails ==
  /\ pc \in Answers \cup {"established", "early", "header", "body"}
  /\ pc' = "closed"
  /\ UNCHANGED <<pipe, config, read, counted>>

-----------------------------------------------------------------------------
(* handle_connect and handle_forward.                                      *)

Connect ==
  /\ Goto("connect", IF Req.form = "connect" THEN "established" ELSE "header")
  /\ ConnectUpstream
  /\ UNCHANGED <<config, read, counted>>

\* The client gets no answer: the session just ends.
ConnectFails ==
  /\ Goto("connect", "closed")
  /\ Count([counted EXCEPT !.connect = @ + 1])
  /\ UNCHANGED <<pipe, config, read>>

EstablishedDropsEarly ==  \* faulty: body_start is forgotten
  /\ Goto("established", "relay")
  /\ WriteTo("down", <<Reply("200")>>)
  /\ UNCHANGED <<config, read, counted>>

Established ==
  /\ Goto("established", IF BodyStart = <<>> THEN "relay" ELSE "early")
  /\ WriteTo("down", <<Reply("200")>>)
  /\ UNCHANGED <<config, read, counted>>

EarlyUncounted ==  \* faulty: only what the relay moves is counted
  /\ Goto("early", "relay")
  /\ WriteTo("up", BodyStart)
  /\ UNCHANGED <<config, read, counted>>

\* CONNECT: what the client sent behind its header goes ahead of the tunnel.
Early ==
  /\ Goto("early", "relay")
  /\ WriteTo("up", BodyStart)
  /\ Count([counted EXCEPT !.up = @ + Len(BodyStart)])
  /\ UNCHANGED <<config, read>>

\* The rewritten header is written first, then body_start; both are counted once
\* they are out.
SendHeader ==
  /\ pc = "header"
  /\ WriteTo("up", <<Rewritten(Req)>>)
  /\ IF BodyStart = <<>>
       THEN pc' = "relay" /\ Count([counted EXCEPT !.up = @ + 1])
       ELSE pc' = "body" /\ UNCHANGED counted
  /\ UNCHANGED <<config, read>>

SendBody ==
  /\ Goto("body", "relay")
  /\ WriteTo("up", BodyStart)
  /\ Count([counted EXCEPT !.up = @ + 1 + Len(BodyStart)])
  /\ UNCHANGED <<config, read>>

-----------------------------------------------------------------------------
(* The relay.                                                              *)

\* What was written before it, which copy_bidirectional does not count.
Ahead(d) == IF d = "up" THEN Len(BodyStart) + (IF Req.form = "connect" THEN 0 ELSE 1)
            ELSE IF Req.form = "connect" THEN 1 ELSE 0
Moved(d) == Len(out[d]) - Ahead(d)

Relay ==
  /\ pc = "relay"
  /\ CopyStep
  /\ UNCHANGED <<pc, config, read, counted>>

RelayEnds ==
  /\ CopyDone
  /\ Goto("relay", "closed")
  /\ Count([counted EXCEPT !.up = @ + Moved("up"), !.down = @ + Moved("down")])
  /\ UNCHANGED <<pipe, config, read>>

RelayFails ==
  /\ CopyBroken
  /\ Goto("relay", "closed")
  /\ Count([counted EXCEPT !.relay = @ + 1])
  /\ UNCHANGED <<pipe, config, read>>

Terminated == pc = "closed" /\ UNCHANGED vars

-----------------------------------------------------------------------------
Step ==
  \/ \E n \in 1..ChunkMax : ReadRequest(n)
  \/ ReadFails \/ Route \/ Answer \/ WriteFails
  \/ Connect \/ ConnectFails \/ Established \/ Early \/ SendHeader \/ SendBody
  \/ Relay \/ RelayEnds \/ RelayFails

Next == ClientSends \/ UpstreamSends \/ PeerEnds \/ Step \/ Terminated

Spec == Init /\ [][Next]_vars

\* The session's task is polled; the peers may do nothing for ever, not even take
\* what is written to them: no step that writes to a peer need ever be done.
FairSpec == Spec /\ WF_vars(Step /\ UNCHANGED out)

-----------------------------------------------------------------------------
(* Properties                                                              *)

Token ==
  {Line(v) : v \in Lines} \cup {End(r) : r \in Requests}
    \cup {<<kind, i>> : kind \in Laters, i \in 0..(HeaderMax + 2 + MaxData)}
    \cup {Rewritten(r) : r \in Requests} \cup {Reply(r) : r \in Answers \cup {"200"}}

TypeOK ==
  /\ PipeTypeOK(Token)
  /\ pc \in Answers \cup {"request", "route", "connect", "established", "early",
                          "header", "body", "relay", "closed"}
  /\ bypass \in BOOLEAN /\ enabled \in BOOLEAN
  /\ read \in Seq(Token)
  /\ counted \in [auth : 0..1, connect : 0..1, relay : 0..1, up : Nat, down : Nat]

\* An upstream is only contacted for a peer in bypass_ips or with the proxy's
\* credentials (those of the stats page alone do not do), and never for a request
\* that has already been through this listener; and a forwarded one says so, so
\* that its next visit is the last.
UpstreamIsEarned ==
  /\ src["down"] # "none" => (bypass \/ ForProxy) /\ ~Req.ownVia
  /\ \A t \in ToSet(out["up"]) : IsRewritten(t) => t[2].ownVia /\ t[2].auth # "proxyAuthorization"

\* No token is lost, duplicated or reordered between the header and the relay:
\* the header, what the upstream got (body_start until it did) and what is on
\* its way are the client's tokens in order, wherever the chunks end; likewise
\* back.  Only a reset loses the end of a stream.
Own(t)       == IsReply(t) \/ IsRewritten(t)   \* the proxy's own words
Delivered(d) == IF out[d] # <<>> /\ Own(Head(out[d])) THEN Tail(out[d]) ELSE out[d]
StreamsAreIntact ==
  /\ Intact("down", Delivered("down"))
  /\ Intact("up", IF Delivered("up") = <<>> THEN read
                  ELSE SubSeq(read, 1, HeaderEnd) \o Delivered("up"))

\* The client gets at most one answer of the proxy, and gets it first; it is told
\* that a tunnel stands only once the upstream connection does, and is otherwise
\* told to authenticate exactly if the failure was counted.  A forwarded request
\* is only ever answered by the upstream, which sees the rewritten header first
\* and, in a tunnel, nothing of the proxy's.
Told(r) == Reply(r) \in ToSet(out["down"])
AnswersAreTruthful ==
  /\ \A i \in DOMAIN out["down"] : IsReply(out["down"][i]) => i = 1
  /\ Told("200") => src["down"] # "none" /\ Req.form = "connect"
  /\ Told("401") \/ Told("407") => ~bypass /\ (enabled => counted.auth = 1)
  /\ counted.auth = 1 => src["down"] = "none" /\ ~Told("page")
  /\ \A i \in DOMAIN out["up"] :
       IsRewritten(out["up"][i]) <=> i = 1 /\ Req.form # "connect"

\* A relay that ends without an error has moved all that either side sent, and
\* has counted each token once, whether it went ahead of the relay or through it.
\* What is counted has been moved, also by a session that is cut off.
CleanEndIsComplete ==
  /\ pc = "closed" /\ CopyDone =>
       /\ Delivered("up") = Behind(HeaderEnd, log["up"])
       /\ Delivered("down") = log["down"]
       /\ enabled => counted = [Zero EXCEPT !.up = Len(out["up"]), !.down = Len(log["down"])]
  /\ counted.up <= Len(out["up"]) /\ counted.down <= Len(Delivered("down"))

\* A client that stops anywhere in its header, or drips it line by line, does not
\* keep the session, nor does a client or an upstream that stops reading before
\* the relay: it gets to a relay or ends.
RequestEnds == <>(pc \in {"relay", "closed"})

\* http.rs, handle_forward: "Drop hop-by-hop and proxy-only headers. Always
\* replace the Host header with the target derived from the request URL".
RequestsAreRewritten ==
  src["down"] # "none" /\ Req.form # "connect" =>
    \A t \in ToSet(out["up"]) : t[1] # "request"

=============================================================================
