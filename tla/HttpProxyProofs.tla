-------------------------- MODULE HttpProxyProofs --------------------------
(***************************************************************************)
(* For any limits of header and chunk and however the request arrives: no  *)
(* upstream is reached without the proxy's credentials or twice by one     *)
(* request, the client is told nothing that is not so, and both streams    *)
(* arrive in order and, at a clean end, complete.                          *)
(***************************************************************************)
EXTENDS HttpProxy, TcpRelayProofs

Sent  == {Line(v) : v \in Lines} \cup {End(r) : r \in Requests}
           \cup {<<kind, i>> : kind \in Laters, i \in 0..(HeaderMax + 2 + MaxData)}
Added == {Rewritten(r) : r \in Requests} \cup {Reply(a) : a \in Answers \cup {"200"}}

Places == Answers \cup {"request", "route", "connect", "established", "early",
                        "header", "body", "relay", "closed"}

\* Once the upstream is connected.
Connected == {"established", "early", "header", "body", "relay"}

Counters == /\ counted.auth \in Nat
            /\ counted = [auth |-> counted.auth, connect |-> counted.connect,
                          relay |-> counted.relay, up |-> counted.up, down |-> counted.down]

Shape ==
  /\ Carries(Sent, Added)
  /\ pc \in Places
  /\ bypass \in BOOLEAN /\ enabled \in BOOLEAN
  /\ read \in Seq(Sent)
  /\ Counters

Earned == Complete /\ (bypass \/ ForProxy) /\ ~Req.ownVia

Routing ==
  /\ pc = "route" => Complete
  /\ pc = "connect" => Earned
  /\ src["down"] # "none" => Earned /\ pc \in Connected \cup {"closed"}
  /\ pc \in Connected => src["down"] # "none"
  /\ pc \in {"established", "early"} => Req.form = "connect"
  /\ pc \in {"header", "body"} => Req.form # "connect"

\* The upstream gets the rewritten header, and gets it first.
UpOut ==
  /\ pc \notin {"body", "relay", "closed"} => out["up"] = <<>>
  /\ pc \in {"body", "relay"} /\ Req.form # "connect" => out["up"] # <<>>
  /\ \A i \in DOMAIN out["up"] : IsRewritten(out["up"][i]) <=> i = 1 /\ Req.form # "connect"
  /\ \A i \in DOMAIN out["up"] : IsRewritten(out["up"][i]) =>
       out["up"][i][2].ownVia /\ out["up"][i][2].auth # "proxyAuthorization"

ToldBack(r) == \E i \in DOMAIN out["down"] : out["down"][i] = Reply(r)

DownOut ==
  /\ pc \notin {"early", "relay", "closed"} => out["down"] = <<>>
  /\ \A i \in DOMAIN out["down"] : IsReply(out["down"][i]) => i = 1
  /\ ToldBack("200") => src["down"] # "none" /\ Req.form = "connect"
  /\ ToldBack("401") \/ ToldBack("407") => ~bypass /\ (enabled => counted.auth = 1)
  /\ ToldBack("page") => counted.auth = 0

Counting ==
  /\ pc \in {"401", "407"} => ~bypass /\ (enabled => counted.auth = 1)
  /\ pc \notin {"401", "407", "closed"} => counted.auth = 0
  /\ src["down"] # "none" => counted.auth = 0

\* The header proper: body_start is what has been read behind it.
Header == SubSeq(read, 1, HeaderEnd)

IInv == Shape /\ Routing /\ UpOut /\ DownOut /\ Counting

\* How much the peers send.
Sending ==
  /\ \A i \in DOMAIN log["up"] : IsEnd(log["up"][i]) => i <= HeaderMax + 2
  /\ ~HeaderSent => Len(log["up"]) <= HeaderMax + 1
  /\ Len(log["up"]) <= HeaderMax + 2 + MaxData /\ Len(log["down"]) <= MaxData

-----------------------------------------------------------------------------
(* Tokens and the request.                                                 *)

LEMMA Tokens ==
  /\ \A v \in Lines : Line(v) \in Sent
  /\ \A r \in Requests : End(r) \in Sent
  /\ \A kind \in Laters, i \in 0..(HeaderMax + 2 + MaxData) : <<kind, i>> \in Sent
  /\ \A t \in Sent : ~IsRewritten(t) /\ ~IsReply(t)
  /\ \A t \in Sent : IsEnd(t) => t[2] \in Requests
<1>1. \A t \in Sent : t[1] \in {"line", "end"} \cup Laters
  BY DEF Sent, Line, End
<1>2. \A t \in Sent : t[1] = "end" => t[2] \in Requests
  BY DEF Sent, Line, End, Laters
<1> QED
  BY <1>1, <1>2 DEF Sent, IsRewritten, IsReply, IsEnd, Laters

LEMMA Replies ==
  /\ \A r : IsReply(Reply(r)) /\ ~IsRewritten(Reply(r))
  /\ \A r, s : Reply(r) = Reply(s) => r = s
BY DEF Reply, IsReply, IsRewritten

LEMMA RequestIsFound ==
  ASSUME Complete, read \in Seq(Sent)
  PROVE  Req \in Requests
<1>1. HeaderEnd \in DOMAIN read /\ IsEnd(read[HeaderEnd])
  BY DEF Complete, HeaderEnd, EndOf
<1>2. read[HeaderEnd] \in Sent
  BY <1>1, LenProperties, ElementOfSeq
<1> QED
  BY <1>1, <1>2, Tokens DEF Req

LEMMA RewrittenIs ==
  ASSUME NEW r \in Requests
  PROVE  /\ IsRewritten(Rewritten(r)) /\ Rewritten(r) \in Added
         /\ Rewritten(r)[2].ownVia /\ Rewritten(r)[2].auth # "proxyAuthorization"
BY DEF Rewritten, IsRewritten, Requests, Added

\* The request is the same as long as nothing more is read.
LEMMA ReadKept ==
  ASSUME UNCHANGED <<read, bypass>>
  PROVE  /\ Req' = Req /\ (Complete' <=> Complete) /\ (Earned' <=> Earned)
         /\ BodyStart' = BodyStart /\ Header' = Header
BY Zenon DEF Earned, ForProxy, Req, HeaderEnd, EndOf, Complete, BodyStart, Header

\* The header and body_start are what has been read.
LEMMA BodyIsSent ==
  ASSUME Complete, read \in Seq(Sent)
  PROVE  /\ BodyStart \in Seq(Sent) /\ Header \in Seq(Sent) /\ Header \o BodyStart = read
         /\ Len(Header) = HeaderEnd
<1> DEFINE h == HeaderEnd
<1>1. h \in DOMAIN read
  BY DEF Complete, HeaderEnd, EndOf
<1>2. h \in 1..Len(read)
  BY <1>1, LenProperties
<1> HIDE DEF h
<1>3. /\ Behind(h, read) \in Seq(Sent) /\ SubSeq(read, 1, h) \o Behind(h, read) = read
      /\ SubSeq(read, 1, h) \in Seq(Sent) /\ Len(SubSeq(read, 1, h)) = h
  BY <1>2, Cut
<1> QED
  BY <1>3 DEF BodyStart, Header, h

-----------------------------------------------------------------------------
(* What goes out.                                                          *)

\* What a sequence holds after more was written to it.
LEMMA Joined ==
  ASSUME NEW S, NEW s \in Seq(S), NEW t \in Seq(S)
  PROVE  /\ \A i \in DOMAIN (s \o t) :
              \/ i \in DOMAIN s /\ (s \o t)[i] = s[i]
              \/ i > Len(s) /\ \E j \in DOMAIN t : i = Len(s) + j /\ (s \o t)[i] = t[j]
         /\ \A i \in DOMAIN s : i \in DOMAIN (s \o t) /\ (s \o t)[i] = s[i]
         /\ \A j \in DOMAIN t : Len(s) + j \in DOMAIN (s \o t) /\ (s \o t)[Len(s) + j] = t[j]
<1>1. /\ Len(s) \in Nat /\ Len(t) \in Nat
      /\ DOMAIN s = 1..Len(s) /\ DOMAIN t = 1..Len(t)
  BY LenProperties
<1>2. /\ s \o t \in Seq(S) /\ Len(s \o t) = Len(s) + Len(t)
      /\ \A i \in 1..(Len(s) + Len(t)) : (s \o t)[i] = IF i <= Len(s) THEN s[i] ELSE t[i - Len(s)]
  BY ConcatProperties
<1>3. DOMAIN (s \o t) = 1..(Len(s) + Len(t))
  BY <1>2, LenProperties
<1> DEFINE st == s \o t
<1> HIDE DEF st
<1>4. /\ DOMAIN st = 1..(Len(s) + Len(t))
      /\ \A i \in 1..(Len(s) + Len(t)) : st[i] = IF i <= Len(s) THEN s[i] ELSE t[i - Len(s)]
  BY <1>2, <1>3 DEF st
<1>5. \A i \in DOMAIN st : \/ i \in DOMAIN s /\ st[i] = s[i]
                           \/ i > Len(s) /\ \E j \in DOMAIN t : i = Len(s) + j /\ st[i] = t[j]
  <2> SUFFICES ASSUME NEW i \in DOMAIN st
               PROVE  \/ i \in DOMAIN s /\ st[i] = s[i]
                      \/ i > Len(s) /\ \E j \in DOMAIN t : i = Len(s) + j /\ st[i] = t[j]
    OBVIOUS
  <2>1. CASE i <= Len(s)
    BY <1>1, <1>4, <2>1
  <2>2. CASE ~(i <= Len(s))
    <3>1. i - Len(s) \in DOMAIN t /\ i = Len(s) + (i - Len(s)) /\ st[i] = t[i - Len(s)] /\ i > Len(s)
      BY <1>1, <1>4, <2>2
    <3> QED
      BY <3>1
  <2> QED
    BY <2>1, <2>2
<1>6. \A i \in DOMAIN s : i \in DOMAIN st /\ st[i] = s[i]
  BY <1>1, <1>4
<1>7. \A j \in DOMAIN t : Len(s) + j \in DOMAIN st /\ st[Len(s) + j] = t[j]
  BY <1>1, <1>4
<1> QED
  BY <1>5, <1>6, <1>7 DEF st

LEMMA OneMore ==
  ASSUME NEW S, NEW s \in Seq(S), NEW e \in S
  PROVE  /\ \A i \in DOMAIN Append(s, e) :
              \/ i \in DOMAIN s /\ Append(s, e)[i] = s[i]
              \/ i = Len(s) + 1 /\ Append(s, e)[i] = e
         /\ \A i \in DOMAIN s : i \in DOMAIN Append(s, e) /\ Append(s, e)[i] = s[i]
         /\ Append(s, e) # <<>>
         /\ Len(s) \in Nat /\ (s # <<>> => Len(s) > 0)
<1>1. Len(s) \in Nat /\ DOMAIN s = 1..Len(s) /\ (s # <<>> => Len(s) # 0)
  BY LenProperties, EmptySeq
<1> DEFINE r == Append(s, e)
<1>2. /\ r \in Seq(S) /\ Len(r) = Len(s) + 1
      /\ \A i \in 1..Len(s) : r[i] = s[i]
      /\ r[Len(s) + 1] = e
  BY AppendProperties
<1>3. DOMAIN r = 1..(Len(s) + 1) /\ r # <<>>
  BY <1>1, <1>2, LenProperties, EmptySeq
<1> HIDE DEF r
<1>4. /\ \A i \in DOMAIN r : \/ i \in DOMAIN s /\ r[i] = s[i]
                             \/ i = Len(s) + 1 /\ r[i] = e
      /\ \A i \in DOMAIN s : i \in DOMAIN r /\ r[i] = s[i]
  BY <1>1, <1>2, <1>3
<1> QED
  BY <1>1, <1>3, <1>4 DEF r

\* The output as a step leaves it that writes nothing.
LEMMA NothingOut ==
  ASSUME IInv, UNCHANGED <<read, bypass>>, out' = out
  PROVE  /\ \A i \in DOMAIN out'["up"] :
              /\ IsRewritten(out'["up"][i]) <=> i = 1 /\ Req'.form # "connect"
              /\ IsRewritten(out'["up"][i]) =>
                   out'["up"][i][2].ownVia /\ out'["up"][i][2].auth # "proxyAuthorization"
         /\ \A i \in DOMAIN out'["down"] : IsReply(out'["down"][i]) => i = 1
         /\ \A r : ToldBack(r)' <=> ToldBack(r)
BY ReadKept DEF IInv, UpOut, DownOut, ToldBack

LEMMA NothingTold ==
  ASSUME NEW r, out["down"] = <<>>
  PROVE  ~ToldBack(r)
BY EmptySeq DEF ToldBack

-----------------------------------------------------------------------------
(* The steps.                                                              *)

\* What the client sends next.
LEMMA ClientToken ==
  ASSUME Shape, Sending, ClientSends
  PROVE  \E token \in Sent :
           /\ SendToken("up", token)
           /\ \/ ~HeaderSent /\ IsEnd(token)
              \/ ~HeaderSent /\ ~IsEnd(token) /\ Len(log["up"]) <= HeaderMax
              \/ HeaderSent /\ ~IsEnd(token) /\ Len(log["up"]) < HeaderMax + 2 + MaxData
<1> DEFINE n == Len(log["up"])
<1>1. n \in Nat /\ HeaderMax \in Nat /\ MaxData \in Nat
  BY LenProperties, HttpAssumption DEF Shape, Carries, Dirs
<1>2. CASE ~HeaderSent
  <2>1. \/ n <= HeaderMax /\ \E v \in Lines : SendToken("up", Line(v))
        \/ \E r \in Requests : SendToken("up", End(r))
    BY <1>2, Zenon DEF ClientSends
  <2>2. /\ \A v \in Lines : Line(v) \in Sent /\ ~IsEnd(Line(v))
        /\ \A r \in Requests : End(r) \in Sent /\ IsEnd(End(r))
    BY Tokens DEF Line, End, IsEnd
  <2> QED
    BY <1>2, <2>1, <2>2
<1>3. CASE HeaderSent
  <2>1. n < EndOf(log["up"]) + MaxData /\ \E kind \in Laters : SendToken("up", <<kind, n>>)
    BY <1>3, Zenon DEF ClientSends
  <2>2. EndOf(log["up"]) \in DOMAIN log["up"] /\ IsEnd(log["up"][EndOf(log["up"])])
    BY <1>3, Zenon DEF HeaderSent, EndOf
  <2>3. EndOf(log["up"]) <= HeaderMax + 2 /\ EndOf(log["up"]) \in Nat
    BY <2>2, LenProperties DEF Sending, Shape, Carries, Dirs
  <2>4. n < HeaderMax + 2 + MaxData
    BY <1>1, <2>1, <2>3
  <2>5. \A kind \in Laters : <<kind, n>> \in Sent /\ ~IsEnd(<<kind, n>>)
    <3>1. n \in 0..(HeaderMax + 2 + MaxData)
      BY <1>1, <2>4
    <3> QED
      BY <3>1, Tokens DEF IsEnd, Laters
  <2> QED
    BY <1>3, <2>1, <2>4, <2>5
<1> QED
  BY <1>2, <1>3

LEMMA UpstreamToken ==
  ASSUME Shape, Sending, UpstreamSends
  PROVE  \E token \in Sent : SendToken("down", token) /\ Len(log["down"]) < MaxData
<1>1. Len(log["down"]) \in Nat /\ HeaderMax \in Nat /\ MaxData \in Nat
  BY LenProperties, HttpAssumption DEF Shape, Carries, Dirs
<1>2. SendToken("down", <<"data", Len(log["down"])>>) /\ Len(log["down"]) < MaxData
  BY DEF UpstreamSends
<1>3. Len(log["down"]) \in 0..(HeaderMax + 2 + MaxData)
  BY <1>1, <1>2
<1> QED
  BY <1>2, <1>3, Tokens DEF Laters

\* Whatever else happens, what has been sent stays sent.
LEMMA SendingStep ==
  ASSUME Shape, Sending, [Next]_vars
  PROVE  Sending'
<1>1. /\ log["up"] \in Seq(Sent) /\ log["down"] \in Seq(Sent) /\ log \in [Dirs -> Seq(Sent)]
      /\ HeaderMax \in Nat /\ MaxData \in Nat
  BY HttpAssumption DEF Shape, Carries, Dirs
<1>2. CASE UNCHANGED log
  BY <1>2 DEF Sending, HeaderSent
<1>3. CASE ClientSends
  <2>1. PICK token \in Sent :
           /\ SendToken("up", token)
           /\ \/ ~HeaderSent /\ IsEnd(token)
              \/ ~HeaderSent /\ ~IsEnd(token) /\ Len(log["up"]) <= HeaderMax
              \/ HeaderSent /\ ~IsEnd(token) /\ Len(log["up"]) < HeaderMax + 2 + MaxData
    BY <1>3, ClientToken
  <2> DEFINE l == log["up"]
             k == Append(l, token)
  <2>2. log'["up"] = k /\ log'["down"] = log["down"]
    BY <1>1, <2>1 DEF SendToken, Dirs
  <2>3. /\ Len(l) \in Nat /\ DOMAIN l = 1..Len(l)
        /\ Len(k) = Len(l) + 1 /\ DOMAIN k = 1..Len(l) + 1
        /\ \A i \in 1..Len(l) : k[i] = l[i]
        /\ k[Len(l) + 1] = token
    <3> HIDE DEF l
    <3>1. l \in Seq(Sent)
      BY <1>1 DEF l
    <3> QED
      BY <3>1, AppendProperties, LenProperties
  <2>4. /\ \A i \in DOMAIN l : IsEnd(l[i]) => i <= HeaderMax + 2
        /\ ~HeaderSent => Len(l) <= HeaderMax + 1 /\ \A i \in DOMAIN l : ~IsEnd(l[i])
        /\ Len(l) <= HeaderMax + 2 + MaxData /\ Len(log["down"]) <= MaxData
        /\ HeaderSent => \E i \in DOMAIN l : IsEnd(l[i])
    BY DEF Sending, HeaderSent
  <2>5. \/ ~HeaderSent /\ IsEnd(token)
        \/ ~HeaderSent /\ ~IsEnd(token) /\ Len(l) <= HeaderMax
        \/ HeaderSent /\ ~IsEnd(token) /\ Len(l) < HeaderMax + 2 + MaxData
    BY <2>1
  <2> HIDE DEF l, k
  <2>6. /\ \A i \in DOMAIN k : IsEnd(k[i]) => i <= HeaderMax + 2
        /\ (\A i \in DOMAIN k : ~IsEnd(k[i])) => Len(k) <= HeaderMax + 1
        /\ Len(k) <= HeaderMax + 2 + MaxData
    BY <1>1, <2>3, <2>4, <2>5
  <2> QED
    BY <2>2, <2>4, <2>6 DEF Sending, HeaderSent
<1>4. CASE UpstreamSends
  <2>1. PICK token \in Sent : SendToken("down", token) /\ Len(log["down"]) < MaxData
    BY <1>4, UpstreamToken
  <2>2. log'["up"] = log["up"] /\ log'["down"] = Append(log["down"], token)
    BY <1>1, <2>1 DEF SendToken, Dirs
  <2>3. Len(log'["down"]) <= MaxData
    BY <1>1, <2>1, <2>2, AppendProperties, LenProperties
  <2> QED
    BY <2>2, <2>3 DEF Sending, HeaderSent
<1>5. Next /\ ~ClientSends /\ ~UpstreamSends => UNCHANGED log
  <2>1. PeerEnds \/ Relay => UNCHANGED log
    BY DEF PeerEnds, FinishSending, Break, Relay, CopyStep, CopyRead, CopyWrite, CopyEof
  <2>2. ASSUME NEW n, ReadRequest(n)
        PROVE  UNCHANGED log
    BY <2>2, Zenon DEF ReadRequest, Take
  <2>3. Answer \/ Connect \/ Established \/ Early \/ SendHeader \/ SendBody => UNCHANGED log
    BY Zenon DEF Answer, Connect, ConnectUpstream, Established, Early, SendHeader, SendBody, WriteTo
  <2>4. ReadFails \/ Route \/ WriteFails \/ ConnectFails \/ RelayEnds \/ RelayFails \/ Terminated
          => UNCHANGED pipe
    BY Zenon DEF ReadFails, Route, WriteFails, ConnectFails, RelayEnds, RelayFails, Terminated, vars
  <2> QED
    BY <2>1, <2>2, <2>3, <2>4 DEF Next, Step, pipe
<1> QED
  BY <1>2, <1>3, <1>4, <1>5 DEF vars, pipe

LEMMA PeerStep ==
  ASSUME IInv, Sending, ClientSends \/ UpstreamSends \/ PeerEnds
  PROVE  IInv'
<1> USE DEF IInv
<1>1. Carries(Sent, Added)' /\ out' = out
  <2>1. CASE ClientSends
    <3>1. PICK token \in Sent : SendToken("up", token)
      BY <2>1, ClientToken
    <3> QED
      BY <3>1, SendCarries DEF Shape, SendToken, Dirs
  <2>2. CASE UpstreamSends
    <3>1. PICK token \in Sent : SendToken("down", token)
      BY <2>2, UpstreamToken
    <3> QED
      BY <3>1, SendCarries DEF Shape, SendToken, Dirs
  <2>3. CASE PeerEnds
    BY <2>3, EndCarries DEF Shape, PeerEnds, FinishSending, Break
  <2> QED
    BY <2>1, <2>2, <2>3
<1>2. UNCHANGED <<pc, bypass, enabled, read, counted>>
  BY Zenon DEF ClientSends, UpstreamSends, PeerEnds, config
<1>3. src["down"] = "none" <=> src'["down"] = "none"
  <2>1. CASE ClientSends \/ UpstreamSends
    <3>1. src' = src
      BY <2>1, Zenon DEF ClientSends, UpstreamSends, SendToken
    <3> QED
      BY <3>1
  <2>2. ASSUME NEW d \in Dirs, FinishSending(d) \/ Break(d)
        PROVE  src["down"] = "none" <=> src'["down"] = "none"
    <3>1. /\ src \in [Dirs -> {"none", "open", "fin", "broken"}]
          /\ src[d] # "none" /\ (src' = [src EXCEPT ![d] = "fin"] \/ src' = [src EXCEPT ![d] = "broken"])
      BY <2>2 DEF FinishSending, Break, Shape, Carries
    <3> QED
      BY <2>2, <3>1 DEF Dirs
  <2> QED
    BY <2>1, <2>2 DEF PeerEnds
<1>4. Shape'
  BY <1>1, <1>2 DEF Shape, Counters
<1>5. Routing'
  BY <1>2, <1>3, ReadKept DEF Routing
<1>6. UpOut' /\ DownOut'
  BY <1>1, <1>2, <1>3, NothingOut, ReadKept DEF UpOut, DownOut
<1>7. Counting'
  BY <1>2, <1>3 DEF Counting
<1> QED
  BY <1>4, <1>5, <1>6, <1>7

\* The end of a session that says nothing more.
LEMMA Closes ==
  ASSUME IInv, pc' = "closed", UNCHANGED <<pipe, bypass, enabled, read>>,
         Counters', counted'.auth = counted.auth
  PROVE  IInv'
<1> USE DEF IInv
<1>1. Carries(Sent, Added)' /\ src' = src /\ out' = out
  BY QuietCarries DEF Shape
<1>2. Shape'
  BY <1>1 DEF Shape, Places
<1>3. Routing'
  BY <1>1, ReadKept DEF Routing, Connected
<1>4. UpOut' /\ DownOut'
  BY <1>1, NothingOut, ReadKept DEF UpOut, DownOut
<1>5. Counting'
  BY <1>1 DEF Counting
<1> QED
  BY <1>2, <1>3, <1>4, <1>5

\* No step before or after the routing adds to auth_failures.
LEMMA CountKeeps ==
  ASSUME IInv, \/ ReadFails \/ WriteFails \/ ConnectFails \/ RelayEnds \/ RelayFails
               \/ Connect \/ Established \/ Early \/ SendHeader \/ SendBody \/ Relay \/ Answer
  PROVE  Counters' /\ counted'.auth = counted.auth
<1> USE DEF IInv, Shape, Counters, Count
<1>1. CASE ReadFails \/ WriteFails \/ Connect \/ Established \/ Relay \/ Answer
  <2>1. UNCHANGED counted
    BY <1>1, Zenon DEF ReadFails, WriteFails, Connect, Established, Relay, Answer
  <2> QED
    BY <2>1
<1>2. CASE ConnectFails \/ RelayFails
  BY <1>2 DEF ConnectFails, RelayFails
<1>3. CASE Early \/ SendHeader \/ SendBody \/ RelayEnds
  <2>1. UNCHANGED counted \/ \E up, down : counted' = [counted EXCEPT !.up = up, !.down = down]
    <3>1. UNCHANGED counted \/ (\E up : counted' = [counted EXCEPT !.up = up])
            \/ (\E up, down : counted' = [counted EXCEPT !.up = up, !.down = down])
      BY <1>3, Zenon DEF Early, SendHeader, SendBody, RelayEnds
    <3>2. ASSUME NEW up, counted' = [counted EXCEPT !.up = up]
          PROVE  counted' = [counted EXCEPT !.up = up, !.down = counted.down]
      BY <3>2
    <3> QED
      BY <3>1, <3>2
  <2> QED
    BY <2>1
<1> QED
  BY <1>1, <1>2, <1>3

LEMMA EndStep ==
  ASSUME IInv, ReadFails \/ WriteFails \/ ConnectFails \/ RelayEnds \/ RelayFails
  PROVE  IInv'
<1>1. pc' = "closed" /\ UNCHANGED <<pipe, bypass, enabled, read>>
  BY Zenon DEF ReadFails, WriteFails, ConnectFails, RelayEnds, RelayFails, Goto, config
<1> QED
  BY <1>1, CountKeeps, Closes

\* A chunk of the header, wherever it ends.
LEMMA ReadStep ==
  ASSUME IInv, NEW n \in 1..ChunkMax, ReadRequest(n)
  PROVE  IInv'
<1> USE DEF IInv
<1> DEFINE chunk == SubSeq(wire["up"], 1, n)
<1>1. /\ Carries(Sent, Added)' /\ chunk \in Seq(Sent) /\ src' = src /\ out' = out
  BY TakeCarries DEF Shape, ReadRequest, Take
<1>2. /\ pc = "request" /\ read' = read \o chunk
      /\ UNCHANGED <<bypass, enabled, counted>>
      /\ pc' \in {"closed", "route", "request"} /\ (pc' = "route" => Complete')
  BY Zenon DEF ReadRequest, config
<1>3. read' \in Seq(Sent)
  BY <1>1, <1>2, ConcatProperties DEF Shape
<1>4. src["down"] = "none" /\ out["up"] = <<>> /\ out["down"] = <<>> /\ counted.auth = 0
  BY <1>2 DEF Routing, Connected, UpOut, DownOut, Counting
<1>5. Shape'
  BY <1>1, <1>2, <1>3 DEF Shape, Places, Counters
<1>6. Routing'
  BY <1>1, <1>2, <1>4 DEF Routing, Connected
<1>7. UpOut' /\ DownOut'
  <2>1. DOMAIN <<>> = {}
    BY EmptySeq
  <2> QED
    BY <1>1, <1>2, <1>4, <2>1 DEF UpOut, DownOut, ToldBack
<1>8. Counting'
  BY <1>1, <1>2, <1>4 DEF Counting
<1> QED
  BY <1>5, <1>6, <1>7, <1>8

\* The order of the checks decides what the request has earned.
LEMMA RouteStep ==
  ASSUME IInv, Route
  PROVE  IInv'
<1> USE DEF IInv
<1>1. /\ pc = "route" /\ pc' = Verdict /\ UNCHANGED <<pipe, bypass, enabled, read>>
      /\ Count(IF pc' \in {"401", "407"} THEN [counted EXCEPT !.auth = @ + 1] ELSE counted)
  BY DEF Route, Goto, config
<1>2. Carries(Sent, Added)' /\ src' = src /\ out' = out
  BY <1>1, QuietCarries DEF Shape
<1>3. /\ Complete /\ src["down"] = "none" /\ out["up"] = <<>> /\ out["down"] = <<>>
      /\ counted.auth = 0
  BY <1>1 DEF Routing, Connected, UpOut, DownOut, Counting
<1>4. /\ pc' \in {"508", "page", "401", "407", "closed", "connect"}
      /\ pc' = "connect" => Earned
      /\ pc' \in {"401", "407"} => ~bypass
  BY <1>1, <1>3 DEF Verdict, Earned
<1>5. /\ Counters'
      /\ pc' \in {"401", "407"} /\ enabled => counted'.auth = 1
      /\ pc' \notin {"401", "407"} => counted'.auth = 0
  <2>1. CASE enabled /\ pc' \in {"401", "407"}
    BY <1>1, <1>3, <2>1 DEF Count, Shape, Counters
  <2>2. CASE ~(enabled /\ pc' \in {"401", "407"})
    <3>1. UNCHANGED counted
      BY <1>1, <2>2 DEF Count
    <3> QED
      BY <1>3, <2>2, <3>1 DEF Shape, Counters
  <2> QED
    BY <2>1, <2>2
<1>6. Shape'
  BY <1>1, <1>2, <1>4, <1>5 DEF Shape, Places, Answers
<1>7. Routing'
  BY <1>1, <1>2, <1>3, <1>4, ReadKept DEF Routing, Connected
<1>8. UpOut' /\ DownOut'
  <2>1. DOMAIN <<>> = {}
    BY EmptySeq
  <2> QED
    BY <1>2, <1>3, <1>4, <2>1 DEF UpOut, DownOut, ToldBack
<1>9. Counting'
  BY <1>1, <1>2, <1>3, <1>4, <1>5 DEF Counting
<1> QED
  BY <1>6, <1>7, <1>8, <1>9

\* What the client gets is empty, and one reply is written.
LEMMA FirstReply ==
  ASSUME Shape, out["down"] = <<>>, NEW r \in Answers \cup {"200"},
         WriteTo("down", <<Reply(r)>>)
  PROVE  /\ Carries(Sent, Added)' /\ src' = src /\ out'["up"] = out["up"]
         /\ out'["down"] = <<Reply(r)>>
         /\ \A i \in DOMAIN out'["down"] : i = 1
         /\ \A s : ToldBack(s)' <=> s = r
<1>1. <<Reply(r)>> \in Seq(Sent \cup Added)
  BY DEF Added
<1>2. Carries(Sent, Added)' /\ out'["down"] = <<>> \o <<Reply(r)>>
  BY <1>1, WriteCarries DEF Shape, Dirs
<1>3. <<>> \o <<Reply(r)>> = <<Reply(r)>>
  BY <1>1, ConcatEmptySeq
<1>4. out'["down"] = <<Reply(r)>> /\ DOMAIN out'["down"] = {1} /\ out'["down"][1] = Reply(r)
  BY <1>2, <1>3
<1>5. src' = src /\ out'["up"] = out["up"]
  BY DEF WriteTo, Shape, Carries, Dirs
<1> QED
  BY <1>2, <1>4, <1>5, Replies DEF ToldBack

LEMMA AnswerStep ==
  ASSUME IInv, Answer
  PROVE  IInv'
<1> USE DEF IInv
<1>1. /\ pc \in Answers /\ pc' = "closed" /\ WriteTo("down", <<Reply(pc)>>)
      /\ UNCHANGED <<bypass, enabled, read, counted>>
  BY DEF Answer, config
<1>2. /\ src["down"] = "none" /\ out["up"] = <<>> /\ out["down"] = <<>>
  BY <1>1 DEF Answers, Routing, Connected, UpOut, DownOut
<1>3. /\ Carries(Sent, Added)' /\ src' = src /\ out'["up"] = out["up"]
      /\ \A i \in DOMAIN out'["down"] : i = 1
      /\ \A s : ToldBack(s)' <=> s = pc
  BY <1>1, <1>2, FirstReply
<1>4. Shape'
  BY <1>1, <1>3 DEF Shape, Places, Counters
<1>5. Routing'
  BY <1>1, <1>2, <1>3 DEF Routing, Connected
<1>6. UpOut'
  <2>1. DOMAIN <<>> = {}
    BY EmptySeq
  <2> QED
    BY <1>1, <1>2, <1>3, <2>1 DEF UpOut
<1>7. DownOut'
  BY <1>1, <1>3 DEF DownOut, Counting, Answers
<1>8. Counting'
  BY <1>1, <1>2, <1>3 DEF Counting
<1> QED
  BY <1>4, <1>5, <1>6, <1>7, <1>8

-----------------------------------------------------------------------------
(* The steps with an upstream.                                             *)

LEMMA ConnectStep ==
  ASSUME IInv, Connect
  PROVE  IInv'
<1> USE DEF IInv
<1>1. /\ pc = "connect" /\ pc' = (IF Req.form = "connect" THEN "established" ELSE "header")
      /\ UNCHANGED <<bypass, enabled, read, counted>> /\ ConnectUpstream /\ out' = out
  BY DEF Connect, Goto, config, ConnectUpstream
<1>2. Carries(Sent, Added)' /\ src'["down"] = "open"
  BY <1>1, ConnectCarries DEF Shape
<1>3. Earned /\ out["up"] = <<>> /\ out["down"] = <<>> /\ counted.auth = 0
  BY <1>1 DEF Routing, UpOut, DownOut, Counting
<1>4. Shape'
  BY <1>1, <1>2 DEF Shape, Places, Counters
<1>5. Routing'
  BY <1>1, <1>2, <1>3, ReadKept DEF Routing, Connected
<1>6. UpOut' /\ DownOut'
  <2>1. DOMAIN <<>> = {}
    BY EmptySeq
  <2> QED
    BY <1>1, <1>3, <2>1 DEF UpOut, DownOut, ToldBack
<1>7. Counting'
  BY <1>1, <1>2, <1>3 DEF Counting
<1> QED
  BY <1>4, <1>5, <1>6, <1>7

LEMMA EstablishedStep ==
  ASSUME IInv, Established
  PROVE  IInv'
<1> USE DEF IInv
<1>1. /\ pc = "established" /\ pc' \in {"relay", "early"} /\ WriteTo("down", <<Reply("200")>>)
      /\ UNCHANGED <<bypass, enabled, read, counted>>
  BY DEF Established, Goto, config
<1>2. /\ src["down"] # "none" /\ Req.form = "connect" /\ out["up"] = <<>> /\ out["down"] = <<>>
      /\ counted.auth = 0
  BY <1>1 DEF Routing, Connected, UpOut, DownOut, Counting
<1>3. /\ Carries(Sent, Added)' /\ src' = src /\ out'["up"] = out["up"]
      /\ out'["down"] = <<Reply("200")>>
      /\ \A i \in DOMAIN out'["down"] : i = 1
      /\ \A s : ToldBack(s)' <=> s = "200"
  BY <1>1, <1>2, FirstReply
<1>4. Req' = Req /\ (Earned' <=> Earned)
  BY <1>1, ReadKept
<1>5. Shape'
  BY <1>1, <1>3 DEF Shape, Places, Counters
<1>6. Routing'
  BY <1>1, <1>2, <1>3, <1>4 DEF Routing, Connected
<1>7. UpOut'
  <2>1. DOMAIN <<>> = {}
    BY EmptySeq
  <2> QED
    BY <1>1, <1>2, <1>3, <1>4, <2>1 DEF UpOut
<1>8. DownOut'
  BY <1>1, <1>2, <1>3, <1>4 DEF DownOut
<1>9. Counting'
  BY <1>1, <1>2, <1>3 DEF Counting
<1> QED
  BY <1>5, <1>6, <1>7, <1>8, <1>9

\* Writing to the upstream once it is connected: the new tokens are the client's,
\* unless they are the first.
LEMMA UpstreamWrites ==
  ASSUME IInv, pc \in {"early", "header", "body"}, pc' \in {"body", "relay"},
         pc' = "body" => pc = "header",
         NEW tokens \in Seq(Sent \cup Added), WriteTo("up", tokens),
         UNCHANGED <<bypass, enabled, read>>, Counters', counted'.auth = counted.auth,
         UpOut'
  PROVE  IInv'
<1> USE DEF IInv
<1>1. Carries(Sent, Added)' /\ src' = src /\ out'["down"] = out["down"]
  <2>1. Carries(Sent, Added)'
    BY WriteCarries DEF Shape, Dirs
  <2> QED
    BY <2>1 DEF WriteTo, Shape, Carries, Dirs
<1>2. src["down"] # "none" /\ counted.auth = 0
  BY DEF Routing, Connected, Counting
<1>3. Req' = Req /\ (Earned' <=> Earned)
  BY ReadKept
<1>4. Shape'
  BY <1>1 DEF Shape, Places
<1>5. Routing'
  BY <1>1, <1>2, <1>3 DEF Routing, Connected
<1>6. DownOut'
  BY <1>1, <1>2, <1>3 DEF DownOut, ToldBack
<1>7. Counting'
  BY <1>1, <1>2 DEF Counting
<1> QED
  BY <1>4, <1>5, <1>6, <1>7

\* What body_start adds to what the upstream has got.
LEMMA BodyGoesOut ==
  ASSUME IInv, pc \in {"early", "body"}, pc' = "relay", WriteTo("up", BodyStart),
         UNCHANGED <<bypass, enabled, read>>, Counters', counted'.auth = counted.auth
  PROVE  IInv'
<1> USE DEF IInv
<1> DEFINE got == out["up"]
           body == BodyStart
<1>1. Earned /\ Complete /\ Req' = Req
  BY ReadKept DEF Routing, Connected, Earned
<1>2. body \in Seq(Sent) /\ body \in Seq(Sent \cup Added) /\ got \in Seq(Sent \cup Added)
  BY <1>1, BodyIsSent, WiderSeq DEF Shape, Carries, Dirs
<1>3. out'["up"] = got \o body
  <2> HIDE DEF body
  <2> QED
    BY <1>2, WriteCarries DEF Shape, Dirs, body
<1>4. /\ \A i \in DOMAIN (got \o body) :
           \/ i \in DOMAIN got /\ (got \o body)[i] = got[i]
           \/ i > Len(got) /\ \E j \in DOMAIN body : i = Len(got) + j /\ (got \o body)[i] = body[j]
      /\ Len(got) \in Nat /\ (got # <<>> => Len(got) > 0)
  <2> HIDE DEF body, got
  <2>1. Len(got) \in Nat /\ (got # <<>> => Len(got) # 0)
    BY <1>2, LenProperties, EmptySeq
  <2> QED
    BY <1>2, <2>1, Joined
<1>5. \A j \in DOMAIN body : ~IsRewritten(body[j])
  <2> HIDE DEF body
  <2> QED
    BY <1>2, LenProperties, ElementOfSeq, Tokens
<1>6. /\ \A i \in DOMAIN got : IsRewritten(got[i]) <=> i = 1 /\ Req.form # "connect"
      /\ \A i \in DOMAIN got : IsRewritten(got[i]) =>
           got[i][2].ownVia /\ got[i][2].auth # "proxyAuthorization"
      /\ Req.form # "connect" => got # <<>> /\ pc = "body"
  BY DEF UpOut, Routing
<1>7. pc = "body" => 1 \in DOMAIN got
  <2>1. got # <<>> => 1 \in DOMAIN got
    <3>1. DOMAIN got = 1..Len(got)
      BY <1>2, LenProperties
    <3> QED
      BY <1>4, <3>1
  <2> QED
    BY <1>6, <2>1 DEF UpOut, Routing
<1>8. UpOut'
  <2> HIDE DEF got, body
  <2>1. got \o body # <<>> \/ Req.form = "connect"
    <3>1. CASE pc = "body"
      <4>1. 1 \in DOMAIN (got \o body)
        BY <1>2, <1>7, <3>1, Joined
      <4> QED
        BY <4>1, EmptySeq
    <3>2. CASE pc = "early"
      BY <3>2 DEF Routing
    <3> QED
      BY <3>1, <3>2
  <2>2. \A i \in DOMAIN (got \o body) :
          /\ IsRewritten((got \o body)[i]) <=> i = 1 /\ Req.form # "connect"
          /\ IsRewritten((got \o body)[i]) =>
               (got \o body)[i][2].ownVia /\ (got \o body)[i][2].auth # "proxyAuthorization"
    BY <1>4, <1>5, <1>6
  <2> QED
    BY <1>1, <1>3, <2>1, <2>2 DEF UpOut
<1> QED
  BY <1>2, <1>8, UpstreamWrites

LEMMA BodyStep ==
  ASSUME IInv, Early \/ SendBody
  PROVE  IInv'
<1>1. /\ pc \in {"early", "body"} /\ pc' = "relay" /\ WriteTo("up", BodyStart)
      /\ UNCHANGED <<bypass, enabled, read>>
  BY Zenon DEF Early, SendBody, Goto, config
<1> QED
  BY <1>1, CountKeeps, BodyGoesOut

\* The rewritten header names this listener and has lost the proxy's credentials.
LEMMA HeaderStep ==
  ASSUME IInv, SendHeader
  PROVE  IInv'
<1> USE DEF IInv
<1> DEFINE header == Rewritten(Req)
<1>1. /\ pc = "header" /\ pc' \in {"relay", "body"} /\ WriteTo("up", <<header>>)
      /\ UNCHANGED <<bypass, enabled, read>>
  BY DEF SendHeader, config
<1>2. /\ Complete /\ Req.form # "connect" /\ out["up"] = <<>> /\ Req' = Req
  BY <1>1, ReadKept DEF Routing, Connected, Earned, UpOut
<1>3. /\ IsRewritten(header) /\ header \in Added
      /\ header[2].ownVia /\ header[2].auth # "proxyAuthorization"
  BY <1>2, RequestIsFound, RewrittenIs DEF Shape
<1> HIDE DEF header
<1>4. <<header>> \in Seq(Sent \cup Added)
  BY <1>3
<1>5. out'["up"] = <<>> \o <<header>>
  BY <1>1, <1>2, <1>4, WriteCarries DEF Shape, Dirs
<1>6. out'["up"] = <<header>>
  BY <1>4, <1>5, ConcatEmptySeq
<1>7. UpOut'
  <2>1. DOMAIN <<header>> = {1} /\ <<header>>[1] = header /\ <<header>> # <<>>
    OBVIOUS
  <2> QED
    BY <1>1, <1>2, <1>3, <1>6, <2>1 DEF UpOut
<1> QED
  BY <1>1, <1>4, <1>7, CountKeeps, UpstreamWrites

\* The relay adds the peers' tokens behind what was written ahead.
LEMMA RelayStep ==
  ASSUME IInv, Relay
  PROVE  IInv'
<1> USE DEF IInv
<1>1. /\ pc = "relay" /\ pc' = pc /\ CopyStep /\ UNCHANGED <<bypass, enabled, read, counted>>
  BY DEF Relay, config
<1>2. /\ Carries(Sent, Added)' /\ src' = src
      /\ \A d \in Dirs : out'[d] = out[d] \/ \E t \in Sent : out'[d] = Append(out[d], t)
  BY <1>1, CopyCarries DEF Shape
<1>3. Req' = Req /\ (Earned' <=> Earned)
  BY <1>1, ReadKept
<1>4. \A d \in Dirs : out[d] \in Seq(Sent \cup Added)
  BY DEF Shape, Carries
<1>5. UpOut'
  <2>1. CASE out'["up"] = out["up"]
    BY <1>1, <1>3, <2>1 DEF UpOut
  <2>2. ASSUME NEW t \in Sent, out'["up"] = Append(out["up"], t)
        PROVE  UpOut'
    <3> DEFINE got == out["up"]
    <3>1. ~IsRewritten(t) /\ t \in Sent \cup Added /\ got \in Seq(Sent \cup Added)
      BY <1>4, Tokens DEF Dirs
    <3>2. Req.form # "connect" => got # <<>>
      BY <1>1 DEF UpOut
    <3>3. /\ \A i \in DOMAIN got : IsRewritten(got[i]) <=> i = 1 /\ Req.form # "connect"
          /\ \A i \in DOMAIN got : IsRewritten(got[i]) =>
               got[i][2].ownVia /\ got[i][2].auth # "proxyAuthorization"
      BY DEF UpOut
    <3> HIDE DEF got
    <3>4. /\ \A i \in DOMAIN Append(got, t) :
               \/ i \in DOMAIN got /\ Append(got, t)[i] = got[i]
               \/ i = Len(got) + 1 /\ Append(got, t)[i] = t
          /\ Append(got, t) # <<>> /\ Len(got) \in Nat /\ (got # <<>> => Len(got) > 0)
      BY <3>1, OneMore
    <3>5. \A i \in DOMAIN Append(got, t) :
            /\ IsRewritten(Append(got, t)[i]) <=> i = 1 /\ Req.form # "connect"
            /\ IsRewritten(Append(got, t)[i]) =>
                 Append(got, t)[i][2].ownVia /\ Append(got, t)[i][2].auth # "proxyAuthorization"
      BY <3>1, <3>2, <3>3, <3>4
    <3>6. out'["up"] = Append(got, t)
      BY <2>2 DEF got
    <3> QED
      BY <1>1, <1>3, <3>4, <3>5, <3>6 DEF UpOut
  <2> QED
    BY <1>2, <2>1, <2>2 DEF Dirs
<1>6. DownOut'
  <2>1. CASE out'["down"] = out["down"]
    BY <1>1, <1>2, <1>3, <2>1 DEF DownOut, ToldBack
  <2>2. ASSUME NEW t \in Sent, out'["down"] = Append(out["down"], t)
        PROVE  DownOut'
    <3> DEFINE got == out["down"]
    <3>1. ~IsReply(t) /\ t \in Sent \cup Added /\ got \in Seq(Sent \cup Added)
      BY <1>4, Tokens DEF Dirs
    <3>2. \A i \in DOMAIN got : IsReply(got[i]) => i = 1
      BY DEF DownOut
    <3> HIDE DEF got
    <3>3. /\ \A i \in DOMAIN Append(got, t) :
               \/ i \in DOMAIN got /\ Append(got, t)[i] = got[i]
               \/ i = Len(got) + 1 /\ Append(got, t)[i] = t
          /\ \A i \in DOMAIN got : i \in DOMAIN Append(got, t) /\ Append(got, t)[i] = got[i]
      BY <3>1, OneMore
    <3>4. \A i \in DOMAIN Append(got, t) : IsReply(Append(got, t)[i]) => i = 1
      BY <3>1, <3>2, <3>3
    <3>5. out'["down"] = Append(got, t) /\ out["down"] = got
      BY <2>2 DEF got
    <3>6. \A r : ToldBack(r)' <=> ToldBack(r)
      BY <3>1, <3>3, <3>5, Replies DEF ToldBack
    <3> QED
      BY <1>1, <1>2, <1>3, <3>4, <3>5, <3>6 DEF DownOut
  <2> QED
    BY <1>2, <2>1, <2>2 DEF Dirs
<1>7. Shape'
  BY <1>1, <1>2 DEF Shape, Counters
<1>8. Routing'
  BY <1>1, <1>2, <1>3 DEF Routing, Connected
<1>9. Counting'
  BY <1>1, <1>2 DEF Counting
<1> QED
  BY <1>5, <1>6, <1>7, <1>8, <1>9

LEMMA NoStep ==
  ASSUME IInv, UNCHANGED vars
  PROVE  IInv'
<1> USE DEF IInv
<1>1. UNCHANGED pipe /\ UNCHANGED <<pc, bypass, enabled, read, counted>>
  BY DEF vars
<1>2. Carries(Sent, Added)' /\ src' = src /\ out' = out
  BY <1>1, QuietCarries DEF Shape
<1>3. Shape' /\ Counting'
  BY <1>1, <1>2 DEF Shape, Counters, Counting
<1>4. Routing'
  BY <1>1, <1>2, ReadKept DEF Routing
<1>5. UpOut' /\ DownOut'
  BY <1>1, <1>2, NothingOut, ReadKept DEF UpOut, DownOut
<1> QED
  BY <1>3, <1>4, <1>5

-----------------------------------------------------------------------------
(* Order: what is read ahead of the relay, written ahead of it, and passed  *)
(* through it.                                                              *)

BeforeRelay ==
  pc \notin {"relay", "closed"} => \A d \in Dirs : buf[d] = <<>> /\ dst[d] = "open"

\* What the upstream and the client get of the proxy ahead of each other's data.
Opening == IF Req.form = "connect" THEN <<>> ELSE <<Rewritten(Req)>>
Welcome == IF Req.form = "connect" THEN <<Reply("200")>> ELSE <<>>
Openings == {<<>>, <<Rewritten(Req)>>}
Welcomes == {<<>>} \cup {<<Reply(r)>> : r \in Answers \cup {"200"}}

\* Until the upstream gets the client's data, what has got through is what the
\* session has read; from then on it is the header and that data.
Passes(pre, data) ==
  /\ pc \notin {"relay", "closed"} => data = <<>>
  /\ pc \in {"body", "relay"} => pre = Opening
  /\ data = <<>> => Ordered("up", read)
  /\ data # <<>> \/ pc = "relay" \/ dst["up"] = "fin" => Complete /\ Ordered("up", Header \o data)
  /\ pc = "relay" => Len(BodyStart) <= Len(data)

Upward ==
  \E pre \in Openings, data \in Seq(Sent) : out["up"] = pre \o data /\ Passes(pre, data)

Gets(pre, data) ==
  /\ pc \notin {"relay", "closed"} => data = <<>>
  /\ pc \in {"early", "relay"} => pre = Welcome
  /\ Ordered("down", data)

Downward ==
  \E pre \in Welcomes, data \in Seq(Sent) : out["down"] = pre \o data /\ Gets(pre, data)

\* Traffic is counted as it is written ahead of the relay, and when that is done.
Counts ==
  /\ pc \notin {"401", "407", "relay", "closed"} => counted = Zero
  /\ pc \in {"401", "407"} => \E n \in 0..1 : counted = [Zero EXCEPT !.auth = n]
  /\ pc = "relay" => counted = [Zero EXCEPT !.up = IF enabled THEN Ahead("up") ELSE 0]
  /\ counted \in [auth : 0..1, connect : 0..1, relay : 0..1, up : Nat, down : Nat]
  /\ ~CopyDone => counted.down = 0
  /\ counted.up <= Len(out["up"]) /\ counted.down <= Len(log["down"])
  /\ pc = "closed" /\ CopyDone /\ enabled =>
       counted = [Zero EXCEPT !.up = Len(out["up"]), !.down = Len(log["down"])]

OInv == BeforeRelay /\ Upward /\ Downward /\ Counts

LEMMA OwnWords ==
  /\ Welcomes \subseteq Seq(Added)
  /\ \A t \in Added : Own(t)
  /\ \A t \in Sent : ~Own(t)
<1>1. Welcomes \subseteq Seq(Added)
  <2>1. \A r \in Answers \cup {"200"} : Reply(r) \in Added
    BY DEF Added
  <2>2. \A t \in Added : <<t>> \in Seq(Added)
    OBVIOUS
  <2> QED
    BY <2>1, <2>2, EmptySeq DEF Welcomes
<1>2. \A r : IsRewritten(Rewritten(r)) /\ IsReply(Reply(r))
  BY DEF Rewritten, IsRewritten, Reply, IsReply
<1>3. \A t \in Added : Own(t)
  BY <1>2 DEF Added, Own
<1> QED
  BY <1>1, <1>3, Tokens DEF Own

\* The proxy's own word and the data behind it can be told apart.
LEMMA ToldApart ==
  ASSUME NEW d \in Dirs, NEW data \in Seq(Sent), NEW o, Own(o),
         out[d] = data \/ out[d] = <<o>> \o data
  PROVE  Delivered(d) = data
<1>1. CASE out[d] = data
  <2>1. data # <<>> => Head(data) \in Sent
    BY HeadTailProperties
  <2> QED
    BY <1>1, <2>1, OwnWords DEF Delivered
<1>2. CASE out[d] = <<o>> \o data
  <2> DEFINE S == Sent \cup {o}
             one == <<o>>
             s == one \o data
  <2>1. one \in Seq(S) /\ data \in Seq(S) /\ Len(one) = 1 /\ one[1] = o
    BY WiderSeq
  <2> HIDE DEF S, one
  <2>2. s \in Seq(S) /\ Len(s) = 1 + Len(data) /\ Len(data) \in Nat /\ s[1] = one[1]
    BY ONLY <2>1, ConcatProperties, LenProperties, SMT
  <2>3. Behind(1, s) = data
    BY <2>1, Halves
  <2> HIDE DEF s
  <2>4. s # <<>> /\ Head(s) = s[1] /\ Tail(s) = SubSeq(s, 2, Len(s))
    <3>1. Len(s) # 0
      BY <2>2
    <3>2. s # <<>>
      BY <2>2, <3>1, EmptySeq
    <3> QED
      BY <2>2, <3>2, HeadTailProperties, TailIsSubSeq
  <2>5. out[d] = s
    BY <1>2 DEF s, one
  <2> QED
    BY <2>1, <2>2, <2>3, <2>4, <2>5 DEF Delivered, Behind
<1> QED
  BY <1>1, <1>2

LEMMA DeliveredIsData ==
  ASSUME NEW d \in Dirs, NEW data \in Seq(Sent), NEW pre \in Openings \cup Welcomes, out[d] = pre \o data
  PROVE  Delivered(d) = data
<1>1. <<>> \o data = data
  BY ConcatEmptySeq
<1>2. pre = <<>> \/ \E o : Own(o) /\ pre = <<o>>
  <2>1. Own(Rewritten(Req)) /\ \A r : Own(Reply(r))
    BY DEF Own, Rewritten, IsRewritten, Reply, IsReply
  <2> QED
    BY <2>1 DEF Openings, Welcomes
<1>3. CASE pre = <<>>
  <2>1. Own(Reply("200")) /\ out[d] = data
    BY <1>1, <1>3 DEF Own, Reply, IsReply
  <2> QED
    BY <2>1, ToldApart
<1>4. ASSUME NEW o, Own(o), pre = <<o>>
      PROVE  Delivered(d) = data
  <2>1. out[d] = <<o>> \o data
    BY <1>4
  <2> QED
    BY <1>4, <2>1, ToldApart
<1> QED
  BY <1>2, <1>3, <1>4

\* What was in order stays in order: the session writes nothing to anyone.
LEMMA Keeps ==
  ASSUME IInv, OInv, UNCHANGED <<read, bypass, out, buf, dst>>,
         \A d \in Dirs, h \in Seq(Sent) : Ordered(d, h) => StaysOrdered(d, h),
         pc' \notin {"relay", "closed"} => pc \notin {"relay", "closed"},
         pc' \in {"early", "body", "relay"} => pc' = pc,
         Counts'
  PROVE  OInv'
<1> USE DEF OInv
<1>1. /\ Req' = Req /\ (Complete' <=> Complete) /\ BodyStart' = BodyStart /\ Header' = Header
  BY ReadKept
<1>2. BeforeRelay'
  BY DEF BeforeRelay
<1>3. Upward'
  <2>1. PICK pre \in Openings, data \in Seq(Sent) : out["up"] = pre \o data /\ Passes(pre, data)
    BY DEF Upward
  <2>2. Ordered("up", read) => Ordered("up", read)'
    BY DEF IInv, Shape, Ordered, StaysOrdered, Dirs
  <2>3. Complete /\ Ordered("up", Header \o data) => Ordered("up", Header \o data)'
    <3>1. Complete => Header \o data \in Seq(Sent)
      BY BodyIsSent, ConcatProperties DEF IInv, Shape
    <3> QED
      BY <1>1, <3>1 DEF Ordered, StaysOrdered, Dirs
  <2>4. Passes(pre, data)'
    BY <1>1, <2>1, <2>2, <2>3 DEF Passes, Opening
  <2>5. pre \in Openings'
    BY <1>1 DEF Openings
  <2> QED
    BY <2>1, <2>4, <2>5 DEF Upward
<1>4. Downward'
  <2>1. PICK pre \in Welcomes, data \in Seq(Sent) : out["down"] = pre \o data /\ Gets(pre, data)
    BY DEF Downward
  <2>2. Gets(pre, data)'
    BY <1>1, <2>1 DEF Gets, Welcome, Ordered, StaysOrdered, Dirs
  <2> QED
    BY <2>1, <2>2 DEF Downward, Welcomes
<1> QED
  BY <1>2, <1>3, <1>4

LEMMA PeerOrder ==
  ASSUME IInv, OInv, Sending, ClientSends \/ UpstreamSends \/ PeerEnds
  PROVE  OInv'
<1>1. /\ UNCHANGED <<pc, bypass, enabled, read, counted>> /\ UNCHANGED <<out, buf, dst>>
      /\ pc # "closed" /\ Carries(Sent, Added)
  BY DEF ClientSends, UpstreamSends, PeerEnds, config, SendToken, FinishSending, Break, IInv, Shape
<1>2. \/ \E e \in Dirs : \E token \in Sent : SendToken(e, token)
      \/ \E e \in Dirs : FinishSending(e) \/ Break(e)
  BY ClientToken, UpstreamToken DEF IInv, PeerEnds, Dirs
<1>3. \A d \in Dirs, h \in Seq(Sent) : Ordered(d, h) => StaysOrdered(d, h)
  BY <1>1, <1>2, SendOrders, EndOrders
<1>4. Len(log["down"]) \in Nat /\ Len(log'["down"]) \in Nat /\ Len(log["down"]) <= Len(log'["down"])
  <2>1. log["down"] \in Seq(Sent)
    BY <1>1 DEF Carries, Dirs
  <2>2. log'["down"] = log["down"] \/ \E token \in Sent : log'["down"] = Append(log["down"], token)
    BY <1>1, <1>2 DEF SendToken, FinishSending, Break, Carries, Dirs
  <2> QED
    BY <2>1, <2>2, AppendProperties, LenProperties
<1>5. Counts'
  <2>1. BodyStart' = BodyStart /\ Req' = Req /\ (CopyDone' <=> CopyDone)
    BY <1>1, ReadKept DEF CopyDone
  <2>2. Ahead("up")' = Ahead("up")
    BY <2>1 DEF Ahead
  <2>3. counted.down <= Len(log'["down"])
    BY <1>4 DEF OInv, Counts
  <2> QED
    BY <1>1, <2>1, <2>2, <2>3 DEF OInv, Counts
<1> QED
  BY <1>1, <1>3, <1>5, Keeps

\* Ahead of the relay nothing but failures is counted.
LEMMA EarlyCounts ==
  ASSUME Shape', ~CopyDone', pc' # "relay",
         counted' \in [auth : 0..1, connect : 0..1, relay : 0..1, up : {0}, down : {0}],
         pc' \notin {"401", "407", "closed"} => counted' = Zero,
         pc' \in {"401", "407"} => \E n \in 0..1 : counted' = [Zero EXCEPT !.auth = n]
  PROVE  Counts'
<1>1. Len(out'["up"]) \in Nat /\ Len(log'["down"]) \in Nat
  BY LenProperties DEF Shape, Carries, Dirs
<1>2. counted'.up = 0 /\ counted'.down = 0
  OBVIOUS
<1> QED
  BY <1>1, <1>2 DEF Counts

LEMMA EarlyIs ==
  ASSUME OInv, pc \notin {"relay", "closed"}
  PROVE  /\ counted \in [auth : 0..1, connect : {0}, relay : {0}, up : {0}, down : {0}]
         /\ ~CopyDone
         /\ Ordered("up", read) /\ Ordered("down", <<>>)
         /\ pc = "body" => out["up"] = Opening
         /\ pc = "early" => out["down"] = Welcome
<1>1. counted \in [auth : 0..1, connect : {0}, relay : {0}, up : {0}, down : {0}]
  BY DEF OInv, Counts, Zero
<1>2. ~CopyDone
  BY DEF OInv, BeforeRelay, CopyDone, Dirs
<1>3. Ordered("up", read) /\ (pc = "body" => out["up"] = Opening)
  <2>1. PICK pre \in Openings, data \in Seq(Sent) : out["up"] = pre \o data /\ Passes(pre, data)
    BY DEF OInv, Upward
  <2>2. pre \o <<>> = pre
    <3>1. \A o : <<o>> \in Seq({o})
      OBVIOUS
    <3>2. <<>> \in Seq({})
      BY EmptySeq
    <3> QED
      BY <3>1, <3>2, ConcatEmptySeq DEF Openings
  <2> QED
    BY <2>1, <2>2 DEF Passes
<1>4. Ordered("down", <<>>) /\ (pc = "early" => out["down"] = Welcome)
  <2>1. PICK pre \in Welcomes, data \in Seq(Sent) : out["down"] = pre \o data /\ Gets(pre, data)
    BY DEF OInv, Downward
  <2>2. pre \o <<>> = pre
    BY OwnWords, ConcatEmptySeq
  <2> QED
    BY <2>1, <2>2 DEF Gets
<1> QED
  BY <1>1, <1>2, <1>3, <1>4

LEMMA FailureOrder ==
  ASSUME IInv, IInv', OInv, ReadFails \/ WriteFails \/ ConnectFails
  PROVE  OInv'
<1>1. /\ pc \notin {"relay", "closed"} /\ pc' = "closed" /\ UNCHANGED <<pipe, bypass, enabled, read>>
      /\ counted' \in {counted, [counted EXCEPT !.connect = @ + 1]}
  BY DEF ReadFails, WriteFails, ConnectFails, Goto, config, Count, Answers
<1>2. UNCHANGED <<log, wire, src, buf, out, dst>>
  BY <1>1 DEF pipe
<1>3. \A d \in Dirs, h \in Seq(Sent) : Ordered(d, h) => StaysOrdered(d, h)
  BY <1>2, QuietOrders
<1>4. /\ counted' \in [auth : 0..1, connect : 0..1, relay : 0..1, up : {0}, down : {0}]
      /\ ~CopyDone'
  BY <1>1, <1>2, EarlyIs DEF CopyDone
<1>5. Counts'
  BY <1>1, <1>4, EarlyCounts DEF IInv
<1> QED
  BY <1>1, <1>2, <1>3, <1>5, Keeps

LEMMA ReadOrder ==
  ASSUME IInv, IInv', OInv, NEW n \in 1..ChunkMax, ReadRequest(n)
  PROVE  OInv'
<1> DEFINE chunk == SubSeq(wire["up"], 1, n)
<1>1. /\ pc = "request" /\ pc' \in {"closed", "route", "request"} /\ Take(n)
      /\ read' = read \o chunk /\ UNCHANGED <<bypass, enabled, counted>>
  BY Zenon DEF ReadRequest, config
<1>2. /\ Carries(Sent, Added) /\ read \in Seq(Sent) /\ UNCHANGED <<out, buf, dst>>
      /\ buf["up"] = <<>> /\ dst["up"] = "open"
  BY <1>1 DEF IInv, Shape, OInv, BeforeRelay, Take, Dirs
<1>3. /\ Ordered("up", read) /\ Ordered("down", <<>>) /\ counted = Zero /\ ~CopyDone
      /\ out["up"] = <<>> /\ out["down"] = <<>>
  BY <1>1, EarlyIs DEF IInv, UpOut, DownOut, OInv, Counts
<1>4. StaysOrdered("up", read \o chunk) /\ StaysOrdered("down", <<>>)
  <2>1. <<>> \in Seq(Sent)
    BY EmptySeq
  <2> QED
    BY <1>1, <1>2, <1>3, <2>1, TakeOrders
<1> HIDE DEF chunk
<1>5. BeforeRelay'
  BY <1>1, <1>2 DEF OInv, BeforeRelay
<1>6. <<>> \in Seq(Sent) /\ <<>> \o <<>> = <<>> /\ <<>> \in Openings' /\ <<>> \in Welcomes'
  BY EmptySeq, ConcatEmptySeq DEF Openings, Welcomes
<1>7. Upward'
  <2>1. Passes(<<>>, <<>>)'
    BY <1>1, <1>2, <1>4 DEF Passes, Ordered, StaysOrdered
  <2> QED
    BY <1>2, <1>3, <1>6, <2>1 DEF Upward
<1>8. Downward'
  <2>1. Gets(<<>>, <<>>)'
    BY <1>1, <1>4 DEF Gets, Ordered, StaysOrdered
  <2> QED
    BY <1>2, <1>3, <1>6, <2>1 DEF Downward
<1>9. Counts'
  <2>1. counted' = Zero /\ ~CopyDone'
    BY <1>1, <1>2, <1>3 DEF CopyDone
  <2>2. Zero \in [auth : 0..1, connect : 0..1, relay : 0..1, up : {0}, down : {0}]
    BY DEF Zero
  <2> QED
    BY <1>1, <2>1, <2>2, EarlyCounts DEF IInv
<1> QED
  BY <1>5, <1>7, <1>8, <1>9 DEF OInv

LEMMA RouteOrder ==
  ASSUME IInv, IInv', OInv, Route
  PROVE  OInv'
<1>1. /\ pc = "route" /\ pc' \in Answers \cup {"closed", "connect"}
      /\ UNCHANGED <<pipe, bypass, enabled, read>>
      /\ counted' \in {counted, [counted EXCEPT !.auth = @ + 1]}
      /\ pc' \notin {"401", "407"} => counted' = counted
  BY DEF Route, Goto, config, Count, Verdict, Answers
<1>2. UNCHANGED <<log, wire, src, buf, out, dst>> /\ ~CopyDone'
  BY <1>1, EarlyIs DEF pipe, CopyDone
<1>3. \A d \in Dirs, h \in Seq(Sent) : Ordered(d, h) => StaysOrdered(d, h)
  BY <1>2, QuietOrders
<1>4. counted = Zero
  BY <1>1 DEF OInv, Counts
<1>5. Counts'
  <2>1. \E n \in 0..1 : counted' = [Zero EXCEPT !.auth = n]
    BY <1>1, <1>4 DEF Zero
  <2>2. counted' \in [auth : 0..1, connect : 0..1, relay : 0..1, up : {0}, down : {0}]
    BY <2>1 DEF Zero
  <2> QED
    BY <1>1, <1>2, <1>4, <2>1, <2>2, EarlyCounts DEF IInv, Answers
<1> QED
  BY <1>1, <1>2, <1>3, <1>5, Keeps DEF Answers

LEMMA ConnectOrder ==
  ASSUME IInv, IInv', OInv, Connect
  PROVE  OInv'
<1>1. /\ pc = "connect" /\ pc' \in {"established", "header"} /\ ConnectUpstream
      /\ UNCHANGED <<bypass, enabled, read, counted>> /\ UNCHANGED <<log, out, buf, dst>>
      /\ Carries(Sent, Added) /\ src["down"] = "none"
  BY DEF Connect, Goto, config, ConnectUpstream, IInv, Shape, Routing, Connected
<1>2. \A d \in Dirs, h \in Seq(Sent) : Ordered(d, h) => StaysOrdered(d, h)
  BY <1>1, ConnectOrders
<1>3. counted' = Zero /\ ~CopyDone'
  BY <1>1, EarlyIs DEF OInv, Counts, CopyDone
<1>4. Zero \in [auth : 0..1, connect : 0..1, relay : 0..1, up : {0}, down : {0}]
  BY DEF Zero
<1>5. Counts'
  BY <1>1, <1>3, <1>4, EarlyCounts DEF IInv
<1> QED
  BY <1>1, <1>2, <1>5, Keeps

\* What has been read but not passed on is written ahead: the relay starts behind it.
LEMMA RelayStarts ==
  ASSUME IInv, OInv, pc \notin {"relay", "closed"}, pc' = "relay", Complete,
         UNCHANGED <<log, wire, src, buf, dst, read, bypass>>, out'["up"] = Opening \o BodyStart
  PROVE  Upward'
<1>1. /\ Req' = Req /\ (Complete' <=> Complete) /\ BodyStart' = BodyStart /\ Header' = Header
  BY ReadKept
<1>2. BodyStart \in Seq(Sent) /\ Header \o BodyStart = read
  BY BodyIsSent DEF IInv, Shape
<1>3. Ordered("up", read)'
  BY EarlyIs, QuietOrders DEF Ordered, StaysOrdered, Dirs
<1>4. Passes(Opening, BodyStart)'
  <2>1. Opening' = Opening
    BY <1>1 DEF Opening
  <2>2. Len(BodyStart) <= Len(BodyStart)
    BY <1>2, LenProperties
  <2> QED
    BY <1>1, <1>2, <1>3, <2>1, <2>2 DEF Passes
<1>5. Opening' \in Openings' /\ BodyStart' \in Seq(Sent) /\ out'["up"] = Opening' \o BodyStart'
  BY <1>1, <1>2 DEF Opening, Openings
<1> QED
  BY <1>4, <1>5 DEF Upward

\* The client is answered.
LEMMA WriteDown ==
  ASSUME IInv, OInv, pc \notin {"relay", "closed"}, pc' \in {"early", "relay", "closed"},
         out["down"] = <<>>, NEW r \in Answers \cup {"200"}, WriteTo("down", <<Reply(r)>>),
         UNCHANGED <<read, bypass>>, pc' # "closed" => r = "200" /\ Req.form = "connect",
         Upward', Counts'
  PROVE  OInv'
<1>1. /\ UNCHANGED <<log, wire, src, buf, dst>> /\ out'["down"] = <<Reply(r)>> /\ Req' = Req
  BY FirstReply, ReadKept DEF IInv, WriteTo
<1>2. BeforeRelay'
  BY <1>1 DEF OInv, BeforeRelay
<1>3. Downward'
  <2>1. Ordered("down", <<>>)'
    BY <1>1, EarlyIs, QuietOrders DEF Ordered, StaysOrdered, Dirs
  <2>2. Gets(<<Reply(r)>>, <<>>)'
    BY <1>1, <2>1 DEF Gets, Welcome
  <2>3. <<Reply(r)>> \in Welcomes' /\ <<>> \in Seq(Sent) /\ <<Reply(r)>> \o <<>> = <<Reply(r)>>
    <3>1. <<Reply(r)>> \in Welcomes
      BY DEF Welcomes
    <3> QED
      BY <3>1, OwnWords, ConcatEmptySeq, EmptySeq DEF Welcomes
  <2> QED
    BY <1>1, <2>2, <2>3 DEF Downward
<1> QED
  BY <1>2, <1>3 DEF OInv

LEMMA AnswerOrder ==
  ASSUME IInv, IInv', OInv, Answer
  PROVE  OInv'
<1>1. /\ pc \in Answers /\ pc' = "closed" /\ WriteTo("down", <<Reply(pc)>>)
      /\ UNCHANGED <<bypass, enabled, read, counted>> /\ pc \notin {"relay", "closed", "early", "body"}
  BY DEF Answer, config, Answers
<1>2. out["down"] = <<>> /\ out["up"] = <<>>
  BY <1>1 DEF IInv, UpOut, DownOut
<1>3. UNCHANGED <<log, wire, src, buf, dst>> /\ out'["up"] = out["up"]
  BY <1>1 DEF WriteTo, IInv, Shape, Carries, Dirs
<1>4. Counts'
  <2>1. ~CopyDone' /\ counted' \in [auth : 0..1, connect : 0..1, relay : 0..1, up : {0}, down : {0}]
    BY <1>1, <1>3, EarlyIs DEF CopyDone
  <2> QED
    BY <1>1, <2>1, EarlyCounts DEF IInv
<1>5. Upward'
  <2>1. Ordered("up", read)' /\ dst'["up"] = "open"
    BY <1>1, <1>3, EarlyIs, QuietOrders DEF Ordered, StaysOrdered, Dirs, OInv, BeforeRelay
  <2>2. Passes(<<>>, <<>>)'
    BY <1>1, <2>1 DEF Passes
  <2>3. <<>> \in Openings' /\ <<>> \in Seq(Sent) /\ <<>> \o <<>> = <<>>
    BY EmptySeq, ConcatEmptySeq DEF Openings
  <2> QED
    BY <1>2, <1>3, <2>2, <2>3 DEF Upward
<1> QED
  BY <1>1, <1>2, <1>4, <1>5, WriteDown

LEMMA EstablishedOrder ==
  ASSUME IInv, IInv', OInv, Established
  PROVE  OInv'
<1>1. /\ pc = "established" /\ pc' = (IF BodyStart = <<>> THEN "relay" ELSE "early")
      /\ WriteTo("down", <<Reply("200")>>) /\ UNCHANGED <<bypass, enabled, read, counted>>
  BY DEF Established, Goto, config
<1>2. /\ Req.form = "connect" /\ Complete /\ out["down"] = <<>> /\ out["up"] = <<>>
      /\ counted = Zero
  BY <1>1 DEF IInv, Routing, Connected, Earned, UpOut, DownOut, OInv, Counts
<1>3. /\ UNCHANGED <<log, wire, src, buf, dst>> /\ out'["up"] = out["up"] /\ ~CopyDone'
  BY <1>1, EarlyIs DEF WriteTo, IInv, Shape, Carries, Dirs, CopyDone
<1>4. <<>> \in Seq(Sent) /\ <<>> \o <<>> = <<>> /\ Len(<<>>) = 0
  BY EmptySeq, ConcatEmptySeq
<1>5. BodyStart' = BodyStart /\ Req' = Req
  BY <1>1, ReadKept
<1>6. Zero \in [auth : 0..1, connect : 0..1, relay : 0..1, up : {0}, down : {0}]
  BY DEF Zero
<1>7. CASE BodyStart = <<>>
  <2>1. Opening \o BodyStart = <<>>
    BY <1>2, <1>4, <1>7 DEF Opening
  <2>2. Upward'
    BY <1>1, <1>2, <1>3, <1>7, <2>1, RelayStarts
  <2>3. Counts'
    <3>1. Ahead("up")' = 0
      BY <1>2, <1>4, <1>5, <1>7 DEF Ahead
    <3>2. counted' = Zero /\ [Zero EXCEPT !.up = 0] = Zero /\ Zero.up = 0 /\ Zero.down = 0
      BY <1>1, <1>2 DEF Zero
    <3>3. Len(out'["up"]) \in Nat /\ Len(log'["down"]) \in Nat
      BY LenProperties DEF IInv, Shape, Carries, Dirs
    <3> QED
      BY <1>1, <1>3, <1>6, <1>7, <3>1, <3>2, <3>3 DEF Counts
  <2> QED
    BY <1>1, <1>2, <1>7, <2>2, <2>3, WriteDown
<1>8. CASE BodyStart # <<>>
  <2>1. Upward'
    <3>1. Ordered("up", read)' /\ dst'["up"] = "open"
      BY <1>1, <1>3, EarlyIs, QuietOrders DEF Ordered, StaysOrdered, Dirs, OInv, BeforeRelay
    <3>2. Passes(<<>>, <<>>)'
      BY <1>1, <1>8, <3>1 DEF Passes
    <3>3. <<>> \in Openings'
      BY DEF Openings
    <3> QED
      BY <1>2, <1>3, <1>4, <3>2, <3>3 DEF Upward
  <2>2. Counts'
    BY <1>1, <1>2, <1>3, <1>6, <1>8, EarlyCounts DEF IInv
  <2> QED
    BY <1>1, <1>2, <1>8, <2>1, <2>2, WriteDown
<1> QED
  BY <1>7, <1>8

\* The upstream gets the header, or what was read behind it: the client's view stays.
LEMMA WriteUp ==
  ASSUME IInv, OInv, pc \in {"early", "header", "body"}, pc' \in {"body", "relay"},
         UNCHANGED <<log, wire, src, buf, dst, read, bypass>>, out'["down"] = out["down"],
         Upward', Counts'
  PROVE  OInv'
<1>1. Req' = Req
  BY ReadKept
<1>2. BeforeRelay'
  BY DEF OInv, BeforeRelay
<1>3. out["down"] = Welcome /\ Ordered("down", <<>>)'
  <2>1. CASE pc = "early"
    BY <2>1, EarlyIs, QuietOrders DEF Ordered, StaysOrdered, Dirs
  <2>2. CASE pc # "early"
    BY <2>2, EarlyIs, QuietOrders DEF Ordered, StaysOrdered, Dirs, IInv, DownOut, Routing, Welcome
  <2> QED
    BY <2>1, <2>2
<1>4. Downward'
  <2>1. Gets(Welcome, <<>>)'
    BY <1>1, <1>3 DEF Gets, Welcome
  <2>2. Welcome \in Welcomes /\ Welcome' = Welcome /\ Welcomes' = Welcomes
    BY <1>1 DEF Welcome, Welcomes
  <2>3. <<>> \in Seq(Sent) /\ Welcome \o <<>> = Welcome
    BY <2>2, OwnWords, ConcatEmptySeq, EmptySeq
  <2> QED
    BY <1>3, <2>1, <2>2, <2>3 DEF Downward
<1> QED
  BY <1>2, <1>4 DEF OInv

\* How long the opening is.
LEMMA OpeningIs ==
  ASSUME IInv, Complete
  PROVE  /\ Opening \in Seq(Sent \cup Added) /\ Opening \in Openings
         /\ Len(Opening) = (IF Req.form = "connect" THEN 0 ELSE 1)
         /\ Welcome \in Seq(Sent \cup Added) /\ Welcome \in Welcomes
         /\ Len(Welcome) = Ahead("down")
<1>1. Rewritten(Req) \in Added /\ Reply("200") \in Added
  BY RequestIsFound, RewrittenIs DEF IInv, Shape, Added
<1>2. \A t \in Added : <<t>> \in Seq(Sent \cup Added) /\ Len(<<t>>) = 1
  OBVIOUS
<1>3. <<>> \in Seq(Sent \cup Added) /\ Len(<<>>) = 0
  BY EmptySeq
<1>4. /\ <<Rewritten(Req)>> \in Seq(Sent \cup Added) /\ Len(<<Rewritten(Req)>>) = 1
      /\ <<Reply("200")>> \in Seq(Sent \cup Added) /\ Len(<<Reply("200")>>) = 1
  BY <1>1, <1>2, Zenon
<1>5. <<Reply("200")>> \in Welcomes /\ <<>> \in Welcomes
  BY DEF Welcomes
<1>6. Opening \in Openings
  BY DEF Opening, Openings
<1>7. CASE Req.form = "connect"
  <2>1. Opening = <<>> /\ Welcome = <<Reply("200")>> /\ Ahead("down") = 1
    BY <1>7 DEF Opening, Welcome, Ahead
  <2> QED
    BY <1>3, <1>4, <1>5, <1>6, <1>7, <2>1
<1>8. CASE Req.form # "connect"
  <2>1. Opening = <<Rewritten(Req)>> /\ Welcome = <<>> /\ Ahead("down") = 0
    BY <1>8 DEF Opening, Welcome, Ahead
  <2> QED
    BY <1>3, <1>4, <1>5, <1>6, <1>8, <2>1
<1> QED
  BY <1>7, <1>8

LEMMA Writes ==
  ASSUME IInv, NEW tokens, WriteTo("up", tokens)
  PROVE  /\ UNCHANGED <<log, wire, src, buf, dst>> /\ out'["down"] = out["down"]
         /\ out'["up"] = out["up"] \o tokens
BY DEF WriteTo, IInv, Shape, Carries, Dirs

\* What is written ahead of the relay is counted as it is written.
LEMMA AheadOrder ==
  ASSUME IInv, IInv', OInv, pc \in {"early", "header", "body"}, pc' = "relay",
         UNCHANGED <<log, wire, src, buf, dst, bypass, enabled, read>>,
         out'["down"] = out["down"], out'["up"] = Opening \o BodyStart,
         Count([counted EXCEPT !.up = @ + Ahead("up")])
  PROVE  OInv'
<1>1. Complete /\ counted = Zero /\ ~CopyDone
  BY EarlyIs DEF IInv, Routing, Connected, Earned, OInv, Counts
<1>2. ~CopyDone'
  BY <1>1 DEF CopyDone
<1>3. /\ BodyStart \in Seq(Sent) /\ Opening \in Seq(Sent \cup Added)
      /\ BodyStart \in Seq(Sent \cup Added)
      /\ Len(Opening) = (IF Req.form = "connect" THEN 0 ELSE 1)
  BY <1>1, BodyIsSent, OpeningIs, WiderSeq DEF IInv, Shape
<1>4. Upward'
  BY <1>1, RelayStarts
<1>5. Counts'
  <2> DEFINE o == Opening
             b == BodyStart
             ahead == Ahead("up")
  <2>1. ahead = Len(b) + Len(o) /\ Ahead("up")' = ahead
    BY <1>3, ReadKept DEF Ahead
  <2>2. o \in Seq(Sent \cup Added) /\ b \in Seq(Sent \cup Added)
    BY <1>3
  <2> HIDE DEF o, b
  <2>3. Len(o \o b) = Len(o) + Len(b) /\ Len(o) \in Nat /\ Len(b) \in Nat
    BY ONLY <2>2, ConcatProperties, LenProperties, SMT
  <2>4. Len(out'["up"]) = ahead /\ ahead \in Nat
    BY <2>1, <2>3 DEF o, b
  <2> HIDE DEF ahead
  <2>5. counted' = [Zero EXCEPT !.up = IF enabled THEN ahead ELSE 0]
    BY <1>1, <2>4 DEF Count, Zero, ahead
  <2>6. /\ counted' \in [auth : 0..1, connect : 0..1, relay : 0..1, up : Nat, down : Nat]
        /\ counted'.down = 0 /\ counted'.up <= ahead
    BY <2>4, <2>5 DEF Zero
  <2>7. Len(log'["down"]) \in Nat
    BY LenProperties DEF IInv, Shape, Carries, Dirs
  <2>8. counted' = [Zero EXCEPT !.up = IF enabled' THEN Ahead("up")' ELSE 0]
    BY <2>1, <2>5 DEF ahead
  <2> QED
    BY <1>2, <2>4, <2>6, <2>7, <2>8 DEF Counts
<1> QED
  BY <1>4, <1>5, WriteUp

LEMMA BodyOrder ==
  ASSUME IInv, IInv', OInv, Early \/ SendBody
  PROVE  OInv'
<1>1. /\ pc \in {"early", "body"} /\ pc' = "relay" /\ WriteTo("up", BodyStart)
      /\ UNCHANGED <<bypass, enabled, read>>
  BY Zenon DEF Early, SendBody, Goto, config
<1>2. /\ Complete
      /\ pc = "early" => Req.form = "connect" /\ out["up"] = Opening
      /\ pc = "body" => Req.form # "connect" /\ out["up"] = Opening
  BY <1>1, EarlyIs DEF IInv, Routing, Connected, Earned, UpOut, Opening
<1>3. BodyStart \in Seq(Sent) /\ Len(BodyStart) \in Nat
  BY <1>2, BodyIsSent, LenProperties DEF IInv, Shape
<1>4. Count([counted EXCEPT !.up = @ + Ahead("up")])
  <2>1. CASE pc = "early"
    <3>1. Ahead("up") = Len(BodyStart)
      BY <1>2, <1>3, <2>1 DEF Ahead
    <3> QED
      BY <2>1, <3>1, Zenon DEF Early, SendBody, Goto
  <2>2. CASE pc = "body"
    <3>1. counted.up = 0
      BY <2>2 DEF OInv, Counts, Zero
    <3>2. Ahead("up") = Len(BodyStart) + 1 /\ counted.up + 1 + Len(BodyStart) = counted.up + Ahead("up")
      BY <1>2, <1>3, <2>2, <3>1 DEF Ahead
    <3>3. Count([counted EXCEPT !.up = counted.up + 1 + Len(BodyStart)])
      BY <2>2, Zenon DEF Early, SendBody, Goto
    <3> QED
      BY <3>2, <3>3
  <2> QED
    BY <1>1, <2>1, <2>2
<1>5. /\ UNCHANGED <<log, wire, src, buf, dst>> /\ out'["down"] = out["down"]
      /\ out'["up"] = out["up"] \o BodyStart
  BY <1>1, Writes
<1> QED
  BY <1>1, <1>2, <1>4, <1>5, AheadOrder

LEMMA HeaderOrder ==
  ASSUME IInv, IInv', OInv, SendHeader
  PROVE  OInv'
<1>1. /\ pc = "header" /\ WriteTo("up", <<Rewritten(Req)>>) /\ UNCHANGED <<bypass, enabled, read>>
  BY Zenon DEF SendHeader, config
<1>2. /\ Complete /\ Req.form # "connect" /\ out["up"] = <<>> /\ counted = Zero
  BY <1>1 DEF IInv, Routing, Connected, Earned, UpOut, OInv, Counts
<1>3. /\ Opening = <<Rewritten(Req)>> /\ <<>> \o Opening = Opening /\ Opening \o <<>> = Opening
      /\ Opening \in Openings
  BY <1>2, OpeningIs, ConcatEmptySeq DEF Opening
<1>4. /\ UNCHANGED <<log, wire, src, buf, dst>> /\ out'["down"] = out["down"]
      /\ out'["up"] = Opening
  BY <1>1, <1>2, <1>3, Writes
<1>5. CASE BodyStart = <<>>
  <2>1. pc' = "relay" /\ Count([counted EXCEPT !.up = counted.up + 1])
    BY <1>5, Zenon DEF SendHeader
  <2>2. Ahead("up") = 1
    <3>1. Len(<<>>) = 0
      BY EmptySeq
    <3> QED
      BY <1>2, <1>5, <3>1 DEF Ahead
  <2>3. out'["up"] = Opening \o BodyStart
    BY <1>3, <1>4, <1>5
  <2> QED
    BY <1>1, <1>4, <2>1, <2>2, <2>3, AheadOrder
<1>6. CASE BodyStart # <<>>
  <2>1. pc' = "body" /\ UNCHANGED counted
    BY <1>6, Zenon DEF SendHeader
  <2>2. ~CopyDone'
    BY <1>1, <1>4, EarlyIs DEF CopyDone
  <2>3. Opening' = Opening /\ Openings' = Openings
    BY <1>1, ReadKept DEF Opening, Openings
  <2>4. Upward'
    <3>1. Ordered("up", read)' /\ dst'["up"] = "open"
      BY <1>1, <1>4, EarlyIs, QuietOrders DEF Ordered, StaysOrdered, Dirs, OInv, BeforeRelay
    <3> DEFINE o == Opening
    <3>2. Passes(o, <<>>)'
      BY <2>1, <2>3, <3>1, Zenon DEF Passes
    <3>3. out'["up"] = o \o <<>> /\ <<>> \in Seq(Sent) /\ o \in Openings'
      BY <1>3, <1>4, <2>3, EmptySeq
    <3>4. o' = o
      BY <2>3
    <3> HIDE DEF o
    <3> QED
      BY <3>2, <3>3, <3>4 DEF Upward
  <2>5. Zero \in [auth : 0..1, connect : 0..1, relay : 0..1, up : {0}, down : {0}]
    BY DEF Zero
  <2>6. Counts'
    BY <1>2, <2>1, <2>2, <2>5, EarlyCounts DEF IInv
  <2> QED
    BY <1>1, <1>4, <2>1, <2>4, <2>6, WriteUp
<1> QED
  BY <1>5, <1>6

LEMMA RelayOrder ==
  ASSUME IInv, IInv', OInv, Relay
  PROVE  OInv'
<1>1. /\ pc = "relay" /\ CopyStep /\ UNCHANGED <<pc, bypass, enabled, read, counted>>
      /\ Carries(Sent, Added) /\ read \in Seq(Sent) /\ "up" \in Dirs /\ "down" \in Dirs
  BY DEF Relay, config, IInv, Shape, Dirs
<1>2. /\ Req' = Req /\ (Complete' <=> Complete) /\ BodyStart' = BodyStart /\ Header' = Header
  BY <1>1, ReadKept
<1>3. BeforeRelay'
  BY <1>1 DEF BeforeRelay
<1>4. Upward'
  <2>1. PICK pre \in Openings, data \in Seq(Sent) : out["up"] = pre \o data /\ Passes(pre, data)
    BY DEF OInv, Upward
  <2>2. /\ pre = Opening /\ Complete /\ Ordered("up", Header \o data)
        /\ Len(BodyStart) <= Len(data)
    BY <1>1, <2>1 DEF Passes
  <2>3. /\ BodyStart \in Seq(Sent) /\ Header \in Seq(Sent) /\ Header \o BodyStart = read
        /\ pre \in Seq(Sent \cup Added)
    BY <1>1, <2>2, BodyIsSent, OpeningIs
  <2> DEFINE h == Header
             b == BodyStart
             whole == h \o data
             All == Sent \cup Added
  <2>4. h \in Seq(Sent) /\ b \in Seq(Sent) /\ data \in Seq(Sent) /\ h \o b = read
    BY <2>3
  <2>5. pre \in Seq(All) /\ data \in Seq(All) /\ \A t \in Sent : t \in All
    BY <2>3, WiderSeq
  <2> HIDE DEF h, b, All
  <2>6. whole \in Seq(Sent) /\ Len(data) \in Nat /\ Len(b) \in Nat
    BY ONLY <2>4, ConcatProperties, LenProperties, SMT
  <2>7. \A t \in Sent : /\ Append(data, t) \in Seq(Sent) /\ Len(Append(data, t)) = Len(data) + 1
                        /\ h \o Append(data, t) = Append(h \o data, t)
    BY ONLY <2>4, AppendOfConcat, AppendProperties, SMT
  <2>8. \A t \in Sent : pre \o Append(data, t) = Append(pre \o data, t)
    BY ONLY <2>5, AppendOfConcat, SMT
  <2>9. \/ out'["up"] = out["up"] /\ StaysOrdered("up", whole)
        \/ \E t \in Sent : out'["up"] = Append(out["up"], t) /\ StaysOrdered("up", Append(whole, t))
    <3>1. Ordered("up", whole)
      BY <2>2 DEF h
    <3> HIDE DEF whole
    <3> QED
      BY <1>1, <2>6, <3>1, CopyOrders
  <2>10. PICK data2 \in Seq(Sent) :
           /\ out'["up"] = pre \o data2 /\ StaysOrdered("up", h \o data2) /\ Len(b) <= Len(data2)
    <3>1. Len(b) <= Len(data)
      BY <2>2 DEF b
    <3>2. \A t \in Sent : Len(b) <= Len(Append(data, t))
      BY <2>6, <2>7, <3>1
    <3> QED
      BY <2>1, <2>7, <2>8, <2>9, <3>1, <3>2
  <2>11. data2 = <<>> => h \o data2 = read
    <3>1. data2 = <<>> => Len(b) = 0
      BY <2>6, <2>10, EmptySeq
    <3>2. data2 = <<>> => b = <<>>
      BY <2>4, <3>1, EmptySeq
    <3> QED
      BY <2>4, <3>2
  <2>12. Passes(pre, data2)'
    <3>1. StaysOrdered("up", Header \o data2) /\ (data2 = <<>> => StaysOrdered("up", read))
      BY <2>10, <2>11 DEF h
    <3>2. pre = Opening' /\ Len(BodyStart') <= Len(data2)
      BY <1>2, <2>2, <2>10 DEF Opening, b
    <3> QED
      BY <1>1, <1>2, <2>2, <3>1, <3>2 DEF Passes, Ordered, StaysOrdered
  <2>13. pre \in Openings'
    BY <1>2 DEF Openings
  <2> QED
    BY <2>10, <2>12, <2>13 DEF Upward
<1>5. Downward'
  <2>1. PICK pre \in Welcomes, data \in Seq(Sent) : out["down"] = pre \o data /\ Gets(pre, data)
    BY DEF OInv, Downward
  <2>2. pre = Welcome /\ Ordered("down", data)
    BY <1>1, <2>1 DEF Gets
  <2> DEFINE All == Sent \cup Added
  <2>3. pre \in Seq(All) /\ data \in Seq(All) /\ \A t \in Sent : t \in All
    <3>1. pre \in Seq(Added \cup Sent)
      BY OwnWords, WiderSeq
    <3>2. Added \cup Sent = All
      OBVIOUS
    <3> QED
      BY <3>1, <3>2, WiderSeq
  <2> HIDE DEF All
  <2>4. \A t \in Sent : pre \o Append(data, t) = Append(pre \o data, t)
    BY ONLY <2>3, AppendOfConcat, SMT
  <2>5. \/ out'["down"] = out["down"] /\ StaysOrdered("down", data)
        \/ \E t \in Sent : out'["down"] = Append(out["down"], t) /\ StaysOrdered("down", Append(data, t))
    BY <1>1, <2>2, CopyOrders
  <2>6. \A t \in Sent : Append(data, t) \in Seq(Sent)
    BY AppendProperties
  <2>7. PICK data2 \in Seq(Sent) : out'["down"] = pre \o data2 /\ StaysOrdered("down", data2)
    BY <2>1, <2>4, <2>5, <2>6
  <2>8. Gets(pre, data2)'
    BY <1>1, <1>2, <2>2, <2>7 DEF Gets, Welcome, Ordered, StaysOrdered
  <2>9. pre \in Welcomes'
    BY <1>2 DEF Welcomes
  <2> QED
    BY <2>7, <2>8, <2>9 DEF Downward
<1>6. Counts'
  <2>1. /\ counted = [Zero EXCEPT !.up = IF enabled THEN Ahead("up") ELSE 0]
        /\ counted \in [auth : 0..1, connect : 0..1, relay : 0..1, up : Nat, down : Nat]
        /\ counted.up <= Len(out["up"]) /\ Ahead("up")' = Ahead("up")
    BY <1>1, <1>2 DEF OInv, Counts, Ahead
  <2>2. Len(out["up"]) <= Len(out'["up"])
    <3>1. out'["up"] = out["up"] \/ \E t \in Sent : out'["up"] = Append(out["up"], t)
      BY <1>1, CopyCarries
    <3>2. out["up"] \in Seq(Sent \cup Added)
      BY <1>1 DEF Carries
    <3> QED
      BY <3>1, <3>2, AppendProperties, LenProperties
  <2>3. /\ Len(out["up"]) \in Nat /\ Len(out'["up"]) \in Nat /\ Len(log'["down"]) \in Nat
    BY <1>1, LenProperties DEF IInv, Shape, Carries
  <2>4. counted.down = 0 /\ counted.up \in Nat
    BY <2>1 DEF Zero
  <2>5. counted.up <= Len(out'["up"]) /\ counted.down <= Len(log'["down"])
    BY <2>1, <2>2, <2>3, <2>4
  <2>6. counted = [Zero EXCEPT !.up = IF enabled' THEN Ahead("up")' ELSE 0]
    BY <1>1, <2>1
  <2> QED
    BY <1>1, <2>1, <2>4, <2>5, <2>6, Zenon DEF Counts
<1> QED
  BY <1>3, <1>4, <1>5, <1>6 DEF OInv

LEMMA FailureCounts ==
  ASSUME NEW c \in [auth : 0..1, connect : 0..1, relay : 0..1, up : Nat, down : Nat], c.relay = 0
  PROVE  /\ [c EXCEPT !.relay = c.relay + 1]
              \in [auth : 0..1, connect : 0..1, relay : 0..1, up : Nat, down : Nat]
         /\ [c EXCEPT !.relay = c.relay + 1].up = c.up
         /\ [c EXCEPT !.relay = c.relay + 1].down = c.down
<1> DEFINE d == [c EXCEPT !.relay = c.relay + 1]
<1>1. c.relay + 1 \in 0..1 /\ c.auth \in 0..1 /\ c.connect \in 0..1 /\ c.up \in Nat /\ c.down \in Nat
  OBVIOUS
<1>2. d = [auth |-> c.auth, connect |-> c.connect, relay |-> c.relay + 1, up |-> c.up, down |-> c.down]
  OBVIOUS
<1> HIDE DEF d
<1>3. /\ d \in [auth : 0..1, connect : 0..1, relay : 0..1, up : Nat, down : Nat]
      /\ d.up = c.up /\ d.down = c.down
  BY <1>1, <1>2
<1> QED
  BY <1>3 DEF d

LEMMA TrafficCounts ==
  ASSUME NEW m \in Nat, NEW n \in Nat
  PROVE  /\ [Zero EXCEPT !.up = m, !.down = n]
              \in [auth : 0..1, connect : 0..1, relay : 0..1, up : Nat, down : Nat]
         /\ [Zero EXCEPT !.up = m, !.down = n].up = m
         /\ [Zero EXCEPT !.up = m, !.down = n].down = n
<1> DEFINE c == [Zero EXCEPT !.up = m]
           d == [c EXCEPT !.down = n]
<1>1. c = [auth |-> 0, connect |-> 0, relay |-> 0, up |-> m, down |-> 0]
  BY DEF Zero
<1> HIDE DEF c
<1>2. d = [auth |-> 0, connect |-> 0, relay |-> 0, up |-> m, down |-> n]
  BY <1>1
<1> HIDE DEF d
<1>3. /\ d \in [auth : 0..1, connect : 0..1, relay : 0..1, up : Nat, down : Nat]
      /\ d.up = m /\ d.down = n
  BY <1>2
<1> QED
  BY <1>3, Zenon DEF c, d

LEMMA RelayEndOrder ==
  ASSUME IInv, IInv', OInv, RelayEnds \/ RelayFails
  PROVE  OInv'
<1>1. /\ pc = "relay" /\ pc' = "closed" /\ UNCHANGED <<pipe, bypass, enabled, read>>
      /\ counted = [Zero EXCEPT !.up = IF enabled THEN Ahead("up") ELSE 0]
      /\ counted.up <= Len(out["up"]) /\ counted.down <= Len(log["down"])
      /\ counted \in [auth : 0..1, connect : 0..1, relay : 0..1, up : Nat, down : Nat]
  BY DEF RelayEnds, RelayFails, Goto, config, OInv, Counts
<1>2. UNCHANGED <<log, wire, src, buf, out, dst>> /\ (CopyDone' <=> CopyDone)
  BY <1>1 DEF pipe, CopyDone
<1>3. \A d \in Dirs, h \in Seq(Sent) : Ordered(d, h) => StaysOrdered(d, h)
  BY <1>2, QuietOrders
<1>4. Complete /\ BodyStart \in Seq(Sent) /\ Header \in Seq(Sent)
  BY <1>1, BodyIsSent DEF IInv, Shape, Routing, Connected, Earned
<1>5. PICK pre \in Openings, data \in Seq(Sent) : out["up"] = pre \o data /\ Passes(pre, data)
  BY DEF OInv, Upward
<1>6. PICK welcome \in Welcomes, answer \in Seq(Sent) :
        out["down"] = welcome \o answer /\ Gets(welcome, answer)
  BY DEF OInv, Downward
<1>7. /\ pre = Opening /\ Ordered("up", Header \o data) /\ Len(BodyStart) <= Len(data)
      /\ welcome = Welcome /\ Ordered("down", answer)
  BY <1>1, <1>5, <1>6 DEF Passes, Gets
<1>8. /\ Len(out["up"]) = Len(pre) + Len(data) /\ Len(pre) \in Nat /\ Len(data) \in Nat
      /\ Len(out["down"]) = Ahead("down") + Len(answer) /\ Len(answer) \in Nat /\ Ahead("down") \in Nat
  <2> DEFINE All == Sent \cup Added
  <2>1. /\ pre \in Seq(All) /\ welcome \in Seq(All) /\ Len(welcome) = Ahead("down")
        /\ data \in Seq(All) /\ answer \in Seq(All)
    BY <1>4, <1>7, OpeningIs, WiderSeq
  <2> HIDE DEF All
  <2>2. Len(pre \o data) = Len(pre) + Len(data) /\ Len(pre) \in Nat /\ Len(data) \in Nat
    <3>1. pre \in Seq(All) /\ data \in Seq(All)
      BY <2>1
    <3> QED
      BY ONLY <3>1, ConcatProperties, LenProperties, SMT
  <2>3. /\ Len(welcome \o answer) = Len(welcome) + Len(answer)
        /\ Len(welcome) \in Nat /\ Len(answer) \in Nat
    <3>1. welcome \in Seq(All) /\ answer \in Seq(All)
      BY <2>1
    <3> QED
      BY ONLY <3>1, ConcatProperties, LenProperties, SMT
  <2> QED
    BY <1>5, <1>6, <2>1, <2>2, <2>3
<1>9. Len(BodyStart) \in Nat /\ Ahead("up") = Len(pre) + Len(BodyStart)
  <2>1. Len(BodyStart) \in Nat /\ Len(pre) = (IF Req.form = "connect" THEN 0 ELSE 1)
    BY <1>4, <1>7, OpeningIs, LenProperties
  <2> QED
    BY <2>1 DEF Ahead
<1>10. CASE RelayFails
  <2>1. ~CopyDone
    <3>1. \A d \in Dirs : \E h : Ordered(d, h)
      BY <1>7 DEF Dirs
    <3>2. PICK d \in Dirs :
            \/ dst[d] = "open"
            \/ buf[Back(d)] # <<>>
            \/ src[Back(d)] = "fin" /\ wire[Back(d)] = <<>> /\ dst[Back(d)] = "open"
      BY <1>10 DEF RelayFails, CopyBroken
    <3>3. Back(d) \in Dirs
      BY DEF Back, Dirs
    <3> QED
      BY <3>1, <3>2, <3>3 DEF CopyDone, Ordered, InOrder
  <2>2. Count([counted EXCEPT !.relay = counted.relay + 1])
    BY <1>10, Zenon DEF RelayFails
  <2>3. counted' \in {counted, [counted EXCEPT !.relay = counted.relay + 1]}
    BY <2>2, Zenon DEF Count
  <2>4. counted.relay = 0 /\ counted.down = 0
    BY <1>1 DEF Zero
  <2>5. /\ counted' \in [auth : 0..1, connect : 0..1, relay : 0..1, up : Nat, down : Nat]
        /\ counted'.up = counted.up /\ counted'.down = 0
    BY <1>1, <2>3, <2>4, FailureCounts
  <2>6. Counts'
    BY <1>1, <1>2, <2>1, <2>4, <2>5 DEF Counts
  <2> QED
    BY <1>1, <1>2, <1>3, <2>6, Keeps
<1>11. CASE RelayEnds
  <2>1. /\ CopyDone
        /\ Count([counted EXCEPT !.up = counted.up + Moved("up"), !.down = counted.down + Moved("down")])
    BY <1>11, Zenon DEF RelayEnds
  <2>2. answer = log["down"]
    BY <1>7, <2>1 DEF CopyDone, Ordered, InOrder, Dirs
  <2>3. Moved("down") = Len(log["down"]) /\ Len(log["down"]) \in Nat
    BY <1>8, <2>2 DEF Moved
  <2>4. /\ Moved("up") = Len(data) - Len(BodyStart) /\ Ahead("up") \in Nat
        /\ Ahead("up") + Moved("up") = Len(out["up"]) /\ Len(out["up"]) \in Nat
    BY <1>8, <1>9 DEF Moved
  <2>5. CASE enabled
    <3>1. counted.up = Ahead("up") /\ counted.down = 0
      BY <1>1, <2>5 DEF Zero
    <3>2. counted' = [counted EXCEPT !.up = counted.up + Moved("up"), !.down = counted.down + Moved("down")]
      BY <2>1, <2>5, Zenon DEF Count
    <3>3. counted.up + Moved("up") = Len(out["up"]) /\ counted.down + Moved("down") = Len(log["down"])
      BY <2>3, <2>4, <3>1
    <3>4. counted' = [counted EXCEPT !.up = Len(out["up"]), !.down = Len(log["down"])]
      BY <3>2, <3>3
    <3>5. counted' = [Zero EXCEPT !.up = Len(out["up"]), !.down = Len(log["down"])]
      BY <1>1, <3>4 DEF Zero
    <3>6. /\ counted' \in [auth : 0..1, connect : 0..1, relay : 0..1, up : Nat, down : Nat]
          /\ counted'.up = Len(out["up"]) /\ counted'.down = Len(log["down"])
      BY <2>3, <2>4, <3>5, TrafficCounts
    <3>7. Counts'
      BY <1>1, <1>2, <2>1, <2>3, <2>4, <3>5, <3>6 DEF Counts
    <3> QED
      BY <1>1, <1>2, <1>3, <3>7, Keeps
  <2>6. CASE ~enabled
    <3>1. counted' = counted
      BY <2>1, <2>6, Zenon DEF Count
    <3>2. Counts'
      BY <1>1, <1>2, <2>1, <2>6, <3>1 DEF Counts
    <3> QED
      BY <1>1, <1>2, <1>3, <3>2, Keeps
  <2> QED
    BY <2>5, <2>6
<1> QED
  BY <1>10, <1>11

LEMMA NoOrder ==
  ASSUME IInv, OInv, UNCHANGED vars
  PROVE  OInv'
<1>1. UNCHANGED <<log, wire, src, buf, out, dst>> /\ UNCHANGED <<pc, bypass, enabled, read, counted>>
  BY DEF vars, pipe
<1>2. \A d \in Dirs, h \in Seq(Sent) : Ordered(d, h) => StaysOrdered(d, h)
  BY <1>1, QuietOrders
<1>3. Counts'
  <2>1. (CopyDone' <=> CopyDone) /\ Ahead("up")' = Ahead("up")
    BY <1>1, ReadKept DEF CopyDone, Ahead
  <2> QED
    BY <1>1, <2>1 DEF OInv, Counts
<1> QED
  BY <1>1, <1>2, <1>3, Keeps

-----------------------------------------------------------------------------
(* The theorems.                                                           *)

LEMMA Invariant == Spec => [](IInv /\ Sending)
<1>1. Init => IInv
  <2> SUFFICES ASSUME Init PROVE IInv
    OBVIOUS
  <2>1. /\ Carries(Sent, Added) /\ src["down"] = "none"
        /\ out["down"] = <<>> /\ out["up"] = <<>>
    BY StartCarries DEF Init, PipeInit, Dirs
  <2>2. read = <<>> /\ <<>> \in Seq(Sent) /\ DOMAIN <<>> = {}
    BY EmptySeq DEF Init
  <2>3. counted.auth = 0 /\ Counters /\ pc = "request"
    BY DEF Init, Zero, Counters
  <2>4. Shape
    BY <2>1, <2>2, <2>3 DEF Init, Shape, Places
  <2>5. Routing /\ Counting
    BY <2>1, <2>3 DEF Routing, Connected, Counting
  <2>6. UpOut /\ DownOut
    BY <2>1, <2>2, <2>3 DEF UpOut, DownOut, ToldBack
  <2> QED
    BY <2>4, <2>5, <2>6 DEF IInv
<1>2. Init => Sending
  <2> SUFFICES ASSUME Init PROVE Sending
    OBVIOUS
  <2>1. log["up"] = <<>> /\ log["down"] = <<>> /\ Len(<<>>) = 0 /\ DOMAIN <<>> = {}
    BY EmptySeq DEF Init, PipeInit, Dirs
  <2> QED
    BY <2>1, HttpAssumption DEF Sending, HeaderSent
<1>3. IInv /\ Sending /\ [Next]_vars => IInv'
  BY PeerStep, ReadStep, EndStep, RouteStep, AnswerStep, ConnectStep, EstablishedStep,
     BodyStep, HeaderStep, RelayStep, NoStep
     DEF Next, Step, Terminated
<1>4. IInv /\ Sending /\ [Next]_vars => Sending'
  BY SendingStep DEF IInv
<1> QED
  BY <1>1, <1>2, <1>3, <1>4, PTL DEF Spec

LEMMA Invariants == Spec => [](IInv /\ Sending /\ OInv)
<1>1. Init => OInv
  <2> SUFFICES ASSUME Init PROVE OInv
    OBVIOUS
  <2> USE DEF Init, PipeInit
  <2>1. /\ \A d \in Dirs : /\ log[d] = <<>> /\ buf[d] = <<>> /\ out[d] = <<>> /\ dst[d] = "open"
                          /\ Ordered(d, <<>>)
        /\ read = <<>> /\ pc = "request" /\ counted = Zero
    BY StartOrders DEF Dirs
  <2>2. <<>> \in Seq(Sent) /\ Len(<<>>) = 0 /\ <<>> \o <<>> = <<>> /\ <<>> \in Openings /\ <<>> \in Welcomes
    BY EmptySeq, ConcatEmptySeq DEF Openings, Welcomes
  <2>3. BeforeRelay
    BY <2>1 DEF BeforeRelay
  <2>4. Upward
    <3>1. Passes(<<>>, <<>>)
      BY <2>1 DEF Passes, Dirs
    <3> QED
      BY <2>1, <2>2, <3>1 DEF Upward, Dirs
  <2>5. Downward
    <3>1. Gets(<<>>, <<>>)
      BY <2>1 DEF Gets, Dirs
    <3> QED
      BY <2>1, <2>2, <3>1 DEF Downward, Dirs
  <2>6. Counts
    <3>1. /\ Zero \in [auth : 0..1, connect : 0..1, relay : 0..1, up : Nat, down : Nat]
          /\ Zero.up = 0 /\ Zero.down = 0
      BY DEF Zero
    <3>2. ~CopyDone /\ Len(out["up"]) = 0 /\ Len(log["down"]) = 0
      BY <2>1, <2>2 DEF CopyDone, Dirs
    <3> QED
      BY <2>1, <3>1, <3>2 DEF Counts
  <2> QED
    BY <2>3, <2>4, <2>5, <2>6 DEF OInv
<1>2. IInv /\ IInv' /\ Sending /\ OInv /\ [Next]_vars => OInv'
  BY PeerOrder, ReadOrder, RouteOrder, AnswerOrder, ConnectOrder, EstablishedOrder, BodyOrder,
     HeaderOrder, RelayOrder, RelayEndOrder, FailureOrder, NoOrder
     DEF Next, Step, Terminated
<1>3. Spec => [](IInv /\ Sending)
  BY Invariant
<1> QED
  BY <1>1, <1>2, <1>3, PTL DEF Spec

\* Every variable keeps its type: no peer's token is ever mistaken for the proxy's,
\* the copy buffers stay within their size, each failure is counted at most once,
\* and no count goes below zero though what went ahead of the relay is taken off it.
THEOREM TypeCorrect == Spec => []TypeOK
<1>1. IInv /\ OInv => TypeOK
  <2> SUFFICES ASSUME IInv, OInv PROVE TypeOK
    OBVIOUS
  <2>1. Carries(Sent, Added) /\ pc \in Places /\ bypass \in BOOLEAN /\ enabled \in BOOLEAN
        /\ read \in Seq(Sent)
    BY DEF IInv, Shape
  <2>2. Token = Sent \cup Added
    BY DEF Token, Sent, Added
  <2>3. \A s \in Seq(Sent) : s \in Seq(Token)
    BY <2>2, WiderSeq
  <2>4. PipeTypeOK(Token) /\ read \in Seq(Token)
    BY <2>1, <2>2, <2>3 DEF Carries, PipeTypeOK
  <2>5. counted \in [auth : 0..1, connect : 0..1, relay : 0..1, up : Nat, down : Nat]
    BY Zenon DEF OInv, Counts
  <2> QED
    BY <2>1, <2>4, <2>5, Zenon DEF TypeOK, Places
<1> QED
  BY <1>1, Invariants, PTL

\* body_start goes ahead of copy_bidirectional, which goes on behind it: both
\* streams are the sender's tokens in order, wherever the chunks of the header end.
THEOREM StreamsStayIntact == Spec => []StreamsAreIntact
<1>1. IInv /\ OInv => StreamsAreIntact
  <2> SUFFICES ASSUME IInv, OInv PROVE StreamsAreIntact
    OBVIOUS
  <2>1. Carries(Sent, Added) /\ read \in Seq(Sent)
    BY DEF IInv, Shape
  <2>2. PICK pre \in Openings, data \in Seq(Sent) : out["up"] = pre \o data /\ Passes(pre, data)
    BY DEF OInv, Upward
  <2>3. Delivered("up") = data
    BY <2>2, DeliveredIsData DEF Dirs
  <2>4. ASSUME data = <<>> PROVE Intact("up", read)
    BY <2>1, <2>2, <2>4, OrderedIsIntact DEF Passes, Dirs
  <2>5. ASSUME data # <<>> PROVE Intact("up", Header \o data)
    <3>1. Complete /\ Ordered("up", Header \o data)
      BY <2>2, <2>5 DEF Passes
    <3>2. Header \o data \in Seq(Sent)
      BY <2>1, <3>1, BodyIsSent, ConcatProperties
    <3> HIDE DEF Header
    <3> QED
      BY <2>1, <3>1, <3>2, OrderedIsIntact DEF Dirs
  <2>6. Intact("down", Delivered("down"))
    <3>1. PICK welcome \in Welcomes, answer \in Seq(Sent) :
            out["down"] = welcome \o answer /\ Ordered("down", answer)
      BY DEF OInv, Downward, Gets
    <3>2. Delivered("down") = answer
      BY <3>1, DeliveredIsData DEF Dirs
    <3> QED
      BY <2>1, <3>1, <3>2, OrderedIsIntact DEF Dirs
  <2> QED
    BY <2>3, <2>4, <2>5, <2>6 DEF StreamsAreIntact, Header
<1> QED
  BY <1>1, Invariants, PTL

\* What handle_connect and handle_forward add to the traffic counters, before the
\* relay and at its end, is what was moved; a clean end has moved all there was.
THEOREM CleanEndsAreComplete == Spec => []CleanEndIsComplete
<1>1. IInv /\ OInv => CleanEndIsComplete
  <2> SUFFICES ASSUME IInv, OInv PROVE CleanEndIsComplete
    OBVIOUS
  <2>1. read \in Seq(Sent)
    BY DEF IInv, Shape
  <2>2. PICK pre \in Openings, data \in Seq(Sent) : out["up"] = pre \o data /\ Passes(pre, data)
    BY DEF OInv, Upward
  <2>3. PICK welcome \in Welcomes, answer \in Seq(Sent) :
          out["down"] = welcome \o answer /\ Ordered("down", answer)
    BY DEF OInv, Downward, Gets
  <2>4. Delivered("up") = data /\ Delivered("down") = answer
    BY <2>2, <2>3, DeliveredIsData DEF Dirs
  <2>5. CopyDone => answer = log["down"]
    BY <2>3 DEF CopyDone, Ordered, InOrder, Dirs
  <2>6. CopyDone => Delivered("up") = Behind(HeaderEnd, log["up"])
    <3> SUFFICES ASSUME CopyDone PROVE data = Behind(HeaderEnd, log["up"])
      BY <2>4
    <3>1. Complete /\ Header \o data = log["up"]
      BY <2>2 DEF Passes, CopyDone, Ordered, InOrder, Dirs
    <3>2. Header \in Seq(Sent) /\ Len(Header) = HeaderEnd
      BY <2>1, <3>1, BodyIsSent
    <3>3. Behind(Len(Header), Header \o data) = data
      BY <3>2, Halves
    <3> QED
      BY <3>1, <3>2, <3>3
  <2>7. counted.up <= Len(out["up"]) /\ counted.down <= Len(Delivered("down"))
    <3>1. CASE CopyDone
      BY <2>4, <2>5, <3>1 DEF OInv, Counts
    <3>2. CASE ~CopyDone
      <4>1. counted.down = 0 /\ Len(answer) \in Nat /\ counted.up <= Len(out["up"])
        BY <3>2, LenProperties DEF OInv, Counts
      <4> QED
        BY <2>4, <4>1
    <3> QED
      BY <3>1, <3>2
  <2>8. pc = "closed" /\ CopyDone /\ enabled =>
          counted = [Zero EXCEPT !.up = Len(out["up"]), !.down = Len(log["down"])]
    BY DEF OInv, Counts
  <2> QED
    BY <2>4, <2>5, <2>6, <2>7, <2>8, Zenon DEF CleanEndIsComplete
<1> QED
  BY <1>1, Invariants, PTL

\* handle_http_proxy only reaches handle_connect and handle_forward with the proxy's
\* credentials and past the loop check, and what it forwards will not pass it again.
THEOREM UpstreamHasBeenEarned == Spec => []UpstreamIsEarned
<1>1. IInv => UpstreamIsEarned
  BY DEF IInv, Routing, Earned, UpOut, UpstreamIsEarned, ToSet
<1> QED
  BY <1>1, Invariant, PTL

\* The answers of handle_http_proxy, handle_connect and handle_forward, and the
\* failures they count, are those of the request.
THEOREM AnswersAreTrue == Spec => []AnswersAreTruthful
<1>1. IInv => AnswersAreTruthful
  <2> SUFFICES ASSUME IInv PROVE AnswersAreTruthful
    OBVIOUS
  <2>1. \A r : Told(r) <=> ToldBack(r)
    BY DEF Told, ToldBack, ToSet
  <2> QED
    BY <2>1 DEF IInv, Routing, UpOut, DownOut, Counting, AnswersAreTruthful
<1> QED
  BY <1>1, Invariant, PTL

=============================================================================
