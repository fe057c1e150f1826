---------------------------- MODULE Socks5Proofs ----------------------------
(***************************************************************************)
(* Whatever the client sends, ahead or out of order, and wherever either   *)
(* peer stops: no session gets to an upstream without its credentials, a   *)
(* failed authentication is counted once, the replies say what is so, and  *)
(* both streams arrive in order and, at a clean end, complete.             *)
(***************************************************************************)
EXTENDS Socks5, TcpRelayProofs

Sent  == FieldTokens \cup {<<"data", i>> : i \in 0..(8 + MaxData)}
Added == {Reply(r) : r \in {"method", "noMethod", "authOk", "authBad", "connected"}}

\* The places after the authentication.
Admitted == {"head", "addr", "port", "command", "connect", "reply", "relay", "udp"}
Places   == Negotiation \cup Authenticating \cup Admitted \cup {"closed"}

Counters == /\ counted.auth \in Nat
            /\ counted = [auth |-> counted.auth, connect |-> counted.connect,
                          relay |-> counted.relay, up |-> counted.up, down |-> counted.down]

Shape ==
  /\ Carries(Sent, Added)
  /\ pc \in Places
  /\ bypass \in BOOLEAN /\ configured \in BOOLEAN
  /\ eaten \in Seq(Sent)
  /\ Counters

\* Where the session has read field f.
Read(f)  == {i \in DOMAIN eaten : eaten[i][1] = f}
Once(f)  == \E i \in DOMAIN eaten : Read(f) = {i}
Good(f)  == \E i \in DOMAIN eaten : Read(f) = {i} /\ eaten[i][2] = "good"
Authentic == bypass \/ (configured /\ Good("user") /\ Good("pass"))

\* Credentials are read once, and passed only if they match.
Credentials ==
  /\ pc \in Authenticating => ~bypass
  /\ pc \in {"hello", "methods", "select", "authver", "user"} => Read("user") = {}
  /\ pc \in {"hello", "methods", "select", "authver", "user", "pass"} => Read("pass") = {}
  /\ pc \in {"pass", "login"} => Once("user")
  /\ pc = "login" => Once("pass")
  /\ pc \in Admitted \cup {"authOk"} \/ src["down"] # "none" => Authentic
  /\ src["down"] # "none" => pc \in {"reply", "relay", "closed"}

\* The client has been told that its login succeeded.
ToldOk == \E i \in DOMAIN out["down"] : out["down"][i] = Reply("authOk")

Counting ==
  /\ pc # "closed" => counted.auth = 0 /\ (ToldOk <=> ~bypass /\ pc \in Admitted)
  /\ pc = "closed" => (counted.auth = 1 <=> ~bypass /\ ~ToldOk)

IInv == Shape /\ Credentials /\ Counting

-----------------------------------------------------------------------------
(* Tokens and replies.                                                     *)

LEMMA Tokens ==
  /\ \A f \in Fields : \A v \in Values(f) : <<f, v>> \in FieldTokens
  /\ \A i \in 0..(8 + MaxData) : <<"data", i>> \in Sent
  /\ FieldTokens \subseteq Sent
  /\ \A t \in Sent : ~IsReply(t)
  /\ \A t \in Added : IsReply(t)
<1>1. \A f \in Fields : \A v \in Values(f) : <<f, v>> \in FieldTokens
  BY DEF FieldTokens
<1>2. \A t \in FieldTokens : \E f \in Fields : \E v \in Values(f) : t = <<f, v>>
  BY DEF FieldTokens
<1>3. \A t \in Sent : t[1] \in Fields \cup {"data"}
  BY <1>2 DEF Sent
<1>4. "reply" \notin Fields \cup {"data"}
  BY DEF Fields
<1>5. \A t \in Sent : ~IsReply(t)
  BY <1>3, <1>4 DEF IsReply
<1>6. \A t \in Added : \E r : t = <<"reply", r>>
  BY DEF Added, Reply
<1>7. \A t \in Added : IsReply(t)
  BY <1>6 DEF IsReply
<1>8. (\A i \in 0..(8 + MaxData) : <<"data", i>> \in Sent) /\ FieldTokens \subseteq Sent
  BY DEF Sent
<1> QED
  BY <1>1, <1>5, <1>7, <1>8

\* The messages of a peer that must authenticate, and of one that need not.
LEMMA MessagesAre ==
  /\ Messages \in Seq(Fields)
  /\ Len(Messages) = IF bypass THEN 5 ELSE 8
  /\ Messages[1] = "hello" /\ Messages[2] = "methods"
  /\ bypass => Messages[3] = "head" /\ Messages[4] = "addr" /\ Messages[5] = "port"
  /\ ~bypass => /\ Messages[3] = "authver" /\ Messages[4] = "user" /\ Messages[5] = "pass"
                /\ Messages[6] = "head" /\ Messages[7] = "addr" /\ Messages[8] = "port"
<1> DEFINE login == IF bypass THEN <<>> ELSE Login
           first == Greeting \o login
<1>1. Greeting \in Seq(Fields) /\ Request \in Seq(Fields) /\ login \in Seq(Fields)
  BY EmptySeq DEF Greeting, Login, Request, Fields
<1>2. /\ Len(Greeting) = 2 /\ Greeting[1] = "hello" /\ Greeting[2] = "methods"
      /\ Len(Request) = 3
      /\ Request[1] = "head" /\ Request[2] = "addr" /\ Request[3] = "port"
      /\ Len(login) = IF bypass THEN 0 ELSE 3
      /\ ~bypass => login[1] = "authver" /\ login[2] = "user" /\ login[3] = "pass"
  BY DEF Greeting, Login, Request
<1> HIDE DEF login
<1>3. /\ first \in Seq(Fields) /\ Len(first) = Len(Greeting) + Len(login)
      /\ \A i \in 1..Len(Greeting) + Len(login) :
           first[i] = IF i <= Len(Greeting) THEN Greeting[i] ELSE login[i - Len(Greeting)]
  BY ONLY <1>1, ConcatProperties
<1> HIDE DEF first
<1>4. /\ first \o Request \in Seq(Fields) /\ Len(first \o Request) = Len(first) + Len(Request)
      /\ \A i \in 1..Len(first) + Len(Request) :
           (first \o Request)[i] = IF i <= Len(first) THEN first[i] ELSE Request[i - Len(first)]
  <2>1. first \in Seq(Fields) /\ Request \in Seq(Fields)
    BY <1>1, <1>3
  <2> QED
    BY ONLY <2>1, ConcatProperties
<1>5. Messages = first \o Request
  BY Zenon DEF Messages, first, login
<1>6. CASE bypass
  <2>1. /\ Len(login) = 0 /\ Len(first) = 2
        /\ first[1] = "hello" /\ first[2] = "methods"
    BY <1>2, <1>3, <1>6
  <2>2. /\ Len(Messages) = 5 /\ \A i \in 1..5 : Messages[i] = IF i <= 2 THEN first[i] ELSE Request[i - 2]
    BY <1>2, <1>4, <1>5, <2>1
  <2> QED
    BY <1>2, <1>4, <1>5, <1>6, <2>1, <2>2
<1>7. CASE ~bypass
  <2>1. /\ Len(login) = 3 /\ Len(first) = 5
        /\ first[1] = "hello" /\ first[2] = "methods"
        /\ first[3] = "authver" /\ first[4] = "user" /\ first[5] = "pass"
    BY <1>2, <1>3, <1>7
  <2>2. /\ Len(Messages) = 8 /\ \A i \in 1..8 : Messages[i] = IF i <= 5 THEN first[i] ELSE Request[i - 5]
    BY <1>2, <1>4, <1>5, <2>1
  <2> QED
    BY <1>2, <1>4, <1>5, <1>7, <2>1, <2>2
<1> QED
  BY <1>6, <1>7

LEMMA NextFieldIsField ==
  ASSUME Shape, Len(log["up"]) < Len(Messages)
  PROVE  NextField \in Fields
<1>2. Messages \in Seq(Fields)
  BY MessagesAre
<1>3. log["up"] \in Seq(Sent)
  BY DEF Shape, Carries, Dirs
<1>4. Len(log["up"]) \in Nat /\ Len(Messages) \in Nat
  BY <1>2, <1>3, LenProperties
<1>5. Len(log["up"]) + 1 \in 1..Len(Messages)
  BY <1>4
<1> QED
  BY <1>2, <1>5, ElementOfSeq DEF NextField

\* A reply goes behind what the client has got.
LEMMA Told ==
  ASSUME Shape, NEW r, Reply(r) \in Added, WriteTo("down", <<Reply(r)>>)
  PROVE  /\ Carries(Sent, Added)' /\ src' = src
         /\ ToldOk' <=> ToldOk \/ r = "authOk"
<1> DEFINE got == out["down"]
           r1  == <<Reply(r)>>
<1>1. r1 \in Seq(Sent \cup Added) /\ Len(r1) = 1 /\ r1[1] = Reply(r)
  OBVIOUS
<1>2. got \in Seq(Sent \cup Added)
  BY DEF Shape, Carries, Dirs
<1>3. Carries(Sent, Added)' /\ out'["down"] = got \o r1
  <2> HIDE DEF r1
  <2> QED
    BY <1>1, WriteCarries DEF Shape, Dirs
<1> HIDE DEF got, r1
<1>4. /\ Len(got \o r1) = Len(got) + 1 /\ Len(got) \in Nat
      /\ \A i \in 1..Len(got) : (got \o r1)[i] = got[i]
      /\ (got \o r1)[Len(got) + 1] = Reply(r)
  <2>1. /\ Len(got \o r1) = Len(got) + Len(r1) /\ Len(got) \in Nat
        /\ \A i \in 1..(Len(got) + Len(r1)) :
             (got \o r1)[i] = IF i <= Len(got) THEN got[i] ELSE r1[i - Len(got)]
    BY <1>1, <1>2, ConcatProperties, LenProperties
  <2> QED
    BY <1>1, <2>1
<1>5. DOMAIN got = 1..Len(got) /\ DOMAIN out'["down"] = 1..Len(out'["down"])
  BY <1>2, <1>3, LenProperties DEF Carries, Dirs
<1>6. Reply(r) = Reply("authOk") <=> r = "authOk"
  BY DEF Reply
<1> QED
  BY <1>3, <1>4, <1>5, <1>6 DEF ToldOk, WriteTo, got

\* The relay passes no reply.
LEMMA RelayTellsNothing ==
  ASSUME Shape, CopyStep
  PROVE  Carries(Sent, Added)' /\ src' = src /\ (ToldOk' <=> ToldOk)
<1> DEFINE got == out["down"]
<1>1. /\ Carries(Sent, Added)' /\ src' = src
      /\ \A d \in Dirs : out'[d] = out[d] \/ \E t \in Sent : out'[d] = Append(out[d], t)
  BY CopyCarries DEF Shape
<1>2. got \in Seq(Sent \cup Added) /\ out'["down"] \in Seq(Sent \cup Added)
  BY <1>1 DEF Shape, Carries, Dirs
<1>3. CASE out'["down"] = got
  BY <1>1, <1>3 DEF ToldOk
<1>4. CASE \E t \in Sent : out'["down"] = Append(got, t)
  <2>1. PICK t \in Sent : out'["down"] = Append(got, t)
    BY <1>4
  <2> HIDE DEF got
  <2>2. /\ Len(Append(got, t)) = Len(got) + 1
        /\ \A i \in 1..Len(got) : Append(got, t)[i] = got[i]
        /\ Append(got, t)[Len(got) + 1] = t
    BY <1>2, AppendProperties
  <2>3. /\ DOMAIN got = 1..Len(got) /\ DOMAIN out'["down"] = 1..Len(out'["down"])
        /\ Len(got) \in Nat
    BY <1>2, LenProperties
  <2>4. t # Reply("authOk")
    BY Tokens DEF IsReply, Reply
  <2> QED
    BY <1>1, <2>1, <2>2, <2>3, <2>4 DEF ToldOk, got
<1> QED
  BY <1>1, <1>3, <1>4 DEF Dirs

-----------------------------------------------------------------------------
(* Fields.                                                                 *)

\* One more field is read.
LEMMA ReadOne ==
  ASSUME Shape, NEW token \in Sent, eaten' = Append(eaten, token)
  PROVE  /\ eaten' \in Seq(Sent)
         /\ \A f : token[1] # f => /\ Read(f)' = Read(f)
                                   /\ Once(f) => Once(f)'
                                   /\ Good(f) => Good(f)'
         /\ \A f : token[1] = f /\ Read(f) = {} => Once(f)'
<1> DEFINE n == Len(eaten)
<1>1. /\ eaten' \in Seq(Sent) /\ Len(eaten') = n + 1 /\ eaten'[n + 1] = token
      /\ \A i \in 1..n : eaten'[i] = eaten[i]
  BY AppendProperties DEF Shape
<1>2. n \in Nat /\ DOMAIN eaten = 1..n /\ DOMAIN eaten' = 1..(n + 1)
  BY <1>1, LenProperties DEF Shape
<1> HIDE DEF n
<1>3. ASSUME NEW f, token[1] # f
      PROVE  Read(f)' = Read(f) /\ (Once(f) => Once(f)') /\ (Good(f) => Good(f)')
  <2>1. Read(f)' = Read(f)
    BY <1>1, <1>2, <1>3 DEF Read
  <2>2. \A i \in DOMAIN eaten : i \in DOMAIN eaten' /\ eaten'[i] = eaten[i]
    BY <1>1, <1>2
  <2> QED
    BY <2>1, <2>2 DEF Once, Good
<1>4. ASSUME NEW f, token[1] = f, Read(f) = {}
      PROVE  Once(f)'
  <2>1. Read(f)' = {n + 1}
    BY <1>1, <1>2, <1>4 DEF Read
  <2> QED
    BY <1>2, <2>1 DEF Once
<1> QED
  BY <1>1, <1>3, <1>4

LEMMA NothingRead ==
  ASSUME UNCHANGED eaten
  PROVE  \A f : Read(f)' = Read(f) /\ (Once(f)' <=> Once(f)) /\ (Good(f)' <=> Good(f))
BY DEF Read, Once, Good

\* What Said looks up is the one field of that name.
LEMMA SaidIsRead ==
  ASSUME NEW f, NEW i \in DOMAIN eaten, Read(f) = {i}
  PROVE  Said(f) = eaten[i][2]
<1>1. \A j \in DOMAIN eaten : eaten[j][1] = f <=> j = i
  BY DEF Read
<1>2. (CHOOSE j \in DOMAIN eaten : eaten[j][1] = f) = i
  BY <1>1
<1> QED
  BY <1>2 DEF Said

LEMMA SaidIsGood ==
  ASSUME NEW f
  PROVE  /\ Once(f) /\ Said(f) = "good" => Good(f)
         /\ Good(f) => Said(f) = "good"
BY SaidIsRead DEF Once, Good

-----------------------------------------------------------------------------
(* The steps.                                                              *)

\* The peers.
LEMMA ClientToken ==
  ASSUME Shape, ClientSends
  PROVE  \E token \in Sent :
           /\ SendToken("up", token)
           /\ Len(log["up"]) < Len(Messages) + MaxData
           /\ Len(log["up"]) < Len(Messages) => token \in FieldTokens /\ token[1] = NextField
<1>1. Len(log["up"]) \in Nat /\ Len(Messages) \in 0..8
  BY LenProperties, MessagesAre DEF Shape, Carries, Dirs
<1>2. CASE Len(log["up"]) < Len(Messages)
  <2>1. PICK v \in Values(NextField) : SendToken("up", <<NextField, v>>)
    BY <1>2 DEF ClientSends
  <2>2. <<NextField, v>> \in FieldTokens /\ <<NextField, v>> \in Sent
    BY <1>2, NextFieldIsField, Tokens
  <2>3. Len(log["up"]) < Len(Messages) + MaxData
    BY <1>1, <1>2, DataAssumption
  <2> QED
    BY <2>1, <2>2, <2>3
<1>3. CASE ~(Len(log["up"]) < Len(Messages))
  <2>1. /\ Len(log["up"]) < Len(Messages) + MaxData
        /\ SendToken("up", <<"data", Len(log["up"])>>)
    BY <1>3 DEF ClientSends
  <2>2. \A n \in Nat, m \in 0..8 : n < m + MaxData => n \in 0..(8 + MaxData)
    BY DataAssumption
  <2>3. Len(log["up"]) \in 0..(8 + MaxData)
    BY <1>1, <2>1, <2>2
  <2> QED
    BY <1>3, <2>1, <2>3, Tokens
<1> QED
  BY <1>2, <1>3

LEMMA UpstreamToken ==
  ASSUME Shape, UpstreamSends
  PROVE  \E token \in Sent : SendToken("down", token) /\ Len(log["down"]) < MaxData
<1>1. Len(log["down"]) < MaxData /\ SendToken("down", <<"data", Len(log["down"])>>)
  BY DEF UpstreamSends
<1>2. Len(log["down"]) \in 0..(8 + MaxData)
  BY <1>1, LenProperties, DataAssumption DEF Shape, Carries, Dirs
<1> QED
  BY <1>1, <1>2, Tokens

LEMMA PeerStep ==
  ASSUME IInv, ClientSends \/ UpstreamSends \/ PeerEnds
  PROVE  IInv'
<1>1. Carries(Sent, Added)' /\ out' = out
  <2>1. CASE ClientSends
    <3>1. PICK token \in Sent : SendToken("up", token)
      BY <2>1, ClientToken DEF IInv
    <3> QED
      BY <3>1, SendCarries DEF IInv, Shape, SendToken, Dirs
  <2>2. CASE UpstreamSends
    <3>1. PICK token \in Sent : SendToken("down", token)
      BY <2>2, UpstreamToken DEF IInv
    <3> QED
      BY <3>1, SendCarries DEF IInv, Shape, SendToken, Dirs
  <2>3. CASE PeerEnds
    BY <2>3, EndCarries DEF IInv, Shape, PeerEnds, FinishSending, Break
  <2> QED
    BY <2>1, <2>2, <2>3
<1>2. UNCHANGED <<pc, bypass, configured, eaten, counted>>
  BY DEF ClientSends, UpstreamSends, PeerEnds, session
<1>3. src["down"] = "none" => src'["down"] = "none"
  <2>1. CASE ClientSends \/ UpstreamSends
    <3>1. src' = src
      BY <2>1 DEF ClientSends, UpstreamSends, SendToken
    <3> QED
      BY <3>1
  <2>2. ASSUME NEW d \in Dirs, FinishSending(d) \/ Break(d), src["down"] = "none"
        PROVE  src'["down"] = "none"
    <3>1. d # "down" /\ src \in [Dirs -> {"none", "open", "fin", "broken"}]
      BY <2>2 DEF FinishSending, Break, IInv, Shape, Carries
    <3> QED
      BY <2>2, <3>1 DEF FinishSending, Break, Dirs
  <2> QED
    BY <2>1, <2>2 DEF PeerEnds
<1>4. Shape'
  BY <1>1, <1>2 DEF IInv, Shape, Counters
<1>5. Credentials'
  BY <1>2, <1>3, NothingRead DEF IInv, Credentials, Authentic
<1>6. Counting'
  BY <1>1, <1>2 DEF IInv, Counting, ToldOk
<1> QED
  BY <1>4, <1>5, <1>6 DEF IInv

LEMMA CountAuthCounts ==
  ASSUME Shape, counted' = CountAuth
  PROVE  /\ Counters'
         /\ ~bypass /\ pc \in Negotiation \cup Authenticating => counted'.auth = counted.auth + 1
         /\ bypass \/ pc \notin Negotiation \cup Authenticating => counted'.auth = counted.auth
BY DEF Shape, Counters, CountAuth

\* The ends without an answer that says otherwise.
LEMMA Ends ==
  ASSUME IInv, pc # "closed", pc' = "closed", counted' = CountAuth,
         UNCHANGED <<bypass, configured>>, src' = src,
         Carries(Sent, Added)', ToldOk' <=> ToldOk,
         UNCHANGED eaten \/ (src["down"] = "none" /\ eaten' \in Seq(Sent))
  PROVE  IInv'
<1> USE DEF IInv
<1>1. /\ Counters'
      /\ ~bypass /\ pc \in Negotiation \cup Authenticating => counted'.auth = counted.auth + 1
      /\ bypass \/ pc \notin Negotiation \cup Authenticating => counted'.auth = counted.auth
  BY CountAuthCounts
<1>2. Shape'
  BY <1>1 DEF Shape, Places
<1>3. Credentials'
  <2>1. pc' \notin Admitted \cup Authenticating
        /\ pc' \notin {"hello", "methods", "select", "user", "pass"}
    BY DEF Admitted, Authenticating
  <2>2. src'["down"] # "none" => Authentic'
    BY NothingRead DEF Credentials, Authentic
  <2> QED
    BY <2>1, <2>2 DEF Credentials, Authenticating
<1>4. Counting'
  <2>1. /\ counted.auth = 0 /\ (ToldOk <=> ~bypass /\ pc \in Admitted)
        /\ pc \in Negotiation \cup Authenticating <=> pc \notin Admitted
    BY DEF Counting, Shape, Places, Admitted, Negotiation, Authenticating
  <2> QED
    BY <1>1, <2>1 DEF Counting
<1> QED
  BY <1>2, <1>3, <1>4

\* The ends after the authentication, where other counters may be added to.
LEMMA EndsLate ==
  ASSUME IInv, pc \in Admitted, pc' = "closed", UNCHANGED <<pipe, bypass, configured, eaten>>,
         Counters', counted'.auth = counted.auth
  PROVE  IInv'
<1> USE DEF IInv
<1>1. Carries(Sent, Added)' /\ src' = src /\ (ToldOk' <=> ToldOk)
  BY QuietCarries DEF Shape, ToldOk
<1>2. Shape'
  BY <1>1 DEF Shape, Places
<1>3. Credentials'
  BY <1>1, NothingRead DEF Credentials, Authentic, Admitted, Authenticating
<1>4. Counting'
  BY <1>1 DEF Counting, Admitted
<1> QED
  BY <1>2, <1>3, <1>4

\* A field is read: it is accepted, answered or the end of the session.
LEMMA ReadStep ==
  ASSUME IInv, ReadField
  PROVE  IInv'
<1> USE DEF IInv
<1> DEFINE token == Head(wire["up"])
<1>1. /\ Carries(Sent, Added)' /\ token \in Sent
      /\ src' = src /\ out' = out /\ (ToldOk' <=> ToldOk)
  BY TakeCarries DEF Shape, ReadField, Take, ToldOk
<1>2. /\ eaten' = Append(eaten, token) /\ UNCHANGED <<bypass, configured>>
      /\ pc \in {"hello", "methods", "authver", "user", "pass", "head", "addr", "port"}
  BY DEF ReadField, Waiting, session
<1>3. /\ eaten' \in Seq(Sent)
      /\ \A f : token[1] # f => /\ Read(f)' = Read(f)
                                /\ Once(f) => Once(f)'
                                /\ Good(f) => Good(f)'
      /\ \A f : token[1] = f /\ Read(f) = {} => Once(f)'
  BY <1>1, <1>2, ReadOne
<1>4. \/ token[1] = pc /\ pc' = After[pc] /\ UNCHANGED counted
      \/ pc \in {"hello", "methods"} /\ pc' = "reject" /\ UNCHANGED counted
      \/ pc' = "closed" /\ counted' = CountAuth
  BY DEF ReadField
<1> HIDE DEF token
<1>5. src["down"] = "none"
  BY <1>2 DEF Credentials
<1>6. CASE token[1] = pc /\ pc' = After[pc] /\ UNCHANGED counted
  <2>1. /\ pc = "hello" => pc' = "methods"
        /\ pc = "methods" => pc' = "select"
        /\ pc = "authver" => pc' = "user"
        /\ pc = "user" => pc' = "pass"
        /\ pc = "pass" => pc' = "login"
        /\ pc = "head" => pc' = "addr"
        /\ pc = "addr" => pc' = "port"
        /\ pc = "port" => pc' = "command"
    BY <1>6 DEF After
  <2>2. Shape'
    BY <1>1, <1>2, <1>3, <1>6, <2>1 DEF Shape, Places, Negotiation, Authenticating, Admitted, Counters
  <2>3. Counting'
    BY <1>1, <1>2, <1>6, <2>1 DEF Counting, Admitted
  <2>4. CASE pc \in {"head", "addr", "port"}
    <3>1. Authentic
      BY <2>4 DEF Credentials, Admitted
    <3>2. Authentic'
      BY <1>2, <1>3, <1>6, <2>4, <3>1 DEF Authentic
    <3> QED
      BY <1>1, <1>5, <2>1, <2>2, <2>3, <2>4, <3>2 DEF Credentials, Authenticating
  <2>5. CASE pc \in {"hello", "methods", "authver"}
    <3>1. Read("user")' = {} /\ Read("pass")' = {}
      BY <1>3, <1>6, <2>5 DEF Credentials
    <3>2. pc \in Authenticating <=> pc' \in Authenticating
      BY <2>1, <2>5 DEF Authenticating
    <3> QED
      BY <1>1, <1>2, <1>5, <2>1, <2>2, <2>3, <2>5, <3>1, <3>2 DEF Credentials, Admitted
  <2>6. CASE pc \in {"user", "pass"}
    <3>1. /\ pc = "user" => Once("user")' /\ Read("pass")' = {}
          /\ pc = "pass" => Once("user")' /\ Once("pass")'
      BY <1>3, <1>6, <2>6 DEF Credentials
    <3>2. ~bypass'
      BY <1>2, <2>6 DEF Credentials, Authenticating
    <3> QED
      BY <1>1, <1>5, <2>1, <2>2, <2>3, <2>6, <3>1, <3>2 DEF Credentials, Admitted
  <2> QED
    BY <1>2, <2>4, <2>5, <2>6
<1>7. CASE pc \in {"hello", "methods"} /\ pc' = "reject" /\ UNCHANGED counted
  <2>1. Shape'
    BY <1>1, <1>2, <1>3, <1>7 DEF Shape, Places, Negotiation, Counters
  <2>2. Credentials'
    BY <1>1, <1>5, <1>7 DEF Credentials, Authenticating, Admitted
  <2>3. Counting'
    BY <1>1, <1>2, <1>7 DEF Counting, Admitted
  <2> QED
    BY <2>1, <2>2, <2>3
<1>8. CASE pc' = "closed" /\ counted' = CountAuth
  BY <1>1, <1>2, <1>3, <1>5, <1>8, Ends
<1> QED
  BY <1>4, <1>6, <1>7, <1>8

\* An answer of the negotiation or the authentication that goes on.
LEMMA AnswerStep ==
  ASSUME IInv, SelectMethod \/ AuthOk
  PROVE  IInv'
<1> USE DEF IInv
<1>1. CASE SelectMethod
  <2>1. /\ Carries(Sent, Added)' /\ src' = src /\ (ToldOk' <=> ToldOk)
    BY <1>1, Told DEF SelectMethod, Added
  <2>2. /\ pc = "select" /\ pc' = (IF bypass THEN "head" ELSE "authver")
        /\ UNCHANGED <<bypass, configured, eaten, counted>>
    BY <1>1 DEF SelectMethod, Goto, session
  <2>3. Shape'
    BY <2>1, <2>2 DEF Shape, Places, Authenticating, Admitted, Counters
  <2>4. Credentials'
    <3>1. Authentic' <=> Authentic
      BY <2>2, NothingRead DEF Authentic
    <3>2. bypass \in BOOLEAN
      BY DEF Shape
    <3>3. bypass => Authentic
      BY DEF Authentic
    <3> QED
      BY <2>1, <2>2, <3>1, <3>2, <3>3, NothingRead DEF Credentials, Authenticating, Admitted
  <2>5. Counting'
    BY <2>1, <2>2 DEF Counting, Admitted
  <2> QED
    BY <2>3, <2>4, <2>5
<1>2. CASE AuthOk
  <2>1. /\ Carries(Sent, Added)' /\ src' = src /\ ToldOk'
    BY <1>2, Told DEF AuthOk, Added
  <2>2. /\ pc = "authOk" /\ pc' = "head" /\ ~bypass
        /\ UNCHANGED <<bypass, configured, eaten, counted>>
    BY <1>2 DEF AuthOk, Goto, session, Credentials, Authenticating
  <2>3. Shape'
    BY <2>1, <2>2 DEF Shape, Places, Admitted, Counters
  <2>4. Credentials'
    <3>1. Authentic'
      BY <2>2, NothingRead DEF Credentials, Authentic
    <3> QED
      BY <2>1, <2>2, <3>1 DEF Credentials, Authenticating
  <2>5. Counting'
    BY <2>1, <2>2 DEF Counting, Admitted
  <2> QED
    BY <2>3, <2>4, <2>5
<1> QED
  BY <1>1, <1>2

LEMMA RefusalStep ==
  ASSUME IInv, Reject \/ AuthBad \/ ReadFails \/ WriteFails
  PROVE  IInv'
<1> USE DEF IInv
<1>1. CASE Reject
  <2>1. Carries(Sent, Added)' /\ src' = src /\ (ToldOk' <=> ToldOk)
    BY <1>1, Told DEF Reject, Added
  <2> QED
    BY <1>1, <2>1, Ends DEF Reject, session
<1>2. CASE AuthBad
  <2>1. Carries(Sent, Added)' /\ src' = src /\ (ToldOk' <=> ToldOk)
    BY <1>2, Told DEF AuthBad, Added
  <2> QED
    BY <1>2, <2>1, Ends DEF AuthBad, Goto, session
<1>3. CASE ReadFails \/ WriteFails
  <2>1. Carries(Sent, Added)' /\ src' = src /\ (ToldOk' <=> ToldOk)
    BY <1>3, QuietCarries DEF ReadFails, WriteFails, Fail, Shape, ToldOk
  <2>2. pc # "closed" /\ pc' = "closed" /\ counted' = CountAuth /\ UNCHANGED <<bypass, configured, eaten>>
    BY <1>3 DEF ReadFails, WriteFails, Fail, Waiting, Writing, session
  <2> QED
    BY <2>1, <2>2, Ends
<1> QED
  BY <1>1, <1>2, <1>3

LEMMA LoginStep ==
  ASSUME IInv, CheckLogin
  PROVE  IInv'
<1> USE DEF IInv
<1>1. /\ pc = "login" /\ UNCHANGED <<bypass, configured, eaten>> /\ ~bypass
      /\ Once("user") /\ Once("pass") /\ src["down"] = "none"
  BY DEF CheckLogin, session, Credentials, Authenticating
<1>2. Carries(Sent, Added)' /\ src' = src /\ (ToldOk' <=> ToldOk)
  BY QuietCarries DEF CheckLogin, Shape, ToldOk
<1>3. CASE configured
  <2>1. UNCHANGED counted /\ pc' = (IF CredentialsMatch THEN "authOk" ELSE "authBad")
    BY <1>3 DEF CheckLogin
  <2>2. Shape'
    BY <1>1, <1>2, <2>1 DEF Shape, Places, Authenticating, Counters
  <2>3. Credentials'
    <3>1. CredentialsMatch => Authentic
      BY <1>1, <1>3, SaidIsGood DEF CredentialsMatch, Authentic
    <3>2. Authentic' <=> Authentic
      BY <1>1, NothingRead DEF Authentic
    <3> QED
      BY <1>1, <1>2, <2>1, <3>1, <3>2 DEF Credentials, Admitted
  <2>4. Counting'
    BY <1>1, <1>2, <2>1 DEF Counting, Admitted
  <2> QED
    BY <2>2, <2>3, <2>4
<1>4. CASE ~configured
  BY <1>1, <1>2, <1>4, Ends DEF CheckLogin
<1> QED
  BY <1>3, <1>4

\* From one place after the authentication to another.
LEMMA GoesOn ==
  ASSUME IInv, pc \in Admitted, pc' \in Admitted, UNCHANGED <<bypass, configured, eaten, counted>>,
         Carries(Sent, Added)', ToldOk' <=> ToldOk,
         src'["down"] # "none" => pc' \in {"reply", "relay"}
  PROVE  IInv'
<1> USE DEF IInv
<1>1. Shape'
  BY DEF Shape, Places, Counters
<1>2. Authentic'
  BY NothingRead DEF Credentials, Authentic
<1>3. Credentials'
  BY <1>2 DEF Credentials, Authenticating, Admitted
<1>4. Counting'
  BY DEF Counting, Admitted
<1> QED
  BY <1>1, <1>3, <1>4

LEMMA CommandStep ==
  ASSUME IInv, Dispatch \/ Connect \/ ConnectFails \/ SendReply \/ UdpEnds
  PROVE  IInv'
<1> USE DEF IInv
<1>1. CASE Dispatch
  <2>1. /\ pc = "command" /\ pc' \in {"connect", "udp", "closed"} /\ UNCHANGED pipe
        /\ UNCHANGED <<bypass, configured, eaten, counted>>
    BY <1>1 DEF Dispatch, session
  <2>2. Carries(Sent, Added)' /\ src' = src /\ (ToldOk' <=> ToldOk) /\ src["down"] = "none"
    BY <2>1, QuietCarries DEF Shape, ToldOk, Credentials
  <2>3. CASE pc' = "closed"
    BY <2>1, <2>3, EndsLate DEF Admitted, Counters, Shape
  <2>4. CASE pc' # "closed"
    BY <2>1, <2>2, <2>4, GoesOn DEF Admitted
  <2> QED
    BY <2>3, <2>4
<1>2. CASE Connect
  <2>1. /\ pc = "connect" /\ pc' = "reply" /\ out' = out
        /\ UNCHANGED <<bypass, configured, eaten, counted>>
    BY <1>2 DEF Connect, Goto, ConnectUpstream, session
  <2>2. Carries(Sent, Added)' /\ (ToldOk' <=> ToldOk)
    BY <1>2, <2>1, ConnectCarries DEF Shape, Connect, ToldOk
  <2> QED
    BY <2>1, <2>2, GoesOn DEF Admitted
<1>3. CASE ConnectFails
  <2>1. Counters' /\ counted'.auth = counted.auth
    BY <1>3 DEF ConnectFails, Shape, Counters
  <2> QED
    BY <1>3, <2>1, EndsLate DEF ConnectFails, Goto, Admitted, session
<1>4. CASE SendReply
  <2>1. Carries(Sent, Added)' /\ src' = src /\ (ToldOk' <=> ToldOk)
    BY <1>4, Told DEF SendReply, Added
  <2>2. /\ pc = "reply" /\ pc' = "relay"
        /\ UNCHANGED <<bypass, configured, eaten, counted>>
    BY <1>4 DEF SendReply, Goto, session
  <2> QED
    BY <2>1, <2>2, GoesOn DEF Admitted
<1>5. CASE UdpEnds
  BY <1>5, EndsLate DEF UdpEnds, Goto, Admitted, session, Shape, Counters
<1> QED
  BY <1>1, <1>2, <1>3, <1>4, <1>5

LEMMA RelayStep ==
  ASSUME IInv, Relay \/ RelayEnds \/ RelayFails
  PROVE  IInv'
<1> USE DEF IInv
<1>1. CASE Relay
  <2>1. Carries(Sent, Added)' /\ src' = src /\ (ToldOk' <=> ToldOk)
    BY <1>1, RelayTellsNothing DEF Relay
  <2> QED
    BY <1>1, <2>1, GoesOn DEF Relay, Admitted, session
<1>2. CASE RelayEnds
  <2>1. \E up, down : counted' = [counted EXCEPT !.up = up, !.down = down]
    BY <1>2, Zenon DEF RelayEnds
  <2>2. pc = "relay" /\ pc' = "closed" /\ UNCHANGED <<pipe, bypass, configured, eaten>>
    BY <1>2, Zenon DEF RelayEnds, Goto, session
  <2>3. Counters' /\ counted'.auth = counted.auth
    BY <2>1 DEF Shape, Counters
  <2> QED
    BY <2>2, <2>3, EndsLate DEF Admitted
<1>3. CASE RelayFails
  <2>1. Counters' /\ counted'.auth = counted.auth
    BY <1>3 DEF RelayFails, Shape, Counters
  <2> QED
    BY <1>3, <2>1, EndsLate DEF RelayFails, Goto, Admitted, session
<1> QED
  BY <1>1, <1>2, <1>3

LEMMA NoStep ==
  ASSUME IInv, UNCHANGED vars
  PROVE  IInv'
<1> USE DEF IInv
<1>1. /\ UNCHANGED pipe /\ UNCHANGED <<pc, bypass, configured, eaten, counted>>
  BY DEF vars
<1>2. Carries(Sent, Added)' /\ src' = src /\ (ToldOk' <=> ToldOk)
  BY <1>1, QuietCarries DEF Shape, ToldOk
<1> QED
  BY <1>1, <1>2, NothingRead DEF Shape, Counters, Credentials, Authentic, Counting

-----------------------------------------------------------------------------
(* Order: what the session reads, says and relays.                         *)

\* The client sends the fields of its messages in turn, and then data.
InTurn ==
  /\ Len(log["up"]) <= Len(Messages) + MaxData /\ Len(log["down"]) <= MaxData
  /\ \A i \in 1..Len(log["up"]) : i <= Len(Messages) =>
       log["up"][i] \in FieldTokens /\ log["up"][i][1] = Messages[i]

\* How many fields have been read where.
Position ==
  /\ eaten \in Seq(FieldTokens)
  /\ pc = "hello" => Len(eaten) = 0
  /\ pc = "methods" => Len(eaten) = 1
  /\ pc \in {"select", "authver"} => Len(eaten) = 2
  /\ pc = "user" => Len(eaten) = 3
  /\ pc = "pass" => Len(eaten) = 4
  /\ pc \in {"login", "authOk", "authBad"} => Len(eaten) = 5
  /\ pc = "head" => Len(eaten) = Len(Messages) - 3
  /\ pc = "addr" => Len(eaten) = Len(Messages) - 2
  /\ pc = "port" => Len(eaten) = Len(Messages) - 1
  /\ pc \in {"command", "connect", "reply", "relay", "udp"} => Len(eaten) = Len(Messages)

BeforeRelay ==
  /\ pc \notin {"relay", "closed"} =>
       out["up"] = <<>> /\ \A d \in Dirs : buf[d] = <<>> /\ dst[d] = "open"
  /\ pc = "reply" => src["down"] # "none"

Upward == out["up"] \in Seq(Sent) /\ Ordered("up", eaten \o out["up"])

\* What the client may have heard of the session, ahead of the upstream's data.
Chosen   == Reply("method")
Hearings == {<<>>, <<Reply("noMethod")>>, <<Chosen>>, <<Chosen, Reply("authBad")>>,
             <<Chosen, Reply("authOk")>>, <<Chosen, Reply("connected")>>,
             <<Chosen, Reply("authOk"), Reply("connected")>>}
Admission == IF bypass THEN <<Chosen>> ELSE <<Chosen, Reply("authOk")>>

Hears(heard, data) ==
  /\ data # <<>> => pc \in {"relay", "closed"}
  /\ pc \in Negotiation => heard = <<>>
  /\ pc \in Authenticating => heard = <<Chosen>>
  /\ pc \in Admitted \ {"relay"} => heard = Admission
  /\ (\E i \in DOMAIN heard : heard[i] = Reply("connected")) => src["down"] # "none"

Downward ==
  \E heard \in Hearings, data \in Seq(Sent) :
    out["down"] = heard \o data /\ Ordered("down", data) /\ Hears(heard, data)

\* Nothing is counted before the end, and a token only if all are.
CountedAtEnd ==
  /\ pc # "closed" => counted = Zero
  /\ counted \in [auth : 0..1, connect : 0..1, relay : 0..1, up : 0..MaxData, down : 0..MaxData]
  /\ ~CopyDone => counted.up = 0 /\ counted.down = 0
  /\ pc = "closed" /\ CopyDone =>
       /\ Len(eaten) = Len(Messages)
       /\ counted = [Zero EXCEPT !.up = Len(out["up"]), !.down = Len(log["down"])]

OInv == InTurn /\ Position /\ BeforeRelay /\ Upward /\ Downward /\ CountedAtEnd

LEMMA HearingsAreReplies == Hearings \subseteq Seq(Added)
BY EmptySeq DEF Hearings, Added, Chosen

\* The replies and the data behind them can be told apart.
LEMMA HeardIsGot ==
  ASSUME NEW heard \in Hearings, NEW data \in Seq(Sent), out["down"] = heard \o data
  PROVE  GotReplies = heard /\ GotData = data
<1> DEFINE n == Len(heard)
           s == out["down"]
           All == Sent \cup Added
<1>1. heard \in Seq(Added) /\ heard \in Seq(All) /\ data \in Seq(All)
  <2>1. heard \in Seq(Added)
    BY HearingsAreReplies
  <2>2. heard \in Seq(Added \cup Sent) /\ data \in Seq(All)
    BY <2>1, WiderSeq
  <2>3. Added \cup Sent = All
    OBVIOUS
  <2> QED
    BY <2>1, <2>2, <2>3
<1>2. n \in Nat /\ Len(data) \in Nat /\ Len(s) = n + Len(data)
      /\ \A i \in 1..n + Len(data) : s[i] = IF i <= n THEN heard[i] ELSE data[i - n]
  <2> HIDE DEF All
  <2> QED
    BY <1>1, ConcatProperties, LenProperties
<1>3. \A i \in 1..n : IsReply(s[i])
  BY <1>1, <1>2, ElementOfSeq, Tokens
<1>4. n < Len(s) => ~IsReply(s[n + 1])
  <2>1. n < Len(s) => s[n + 1] = data[1] /\ 1 \in 1..Len(data)
    BY <1>2
  <2> QED
    BY <2>1, ElementOfSeq, Tokens
<1>5. Replies = n
  <2> DEFINE Split(k) == /\ \A i \in 1..k : IsReply(s[i])
                         /\ k < Len(s) => ~IsReply(s[k + 1])
  <2>1. n \in 0..Len(s) /\ Split(n)
    BY <1>2, <1>3, <1>4
  <2>2. ASSUME NEW k \in 0..Len(s), Split(k)
        PROVE  k = n
    <3>1. CASE k < n
      <4>1. k + 1 \in 1..n /\ k < Len(s)
        BY <1>2, <3>1
      <4> QED
        BY <1>3, <2>2, <4>1
    <3>2. CASE n < k
      <4>1. n + 1 \in 1..k /\ n < Len(s)
        BY <1>2, <3>2
      <4> QED
        BY <1>4, <2>2, <4>1
    <3> QED
      BY <1>2, <3>1, <3>2
  <2>3. Replies = CHOOSE k \in 0..Len(s) : Split(k)
    BY Zenon DEF Replies
  <2> HIDE DEF Split
  <2> QED
    BY <2>1, <2>2, <2>3
<1> HIDE DEF All
<1>6. SubSeq(heard \o data, 1, n) = heard /\ Behind(n, heard \o data) = data
  BY <1>1, Halves
<1> QED
  BY <1>5, <1>6 DEF GotReplies, GotData

LEMMA UpwardIsSent ==
  ASSUME Position, Upward
  PROVE  eaten \in Seq(Sent) /\ eaten \o out["up"] \in Seq(Sent)
<1>1. eaten \in Seq(Sent)
  BY Tokens, SeqMonotonic DEF Position
<1> QED
  BY <1>1, ConcatProperties DEF Upward

LEMMA LogStays ==
  ASSUME InTurn, UNCHANGED <<log, bypass>>
  PROVE  InTurn'
BY DEF InTurn, Messages

\* A reply goes behind those heard so far.
LEMMA SaysNext ==
  ASSUME Shape, OInv, pc \notin {"relay", "closed"}, NEW r, WriteTo("down", <<Reply(r)>>),
         UNCHANGED <<bypass, eaten>>
  PROVE  /\ InTurn' /\ Upward' /\ StaysOrdered("down", <<>>)
         /\ \A d \in Dirs : buf'[d] = <<>> /\ dst'[d] = "open"
         /\ out'["up"] = <<>> /\ src' = src
         /\ \E heard \in Hearings : Hears(heard, <<>>) /\ out'["down"] = heard \o <<Reply(r)>>
<1> USE DEF OInv
<1>1. /\ UNCHANGED <<log, wire, src, buf, dst>> /\ out'["up"] = out["up"]
      /\ out'["down"] = out["down"] \o <<Reply(r)>>
  BY DEF WriteTo, Shape, Carries, Dirs
<1>2. PICK heard \in Hearings, data \in Seq(Sent) :
        out["down"] = heard \o data /\ Ordered("down", data) /\ Hears(heard, data)
  BY DEF Downward
<1>3. data = <<>>
  BY <1>2 DEF Hears
<1>4. out["down"] = heard
  BY <1>2, <1>3, HearingsAreReplies, ConcatEmptySeq
<1>5. StaysOrdered("down", <<>>)
  BY <1>1, <1>2, <1>3, QuietOrders DEF Dirs
<1>6. Upward' /\ InTurn'
  BY <1>1, LogStays DEF Upward, Ordered
<1>7. /\ \A d \in Dirs : buf'[d] = <<>> /\ dst'[d] = "open"
      /\ out'["up"] = <<>>
  BY <1>1 DEF BeforeRelay
<1>8. Hears(heard, <<>>) /\ out'["down"] = heard \o <<Reply(r)>>
  BY <1>1, <1>2, <1>3, <1>4
<1> QED
  BY <1>1, <1>5, <1>6, <1>7, <1>8

LEMMA Tuples ==
  /\ \A a : <<>> \o <<a>> = <<a>> /\ <<a>> \o <<>> = <<a>>
  /\ \A a, b : <<a>> \o <<b>> = <<a, b>> /\ <<a, b>> \o <<>> = <<a, b>>
  /\ \A a, b, c : <<a, b>> \o <<c>> = <<a, b, c>> /\ <<a, b, c>> \o <<>> = <<a, b, c>>
<1>1. ASSUME NEW a, NEW b, NEW c
      PROVE  /\ <<>> \o <<a>> = <<a>> /\ <<a>> \o <<>> = <<a>>
             /\ <<a>> \o <<b>> = <<a, b>> /\ <<a, b>> \o <<>> = <<a, b>>
             /\ <<a, b>> \o <<c>> = <<a, b, c>> /\ <<a, b, c>> \o <<>> = <<a, b, c>>
  <2> DEFINE S == {a, b, c}
  <2>1. <<>> \in Seq(S) /\ <<a>> \in Seq(S) /\ <<a, b>> \in Seq(S) /\ <<a, b, c>> \in Seq(S)
    BY EmptySeq
  <2>2. <<a>> \o <<b>> = Append(<<a>>, b) /\ <<a, b>> \o <<c>> = Append(<<a, b>>, c)
    BY <2>1, AppendIsConcat
  <2>3. Append(<<a>>, b) = <<a, b>>
    <3>1. /\ Append(<<a>>, b) \in Seq(S) /\ Len(Append(<<a>>, b)) = 2
          /\ Append(<<a>>, b)[1] = a /\ Append(<<a>>, b)[2] = b
      BY <2>1, AppendProperties
    <3>2. Len(<<a, b>>) = 2 /\ \A i \in 1..2 : Append(<<a>>, b)[i] = <<a, b>>[i]
      BY <3>1
    <3> QED
      BY <2>1, <3>1, <3>2, SeqEqual
  <2>4. Append(<<a, b>>, c) = <<a, b, c>>
    <3>1. /\ Append(<<a, b>>, c) \in Seq(S) /\ Len(Append(<<a, b>>, c)) = 3
          /\ Append(<<a, b>>, c)[1] = a /\ Append(<<a, b>>, c)[2] = b
          /\ Append(<<a, b>>, c)[3] = c
      BY <2>1, AppendProperties
    <3>2. Len(<<a, b, c>>) = 3 /\ \A i \in 1..3 : Append(<<a, b>>, c)[i] = <<a, b, c>>[i]
      BY <3>1
    <3> QED
      BY <2>1, <3>1, <3>2, SeqEqual
  <2> HIDE DEF S
  <2>5. /\ <<>> \o <<a>> = <<a>> /\ <<a>> \o <<>> = <<a>> /\ <<a, b>> \o <<>> = <<a, b>>
        /\ <<a, b, c>> \o <<>> = <<a, b, c>>
    BY <2>1, ConcatEmptySeq
  <2> QED
    BY <2>2, <2>3, <2>4, <2>5
<1> QED
  BY <1>1

LEMMA PeerOrder ==
  ASSUME IInv, OInv, ClientSends \/ UpstreamSends \/ PeerEnds
  PROVE  OInv'
<1> USE DEF OInv
<1>1. /\ UNCHANGED <<pc, bypass, configured, eaten, counted, out, buf, dst>>
      /\ pc # "closed" /\ Carries(Sent, Added) /\ log \in [Dirs -> Seq(Sent)]
      /\ src \in [Dirs -> {"none", "open", "fin", "broken"}]
  BY DEF ClientSends, UpstreamSends, PeerEnds, session, SendToken, FinishSending, Break,
         IInv, Shape, Carries
<1>2. /\ ClientSends => \E token \in Sent :
           /\ SendToken("up", token)
           /\ Len(log["up"]) < Len(Messages) + MaxData
           /\ Len(log["up"]) < Len(Messages) => token \in FieldTokens /\ token[1] = NextField
      /\ UpstreamSends => \E token \in Sent : SendToken("down", token) /\ Len(log["down"]) < MaxData
  BY ClientToken, UpstreamToken DEF IInv
<1>3. \A d \in Dirs, h \in Seq(Sent) : Ordered(d, h) => StaysOrdered(d, h)
  BY <1>1, <1>2, SendOrders, EndOrders DEF PeerEnds, Dirs
<1>4. InTurn'
  <2>1. Messages' = Messages /\ Len(Messages) \in Nat
    BY <1>1, MessagesAre, LenProperties DEF Messages
  <2>2. CASE ClientSends
    <3>1. PICK token \in Sent :
           /\ SendToken("up", token)
           /\ Len(log["up"]) < Len(Messages) + MaxData
           /\ Len(log["up"]) < Len(Messages) => token \in FieldTokens /\ token[1] = NextField
      BY <1>2, <2>2
    <3> DEFINE l == log["up"]
    <3>2. l \in Seq(Sent) /\ log'["up"] = Append(l, token) /\ log'["down"] = log["down"]
      BY <1>1, <3>1 DEF SendToken, Dirs
    <3>3. NextField = Messages[Len(l) + 1]
      BY DEF NextField
    <3> HIDE DEF l
    <3>4. /\ Len(Append(l, token)) = Len(l) + 1 /\ Len(l) \in Nat
          /\ \A i \in 1..Len(l) : Append(l, token)[i] = l[i]
          /\ Append(l, token)[Len(l) + 1] = token
      BY <3>2, AppendProperties, LenProperties
    <3>5. Len(l) < Len(Messages) + MaxData
          /\ (Len(l) < Len(Messages) => token \in FieldTokens /\ token[1] = NextField)
      BY <3>1 DEF l
    <3>6. \A i \in 1..Len(l) : i <= Len(Messages) => l[i] \in FieldTokens /\ l[i][1] = Messages[i]
      BY DEF InTurn, l
    <3>7. Len(log'["up"]) <= Len(Messages) + MaxData
      BY <2>1, <3>2, <3>4, <3>5, DataAssumption
    <3>8. \A i \in 1..Len(log'["up"]) : i <= Len(Messages) =>
            log'["up"][i] \in FieldTokens /\ log'["up"][i][1] = Messages[i]
      BY <2>1, <3>2, <3>3, <3>4, <3>5, <3>6
    <3> QED
      BY <2>1, <3>2, <3>7, <3>8 DEF InTurn
  <2>3. CASE UpstreamSends
    <3>1. PICK token \in Sent : SendToken("down", token) /\ Len(log["down"]) < MaxData
      BY <1>2, <2>3
    <3>2. /\ log["down"] \in Seq(Sent)
          /\ log'["down"] = Append(log["down"], token) /\ log'["up"] = log["up"]
      BY <1>1, <3>1 DEF SendToken, Dirs
    <3>3. Len(log'["down"]) <= MaxData
      BY <3>1, <3>2, AppendProperties, LenProperties, DataAssumption
    <3> QED
      BY <2>1, <3>2, <3>3 DEF InTurn
  <2>4. CASE PeerEnds
    BY <1>1, <2>4, LogStays DEF PeerEnds, FinishSending, Break
  <2> QED
    BY <2>2, <2>3, <2>4
<1>5. src["down"] # "none" => src'["down"] # "none"
  BY <1>1, <1>2 DEF SendToken, PeerEnds, FinishSending, Break, Dirs
<1>6. Position' /\ BeforeRelay' /\ CountedAtEnd'
  <2>1. Messages' = Messages
    BY <1>1 DEF Messages
  <2> QED
    BY <1>1, <1>5, <2>1 DEF Position, BeforeRelay, CountedAtEnd, CopyDone
<1>7. Upward'
  BY <1>1, <1>3, UpwardIsSent DEF Upward, Ordered, StaysOrdered, Dirs
<1>8. Downward'
  <2>1. PICK heard \in Hearings, data \in Seq(Sent) :
          out["down"] = heard \o data /\ Ordered("down", data) /\ Hears(heard, data)
    BY DEF Downward
  <2>2. StaysOrdered("down", data)
    BY <1>3, <2>1 DEF Dirs
  <2>3. Hears(heard, data)'
    BY <1>1, <1>5, <2>1 DEF Hears, Admission
  <2> QED
    BY <1>1, <2>1, <2>2, <2>3 DEF Downward, Ordered, StaysOrdered
<1> QED
  BY <1>4, <1>6, <1>7, <1>8

\* The session reads the field it waits for, since the client sends them in turn.
LEMMA ReadInTurn ==
  ASSUME IInv, OInv, ReadField
  PROVE  LET token == Head(wire["up"])
         IN  /\ token \in FieldTokens /\ token[1] = pc
             /\ eaten' = Append(eaten, token)
             /\ StaysOrdered("up", eaten') /\ out["up"] = <<>>
             /\ \A h \in Seq(Sent) : Ordered("down", h) => StaysOrdered("down", h)
<1> USE DEF OInv
<1> DEFINE w == wire["up"]
           token == Head(w)
           n == Len(eaten)
<1>1. /\ Take(1) /\ eaten' = Append(eaten, token)
      /\ Carries(Sent, Added) /\ w \in Seq(Sent) /\ 1 \in 1..Len(w)
      /\ pc \in {"hello", "methods", "authver", "user", "pass", "head", "addr", "port"}
  BY DEF ReadField, Take, Waiting, IInv, Shape, Carries, Dirs
<1>2. out["up"] = <<>> /\ buf["up"] = <<>> /\ eaten \in Seq(Sent) /\ Ordered("up", eaten)
  <2>1. out["up"] = <<>> /\ buf["up"] = <<>> /\ eaten \in Seq(Sent)
    BY <1>1, UpwardIsSent DEF BeforeRelay, Dirs
  <2>2. eaten \o <<>> = eaten
    BY <2>1, ConcatEmptySeq
  <2> QED
    BY <2>1, <2>2 DEF Upward
<1>3. w # <<>> /\ Len(w) \in Nat /\ Len(w) >= 1 /\ token = w[1] /\ token \in Sent
      /\ SubSeq(w, 1, 1) = <<token>>
  <2> HIDE DEF w
  <2>1. w # <<>> /\ Len(w) \in Nat /\ token = w[1] /\ token \in Sent
    BY <1>1, Cut, LenProperties
  <2>2. SubSeq(w, 1, 1) \in Seq(Sent) /\ Len(SubSeq(w, 1, 1)) = 1 /\ SubSeq(w, 1, 1)[1] = w[1]
    <3>1. \A i \in 1..1 : w[i] \in Sent
      BY <2>1
    <3>2. /\ SubSeq(w, 1, 1) \in Seq(Sent)
          /\ Len(SubSeq(w, 1, 1)) = IF 1 <= 1 THEN 1 - 1 + 1 ELSE 0
          /\ \A i \in 1..1 - 1 + 1 : SubSeq(w, 1, 1)[i] = w[1 + i - 1]
      BY <3>1, SubSeqProperties
    <3> QED
      BY <3>2
  <2>3. <<token>> \in Seq(Sent) /\ Len(<<token>>) = 1 /\ <<token>>[1] = token
    BY <2>1
  <2>4. SubSeq(w, 1, 1) = <<token>>
    <3> DEFINE first == SubSeq(w, 1, 1)
               one   == <<token>>
    <3>1. /\ first \in Seq(Sent) /\ one \in Seq(Sent) /\ Len(first) = Len(one)
          /\ \A i \in 1..Len(first) : first[i] = one[i]
      BY <2>1, <2>2, <2>3
    <3> HIDE DEF first, one
    <3>2. first = one
      BY ONLY <3>1, SeqEqual
    <3> QED
      BY <3>2 DEF first, one
  <2>5. Len(w) >= 1
    BY <1>1, <2>1
  <2> QED
    BY ONLY <2>1, <2>4, <2>5, Zenon
<1>4. log["up"] = eaten \o w
  <2>1. src["up"] # "broken"
    BY <1>2, <1>3 DEF Ordered, InOrder
  <2>2. eaten \o <<>> = eaten
    BY <1>2, ConcatEmptySeq
  <2> QED
    BY <1>2, <2>1, <2>2 DEF Ordered, InOrder
<1>5. n + 1 \in 1..Len(log["up"]) /\ log["up"][n + 1] = token
  <2> HIDE DEF w, token
  <2>1. eaten \in Seq(Sent) /\ w \in Seq(Sent)
    BY <1>1, <1>2
  <2>2. /\ Len(eaten \o w) = n + Len(w) /\ n \in Nat
        /\ \A i \in 1..n + Len(w) :
             (eaten \o w)[i] = IF i <= n THEN eaten[i] ELSE w[i - n]
    BY ONLY <2>1, ConcatProperties, LenProperties, SMT
  <2>3. n + 1 \in 1..n + Len(w) /\ ~(n + 1 <= n) /\ n + 1 - n = 1
    BY <1>3, <2>2
  <2>4. (eaten \o w)[n + 1] = w[1] /\ n + 1 \in 1..Len(eaten \o w)
    BY ONLY <2>2, <2>3, SMT
  <2> QED
    BY ONLY <1>3, <1>4, <2>4, SMT
<1>6. n + 1 <= Len(Messages) /\ Messages[n + 1] = pc
  <2> DEFINE m == Len(Messages)
             M == Messages
  <2>1. /\ pc = "hello" => n = 0
        /\ pc = "methods" => n = 1
        /\ pc = "authver" => n = 2 /\ ~bypass
        /\ pc = "user" => n = 3 /\ ~bypass
        /\ pc = "pass" => n = 4 /\ ~bypass
        /\ pc = "head" => n = m - 3
        /\ pc = "addr" => n = m - 2
        /\ pc = "port" => n = m - 1
    BY DEF Position, IInv, Credentials, Authenticating
  <2>2. /\ m = (IF bypass THEN 5 ELSE 8)
        /\ M[1] = "hello" /\ M[2] = "methods"
        /\ bypass => M[3] = "head" /\ M[4] = "addr" /\ M[5] = "port"
        /\ ~bypass => /\ M[3] = "authver" /\ M[4] = "user" /\ M[5] = "pass"
                      /\ M[6] = "head" /\ M[7] = "addr" /\ M[8] = "port"
    BY MessagesAre
  <2>3. pc \in {"hello", "methods", "authver", "user", "pass", "head", "addr", "port"}
    BY <1>1
  <2> HIDE DEF n, m, M
  <2>4. CASE bypass
    BY ONLY <2>1, <2>2, <2>3, <2>4, SMT DEF m, M
  <2>5. CASE ~bypass
    BY ONLY <2>1, <2>2, <2>3, <2>5, SMT DEF m, M
  <2> QED
    BY <2>4, <2>5
<1>7. token \in FieldTokens /\ token[1] = pc
  BY <1>5, <1>6 DEF InTurn
<1>8. StaysOrdered("up", eaten')
  <2>1. StaysOrdered("up", eaten \o SubSeq(w, 1, 1))
    BY <1>1, <1>2, TakeOrders
  <2>2. eaten \o <<token>> = Append(eaten, token)
    <3> HIDE DEF token
    <3> QED
      BY <1>2, <1>3, AppendIsConcat
  <2> QED
    BY <1>1, <1>3, <2>1, <2>2
<1>9. \A h \in Seq(Sent) : Ordered("down", h) => StaysOrdered("down", h)
  BY <1>1, TakeOrders
<1> QED
  BY <1>1, <1>2, <1>7, <1>8, <1>9

LEMMA ReadOrder ==
  ASSUME IInv, OInv, ReadField
  PROVE  OInv'
<1> USE DEF OInv
<1> DEFINE token == Head(wire["up"])
<1>1. /\ token \in FieldTokens /\ token[1] = pc /\ eaten' = Append(eaten, token)
      /\ StaysOrdered("up", eaten') /\ out["up"] = <<>>
      /\ \A h \in Seq(Sent) : Ordered("down", h) => StaysOrdered("down", h)
  BY ReadInTurn
<1>2. /\ UNCHANGED <<bypass, configured, log, src, buf, out, dst>>
      /\ pc \in {"hello", "methods", "authver", "user", "pass", "head", "addr", "port"}
  BY DEF ReadField, Take, Waiting, session
<1>3. \/ pc' = After[pc] /\ UNCHANGED counted
      \/ pc \in {"hello", "methods"} /\ pc' = "reject" /\ UNCHANGED counted
      \/ pc' = "closed" /\ counted' = CountAuth
  BY DEF ReadField
<1> HIDE DEF token
<1>4. /\ eaten \in Seq(FieldTokens) /\ eaten' \in Seq(FieldTokens) /\ Len(eaten) \in Nat
      /\ Len(eaten') = Len(eaten) + 1
  BY <1>1, AppendProperties, LenProperties DEF Position
<1>5. \/ pc = "hello" /\ pc' = "methods"
      \/ pc = "methods" /\ pc' = "select"
      \/ pc = "authver" /\ pc' = "user"
      \/ pc = "user" /\ pc' = "pass"
      \/ pc = "pass" /\ pc' = "login"
      \/ pc = "head" /\ pc' = "addr"
      \/ pc = "addr" /\ pc' = "port"
      \/ pc = "port" /\ pc' = "command"
      \/ pc \in {"hello", "methods"} /\ pc' = "reject"
      \/ pc' = "closed"
  BY <1>2, <1>3 DEF After
<1>6. InTurn'
  BY <1>2, LogStays
<1>7. Position'
  <2>1. Messages' = Messages
    BY <1>2 DEF Messages
  <2>2. Len(Messages) \in Nat
    BY MessagesAre, LenProperties
  <2> DEFINE n == Len(eaten)
             m == Len(Messages)
  <2>3. /\ pc = "hello" => n = 0
        /\ pc = "methods" => n = 1
        /\ pc = "authver" => n = 2
        /\ pc = "user" => n = 3
        /\ pc = "pass" => n = 4
        /\ pc = "head" => n = m - 3
        /\ pc = "addr" => n = m - 2
        /\ pc = "port" => n = m - 1
    BY DEF Position
  <2>4. /\ pc' = "methods" => Len(eaten') = 1
        /\ pc' = "select" => Len(eaten') = 2
        /\ pc' = "user" => Len(eaten') = 3
        /\ pc' = "pass" => Len(eaten') = 4
        /\ pc' = "login" => Len(eaten') = 5
        /\ pc' = "addr" => Len(eaten') = m - 2
        /\ pc' = "port" => Len(eaten') = m - 1
        /\ pc' = "command" => Len(eaten') = m
        /\ pc' \in {"methods", "select", "user", "pass", "login", "addr", "port", "command",
                   "reject", "closed"}
    <3> DEFINE k == Len(eaten')
    <3>1. k = n + 1 /\ n \in Nat /\ m \in Nat
      BY <1>4, <2>2
    <3> HIDE DEF k, n, m
    <3> QED
      BY ONLY <1>5, <2>3, <3>1, SMT DEF k
  <2>5. eaten' \in Seq(FieldTokens) /\ Len(Messages') = m
    BY <1>4, <2>1
  <2> HIDE DEF m
  <2> QED
    BY ONLY <2>4, <2>5, SMT DEF Position
<1>8. BeforeRelay'
  BY <1>2, <1>5 DEF BeforeRelay
<1>9. Upward'
  <2>1. eaten' \in Seq(Sent) /\ eaten' \o <<>> = eaten'
    BY <1>4, Tokens, SeqMonotonic, ConcatEmptySeq
  <2> QED
    BY <1>1, <1>2, <2>1 DEF Upward, Ordered, StaysOrdered
<1>10. Downward'
  <2>1. PICK heard \in Hearings, data \in Seq(Sent) :
          out["down"] = heard \o data /\ Ordered("down", data) /\ Hears(heard, data)
    BY DEF Downward
  <2>2. StaysOrdered("down", data)
    BY <1>1, <2>1
  <2>3. Hears(heard, data)'
    <3>1. data = <<>>
      BY <1>2, <2>1 DEF Hears
    <3>2. \/ pc \in Negotiation /\ pc' \in Negotiation
          \/ pc \in Authenticating /\ pc' \in Authenticating
          \/ pc \in Admitted \ {"relay"} /\ pc' \in Admitted \ {"relay"}
          \/ pc' = "closed"
      BY <1>5 DEF Negotiation, Authenticating, Admitted
    <3>3. /\ Negotiation \cap Authenticating = {} /\ Negotiation \cap Admitted = {}
          /\ Authenticating \cap Admitted = {}
          /\ "closed" \notin Negotiation \cup Authenticating \cup Admitted
      BY DEF Negotiation, Authenticating, Admitted
    <3> QED
      BY <1>2, <2>1, <3>1, <3>2, <3>3 DEF Hears, Admission
  <2> QED
    BY <1>2, <2>1, <2>2, <2>3 DEF Downward, Ordered, StaysOrdered
<1>11. CountedAtEnd'
  <2>1. ~CopyDone /\ ~CopyDone' /\ pc # "closed"
    BY <1>2 DEF BeforeRelay, CopyDone, Dirs
  <2>2. counted = Zero /\ counted' \in {Zero, [Zero EXCEPT !.auth = 1]}
    BY <1>2, <1>3, <2>1 DEF CountedAtEnd, CountAuth, Zero
  <2>3. pc' # "closed" => counted' = counted
    BY <1>3
  <2> QED
    BY <2>1, <2>2, <2>3, DataAssumption DEF CountedAtEnd, Zero
<1> QED
  BY <1>6, <1>7, <1>8, <1>9, <1>10, <1>11

\* Before the relay is done nothing but failures is counted, and they last.
LEMMA CountsAtEnd ==
  ASSUME CountedAtEnd, pc # "closed", pc' # "closed" => counted' = counted, ~CopyDone',
         counted' \in {counted, [counted EXCEPT !.auth = @ + 1],
                      [counted EXCEPT !.connect = @ + 1], [counted EXCEPT !.relay = @ + 1]}
  PROVE  CountedAtEnd'
<1>1. counted = Zero
  BY DEF CountedAtEnd
<1>2. /\ counted' \in [auth : 0..1, connect : 0..1, relay : 0..1, up : 0..MaxData, down : 0..MaxData]
      /\ counted'.up = 0 /\ counted'.down = 0
  BY <1>1, DataAssumption DEF Zero
<1> QED
  BY <1>1, <1>2 DEF CountedAtEnd

\* The session answers: the client has heard now.
LEMMA SayOrder ==
  ASSUME Shape, OInv, pc \notin {"relay", "closed"}, NEW r, WriteTo("down", <<Reply(r)>>),
         UNCHANGED <<bypass, eaten>>, NEW now \in Hearings,
         \A heard \in Hearings : Hears(heard, <<>>) => heard \o <<Reply(r)>> = now,
         Position', pc' # "reply", Hears(now, <<>>)', pc' # "closed" => counted' = counted,
         counted' \in {counted, [counted EXCEPT !.auth = @ + 1]}
  PROVE  OInv'
<1>1. /\ InTurn' /\ Upward' /\ StaysOrdered("down", <<>>)
      /\ \A d \in Dirs : buf'[d] = <<>> /\ dst'[d] = "open"
      /\ out'["up"] = <<>> /\ src' = src
      /\ \E heard \in Hearings : Hears(heard, <<>>) /\ out'["down"] = heard \o <<Reply(r)>>
  BY SaysNext
<1>2. BeforeRelay'
  BY <1>1 DEF BeforeRelay
<1>3. ~CopyDone'
  BY <1>1 DEF CopyDone, Dirs
<1>4. CountedAtEnd'
  BY <1>3, CountsAtEnd DEF OInv
<1>5. Downward'
  <2>1. out'["down"] = now
    BY <1>1
  <2>2. now \o <<>> = now /\ <<>> \in Seq(Sent)
    BY HearingsAreReplies, ConcatEmptySeq, EmptySeq
  <2> QED
    BY <1>1, <2>1, <2>2 DEF Downward, Ordered, StaysOrdered
<1> QED
  BY <1>1, <1>2, <1>4, <1>5 DEF OInv

LEMMA AnswerOrder ==
  ASSUME IInv, OInv, Reject \/ SelectMethod \/ AuthOk \/ AuthBad \/ SendReply
  PROVE  OInv'
<1> USE DEF IInv
<1>1. UNCHANGED <<bypass, configured, eaten>> /\ Messages' = Messages
  <2>1. UNCHANGED <<bypass, configured, eaten>>
    BY DEF Reject, SelectMethod, AuthOk, AuthBad, SendReply, session
  <2> QED
    BY <2>1 DEF Messages
<1>2. Len(Messages) = (IF bypass THEN 5 ELSE 8)
  BY MessagesAre
<1>3. Position
  BY DEF OInv
<1>4. CASE Reject
  <2>1. pc = "reject" /\ pc' = "closed" /\ WriteTo("down", <<Reply("noMethod")>>)
    BY <1>4 DEF Reject
  <2>2. \A heard \in Hearings : Hears(heard, <<>>) => heard \o <<Reply("noMethod")>> = <<Reply("noMethod")>>
    BY <2>1, Tuples DEF Hears, Negotiation
  <2>3. <<Reply("noMethod")>> \in Hearings
    BY DEF Hearings
  <2>4. Hears(<<Reply("noMethod")>>, <<>>)'
    BY <2>1 DEF Hears, Negotiation, Authenticating, Admitted, Reply
  <2>5. Position'
    BY <1>1, <1>3, <2>1 DEF Position
  <2> QED
    BY <1>1, <1>4, <2>1, <2>2, <2>3, <2>4, <2>5, SayOrder DEF Reject, CountAuth
<1>5. CASE AuthBad
  <2>1. pc = "authBad" /\ pc' = "closed" /\ WriteTo("down", <<Reply("authBad")>>)
    BY <1>5 DEF AuthBad, Goto
  <2>2. \A heard \in Hearings : Hears(heard, <<>>) => heard \o <<Reply("authBad")>> = <<Chosen, Reply("authBad")>>
    BY <2>1, Tuples DEF Hears, Authenticating
  <2>3. <<Chosen, Reply("authBad")>> \in Hearings
    BY DEF Hearings
  <2>4. Hears(<<Chosen, Reply("authBad")>>, <<>>)'
    BY <2>1 DEF Hears, Negotiation, Authenticating, Admitted, Reply, Chosen
  <2>5. Position'
    BY <1>1, <1>3, <2>1 DEF Position
  <2> QED
    BY <1>1, <1>5, <2>1, <2>2, <2>3, <2>4, <2>5, SayOrder DEF AuthBad, CountAuth
<1>6. CASE SelectMethod
  <2>1. /\ pc = "select" /\ pc' = (IF bypass THEN "head" ELSE "authver")
        /\ WriteTo("down", <<Chosen>>) /\ UNCHANGED counted
    BY <1>6 DEF SelectMethod, Goto, Chosen
  <2>2. \A heard \in Hearings : Hears(heard, <<>>) => heard \o <<Chosen>> = <<Chosen>>
    BY <2>1, Tuples DEF Hears, Negotiation
  <2>3. <<Chosen>> \in Hearings
    BY DEF Hearings
  <2>4. Hears(<<Chosen>>, <<>>)'
    BY <1>1, <2>1 DEF Hears, Negotiation, Authenticating, Admitted, Admission, Reply, Chosen
  <2>5. Position'
    <3>1. eaten \in Seq(FieldTokens) /\ Len(eaten) = 2
      BY <1>3, <2>1 DEF Position
    <3>2. eaten' \in Seq(FieldTokens) /\ Len(eaten') = 2 /\ pc' \in {"head", "authver"}
          /\ (pc' = "head" => Len(Messages') = 5)
      BY <1>1, <1>2, <2>1, <3>1
    <3> QED
      BY ONLY <3>2, SMT DEF Position
  <2> QED
    BY <1>1, <2>1, <2>2, <2>3, <2>4, <2>5, SayOrder DEF Chosen
<1>7. CASE AuthOk
  <2>1. /\ pc = "authOk" /\ pc' = "head" /\ ~bypass
        /\ WriteTo("down", <<Reply("authOk")>>) /\ UNCHANGED counted
    BY <1>7 DEF AuthOk, Goto, Credentials, Authenticating
  <2>2. \A heard \in Hearings : Hears(heard, <<>>) => heard \o <<Reply("authOk")>> = <<Chosen, Reply("authOk")>>
    BY <2>1, Tuples DEF Hears, Authenticating
  <2>3. <<Chosen, Reply("authOk")>> \in Hearings
    BY DEF Hearings
  <2>4. Hears(<<Chosen, Reply("authOk")>>, <<>>)'
    BY <1>1, <2>1 DEF Hears, Negotiation, Authenticating, Admitted, Admission, Reply, Chosen
  <2>5. Position'
    <3>1. eaten \in Seq(FieldTokens) /\ Len(eaten) = 5
      BY <1>3, <2>1 DEF Position
    <3>2. eaten' \in Seq(FieldTokens) /\ Len(eaten') = 5 /\ pc' = "head" /\ Len(Messages') = 8
      BY <1>1, <1>2, <2>1, <3>1
    <3> QED
      BY ONLY <3>2, SMT DEF Position
  <2> QED
    BY <1>1, <2>1, <2>2, <2>3, <2>4, <2>5, SayOrder
<1>8. CASE SendReply
  <2>1. /\ pc = "reply" /\ pc' = "relay" /\ src' = src /\ src["down"] # "none"
        /\ WriteTo("down", <<Reply("connected")>>) /\ UNCHANGED counted
    BY <1>8 DEF SendReply, Goto, WriteTo, OInv, BeforeRelay
  <2>2. \A heard : Hears(heard, <<>>) => heard = Admission
    BY <2>1 DEF Hears, Admitted
  <2>3. PICK now \in Hearings : Admission \o <<Reply("connected")>> = now
    BY Tuples DEF Hearings, Admission
  <2>4. Hears(now, <<>>)'
    BY <2>1 DEF Hears, Negotiation, Authenticating, Admitted
  <2>5. Position'
    BY <1>1, <1>3, <2>1 DEF Position
  <2> QED
    BY <1>1, <2>1, <2>2, <2>3, <2>4, <2>5, SayOrder
<1> QED
  BY <1>4, <1>5, <1>6, <1>7, <1>8

\* Nothing moves: the session only goes to another place.
LEMMA QuietOrder ==
  ASSUME OInv, UNCHANGED <<pipe, bypass, eaten>>, Position', BeforeRelay', CountedAtEnd',
         \A heard \in Hearings, data \in Seq(Sent) : Hears(heard, data) => Hears(heard, data)'
  PROVE  OInv'
<1> USE DEF OInv
<1>1. UNCHANGED <<log, wire, src, buf, out, dst>> /\ UNCHANGED <<bypass, eaten>>
  BY DEF pipe
<1>2. InTurn'
  BY <1>1, LogStays
<1>3. Upward'
  BY <1>1 DEF Upward, Ordered
<1>4. Downward'
  <2>1. PICK heard \in Hearings, data \in Seq(Sent) :
          out["down"] = heard \o data /\ Ordered("down", data) /\ Hears(heard, data)
    BY DEF Downward
  <2>2. Ordered("down", data)' /\ Hears(heard, data)'
    BY <1>1, <2>1 DEF Ordered
  <2> QED
    BY <1>1, <2>1, <2>2 DEF Downward
<1> QED
  BY <1>2, <1>3, <1>4

LEMMA CloseOrder ==
  ASSUME OInv, pc # "closed", pc' = "closed", UNCHANGED <<pipe, bypass, eaten>>, CountedAtEnd'
  PROVE  OInv'
<1>1. Position' /\ BeforeRelay'
  BY DEF OInv, Position, BeforeRelay
<1>2. UNCHANGED src
  BY DEF pipe
<1>3. \A heard \in Hearings, data \in Seq(Sent) : Hears(heard, data) => Hears(heard, data)'
  BY <1>2 DEF Hears, Negotiation, Authenticating, Admitted
<1> QED
  BY <1>1, <1>3, QuietOrder

LEMMA FailureOrder ==
  ASSUME OInv, ReadFails \/ WriteFails \/ ConnectFails \/ UdpEnds \/ UNCHANGED vars
  PROVE  OInv'
<1> USE DEF OInv
<1>1. CASE UNCHANGED vars
  <2>1. /\ UNCHANGED <<pipe, bypass, eaten>> /\ UNCHANGED <<pc, counted, src, dst, buf, out, log>>
        /\ Messages' = Messages
    BY <1>1 DEF vars, pipe, Messages
  <2>2. Position' /\ BeforeRelay' /\ CountedAtEnd'
    BY <2>1 DEF Position, BeforeRelay, CountedAtEnd, CopyDone
  <2>3. \A heard \in Hearings, data \in Seq(Sent) : Hears(heard, data) => Hears(heard, data)'
    BY <2>1 DEF Hears, Admission
  <2> QED
    BY <2>1, <2>2, <2>3, QuietOrder
<1>2. CASE ReadFails \/ WriteFails \/ ConnectFails \/ UdpEnds
  <2>1. /\ pc \notin {"relay", "closed"} /\ pc' = "closed" /\ UNCHANGED <<pipe, bypass, eaten>>
    BY <1>2 DEF ReadFails, WriteFails, ConnectFails, UdpEnds, Fail, Goto, Waiting, Writing, session
  <2>2. counted' \in {counted, [counted EXCEPT !.auth = @ + 1], [counted EXCEPT !.connect = @ + 1]}
    BY <1>2 DEF ReadFails, WriteFails, ConnectFails, UdpEnds, Fail, CountAuth
  <2>3. ~CopyDone'
    BY <2>1 DEF BeforeRelay, CopyDone, pipe, Dirs
  <2>4. CountedAtEnd'
    BY <2>1, <2>2, <2>3, CountsAtEnd
  <2> QED
    BY <2>1, <2>4, CloseOrder
<1> QED
  BY <1>1, <1>2

LEMMA DecisionOrder ==
  ASSUME IInv, OInv, CheckLogin \/ Dispatch
  PROVE  OInv'
<1> USE DEF OInv
<1>1. /\ pc \in {"login", "command"} /\ pc' \in {"authOk", "authBad", "connect", "udp", "closed"}
      /\ pc = "login" <=> pc' \in {"authOk", "authBad"} \/ (pc' = "closed" /\ CheckLogin)
      /\ UNCHANGED <<pipe, bypass, eaten>>
      /\ counted' \in {counted, [counted EXCEPT !.auth = @ + 1]}
      /\ pc' # "closed" => counted' = counted
  BY DEF CheckLogin, Dispatch, CountAuth, session
<1>2. ~CopyDone'
  BY <1>1 DEF BeforeRelay, CopyDone, pipe, Dirs
<1>3. CountedAtEnd'
  BY <1>1, <1>2, CountsAtEnd
<1>4. CASE pc' = "closed"
  BY <1>1, <1>3, <1>4, CloseOrder
<1>5. CASE pc' # "closed"
  <2>1. \/ pc = "login" /\ pc' \in {"authOk", "authBad"}
        \/ pc = "command" /\ pc' \in {"connect", "udp"}
    BY <1>1, <1>5
  <2>2. UNCHANGED <<src, buf, dst, out>> /\ Messages' = Messages
    BY <1>1 DEF pipe, Messages
  <2>3. BeforeRelay'
    BY <2>1, <2>2 DEF BeforeRelay
  <2>4. Position'
    BY <1>1, <2>1, <2>2 DEF Position
  <2>5. \A heard \in Hearings, data \in Seq(Sent) : Hears(heard, data) => Hears(heard, data)'
    BY <1>1, <2>1, <2>2 DEF Hears, Admission, Negotiation, Authenticating, Admitted
  <2> QED
    BY <1>1, <1>3, <2>3, <2>4, <2>5, QuietOrder
<1> QED
  BY <1>4, <1>5

LEMMA ConnectOrder ==
  ASSUME IInv, OInv, Connect
  PROVE  OInv'
<1> USE DEF OInv
<1>1. /\ pc = "connect" /\ pc' = "reply" /\ ConnectUpstream
      /\ UNCHANGED <<log, wire, buf, out, dst>> /\ UNCHANGED <<bypass, configured, eaten, counted>>
      /\ Carries(Sent, Added) /\ src["down"] = "none"
  BY DEF Connect, Goto, ConnectUpstream, session, IInv, Shape, Credentials
<1>2. src'["down"] = "open" /\ Messages' = Messages
  BY <1>1, ConnectCarries DEF Messages
<1>3. \A d \in Dirs, h \in Seq(Sent) : Ordered(d, h) => StaysOrdered(d, h)
  BY <1>1, ConnectOrders
<1>4. InTurn'
  BY <1>1, LogStays
<1>5. Position' /\ BeforeRelay'
  BY <1>1, <1>2 DEF Position, BeforeRelay
<1>6. CountedAtEnd'
  BY <1>1 DEF CountedAtEnd, CopyDone
<1>7. Upward'
  BY <1>1, <1>3, UpwardIsSent DEF Upward, Ordered, StaysOrdered, Dirs
<1>8. Downward'
  <2>1. PICK heard \in Hearings, data \in Seq(Sent) :
          out["down"] = heard \o data /\ Ordered("down", data) /\ Hears(heard, data)
    BY DEF Downward
  <2>2. StaysOrdered("down", data)
    BY <1>3, <2>1 DEF Dirs
  <2>3. Hears(heard, data)'
    BY <1>1, <1>2, <2>1 DEF Hears, Admission, Negotiation, Authenticating, Admitted
  <2> QED
    BY <1>1, <2>1, <2>2, <2>3 DEF Downward, Ordered, StaysOrdered
<1> QED
  BY <1>4, <1>5, <1>6, <1>7, <1>8

LEMMA RelayOrder ==
  ASSUME IInv, OInv, Relay
  PROVE  OInv'
<1> USE DEF OInv
<1>1. /\ pc = "relay" /\ CopyStep /\ UNCHANGED <<pc, bypass, configured, eaten, counted>>
      /\ Carries(Sent, Added)
  BY DEF Relay, session, IInv, Shape
<1>2. UNCHANGED <<log, src>> /\ Messages' = Messages
  <2>1. UNCHANGED <<log, src>>
    BY <1>1 DEF CopyStep, CopyRead, CopyWrite, CopyEof
  <2> QED
    BY <1>1, <2>1 DEF Messages
<1>3. InTurn'
  BY <1>1, <1>2, LogStays
<1>4. Position' /\ BeforeRelay'
  BY <1>1, <1>2 DEF Position, BeforeRelay
<1>5. CountedAtEnd'
  BY <1>1 DEF CountedAtEnd, Zero
<1>6. Upward'
  <2> DEFINE o == out["up"]
             h == eaten \o o
  <2>1. o \in Seq(Sent) /\ eaten \in Seq(Sent) /\ h \in Seq(Sent) /\ Ordered("up", h) /\ "up" \in Dirs
    BY UpwardIsSent DEF Upward, Dirs
  <2>2. \/ out'["up"] = o /\ StaysOrdered("up", h)
        \/ \E t \in Sent : out'["up"] = Append(o, t) /\ StaysOrdered("up", Append(h, t))
    <3> HIDE DEF h
    <3> QED
      BY <1>1, <2>1, CopyOrders
  <2>3. \A t \in Sent : Append(o, t) \in Seq(Sent) /\ eaten \o Append(o, t) = Append(h, t)
    <3> HIDE DEF o
    <3> QED
      BY ONLY <2>1, AppendOfConcat, AppendProperties, SMT
  <2> HIDE DEF o
  <2>4. out'["up"] \in Seq(Sent) /\ StaysOrdered("up", eaten \o out'["up"])
    BY <2>1, <2>2, <2>3
  <2> QED
    BY <1>1, <2>4 DEF Upward, Ordered, StaysOrdered
<1>7. Downward'
  <2>1. PICK heard \in Hearings, data \in Seq(Sent) :
          out["down"] = heard \o data /\ Ordered("down", data) /\ Hears(heard, data)
    BY DEF Downward
  <2>2. PICK data2 \in Seq(Sent) : out'["down"] = heard \o data2 /\ StaysOrdered("down", data2)
    <3>1. \/ out'["down"] = out["down"] /\ StaysOrdered("down", data)
          \/ \E t \in Sent : out'["down"] = Append(out["down"], t) /\ StaysOrdered("down", Append(data, t))
      BY <1>1, <2>1, CopyOrders DEF Dirs
    <3>2. \A t \in Sent : Append(data, t) \in Seq(Sent)
      BY AppendProperties
    <3>3. heard \in Seq(Sent \cup Added) /\ data \in Seq(Sent \cup Added)
      <4>1. heard \in Seq(Added \cup Sent)
        BY HearingsAreReplies, WiderSeq
      <4>2. Added \cup Sent = Sent \cup Added
        OBVIOUS
      <4> QED
        BY <4>1, <4>2, WiderSeq
    <3>4. \A t \in Sent : heard \o Append(data, t) = Append(heard \o data, t)
      <4> DEFINE All == Sent \cup Added
      <4>1. heard \in Seq(All) /\ data \in Seq(All) /\ \A t \in Sent : t \in All
        BY <3>3
      <4> HIDE DEF All
      <4> QED
        BY ONLY <4>1, AppendOfConcat, SMT
    <3> QED
      BY <2>1, <3>1, <3>2, <3>4
  <2>3. Hears(heard, data2)'
    BY <1>1, <1>2, <2>1 DEF Hears, Negotiation, Authenticating, Admitted
  <2> QED
    BY <2>2, <2>3 DEF Downward, Ordered, StaysOrdered
<1> QED
  BY <1>3, <1>4, <1>5, <1>6, <1>7

LEMMA RelayEndOrder ==
  ASSUME IInv, OInv, RelayEnds \/ RelayFails
  PROVE  OInv'
<1> USE DEF OInv
<1>1. /\ pc = "relay" /\ pc' = "closed" /\ UNCHANGED <<pipe, bypass, eaten>>
      /\ counted = Zero
  BY DEF RelayEnds, RelayFails, Goto, session, CountedAtEnd
<1>2. UNCHANGED <<log, wire, src, buf, out, dst>> /\ Messages' = Messages
  BY <1>1 DEF pipe, Messages
<1>3. PICK heard \in Hearings, data \in Seq(Sent) :
        out["down"] = heard \o data /\ Ordered("down", data) /\ Hears(heard, data)
  BY DEF Downward
<1>4. CASE RelayFails
  <2>1. ~CopyDone
    <3>1. \A d \in Dirs : \E h : Ordered(d, h)
      BY <1>3 DEF Upward, Dirs
    <3>2. PICK d \in Dirs :
            \/ dst[d] = "open"
            \/ buf[Back(d)] # <<>>
            \/ src[Back(d)] = "fin" /\ wire[Back(d)] = <<>> /\ dst[Back(d)] = "open"
      BY <1>4 DEF RelayFails, CopyBroken
    <3>3. Back(d) \in Dirs
      BY DEF Back, Dirs
    <3> QED
      BY <3>1, <3>2, <3>3 DEF CopyDone, Ordered, InOrder
  <2>2. ~CopyDone'
    BY <1>2, <2>1 DEF CopyDone
  <2>3. CountedAtEnd'
    BY <1>1, <1>4, <2>2, CountsAtEnd DEF RelayFails
  <2> QED
    BY <1>1, <2>3, CloseOrder
<1>5. CASE RelayEnds
  <2>1. CopyDone /\ counted' = [counted EXCEPT !.up = Len(out["up"]), !.down = Len(GotData)]
    BY <1>5 DEF RelayEnds
  <2>2. GotData = data /\ data = log["down"]
    BY <1>3, <2>1, HeardIsGot DEF CopyDone, Ordered, InOrder, Dirs
  <2>3. Len(log["down"]) \in 0..MaxData
    <3>1. Len(log["down"]) \in Nat
      BY <2>2, LenProperties
    <3> QED
      BY <3>1, DataAssumption DEF InTurn
  <2>4. Len(eaten) = Len(Messages) /\ eaten \o out["up"] = log["up"]
    BY <1>1, <2>1 DEF Position, Upward, CopyDone, Ordered, InOrder, Dirs
  <2>5. Len(out["up"]) \in 0..MaxData
    <3> DEFINE o == out["up"]
    <3>1. o \in Seq(Sent) /\ eaten \in Seq(Sent)
      BY UpwardIsSent DEF Upward
    <3> HIDE DEF o
    <3>2. Len(eaten \o o) = Len(eaten) + Len(o) /\ Len(eaten) \in Nat /\ Len(o) \in Nat
      BY ONLY <3>1, ConcatProperties, LenProperties, SMT
    <3>3. Len(eaten \o o) <= Len(Messages) + MaxData
      BY <2>4 DEF InTurn, o
    <3>4. Len(o) \in 0..MaxData
      BY <2>4, <3>2, <3>3, DataAssumption
    <3> QED
      BY <3>4 DEF o
  <2>6. counted' = [Zero EXCEPT !.up = Len(out["up"]), !.down = Len(log["down"])]
    BY <1>1, <2>1, <2>2, Zenon
  <2>7. counted' = [auth |-> 0, connect |-> 0, relay |-> 0,
                    up |-> Len(out["up"]), down |-> Len(log["down"])]
    BY <2>6 DEF Zero
  <2>8. CountedAtEnd'
    BY <1>1, <1>2, <2>1, <2>3, <2>4, <2>5, <2>6, <2>7 DEF CountedAtEnd, CopyDone
  <2> QED
    BY <1>1, <2>8, CloseOrder
<1> QED
  BY <1>4, <1>5

-----------------------------------------------------------------------------
(* The theorems.                                                           *)

LEMMA Invariant == Spec => []IInv
<1>1. Init => IInv
  <2> SUFFICES ASSUME Init PROVE IInv
    OBVIOUS
  <2>1. Carries(Sent, Added) /\ src["down"] = "none" /\ out["down"] = <<>>
    BY StartCarries DEF Init, PipeInit, Dirs
  <2>2. eaten = <<>> /\ <<>> \in Seq(Sent) /\ DOMAIN <<>> = {}
    BY EmptySeq DEF Init
  <2>3. counted.auth = 0 /\ Counters
    BY DEF Init, Zero, Counters
  <2>4. Shape
    BY <2>1, <2>2, <2>3 DEF Init, Shape, Places, Negotiation
  <2>5. Credentials
    BY <2>1, <2>2 DEF Init, Credentials, Read, Authenticating, Admitted
  <2>6. Counting
    BY <2>1, <2>2, <2>3 DEF Init, Counting, ToldOk, Admitted
  <2> QED
    BY <2>4, <2>5, <2>6 DEF IInv
<1>2. IInv /\ [Next]_vars => IInv'
  BY PeerStep, ReadStep, AnswerStep, RefusalStep, LoginStep, CommandStep, RelayStep, NoStep
     DEF Next, Step, Terminated
<1> QED
  BY <1>1, <1>2, PTL DEF Spec

LEMMA Invariants == Spec => [](IInv /\ OInv)
<1>1. Init => OInv
  <2> SUFFICES ASSUME Init PROVE OInv
    OBVIOUS
  <2> USE DEF Init, PipeInit
  <2>1. /\ \A d \in Dirs : /\ log[d] = <<>> /\ buf[d] = <<>> /\ out[d] = <<>> /\ dst[d] = "open"
                          /\ Ordered(d, <<>>)
        /\ eaten = <<>> /\ pc = "hello" /\ counted = Zero
    BY StartOrders DEF Dirs
  <2>2. <<>> \in Seq(Sent) /\ <<>> \in Seq(FieldTokens) /\ Len(<<>>) = 0 /\ <<>> \o <<>> = <<>>
        /\ Len(Messages) \in Nat
    BY EmptySeq, ConcatEmptySeq, MessagesAre, LenProperties
  <2>3. InTurn
    BY <2>1, <2>2, DataAssumption DEF InTurn, Dirs
  <2>4. Position /\ BeforeRelay
    <3>1. eaten \in Seq(FieldTokens) /\ Len(eaten) = 0
      BY <2>1, <2>2
    <3> QED
      BY ONLY <2>1, <3>1, SMT DEF Position, BeforeRelay, Dirs
  <2>5. Upward
    BY <2>1, <2>2 DEF Upward, Dirs
  <2>6. Downward
    <3>1. Hears(<<>>, <<>>) /\ <<>> \in Hearings
      BY <2>1 DEF Hears, Hearings, Negotiation, Authenticating, Admitted
    <3> QED
      BY <2>1, <2>2, <3>1 DEF Downward, Dirs
  <2>7. CountedAtEnd
    BY <2>1, DataAssumption DEF CountedAtEnd, Zero
  <2> QED
    BY <2>3, <2>4, <2>5, <2>6, <2>7 DEF OInv
<1>2. IInv /\ OInv /\ [Next]_vars => OInv'
  BY PeerOrder, ReadOrder, AnswerOrder, DecisionOrder, ConnectOrder, RelayOrder, RelayEndOrder,
     FailureOrder
     DEF Next, Step, Terminated
<1>3. Spec => []IInv
  BY Invariant
<1> QED
  BY <1>1, <1>2, <1>3, PTL DEF Spec

\* Every variable keeps its type: no peer's token is ever mistaken for a reply, the
\* copy buffers stay within their size, and each failure is counted at most once.
THEOREM TypeCorrect == Spec => []TypeOK
<1>1. IInv /\ OInv => TypeOK
  <2> SUFFICES ASSUME IInv, OInv PROVE TypeOK
    OBVIOUS
  <2>1. Carries(Sent, Added) /\ pc \in Places /\ bypass \in BOOLEAN /\ configured \in BOOLEAN
    BY DEF IInv, Shape
  <2>2. Token = Sent \cup Added
    BY DEF Token, Sent, Added
  <2>3. \A s \in Seq(Sent) : s \in Seq(Token)
    BY <2>2, WiderSeq
  <2>4. PipeTypeOK(Token)
    BY <2>1, <2>2, <2>3 DEF Carries, PipeTypeOK
  <2>5. pc \in Fields \cup {"select", "reject", "login", "authOk", "authBad", "command", "connect",
                         "reply", "relay", "udp", "closed"}
    BY <2>1 DEF Places, Fields, Negotiation, Authenticating, Admitted
  <2>6. /\ eaten \in Seq(FieldTokens)
        /\ counted \in [auth : 0..1, connect : 0..1, relay : 0..1,
                        up : 0..MaxData, down : 0..MaxData]
    BY Zenon DEF OInv, Position, CountedAtEnd
  <2> QED
    BY <2>1, <2>4, <2>5, <2>6, Zenon DEF TypeOK
<1> QED
  BY <1>1, Invariants, PTL

\* send_reply and the handshake only tell the client what is so: the replies are
\* the beginning of a legal dialogue, none comes behind upstream data, and
\* "connected" is only said once the upstream connection is there.
THEOREM RepliesAreTrue == Spec => []RepliesAreTruthful
<1>1. IInv /\ OInv => RepliesAreTruthful
  <2> SUFFICES ASSUME IInv, OInv PROVE RepliesAreTruthful
    OBVIOUS
  <2>1. PICK heard \in Hearings, data \in Seq(Sent) :
          out["down"] = heard \o data /\ Hears(heard, data)
    BY DEF OInv, Downward
  <2>2. GotReplies = heard /\ GotData = data
    BY <2>1, HeardIsGot
  <2>3. \E dialogue \in Dialogues :
          /\ Len(heard) <= Len(dialogue)
          /\ \A i \in DOMAIN heard : heard[i] = Reply(dialogue[i])
    <3> DEFINE Within(dialogue) == /\ Len(heard) <= Len(dialogue)
                                   /\ \A i \in DOMAIN heard : heard[i] = Reply(dialogue[i])
    <3>1. CASE heard \in {<<>>, <<Reply("noMethod")>>}
      <4>1. ASSUME heard = <<>> PROVE Within(<<"noMethod">>)
        BY ONLY <4>1, SMT
      <4>2. ASSUME heard = <<Reply("noMethod")>> PROVE Within(<<"noMethod">>)
        BY ONLY <4>2, SMT
      <4>3. Within(<<"noMethod">>)
        BY <3>1, <4>1, <4>2
      <4> QED
        BY <4>3, Zenon DEF Dialogues
    <3>2. CASE heard \in {<<Chosen>>, <<Chosen, Reply("authBad")>>}
      <4>1. Within(<<"method", "authBad">>)
        BY ONLY <3>2, SMT DEF Chosen
      <4> QED
        BY <4>1, Zenon DEF Dialogues
    <3>3. CASE heard \in {<<Chosen, Reply("authOk")>>, <<Chosen, Reply("authOk"), Reply("connected")>>}
      <4>1. ASSUME heard = <<Chosen, Reply("authOk")>>
            PROVE  Within(<<"method", "authOk", "connected">>)
        BY ONLY <4>1, SMT DEF Chosen
      <4>2. ASSUME heard = <<Chosen, Reply("authOk"), Reply("connected")>>
            PROVE  Within(<<"method", "authOk", "connected">>)
        BY ONLY <4>2, SMT DEF Chosen
      <4>3. Within(<<"method", "authOk", "connected">>)
        BY <3>3, <4>1, <4>2
      <4> QED
        BY <4>3, Zenon DEF Dialogues
    <3>4. CASE heard = <<Chosen, Reply("connected")>>
      <4>1. Within(<<"method", "connected">>)
        BY ONLY <3>4, SMT DEF Chosen
      <4> QED
        BY <4>1, Zenon DEF Dialogues
    <3> HIDE DEF Within
    <3> QED
      BY <3>1, <3>2, <3>3, <3>4 DEF Hearings
  <2>4. \A i \in DOMAIN data : data[i] \in Sent
    BY LenProperties, ElementOfSeq
  <2>5. \A i \in DOMAIN data : ~IsReply(data[i])
    BY <2>4, Tokens
  <2>6. ASSUME NEW i \in DOMAIN out["down"], out["down"][i] = Reply("connected")
        PROVE  src["down"] # "none"
    <3> DEFINE All == Sent \cup Added
    <3>1. heard \in Seq(All) /\ data \in Seq(All)
      <4>1. heard \in Seq(Added \cup Sent)
        BY HearingsAreReplies, WiderSeq
      <4>2. Added \cup Sent = All
        OBVIOUS
      <4> QED
        BY <4>1, <4>2, WiderSeq
    <3> HIDE DEF All
    <3>2. /\ Len(heard) \in Nat /\ Len(data) \in Nat
          /\ DOMAIN heard = 1..Len(heard) /\ DOMAIN data = 1..Len(data)
          /\ DOMAIN (heard \o data) = 1..Len(heard) + Len(data)
          /\ \A j \in 1..Len(heard) + Len(data) :
               (heard \o data)[j] = IF j <= Len(heard) THEN heard[j] ELSE data[j - Len(heard)]
      BY ONLY <3>1, ConcatProperties, LenProperties, SMT
    <3>3. i <= Len(heard) \/ i - Len(heard) \in DOMAIN data
      BY <2>1, <3>2
    <3>4. CASE i <= Len(heard)
      BY <2>1, <2>6, <3>2, <3>4 DEF Hears
    <3>5. CASE ~(i <= Len(heard))
      <4>1. data[i - Len(heard)] = Reply("connected")
        BY <2>1, <2>6, <3>2, <3>5
      <4> QED
        BY <2>5, <3>3, <3>5, <4>1 DEF IsReply, Reply
    <3> QED
      BY <3>4, <3>5
  <2> QED
    BY <2>2, <2>3, <2>5, <2>6 DEF RepliesAreTruthful
<1> QED
  BY <1>1, Invariants, PTL

\* copy_bidirectional goes on behind what the handshake has read: both streams are
\* the sender's tokens in order, also those that the client sent ahead.
THEOREM StreamsStayIntact == Spec => []StreamsAreIntact
<1>1. IInv /\ OInv => StreamsAreIntact
  <2> SUFFICES ASSUME IInv, OInv PROVE StreamsAreIntact
    OBVIOUS
  <2>1. Carries(Sent, Added)
    BY DEF IInv, Shape
  <2>2. Intact("up", eaten \o out["up"])
    <3>1. Ordered("up", eaten \o out["up"]) /\ eaten \o out["up"] \in Seq(Sent)
      BY UpwardIsSent DEF OInv, Upward
    <3> QED
      BY <2>1, <3>1, OrderedIsIntact DEF Dirs
  <2>3. Intact("down", GotData)
    <3>1. PICK heard \in Hearings, data \in Seq(Sent) :
            out["down"] = heard \o data /\ Ordered("down", data)
      BY DEF OInv, Downward
    <3>2. GotData = data
      BY <3>1, HeardIsGot
    <3> QED
      BY <2>1, <3>1, <3>2, OrderedIsIntact DEF Dirs
  <2>4. pc \in {"connect", "reply", "relay", "udp"} => Len(eaten) = Len(Messages)
    BY DEF OInv, Position
  <2> QED
    BY <2>2, <2>3, <2>4 DEF StreamsAreIntact
<1> QED
  BY <1>1, Invariants, PTL

\* What copy_bidirectional returns is all that both sides sent, and just that is
\* added to the traffic counters; a session that is cut off adds nothing.
THEOREM CleanEndsAreComplete == Spec => []CleanEndIsComplete
<1>1. IInv /\ OInv => CleanEndIsComplete
  <2> SUFFICES ASSUME IInv, OInv PROVE CleanEndIsComplete
    OBVIOUS
  <2> USE DEF OInv
  <2>1. PICK heard \in Hearings, data \in Seq(Sent) :
          out["down"] = heard \o data /\ Ordered("down", data)
    BY DEF Downward
  <2>2. GotReplies = heard /\ GotData = data
    BY <2>1, HeardIsGot
  <2>3. ASSUME pc = "closed", CopyDone
        PROVE  /\ out["up"] = Behind(Len(Messages), log["up"])
               /\ out["down"] = GotReplies \o log["down"]
               /\ counted = [Zero EXCEPT !.up = Len(out["up"]), !.down = Len(log["down"])]
               /\ data = log["down"]
    <3>1. data = log["down"] /\ eaten \o out["up"] = log["up"]
      BY <2>1, <2>3 DEF Upward, CopyDone, Ordered, InOrder, Dirs
    <3>2. Behind(Len(eaten), eaten \o out["up"]) = out["up"]
      BY UpwardIsSent, Halves DEF Upward
    <3>3. /\ Len(eaten) = Len(Messages)
          /\ counted = [Zero EXCEPT !.up = Len(out["up"]), !.down = Len(log["down"])]
      BY <2>3 DEF CountedAtEnd
    <3> QED
      BY <2>1, <2>2, <3>1, <3>2, <3>3
  <2>4. counted.up <= Len(out["up"]) /\ counted.down <= Len(GotData)
    <3>1. Len(out["up"]) \in Nat /\ Len(data) \in Nat
      BY LenProperties DEF Upward
    <3>2. CASE pc = "closed" /\ CopyDone
      <4>1. counted.up = Len(out["up"]) /\ counted.down = Len(data)
        BY <2>3, <3>2 DEF Zero
      <4> QED
        BY <2>2, <3>1, <4>1
    <3>3. CASE ~(pc = "closed" /\ CopyDone)
      <4>1. counted.up = 0 /\ counted.down = 0
        BY <3>3 DEF CountedAtEnd, Zero
      <4> QED
        BY <2>2, <3>1, <4>1
    <3> QED
      BY <3>2, <3>3
  <2> QED
    BY <2>3, <2>4 DEF CleanEndIsComplete
<1> QED
  BY <1>1, Invariants, PTL

\* connect_and_bind and udp_associate are only reached past ip_authenticate or a
\* login whose user name and password both matched.
THEOREM AuthenticationIsNeeded == Spec => []AuthenticatedBeforeUse
<1>1. IInv => AuthenticatedBeforeUse
  <2> SUFFICES ASSUME IInv, pc \in {"connect", "reply", "relay", "udp"} \/ src["down"] # "none"
               PROVE  bypass \/ (configured /\ Said("user") = "good" /\ Said("pass") = "good")
    BY DEF AuthenticatedBeforeUse
  <2>1. Authentic
    BY DEF IInv, Credentials, Admitted
  <2> QED
    BY <2>1, SaidIsGood DEF Authentic
<1> QED
  BY <1>1, Invariant, PTL

\* server.rs adds one to auth_failures for a session that had to authenticate and
\* ended before it was told that it had, and for no other.
THEOREM AuthFailuresAreExact == Spec => []AuthFailuresCounted
<1>1. IInv => AuthFailuresCounted
  BY DEF IInv, Counting, ToldOk, AuthFailuresCounted
<1> QED
  BY <1>1, Invariant, PTL

=============================================================================
