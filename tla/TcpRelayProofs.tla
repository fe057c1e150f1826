--------------------------- MODULE TcpRelayProofs ---------------------------
(***************************************************************************)
(* What the two streams may hold, whatever the session does with them, and *)
(* that they keep their order: the lemmas that Socks5Proofs and            *)
(* HttpProxyProofs share.                                                  *)
(***************************************************************************)
EXTENDS TcpRelay, SequenceTheorems, TLAPS

\* Peers send tokens of Sent; the proxy adds tokens of Added of its own.
Carries(Sent, Added) ==
  /\ log \in [Dirs -> Seq(Sent)] /\ wire \in [Dirs -> Seq(Sent)] /\ buf \in [Dirs -> Seq(Sent)]
  /\ out \in [Dirs -> Seq(Sent \cup Added)]
  /\ src \in [Dirs -> {"none", "open", "fin", "broken"}]
  /\ dst \in [Dirs -> {"open", "fin"}]
  /\ \A d \in Dirs : Len(buf[d]) <= BufMax

LEMMA WiderSeq ==
  ASSUME NEW S, NEW T, NEW s \in Seq(S)
  PROVE  s \in Seq(S \cup T)
<1>1. Len(s) \in Nat /\ s \in [1..Len(s) -> S]
  BY LenProperties
<1>2. s \in [1..Len(s) -> S \cup T]
  BY <1>1
<1> QED
  BY <1>1, <1>2, SeqDef

\* The rest of a sequence behind its first n elements, and those.
LEMMA Cut ==
  ASSUME NEW S, NEW s \in Seq(S), NEW n \in 1..Len(s)
  PROVE  /\ Behind(n, s) \in Seq(S) /\ SubSeq(s, 1, n) \o Behind(n, s) = s
         /\ SubSeq(s, 1, n) \in Seq(S) /\ Len(SubSeq(s, 1, n)) = n
         /\ s # <<>> /\ Head(s) = s[1] /\ Head(s) \in S
<1>1. Len(s) \in Nat /\ n \in Nat /\ 1 \in 1..Len(s)
  BY LenProperties
<1> DEFINE from == n + 1
           to   == Len(s)
<1>2. from \in Int /\ to \in Int /\ \A i \in from..to : s[i] \in S
  BY <1>1, ElementOfSeq
<1>3. SubSeq(s, from, to) \in Seq(S)
  <2> HIDE DEF from, to
  <2> QED
    BY <1>2, SubSeqProperties, Zenon
<1>4. \A i \in 1..n : s[i] \in S
  BY <1>1, ElementOfSeq
<1>5. SubSeq(s, 1, n) \in Seq(S) /\ Len(SubSeq(s, 1, n)) = n
  <2>1. /\ SubSeq(s, 1, n) \in Seq(S)
        /\ Len(SubSeq(s, 1, n)) = IF 1 <= n THEN n - 1 + 1 ELSE 0
    BY <1>1, <1>4, SubSeqProperties
  <2> QED
    BY <1>1, <2>1
<1>6. s # <<>>
  BY <1>1, EmptySeq
<1>7. SubSeq(s, 1, n) \o SubSeq(s, n + 1, Len(s)) = s
  <2>1. 1 \in 1..Len(s)+1 /\ n \in 1-1..Len(s) /\ Len(s) \in n..Len(s)
    BY <1>1
  <2>2. SubSeq(s, 1, n) \o SubSeq(s, n + 1, Len(s)) = SubSeq(s, 1, Len(s))
    BY <2>1, ConcatAdjacentSubSeq
  <2> QED
    BY <2>2, SubSeqFull
<1> QED
  BY <1>1, <1>3, <1>5, <1>6, <1>7, HeadTailProperties, ElementOfSeq DEF Behind

LEMMA StartCarries ==
  ASSUME NEW Sent, NEW Added, PipeInit
  PROVE  Carries(Sent, Added)
<1>1. <<>> \in Seq(Sent) /\ <<>> \in Seq(Sent \cup Added) /\ Len(<<>>) <= BufMax
  BY EmptySeq, BufferAssumption
<1> QED
  BY <1>1 DEF PipeInit, Carries

LEMMA SendCarries ==
  ASSUME NEW Sent, NEW Added, Carries(Sent, Added),
         NEW d \in Dirs, NEW token \in Sent, SendToken(d, token)
  PROVE  Carries(Sent, Added)'
<1>1. Append(log[d], token) \in Seq(Sent) /\ Append(wire[d], token) \in Seq(Sent)
  BY AppendProperties DEF Carries
<1> QED
  BY <1>1 DEF Carries, SendToken

LEMMA EndCarries ==
  ASSUME NEW Sent, NEW Added, Carries(Sent, Added),
         NEW d \in Dirs, FinishSending(d) \/ Break(d)
  PROVE  Carries(Sent, Added)'
<1>1. <<>> \in Seq(Sent)
  BY EmptySeq
<1> QED
  BY <1>1 DEF Carries, FinishSending, Break

LEMMA TakeCarries ==
  ASSUME NEW Sent, NEW Added, Carries(Sent, Added), NEW n, Take(n)
  PROVE  /\ Carries(Sent, Added)'
         /\ SubSeq(wire["up"], 1, n) \in Seq(Sent) /\ Len(SubSeq(wire["up"], 1, n)) = n
         /\ n \in Nat /\ n >= 1
         /\ Head(wire["up"]) \in Sent
<1> DEFINE w == wire["up"]
<1>1. w \in Seq(Sent) /\ n \in 1..Len(w)
  BY DEF Carries, Take, Dirs
<1>2. Len(w) \in Nat
  BY <1>1, LenProperties
<1>3. /\ Behind(n, w) \in Seq(Sent)
      /\ SubSeq(w, 1, n) \in Seq(Sent) /\ Len(SubSeq(w, 1, n)) = n /\ Head(w) \in Sent
  <2> HIDE DEF w
  <2> QED
    BY <1>1, Cut
<1>4. wire' = [wire EXCEPT !["up"] = Behind(n, w)]
  BY DEF Take
<1>5. wire' \in [Dirs -> Seq(Sent)]
  <2> HIDE DEF w
  <2> QED
    BY <1>3, <1>4 DEF Carries
<1>6. Carries(Sent, Added)'
  BY <1>5 DEF Carries, Take
<1>7. n \in Nat /\ n >= 1
  BY <1>1, <1>2
<1> QED
  BY <1>3, <1>6, <1>7

LEMMA WriteCarries ==
  ASSUME NEW Sent, NEW Added, Carries(Sent, Added),
         NEW d \in Dirs, NEW tokens \in Seq(Sent \cup Added), WriteTo(d, tokens)
  PROVE  Carries(Sent, Added)' /\ out'[d] = out[d] \o tokens
<1>1. out[d] \o tokens \in Seq(Sent \cup Added)
  BY ConcatProperties DEF Carries
<1> QED
  BY <1>1 DEF Carries, WriteTo

LEMMA ConnectCarries ==
  ASSUME NEW Sent, NEW Added, Carries(Sent, Added), ConnectUpstream
  PROVE  Carries(Sent, Added)' /\ src'["down"] = "open"
BY DEF Carries, ConnectUpstream, Dirs

\* The copy loop only passes on what a peer has sent.
LEMMA CopyCarries ==
  ASSUME NEW Sent, NEW Added, Carries(Sent, Added), CopyStep
  PROVE  /\ Carries(Sent, Added)' /\ src' = src
         /\ \A d \in Dirs : out'[d] = out[d] \/ \E t \in Sent : out'[d] = Append(out[d], t)
<1>1. ASSUME NEW d \in Dirs, CopyRead(d)
      PROVE  Carries(Sent, Added)' /\ src' = src /\ out' = out
  <2>1. Head(wire[d]) \in Sent /\ Tail(wire[d]) \in Seq(Sent)
    BY <1>1, HeadTailProperties DEF CopyRead, Carries
  <2>2. Append(buf[d], Head(wire[d])) \in Seq(Sent) /\ Len(Append(buf[d], Head(wire[d]))) <= BufMax
    BY <1>1, <2>1, AppendProperties, LenProperties, BufferAssumption DEF Carries, CopyRead
  <2> QED
    BY <1>1, <2>1, <2>2 DEF CopyRead, Carries
<1>2. ASSUME NEW d \in Dirs, CopyWrite(d)
      PROVE  /\ Carries(Sent, Added)' /\ src' = src
             /\ \A e \in Dirs : out'[e] = out[e] \/ \E t \in Sent : out'[e] = Append(out[e], t)
  <2>1. Head(buf[d]) \in Sent /\ Tail(buf[d]) \in Seq(Sent) /\ Len(Tail(buf[d])) <= BufMax
    BY <1>2, HeadTailProperties, LenProperties, BufferAssumption DEF CopyWrite, Carries
  <2>2. Append(out[d], Head(buf[d])) \in Seq(Sent \cup Added)
    BY <2>1, AppendProperties DEF Carries
  <2>3. Carries(Sent, Added)' /\ src' = src
    BY <1>2, <2>1, <2>2 DEF CopyWrite, Carries
  <2>4. out' = [out EXCEPT ![d] = Append(out[d], Head(buf[d]))] /\ DOMAIN out = Dirs
    BY <1>2 DEF CopyWrite, Carries
  <2> QED
    BY <2>1, <2>3, <2>4
<1>3. ASSUME NEW d \in Dirs, CopyEof(d)
      PROVE  Carries(Sent, Added)' /\ src' = src /\ out' = out
  BY <1>3 DEF CopyEof, Carries
<1> QED
  BY <1>1, <1>2, <1>3 DEF CopyStep

LEMMA QuietCarries ==
  ASSUME NEW Sent, NEW Added, Carries(Sent, Added), UNCHANGED pipe
  PROVE  Carries(Sent, Added)' /\ src' = src /\ out' = out
BY DEF Carries, pipe

-----------------------------------------------------------------------------
(* Order.                                                                  *)

\* A token that moves from the head of one part of a stream to the end of the part
\* before it changes nothing of the whole.
LEMMA Shift ==
  ASSUME NEW S, NEW h \in Seq(S), NEW b \in Seq(S), b # <<>>
  PROVE  Append(h, Head(b)) \o Tail(b) = h \o b
<1>1. Head(b) \in S /\ Tail(b) \in Seq(S)
  BY HeadTailProperties
<1>2. <<Head(b)>> \in Seq(S) /\ Append(h, Head(b)) = h \o <<Head(b)>>
  BY <1>1, AppendIsConcat
<1>3. b = <<Head(b)>> \o Tail(b)
  <2>1. Len(b) \in Nat \ {0}
    BY EmptySeq
  <2>2. /\ SubSeq(b, 1, Len(b)) = <<b[1]>> \o SubSeq(b, 1 + 1, Len(b))
        /\ SubSeq(b, 1, Len(b)) = b /\ Tail(b) = SubSeq(b, 2, Len(b))
    BY <2>1, SubSeqRecursiveFirst, SubSeqFull, TailIsSubSeq
  <2> QED
    BY <2>2
<1>4. (h \o <<Head(b)>>) \o Tail(b) = h \o (<<Head(b)>> \o Tail(b))
  BY <1>1, <1>2, ConcatAssociative
<1> QED
  BY <1>2, <1>3, <1>4

LEMMA AppendOfConcat ==
  ASSUME NEW S, NEW h \in Seq(S), NEW b \in Seq(S), NEW t \in S
  PROVE  h \o Append(b, t) = Append(h \o b, t)
<1>1. <<t>> \in Seq(S) /\ h \o b \in Seq(S)
  BY ConcatProperties
<1>2. Append(b, t) = b \o <<t>> /\ Append(h \o b, t) = (h \o b) \o <<t>>
  BY <1>1, AppendIsConcat
<1>3. (h \o b) \o <<t>> = h \o (b \o <<t>>)
  BY <1>1, ConcatAssociative
<1> QED
  BY <1>2, <1>3

\* The two parts of a concatenation.
LEMMA Halves ==
  ASSUME NEW S, NEW p \in Seq(S), NEW q \in Seq(S)
  PROVE  SubSeq(p \o q, 1, Len(p)) = p /\ Behind(Len(p), p \o q) = q
<1> DEFINE s == p \o q
           m == Len(p)
           n == Len(q)
<1>1. /\ s \in Seq(S) /\ Len(s) = m + n /\ m \in Nat /\ n \in Nat
      /\ \A i \in 1..m + n : s[i] = IF i <= m THEN p[i] ELSE q[i - m]
  BY ConcatProperties, LenProperties
<1>2. \A i \in 1..m + n : s[i] \in S
  BY <1>1, ElementOfSeq
<1> HIDE DEF s
<1>3. SubSeq(s, 1, m) = p
  <2>1. /\ SubSeq(s, 1, m) \in Seq(S) /\ Len(SubSeq(s, 1, m)) = m
        /\ \A i \in 1..m : SubSeq(s, 1, m)[i] = s[i]
    <3>1. \A i \in 1..m : s[i] \in S
      BY <1>1, <1>2
    <3>2. /\ SubSeq(s, 1, m) \in Seq(S)
          /\ Len(SubSeq(s, 1, m)) = IF 1 <= m THEN m - 1 + 1 ELSE 0
          /\ \A i \in 1..m - 1 + 1 : SubSeq(s, 1, m)[i] = s[1 + i - 1]
      BY <1>1, <3>1, SubSeqProperties
    <3> QED
      BY <1>1, <3>2
  <2>2. \A i \in 1..m : s[i] = p[i]
    BY <1>1
  <2> QED
    BY <1>1, <2>1, <2>2, SeqEqual
<1>4. SubSeq(s, m + 1, m + n) = q
  <2> DEFINE t == SubSeq(s, m + 1, m + n)
  <2>1. /\ t \in Seq(S) /\ Len(t) = n
        /\ \A i \in 1..n : t[i] = s[m + i]
    <3>1. \A i \in m + 1..m + n : s[i] \in S
      BY <1>1, <1>2
    <3>2. m + 1 \in Int /\ m + n \in Int
      BY <1>1
    <3>3. /\ t \in Seq(S)
          /\ Len(t) = IF m + 1 <= m + n THEN m + n - (m + 1) + 1 ELSE 0
          /\ \A i \in 1..m + n - (m + 1) + 1 : t[i] = s[m + 1 + i - 1]
      BY <3>1, <3>2, SubSeqProperties
    <3> QED
      BY <1>1, <3>3
  <2>2. \A i \in 1..n : s[m + i] = q[i]
    BY <1>1
  <2> QED
    BY <1>1, <2>1, <2>2, SeqEqual
<1> QED
  BY <1>1, <1>3, <1>4 DEF Behind, s

\* A prefix of a concatenation.
LEMMA FirstPart ==
  ASSUME NEW S, NEW p \in Seq(S), NEW w \in Seq(S)
  PROVE  IsPrefix(p, p \o w)
<1>1. /\ p \o w \in Seq(S) /\ Len(p \o w) = Len(p) + Len(w)
      /\ Len(p) \in Nat /\ Len(w) \in Nat
  BY ConcatProperties, LenProperties
<1>2. SubSeq(p \o w, 1, Len(p)) = SubSeq(p, 1, Len(p))
  <2>1. CASE Len(p) = 0
    BY <2>1, SubSeqEmpty
  <2>2. CASE Len(p) # 0
    BY <1>1, <2>2, SubSeqOfConcat1
  <2> QED
    BY <2>1, <2>2
<1> QED
  BY <1>1, <1>2 DEF IsPrefix

\* Stream d with h got through is in order: l was sent; b is buffered and w unread.
\* What has been shut down was complete.
InOrder(l, w, s, b, t, h) ==
  /\ s # "broken" => h \o b \o w = l
  /\ s = "broken" => w = <<>> /\ IsPrefix(h \o b, l)
  /\ t = "fin" => s \in {"fin", "broken"} /\ b = <<>> /\ w = <<>> /\ h = l

Ordered(d, h) == InOrder(log[d], wire[d], src[d], buf[d], dst[d], h)

\* The same of the next state, h being what will have got through then.
StaysOrdered(d, h) == InOrder(log'[d], wire'[d], src'[d], buf'[d], dst'[d], h)

LEMMA OrderedIsIntact ==
  ASSUME NEW Sent, NEW Added, Carries(Sent, Added),
         NEW d \in Dirs, NEW h \in Seq(Sent), Ordered(d, h)
  PROVE  Intact(d, h)
<1>1. buf[d] \in Seq(Sent) /\ h \o buf[d] \in Seq(Sent)
  BY ConcatProperties DEF Carries
<1>2. h \o buf[d] \o <<>> = h \o buf[d]
  BY <1>1, ConcatEmptySeq
<1> QED
  BY <1>2 DEF Ordered, InOrder, Intact

LEMMA StartOrders ==
  ASSUME PipeInit, NEW d \in Dirs
  PROVE  Ordered(d, <<>>)
<1>1. <<>> \o <<>> \o <<>> = <<>>
  <2>1. <<>> \in Seq({})
    BY EmptySeq
  <2> QED
    BY <2>1, ConcatEmptySeq
<1> QED
  BY <1>1 DEF PipeInit, Ordered, InOrder, Dirs

LEMMA QuietOrders ==
  ASSUME NEW d \in Dirs, NEW h, Ordered(d, h), UNCHANGED <<log, wire, src, buf, dst>>
  PROVE  StaysOrdered(d, h)
BY DEF Ordered, StaysOrdered

LEMMA SendOrders ==
  ASSUME NEW Sent, NEW Added, Carries(Sent, Added), NEW e \in Dirs, NEW token \in Sent,
         SendToken(e, token), NEW d \in Dirs, NEW h \in Seq(Sent), Ordered(d, h)
  PROVE  StaysOrdered(d, h)
<1>1. CASE d = e
  <2>1. h \o buf[d] \o Append(wire[d], token) = Append(h \o buf[d] \o wire[d], token)
    <3> DEFINE p == h \o buf[d]
               w == wire[d]
    <3>1. w \in Seq(Sent)
      BY DEF Carries
    <3>2. p \in Seq(Sent)
      BY ConcatProperties DEF Carries
    <3> HIDE DEF p, w
    <3>3. p \o Append(w, token) = Append(p \o w, token)
      BY ONLY <3>1, <3>2, token \in Sent, AppendOfConcat, SMT
    <3> QED
      BY <3>3 DEF p, w
  <2>2. /\ src[d] = "open" /\ log'[d] = Append(log[d], token) /\ wire'[d] = Append(wire[d], token)
        /\ UNCHANGED <<src, buf, dst>>
    BY <1>1 DEF SendToken, Carries
  <2> QED
    BY <2>1, <2>2 DEF Ordered, StaysOrdered, InOrder
<1>2. CASE d # e
  BY <1>2 DEF Ordered, StaysOrdered, SendToken, Carries
<1> QED
  BY <1>1, <1>2

LEMMA EndOrders ==
  ASSUME NEW Sent, NEW Added, Carries(Sent, Added), NEW e \in Dirs,
         FinishSending(e) \/ Break(e), NEW d \in Dirs, NEW h \in Seq(Sent), Ordered(d, h)
  PROVE  StaysOrdered(d, h)
<1>1. CASE d = e /\ FinishSending(e)
  BY <1>1 DEF FinishSending, Carries, Ordered, StaysOrdered, InOrder
<1>2. CASE d = e /\ Break(e)
  <2>1. IsPrefix(h \o buf[d], h \o buf[d] \o wire[d])
    BY FirstPart, ConcatProperties DEF Carries
  <2>2. /\ src[d] # "broken" /\ src'[d] = "broken" /\ wire'[d] = <<>>
        /\ UNCHANGED <<log, buf, dst>>
    BY <1>2 DEF Break, Carries
  <2> QED
    BY <2>1, <2>2 DEF Ordered, StaysOrdered, InOrder
<1>3. CASE d # e
  BY <1>3 DEF Ordered, StaysOrdered, FinishSending, Break, Carries
<1> QED
  BY <1>1, <1>2, <1>3

\* What is read before the relay gets through to the session.
LEMMA TakeOrders ==
  ASSUME NEW Sent, NEW Added, Carries(Sent, Added), NEW n, Take(n)
  PROVE  /\ \A h \in Seq(Sent) : Ordered("down", h) => StaysOrdered("down", h)
         /\ buf["up"] = <<>> =>
              \A h \in Seq(Sent) :
                Ordered("up", h) => StaysOrdered("up", h \o SubSeq(wire["up"], 1, n))
<1>1. wire["up"] \in Seq(Sent) /\ n \in 1..Len(wire["up"]) /\ "up" \in Dirs
  BY DEF Carries, Take, Dirs
<1>2. /\ UNCHANGED <<log, src, buf, dst>> /\ wire'["down"] = wire["down"]
      /\ wire'["up"] = Behind(n, wire["up"])
  BY DEF Take, Carries, Dirs
<1>3. ASSUME buf["up"] = <<>>, NEW h \in Seq(Sent), Ordered("up", h)
      PROVE  StaysOrdered("up", h \o SubSeq(wire["up"], 1, n))
  <2> DEFINE w == wire["up"]
             got == SubSeq(w, 1, n)
  <2>1. w # <<>> /\ got \in Seq(Sent) /\ Behind(n, w) \in Seq(Sent) /\ got \o Behind(n, w) = w
    <3> HIDE DEF w
    <3> QED
      BY <1>1, Cut DEF got, w
  <2> HIDE DEF got
  <2>2. src["up"] # "broken" /\ dst["up"] # "fin" /\ h \o buf["up"] \o w = log["up"]
    BY <1>3, <2>1 DEF Ordered, InOrder
  <2>3. h \o got \o <<>> = h \o got /\ h \o <<>> = h /\ (h \o got) \o Behind(n, w) = h \o w
    <3>1. h \o got \in Seq(Sent)
      BY <2>1, ConcatProperties
    <3>2. h \o got \o <<>> = h \o got /\ h \o <<>> = h
      BY <3>1, ConcatEmptySeq
    <3>3. (h \o got) \o Behind(n, w) = h \o (got \o Behind(n, w))
      <4>1. got \in Seq(Sent)
        BY <2>1
      <4>2. Behind(n, w) \in Seq(Sent)
        BY <2>1
      <4> HIDE DEF w
      <4> QED
        BY ONLY <4>1, <4>2, h \in Seq(Sent), ConcatAssociative, SMT
    <3> QED
      BY <2>1, <3>2, <3>3
  <2>4. buf'["up"] = <<>> /\ src'["up"] = src["up"] /\ dst'["up"] = dst["up"] /\ log'["up"] = log["up"]
    BY <1>2, <1>3
  <2>5. (h \o got) \o buf'["up"] \o wire'["up"] = log'["up"]
    BY <1>2, <1>3, <2>2, <2>3, <2>4
  <2> QED
    BY <2>2, <2>4, <2>5 DEF StaysOrdered, InOrder, got
<1> QED
  BY <1>2, <1>3 DEF Ordered, StaysOrdered

\* Connecting opens the other stream.
LEMMA ConnectOrders ==
  ASSUME NEW Sent, NEW Added, Carries(Sent, Added), ConnectUpstream, src["down"] = "none",
         NEW d \in Dirs, NEW h, Ordered(d, h)
  PROVE  StaysOrdered(d, h)
<1>1. /\ UNCHANGED <<log, wire, buf, dst>> /\ src'["up"] = src["up"] /\ src'["down"] = "open"
  BY DEF ConnectUpstream, Carries, Dirs
<1> QED
  BY <1>1 DEF Ordered, StaysOrdered, InOrder, Dirs

\* What the copy loop writes has got through, and nothing else.
LEMMA CopyOrders ==
  ASSUME NEW Sent, NEW Added, Carries(Sent, Added), CopyStep,
         NEW d \in Dirs, NEW h \in Seq(Sent), Ordered(d, h)
  PROVE  \/ out'[d] = out[d] /\ StaysOrdered(d, h)
         \/ \E t \in Sent : out'[d] = Append(out[d], t) /\ StaysOrdered(d, Append(h, t))
<1>0. buf[d] \in Seq(Sent) /\ wire[d] \in Seq(Sent)
  BY DEF Carries
<1>1. PICK e \in Dirs : CopyRead(e) \/ CopyWrite(e) \/ CopyEof(e)
  BY DEF CopyStep
<1>2. CASE d # e
  BY <1>1, <1>2 DEF CopyRead, CopyWrite, CopyEof, Ordered, StaysOrdered, Carries
<1>3. CASE d = e /\ CopyRead(d)
  <2>1. h \o Append(buf[d], Head(wire[d])) \o Tail(wire[d]) = h \o buf[d] \o wire[d]
    <3> DEFINE b == buf[d]
               w == wire[d]
               p == h \o b
               t == Head(w)
    <3>1. b \in Seq(Sent) /\ w \in Seq(Sent) /\ w # <<>> /\ p \in Seq(Sent)
      BY <1>0, <1>3, ConcatProperties DEF CopyRead
    <3>2. t \in Sent
      <4> HIDE DEF w
      <4> QED
        BY <3>1, HeadTailProperties
    <3> HIDE DEF b, w, t
    <3>3. h \o Append(b, t) = Append(h \o b, t)
      BY ONLY <3>1, <3>2, h \in Seq(Sent), AppendOfConcat, SMT
    <3> HIDE DEF p
    <3>4. Append(p, Head(w)) \o Tail(w) = p \o w
      BY ONLY <3>1, Shift, SMT
    <3> QED
      BY <3>3, <3>4, Zenon DEF b, w, p, t
  <2>2. /\ wire[d] # <<>> /\ buf'[d] = Append(buf[d], Head(wire[d])) /\ wire'[d] = Tail(wire[d])
        /\ UNCHANGED <<log, src, out, dst>>
    BY <1>3 DEF CopyRead, Carries
  <2> QED
    BY <2>1, <2>2 DEF Ordered, StaysOrdered, InOrder
<1>4. CASE d = e /\ CopyWrite(d)
  <2>1. /\ buf[d] # <<>> /\ buf'[d] = Tail(buf[d]) /\ out'[d] = Append(out[d], Head(buf[d]))
        /\ UNCHANGED <<log, wire, src, dst>>
    BY <1>4 DEF CopyWrite, Carries
  <2>2. Append(h, Head(buf[d])) \o Tail(buf[d]) = h \o buf[d] /\ Head(buf[d]) \in Sent
    BY <1>0, <2>1, Shift, HeadTailProperties
  <2>3. StaysOrdered(d, Append(h, Head(buf[d])))
    BY <2>1, <2>2 DEF Ordered, StaysOrdered, InOrder
  <2> QED
    BY <2>1, <2>2, <2>3
<1>5. CASE d = e /\ CopyEof(d)
  <2>1. /\ src[d] = "fin" /\ wire[d] = <<>> /\ buf[d] = <<>>
        /\ UNCHANGED <<log, wire, src, buf, out>>
    BY <1>5 DEF CopyEof
  <2>2. h \o <<>> \o <<>> = h
    BY ConcatEmptySeq
  <2> QED
    BY <2>1, <2>2 DEF Ordered, StaysOrdered, InOrder
<1> QED
  BY <1>1, <1>2, <1>3, <1>4, <1>5

=============================================================================
