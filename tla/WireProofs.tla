----------------------------- MODULE WireProofs -----------------------------
(***************************************************************************)
(* Datagrams survive encoding and parsing, for all addresses and payloads. *)
(***************************************************************************)
EXTENDS Wire, SequenceTheorems, TLAPS

\* The middle and the end of a concatenation.
LEMMA Slice ==
  ASSUME NEW S, NEW s \in Seq(S), NEW t \in Seq(S), NEW u \in Seq(S)
  PROVE  /\ s \o t \o u \in Seq(S)
         /\ Len(s \o t \o u) = Len(s) + Len(t) + Len(u)
         /\ SubSeq(s \o t \o u, Len(s) + 1, Len(s) + Len(t)) = t
         /\ \A i \in 1..Len(s) : (s \o t \o u)[i] = s[i]
         /\ \A i \in 1..Len(t) : (s \o t \o u)[Len(s) + i] = t[i]
<1> DEFINE st == s \o t
           w  == st \o u
           m  == Len(s)
           n  == Len(t)
<1>1. m \in Nat /\ n \in Nat /\ Len(u) \in Nat
  BY LenProperties
<1>2. /\ st \in Seq(S) /\ Len(st) = m + n
      /\ \A i \in 1..(m + n) : st[i] = IF i <= m THEN s[i] ELSE t[i - m]
  BY ConcatProperties
<1>3. /\ w \in Seq(S) /\ Len(w) = m + n + Len(u)
      /\ \A i \in 1..(m + n + Len(u)) : w[i] = IF i <= m + n THEN st[i] ELSE u[i - (m + n)]
  BY <1>2, ConcatProperties
<1> HIDE DEF st, w
<1>4. \A i \in 1..m : w[i] = s[i]
  BY <1>1, <1>2, <1>3
<1>5. \A i \in 1..n : w[m + i] = t[i]
  BY <1>1, <1>2, <1>3
<1>6. SubSeq(w, m + 1, m + n) = t
  <2>1. \A i \in (m + 1)..(m + n) : w[i] \in S
    BY <1>1, <1>3, ElementOfSeq
  <2>2. m + 1 \in Int /\ m + n \in Int
    BY <1>1
  <2>3. /\ SubSeq(w, m + 1, m + n) \in Seq(S)
        /\ Len(SubSeq(w, m + 1, m + n)) = IF m + 1 <= m + n THEN m + n - (m + 1) + 1 ELSE 0
        /\ \A i \in 1..(m + n - (m + 1) + 1) : SubSeq(w, m + 1, m + n)[i] = w[m + 1 + i - 1]
    BY <2>1, <2>2, SubSeqProperties
  <2> DEFINE mid == SubSeq(w, m + 1, m + n)
  <2>4. mid \in Seq(S) /\ Len(mid) = n
    BY <1>1, <2>3
  <2>5. \A i \in 1..n : mid[i] = t[i]
    BY <1>1, <1>5, <2>3
  <2> HIDE DEF mid
  <2>6. mid = t
    BY <2>4, <2>5, SeqEqual
  <2> QED
    BY <2>6 DEF mid
<1> QED
  BY <1>3, <1>4, <1>5, <1>6 DEF st, w

LEMMA Suffix ==
  ASSUME NEW S, NEW s \in Seq(S), NEW t \in Seq(S)
  PROVE  SubSeq(s \o t, Len(s) + 1, Len(s \o t)) = t
<1>1. <<>> \in Seq(S) /\ Len(<<>>) = 0
  BY EmptySeq
<1>2. s \o t \in Seq(S) /\ Len(s \o t) = Len(s) + Len(t)
  BY ConcatProperties
<1>3. s \o t \o <<>> = s \o t
  BY <1>2, ConcatEmptySeq
<1>4. SubSeq(s \o t \o <<>>, Len(s) + 1, Len(s) + Len(t)) = t
  BY <1>1, Slice
<1> QED
  BY <1>2, <1>3, <1>4

LEMMA ByteIs == ASSUME NEW i \in Nat, i < 256 PROVE i \in Byte
BY DEF Byte

\* A port is the two bytes it is written in.
LEMMA PortRoundTrips ==
  ASSUME NEW port \in Nat, port < 65536
  PROVE  /\ ToBigEndian(port) \in Seq(Byte) /\ Len(ToBigEndian(port)) = 2
         /\ FromBigEndian(ToBigEndian(port)[1], ToBigEndian(port)[2]) = port
<1> DEFINE hi == port \div 256
           lo == port % 256
<1>1. hi \in Nat /\ hi < 256 /\ lo \in Nat /\ lo < 256 /\ 256 * hi + lo = port
  BY Z3
<1> HIDE DEF hi, lo
<1>2. hi \in Byte /\ lo \in Byte
  BY <1>1 DEF Byte
<1>3. ToBigEndian(port) = <<hi, lo>>
  BY DEF ToBigEndian, hi, lo
<1> QED
  BY <1>1, <1>2, <1>3 DEF FromBigEndian

-----------------------------------------------------------------------------
(* What Encode has written, with anything behind it.                       *)

Joint(at, prefix, host, port) == <<at>> \o prefix \o host \o port

\* Where the parts are in buf, the whole with the rest behind it.
LaidOut(B, whole, buf, at, prefix, host, port, rest) ==
  LET k == Len(prefix)
      n == Len(host)
  IN
  /\ whole \in Seq(B) /\ Len(whole) = 1 + k + n + 2
  /\ buf \in Seq(B) /\ Len(buf) = 1 + k + n + 2 + Len(rest)
  /\ buf[1] = at
  /\ k = 1 => buf[2] = prefix[1]
  /\ SubSeq(buf, 1 + k + 1, 1 + k + n) = host
  /\ buf[1 + k + n + 1] = port[1] /\ buf[1 + k + n + 2] = port[2]

\* The parts of an encoding, over any bytes B.
LEMMA Layout ==
  ASSUME NEW B, NEW at \in B, NEW prefix \in Seq(B), NEW host \in Seq(B),
         NEW port \in Seq(B), Len(port) = 2, NEW rest \in Seq(B)
  PROVE  LaidOut(B, Joint(at, prefix, host, port), Joint(at, prefix, host, port) \o rest,
                 at, prefix, host, port, rest)
<1> DEFINE first == <<at>>
           head  == first \o prefix
           front == head \o host
           tail  == port \o rest
           k     == Len(prefix)
           n     == Len(host)
           whole == Joint(at, prefix, host, port)
           buf   == whole \o rest
<1>0. k \in Nat /\ n \in Nat /\ Len(rest) \in Nat
  BY LenProperties
<1> HIDE DEF whole, buf
<1>1. first \in Seq(B) /\ Len(first) = 1 /\ first[1] = at
  OBVIOUS
<1> HIDE DEF first
<1>2. /\ head \in Seq(B) /\ Len(head) = 1 + k
      /\ \A i \in 1..(1 + k) : head[i] = IF i <= 1 THEN first[i] ELSE prefix[i - 1]
  <2>1. /\ head \in Seq(B) /\ Len(head) = Len(first) + Len(prefix)
        /\ \A i \in 1..(Len(first) + Len(prefix)) :
             head[i] = IF i <= Len(first) THEN first[i] ELSE prefix[i - Len(first)]
    BY <1>1, ConcatProperties
  <2> HIDE DEF head
  <2> QED
    BY <1>1, <2>1
<1> HIDE DEF head, k, n
<1>3. head[1] = at /\ (k = 1 => head[2] = prefix[1])
  BY <1>0, <1>1, <1>2
<1>4. front \in Seq(B) /\ Len(front) = 1 + k + n
  <2>1. front \in Seq(B) /\ Len(front) = Len(head) + n
    BY <1>2, ConcatProperties DEF n
  <2> QED
    BY <1>0, <1>2, <2>1
<1>5. tail \in Seq(B)
  BY ConcatProperties
<1>6. whole = front \o port
  BY DEF whole, Joint, head, first
<1> HIDE DEF front, tail
<1>7. whole \in Seq(B) /\ Len(whole) = 1 + k + n + 2
  <2>1. whole \in Seq(B) /\ Len(whole) = Len(front) + Len(port)
    BY <1>4, <1>6, ConcatProperties
  <2> QED
    BY <1>0, <1>4, <2>1
<1>8. buf = head \o host \o tail
  <2>1. buf = front \o port \o rest
    BY <1>6 DEF buf
  <2>2. front \o port \o rest = front \o (port \o rest)
    <3>1. front \in Seq(B)
      BY <1>4
    <3> QED
      BY ONLY <3>1, port \in Seq(B), rest \in Seq(B), ConcatAssociative, SMTT(30)
  <2> QED
    BY ONLY <2>1, <2>2 DEF front, tail
<1>9. /\ SubSeq(buf, Len(head) + 1, Len(head) + Len(host)) = host
      /\ \A i \in 1..Len(head) : buf[i] = head[i]
  <2>1. head \in Seq(B)
    BY <1>2
  <2>2. /\ SubSeq(head \o host \o tail, Len(head) + 1, Len(head) + Len(host)) = host
        /\ \A i \in 1..Len(head) : (head \o host \o tail)[i] = head[i]
    BY ONLY <2>1, <1>5, host \in Seq(B), Slice
  <2> HIDE DEF buf
  <2> QED
    BY ONLY <2>2, <1>8, SMT
<1>10. /\ buf[1] = at
       /\ k = 1 => buf[2] = prefix[1]
       /\ SubSeq(buf, 1 + k + 1, 1 + k + n) = host
  BY <1>0, <1>2, <1>3, <1>9 DEF n
<1>11. /\ buf \in Seq(B) /\ Len(buf) = Len(front) + Len(port) + Len(rest)
       /\ \A i \in 1..Len(port) : buf[Len(front) + i] = port[i]
  <2>1. buf = front \o port \o rest
    BY <1>6 DEF buf
  <2>2. /\ front \o port \o rest \in Seq(B)
        /\ Len(front \o port \o rest) = Len(front) + Len(port) + Len(rest)
        /\ \A i \in 1..Len(port) : (front \o port \o rest)[Len(front) + i] = port[i]
    <3> HIDE DEF buf
    <3>1. front \in Seq(B)
      BY <1>4
    <3> QED
      BY ONLY <3>1, port \in Seq(B), rest \in Seq(B), Slice
  <2> HIDE DEF buf
  <2> QED
    BY <2>1, <2>2
<1>12. buf[1 + k + n + 1] = port[1] /\ buf[1 + k + n + 2] = port[2]
  BY <1>0, <1>4, <1>11
<1> QED
  BY <1>0, <1>4, <1>7, <1>10, <1>11, <1>12 DEF k, n, whole, buf, LaidOut

\* The fields of an address that fits.
LEMMA Fields ==
  ASSUME NEW a, IsAddress(a), ~IsTooLong(a)
  PROVE  /\ a.atyp \in {1, 3, 4} /\ a.host \in Seq(Byte) /\ Len(a.host) \in Nat
         /\ a.atyp = 1 => Len(a.host) = 4
         /\ a.atyp = 4 => Len(a.host) = 16
         /\ a.atyp = 3 => Len(a.host) > 0 /\ Len(a.host) < 256
         /\ a.port \in Nat /\ a.port < 65536
         /\ a.atyp = 3 => Utf8(a.host)
<1>1. /\ a.atyp \in {1, 3, 4} /\ a.host \in Seq(Byte)
      /\ a.atyp = 1 => Len(a.host) = 4
      /\ a.atyp = 4 => Len(a.host) = 16
      /\ a.atyp = 3 => a.host # <<>>
      /\ a.port \in Nat /\ a.port < 65536
      /\ a.atyp = 3 => Utf8(a.host)
  BY DEF IsAddress, V4, V6, DomainName
<1> DEFINE host == a.host
<1>2. host \in Seq(Byte)
  BY <1>1
<1> HIDE DEF host
<1>3. Len(host) \in Nat /\ (host # <<>> => Len(host) > 0)
  BY <1>2, EmptySeq, LenProperties
<1>4. a.atyp = 3 => ~(Len(a.host) > 255)
  BY DEF IsTooLong, DomainName
<1> QED
  BY <1>1, <1>3, <1>4 DEF host

LEMMA EncodedIsFound ==
  ASSUME NEW a, IsAddress(a), ~IsTooLong(a), NEW rest \in Seq(Byte),
         NEW buf, buf = Encode(a) \o rest
  PROVE  /\ Encode(a) \in Seq(Byte) /\ Len(Encode(a)) = EncodedLen(a)
         /\ EncodedLen(a) \in Nat /\ EncodedLen(a) > 0
         /\ Fits(buf)
         /\ buf[1] = a.atyp
         /\ Before(buf) + HostLen(buf) + 2 = EncodedLen(a)
         /\ SubSeq(buf, Before(buf) + 1, Before(buf) + HostLen(buf)) = a.host
         /\ FromBigEndian(buf[Before(buf) + HostLen(buf) + 1],
                          buf[Before(buf) + HostLen(buf) + 2]) = a.port
<1> DEFINE at     == a.atyp
           host   == a.host
           n      == Len(a.host)
           prefix == LengthPrefix(a)
           k      == IF a.atyp = 3 THEN 1 ELSE 0
           port   == ToBigEndian(a.port)
           whole  == Encode(a)
<1>1. /\ at \in {1, 3, 4} /\ host \in Seq(Byte) /\ n \in Nat /\ n = Len(host)
      /\ at = 1 => n = 4
      /\ at = 4 => n = 16
      /\ at = 3 => n > 0 /\ n < 256
  BY Fields
<1>2. /\ port \in Seq(Byte) /\ Len(port) = 2
      /\ FromBigEndian(port[1], port[2]) = a.port
  BY Fields, PortRoundTrips
<1>3. prefix = IF at = 3 THEN <<n>> ELSE <<>>
  BY DEF LengthPrefix, DomainName
<1>4. whole = <<at>> \o prefix \o host \o port
  BY DEF Encode
<1>5. k = IF at = 3 THEN 1 ELSE 0
  OBVIOUS
<1>6. EncodedLen(a) = 1 + Len(prefix) + n + 2
  BY DEF EncodedLen
<1> HIDE DEF at, host, n, prefix, k, port, whole
<1>7. at \in Byte /\ (at = 3 => n \in Byte)
  BY <1>1, ByteIs
<1>8. /\ prefix \in Seq(Byte) /\ k \in Nat /\ k = Len(prefix)
      /\ at = 3 => prefix[1] = n
  <2>1. CASE at = 3
    <3>1. prefix = <<n>> /\ k = 1 /\ n \in Byte
      BY <1>3, <1>5, <1>7, <2>1
    <3> QED
      BY <2>1, <3>1
  <2>2. CASE at # 3
    BY <1>3, <1>5, <2>2, EmptySeq
  <2> QED
    BY <2>1, <2>2
<1>9. /\ whole \in Seq(Byte) /\ Len(whole) = 1 + k + n + 2
      /\ buf \in Seq(Byte) /\ Len(buf) = 1 + k + n + 2 + Len(rest)
      /\ buf[1] = at
      /\ k = 1 => buf[2] = prefix[1]
      /\ SubSeq(buf, 1 + k + 1, 1 + k + n) = host
      /\ buf[1 + k + n + 1] = port[1] /\ buf[1 + k + n + 2] = port[2]
  <2> DEFINE w == Joint(at, prefix, host, port)
             b == w \o rest
  <2>1. whole = w /\ buf = b
    BY <1>4 DEF whole, Joint
  <2>2. LaidOut(Byte, w, b, at, prefix, host, port, rest)
    BY <1>1, <1>2, <1>7, <1>8, Layout
  <2> HIDE DEF w, b
  <2>3. k = Len(prefix) /\ n = Len(host)
    BY <1>1, <1>8
  <2> QED
    BY ONLY <2>1, <2>2, <2>3 DEF LaidOut
<1>10. Len(rest) \in Nat
  BY LenProperties
<1>11. Before(buf) = 1 + k
  BY <1>1, <1>5, <1>9 DEF Before, DomainName
<1>12. HostLen(buf) = n
  BY <1>1, <1>5, <1>8, <1>9 DEF HostLen, V4, V6
<1>13. /\ n > 0 /\ Len(buf) >= 1 /\ Len(buf) >= 1 + k + n + 2
       /\ at = 3 => Len(buf) >= 2
  BY <1>1, <1>5, <1>9, <1>10
<1>14. Fits(buf)
  BY <1>1, <1>9, <1>11, <1>12, <1>13 DEF Fits, V4, V6, DomainName
<1>15. EncodedLen(a) = 1 + k + n + 2 /\ EncodedLen(a) \in Nat /\ EncodedLen(a) > 0
  BY <1>1, <1>6, <1>8
<1>16. /\ SubSeq(buf, Before(buf) + 1, Before(buf) + HostLen(buf)) = host
       /\ FromBigEndian(buf[Before(buf) + HostLen(buf) + 1],
                        buf[Before(buf) + HostLen(buf) + 2]) = a.port
  BY <1>2, <1>9, <1>11, <1>12
<1>17. Before(buf) + HostLen(buf) + 2 = EncodedLen(a)
  BY <1>11, <1>12, <1>15
<1> QED
  BY <1>9, <1>14, <1>15, <1>16, <1>17 DEF at, host, whole

LEMMA AddressRoundTrips ==
  ASSUME NEW a, IsAddress(a), ~IsTooLong(a), NEW rest \in Seq(Byte)
  PROVE  Parse(Encode(a) \o rest) = [is |-> "ok", len |-> EncodedLen(a), address |-> a]
<1> DEFINE buf == Encode(a) \o rest
           end == Before(buf) + HostLen(buf)
<1>1. /\ Fits(buf) /\ buf[1] = a.atyp
      /\ end + 2 = EncodedLen(a)
      /\ SubSeq(buf, Before(buf) + 1, end) = a.host
      /\ FromBigEndian(buf[end + 1], buf[end + 2]) = a.port
  BY EncodedIsFound
<1> HIDE DEF buf
<1>2. a.atyp = DomainName => Utf8(a.host)
  BY DEF IsAddress
<1>3. a = [atyp |-> a.atyp, host |-> a.host, port |-> a.port]
  BY DEF IsAddress
<1>4. Parse(buf) = [is |-> "ok", len |-> end + 2,
                    address |-> [atyp |-> a.atyp, host |-> a.host, port |-> a.port]]
  BY <1>1, <1>2 DEF Parse
<1> QED
  BY <1>1, <1>3, <1>4 DEF buf

LEMMA OneDatagram ==
  ASSUME NEW source \in Addresses, NEW payload \in Payloads
  PROVE  /\ EncodeUdp(source, payload) = Error => Len(source.host) > 255
         /\ EncodeUdp(source, payload) # Error =>
              LET packet == EncodeUdp(source, payload).packet IN
              /\ Len(packet) = 3 + EncodedLen(source) + Len(payload)
              /\ ParseUdp(packet) =
                   [is |-> "ok", destination |-> source, payload |-> payload]
<1> DEFINE body   == Encode(source) \o payload
           packet == <<0, 0, 0>> \o Encode(source) \o payload
<1>1. IsAddress(source) /\ payload \in Seq(Byte)
  BY WireAssumption
<1>2. CASE IsTooLong(source)
  BY <1>2 DEF EncodeUdp, IsTooLong
<1>3. CASE ~IsTooLong(source)
  <2>1. EncodeUdp(source, payload) = [is |-> "ok", packet |-> packet]
    BY <1>3 DEF EncodeUdp
  <2>2. Encode(source) \in Seq(Byte) /\ Len(Encode(source)) = EncodedLen(source)
    BY <1>1, <1>3, EncodedIsFound
  <2>3. <<0, 0, 0>> \in Seq(Byte) /\ Len(<<0, 0, 0>>) = 3
    BY DEF Byte
  <2>4. body \in Seq(Byte) /\ Len(body) = EncodedLen(source) + Len(payload)
    BY <1>1, <2>2, ConcatProperties
  <2>5. packet = <<0, 0, 0>> \o body
    BY <1>1, <2>2, <2>3, ConcatAssociative
  <2>6. /\ Len(packet) = 3 + Len(body)
        /\ packet[1] = 0 /\ packet[2] = 0 /\ packet[3] = 0
    BY <2>3, <2>4, <2>5, ConcatProperties
  <2>7. SubSeq(packet, 4, Len(packet)) = body
    BY ONLY <2>3, <2>4, <2>5, Suffix
  <2>8. Parse(body) = [is |-> "ok", len |-> EncodedLen(source), address |-> source]
    BY <1>1, <1>3, AddressRoundTrips
  <2>9. EncodedLen(source) \in Nat /\ EncodedLen(source) > 0 /\ Len(payload) \in Nat
    BY <1>1, <1>3, EncodedIsFound, LenProperties
  <2>10. SubSeq(packet, 4 + EncodedLen(source), Len(packet)) = payload
    <3>1. <<0, 0, 0>> \o Encode(source) \in Seq(Byte)
          /\ Len(<<0, 0, 0>> \o Encode(source)) = 3 + EncodedLen(source)
      BY <2>2, <2>3, ConcatProperties
    <3>2. SubSeq(packet, 3 + EncodedLen(source) + 1, Len(packet)) = payload
      BY <1>1, <3>1, Suffix
    <3> QED
      BY <2>9, <3>2
  <2> HIDE DEF packet, body
  <2>11. ParseUdp(packet) = [is |-> "ok", destination |-> source, payload |-> payload]
    <3> DEFINE parsed == Parse(SubSeq(packet, 4, Len(packet)))
    <3>1. /\ parsed.is = "ok"
          /\ parsed.len = EncodedLen(source) /\ parsed.address = source
      <4>1. parsed = [is |-> "ok", len |-> EncodedLen(source), address |-> source]
        BY ONLY <2>7, <2>8
      <4> HIDE DEF parsed
      <4> QED
        BY ONLY <4>1
    <3>2. parsed # Error
      BY <3>1 DEF Error
    <3>3. ~(Len(packet) < 4)
      BY <2>4, <2>6, <2>9
    <3> HIDE DEF parsed
    <3>4. ParseUdp(packet) =
            [is |-> "ok", destination |-> parsed.address,
             payload |-> SubSeq(packet, 4 + parsed.len, Len(packet))]
      BY <2>6, <3>2, <3>3 DEF ParseUdp, parsed
    <3> QED
      BY <2>10, <3>1, <3>4
  <2>12. Len(packet) = 3 + EncodedLen(source) + Len(payload)
    BY <2>4, <2>6, <2>9
  <2> QED
    BY <2>1, <2>11, <2>12 DEF Error
<1> QED
  BY <1>2, <1>3

\* A datagram under way is what one of the addresses and payloads encode to.
DatagramIsEncoded ==
  \/ datagram.is = "none"
  \/ \E source \in Addresses, payload \in Payloads :
       LET encoded == EncodeUdp(source, payload) IN
       /\ datagram.is \in {"encoded", "parsed"}
       /\ datagram.source = source /\ datagram.payload = payload
       /\ datagram.encoded = encoded
       /\ datagram.is = "parsed" =>
            encoded # Error /\ datagram.parsed = ParseUdp(encoded.packet)

\* What encode_udp_datagram writes, parse_udp_datagram reads back, whatever the
\* address, the payload and their lengths.
THEOREM DatagramsDoRoundTrip == Spec => []DatagramsRoundTrip
<1>1. Init => DatagramIsEncoded
  BY DEF Init, NoDatagram, DatagramIsEncoded
<1>2. DatagramIsEncoded /\ [Next]_vars => DatagramIsEncoded'
  <2> SUFFICES ASSUME DatagramIsEncoded, [Next]_vars
               PROVE  DatagramIsEncoded'
    OBVIOUS
  <2>1. CASE EncodeDatagram
    <3>1. PICK source \in Addresses, payload \in Payloads :
            datagram' = [is |-> "encoded", source |-> source, payload |-> payload,
                         encoded |-> EncodeUdp(source, payload)]
      BY <2>1 DEF EncodeDatagram
    <3> QED
      BY <3>1 DEF DatagramIsEncoded
  <2>2. CASE ParseDatagram
    <3>1. /\ datagram.is = "encoded" /\ datagram.encoded # Error
          /\ datagram' = [is |-> "parsed", source |-> datagram.source,
                          payload |-> datagram.payload, encoded |-> datagram.encoded,
                          parsed |-> ParseUdp(datagram.encoded.packet)]
      BY <2>2 DEF ParseDatagram
    <3>2. PICK source \in Addresses, payload \in Payloads :
            /\ datagram.source = source /\ datagram.payload = payload
            /\ datagram.encoded = EncodeUdp(source, payload)
      BY <3>1 DEF DatagramIsEncoded
    <3> QED
      BY <3>1, <3>2 DEF DatagramIsEncoded
  <2>3. CASE UNCHANGED datagram
    BY <2>3 DEF DatagramIsEncoded
  <2> QED
    BY <2>1, <2>2, <2>3 DEF Next, vars, Arrive, Got, ReadType, ReadLength, ReadHost, ReadPort,
                            EndOfStream, TimesOut
<1>3. DatagramIsEncoded => DatagramsRoundTrip
  <2> SUFFICES ASSUME DatagramIsEncoded, datagram.is # "none"
               PROVE  DatagramsRoundTrip
    BY DEF DatagramsRoundTrip
  <2>1. PICK source \in Addresses, payload \in Payloads :
          /\ datagram.source = source /\ datagram.payload = payload
          /\ datagram.encoded = EncodeUdp(source, payload)
          /\ datagram.is = "parsed" =>
               /\ EncodeUdp(source, payload) # Error
               /\ datagram.parsed = ParseUdp(EncodeUdp(source, payload).packet)
    BY DEF DatagramIsEncoded
  <2> QED
    BY <2>1, OneDatagram DEF DatagramsRoundTrip
<1> QED
  BY <1>1, <1>2, <1>3, PTL DEF Spec

-----------------------------------------------------------------------------
(* The two readers.                                                        *)

\* The type and, for a name, the length are there and sound.
KnownHost ==
  /\ Len(stream) >= Before(stream) /\ stream[1] \in {V4, V6, DomainName}
  /\ HostLen(stream) \in Nat /\ HostLen(stream) > 0

\* What the reader waits for is where the parser looks for it; what it has
\* decided, the parser decides.
ReaderKeepsUp ==
  LET before == Before(stream)
      len    == HostLen(stream)
  IN
  \/ reader.at = "type" /\ reader.pos = 0 /\ reader.need = 1
  \/ /\ reader.at = "length" /\ reader.pos = 1 /\ reader.need = 1
     /\ Len(stream) >= 1 /\ stream[1] = DomainName
  \/ reader.at = "host" /\ KnownHost /\ reader.pos = before /\ reader.need = len
  \/ /\ reader.at = "port" /\ KnownHost /\ reader.pos = before + len /\ reader.need = 2
     /\ reader.host = SubSeq(stream, before + 1, before + len)
  \/ /\ reader.at = "done" /\ KnownHost /\ Fits(stream)
     /\ Parse(stream) = [is |-> "ok", len |-> reader.pos, address |-> reader.address]
  \/ reader.at = "failed" /\ Parse(stream) = Error
  \/ reader.at = "timed out"

ReaderInv ==
  /\ stream \in Seq(Byte)
  /\ arrived \in Nat /\ arrived <= Len(stream)
  /\ ReaderKeepsUp

LEMMA StreamFacts ==
  ASSUME NEW s \in Seq(Byte)
  PROVE  /\ Len(s) \in Nat
         /\ \A i \in 1..Len(s) : s[i] \in Nat /\ s[i] < 256
         /\ Before(s) \in {1, 2}
<1>1. Len(s) \in Nat /\ \A i \in 1..Len(s) : s[i] \in Byte
  BY LenProperties, ElementOfSeq
<1>2. \A b \in Byte : b \in Nat /\ b < 256
  BY DEF Byte
<1> QED
  BY <1>1, <1>2 DEF Before

LEMMA ReaderStep == ReaderInv /\ [Next]_vars => ReaderInv'
<1> SUFFICES ASSUME ReaderInv, [Next]_vars
             PROVE  ReaderInv'
  OBVIOUS
<1> DEFINE before == Before(stream)
           len    == HostLen(stream)
<1>0. /\ stream \in Seq(Byte) /\ Len(stream) \in Nat
      /\ arrived \in Nat /\ arrived <= Len(stream)
      /\ \A i \in 1..Len(stream) : stream[i] \in Nat /\ stream[i] < 256
      /\ before \in {1, 2}
  BY StreamFacts DEF ReaderInv
<1>1. CASE Arrive
  <2>1. UNCHANGED <<stream, reader>>
    BY <1>1 DEF Arrive
  <2>2. PICK n \in Chunks :
          arrived' = IF arrived + n < Len(stream) THEN arrived + n ELSE Len(stream)
    BY <1>1 DEF Arrive
  <2>3. n \in Nat
    BY WireAssumption
  <2>4. arrived' \in Nat /\ arrived' <= Len(stream)
    BY <1>0, <2>2, <2>3
  <2> QED
    BY <1>0, <2>1, <2>4 DEF ReaderInv, ReaderKeepsUp, KnownHost
<1>2. CASE ReadType
  <2>0. UNCHANGED <<stream, arrived>> /\ reader.pos = 0 /\ Len(stream) >= 1
    BY <1>0, <1>2 DEF ReadType, Got, ReaderInv, ReaderKeepsUp
  <2>1. reader' = IF stream[1] \in {V4, V6} THEN AtHost(IF stream[1] = V4 THEN 4 ELSE 16)
                ELSE IF stream[1] = DomainName
                  THEN [at |-> "length", pos |-> 1, need |-> 1]
                ELSE Fail
    BY <1>2, <2>0 DEF ReadType, Next1
  <2>2. CASE stream[1] \in {V4, V6}
    <3>1. before = 1 /\ len = (IF stream[1] = V4 THEN 4 ELSE 16)
      BY <2>2 DEF Before, HostLen, V4, V6, DomainName
    <3>2. reader' = AtHost(len)
      BY <2>1, <2>2, <3>1
    <3>3. reader'.at = "host" /\ reader'.pos = 1 /\ reader'.need = len
      BY <2>0, <3>2 DEF AtHost
    <3>4. KnownHost
      BY <2>0, <2>2, <3>1 DEF KnownHost
    <3> QED
      BY <1>0, <2>0, <3>1, <3>3, <3>4 DEF ReaderInv, ReaderKeepsUp, KnownHost
  <2>3. CASE stream[1] = DomainName
    <3>1. reader' = [at |-> "length", pos |-> 1, need |-> 1]
      BY <2>1, <2>3 DEF V4, V6, DomainName
    <3>2. reader'.at = "length" /\ reader'.pos = 1 /\ reader'.need = 1
      BY ONLY <3>1
    <3> QED
      BY <1>0, <2>0, <2>3, <3>2 DEF ReaderInv, ReaderKeepsUp
  <2>4. CASE stream[1] \notin {V4, V6, DomainName}
    <3>1. reader'.at = "failed"
      BY <2>1, <2>4 DEF Fail
    <3>2. Parse(stream) = Error
      BY <2>4 DEF Parse, Fits
    <3> QED
      BY <1>0, <2>0, <3>1, <3>2 DEF ReaderInv, ReaderKeepsUp
  <2> QED
    BY <2>2, <2>3, <2>4
<1>3. CASE ReadLength
  <2>0. /\ UNCHANGED <<stream, arrived>> /\ reader.pos = 1 /\ Len(stream) >= 2
        /\ stream[1] = DomainName /\ stream[2] \in Nat
    BY <1>0, <1>3 DEF ReadLength, Got, ReaderInv, ReaderKeepsUp
  <2>1. reader' = IF stream[2] = 0 THEN Fail ELSE AtHost(stream[2])
    BY <1>3, <2>0 DEF ReadLength, Next1
  <2>2. before = 2 /\ len = stream[2]
    BY <2>0 DEF Before, HostLen, V4, V6, DomainName
  <2>3. CASE stream[2] = 0
    <3>1. reader'.at = "failed"
      BY <2>1, <2>3 DEF Fail
    <3>2. Parse(stream) = Error
      BY <2>2, <2>3 DEF Parse, Fits
    <3> QED
      BY <1>0, <2>0, <3>1, <3>2 DEF ReaderInv, ReaderKeepsUp
  <2>4. CASE stream[2] # 0
    <3>1. reader' = AtHost(stream[2])
      BY <2>1, <2>4
    <3>2. reader'.at = "host" /\ reader'.pos = 2 /\ reader'.need = len
      BY <2>0, <2>2, <3>1 DEF AtHost
    <3>3. KnownHost
      BY <2>0, <2>2, <2>4 DEF KnownHost
    <3> QED
      BY <1>0, <2>0, <2>2, <3>2, <3>3 DEF ReaderInv, ReaderKeepsUp, KnownHost
  <2> QED
    BY <2>3, <2>4
<1>4. CASE ReadHost
  <2>1. UNCHANGED <<stream, arrived>> /\ KnownHost
    BY <1>0, <1>4 DEF ReadHost, Got, ReaderInv, ReaderKeepsUp
  <2>2. reader' = [at |-> "port", pos |-> before + len, need |-> 2,
                   host |-> SubSeq(stream, before + 1, before + len)]
    BY <1>0, <1>4 DEF ReadHost, Got, ReaderInv, ReaderKeepsUp
  <2>3. /\ reader'.at = "port" /\ reader'.pos = before + len /\ reader'.need = 2
        /\ reader'.host = SubSeq(stream, before + 1, before + len)
    BY ONLY <2>2
  <2> QED
    BY <1>0, <2>1, <2>3 DEF ReaderInv, ReaderKeepsUp, KnownHost
<1>5. CASE ReadPort
  <2> DEFINE host == SubSeq(stream, before + 1, before + len)
             address == [atyp |-> stream[1], host |-> host,
                         port |-> FromBigEndian(stream[before + len + 1],
                                                stream[before + len + 2])]
  <2>1. /\ UNCHANGED <<stream, arrived>> /\ KnownHost
        /\ reader.pos = before + len /\ Len(stream) >= before + len + 2
        /\ reader.host = host
    BY <1>0, <1>5 DEF ReadPort, Got, ReaderInv, ReaderKeepsUp, KnownHost
  <2>5. reader' = IF stream[1] = DomainName /\ ~Utf8(host) THEN Fail
                  ELSE [at |-> "done", pos |-> before + len + 2, address |-> address]
    BY <1>5, <2>1 DEF ReadPort, Next1, Next2
  <2>2. Fits(stream)
    BY <1>0, <2>1 DEF Fits, KnownHost, Before, DomainName
  <2>3. CASE stream[1] = DomainName /\ ~Utf8(host)
    <3>1. reader'.at = "failed"
      BY <2>3, <2>5 DEF Fail
    <3>2. Parse(stream) = Error
      BY <2>2, <2>3 DEF Parse
    <3> QED
      BY <1>0, <2>1, <3>1, <3>2 DEF ReaderInv, ReaderKeepsUp
  <2>4. CASE ~(stream[1] = DomainName /\ ~Utf8(host))
    <3>1. reader' = [at |-> "done", pos |-> before + len + 2, address |-> address]
      BY <2>4, <2>5
    <3>2. Parse(stream) = [is |-> "ok", len |-> before + len + 2, address |-> address]
      BY <2>2, <2>4 DEF Parse
    <3> HIDE DEF address
    <3>3. /\ reader'.at = "done" /\ reader'.pos = before + len + 2
          /\ reader'.address = address
      BY ONLY <3>1
    <3> QED
      BY <1>0, <2>1, <2>2, <3>2, <3>3 DEF ReaderInv, ReaderKeepsUp, KnownHost
  <2> QED
    BY <2>3, <2>4
<1>6. CASE EndOfStream
  <2>1. /\ UNCHANGED <<stream, arrived>> /\ arrived = Len(stream)
        /\ reader.pos + reader.need > Len(stream)
        /\ reader.at \in {"type", "length", "host", "port"}
        /\ reader'.at = "failed"
    BY <1>6 DEF EndOfStream, Reading, Fail
  <2>2. \/ reader.pos = 0 /\ reader.need = 1
        \/ reader.pos = 1 /\ reader.need = 1 /\ stream[1] = DomainName
        \/ KnownHost /\ reader.pos = before /\ reader.need = len
        \/ KnownHost /\ reader.pos = before + len /\ reader.need = 2
    BY <2>1 DEF ReaderInv, ReaderKeepsUp
  <2>3. ~Fits(stream)
    BY <1>0, <2>1, <2>2 DEF Fits, KnownHost
  <2>4. Parse(stream) = Error
    BY <2>3 DEF Parse
  <2> QED
    BY <1>0, <2>1, <2>4 DEF ReaderInv, ReaderKeepsUp
<1>7. CASE TimesOut
  <2>1. UNCHANGED <<stream, arrived>> /\ reader'.at = "timed out"
    BY <1>7 DEF TimesOut
  <2> QED
    BY <1>0, <2>1 DEF ReaderInv, ReaderKeepsUp
<1>8. CASE UNCHANGED <<stream, arrived, reader>>
  BY <1>8 DEF ReaderInv, ReaderKeepsUp, KnownHost
<1> QED
  BY <1>1, <1>2, <1>3, <1>4, <1>5, <1>6, <1>7, <1>8 DEF Next, vars, EncodeDatagram, ParseDatagram

\* Bytes m + 1 to m + n of a buffer that has them.
LEMMA Part ==
  ASSUME NEW S, NEW s \in Seq(S), NEW m \in Nat, NEW n \in Nat, m + n <= Len(s)
  PROVE  LET part == SubSeq(s, m + 1, m + n) IN
         part \in Seq(S) /\ Len(part) = n /\ \A i \in 1..n : part[i] = s[m + i]
<1> DEFINE p == m + 1
           q == m + n
           part == SubSeq(s, p, q)
<1>1. p \in Int /\ q \in Int /\ q - p + 1 = n /\ Len(s) \in Nat
  BY LenProperties
<1>2. \A i \in p..q : s[i] \in S
  <2> SUFFICES ASSUME NEW i \in p..q PROVE s[i] \in S
    OBVIOUS
  <2>1. i \in 1..Len(s)
    BY <1>1
  <2> QED
    BY <2>1, ElementOfSeq
<1> HIDE DEF p, q
<1>3. /\ part \in Seq(S)
      /\ Len(part) = IF p <= q THEN q - p + 1 ELSE 0
      /\ \A i \in 1..(q - p + 1) : part[i] = s[p + i - 1]
  BY <1>1, <1>2, SubSeqProperties
<1> HIDE DEF part
<1>4. part \in Seq(S) /\ Len(part) = n /\ \A i \in 1..n : part[i] = s[m + i]
  BY ONLY <1>1, <1>3, m \in Nat, n \in Nat DEF p, q
<1> QED
  BY <1>4 DEF part, p, q

LEMMA BigEndianIsUnique ==
  ASSUME NEW hi \in Nat, hi < 256, NEW lo \in Nat, lo < 256
  PROVE  ToBigEndian(FromBigEndian(hi, lo)) = <<hi, lo>>
<1> DEFINE port == 256 * hi + lo
<1>1. port \div 256 = hi /\ port % 256 = lo
  BY Z3
<1> QED
  BY <1>1 DEF ToBigEndian, FromBigEndian

\* What is accepted is the one encoding of the address found in it.
LEMMA ParsedIsEncoded ==
  ASSUME NEW s \in Seq(Byte), Fits(s), NEW l, NEW a,
         Parse(s) = [is |-> "ok", len |-> l, address |-> a]
  PROVE  Encode(a) = SubSeq(s, 1, l)
<1> DEFINE k    == Before(s) - 1
           n    == HostLen(s)
           host == SubSeq(s, k + 2, k + 1 + n)
           hi   == s[k + 1 + n + 1]
           lo   == s[k + 1 + n + 2]
           at   == s[1]
           port == ToBigEndian(a.port)
           prefix == LengthPrefix(a)
<1>1. /\ Len(s) \in Nat /\ Len(s) >= 1 /\ at \in {1, 3, 4}
      /\ at = 3 => Len(s) >= 2
      /\ n > 0 /\ Len(s) >= Before(s) + n + 2
      /\ \A i \in 1..Len(s) : s[i] \in Nat /\ s[i] < 256
  BY StreamFacts DEF Fits, V4, V6, DomainName
<1>2. /\ k = (IF at = 3 THEN 1 ELSE 0) /\ Before(s) = k + 1 /\ k \in Nat
      /\ n \in Nat
      /\ at = 3 => n = s[2]
  BY <1>1 DEF Before, HostLen, V4, V6, DomainName
<1>3. l = k + 1 + n + 2
      /\ a = [atyp |-> at, host |-> host, port |-> FromBigEndian(hi, lo)]
  <2> DEFINE end   == Before(s) + HostLen(s)
             name  == SubSeq(s, Before(s) + 1, end)
             found == [atyp |-> s[1], host |-> name,
                       port |-> FromBigEndian(s[end + 1], s[end + 2])]
  <2>1. Error.is = "error"
    BY DEF Error
  <2>2. Parse(s).is = "ok" /\ Parse(s).len = l /\ Parse(s).address = a
    OBVIOUS
  <2>3. Parse(s) = Error \/ Parse(s) = [is |-> "ok", len |-> end + 2, address |-> found]
    BY Zenon DEF Parse
  <2>4. Parse(s) # Error
    BY ONLY <2>1, <2>2
  <2>5. l = end + 2 /\ a = found
    <3> HIDE DEF end, found
    <3> QED
      BY ONLY <2>2, <2>3, <2>4
  <2>6. end = k + 1 + n /\ Before(s) + 1 = k + 2
    BY <1>2
  <2>7. name = host /\ s[end + 1] = hi /\ s[end + 2] = lo
    BY ONLY <2>6
  <2> QED
    BY <1>2, <2>5, <2>6, <2>7
<1>4. a.atyp = at /\ a.host = host /\ a.port = FromBigEndian(hi, lo)
  BY ONLY <1>3
<1> HIDE DEF k, n
<1>5. /\ host \in Seq(Byte) /\ Len(host) = n
      /\ \A i \in 1..n : host[i] = s[k + 1 + i]
  <2> DEFINE m == k + 1
  <2>1. m \in Nat /\ m + n <= Len(s) /\ m + 1 = k + 2
    BY <1>1, <1>2
  <2>2. LET part == SubSeq(s, m + 1, m + n) IN
        part \in Seq(Byte) /\ Len(part) = n /\ \A i \in 1..n : part[i] = s[m + i]
    <3> HIDE DEF m
    <3> QED
      BY <1>2, <2>1, Part
  <2> QED
    BY <2>1, <2>2, Zenon
<1>6. hi \in Nat /\ hi < 256 /\ lo \in Nat /\ lo < 256 /\ at \in Nat /\ at < 256
  BY <1>1, <1>2
<1> HIDE DEF host, hi, lo, at
<1>7. port = <<hi, lo>>
  BY <1>4, <1>6, BigEndianIsUnique
<1>8. prefix = IF at = 3 THEN <<n>> ELSE <<>>
  BY <1>4, <1>5 DEF LengthPrefix, DomainName
<1>9. n \in Nat /\ (at = 3 => n < 256)
  BY <1>1, <1>2
<1> HIDE DEF port, prefix
<1>10. /\ port \in Seq(Byte) /\ Len(port) = 2 /\ port[1] = hi /\ port[2] = lo
  BY <1>6, <1>7, ByteIs
<1>11. /\ prefix \in Seq(Byte) /\ Len(prefix) = k
       /\ k = 1 => prefix[1] = n
  <2>1. CASE at = 3
    <3>1. prefix = <<n>> /\ k = 1 /\ n \in Byte
      BY <1>2, <1>8, <1>9, <2>1, ByteIs
    <3> QED
      BY <3>1
  <2>2. CASE at # 3
    <3>1. prefix = <<>> /\ k = 0
      BY <1>2, <1>8, <2>2
    <3> QED
      BY <3>1, EmptySeq
  <2> QED
    BY <2>1, <2>2
<1> DEFINE whole == Joint(at, prefix, host, port)
<1>12. Encode(a) = whole
  BY <1>4 DEF Encode, Joint, port, prefix
<1>13. at \in Byte /\ <<>> \in Seq(Byte)
  BY <1>6, ByteIs, EmptySeq
<1>14. LaidOut(Byte, whole, whole \o <<>>, at, prefix, host, port, <<>>)
  BY <1>5, <1>10, <1>11, <1>13, Layout
<1> HIDE DEF whole
<1>15. /\ whole \in Seq(Byte) /\ Len(whole) = 1 + k + n + 2
       /\ whole \o <<>> = whole
  BY <1>5, <1>11, <1>14, ConcatEmptySeq DEF LaidOut
<1>16. /\ whole[1] = at
       /\ k = 1 => whole[2] = n
       /\ SubSeq(whole, 1 + k + 1, 1 + k + n) = host
       /\ whole[1 + k + n + 1] = hi /\ whole[1 + k + n + 2] = lo
  BY <1>5, <1>10, <1>11, <1>14, <1>15 DEF LaidOut
<1>17. \A i \in 1..n : whole[1 + k + i] = host[i]
  <2> DEFINE m == 1 + k
  <2>1. m \in Nat /\ m + n <= Len(whole)
    BY <1>2, <1>15
  <2>2. \A i \in 1..n : SubSeq(whole, m + 1, m + n)[i] = whole[m + i]
    <3> HIDE DEF m
    <3> QED
      BY <1>2, <1>15, <2>1, Part
  <2> QED
    BY <1>16, <2>2, Zenon
<1> DEFINE read == SubSeq(s, 1, l)
<1>18. read \in Seq(Byte) /\ Len(read) = l /\ \A i \in 1..l : read[i] = s[i]
  <2>1. l \in Nat /\ l <= Len(s) /\ l >= 1
    BY <1>1, <1>2, <1>3
  <2>2. read \in Seq(Byte) /\ Len(read) = l - 1 + 1 /\ \A i \in 1..l : read[i] = s[i]
    <3>1. \A i \in 1..l : s[i] \in Byte
      BY <1>1, <2>1, ElementOfSeq
    <3> QED
      BY <2>1, <3>1, SubSeqProperties
  <2> HIDE DEF read
  <2> QED
    BY <2>1, <2>2
<1> HIDE DEF read
<1>19. \A i \in 1..l : whole[i] = s[i]
  <2> SUFFICES ASSUME NEW i \in 1..l PROVE whole[i] = s[i]
    OBVIOUS
  <2>1. CASE i = 1
    BY <1>16, <2>1 DEF at
  <2>2. CASE k = 1 /\ i = 2
    BY <1>2, <1>16, <2>2
  <2>3. CASE i > 1 + k /\ i <= 1 + k + n
    <3>1. i - (1 + k) \in 1..n /\ 1 + k + (i - (1 + k)) = i /\ k + 1 + (i - (1 + k)) = i
      BY <1>2, <2>3
    <3> QED
      BY <1>5, <1>17, <3>1
  <2>4. CASE i = 1 + k + n + 1
    BY <1>2, <1>16, <2>4 DEF hi
  <2>5. CASE i = 1 + k + n + 2
    BY <1>2, <1>16, <2>5 DEF lo
  <2> QED
    BY <1>2, <1>3, <2>1, <2>2, <2>3, <2>4, <2>5
<1>20. whole = read
  <2>1. Len(whole) = Len(read)
    BY <1>2, <1>3, <1>15, <1>18
  <2> QED
    BY <1>3, <1>15, <1>18, <1>19, <2>1, SeqEqual
<1> QED
  BY <1>12, <1>20 DEF read

\* However the bytes arrive and wherever they end, read_address and
\* parse_address_bytes accept the same, find the same and leave off at the same byte.
THEOREM ReadersDoAgree == Spec => []ReadersAgree
<1>1. Init => ReaderInv
  <2> SUFFICES ASSUME Init PROVE ReaderInv
    OBVIOUS
  <2>1. stream \in Seq(Byte)
    BY WireAssumption, EmptySeq DEF Init
  <2>2. arrived = 0 /\ reader.at = "type" /\ reader.pos = 0 /\ reader.need = 1
    BY DEF Init
  <2> QED
    BY <2>1, <2>2, StreamFacts DEF ReaderInv, ReaderKeepsUp
<1>2. ReaderInv => ReadersAgree
  <2> SUFFICES ASSUME ReaderInv PROVE ReadersAgree
    OBVIOUS
  <2>1. reader.at = "failed" => Parse(stream) = Error
    BY DEF ReaderInv, ReaderKeepsUp
  <2>2. CASE reader.at = "done"
    <3>1. /\ stream \in Seq(Byte) /\ Fits(stream)
          /\ Parse(stream) = [is |-> "ok", len |-> reader.pos, address |-> reader.address]
      BY <2>2 DEF ReaderInv, ReaderKeepsUp
    <3>2. Encode(reader.address) = SubSeq(stream, 1, reader.pos)
      BY <3>1, ParsedIsEncoded
    <3> QED
      BY <2>1, <3>1, <3>2 DEF ReadersAgree
  <2>3. CASE reader.at # "done"
    BY <2>1, <2>3 DEF ReadersAgree
  <2> QED
    BY <2>2, <2>3
<1> QED
  BY <1>1, <1>2, ReaderStep, PTL DEF Spec

=============================================================================
