-------------------------------- MODULE Wire --------------------------------
(***************************************************************************)
(* The SOCKS5 address on the wire (protocol.rs): written into replies and  *)
(* UDP datagrams, and read in two ways, field by field from the control    *)
(* connection (read_address) and from a whole datagram                     *)
(* (parse_address_bytes).  Bytes are numbers, buffers sequences of them.   *)
(***************************************************************************)
EXTENDS Naturals, Sequences

CONSTANTS
  Utf8(_),     \* is this byte string UTF-8?
  Addresses,   \* the addresses, payloads and received buffers considered
  Payloads,
  Buffers,
  Chunks       \* how many bytes may arrive at once

Byte == 0..255
V4 == 1
DomainName == 3
V6 == 4

\* A Rust String is UTF-8; the empty name is never parsed, and written by no one.
IsAddress(a) ==
  /\ a = [atyp |-> a.atyp, host |-> a.host, port |-> a.port]
  /\ a.atyp \in {V4, V6, DomainName} /\ a.host \in Seq(Byte)
  /\ a.port \in Nat /\ a.port < 65536
  /\ a.atyp = V4 => Len(a.host) = 4
  /\ a.atyp = V6 => Len(a.host) = 16
  /\ a.atyp = DomainName => a.host # <<>> /\ Utf8(a.host)

ASSUME WireAssumption ==
  /\ \A a \in Addresses : IsAddress(a)
  /\ Payloads \subseteq Seq(Byte)
  /\ Buffers \subseteq Seq(Byte)
  /\ Chunks \subseteq Nat \ {0}

Error    == [is |-> "error"]
Fragment == [is |-> "fragment"]

ToBigEndian(port)  == <<port \div 256, port % 256>>
FromBigEndian(hi, lo) == 256 * hi + lo

-----------------------------------------------------------------------------
(* Writing.                                                                *)

LengthPrefix(a) == IF a.atyp = DomainName THEN <<Len(a.host)>> ELSE <<>>

EncodedLen(a) == 1 + Len(LengthPrefix(a)) + Len(a.host) + 2

IsTooLongAt255(a) == a.atyp = DomainName /\ Len(a.host) >= 255   \* faulty

IsTooLong(a) == a.atyp = DomainName /\ Len(a.host) > 255

Encode(a) == <<a.atyp>> \o LengthPrefix(a) \o a.host \o ToBigEndian(a.port)

EncodeUdp(source, payload) ==
  IF IsTooLong(source) THEN Error
  ELSE [is |-> "ok", packet |-> <<0, 0, 0>> \o Encode(source) \o payload]

-----------------------------------------------------------------------------
(* parse_address_bytes and parse_udp_datagram.                             *)

\* How many bytes precede the host, and how many it has.
Before(buf)  == IF buf[1] = DomainName THEN 2 ELSE 1
HostLen(buf) == IF buf[1] = V4 THEN 4 ELSE IF buf[1] = V6 THEN 16 ELSE buf[2]

Fits(buf) ==
  /\ Len(buf) >= 1 /\ buf[1] \in {V4, V6, DomainName}
  /\ buf[1] = DomainName => Len(buf) >= 2
  /\ HostLen(buf) > 0
  /\ Len(buf) >= Before(buf) + HostLen(buf) + 2

Parse(buf) ==
  LET end  == Before(buf) + HostLen(buf)
      host == SubSeq(buf, Before(buf) + 1, end)
  IN
  IF ~Fits(buf) THEN Error
  ELSE IF buf[1] = DomainName /\ ~Utf8(host) THEN Error
  ELSE [is |-> "ok", len |-> end + 2,
        address |-> [atyp |-> buf[1], host |-> host,
                     port |-> FromBigEndian(buf[end + 1], buf[end + 2])]]

ParseUdp(packet) ==
  IF Len(packet) < 4 THEN Error
  ELSE IF packet[1] # 0 \/ packet[2] # 0 THEN Error
  ELSE IF packet[3] # 0 THEN Fragment
  ELSE LET parsed == Parse(SubSeq(packet, 4, Len(packet))) IN
    IF parsed = Error THEN Error
    ELSE [is |-> "ok", destination |-> parsed.address,
          payload |-> SubSeq(packet, 4 + parsed.len, Len(packet))]

-----------------------------------------------------------------------------
(* read_address: fields are read one by one off a stream that arrives in   *)
(* chunks; each read waits for its bytes, until the peer ends the stream   *)
(* or the timeout strikes.  On the other side, datagrams are encoded and   *)
(* parsed.                                                                 *)

VARIABLES
  stream,    \* all that the peer sends, from the address type on
  arrived,   \* how many of its bytes have arrived
  reader,    \* the field read_address waits for, and the bytes it has read
  datagram   \* a datagram under way

vars == <<stream, arrived, reader, datagram>>

NoDatagram == [is |-> "none"]

\* Start a session with a request to read, or without one.
Init ==
  /\ stream \in Buffers \cup {<<>>}
  /\ arrived = 0
  /\ reader = [at |-> "type", pos |-> 0, need |-> 1]
  /\ datagram = NoDatagram

Reading == reader.at \in {"type", "length", "host", "port"}

Arrive ==
  /\ Reading
  /\ \E n \in Chunks :
       /\ arrived < Len(stream)
       /\ arrived' = IF arrived + n < Len(stream) THEN arrived + n ELSE Len(stream)
  /\ UNCHANGED <<stream, reader, datagram>>

\* read_exact of the next field is complete.
Got(field) ==
  /\ reader.at = field /\ reader.pos + reader.need <= arrived
  /\ UNCHANGED <<stream, arrived, datagram>>

Next1 == stream[reader.pos + 1]   \* the next two bytes
Next2 == stream[reader.pos + 2]

AtHost(n) == [at |-> "host", pos |-> reader.pos + 1, need |-> n]
Fail      == [at |-> "failed"]

ReadType ==
  /\ Got("type")
  /\ reader' = IF Next1 \in {V4, V6} THEN AtHost(IF Next1 = V4 THEN 4 ELSE 16)
               ELSE IF Next1 = DomainName THEN [at |-> "length", pos |-> 1, need |-> 1]
               ELSE Fail

\* Faulty: an empty name is read.
ReadAnyLength == Got("length") /\ reader' = AtHost(Next1)

ReadLength ==
  /\ Got("length")
  /\ reader' = IF Next1 = 0 THEN Fail ELSE AtHost(Next1)

ReadHost ==
  /\ Got("host")
  /\ reader' = [at |-> "port", pos |-> reader.pos + reader.need, need |-> 2,
                host |-> SubSeq(stream, reader.pos + 1, reader.pos + reader.need)]

\* A name is checked after the port has been read.
ReadPort ==
  /\ Got("port")
  /\ reader' = IF stream[1] = DomainName /\ ~Utf8(reader.host) THEN Fail
               ELSE [at |-> "done", pos |-> reader.pos + 2,
                     address |-> [atyp |-> stream[1], host |-> reader.host,
                                  port |-> FromBigEndian(Next1, Next2)]]

EndOfStream ==
  /\ Reading /\ arrived = Len(stream) /\ reader.pos + reader.need > arrived
  /\ reader' = Fail
  /\ UNCHANGED <<stream, arrived, datagram>>

TimesOut ==
  /\ Reading /\ reader.pos + reader.need > arrived
  /\ reader' = [at |-> "timed out"]
  /\ UNCHANGED <<stream, arrived, datagram>>

\* A session without a request has datagrams instead: this only bounds the model.
EncodeDatagram ==
  /\ stream = <<>> /\ datagram = NoDatagram
  /\ \E source \in Addresses, payload \in Payloads :
       datagram' = [is |-> "encoded", source |-> source, payload |-> payload,
                    encoded |-> EncodeUdp(source, payload)]
  /\ UNCHANGED <<stream, arrived, reader>>

ParseDatagram ==
  /\ datagram.is = "encoded" /\ datagram.encoded # Error
  /\ datagram' = [is |-> "parsed", source |-> datagram.source, payload |-> datagram.payload,
                  encoded |-> datagram.encoded,
                  parsed |-> ParseUdp(datagram.encoded.packet)]
  /\ UNCHANGED <<stream, arrived, reader>>

Next ==
  \/ Arrive
  \/ ReadType \/ ReadLength \/ ReadHost \/ ReadPort \/ EndOfStream \/ TimesOut
  \/ EncodeDatagram \/ ParseDatagram

Spec == Init /\ [][Next]_vars

-----------------------------------------------------------------------------
(* Properties                                                              *)

\* What encode_udp_datagram writes, parse_udp_datagram reads back: source and
\* payload, in the length that was reserved for them, with no byte of one taken
\* for the other.  It writes all but names that do not fit their length byte.
DatagramsRoundTrip ==
  LET d == datagram IN
  /\ d.is = "encoded" =>
       IF d.encoded = Error THEN Len(d.source.host) > 255
       ELSE Len(d.encoded.packet) = 3 + EncodedLen(d.source) + Len(d.payload)
  /\ d.is = "parsed" =>
       d.parsed = [is |-> "ok", destination |-> d.source, payload |-> d.payload]

\* However the bytes arrive, wherever they end: read_address accepts exactly what
\* parse_address_bytes accepts, finds the same address and leaves off at the same
\* byte; and what they accept is the one encoding of that address.
ReadersAgree ==
  LET parsed == Parse(stream) IN
  /\ reader.at = "failed" => parsed = Error
  /\ reader.at = "done" =>
       /\ parsed = [is |-> "ok", len |-> reader.pos, address |-> reader.address]
       /\ Encode(reader.address) = SubSeq(stream, 1, reader.pos)

=============================================================================
