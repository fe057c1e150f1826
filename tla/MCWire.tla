------------------------------- MODULE MCWire -------------------------------
EXTENDS Wire

\* Any sequence of ASCII is UTF-8; one with a byte 255 is not.  The samples have
\* no other bytes above 127.
IsUtf8(s) == \A i \in DOMAIN s : s[i] < 128

SampleChunks == {1, 3, 256}

Bytes(n) == [i \in 1..n |-> i % 128]

SampleAddresses ==
  [atyp : {V4}, host : {Bytes(4)}, port : {0, 255, 256, 65535}]
    \cup [atyp : {V6}, host : {Bytes(16)}, port : {258}]
    \cup [atyp : {DomainName}, host : {Bytes(n) : n \in {1, 2, 254, 255, 256}}, port : {258}]

SamplePayloads == {<<>>, <<1>>, <<3, 1, 2, 1, 2>>}

\* Encodings cut short anywhere, with payload behind them or not, and with another
\* address type, another length or a byte that is not UTF-8 in them.
SampleBuffers ==
  LET whole == {Encode(a) \o p : a \in {b \in SampleAddresses : ~IsTooLong(b)},
                                 p \in SamplePayloads}
      short == {s \in whole : Len(s) < 30}
      cut   == UNION {{SubSeq(s, 1, n) : n \in 0..Len(s)} : s \in short}
                 \cup UNION {{SubSeq(s, 1, n) : n \in {2, 200, Len(s) - 2, Len(s) - 1}} : s \in whole \ short}
  IN whole \cup cut
       \cup {[s EXCEPT ![i] = b] : s \in short, i \in 1..4, b \in {0, 1, 2, 3, 4, 5, 255}}

=============================================================================
