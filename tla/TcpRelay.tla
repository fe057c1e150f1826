------------------------------ MODULE TcpRelay ------------------------------
(***************************************************************************)
(* The two byte streams of a proxied TCP connection, and what the proxy's  *)
(* copy_bidirectional_with_sizes does with them (handler.rs, http.rs).     *)
(* Socks5 and HttpProxy extend this module: before the relay starts they   *)
(* read from the "up" stream and write to the "down" one themselves.       *)
(*                                                                         *)
(* "up" runs from the client to the upstream, "down" back.  A unit of data *)
(* is a token that the code never splits or joins in a way that matters;   *)
(* its contents are the sender's.                                          *)
(***************************************************************************)
EXTENDS Naturals, SequencesExt

CONSTANT BufMax   \* how many tokens the copy buffer of one direction holds

ASSUME BufferAssumption == BufMax \in Nat \ {0}

VARIABLES
  log,    \* history: all the tokens the sender of each stream has sent
  wire,   \* those that the proxy has not read yet
  src,    \* the sender's end: none (not connected), open, fin, broken
  buf,    \* tokens the copy loop has read and not written yet
  out,    \* what the receiver of each stream has got
  dst     \* the proxy's writing end: open, or fin after shutdown()

pipe == <<log, wire, src, buf, out, dst>>

Dirs == {"up", "down"}
Behind(n, s) == SubSeq(s, n + 1, Len(s))   \* s without its first n tokens
Back(d) == IF d = "up" THEN "down" ELSE "up"

PipeInit ==
  /\ log = [d \in Dirs |-> <<>>]
  /\ wire = [d \in Dirs |-> <<>>]
  /\ src = [d \in Dirs |-> IF d = "up" THEN "open" ELSE "none"]
  /\ buf = [d \in Dirs |-> <<>>]
  /\ out = [d \in Dirs |-> <<>>]
  /\ dst = [d \in Dirs |-> "open"]

-----------------------------------------------------------------------------
(* The two peers.                                                          *)

SendToken(d, token) ==
  /\ src[d] = "open"
  /\ log' = [log EXCEPT ![d] = Append(@, token)]
  /\ wire' = [wire EXCEPT ![d] = Append(@, token)]
  /\ UNCHANGED <<src, buf, out, dst>>

FinishSending(d) ==
  /\ src[d] = "open"
  /\ src' = [src EXCEPT ![d] = "fin"]
  /\ UNCHANGED <<log, wire, buf, out, dst>>

\* A reset: what the proxy had not read is gone.
Break(d) ==
  /\ src[d] \in {"open", "fin"}
  /\ src' = [src EXCEPT ![d] = "broken"]
  /\ wire' = [wire EXCEPT ![d] = <<>>]
  /\ UNCHANGED <<log, buf, out, dst>>

-----------------------------------------------------------------------------
(* The proxy before the relay: one read of n tokens, one complete write.   *)
(* Every write, here and in the relay, waits for its receiver to take what *)
(* it is sent.  How long is no matter of what a write does but of when: no *)
(* specification that uses this module assumes that a write is ever done.  *)

Take(n) ==
  /\ n \in 1..Len(wire["up"])
  /\ wire' = [wire EXCEPT !["up"] = Behind(n, @)]
  /\ UNCHANGED <<log, src, buf, out, dst>>

WriteTo(d, tokens) ==
  /\ out' = [out EXCEPT ![d] = @ \o tokens]
  /\ UNCHANGED <<log, wire, src, buf, dst>>

ConnectUpstream ==
  /\ src' = [src EXCEPT !["down"] = "open"]
  /\ UNCHANGED <<log, wire, buf, out, dst>>

-----------------------------------------------------------------------------
(* copy_bidirectional: each direction reads into its buffer, writes it, and *)
(* at end of file shuts the other side down.  It returns when both          *)
(* directions are done, or at the first error of either.                    *)

CopyReadUnbounded(d) ==  \* faulty
  /\ wire[d] # <<>>
  /\ buf' = [buf EXCEPT ![d] = Append(@, Head(wire[d]))]
  /\ wire' = [wire EXCEPT ![d] = Tail(@)]
  /\ UNCHANGED <<log, src, out, dst>>

CopyRead(d) ==
  /\ wire[d] # <<>>
  /\ Len(buf[d]) < BufMax
  /\ buf' = [buf EXCEPT ![d] = Append(@, Head(wire[d]))]
  /\ wire' = [wire EXCEPT ![d] = Tail(@)]
  /\ UNCHANGED <<log, src, out, dst>>

\* It has no timeout: a receiver that stops reading holds it up for ever, and
\* then, with the buffer full, CopyRead too.
CopyWrite(d) ==
  /\ buf[d] # <<>>
  /\ src[Back(d)] # "broken"
  /\ out' = [out EXCEPT ![d] = Append(@, Head(buf[d]))]
  /\ buf' = [buf EXCEPT ![d] = Tail(@)]
  /\ UNCHANGED <<log, wire, src, dst>>

\* Faulty: end of file overtakes what is still in the buffer; the client's
\* half-close is not forwarded.
CopyEofUnflushed(d) ==
  /\ src[d] = "fin"
  /\ wire[d] = <<>>
  /\ dst[d] = "open"
  /\ dst' = [dst EXCEPT ![d] = "fin"]
  /\ UNCHANGED <<log, wire, src, buf, out>>

CopyEofDownOnly(d) ==
  /\ d = "down"
  /\ src[d] = "fin"
  /\ wire[d] = <<>>
  /\ buf[d] = <<>>
  /\ dst[d] = "open"
  /\ dst' = [dst EXCEPT ![d] = "fin"]
  /\ UNCHANGED <<log, wire, src, buf, out>>

CopyEof(d) ==
  /\ src[d] = "fin"
  /\ wire[d] = <<>>
  /\ buf[d] = <<>>
  /\ dst[d] = "open"
  /\ dst' = [dst EXCEPT ![d] = "fin"]
  /\ UNCHANGED <<log, wire, src, buf, out>>

CopyStep == \E d \in Dirs : CopyRead(d) \/ CopyWrite(d) \/ CopyEof(d)

CopyDone == \A d \in Dirs : dst[d] = "fin"

\* A reset by the sender of stream d is met by the next read of d, unless d is
\* already done, or by the next write or shutdown the other way.
CopyBroken ==
  \E d \in Dirs :
    /\ src[d] = "broken"
    /\ \/ dst[d] = "open"
       \/ buf[Back(d)] # <<>>
       \/ src[Back(d)] = "fin" /\ wire[Back(d)] = <<>> /\ dst[Back(d)] = "open"

-----------------------------------------------------------------------------
PipeTypeOK(Token) ==
  /\ \A d \in Dirs : /\ log[d] \in Seq(Token) /\ wire[d] \in Seq(Token)
                     /\ buf[d] \in Seq(Token) /\ Len(buf[d]) <= BufMax
                     /\ out[d] \in Seq(Token)
  /\ src \in [Dirs -> {"none", "open", "fin", "broken"}]
  /\ dst \in [Dirs -> {"open", "fin"}]

\* No token of stream d is lost, duplicated or reordered: what has got through,
\* what is buffered and what is unread are the sender's tokens in order.  Only a
\* reset loses the end of a stream.
Intact(d, through) ==
  LET passed == through \o buf[d] \o wire[d]
  IN  IF src[d] = "broken" THEN IsPrefix(passed, log[d]) ELSE passed = log[d]

=============================================================================
