# tinysocks in TLA+

Specifications of tinysocks (a SOCKS5 and HTTP proxy on tokio), translated from
the Rust source, with model-checking configurations for TLC and proofs for
TLAPS. `PROJECT.json` maps each definition to the lines it models and lists the
runs, the deliberately broken variants used to test the properties, the
findings, the hazards and the theorems.

To check: `tlc -config <run>.cfg <module>` for each run below, and `tlapm` on
each of ServerProofs, UdpRelayProofs, ServiceProofs, StatsProofs, TcpRelayProofs,
Socks5Proofs, HttpProxyProofs and WireProofs.

## 1. The system

| Component | State | Operations | Interacts with |
|---|---|---|---|
| Accept loop, limiter (`server.rs`) | semaphore permits; a task per connection, with a permit and an active-count guard | bind, accept or stop, try_acquire, refuse, spawn, first-byte dispatch, end of a task | sessions (spawns them), Stats (counters), shutdown channel |
| SOCKS5 session (`server.rs`, `protocol.rs`, `auth.rs`, `handler.rs`) | the position in the dialogue | negotiate, authenticate, read request, connect, reply, relay | client, upstream, Stats |
| HTTP session (`http.rs`, `auth.rs`) | header buffer, parsed request, body_start | read header, detect a loop, stats page, authenticate, CONNECT, forward, relay | client, upstream, Stats |
| Byte relay (tokio's copy_bidirectional as called) | one buffer per direction, the shutdown flags | read, write, forward end of file, fail | both peers |
| UDP association (`handler.rs`) | locked client, table of targets, datagram in hand | bind, reply, select! over control connection and datagrams, resolve, send | client, targets, resolver, Stats |
| Statistics (`stats.rs`) | atomic counters, mutex-protected ring of 100 errors | add, record_error, snapshot, render | every task |
| Wire format (`protocol.rs`) | none; the reader's place in the stream while it awaits | encode and parse addresses and datagrams | SOCKS5 session, UDP association |
| Linux installer (`service/linux.rs`) | executable, environment file, unit file; systemd's copy, its enablement, the service process | install, uninstall; start, restart, reboot by systemd | systemd, configuration |
| Windows installer and worker (`service/windows.rs`) | executable, the SCM's entry, the worker process and its watch channel | install, uninstall, stop; launch, reboot by the SCM | SCM, configuration, accept loop |
| Configuration and CLI (`config.rs`, `cli.rs`, `main.rs`) | none after start | parse, validate, dispatch | accept loop, installers |

What is hard here: tasks that end in many ways (return, error, timeout, drop
with the runtime) while owning permits and counts; the window between acquiring
a permit and the first poll of the task that owns it; peers that send ahead,
stop anywhere, half-close or reset; a UDP loop that awaits lookups while its
control connection may end; counters and a ring written by tasks that share no
lock; an address read in two ways and written in a third; installers that go
through many steps over files and a service manager, undo nothing, and may fail
or be killed at each while the service they install starts, fails and restarts.
Section 4 says what makes each component correct, and `hazards` in
`PROJECT.json` places each of these at its line.

## 2. The modules

* **ConnectionLimit** - the abstract promise of `max_connections`: admit below
  the limit, refuse only at it, one slot per admitted connection until its end.
* **Server** - `ProxyServer::run`. `stage[c]` follows a client's connection
  through loop and task; each value is a point where other tasks may run.
  `Accept`, `TryAcquire`, `Refuse`, `DropRefused`, `CountTotal`, `Spawn` are the
  loop's statements; `FirstPoll`, `ReadFirst`, `FirstReadEnds`, `SessionEnds`,
  `DropGuard`, `DropPermit` the task's, in Rust's drop order (the session's
  future, then the guard, then the permit). `AbortPolled` and `AbortUnpolled`
  are the drop of the runtime after `run()` returns: a task that was never
  polled has a permit but no guard. `ImplementsLimit` is the refinement of
  ConnectionLimit.
* **TcpRelay** - the two byte streams of a proxied connection and
  copy_bidirectional. It has no `Next` of its own; the two sessions extend it.
* **Socks5** - one SOCKS5 session. The client's messages are sequences of
  fields; `ReadField` is one `read_exact_with_timeout` with the check that
  follows it, and every wait has a timeout (`ReadFails`, `WriteFails`).
* **HttpProxy** - one HTTP session. `ReadRequest(n)` reads a chunk of n tokens,
  so that the header may end anywhere in one and `BodyStart` is what is left; a
  malformed line ends the session when it is read, one that makes the body's
  length ambiguous only once the header is complete;
  `Verdict` is the order of the checks in `handle_http_proxy`; `Early`,
  `SendHeader`, `SendBody` are the writes ahead of the relay with their counts.
* **UdpRelay** - one UDP association, from the bind of its socket to its end.
* **Stats** - failure counters, error ring and page, at the grain of single
  atomic operations and critical sections.
* **Wire** - addresses and datagrams as sequences of bytes. `Encode`,
  `EncodeUdp`, `Parse` and `ParseUdp` are the writers and parsers; the actions
  are `read_address`, one per field (`ReadType`, `ReadLength`, `ReadHost`,
  `ReadPort`), over a stream that arrives in chunks, ends or times out anywhere;
  and datagrams that are encoded and parsed back.
* **Config** - which options are accepted and what becomes of empty
  credentials. **Installer** - what install and uninstall share: the copied
  executable and a command that goes from step to step (`cmd.pc`), stops at the
  first failure and may be killed anywhere.
* **LinuxService** - one action per file or systemctl step of
  `service/linux.rs`, in the code's order. A write that is cut short leaves a
  partial file: of the environment file the beginning of its two lines
  (`CutCredentials`), which systemd takes as it is. The options are split between unit and environment file
  (`Args`, `CredentialsFile`) and put together again when systemd starts the
  process (`Joined`); `Restart` and `Reboot` may come between any two steps.
* **WindowsService** - the same for `service/windows.rs` with the SCM's entry
  (which has the whole command line, `RuntimeArgs`), its deletion mark, and the worker's life (`Register`, `ServerFails`,
  `ReportStopped`, `WorkerExits`).
* **Service** - the composition: one of the two, as `service/mod.rs` selects.
* **MCServer, MCUdpRelay, MCStats, MCWire, MCService** - constants and bounds
  for TLC.
* **ServerProofs, UdpRelayProofs, ServiceProofs, StatsProofs, Socks5Proofs,
  HttpProxyProofs, WireProofs** - theorems; **TcpRelayProofs** - the lemmas about
  the two streams that both sessions' proofs use.

A session that is dropped with the runtime while it is in the middle of a
dialogue is modelled in Server and UdpRelay (for permits, counters and the
association), not again in Socks5 and HttpProxy, which are about the dialogue.
Operators whose comment says "faulty" are variants used only to test the
properties; no specification uses them.

Abstractions: a token is a field, a header line or a piece of data that the
code never splits in a way a property can see; a write of a token is atomic (a
write that fails half-way ends the session), and may wait for ever for its
receiver. tokio's copy loop, TCP and the
peers are external and modelled from how the code uses them. Counters are
counted in tokens, and in Server and UdpRelay wrap at `CounterMax`, as
`fetch_add` does; all atomics are seen in one order, although the code asks for
`Relaxed` only. Socks5 assumes statistics are on; HttpProxy has both.

## 3. The runs

| Run | Configuration | Instance | Shows |
|---|---|---|---|
| server_limit | MCServer.cfg | 3 clients, 2 permits, stop and accept errors, 4 accepts counted | permits and counters are exact; the limit is implemented |
| server_live | MCServerLive.cfg | 2 clients, 1 permit, counters modulo 2, unbounded | silent clients released, backlog answered, stop honoured |
| socks5 | Socks5.cfg | one session, all field values, 2 data tokens each way, a buffer of 1 | authentication, replies, streams, accounting, timeouts, receivers that do not read |
| http_proxy | HttpProxy.cfg | one session, all request kinds, headers up to 3 tokens (4 can be sent), chunks of 2, 2 data tokens each way | the same for HTTP, for any chunking |
| udp_relay | MCUdpRelay.cfg | 2 client and 2 other endpoints, 2 targets, datagrams of 0 to 2 bytes, counters modulo 3 | lock, table, accounting, end with control |
| stats | MCStats.cfg | 2 tasks, 2 counters, a ring of 2, 3 errors, 2 seconds | ring, counters and page |
| wire | MCWire.cfg | 10 addresses with names of 1, 2, 254, 255 and 256 bytes, 3 payloads; encodings whole, cut anywhere, and damaged; chunks of 1, 3 and 256 bytes | what is encoded is parsed back; the two readers agree |
| service | MCService.cfg | both platforms, 2 executables, 7 sets of options | what may be started is there; commands that succeed have done their work |
| refused_eof, udp_relay_end, http_keepalive, service_reinstall | MCServerEof, MCUdpRelayEnd, HttpProxyKeepAlive, MCServiceReinstall | as above | the findings of section 6 |

Why the bounds are enough. Server: with three clients and two permits the
server is below, at and beyond its limit while a third connection waits; stages
are per connection, so further clients only repeat these relations (and the
theorems cover any number). `AcceptBound` bounds only the total in the safety
run; the live run needs no bound because the counters wrap. Streams: one token
in the copy buffer, one behind it and one pending end of file exercise every
order of the copy loop. HTTP: the buffer can be short of its limit, at it, and
past it either by header lines or by body bytes of the last chunk. UDP: two
targets and four endpoints fill the table and overflow it, and with a header of
1 a reply of 2 is too long while a reply of 1 is not. Stats: three errors
overflow a ring of two while both tasks are in flight. Wire: lengths on both
sides of each limit of the length byte, ports whose two bytes differ, cuts at
every byte of the short encodings and near the ends of the long ones; a session
without a request has datagrams instead, which only keeps the two halves of the
module from multiplying each other's states. Service: nothing bounds the
sequence of commands; two executables suffice to tell old from new, and the
options are one set for each way the checks and the split treat them (other
credentials, a bypass list with and without them, empty ones, half of them, one
refused by each check). All bounds are constants or guards named in the modules.

Fairness. In the server, `WF` of a task's steps: the runtime polls a task that
can run. In the two sessions, `WF` only of the steps that write nothing to a peer
(`WF_vars(Step /\ UNCHANGED out)`): a write is done if its receiver takes it, and
no receiver is assumed to. Before the relay every read and write is under
`IO_TIMEOUT` (`io_timeout.rs`), so that one that is not done fails, and an
outbound connect ends because the kernel gives up: this is why `HandshakeEnds`
and `RequestEnds` hold for clients that neither send nor read. The relay's writes
have no timeout and may block for ever; `EofIsForwarded` therefore promises the
end of file, after all data, only to a receiver that takes what is written to it
(`Takes(d)`), while the other direction may be stalled or silent for ever. `SF` of
`Accept(c)`: the backlog is a queue, so no connection in it is passed over for
ever. `SF` of `StopSeen` and of `ReadControl`: tokio's `select!` starts polling at a
random branch, so a ready branch is not hidden for ever by others. Peers are never
assumed to act, but for the receiver just named, and no session or relay is
assumed to end: there is no idle timeout in the relay, and the liveness properties
do not need one.

## 4. The properties

* Server: `PermitsConserved` (no permit leaks or is released early on any way
  out of a task), `ActiveTracksTasks`, `DispatchCounted` (counters of different
  tasks add up, also across their wrap-around), `ImplementsLimit`,
  `SilentClientReleased`, `QueuedIsAnswered`, `StopIsHonoured`.
* Socks5: `AuthenticatedBeforeUse`, `RepliesAreTruthful`, `StreamsAreIntact`
  (nothing sent ahead is lost between dialogue and relay), `CleanEndIsComplete`,
  `AuthFailuresCounted`, `HandshakeEnds`, `EofIsForwarded`.
* HttpProxy: `UpstreamIsEarned` (credentials, and no second visit of a request),
  `StreamsAreIntact` and `CleanEndIsComplete` with body_start,
  `AnswersAreTruthful`, `RequestEnds`.
* UdpRelay: `RelaysForClientOnly`, `LockIsForEver`, `TableIsBounded`,
  `BytesAreMoved`, `EndIsCounted`, `ControlEndsRelay`.
* Stats: `RingIsLastErrors`, `FailuresAreRecorded`, `PageCountsItsErrors`.
* Wire: `DatagramsRoundTrip` (an encoded datagram is parsed back into the same
  address and payload, or refused because its name does not fit the length
  byte), `ReadersAgree` (the field-by-field reader and the datagram parser accept
  the same streams, find the same address and leave off at the same byte).
* Service: `UnitIsBacked` and `EntryIsBacked` (no step of any failed or killed
  command leaves what the system may start at the next boot without its
  executable, or a unit without its private environment file; these are whole,
  unless the copy of a later install over them, or its write of the environment
  file, is itself the step that is cut short; nothing is ever written that would
  start an incomplete file), `CommandsKeepTheirWord` (after a success the next start
  runs exactly the executable and options given; after a removal nothing is
  left).

`StopIsHonoured` also covers the accept error that ends `run()`: everything it
started is released. `CleanEndIsComplete` of both sessions says, for a relay
that ends in an error, that what was counted had at least been moved.

Each property of a passing run has a variant of the code that breaks it.

## 5. What is proved

For every value of the constants that satisfies the named assumptions
(`ServerAssumption`: finitely many clients, at least one permit, a limit the
counter can hold; `RelayAssumption`: finitely many endpoints, a table of at
least one target, a header shorter than a datagram; and those named below):

* **ServerProofs**: `TypeCorrect`, `PermitsAreConserved`, `ActiveIsExact`,
  `DispatchIsExact`, `LimitIsImplemented`. The inductive invariant `IInv` is the
  type invariant, `PermitsConserved`, `ActiveTracksTasks`, `WholeTurns` and
  `LoopOnlyRuns` (while the loop works on a connection, it is running). The last is needed because the active
  count is exact only until `run()` returns: without it a `Spawn` after the return
  could not be excluded. The type bound `permits <= MaxConnections` is not
  inductive alone but follows from conservation. Lemmas `Enter`, `Leave` and
  `Stay` say how the number of connections in a set of stages changes when one
  connection moves. `DispatchCounted` compares the counters modulo their width,
  which the provers do not reason about for an unknown width; `WholeTurns` says it
  without a remainder: three counters and the connections still pending are 0, 1,
  2 or 3 whole turns ahead of the total. No fourth turn is possible because the
  pending connections own permits, so that there are at most `CounterMax` of them.
  The refinement maps each step to `Admit`, `Refuse`,
  `Finish` or a stutter; the guard of `Admit` comes from conservation.
* **UdpRelayProofs**: `TypeCorrect`, `RelaysOnlyForTheClient`,
  `TableStaysBounded`, `CountedBytesAreMoved`, and the action properties
  `LockIsKept` and `EndsAreCounted`. `IInv` is the conjunction of the type
  invariant and the three state invariants; the bound on the table needs the
  finiteness of `Endpoints`.
* **ServiceProofs** (from `InstallerAssumption`: versions are not the words for
  a missing or cut file, candidates are option records): `TypeCorrect`,
  `UnitStaysBacked`, `EntryStaysBacked`, `WordIsKept`. The type invariant says
  more than types: a unit file, which everybody may read, never holds the
  credentials, and no process ever runs a partly copied executable, because
  systemd cannot start one (`Launched`). `LinuxInv` and `WindowsInv` say, for each
  place of the command, which files are already there and whole, or not yet gone;
  `UnitHasFiles` and `EntryHasFile` in them, that a unit's or entry's files are
  there at all, hold because the unit is written last and removed first.
  `UnitIsBacked` and `EntryIsBacked` are about steps: `UnitStep` and `EntryStep` go
  through those that write the unit or entry, at which the invariant has its files
  whole, and those that write the files, at which only a write cut short
  (`CutShort`) does not leave them so. `LinuxWord` and `WindowsWord` add what has been achieved so far by the
  command under way (`InstallSoFar`, `RemovalSoFar`) and what the last success
  left (`LastIsTrue`), which only the start of the next command ends. That the
  split options come together again as they were given (`Joined` of `Args` and
  `CredentialsFile`) is a lemma by cases on empty and missing credentials.
* **WireProofs** (from `WireAssumption`: the constants are addresses and byte
  sequences): `DatagramsDoRoundTrip` and `ReadersDoAgree`, for every length and
  any notion of UTF-8. `Layout` places the five parts of an encoding by
  arithmetic on lengths; `AddressRoundTrips` reads them back. `ReaderInv` says
  that the reader, at each field, stands where the parser finds that field and
  that the parser has not refused what lies before; so a reader that is done has
  the parser's result, and one that fails fails where the parser does.
  `ParsedIsEncoded` is the converse of the round trip: what is accepted is the
  only encoding of the address found.

* **StatsProofs** (from `StatsAssumption`: finitely many tasks, distinct
  counters, a ring of at least one): `TypeCorrect`, `RingIsExact`,
  `FailuresAreExact`, `PageIsSound`. `IInv` is the four properties and
  `PushedOnlyGrows` (what had been pushed when the page began has not become
  less), without which the page's counts could not be compared with those taken
  before it. The failures in flight between the counter and the ring are the
  cardinality of a set of tasks, which each step of a task changes by one at
  most; that the bounded ring is a suffix of the log is a lemma on sequences.
* **TcpRelayProofs**: two facts about the streams, each with a lemma per
  operation of TcpRelay that keeps it. `Carries(Sent, Added)` says which tokens
  each stage of a stream may hold. `Ordered(d, h)` says that stream d is in order
  if h is what has got through of it: h, the copy buffer and the unread tokens are
  what was sent, a reset loses only the unread ones, and a stream that has been
  shut down was complete. What has got through is for the session to say: it
  includes what the session has read itself and excludes what it has written.
* **Socks5Proofs** (from `DataAssumption` and `BufferAssumption`: a number of
  tokens, a buffer of at least one): all five safety properties and the type
  invariant. For `AuthenticationIsNeeded` and `AuthFailuresAreExact`, `IInv`: the
  client chooses all fields, so what matters is that a field is read once and
  before admission. `Credentials` says, for each place of the dialogue, which of
  user name and password have not been read, have been read exactly once, and,
  past the login, were good; hence the field the property looks up is the one that
  was checked. `Counting` says that nothing is counted before the end and that
  the client has been told of its success exactly if it is admitted by password.
  For `RepliesAreTrue`, `StreamsStayIntact`, `CleanEndsAreComplete` and
  `TypeCorrect`, `OInv` on top of it: `InTurn` and `Position` (the client
  sends the fields of its messages in turn, with any values, and then data; each
  place of the dialogue has read a certain number of them, so that at the relay
  exactly the messages have been read),
  `BeforeRelay` (the copy loop has not begun), `Upward` (what was read and what the
  upstream got are in order), `Downward` (the client got some replies, which ones
  depends on the place of the dialogue, and behind them data that is in order),
  and `CountedAtEnd`.
* **HttpProxyProofs** (from `HttpAssumption` and `BufferAssumption`): all four
  safety properties and the type invariant. For `UpstreamHasBeenEarned` and
  `AnswersAreTrue`, `IInv`: the request is fixed once its header is complete
  (`ReadKept`), so credentials and loop mark that were checked are those of the
  request that is forwarded (`Routing`). `UpOut` and `DownOut` say that the
  rewritten header, or the proxy's answer, is the first thing written and written
  once, and `Counting` what an answer of 401 or 407 has been counted as. For
  `StreamsStayIntact`, `CleanEndsAreComplete` and `TypeCorrect`, `Sending` (how much
  the peers send) and `OInv`: `Upward` says that the upstream got the proxy's
  opening and then the client's data, and that until it got any, all that was read
  is in order, from then on the header and that data; in the relay the data are
  at least body_start (`RelayStarts` is the moment at which the two views agree,
  because header and body_start are what was read). `Downward` is the same for the
  client, and `Counts` says at each place what has been counted: nothing but
  failures before the relay, what went ahead of it while it runs, and everything
  at a clean end, because what copy_bidirectional returns leaves out exactly that.

To make the last two provable, the properties of the streams are stated by
position: what the session itself wrote is at the front of what the peer got
(`GotReplies` and `GotData` in Socks5, `Delivered` in HttpProxy), and `Intact` of
TcpRelay compares the rest with what was sent. That nothing of the session's own
comes further behind is part of `RepliesAreTruthful` and `AnswersAreTruthful`.

Only model-checked: the liveness properties (`SilentClientReleased`,
`QueuedIsAnswered`, `StopIsHonoured`, `HandshakeEnds`, `EofIsForwarded`,
`RequestEnds`, `ControlEndsRelay`), which are out of the prover's reach, and the
four findings, which are counterexamples. Every invariant and action property of
the passing runs, and the refinement of ConnectionLimit, is proved.

## 6. Findings

1. `refused_eof`: a client refused by the limiter after its first bytes arrived
   gets a reset, not the end of file of the comment at `server.rs:86`.
2. `udp_relay_end`: a reply that cannot be sent on, or a receive error, ends the
   association while its control connection is open (`handler.rs:86`).
3. `http_keepalive`: only the first request of a forwarded connection is
   rewritten; later ones pass to the first upstream as they are (`http.rs:410`
   and the comment at `http.rs:373`).
4. `service_reinstall`: an install over a running Linux service, started from
   the installed executable, reports success while the process keeps the old
   options, since `systemctl start` does nothing for it (`linux.rs:203`, and
   `README.md:82`).

The error list of the stats page is in the order in which tasks took its lock,
which may differ from the order of the times shown, since a time is taken before
the lock (`stats.rs:284`); nothing in the repository promises otherwise for
concurrent tasks.

Nor does anything promise that a failed install leaves an earlier installation as
it was, and it does not: files are written in place. A copy cut short over the
executable of a stopped service (`linux.rs:160`, `windows.rs:55`) leaves its unit,
still enabled, or its entry with a truncated executable, which cannot be started
until the next install; an environment file cut short (`linux.rs:186`) leaves the
unit with a truncated one, and the service may be started with the beginning of
its password. `UnitIsBacked` and `EntryIsBacked` say that nothing else has this
effect. On Windows an install over an earlier one has replaced the executable
by the time it stops at the entry that is already there (`windows.rs:85`).

## 7. Not modelled

* URL, header and Base64 syntax, name formatting, the HTML page's text, clap's
  parsing of the command line and the syntax of CIDR entries: their outcome is
  a nondeterministic choice or an opaque value where it decides control.
* UTF-8: a parameter of Wire.
* Quoting in the unit and environment files: systemd is taken to undo it.
  `quote_arg` leaves `%` and `$` alone, which systemd expands in `ExecStart`, and
  the checks let them pass (`config.rs:66` only refuses an empty bind address, not
  one with a zone name such as `fe80::1%wlan0`). Options are opaque values here,
  so `CommandsKeepTheirWord` is about options that hold neither character.
* systemd, the SCM, tokio and the kernel beyond what the models state; two
  install or uninstall commands at the same time.
* Assets, the Dockerfile and CI: no state.
* Memory exhaustion and panics. The 180 s of `IO_TIMEOUT` are not measured: a
  timeout may strike whenever nothing has arrived.

## 8. Plan

Done: ConnectionLimit, Server, UdpRelay, Stats, TcpRelay, Socks5, HttpProxy,
Wire, Config, Installer, LinuxService, WindowsService, Service, and the proofs of
each of them.

Every safety property the runs check is proved. Next:

1. UdpRelay and Stats share counters with concurrent tasks only through their
   width; an abstract counter that both implement, as ConnectionLimit is for the
   limiter.
2. An abstract specification of a session, "a stream each way, in order, counted
   once", which Socks5 and HttpProxy both implement, so that `StreamsAreIntact`
   and `CleanEndIsComplete` follow from one refinement.
