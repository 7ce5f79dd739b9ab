# TLA+ models of tailcat-socks

tailcat-socks is a SOCKS5 proxy that rewrites the domain of a CONNECT to the token `dns.txt`
gives it, and forwards the connection to a `tailcat socks` process it launches itself. It exists
three times, in Go, Rust and Python, "three implementations that behave alike" (`README.md:7`).
This directory models what runs concurrently, waits, times out or can fail in each of them,
checks it with TLC on small instances, and proves the main safety properties with TLAPS.

Paths below are relative to the repository. Source names are kept in the modules where TLA+
allows it; a comment in front of each definition says what it stands for.

## 1. Inventory

| Part | State it keeps | Operations | What is hard about it |
|---|---|---|---|
| relay, `go/proxy.go` 319-430, `rust/src/proxy.rs` 222-286, `python/tailcat_socks.py` 83-103 | two sockets, a copy buffer per direction (Python: one), the idle timer or clock | read, write, half-close, tear down, time out | two directions, a timer and two peers act at any time; half-close; RST instead of FIN; blocked writes |
| handshake, `serveConn`, `serve_conn`, `_handle_inner` and their upstream halves | position in the exchange, the upstream connection, deadlines | read and write pieces, dial, give up, hand over | every call can fail or time out; clean-up on each way out; deadlines left over |
| hot reload, `WatchDNSFile`, `watch`, `watch_dns_file` | the served map, a watch and a debounce timer (Go) or the last mtime (Rust, Python) | stat, load, store, re-arm | the file changes between any two steps, is half-written, missing or replaced |
| process lifecycle, `go/main.go`, `rust/src/main.rs` with `tailcat.rs`, Python `main` | the child, signal handlers, exit status | launch, wait for the port, serve, stop and collect the child | signals at any moment, a child that dies, hangs or ignores SIGTERM; orphans |
| `bin/start.sh`, `bin/stop.sh`, `bin/restart.sh` | a pid file per implementation | check, launch, look again; TERM, wait, KILL; both in a row | windows of time against those of the proxy; pids that are given away; two scripts at a time |
| accept loops | the listener | accept, back off, hand to a goroutine, task or thread | which errors end the server |
| `dns.txt` parsing, host rewriting, addresses | none | text to map, host to token, address to and from a request | three parsers and three encoders that should agree |
| address flags, port probe | none | split `--upstream`, pick a port, tell the child, dial | forms of an address; the port can be taken between probe and launch |
| logging, error types, build files | none | | |

How they interact. `run`/`main` loads the map, binds the listener, launches the child and waits
for its port; it then starts the watch and the accept loop. Each accepted connection runs its
handshake with a snapshot of the map that the watch swaps atomically, and hands both sockets to
its own relay. Connections share nothing else. The end of the process (signal, broken listener, in
Go the death of the child) cancels the watch and the listener and collects the child; relays in
progress end with the process. `bin/stop.sh` acts on the process from outside.

What makes each part correct:

- relay: bytes arrive in order and unaltered; a peer is shown a clean end of stream only for a
  stream that really ended; a session is torn down only for a reason; a session is cut as idle only when
  neither direction has delivered a byte; no peer is reset by the teardown; both sockets are released in the end.
- handshake: it ends, within its windows where there are any; a client that said all it had to
  gets an answer; the relay starts exactly behind the handshake, on open sockets without
  deadlines; no way out leaks the upstream connection.
- hot reload: once the file is left alone it is what is served; a change is never swallowed, a
  map never older than its predecessor, a broken file never served as an empty map.
- lifecycle: no orphan; a signal ends the process; the exit status tells a failure from a stop;
  the stop script does not have to kill; an error of accept that passes does not end the server.
- scripts: a stop signals nobody else's process, and where it does it is known how; no living proxy is lost
  from the pid files; none is launched beside a living one of its version.
- names: a documented file means the same to all three; the upstream is asked for what the file
  says, in one form; what the child is told is what is dialed.

The hazards behind these, each with its line, are listed in `PROJECT.json`.

## 2. Modules

| Module | Models | Used by |
|---|---|---|
| `TcpLegs` | the two TCP connections of a session, their peers and the calls a relay makes on them (external) | the relays |
| `DuplexStream` | abstract specification: what a relay promises, without sockets, buffers or timers | implemented by the relays |
| `GoRelay`, `RustRelay`, `PyRelay` | the three relays | `EitherRelay`, `MC...` |
| `EitherRelay` | the two relays that end both directions with one, over the same legs | `MCEitherRelay` |
| `SocksPeers` | client and upstream during a handshake (external), the state a connection has, the shapes of its steps | the handshakes |
| `GoConn`, `RustConn`, `PyConn` | the three handshakes | `Conn` |
| `Conn` | a connection served by any of the three, and what they promise | `MCConn` |
| `DnsFile` | `dns.txt` and its editor (external) | the watches |
| `GoWatch`, `RustWatch`, `PyWatch` | the fsnotify loop and the two polls | `HotReload` |
| `HotReload` | the three watches over the same file and editor | `MCHotReload` |
| `TailcatChild` | the child (external), signals, the window of `bin/stop.sh`, time, the state of the process | the mains |
| `GoMain`, `RustMain`, `PyMain` | the three main programs, with what the end of their accept loops does | `Lifecycle` |
| `Lifecycle` | a process that is any of the three | `MCLifecycle` |
| `Scripts` | runs of the three scripts over the pid files, proxies and pids | `MCScripts` |
| `DnsText` | the three parsers of `dns.txt`, and the meaning the README gives the file | `SocksNames` |
| `SocksNames` | reading an address from a client, rewriting it, and encoding it for the upstream | `Names` |
| `AddrFlags` | `--upstream` and the port that is picked, told to the child and dialed | `Names` |
| `Names` | the three implementations side by side on the same words | `MCNames` |
| `TcpLegs_proofs`, `GoRelay_proofs`, `EitherRelay_proofs`, `Conn_proofs`, `HotReload_proofs`, `Lifecycle_proofs`, `Scripts_proofs`, `Names_proofs` | theorems and proofs | |

`EitherRelay`, `Conn`, `HotReload` and `Lifecycle` compose the implementations with a variable `impl`, chosen in
`Init` and never changed, and one `INSTANCE` of each implementation over shared variables. A property
can then say where they agree and name where they do not. `Names` has no `impl`: it runs all three on the same input and
compares what they answer.

Definitions under the heading "Faulty variant" are not part of the specification. They are mistakes
a change to the code could make, and each property is known to fail under at least one of them
(`mutants` in `PROJECT.json`).

### Relay

A byte is its position in its stream, so each direction is four counters: `sent` by the peer, `taken`
by the relay, `put` into the other leg's send queue, `got` by the other peer. Order and content
of a stream are kept by TCP and by the copy buffer; loss and premature ends are what can go wrong.
`fin`, `shut`, `closed` and `reset` are what was done to the sockets. `CloseLeg` has the kernel's rule the Go
comment cites (`tcp_close: data_was_unread`): a close with unread input and no FIN queued sends
an RST; once a FIN is queued, it does not.

- `GoRelay`: `copy[s]` is the goroutine that copies from `s`, whose `Read` of bytes and whose `wake()`, which re-arms the timer, are two steps that the timer can come between; `left` is the timer; `fired` is the
  goroutine `time.AfterFunc` starts; `stopper` and `stopAt` are `once.Do(stop)` and how far it has run
  (six calls, each a step); `quiet[s]`, a history, is how long `s` has delivered nothing; `main` is `relay` itself. `once.Do` returns only when `stop` has run,
  whoever runs it, which `Return` waits for.
- `RustRelay`: `pump[s]` is a pump; its read has a timeout computed from the shared clock, and its
  write has none; `moved[s]` says that the clock moved since. The first pump to return ends the
  select, drops the other one, and `phase` goes through the shutdowns and drops.
- `PyRelay`: one thread, `at` a call of it, `ready` the readable sockets still to be served. The upstream
  socket keeps the 15 s timeout of `create_connection`, the client socket has none. `why` tells the end of a silent window of
  `select` (`idle`) from a send to the upstream that timed out (`stalled`); `silent`, a history, is how long neither peer's bytes were read.

All three are shown, and proved, to implement `DuplexStream`. They differ in what counts as a reason for a
teardown, which is its constant: in Go an ended direction leaves the other one running, in Rust and
Python it ends both. Its reasons are the end of a direction or of both, an abort, silence (`idle`), and, for Python alone, an upstream that takes nothing for 15 s
(`stalled`), which can end a session whose client is still sending. So a client that half-closes after its request gets its whole answer through
Go, and may lose it through the other two; the Go source says it diverges from Python on purpose.

### Handshake

A piece is what one read asks for; what it says (good, bad, unsupported) is chosen when it is read.
Six pieces come from the client and four from the upstream, and one more of each is early data
for the relay. `deadline` is the time left on each connection, `age` the time since the accept.
Go has a deadline on the client, renewed before the reply and cleared for the relay, and one over dial
and upstream handshake; Rust has the second one only; Python has a timeout per call on the upstream.
A host is plain, has bytes that are not ASCII, or is longer than the length byte can say; what a host becomes
is the matter of `SocksNames`.

### Hot reload

A text is the number of the edit that wrote it; `Torn` is a file truncated and not yet written. The editor saves in place
(`InPlace`) or by renaming (`Atomic`), and may remove the file or its permission (`Outages`). `now` is the clock of the
file system; two edits may fall in one tick. `GoWatch` keeps the inode the watch is on, one pending event
(inotify merges equal ones), the debounce timer, and reloads that read and store in two steps. The polls keep
the mtime held (`last_mod` in Rust, `last` in Python), the mtime last seen, and where they are; between the stat and the
load the file can change.

Three spells are beyond what the code can see. Instead of forbidding them, history variables name them, and each
property says which of them it leaves out: `hasty` (a load in the very tick of the mtime it goes with, after which the tick may
see another edit), `early` (an edit between Python's first load and its first stat), `overlapped` (a reload of Go that began while
another one ran: `timer.Stop` does not wait for it, and the overtaken one may store last).

### Process lifecycle

`at` is the main thread, `child` the process it launched, `squatter` another process that took the
probed port. `latched` is the cancelled context of Go or the pending signal of Rust, `handler` the
SIGTERM handler of Python, `reaped` the closed `childDone`. `serving` is the accept loop, which backs off from
errors that pass in Go and ends at any in the other two. `grace` runs from the child's SIGTERM
to its SIGKILL, `waited` through the wait for the port, `stopsh` through the window of `bin/stop.sh`.

### Scripts

A run of a script is a place in its text (`at`), the versions it still has to stop (`stops`) or to start (`starts`) and the shell variable
`PID`; a restart is a stop and a start in one run. `kind[p]` is what runs under a pid: a version of the proxy, another process, or nothing. Of the other
processes some are `lookalike`: `is_ours` takes them for a proxy, because it only asks whether a word of the command line ends in `tailcat-socks` or
`tailcat_socks.py`, as an editor's, a `git`'s or that of a proxy of another checkout may. A proxy ends at any time, or never; `dying` are the processes that
exit or were killed and are not gone yet, which takes as long as it takes: `kill -KILL` does not wait, and neither does `bin/stop.sh` after it. A dying process
may hold its port still; a proxy that is launched then finds the port taken and ends, as any proxy can. A pid that is free may be given to another process at any time.

`heir`, `exposed` and `overlapped` are history: for which versions a pid was in the file, or in the hands of a run, when the process that has it now began; the runs that had checked
the pid before; and the versions two runs were concerned with at a time.

### Names

A text is a sequence of words and of the characters between them that some parser treats differently from another: space, tab, form feed, carriage
return, line feed, no-break space. A word stands for a token, a domain, or an address; capitals come in ASCII and outside of it (`UMLAUT`), tokens in lengths of 255, 256
and 300. `Parse(i, text)` is what implementation `i` reads, with its line ends, separators and trimming; it is written with the places of the text, a
line or field being a pair of places and `Split` the longest stretches without a separator, so that it can be reasoned about without
recursion. `MeaningOf(text)` is what the README says of a `Documented` text. A request is its type, length byte and address; `Whole` is what the upstream reads of it. `AddrFlags` splits a flag at its last colon; `WellFormed` is a host
as Go takes it, with brackets around it if it has colons and nowhere else. `Told` is what the child, which is a Go program, makes of the address it is told.

## 3. What is checked

Every run explores all states of its instance. Liveness is checked under the fairness of section 4.

| Run | Distinct states | Shows |
|---|---|---|
| `GoRelay` | 1,613,517 | a FIN ends a complete stream (`EofIsComplete`); no teardown by `relay` itself loses a byte (`NoLossWithoutCause`); one direction's end leaves the other its sockets (`HalfCloseIsolated`); `relay` returns with both goroutines ended and both sockets closed (`ReturnMeansReleased`), and always returns (`AlwaysReleased`); it never resets a peer (`RelayNeverResets`); the timer fires only after a silent window, but for bytes that are read and not yet followed by their `wake()` (`FiresOnlyAfterSilence`); it implements `DuplexStream` (`DuplexSpec`) |
| `EitherRelay` | 648,876 | of Rust and Python: the direction whose end ends the session is complete (`EndIsComplete`); Rust never resets a peer (`RelayNeverResets`); idle only after a silent window, although in Rust a blocked read cannot see the clock, and in Python with everything passed on (`IdleOnlyAfterSilence`); released, unless both pumps of Rust are blocked in writes for ever, or Python's thread in a send to the client (`Released`); both implement `DuplexStream` (`DuplexSpec`) |
| `Conn` | 104,522 | bounded in Go (`GoBounded`), answered in Go and Rust (`Answered`), clean handover (`HandsOverClean`), no leak (`UpstreamReleased`), no byte for an over-long host in Go (`GoOverlongStays`), an end, or an endless wait for the client in Rust and Python only (`Ends`) |
| `HotReload` | 1,328,512 | no change swallowed by a poll (`NeverSwallowed`); a quiet loop of Go with its watch on the file serves the file (`QuietMeansFresh`); never an older text after a newer one (`NeverOlder`); the settled file is served in the end (`Converges`) |
| `Lifecycle` | 71,766 | who can leave an orphan and why (`OrphanNeedsCause`), that `bin/stop.sh` kills only a Rust proxy that spent its window waiting for its child (`StopSuffices`), that exit status 0 has a cause, which in Go is no error of accept that passes (`QuietExitNeedsCause`), that Go notices its child's death (`DeathIsNoticed`), and that a signal ends all three (`SignalEnds`) |
| `Scripts` | 5,632,193 | besides its proxy a stop is about to signal only what was given the pid of a dead one while the file or a run had it, and of that only what passes for a proxy or came after the check (`OnlyHeirsAreHit`); between runs each living proxy is in its pid file (`Tracked`), and a start launches beside no other proxy of its version but a dying one (`LaunchesAlone`), unless two runs overlapped for the version; no run ever blocks (deadlock is checked) |
| `Names` | 13,008 | a documented text gives all three the mapping of the README (`ParsesAsDocumented`); they ask the upstream the same, but for the characters and forms named (`AskAlike`); every request names what the file says of the host, and exactly what cannot be named is refused, but for Rust's over-long tokens (`NoWrongDestination`); the child listens where the proxy dials, but for hosts in Rust that Go would not take and hosts with colons or brackets in Python (`UpstreamIsReached`) |

### Where code and documentation part

Each of these runs has one property, quoted from the repository, that TLC finds violated.

- `RustRelayIdle`, `BreaksWhenIdle`: "The relay breaks after 300s with no data in either direction".
  Two pumps blocked in `write_all`, which has no deadline, never look at the clock again.
- `GoWatchAtomicSave`, `SavedMeansServed`: the comment of `WatchDNSFile` says the watch is re-armed "because
  atomic saves (write+rename) replace the watched inode", but on an event only. A file renamed over
  the path takes the watch with its inode, and no Create of the new one is reported by a watch on
  a file: the change, and all later ones, are missed.
- `PyWatchUtf8`, `KeepsWatching`: the docstring says the old map is kept on read errors; a read that
  finds half a UTF-8 character raises `UnicodeDecodeError`, which is no `OSError`, and ends the thread.
- `ConnOverlong`, `OverlongNeverAsked`: Rust "truncates exactly like Go's byte(len(host))"; Go now refuses
  such a host before it dials, and Rust sends a request whose length does not fit its bytes.
- `LifecycleOrphan`, `NoOrphan`: "no orphan is left"; a SIGTERM between the launch of Python's child and
  the installation of the handler kills the proxy and leaves the child.

`OnlyHeirsAreHit` and `LaunchesAlone` hold because they name what the documents do not. "The scripts stop only processes that really are this proxy" (`README.md:109`, in Chinese)
is not so in three ways, each of which TLC finds when its exception is taken out: the pid that was read and checked may belong to
another process when the SIGTERM (line 42) or, up to 20 s later, the SIGKILL (line 53) of `bin/stop.sh` goes out; a process whose command line passes `is_ours` is
taken for the proxy; and `bin/stop.sh go` stops the Rust proxy that was given the pid in a stale file of Go, where `README.md:101-102` says that it stops the Go version only.
And a restart that had to kill may launch while the killed proxy still holds the port, because nothing waits after the SIGKILL.

Other differences the modules keep and the properties name: Python drops a connection without a reply
when a host or a bound address is not ASCII or of an unsupported type; its upstream timeout holds per
call, so the exchange as a whole has no bound, and stays on the socket in the relay; Rust and Python
wait for a silent client for ever, do not notice the death of their child, and stop serving, with exit status 0, at an error of
accept that would have passed; Python's closes after a failed send can reset a peer, and its 15 s timeout of a send ends sessions that are not idle. A byte that Go reads just as the window
runs out, before its `wake()`, does not save the session. The parsers part at blanks other than space and tab (Rust), at a carriage return
alone (Python) and at capitals outside ASCII (Rust); the encoders at IPv4 addresses inside IPv6 ones (Go), at short IPv4 texts (Python) and at
hosts outside ASCII (Python). A flag with stray colons or brackets in its host ends Go at once; Rust and Python, which do not look at them, launch the child and fail at the
wait for its port, Python even with the brackets an IPv6 address needs (with port 0 already at the probe).

### Bounds, and why they are enough

- `MaxBytes = 2`, `RcvCap = 2`, `SndCap = 1`, `Chunk = 2` in the relays: a stream of two bytes has a first and a
  last one; a send queue shorter than the copy buffer makes partial writes and blocked writes; a receive
  queue as long as the stream leaves unread input at any close. `Idle = 2` separates a window that
  has begun from one that is over; `SendTimeout = 1` is shorter, as in the code. `RustRelayIdle` has three bytes, so that both pumps can be
  blocked with one byte on its way.
- `HandshakeTimeout = 3`, `DialTimeout = 2`: different, so that one cannot stand in for the other, and long
  enough for pieces that come late one by one.
- `MaxEdits = 4`: two edits race a load, one more follows, and a removal or a change of mode comes in between.
  `Reloads` has two, as many as can overlap pairwise.
- The lifecycle has its real values in seconds: 15 for the port, 5 from TERM to KILL, 20 for `bin/stop.sh`, and one
  for the last attempt, which may take 1.2 s past the deadline. `MaxSignals = 3`: one to end, one into the
  clean-up of `main`, one into the clean-up at exit.
- Two scripts at a time, over two pids and two versions, with one process at a time that is no proxy (`MaxOthers`): a proxy and the one that replaces it or the other version's, or a proxy
  and what got a pid it had. The theorems hold for any number of each. The symmetry of pids and runs is used.
- Two lines of `dns.txt`: the second overrides the first, in another case, or comes behind a carriage return alone. The first one takes every gap, domain and end
  of line, and the tokens at the limit of the length byte. The flags have a colon, brackets or neither, in and out of place, and each form of a port.

Except for `Scripts`, deadlock is not checked: a session that is closed, a handshake that was handed over, an editor that is
done, a process that is over and a request that was answered are ends of the behaviours that are modelled.

## 4. Assumptions

Fairness is weak and is on the code alone: runnable goroutines, tasks and threads run, timers and timeouts
expire. Peers, editor, child and operator owe nothing; they may stop for ever at any point, which is what
the liveness properties are about. It is stated goroutine by goroutine and task by task where these are (`GoRelay`, the pumps of `EitherRelay`, the loop, the timer and each reload
of Go in `HotReload`, the accept loop in `Lifecycle`), and for the one thread as a whole where there is one. `Scripts` and `Names` state none, as their
properties are of safety.

- A kernel close after a queued FIN ends a connection in order; a byte that arrives at a leg shut for reading
  earns its sender an RST. The source relies on both.
- fsnotify reports changes of the inode a path led to when it was added, and drops the watch with the inode.
- A file that is renamed over the path was written in the tick of the rename: its mtime is not older than the one it replaces.
- At least one reload of Go can run (`ReloadsAssumption` in `HotReload`): the runtime has a goroutine for the timer.
- In `Conn` and `Lifecycle` time passes only while the code waits; its own instructions take none.
- `2 * Grace < StopWindow`, as in the code (5 s and 20 s): Python may run its clean-up twice. The window is longer than the wait for the port with its overrun,
  and as long as that wait and the escalation together, as the comment of `bin/stop.sh` says (`WindowAssumption`).
- In `Names`, texts are sequences of strings (`TextsAssumption`), the numbers drawn are natural numbers (`DrawsAssumption`), and the port the system assigns
  is none that another process holds (`PortsAssumption`).
- In `Scripts`, `kill -0 && is_ours` is one step at the moment that decides it, and so is the launch with its `$!`; a pid that a proxy frees is not given
  to a new proxy of this checkout before a script launches one; all processes belong to the user who runs the scripts, so that no `kill` is refused. Nothing is assumed of when a killed process is gone.

## 5. What is proved

For all values of the constants, under the assumptions the modules state. Each component has its inductive invariant as a theorem (`Invariant`), and
TLC checked each invariant on the instance of its run before it was proved.

| Module | Theorem | States |
|---|---|---|
| `GoRelay_proofs` | `TypeCorrect` | `TypeOK`, with `got <= put <= taken <= sent` |
| | `FinEndsCompleteStream` | `EofIsComplete` |
| | `OwnTeardownLosesNothing` | `NoLossWithoutCause` |
| | `SurvivorKeepsItsSockets` | `HalfCloseIsolated` |
| | `ReturnReleases` | `ReturnMeansReleased` |
| | `NeverResets` | `RelayNeverResets` |
| | `FiringMeansSilence` | `FiresOnlyAfterSilence` |
| | `ImplementsDuplexStream` | `DuplexSpec`: the refinement of `DuplexStream` |
| | `RelayNeverStuck`, `StepsRunOut` | the safety half of `AlwaysReleased` |
| `EitherRelay_proofs` | `TypeCorrect`, `EndedStreamIsComplete`, `RustNeverResets`, `IdleMeansSilent`, `ImplementsDuplexStream` | the five safety properties of `EitherRelay`, the refinement among them |
| | `RelaysNeverStuck`, `StepsRunOut` | the safety half of `Released`, and the two ways a session can be pinned |
| `Conn_proofs` | `TypeCorrect`, `GoHandshakeBounded`, `AnswersAll`, `HandoverIsClean`, `ReleasesUpstream`, `OverlongStays` | the six invariants of `Conn` |
| | `HandshakeNeverStuck`, `StepsRunOut` | the safety half of `Ends` |
| `HotReload_proofs` | `TypesHold`, `SwallowsNothing`, `QuietIsFresh`, `NeverGoesBack` | `TypeOK`, `NeverSwallowed`, `QuietMeansFresh`, `NeverOlder`, for any number of edits and of reloads |
| | `WatchNeverStuck`, `StepsRunOut` | the safety half of `Converges` |
| `Lifecycle_proofs` | `TypeCorrect`, `OrphansHaveACause`, `WindowIsEnough`, `QuietExitHasACause` | the four invariants of `Lifecycle`, for any lengths of waits and windows and any number of signals |
| | `ProxyNeverStuck`, `StepsRunOut` | the safety half of `SignalEnds` and `DeathIsNoticed` |
| `Scripts_proofs` | `OnlyHeirsAreSignalled`, `NoProxyIsLost`, `StartsAlone` | `OnlyHeirsAreHit`, `Tracked`, `LaunchesAlone`, for any number of versions, pids and runs |
| | `RunsEnd` | each line a run executes brings it nearer to its end, whatever the other runs, the operators and the processes do |
| `Names_proofs` | `ParsersAgreeWithReadme`, `RequestsAgree`, `RequestsNameTheTarget`, `ChildIsDialed` | `ParsesAsDocumented`, `AskAlike`, `NoWrongDestination`, `UpstreamIsReached`, for texts, addresses and flags of any length |

The arguments:

- `GoRelay`. None of the properties is inductive. `Untouched` says that before a teardown the sockets are as they were, but for
  the FIN that ends a complete stream; `BufferEmpty` that a goroutine that reads, or reached the end, has written all it took;
  `DoneMeansComplete` that one that ended before a teardown forwarded everything, unless a peer aborted; `AfterWait` that `relay`
  goes on after both; `StopProgress` how far `stop` is when a socket is closed or finished; `Window` that the running timer and the silence of each leg make up the
  window, but for a leg whose goroutine is between its read and its `wake()`. `NeverResets` follows because the FIN of each leg is queued before it is closed.
- `EitherRelay`. Before the teardown the sockets are `Open`: neither relay half-closes. `PumpsForward` and `ThreadForwards` say that what was taken was
  written, but for the pump or the thread that is in a write; `Deadlines` that a pump which computed its deadline from the clock as it is has left what
  silence has not used up; `PyWaits` that what is left of the timeout of Python's `select` and the silence so far make up its window, and that a send has bytes left to send. `RustTearsDown` has the FIN of each leg before its drop.
- `ImplementsDuplexStream`, twice. A step of a peer is the same step of the stream; a read or a write of the relay leaves what the peers see alone, as the stream's end can only be
  seen past a FIN; a FIN that is queued shows the end to a peer that has read everything, and is allowed to, since it follows the last byte (Go) or the teardown
  began (all); the steps that begin a teardown have one of the reasons `DuplexStream` lists, which is where `DoneMeansComplete` (Go) and
  `EndIsComplete` (Rust, Python) are needed.
- `HotReload`. `NeverSwallowed` looks at the moments between two polls only. `HeldMeansServed` has it hold at all places of the
  loop, also between a stat and a load and while the path is missing; `TimesOrdered` says that no mtime held or seen is later than
  the file's; `TickIsOver` that a load that was not hasty goes with a tick that has passed, so that a later change has a later mtime; `LoadedBeforeStat` carries the
  text from Python's first load to its first stat. For Go, `ReadLastIsFile` says that with no event on its way what was read last is the file, and
  `ReadsNotOlder` that what was read and not stored is no older than the map.
- `Conn`. The position in the code determines what was told, asked and opened (`Stage`) and what was read (`Position`); the time
  left on the deadlines bounds the age (`Windows`): before the upstream phase, age and time left are within the client's window,
  in it within both. `Answering` says that no reply is due on a client whose deadline has run out, so that only the client's
  own abort can take it.
- `Lifecycle`. `Child` ties the clock of the escalation to a child that was told to end and has not. Each implementation has its account of the script's window:
  in Go the signal cancels the context at once, so that what is left and the escalation make up the window; in Rust the wait for the port spends it first;
  in Python each of the two clean-ups has an escalation of its own. `WindowAssumption` then says that nobody's account runs out, but for Rust's wait followed by its
  escalation.
- The safety half of liveness, in five modules. That something happens takes fairness and stays with TLC; what fairness is given is proved. `...NeverStuck` says that in every
  state that is not final the code has a step to take (`CanStep`, `Returns`, `CanGo`) or waits for a clock that runs, whatever its peers do or stop doing. `StepsRunOut` gives a
  measure in the natural numbers, ordered lexicographically, that each such step lowers and no step of a peer raises. The conditions a
  `...NeverStuck` leaves open are where the code really depends on others.
  - Go relay: none. Until a teardown begins the timer runs or has fired (`Armed`), and a teardown closes both legs, which wakes whatever is blocked.
  - Rust and Python: a session is `Pinned` when both Rust pumps are in a write, or Python's thread is in its send to the client, and the peers do not read; this is the other side of the
    finding `BreaksWhenIdle`. Python's `recv` never blocks, because what `select` found readable stays readable until its turn (`Awaited`).
  - Handshake: Rust and Python wait for a client without a deadline, and for nothing else.
  - Hot reload: a file that cannot be read, an edit under way, and what `Excused` lists. Otherwise a watch that does not serve the file has a step to take, since a poll then holds another mtime
    (`HeldMeansServed`) and a loop of Go has an event, a timer or a reload (`ReadLastIsFile`); nothing but a new edit brings it further from serving it. The measure of Go counts
    what its start, an event, the timer and a reload have left, so that a store of an older text while an event waits is one step of several.
  - Process: a proxy that serves, was sent no signal and, in Go, has its child. `Heard` says that a signal is known at every place it can arrive at, and that who
    waits for the child has told it to end.

  The conditions are written out, for the prover knows nothing of `ENABLED`; on the instances of the runs TLC found that each of them implies that the step it stands for is enabled.
- `Scripts`. `Kept` says of a version no two runs were concerned with at a time that at most one run is (`OneRun`), that each of its living proxies is the one of its file or was
  just launched (`Known`), and what the run knows at each place (`Phase`): that its pid is that of the file, that no living proxy is left, or none but its own. It makes
  a version's fate independent of what other runs do to the other versions. `Inherited` says that a pid which a file or a run has for a version is free, that version's, or an heir's, and
  `Checked` that a process `is_ours` would not pass came to a pid that is about to be signalled after the check; both hold of all versions, overlapped or not.

- `Names`. `IInv` ties every answer to the text, address or flag it was made of; the work is in what the functions do with a text of any length. Where
  one would go by induction over the text, the proofs take a least or a greatest place of it, which exists because the natural numbers are well-founded:
  a place that is no separator is in exactly one piece of a split (`SplitCovers`, `SplitDisjoint`), for the piece begins behind the last separator before it and ends at the
  first one after it. So a line of a documented file goes from its first word to its last one (`LineIsWords`, `LineOfWord`), its fields are its words
  (`FieldsAreWords`), and the last line that names a domain is that of the last place that names it (`ParseIsMeaning`). For texts that are not documented, `RustParsesLikeGo` and
  `PythonParsesLikeGo` compare the lines and fields of two parsers. `StripIsInner` says that `join_host_port` takes off what Go does from the hosts Go takes, and
  `PortIsGiven` that no form of a port is lost behind the last colon.

Proofs have one lemma per group of actions and one step per action; the last step of each theorem is temporal. `TcpLegs_proofs` has what both relay
modules need of the legs.

Model-checked only: the liveness properties themselves (`AlwaysReleased`, `Released`, `Ends`, `Converges`, `DeathIsNoticed`, `SignalEnds`), for fairness and `ENABLED` are out of the
prover's reach. Every invariant and action property a run checks is proved.

## 6. What is not modelled

- Several connections at a time, and the length of the delays of Go's accept loop: connections share nothing but the
  map, which is swapped by one atomic store. The map is the one thing each takes a snapshot of; a model of both would say
  no more than `HotReload` and `Conn` do.
- Ports out of range, `--listen`, which nobody but the proxy uses, and the draw of a random port beyond its range and the ports others hold.
- Building a missing binary and the log file in `bin/start.sh`; logging, error texts, Docker files: formatting and configuration.
- The stand-ins for `tailcat` in the tests: the child and the upstream of the models may do more than they do.
- The idle clock of Rust is the wall clock; a clock that is set is left out.
- SIGINT to a Python that was started in the background by a shell without job control, as `bin/start.sh` does: it is ignored there, and only the SIGTERM that `bin/stop.sh` sends ends the proxy.
- What Python leaves to reference counting: the upstream socket on the exits by `ValueError` (a host or a bound address that is not ASCII or of an unsupported type) is
  closed when the frame goes, which `UpstreamReleased` takes for granted.

## 7. Plan

All of the plan has been carried out: relay, hot reload, handshake, lifecycle, scripts and names are modelled from the code of all three implementations; the
components that have variants are composed, and every safety property is proved, as is the safety half of the liveness properties. What could be added is a run of `Scripts` against `Lifecycle` in one module, so that
the SIGTERM of a stop and the end of the proxy it waits for are the same event. Both now assume the weakest of the other: `Scripts` a proxy that may never end,
`Lifecycle` a script that is run once.
