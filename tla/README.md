# Verification of MATF Master VPN

TLA+ models of the VPN in `src/matf_vpn/` (paths in this file are relative to
the repository root), the TLC configurations that check them, and TLAPS proofs.

## 1. The system

An endpoint reads IPv4 packets from a Linux TUN device, seals each into one UDP
datagram, and writes what its peer sends back to TUN. There is no thread
anywhere: every endpoint is one `select` loop, the graphical client one Qt event
loop, the tools are programs that run to their end. What is hard about the
program comes from outside a process: the network may lose, duplicate, delay and
reorder; either end may fail, restart or move; clocks run; system calls fail
half-way through a handler.

| Component | State it keeps | Operations | Interacts with |
|---|---|---|---|
| Anti-replay window (`crypto.py`, `ReplayWindow`) | highest authenticated number, bitmap | `is_replay`, `mark_authenticated` | both data planes, around decryption |
| Ciphers (`crypto.py`) | directional keys; a cache of two epochs' keys | `encrypt`, `decrypt`, `_cipher_for` | both data planes |
| Tunnel engine (`engine.py`) | send counter, window, time of the last authenticated receive, time of the next keepalive | `run_once`: TUN read, UDP read, timers | its peer engine, or the multi-client server |
| Server data plane (`multi_client.py`) | `_sessions` by (address, session_id), `_routes` by tunnel address; per session counter and window | add, replace, remove, TUN and UDP handlers | the registry's server loop |
| Server registry and loop (`multi_server.py`) | cache of accepted hellos (1024, least recently used) | `accept`, `run_once` | handshake, data plane |
| Handshake (`handshake.py`) | the client's hello and its private half | client loop (3 attempts), server loop (3 attempts), create, accept, finish | transport; the engines it hands keys to |
| Supervision (`cli.py`, `operations.py`) | which kind of session, attempt count | `run_session`, `run_with_reconnect` | everything above |
| Graphical client (`gui.py`) | state label, `_stopping`, two line buffers, a child process | start, stop, log lines, finished, kill timer | the endpoint's stderr |
| Configuration (`config.py`, `server_config.py`, `cli.py`) | a document, or the options of a command line | loading, `_validate`, the checks of `main`, those of the constructors | supervision, keys, ciphers |
| Keys (`key_agreement.py`, `keygen.py`) | a private and a public file, written one after the other | `write_keypair`, loading | configuration; another `keygen`; the operator |
| Campaign (`scripts/run_final_campaign.sh`, `experiment*.py`, `benchmark_cli.py`, `resource_monitor.py`, `resource_report.py`) | the schedule, two result files per block, the monitor's output and stop file on the server, merged documents | plan, skip or measure a block, stop the monitor, copy, merge | processes on two hosts, through files |
| Analysis (`benchmark.py`, `benchmark_report.py`, `resource_analysis.py`, `final_analysis.py`) | none | parsing, statistics | finished documents |

What makes each of the core components correct:

* window: it refuses exactly the numbers already accepted and those `Size` or
  more behind the highest, and learns of a number only after its tag verified;
* engine: a number is used once; what reaches TUN was sent by the peer's TUN,
  once; nothing inside the window is lost; a dead peer is noticed and a live
  one is not given up;
* ciphers: whatever order packets of several epochs come and go in, each meets
  the key of its epoch, and no genuine packet is lost for the cache's sake;
* server: to its clients it is one table, with the newest session of each, in
  which no client disturbs another; its two dictionaries agree with it; a
  repeated hello makes no second session; a client in contact keeps its route;
  packets leave under the session of the client they are for, and are accepted
  only from the client whose address they carry; no client's reconnect ends the server;
* handshake and reconnection: two ends that share the server's key share the
  whole session; whatever one end believes of the other, they have a common
  session again some bounded time after the last thing that went wrong;
* graphical client: what the window shows of a process that is gone is true,
  and Disconnect ends the process whatever that does, unless it runs as root and
  the client does not;
* configuration: whatever can be said against a document is said by
  `load_config`: `main` has nothing to add, and the objects it builds raise for two
  reasons only, a NUL byte in `tun_name` and a `handshake_timeout` no socket takes;
* keys: two complete files belong together, whatever failed while they were
  written and however many wrote them; an identity that is there is not
  overwritten or removed;
* campaign: its schedule is balanced; a restart keeps what is complete; what is
  merged was measured under one setting, with the resources of the same runs;
  a campaign that is started again whenever it stops finishes.

The hazards behind these properties, each with its line, are in
`PROJECT.json`.

## 2. Modules

| Module | Models | Extends / instantiates |
|---|---|---|
| `SlidingWindow` | the two methods of `ReplayWindow` as operators | |
| `ReplayFilter` | abstract: a filter that remembers every accepted number | |
| `ReplayWindow` | the order is_replay, decrypt, mark of the receive paths | `SlidingWindow`; refines `ReplayFilter` |
| `TunnelEngine` | two `TunnelEngine` objects with clocks, and the UDP path | `SlidingWindow` |
| `ServedClient` | one such engine, and the multi-client server's session for it | `TunnelEngine` |
| `MultiServer` | the multi-client server, its clients, restarts and the network | `SlidingWindow` |
| `PointToPoint` | both endpoints from socket to socket: reconnect loop, handshake, engine with its timers; lossy network, failing sessions, restarts | |
| `GuiEndpoint` | the graphical client and the endpoint it runs | |
| `KeyEpochs` | the epoch of a number, and the constants of key rotation | |
| `EpochCipher` | abstract: a cipher without a cache, and when a key may have to be derived again | `KeyEpochs` |
| `RotatingCipher` | `RotatingPacketCipher` with its dictionary of epochs | `KeyEpochs`; refines `EpochCipher` |
| `KeyPairs` | identities and the contents of key files | |
| `KeyFiles` | `keygen` processes, system call by system call | `KeyPairs` |
| `EndpointConfig` | the three sets of rules about an endpoint's options | |
| `StaticTunnel` | an endpoint with fixed keys: keygen, configuration, start, session | `ReplayWindow`, `EndpointConfig`, `KeyEpochs`, `KeyPairs`; instantiates `KeyFiles` and `RotatingCipher` |
| `SessionTable` | abstract: what the multi-client server promises its clients | refined by `MultiServer` |
| `Schedule` | `create_balanced_schedule` | |
| `Campaign` | the campaign script with the programs it runs on both hosts | `Schedule` |
| `MCTunnelEngine`, `MCServedClient`, `MCMultiServer`, `MCPointToPoint`, `MCStaticTunnel`, `MCCampaign` | constants of the TLC runs | |
| `SlidingWindow_proofs`, `TunnelEngine_proofs`, `ServedClient_proofs`, `MultiServer_proofs`, `PointToPoint_proofs`, `StaticTunnel_proofs`, `GuiEndpoint_proofs`, `Campaign_proofs` | theorems | the modules they are named after, and each other |

Operators with a comment that begins "Bug:" are deliberate mistakes, placed
before the definition they replace. No specification uses them; they show that
each checked property would notice such a mistake in the code.

### Correspondence with the code

**Windows.** The bitmap is the set of its one bits; bit `d` stands for number
`highest - d`. The shift, the mask and both boundary tests are the code's. In
`engine.py` marking follows decryption at once. In `multi_client.py` the test of
the inner source address stands between them, which `MultiServer!HandleData`
keeps.

**TunnelEngine.** `RunOnce` is one whole iteration of `run_once`: `SendPacket`
for a packet from TUN, `ReceiveUdp` for a datagram, `CheckTimers` for the
keepalive and then the liveness test. An iteration is a record that is handed
from one part to the next; a part that raises sets `status` to the exception,
and the later parts do not run, as in the code. `quiet` and `due` are
`_last_authenticated_receive` and `_next_keepalive` relative to now. A packet is
its number and type; payloads, keys and headers are abstracted to the kinds of
stray datagram that a check refuses (`Strays`). `Start` stands for
`run_session` having reached the engine, `Stop` for the process ending.
The size of a packet matters only for `encrypt`'s limit.

**MultiServer.** `Serve` is one whole `MultiClientServer.run_once`. `at` and
`route` are `_sessions` and `_routes`; `session` holds every `ClientSession`
object by number and `cache` the numbers the registry remembers, oldest first.
The order in `AcceptNew` is the code's: cache, answer, then `replace_session`,
so each prefix of it can be where a failing system call leaves the server. A
hello is a number because fresh keys make each one unique (so its fingerprint
is its identity); a session's number stands for the secret that only its hello
and answer derive. `net` never forgets: duplication, delay, loss and reordering
are all "may be read at any time, or never".

**SessionTable.** `MultiServer!Table` maps `current` to `_routes`, `issued` to
the number of `ClientSession` objects made, and `up` to whether the server
loop runs. `AcceptNew` is an `Accept`. A system call that fails half-way through
it, or a session_id that collides with another client's at the same address,
ends the server, and then the client may be left with its old session, or with
none. Data in both directions, cached answers and the network are stutters.

**ServedClient.** The client is `TunnelEngine`'s, unchanged. The server's side
reads and writes like `handle_tun_packet` and `handle_udp_packet` and has no
clock. The full tables are not repeated here: one session is followed.

**PointToPoint.** An endpoint is asleep (`run_with_reconnect`'s delay), in its
handshake loop, in an engine, or not running. `Open` is `run_session` up to the
first receive; `Expire` and `ReceiveInHandshake` are one turn of a handshake
loop, and a datagram that is of no use takes a turn just as a timeout does
(`NextAttempt`). The engine is `TunnelEngine` reduced to its timers, without
sequence numbers: a copy of a packet is a packet without effect. Setting up TUN
takes no time and may fail (`Fail`). Errors that `run_with_reconnect` does not
catch end the process (`End`); an operator starts it again (`Launch`). A
session is the pair of a hello and an answer, since its secret is derived from
both.

**GuiEndpoint.** An action is one callback of Qt's event loop, with the slots
its signals run. The child writes whole lines, or a last line without newline,
and ends at any time with any result; `ReadyRead` takes all that has been
written, and `ChildEnded` is QProcess reading the rest and then emitting
`finished`. The child is `pkexec`, which becomes the endpoint once root's rights
are granted (`Authorise`); from then on a client that is not root itself cannot
signal it (`OutOfReach`), and `terminate` and `kill` do nothing. `Read` says in closed form what consuming the lines one by one
amounts to: `_set_state` with the state it already has does nothing, so the last
line that names a state decides, unless none differs. Standard output is read by
the same code as standard error and is not repeated. The kill timer, as in the
code, does not know which process it was set for: one left from an earlier
connection kills a new one. No document rules this out, so no property does.

**EndpointConfig.** Three places of the code judge the same options: `_validate`
a document, `main` what it got from a document or the command line, and the
constructors what they are given. `Validate`, `MainAccepts` and `Flaws` are
these, each condition once; a flaw names the object that raises and, of the TUN
device, the reason. A document is a function from field names to
values with a kind, which is what the parsers of `config.py` look at: a boolean
is no number, `null` is absent only where a field is optional. A name is
the number of its bytes and whether one is NUL, an interval a number of ticks or
`NaN`, of which no comparison is true; `MaxTimeout` is the longest timeout a
socket takes, and `Infinity` lies above it. Only what building the objects makes of a
value is followed: a keepalive interval or reconnect delay that `select` or
`sleep` refuses later, in a running endpoint, is not.

**KeyFiles.** One action is one system call of `write_keypair`. An exception
inside the `try` block leads to the clean-up, one before it does not, and a kill
leaves everything where it is. Closing a file after a failed write may still
flush all of it. A keypair is named by the order of its generation. The
operator removes files only while no `keygen` runs.

**RotatingCipher, StaticTunnel.** The dictionary is a sequence, oldest entry
first. A key is named by the epoch it was derived for. One cipher object serves
both directions, so sending moves entries that receiving relies on; the replay
test comes before the cipher is asked, a forged packet of any epoch asks it too.
`Start` is `main` from its options to the session: the parser, its own checks,
the key files, the objects. Of the files, the endpoint's private one is
`KeyFiles`'; the peer's public one or the preshared one may or may not hold a
key, and the system may refuse what the objects ask of it (`failed`). It is taken only while no `keygen` runs, and with a
preshared key, of which the model has no file, only before any has. The engine's
timers are left to `TunnelEngine`, and the packets the endpoint sends, which its
peer treats in the same way, are only counted.

**Schedule, Campaign.** A shuffle is any order of the modes. An action of
`Campaign` is one command of the script, or one step of a program that it runs;
`Abort` is an interrupt, or a command that fails under `set -e`, anywhere. The
files of a block carry the number of the run that made them, so that files of
different runs can be told apart. A monitor runs on the server by itself and
outlives the script: `stopping` separates its last look at the stop file from
writing its document, because the next start of the block can come between the
two; two monitors of one block write the same temporary file. A monitor that
takes longer than the script waits, sixty polls half a second apart, is covered
by `Abort`.
Left out: preflight and warm-up, which write nothing that lasts; the figures
measured; an interrupted copy that leaves an empty file (for `test -s`, no
file). Two scripts at once, and a change of the number of rounds between starts,
are not modelled.

## 3. Runs

| Run | Shows | Bounds |
|---|---|---|
| `StaticTunnel` | types; what `load_config` accepts starts, with two exceptions; key files belong together and are kept; the cipher implements `EpochCipher`; the receive path implements `ReplayWindow`, is exact and implements `ReplayFilter` | window 2, numbers 0 to 4, two packets per key: three epochs against a cache of two, shifts below, at and above the window, late numbers on both sides of its edge; three packets sent; two identities, two `keygen` processes; every document that differs from one of four valid ones in at most two fields, with values on both sides of every limit, a NUL in the name, and NaN |
| `EngineData` | types, nonce discipline, at most once, only peer data, lateness inside the window costs nothing | window 2, numbers 0 to 2 (late by 2 is outside), interval 1, timeout 3, failing sends and writes, the client may stop |
| `EngineTimers` | no live peer is given up; a dead one is noticed (liveness) | interval 2, delay 1, skew 1, timeout 5 (the smallest the condition of `NoFalseTimeouts` allows), 7 numbers, the client may stop |
| `EngineOversize` | *violation*: a large packet ends the engine | one size below and one above the limit |
| `ServedBusy` | traffic keeps a served client alive | a pause of at most 2 ticks, timeout 4 |
| `ServedIdle` | *violation*: an idle served client gives up a live server | a perfect network, timeout of three intervals |
| `ServerSessions` | one session per hello, a connected client is served, tables agree; the server implements `SessionTable` | two clients behind one address, two session_ids, three hellos, two attempts, cache of 3 |
| `ServerChurn` | tables agree, replacement never raises | late hellos, cache of 1, an address change, a restart, failing sends |
| `PointToPoint` | types; an answer completes only the handshake it belongs to; recovery before a deadline; an undisturbed session stays | two faults of any kind at any time, three attempts, delays up to 1 tick, copies up to 3 ticks late, a client that waits 15 ticks for an answer and a server that waits 6 |
| `Campaign` | types; balance; complete blocks are kept and their two files are of one run; merged documents are sound; the campaign finishes (liveness) | two modes, three rounds, one repetition of three protocols, two attempts, two settings, two faults of any kind at any time |
| `GuiEndpoint` | types; idle when the process is gone; window in step with controller; Disconnect ends a process in reach (liveness) | two unread lines, two kill timers, a client that is root and one that is not |
| `ServerTraffic` | types, at most once, anti-spoofing, each packet leaves under its client's session and a number of its own | two sessions with two packets each way, foreign inner sources, oversize packets, failing sends and writes |

Why the bounds are enough: every comparison in the code is against a
neighbour (next number, window edge, one more than the cache holds, the last
attempt), so the interesting cases need one value on each side of an edge. The
instances have those. Two clients are enough for replacement, collision and
spoofing, each of which involves two parties. The documents two fields away from a valid one break every rule by itself and
any two together; that this is all, the theorem shows. In
`Campaign` three rounds are one more than a repair relates, and two faults let
the script be interrupted once and disturbed again while it resumes.
Symmetry is used only in `ServerTraffic`, where the two clients and their
addresses are interchangeable and only invariants are checked.
`Server*` runs do not check for deadlock because an exception ends the server
for good, nor do `GuiEndpoint`, where closing the window ends the client, and
`Campaign`, where the script may be done. The
engine runs do check: time can always go on.

Names of bounds that the code does not have: `MaxHellos`, `MaxSessions`,
`MaxRestarts`, `MaxFaults`, `MaxPipe`, `MaxTimers`, `MaxSent`, `MaxIdentities`. `MaxSequence`, `Size`,
`CacheSize` and `Attempts` are constants of the code with small values, `MaxSessionId` and `MaxTimeout` limits
of its fields and of the system.
`MaxDelay`, `MaxLate`, `StartSkew` and `TrafficGap` describe the environment,
`Generators`, `Documents` and `Settings` what it does with the program.

`RecoveredInTime` is the liveness of reconnection stated as a bound: `calm`
counts the ticks since the last fault while both processes run and no late copy
is on its way, and beyond `Deadline` the ends are connected. Two faults suffice
to put the ends into every pair of phases and to spoil the first repair.
`Deadline` is made up of what can happen in turn: sessions that one end alone
has run out, first the server's and then the client's (`OrphansOver`); the
client's next hello comes (`HelloComes`) and may find the server between two
rounds; the server's delay passes; the client, which still waits for an answer
to that hello, sends the next one; the answer travels. The second hello is easy
to forget, because a client whose attempt is shorter than the rest of the
server's wait repeats its hello early enough. The run's client therefore waits
much longer than a server between two rounds, so that with one client timeout less
TLC finds ends that are not connected in time.

It holds under `WideTimers`, each part of which is needed: on instances that lack
only one of them TLC finds ends that are still not connected at the deadline. With
the defaults of `cli.py` (timeout 3 s, delay 1 s, three attempts) they amount to
a one-way delay below half a second; with the keepalives of `examples/` (10 s
and 30 s) the third leaves ample room. Two of them come from code one could
easily write differently:

* any datagram consumes an attempt, so a client that reconnects at once to a
  server still in the old session may lose its attempts to that session's
  packets; the server must stay away long enough (`2 * MaxDelay` below its
  reconnect delay) for those to drain;
* the two ends' rounds are not synchronised, so the client's repetitions must
  be closer together than one round of the server's.

`ConnectedIsServed` carries its assumptions in the formula, because the code
needs them: a hello never seen before that arrives after its client has given
it up replaces the client's session (`LateHellos`), and an evicted hello is new
again (`MaxHellos <= CacheSize`). Its last part is said of a client with one
address only: the cached answer of a hello leaves the session at the address it
was first accepted from. Eviction is named in `docs/security-analysis.md` among
the residual risks, as are collisions of session_ids, which
`ReplaceNeverFails` excludes (`DisjointAddresses`) and which end the server by
`ValueError`.

### Fairness

`FairSpec` is used by `EngineTimers`, for `DeadPeerDetected`. It says that time
passes, that an engine that can start does, and that `select` returns for a due
timer and for a datagram that waits (`Idle`, `Reads`). The code justifies it:
the timeout given to `select` is the time left to the nearer timer, and an
iteration never blocks elsewhere. The network may replay for ever. With three
bits of sequence number instead of 64 an engine could exhaust its numbers before
its peer's silence is noticed, and would then have ended for the wrong reason:
`NumbersLast` asks that enough are left, and running out does not count as
noticing.

`GuiEndpoint` assumes weak fairness of QProcess's notifications, of the timer,
and of the end of a process that was sent `SIGKILL`; nothing is assumed of the
child before that, of the user or of reading. The last part is the operating
system's promise, and presupposes that the signal was delivered: `Signalled`
delivers none to a child out of reach. `StopEnds` therefore has that as an
alternative, for a child that becomes so at any time, also after Disconnect.

`Campaign` assumes that the operator starts an unfinished campaign again, that
the commands of the script come to an end, and that a monitor looks at its stop
file, which it does every second. `CampaignFinishes` has an exception,
`Spoiled`, because the script takes a block for complete when both of its files
are not empty: a copy that was cut short, and blocks measured under different
settings, stay, and merging fails on them however often the script is started.
`ResourcesMatch` has one as well, `shared`: when a script is killed while its
monitor runs and the block is begun again, two monitors share an output file.

### Findings

* `EngineOversize`. `README.md:25` says that a packet read from TUN is
  "framed, encrypted, and transmitted as one UDP datagram". With an MTU above
  65475, which `config.py` and `network.py` accept, `encrypt` raises
  `ValueError` and the endpoint ends: the error is not an `OSError`, so
  `run_with_reconnect` does not retry.
* `ServedIdle`. The multi-client server sends no keepalives and drops those of
  its clients. A client configured as in `examples/client.example.json`
  (keepalives every 10 s, timeout 30 s) that is connected to the server of
  `examples/server.example.json` declares it dead after 30 s without downlink
  traffic and reconnects, again and again. `ServedBusy` shows how much traffic
  prevents it.

Some properties hold only with the exceptions their formulas name. These are
gaps of the code too, but no document of the repository promises otherwise:

* `ConfiguredStarts`: a `tun_name` with a NUL byte and a `handshake_timeout` of,
  say, 1e10, `Infinity` or `NaN` pass `config.py` and end `main` by an exception
  of `TunDevice` (`tun.py:20`) or `UdpTransport` (`transport.py:20`);
* `StopEnds`: a client started by an ordinary user stays at "stopping" with an
  endpoint that is running, until the endpoint ends for a reason of its own;
* `ResourcesMatch` and `CampaignFinishes`: `shared` and `Spoiled`, above;
* `ReplaceNeverFails` and `ConnectedIsServed`: the conditions above.

## 4. Proofs

All theorems are about the specifications that TLC runs, for every value of the
constants that satisfies the assumptions named in the modules.

* `SlidingWindow_proofs`: what the operators do to a window that represents a
  set of accepted numbers. `MarkRepresents` and `IsReplayIffNotFresh` carry the
  rest; `ReplayStaysReplay` says a refused number stays refused, and
  `OnlyMarkedIsNew` that marking refuses no other number inside the window. The
  other modules about windows rest on these lemmas.
* `TunnelEngine_proofs`: `TypeCorrect`, `NonceDiscipline`,
  `DeliveredAtMostOnce`, `NothingInvented`, `NoFalseTimeouts`,
  `LatePacketsAreWritten`. The lemmas
  `SendEffect`, `ReceiveEffect`, `TimersEffect` and `IterationEffect` state what
  a part of an iteration can do to its record, so that the invariants are
  argued about whole steps without opening the code's branches again.
  At-most-once is not inductive: `IInv` adds that a written number is one the
  window refuses (`WrittenIsMarked`) and that no window is ahead of its sender
  (`WindowBehindSender`). For the timers, `SilenceBounded` says that whenever an
  engine's clock is wide enough, either its peer is gone, or a packet not yet
  read is owed to it, or the peer's next keepalive is near, and bounds the
  silence in each case. The delivery assumption enters only through `owed`:
  the packet owed is *new* to the window, so replays cannot hide it.
* `ServedClient_proofs`: `ServedTypeCorrect`, `ServedNonces`,
  `ServedAtMostOnce`, `ServedNothingInvented`, `TrafficKeepsClientAlive`. An
  iteration of the server is a `Step` as `TunnelEngine_proofs` defines it,
  although it drops what a `TunnelEngine` would read, so that everything proved of
  steps carries over. `SInv` adds that the server's clocks stand still and
  that it is there before its client (`ServerFirst`). `HearsTraffic` carries the
  timer: the client has been silent no longer than the server's TUN device, or a
  packet above everything it accepted is on its way and will be in time.
* `MultiServer_proofs`: every property of the three `Server*` runs, and the
  refinement of `SessionTable` (`ImplementsSessionTable`). The parts of `IInv`
  are stated of the record an iteration works on (`Progress`), so that they are
  proved of one transformation after the other: `Agree` and `Filed` are the
  tables; `Sound` is what the cache is for, with `Owned` (a session is its hello's
  and lies at an address of that hello's client), `Remembers` (the cache holds
  hellos of this run, each once, and none is missing if it can hold all),
  `OneSession`, `Harmless` (replacement does not end the server) and `Served` (the
  session of a client's latest hello has the route); `Traffic` is the packets,
  with `Sent` (they name hellos and sessions that exist), `Private` (a downlink
  number is below its session's next one) and `Recorded` (what was written is a
  replay to its session's window and came from its client). `ClientsKnown` ties
  a client to its hello and session. That a cache that can hold all hellos has
  room for a new one (`RoomInCache`) is the pigeonhole principle. The conditions under
  which a property holds (`DisjointAddresses`, `MaxHellos <= CacheSize`,
  `LateHellos`) stand in the property, so the theorems assume nothing further.
* `PointToPoint_proofs`: `TypeCorrect`, `AnswersAreForTheirHellos`,
  `ConnectionsStay`, `RecoveryInTime`. Types are not obvious here: that a new number is always
  found needs the datagrams to be finitely many. For the second theorem,
  `Paired` says that an answer determines its hello among all sessions still in
  use anywhere, and `Answered` that an engine has one. For the third,
  `Hears` says of an end of a common session that its peer's next keepalive is
  near or a packet on its way, counting from whichever is later, the last packet
  heard or the last fault (`Within`). A session becomes common only when the
  client finishes; that the server has not waited too long by then is
  `AnswerIsFresh`, and for an answer out of turn `LateIsRecent`. Of `WideTimers`
  this theorem needs only the condition on the keepalive interval, and its
  invariant none. All actions of an endpoint have one of four effects (`Effect`),
  and the invariants are argued about effects.

  `RecoveryInTime` adds the invariant `Settling`, which holds with wide timers:
  whenever both processes run and no late copy is on its way (`Quiet`), the ends
  are `Recovering`. That bounds, for each pair of phases, the ticks since the last
  fault together with those until the pair is left, and every bound is at most
  `Deadline`; so beyond it the ends can only be connected.
  * An engine without its peer (`ClientOrphan`, `ServerOrphan`) runs out: nothing
    that keeps it alive is left to arrive late, or it is a server whose answer
    will make the client join it first (`Pending`).
  * Two ends without engines (`Approaching`) are in one of four situations. A
    client is about to send a hello (`HelloIsNear`); one is on its way, ahead of
    nothing that could cost the server an attempt (`HelloOnItsWay`); it found the
    server asleep, whose next round is near (`RoundIsNear`); the round has begun,
    and a hello will come before it is over (`HelloMeetsRound`). The last step is
    where the client must repeat its hello often enough: the fourth part of
    `WideTimers`.
  * The rest rules out what would spoil this. A sleeping server outlasts what it
    last sent (`ServerSilent`) and the hellos it made the client give up
    (`HellosCurrent`): the second part of `WideTimers`. A datagram of an old
    session costs the server an attempt only before the next hello
    (`ClientSilent`), and an answer the client can still use is that of the server's
    session (`AnswersCurrent`). A client waits long enough to get its answer: the
    first part.

  The steps are classified once more, by what an end does with its handshake
  (`Kinds`), and each part has a lemma for a step of the client, of the server
  and a tick. Faults need no such argument: they set `calm` to 0, and from there
  every bound holds (`RecoversFromNow`).
* `StaticTunnel_proofs`: every property of the run `StaticTunnel`, in four parts.
  * The window: `WindowTypeCorrect`, `ExactWindow`, `WindowImplementsFilter`.
    `WindowIsExact` with the types is inductive as it stands; each step of the
    window is an `Accept` or a `Refuse` of the filter.
  * Key files: `FilesBelongTogether`, `IdentityKept`. `FilesMatch` speaks only of
    moments when no `keygen` runs; `KeysInv` says what holds in between.
    `KeysOwned` is the argument: `O_EXCL` on the private file works as a lock, so
    that at most one process is past it, and that file holds its identity.
    `KeysExplained` says of two complete files that do not belong together
    that the process which wrote the private one is still to find this out and
    clean up, or was killed.
  * The cipher: `CipherImplementsEpochCipher`. `Mirrors` says that the dictionary
    is the end of the list of epochs in the order of their last use, which
    `UsedOnce` says names each once. From there it follows that an entry's key is
    its epoch's and that what is not in the dictionary is `CacheSize` epochs away.
  * The endpoint: its own steps leave the parts above alone or are their steps.
    `GenuineOpens` takes from the cipher's invariant that a genuine packet is
    always opened, so that the receive path is `ReplayWindow`'s.
    `EveryConfiguredStarts` rests on `ValidIsAccepted`: `Validate` implies the
    rules of `main` and leaves two flaws, for every document, not only those of the
    run.
* `GuiEndpoint_proofs`: `TypeCorrect`, `IdleShown`, `WindowInStep`. The three
  properties are inductive together. `ReadEffect` and `FinishedEffect` say what
  a whole read and the end of a process do to the pair of states; that a
  non-empty set of positions has a last one (`LastIsMember`) is derived from the
  well-foundedness of strict inclusion among finite sets.
* `Campaign_proofs`: `TypeCorrect`, `ScheduleIsBalanced`,
  `CompletedBlocksAreKept`, `ResourcesAlwaysMatch`, `MergedIsAlwaysSound`. `Balanced`
  rests on facts about orders: an order of the modes names each mode once, and
  there is always another first mode to swap with. `ResourcesMatch` needs to know
  what an interrupted run leaves behind: `UnderWay` says which of the block's files
  are there at which command of the script, and `Alone` that what a monitor has on
  the server is from the block's last run, unless two of them met.
  `MergedFrom` says a merged document is what its blocks *still* are, and is kept
  because complete blocks are.

The unencrypted mode (`Encrypted = FALSE`) is in the model and covered by the
theorems, which hold for both values; no run instantiates it.

Only model-checked: `DeadPeerDetected`, `StopEnds` and `CampaignFinishes`,
which are liveness under fairness and outside the prover. Every other property of
the runs that are expected to pass is stated by a theorem.

## 5. Not modelled, and the plan

Not modelled because there is no state or order to get wrong: the byte layout
of packets, key derivation, system-call wrappers, logging, styling of the
window, parsing of tool output, statistics and reports.

Not modelled, although something could be said:

* the restart of a process with a preshared or static key, which begins again at
  number 0 under the same key and session while its peer keeps its window; no
  document says what should then hold;
* `server_config.py`, whose result are the clients of `MultiServer`;
* the deployment and host setup scripts.

Planned, in this order:

1. `FixedKey`: the restart named above, with what the peer does to the restarted
   numbers.
2. `ServerConfig`: its rules against the constructor of the registry.
