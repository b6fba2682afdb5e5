# A verification project for hexhub-agent-plugin

The repository is a small agent. A **master** process runs on the user's
machine, serves HTTP on a fixed local port, and installs, updates, starts, stops
and removes **plugins**. A plugin is a directory with a `manifest.json` and an
executable; the executable, built with package `slave`, runs as a **child
process**, listens on a port of its own and registers itself with the master,
which then forwards requests to it. A separate package, `rpc`, gives plugins a
message connection with replies and channels over a WebSocket.

This directory holds TLA+ modules of the master and its children, of the master's
locks, and of `rpc`'s connection, channels and packet format, TLC configurations
for them, and TLAPS proofs about all three.

## 1. Inventory

| component | state it keeps | operations | what makes it correct |
|---|---|---|---|
| plugin manager, `plugin/master/plugin_manager.go` | `pluginMap` (a `PluginInfo` per plugin with status, endpoint, version and a mutex), `latestInfoMap`, `globalLock`, the plugins' directories | `StartPlugin`, `StopPlugin`, `RestartPlugin`, `CheckUpdate`, `InstallPlugin`, `UninstallPlugin`, and under them `initManifest`, `run`, `_stopPlugin`, `WaitStopPlugin` | one child per plugin; the mutex is held where it is meant to be and released by its holder, and by nobody else; Downloading belongs to one installer; a failed step leaves a plugin that can be repaired |
| master HTTP surface, `controller.go`, `master.go` | `Connections`, `LastConnTime` | `ServeHTTP` and the handlers, the registration of children, the proxy, `Post` to a child | a registration replaces the old child; every request is counted while it is forwarded and not after |
| background goroutines, `master.go` | none of their own, but `heartbeat` holds a shard of `pluginMap` while it calls back | `Start`, which loads the plugins on disk; `heartbeat` every five minutes: automatic exit or ping; `pluginCoDeath` on a signal | only idle plugins are stopped; a dead child is noticed; nobody waits for a shard for ever |
| child process, `plugin/slave` | its endpoint | `Start`, register, `kill`, `ping`, `heartbeat` every ten seconds | a child serves only once registered; it does not outlive its master, whether another one follows or not |
| configuration and manifests, `plugin/plugin.go` | globals set once by `Init` | `GetManifest`, `GetManifests`, `ApiGet`, `ApiPost`, URL formatting | the manifest read is that of the plugin |
| rpc connection, `rpc/conn.go` | id counter, reply table, channel table, accept queue, `isClosed` | `StartHandler` (read loop and ping goroutine), `Send`, `SendWaitReply`, `OpenChannel`, `AcceptChannel`, `Close` | an answer reaches the callback of its own request, and none else; the end of the connection reaches the application; the read loop does not stop for one channel |
| rpc channel, `rpc/channel.go` | a Go channel of four, `isOpen`, `isClosed` | `Send`, `Receive`, `Read`, `ReadTimeout`, `Close` | data arrives in order and without a hole, none after the close; closing twice is harmless |
| packet codec and buffer, `rpc/packet`, `util/buf` | a byte slice with two indices | `Encode`, `DecodePacket`, reads and writes of integers | decoding undoes encoding within the widths |
| download, unzip, exec, `util` | files | `DownloadFile`, `Unzip`, `ExecChildProcess` | a failure leaves nothing half done |
| crypto, results, helpers | none | pure functions | |

How they interact. Every HTTP request runs in a goroutine of its own; `heartbeat`,
each of its pings, `pluginCoDeath` and one goroutine per launched child
(which waits for it to exit) run beside them. They meet in `pluginMap`, in the
fields of `PluginInfo` and in the record's mutex; `Status` and `Endpoint` are
also read, and written, without it. The master talks to a child by `POST` (`ping`,
`kill`) with the record's mutex held and without a timeout; a child talks to the
master by `POST` (`register`, `ping`). In `rpc`, the read loop and the ping goroutine
of a connection and any number of the application's goroutines meet in the
connection's tables, which are concurrent maps without a common lock, in the Go
channels of the `Channel`s, and in the flags `isClosed`, which no lock protects.

What is hard. The mutex guards only part of what is done with a record
(`initManifest`, the reapers, `Post` and every poll are outside it); look-ups,
checks and the actions based on them are in different locked sections; the record
may leave the map while goroutines hold it; children exit, are killed, are launched
twice and register at any moment; downloads, unzips, execs and removals fail; a
child that is registering listens without answering; and the master may die and
come back with nothing in its memory. In `rpc` the identifier of a packet is read
from a counter other senders move; tables are updated after the packet that makes
the peer answer; one goroutine reads for all channels and replies, and waits for each;
and everything may be closed from four sides. PROJECT.json lists the hazards, each
at its line.

## 2. Modules

| module | models |
|---|---|
| `PluginState` | the state shared by all goroutines that handle one plugin, and the helpers they have in common: the map entry, `PluginInfo`, its mutex, `initManifest`, the target of `Post` |
| `SlaveProcess` | a child process, and the goroutine of `run` that waits for it |
| `PluginLifecycle` | `StartPlugin`, `StopPlugin`, `RestartPlugin`, `_stopPlugin`, `run`, `pluginRegisterHandler`, `heartbeat`, `pluginCoDeath` |
| `PluginInstall` | `CheckUpdate`, `InstallPlugin`, `WaitStopPlugin`, `UninstallPlugin` |
| `PluginProxy` | `defaultHandle` |
| `Master` | the composition: `Start`'s initial state, the arrival of requests, and all of the above interleaved |
| `StatusPhases` | the abstract specification of the polled `Status` field |
| `MasterProperties` | invariants, action properties, fairness, liveness, the refinement |
| `MCMaster` | the instances of `Master` TLC runs |
| `MasterLocks` | the locks of the package, for several plugins: records' mutexes, `globalLock`, the shards of `pluginMap`, with what of each operation takes, holds and gives back a lock; `OrderKept`, `StuckOnlyInExit` |
| `MCLocks` | its instance |
| `RpcState` | one connection: the tables of `conn`, the `Channel`s, the WebSocket's two directions, the peer, the goroutines' places |
| `RpcChannel` | `Channel`: `Close`, `Receive`, `Read`, `ReadTimeout` |
| `RpcConn` | `conn`: `Send`, `SendWaitReply`, `OpenChannel`, `AcceptChannel`, the read loop and the ping goroutine of `StartHandler`, `Close`, `triggerClose` |
| `Rpc` | the composition: `NewConn` and `StartHandler`, an application that calls anything, a peer that sends anything under any identifier, a network that breaks |
| `FifoChannel` | the abstract specification of a `Channel` |
| `RpcProperties` | invariants, fairness, liveness, the refinement of `FifoChannel` |
| `MCRpc` | the instances of `Rpc` |
| `ByteBuffer` | `BufUtil`, for a byte of any size |
| `PacketCodec` | `EncodePacket`, `DecodePacket`, `SubPacket`: a packet written, masked, sent, unmasked and read field by field, and the one inside it; with its properties |
| `MCPacket` | its instance |
| `MasterTyping`, `MasterLocking`, `MasterRecords` | theorems and proofs about `Master`, each on top of the one before |
| `LockOrder` | theorems and proofs about `MasterLocks` |
| `RpcTyping` | typing of `Rpc`; on top of it `RpcDelivery` (who closes a Go channel, and the refinement of `FifoChannel`) and `RpcAnswers` (whose answer a callback gets) |
| `PacketDecoding` | theorems and proofs about `PacketCodec`: numbers as bytes, pieces of sequences, the format, the steps |

**One plugin.** The handlers of different plugins share `globalLock` and the
shards of `pluginMap` only. `Master` has one plugin: a section under `globalLock` is
one step and the lock no variable, and the same goes for a single operation on the
map. What that hides is the waiting for these locks, and `MasterLocks` has it, for
several plugins: there, what an operation does with a record is one of its
possible ways from `Lock` to `Unlock` (a request to a child always comes back, and of
two look-ups in a row one is left), and each request to a shard is a step that waits
for whoever has asked to write. In `AskShard` a writer asks, which keeps later
readers out, and in `Remove` and `Set` it gets in, when `IterCb` is over.

**Goroutines.** `pc[t]` is a label and `loc[t]` the locals still needed there. Each
label is a point between two accesses to shared state; one action takes a goroutine
from one label to the next and does what the code does in between. A registering
child is served by a goroutine with the child's name. `Holding` is the set of
labels between `Lock()` and `Unlock()`.

| labels | code |
|---|---|
| `startGet` … `startExec` | `plugin_manager.go:104-138`; `startRun` takes the lock (`:135`) and writes `Starting` (`run`, `:281`), `startExec` is the launch (`:284-315`) |
| `stopGet`, `stopLock`, `kill`, `killPost`, `killed`, `stopDone` | `StopPlugin` `:93`, `_stopPlugin` `:335`: its test of the endpoint, what `Post` reads by itself (`master.go:185`), the answer |
| `wsPost`, `wsPing`, `wsAgain`, `wsProbe` | the two pings of `WaitStopPlugin` `:318`, each cut between the reading of the endpoint and the answer |
| `check`, `compare`, `recheck`, `checkLock` | `CheckUpdate` `:140` |
| `snap`, `instInit`, `instLock`, `decide`, `download`, `unzip` | `InstallPlugin` `:215` |
| `uninstGet`, `rawRemove`, `uninstLock`, `remove` | `UninstallPlugin` `:190` |
| `regCheck`, `regInit`, `regLock` | `pluginRegisterHandler`, `controller.go:148` |
| `proxyEnter`, `proxyRoute`, `proxySend`, `proxyWait` | `defaultHandle`, `controller.go:182`; the endpoint is tested at `:200` and read again at `:207` |
| `pgPost`, `pgPing` | the ping goroutine of `heartbeat`, `master.go:269` |

**Records.** `pmap` is the map's entry, a member of `Obj` or `None`; goroutines hold
pointers to records, and a record taken out of the map lives on in their hands.
`sync.Mutex` does not know its holder: `Unlock` of a free mutex ends the master
(`up' = FALSE`), `Unlock` of another's mutex frees it.

**Requests to a child.** `PostTarget` is the endpoint `Post` reads. The answer comes
(`Answers`) if that process serves, an error (`Refused`) if there is no endpoint or
the process is dead, and nothing at all while it listens without serving: it is
then between `net.Listen` and `http.Serve`, waiting for the answer to its own
registration. `kill` ends the process before it answers, so `Post`'s error, and with
it `StopPlugin`'s, is never nil; `RestartPlugin`'s early return is dead code.

**Abstraction.** A version stands for a manifest; the name, paths, sizes and
messages are left out. The polls that follow a start or a stop only read. A cached
version info may be fresh or not at any time. A goroutine's panic inside a handler
is recovered by net/http, so it returns, with any lock it holds still held.

**The master's life.** `MasterDies` ends every goroutine; `MasterRestarts` loads what is
on disk, as `Start` does at first. The token of the new master is another one, so a
child left over is an `orphan`: its next ping or its registration is answered 401, and
it panics. In debug mode the token is always `debug`, a serving child stays, and the
new master does not know it.

**A connection.** The counter starts at `0xffffffff` and goes down; `0xffffffff - k` is
written `-k`. `Draw` is the atomic step and `Write`, `Register` and `Enter` are the later
readings of the same field, in which another sender's number may be found;
`overlapped` records the numbers of all senders that were between drawing one and
returning at the same time. The read loop tests `isClosed` at `loop` and waits in
`ReadMessage` at `reading`: a `Close` that comes later does not reach it there, since
nobody closes the socket, and it goes on with the peer's next packet or the peer's
end. What a goroutine does between two accesses to a table, a flag or a Go
channel is one step. An `rpc` goroutine that panics ends the program.

| labels | code |
|---|---|
| `draw`, `write`, `register`, `enter` | `Send` `conn.go:247`, `SendWaitReply`, `OpenChannel` |
| `accept`, `acceptEnter`, `acceptReply` | `AcceptChannel` `conn.go:188` |
| `loop`, `reading`, `queue`, `reply`, `receive`, `push` | the read loop `conn.go:107`, `Receive` `channel.go:122` |
| `ping`, `stuck` | the ping goroutine `conn.go:83` |
| `clTest` … `clClear`, `trTest`, `trSet` | `Close` `conn.go:284`, `triggerClose` `:340` |
| `chTest`, `chMark`, `chShut`, `read`, `wait` | `Channel.Close`, `Read`, `ReadTimeout` |

The peer is not in the repository, and nothing is assumed of it. In `Rpc` it sends
packets to open and to close a channel, numbered data and messages, each under any
identifier and any number of times: under one the connection has not drawn yet, one
it waits for an answer to or has had one to, one whose channel is closed; it sends what
is no packet, and leaves; the network may break, and lose what it carries. Each
direction of a WebSocket keeps its order. What the peer may send is restricted in the
`.cfg` files only, by `Events` and the identifiers.

**Packets.** `ByteBuffer` and `PacketCodec` are parameterised by `Base`, the number of
values of a byte: the fields keep their widths of two and four bytes, and a small
`Base` brings the lengths at which they are cut within TLC's reach. `PutUint16` and
`PutUint32` put a byte down for every division by `Base`, the code's `>> 8`, and drop what
is left; `Uint16` and `Uint32` are the way back. `WriteField` and
`ReadField` are one statement each of `EncodePacket` and `DecodePacket`, in the order
of `After`; `ReadFails` is any of the latter's error returns. `int(dataLen)` is taken for
the number itself, as it is where an `int` has 64 bits. The exclusive or is a
parameter of which only its being its own inverse is assumed.

## 3. What is checked

`CHECK_DEADLOCK` is off in all runs but `Packet`: the system does stop, when the master
is dead, when an `rpc` goroutine has panicked, when a connection is over, and when
every goroutine is wedged (below).

| run | instance | checks |
|---|---|---|
| `Install` | two clients (check, start / check, uninstall), the signal goroutine, one child, two versions, every call of the installer may fail, `RemoveAll` does not | `TypeOK`, `LockDiscipline`, `DownloadExclusive`, `StopNeverFails`, `StatusInPhases` |
| `Removal` | two clients (uninstall, start, restart, proxy / proxy), two records, `RemoveAll` may fail, heartbeat and automatic exit | `ConnectionsExact`, `LockDiscipline` |
| `Liveness` | one client that starts, two children, crashes, exec failures, the master's death and restart | `CallsReturn`, `StartingResolves`, `OrphansExit` |
| `Heartbeat` | one client that starts, two children, crashes, heartbeat | `DeadChildNoticed` |
| `Locks` | two plugins in one shard, two goroutines that do anything, heartbeat with the automatic exit, three records | `OrderKept`, `StuckOnlyInExit` |
| `RpcChannels` | one goroutine sends, opens, closes a Channel or the connection, another accepts and reads; the peer opens, sends, closes, under an identifier it takes or answers, leaves, sends garbage | `RpcState!TypeOK`, `PanicNeedsCloser`, `ChannelsAreFifo` |
| `RpcRequests` | two goroutines send requests, one of them closes; the ping goroutine, replies that expire, a peer that sends messages under any identifier and leaves, a network that breaks | `AnswersRouted`, `EndNoticed` |
| `Packet` | bytes of one bit; five methods, four ids, data of up to two bytes, each packet alone and inside another; all frames of up to twelve bytes | `RoundTrip`, `DecodeExact` |
| `DoubleStart`, `StaleUnlock`, `InstallUnderChild`, `Reinstall` | the smallest instances that show it | a comment of the code that the code does not keep |

The properties:

- `LockDiscipline`: the goroutines in a locked section of a record, and no others,
  hold its mutex (`Disciplined`), and no `Unlock` is fatal. Every other operation keeps
  the record it has locked in a variable of its own, however often the map is changed
  meanwhile. `StartPlugin` overwrites, under the lock, the variable it unlocks: where the
  map has another record by then, or none, it leaves its second look-up with that
  (`Strays`), and the property promises nothing from there on. It does break there: the
  run `StaleUnlock` shows it.
- `DownloadExclusive`: whoever sees Downloading sees it under its installer's lock,
  although reapers and registrations write the same field.
- `StatusInPhases`: the handlers implement `StatusPhases`, in which an installation
  is a phase of its own, between a settled status and a verdict. The mapping is
  `status <- PluginStatus` and `installing <-` some goroutine is at `download` or
  `unzip`.
- `StopNeverFails`: the 25 attempts of `WaitStopPlugin` never run out, where
  `RemoveAll` does not fail (section 4 says what happens when it does). This is a fact
  about the whole, not about the loop: the endpoint may be rewritten, but the
  status stays off Running while the lock is held.
- `ConnectionsExact`: `Connections` of each record is the number of requests that
  are being forwarded through it.
- `CallsReturn`, `StartingResolves`, `DeadChildNoticed`: what must eventually happen.
- `OrphansExit`: a child alive when its master dies, at whatever point of its
  registration, ends, whether the master stays dead or is back before the child
  notices.
- `OrderKept`: every goroutine, of whatever plugin, waits only for locks that come
  after all those it holds, in the order older records, newer records, `globalLock`, a
  shard, the shard's readers. Records come in the order in which they were made
  because `StartPlugin`, after its second look-up, may go on to a newer record with an
  older one left locked.
- `StuckOnlyInExit`: if everyone waits for a lock, it is because a panic has left a mutex locked,
  or because of the one lock `OrderKept` leaves out: the shard's read lock that
  `heartbeat` holds in `IterCb` while the automatic exit, inside, waits for a
  record's lock or reads the shard again, behind a writer. (Waiting for a child with a
  record's lock held is not waiting for a lock: that is the wedge below.)
- `ChannelsAreFifo`: each Channel implements `FifoChannel` under the mapping
  `pending <- buf`, `taken <- taken`, `closed <- shut`: the reader gets the peer's packets
  from some packet on, in order and without a hole, and nothing after `close(t.ch)`.
  (From some packet on: what the peer sends before the Channel is in the map is
  dropped.)
- `PanicNeedsCloser`: Go channels are closed twice, or sent on when closed, only where
  one of the application's goroutines closes them, by itself or with the connection.
  For the peer's close, and an end that the read loop or the ping goroutine notices,
  the unprotected flag is enough.
- `AnswersRouted`: a sender that is alone from drawing its number to its return has
  its identifier to itself. No other packet of the connection's senders is sent under
  it, although each is sent under the counter as it is read later; its callback is
  given no packet but those that carry it, and no other callback is given any of
  these, although each reply is entered under the counter as it is read later still. It
  holds whoever else is racing before and after, and whatever the peer sends. It does
  not say that the callback is called once: the reply stays in the table, and every
  packet with its identifier goes to it; nor that it is called at all.
- `EndNoticed`: once the peer is gone, `closeFunc` is called and the read loop
  returns, unless the loop waits for room in a queue or for the shard the ping
  goroutine has locked for good, or has panicked.
- `RoundTrip`: what is decoded is what was encoded, the packet inside included, as
  long as the lengths fit; `DecodeExact`: a frame is accepted exactly if it begins
  with an encoded packet.

**The wedge.** `CallsReturn` has an exception, `Wedged`, and fails without it. A
goroutine that holds the mutex sends `ping` or `kill` to a child that is already
registered on paper but whose registration handler still has to take that mutex to
answer. Neither goes on: the child serves only when it is answered, and
`http.Client` has no timeout. It takes a first start, a registration that has
written the endpoint, and a status that is Running from another registration. The
run has calls that start; stops and uninstallations wait for the same mutex.

**Bounds.** Two clients are enough for each of the races the code could lose: every
check and the action based on it are two sections of one goroutine, with one other
goroutine in between; children, the heartbeat, its ping and the signal goroutine come
on top. Two children let an old one and a new one overlap, with one client in
`Liveness` and `Heartbeat`; `Install` and `Removal` have one child, where a second `exec`
fails instead, and the proofs of what these two check are for any number. Two versions
make an update possible after an installation. `Obj` has two records where a removal is possible; a third would need
a second removal with goroutines left over from both. `MaxClock` is one more than
the idle limit, so the limit is reached, missed and reached again. At most one ping
goroutine is modelled at a time.

`Locks` has one shard for both plugins, since plugins in different shards share
`globalLock` only; three records let one plugin's be removed and made again. `Spare`
bounds removals, so that no goroutine ever waits for a record the bound forbids.

`RpcChannels` has capacities of one for the four of a Channel and the 128 of the
accept queue, so that both are reached; one identifier, which the connection draws or
the peer takes unasked, or both; one Channel under it, opened by either side, three packets
of data (with fewer, a packet dropped from a full buffer would leave no hole), and one
packet on its way at a time (a WebSocket keeps its order, so more of them only wait
longer). With one Channel the run does not reach a second one
under the same identifier (section 4); the proofs of section 5 cover that, and any
number of packets on their way. `RpcRequests` has two identifiers in two
shards: two requests, whose senders may be alone, one after the other, or take each
other's number. A third, that comes before or after two that race, is in the proof
only. What TLC checks
it checks for these instances; section 5 says which of it holds for all.

In `Packet` a method of three bytes and data of fifteen (a packet inside another)
are the largest that fit, and a method of four is the first that is cut.

**Symmetry** over the children, and over the workers of `Locks`, is used in safety runs
only; nothing in the models distinguishes them.

**Fairness.** Weak fairness of each goroutine's steps is the Go scheduler's.
Strong fairness of the steps that take the mutex is `sync.Mutex`: a waiter
starved for a millisecond gets the lock handed over. A launched child goes on, its
heartbeat runs every ten seconds, the master's every five minutes. Nothing is
assumed of clients, of crashes, of the master's restart or of failures.
`DeadChildNoticed` needs the master's heartbeat, `OrphansExit` the child's. In
`RpcRequests` the goroutines of the connection run, which takes in that a write to the
socket and a callback of the application end; nothing is assumed of the application's
calls, of the peer or of the network.

## 4. What the code does otherwise than it says

Each is a run expected to be violated; PROJECT.json quotes the comment.

- `DoubleStart`: the double check of `StartPlugin` gives the lock back before `run`
  takes it again.
- `InstallUnderChild`: the endpoint is gone before the child is to be stopped.
- `StaleUnlock`: `StartPlugin` looks its record up again under the lock. An
  uninstallation whose `RemoveAll` fails has taken it out of the map, and the branch
  that is to unlock it (`plugin_manager.go:126`) follows a nil pointer: the call is over,
  and the mutex stays locked for whoever waits for it. With another record entered by
  then, it unlocks that one's mutex instead, which ends the master if it is free.
- `Reinstall`: as long as the record of a plugin says that a download or an unzip has
  failed, `InstallPlugin` does nothing. A version that is on disk can still be started,
  and its start takes the status back; where none is, as in the run, nothing is ever
  installed again.

Seen in the models, with no run of their own. In package `master`:

- The goroutine that waits for a child compares the endpoint it captured
  (`plugin_manager.go:301`), which is empty for any child launched after
  `initManifest`: it takes the status back, under another child, whenever nobody has
  registered.
- The second version check of `InstallPlugin` is on a copy taken before the lock
  (`plugin_manager.go:241`): an installer that waited downloads the same version again.
- Two children that register at once both stay: the second stops the first only if
  the status is Running by then (`controller.go:165`).
- `CheckUpdate` takes an uninstalled plugin for current, since `UninstallPlugin`
  leaves the record and its version in the map (`plugin_manager.go:170`); it takes the
  record out only when `RemoveAll` fails (`:207`).
- After such a removal an installer may hold a record that is no longer in the map:
  `WaitStopPlugin` pings the child registered in the new record, `_stopPlugin` looks at
  the endpoint of the old one (`plugin_manager.go:336`), which is empty, and kills
  nothing, and the attempts run out.
- The automatic exit may kill a child that a request has just been forwarded to
  (`master.go:263`), and a failed ping may kill the child that replaced the one that
  failed (`master.go:274`).
- `LastConnTime` is 0 until the first request, so a plugin nobody has used is idle at
  once (`master.go:263`).
- The automatic exit stops plugins inside `IterCb` (`master.go:266`): with a writer
  waiting for that shard, whose goroutine holds `globalLock`, everyone stops for good.
- In debug mode all masters have the token `debug`: a child left over from the last
  master keeps its port and is answered, and the new master starts another.

In package `rpc`:

- A request's reply is entered after the request is sent (`conn.go:264`), under a
  counter read again: an early answer is dropped, and two senders may take one number.
  `AnswersRouted` says what is left.
- The open packet is sent before the Channel is in the map (`conn.go:180`): an early
  answer goes to `channelAcceptChan`, and whoever accepts makes a second Channel under
  the same identifier, which replaces the first in the map.
- The ping goroutine removes an expired reply inside `IterCb` of the same map
  (`conn.go:100`): it waits for itself, no callback learns of the timeout, and the
  read loop stops at the next packet of that shard.
- A ping that fails closes the connection with `triggerClose` (`conn.go:94`), which
  leaves its Channels open; `Close` does nothing from then on, and readers wait.
- `closeFunc` may be called twice (`conn.go:341`).
- `Read` gives an error as soon as the Channel is marked closed (`channel.go:107`),
  with packets still in its buffer.
- `AcceptChannel` goes on waiting when the connection is closed, since nobody closes
  `channelAcceptChan` (`conn.go:189`).
- A reply stays in the table after its answer (`conn.go:146`): its callback is called
  for every later packet with that identifier, one of the peer's own included.
- `Close` never closes the socket (`conn.go:308`): a read loop that waits in
  `ReadMessage` waits until the peer acts, and still handles the packet that comes.

## 5. What is proved

For every value of the constants that satisfies the assumptions of the module: any
finite or infinite sets of clients, children and records, any calls, any events.

- `MasterTyping!TypeCorrect`: `Spec => []TypeOK`. `TypeOK` is not inductive, since
  an action at `kill` reads `info[loc[t].cur]`. `TypeInv` adds that a goroutine at a
  label of `NeedsRecord` has a record in hand and knows where `_stopPlugin` returns
  (`FrameOK`), and that a goroutine that waits for a child has captured a record
  (`CapturedOK`). One lemma per group of actions, one step per action; the restart
  of the master establishes all of it anew.
- `MasterLocking!LockDisciplineHolds`: `Spec => LockDiscipline`, for any number of
  records and removals. Each step of the master is `Lawful`: its goroutine stays
  where it is with respect to locked sections (`Keeps`), enters one of the record it has
  in hand by locking it (`Takes`), or leaves one and unlocks the record it has in hand
  (`Gives`); or it is `StartPlugin`'s second look-up that `Strays`. A lawful step keeps
  `Disciplined` and is not fatal (`LawfulKeeps`). What has to be invariant beside
  `TypeInv` is that a child that has not reached the master has no goroutine serving it
  (`Launched`), or its registration could begin while it held a lock.
- `MasterLocking!DownloadExclusiveHolds`, under `NoRemoval`: `RemoveAll` does not fail.
  Then every record in anybody's hand is the one in the map (`OneRecord`), nobody
  strays (`NeverStrays`), and the discipline itself is invariant: `SafeInv` is both with
  `Launched` and the property. Its lemmas say when a step of one goroutine leaves the
  others' downloads alone; `Decide`, `Download` and `Unzip` move the installer itself, and
  the restart leaves no goroutine anywhere.
- `LockOrder!OrderKeptHolds`: `Spec => []OrderKept`, for any number of plugins,
  shards, goroutines and records, removals included. `OrderKept` speaks of waiting
  goroutines only; the inductive invariant `IInv` says of each goroutine `t`, wherever
  it is, that it `Fits(t)`: no record it has locked is newer than the one in hand, and
  at the labels of `NotInHand` each is older (`RecordsFit`); the record in hand is no
  newer than the one in the map (`HandFits`), which makes what `StartPlugin` or
  `initManifest` finds next newer still; `globalLock` and a shard are held at the labels
  of `InGlobal` and `InShard` only (`MapFits`). `OthersFit` shows once for all actions
  that a step of one goroutine leaves the others fitting; then each action has a lemma
  about its own goroutine.

- `LockOrder!StuckOnlyInExitHolds`, with no hypothesis either. That an order
  excludes a cycle is no induction over the goroutines here. Assume that everyone
  waits elsewhere than behind the automatic exit. Then nobody waits for a shard or for
  `globalLock`, since their holders would be on their way (`OnlyRecords`); every
  goroutine waits for a record, whose holder, by `IInv`, waits for a newer one
  (`HolderWaits`); but of the finitely many numbers of records one is the greatest that
  anybody waits for (`Greatest`, from the well-foundedness of `<`). `Beat` adds to
  `IInv` what the order does not speak of: while `heartbeat` holds a shard it only stops
  plugins, and when the program ends it ends for all.
- `MasterRecords!StopNeverFailsHolds`, under `NoRemoval`. After the kill that
  `WaitStopPlugin` sends, `StopInv` says whom the second ping can reach: the endpoint `WaitStopPlugin` will
  read (`Again`), or has read (`Probed`), belongs to no child or to one whose
  registration waits for the very mutex the installer holds; and a child that serves
  has no registration going on (`Answered`), so this one does not answer. `SafeInv` is
  needed throughout: it says that whoever holds the record in the map is alone. The
  hypothesis is needed too: with `removeAll` among the events and a second record TLC
  finds `StopNeverFails` violated (section 4).
- `MasterRecords!StatusPhasesRefined`, under `NoRemoval` and `NoRestart`: the
  refinement `StatusInPhases`. Every step of the master that is not a restart is
  `Good`: it keeps `StopInv`, and is a step of `StatusPhases` or leaves both its
  variables alone (`Phase`). A restart loads the status from disk anew, in one step from
  any phase, which `StatusPhases` does not have: it describes one life of a master.
- `MasterRecords!ConnectionsExactHolds`, for every finite set of clients, removals and
  restarts included. The invariant `ConnInv` counts with a cardinality, which is why
  the set is finite (`Counted`), and says that only clients proxy (`ClientsProxy`). Most
  actions are instances of `UncountedKept`; those where a request starts or stops
  being counted add or take one element.
- `RpcTyping!TypeCorrect`: `Spec => []RpcState!TypeOK`, which includes that queues stay
  within their capacities and identifiers on their own side. `TypeInv` adds what each
  goroutine has in hand at its label (`Held`) and what can be on its way (`Carried`).
- `RpcDelivery!PanicNeedsCloserHolds`: a panic on a Go channel needs a Channel that
  one of the application's goroutines has closed, by itself or with the connection.
  `CloseInv` says what each goroutine relies on
  (`Orderly`): the read loop, the only other one to close Channels in this way, has
  tested the Channel it marks and marked the one it shuts, and no Channel is shut
  that is not marked (`ShutLast`); a Channel in the map is there under its own identifier
  (`Known`).
- `RpcAnswers!AnswersRoutedHolds`, without any assumption on the peer or on the other
  senders. A number and an identifier that meet in the code, in the hands of a sender
  that reads the counter, in a packet, in the reply table or in a callback, are the
  same or were both drawn by senders that were not alone (`Paired`); `AnswerInv` says
  so of each of these places. `AnswerDraw` is the step that matters: it takes the
  counter away from whoever is between drawing and returning, and makes all of them
  `overlapped`.
- `RpcDelivery!ChannelsAreFifoHolds`: the refinement of `FifoChannel`, for each Channel, with
  any number of goroutines, Channels and packets on their way, and with several
  Channels under one identifier, none of which the run has. `FlowInv` speaks of an
  identifier `i` and a number `n`: the data on its way for `i` follows `n` without a
  hole (`Follows`), and the Channel in the map under `i` has been given `n`, is being given
  it, is closed, or has not been given anything (`Expects`); and what the read loop has
  in hand comes next after what its Channel got last (`NextInHand`), which survives
  that the Channel is replaced in the map meanwhile. With `CloseInv`, each step of
  the connection is then a step of the Channel's `FifoChannel` or a stutter (`FifoNext`).
- `PacketDecoding!RoundTripHolds` and `DecodeExactHolds`: for bytes of any size, the
  code's 256 among them, and methods, data and frames of any length. First what a
  number of two or four bytes is (`Get16`, `Get32`: bytes give a number that gives the
  bytes; `Cut16`, `Cut32`: a number's bytes give the number if it fits, and never a
  greater one), and where the pieces of joined sequences are (`Behind`, `Extend`).
  Of any bytes `Whole` says that the lengths they begin with do not reach past their
  end, and `Parsed` is the packet found there. An encoded packet that fits is whole and
  is what is parsed (`FormatWhole`); whole bytes begin with what they parse to, encoded
  again (`Reformat`); and bytes that begin with any encoded packet are whole, even if
  its lengths were cut (`PrefixWhole`). `CodecInv` says that the buffer holds the
  fields before `at` (`Writing`), that the unmasked frame is the format of the packet
  sent (`Sent`), that `readIdx` and the fields read are those of the bytes
  (`Reading`), and that what has been decoded is what is parsed from the frame, and then
  from the data of the packet in it (`Source`, `Result`). `MaskedTwice` needs no more
  of the exclusive or than the module assumes.

Each inductive invariant was checked with TLC, on the instance of the run its
property belongs to, before it was proved. The hypotheses are about what may happen,
not about sizes: `NoRemoval` and `NoRestart` exclude one event each, and the master
without these events does everything else; the runs that check the same properties
make the same choice. `TypeCorrect`, `LockDisciplineHolds` and `ConnectionsExactHolds`
have no such hypothesis.

Only model-checked: `CallsReturn`, `StartingResolves`, `DeadChildNoticed`,
`OrphansExit` and `EndNoticed`, since liveness under fairness, and ENABLED with it, is
out of the prover's reach. The four properties of section 4 are violated, and have
nothing to prove. Every safety property and both refinements that the other runs check
are proved.

## 6. What is not modelled, and why

- `Channel.Send`, which writes a packet and a serial number nobody reads; `isOpen`,
  which nobody reads; `conn.session` and the handlers, which are the application's.
- Two Channels at once in TLC: the instance is too large. The modules allow them,
  and the proofs about `Rpc` cover them.
- The counter's wrap after 2^32 packets.
- The loop of `pluginCoDeath`, which holds a shard while it starts goroutines and waits
  for none of them.
- A plugin directory that a master's death leaves half unzipped: `disk` is empty or
  whole.
- Several plugins in `Master`; they meet in the locks only, which `MasterLocks` has.
- The origin checks, CORS, URL formatting, flags and paths: pure.
- JSON and protobuf data of packets: the libraries'. The accessors of `BufUtil` that
  nothing in the repository calls; three of them (`WriteInt64`, `WriteUInt64`,
  `WriteUInt`) panic whenever they are called.
- `crypto`, `result`, `file`, per-platform process attributes: no protocol of
  their own.

## 7. Plan

1. Done: the master and its children, with restarts; its locks, for several plugins;
   the connection and its channels; the packet codec.
2. Done: proofs of every safety property of the master, of its locks, of the
   connection and of the codec that a run checks, the two refinements among them.
3. Left: the hazards that PROJECT.json lists without a property. Most of them are the
   departures of section 4 that have no run of their own; the unzip that a crash cuts
   short needs a `disk` with parts.
