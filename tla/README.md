# A TLA+ model of broadcast

broadcast is a small TCP server framework in Go: a server accepts connections,
a *protocol* (redis, line or the framework's own interface protocol) reads
commands from them, and *backends* (stats, pubsub, default) register the
handlers of the commands. This directory holds TLA+ modules of the parts that
keep state, TLC configurations that check them on small instances, and proofs
that TLAPS checks for instances of any size. `PROJECT.json` lists components,
runs, mutants, findings, hazards and theorems, and maps every definition to the
lines it models.

## 1. The system

| Component | Source | State | Operations |
|---|---|---|---|
| Server life cycle | `server/server.go`, `main` of `cmd/broadcast-server`, `cmd/broadcast-stats` | `app.clients`, `app.Closed`, `app.Quit`, the listener | `AcceptConnections`, `Close`; the logger, signal and quit goroutines of `main` |
| Client sessions | `RunClient` and `handleData` of the three protocols, `NetworkClient` | per client: the connection, `RequestError`, `Quit` | the read loop, handler goroutines, `NetworkClient.Close`, exit watchers |
| Client counter | `ctx.ClientSize` | an integer | `++` and `--` in the accept loop, the watchers, `Close` |
| Stats: values and counters | `backends/stats` | `mem.values`, `mem.counters`, flush routine | SET, SETNX, GET, INCR, DECR, DEL, KEYS, EXISTS, COUNT, COUNTERS, flush |
| Stats: sets | `backends/stats` | `mem.sets` | SADD, SREM, SCARD, SISMEMBER, SMEMBERS, SDIFF, SINTER, SUNION |
| Pubsub | `backends/pubsub` | `b.topics`, per topic a mutex, `size`, `clients` | SUBSCRIBE, UNSUBSCRIBE, PUBLISH and its delivery goroutines |
| Wire codec | `BufferClient` in `server/client.go`, protocol clients | read and write buffers | `Write*`, `Read*` |
| Go client | `client/go/broadcast` | pool of idle connections | `Do`, `DoAsync`, `Get`, `CloseConnection`, `Close` |
| Default backend | `backends/bdefault` | none | PING, ECHO, INFO, CMDS |
| Tools | `cmd/broadcast-cli`, `cmd/broadcast-benchmark` | the cli: the commands it has learned | terminal and load generator over the Go client |

How they interact. The accept loop hands each connection to two goroutines: one
runs the protocol's `RunClient`, the other (the *watcher*) waits on the client's
`Quit` channel and then deletes the client's entry from `app.clients`. In the
redis and line protocols a command's handler runs in yet another goroutine and
answers on the client's `RequestError` channel, for which `RunClient` waits; in
the interface protocol the loop calls it. Everybody reports events over the
unbuffered `ctx.Events`, which only the logger of `main` reads, and only until
`app.Closed` is set. A signal makes another goroutine call `app.Close`, which
closes every client in `app.clients`, unloads the backends, closes the listener
and closes `app.Quit`. Pubsub reads `app.clients` from handler goroutines.

What is hard, and what correctness means for each part:

- *Sessions and shutdown.* `NetworkClient.Close` is not idempotent, channels are
  closed by one goroutine and used by another, maps are shared without locks and
  an unbuffered channel may lose its reader. Correct means: nothing panics, a
  client is in the map while it lives and not longer, shutdown ends.
- *Counting.* `ClientSize` is updated without synchronisation, three ways.
- *Stats.* Counts must survive any interleaving of commands and flushes; a
  command that takes a lock once per argument must still report what it did;
  replies are written from live data after the lock is released.
- *Pubsub.* A publish must reach the subscribers, and nobody else, although it
  races with joins, leaves, reconnects and a `size` that is not kept exact, and
  must deliver the text that was published.
- *Go client.* A connection that goes back to the pool must be usable by its next
  caller: no reply of an earlier command may be left on it, no other caller may
  have it, and connections that do not fit must be closed.
- *Wire codec.* What one side writes the other must read back, in three formats
  that mix lengths and line ends; a reply that is read short or long shifts every
  later one. A caller that waits must get a reply at all.

`PROJECT.json` lists these hazards one by one with their lines.

## 2. The modules

### BroadcastServer (server life cycle and sessions)

A step of the model is a step of one goroutine between two communications or two
accesses to shared memory. A send on an unbuffered channel and its receive are
one action (`LoggerReceive` is the receiving half of every event).

| Goroutine | Control state | Actions |
|---|---|---|
| accept loop | `acc`, `cur` | `AcceptInfo` (the three start-up events), `AcceptTest`, `AcceptTCP`, `AcceptFails`, `AcceptEvent`, `RegisterClient`, `StartClient` |
| `RunClient` | `runner[c]` | `ReadRequest`, `ReadEOF`, `ReadClosed`, `ReadError`, `InlineHandler`, `RunnerEvent`, `AwaitClosed`, `RunnerClose` |
| handlers | `hrun[c]`, `hsend[c]` | `HandlerReturns`, `HandlerReply`, `HandlerSendPanics` |
| watcher | `watcher[c]` | `WatchExit`, `WatchDelete` |
| `app.Close` | `closer`, `visited`, `ranged` | `Signal`, `CloseEvent`, `SetClosed`, `CloseNext`, `RangeDone`, `UnloadAndCloseListener`, `CloseQuit` |
| rest of `main` | `logger`, `quit` | `LoggerTest`, `QuitExit` |
| peers (external) | `peer`, `addr`, `requests` | `Dial`, `HangUp` |

`proc` records how the process ended: it exited, a goroutine panicked, or the Go
runtime noticed a concurrent use of a map and threw (`MapRace`, a possible
outcome wherever two goroutines are about to use `app.clients` and one of them
writes). A peer's address is free for a new connection as soon as the peer is
gone (`Vacated`): after a reset the kernel gives it away while the server's session
still runs, so server.go:176 may overwrite the entry of an open client. That two
connections whose peers are both there never share an address is an assumption
about the kernel, in the guard of `Dial`; the code does not check it. A range loop over a map that changes meanwhile is modelled as the
language defines it: deleted keys are not produced, added ones may be.

`protocol`, chosen from `Protocols` when the server starts, tells the redis and
line protocols ("spawning") from the interface protocol ("inline"). What a request says is abstracted to the way `handleData`
leaves it: QUIT, an unknown command, a panic of the parser that is recovered, a
value that is not an array, or a command. The handlers of this repository are
assumed not to panic themselves: in a handler goroutine nothing would recover.

### ClientSize

Each `++` and `--` is a load and a store, and `raced` remembers whether an
update overwrote another. The life of a client is that of BroadcastServer
without address reuse; the process is over when the accept loop returns.

### Registry

An abstract specification of `app.clients` as its users see it: a connection is
registered under its address (`Register`), may lose its peer while its session
runs on (`Leave`), is closed by the server (`End`), and is taken out later, by
address (`Unregister`). It is "off", "up", "lost", "ended" or "gone" (`phase`).
`RegistryOK` states what users may rely on: an entry is under its connection's
address and not outdated (`EntriesCurrent`), a connection that is up is found
unless an earlier one with its address has been taken out (`FoundUnlessShadowed`)
and nobody else is found under its address (`EntryIsOwn`), and an address
identifies one connection that is up, with its peer (`AddressesExclusive`). The
last rests on the guard of `Register`, the assumption about the kernel above.

BroadcastServer implements it (`RegistrySpec`, a refinement) and PubSub is built
on it, so the two are composed through their common interface. The mapping:
`clients` is `app.clients`; `phaseBar[c]` is "off" until `RegisterClient`, then "up" while
its peer is there and "lost" when it is not, "ended" once `Quit` is closed, and
"gone" after `WatchDelete`; `addrBar[c]` is the client's address from registration
on.

### StatsCounters and StatsSets

The two halves of the stats backend, which have separate mutexes. In
StatsCounters a locked command is one action. Integers wrap at `Bits` bits as
int64 does at 64. A flush holds the mutex, but COUNTERS does not: it leaves the
mutex with the live map and marshals it field by field. So the writes of a flush
(`FlushCounters`, then `FlushRecord` and `FlushReset` per counter) and the reads
of COUNTERS (`Counters`, `MarshalCounter`, `MarshalRest`, `CountersReply`) are
actions of their own, and `MapRace` is the throw of a runtime that notices.
`FlushRecord` appends the rate to the history and trims it at `MaxHistory`; it is
one step, so a report that shows the new rate with the old history is not
distinguished. The rate is represented by the count from which it is computed.
`Found` translates the loop of KEYS over the texts of a pattern, and `Matches`
is the reference definition it is compared with.

In StatsSets a command is a sequence of locked calls, one per argument, and
others come in between. A result may be a live map (`live`), from which
`WriteLen`, `WriteNext` and `WriteDone` produce the reply. `Inter` translates
the search of SInter, from the smallest set outward.

### PubSub

A command looks its topic up without a lock (`Lookup`), then creates the topic
(`CreateTopic`) or runs its locked section (`Subscribe`, `Unsubscribe`,
`PublishLocks`). Publish holds the topic's mutex over its loop (`PublishNext`)
and deletes the subscribers that are gone (`PublishUnlocks`). `Deliver` is the
goroutine publish starts for each subscriber; it writes a message in two parts.
`Aliased` selects the line protocol, whose arguments are slices of the
publisher's read buffer. Connections come from Registry: `Connect`, `HangUp`,
`Disconnect` and `Forget` are its `Register`, `Leave`, `End` and `Unregister`, and
publish finds subscribers through `clients`, late removals included. A topic holds
addresses: UNSUBSCRIBE takes out the address, whoever subscribed under it. The history variables
`subs`, `replaced`, `missed` and `uninvited` record completed subscriptions,
topics created twice, subscribers that a publish passed over, and connections
that it reached although they had not subscribed and have not inherited the
address of one that had (`Heir`).

### ClientPool

The Go client and its callers: `Client.Do`, `Client.DoAsync`, the benchmark,
which keeps a connection for several commands, and SUBSCRIBE of `broadcast-cli`,
which ignores errors and reads for ever. `Get`, `Put`, `Close` are the
locked operations of the pool; `Connect`, `Write`, `WriteFails`, `Read`,
`ReadFails` are the steps of a `ClientConnection`. The server (external) answers
every command except those sent to be forgotten, which it answers only if it
rejects them; it may hang up at any time and take replies with it. A reply is
named by the command it answers, so that a caller that reads another's reply
shows (`wrong`). `Read` may take only part of a reply, one whose string holds a
line break, and leave the rest to be read next; Conversation has the bytes of it.
Objects that nobody refers to are garbage and may be used
again for a new connection.

### Codec and Conversation

Codec has the writers and readers of `BufferClient` and of the protocol clients
as operators over sequences of symbols: CR, LF, the space, prefixes and digits
are one byte each, any other symbol is one or more bytes without meaning to the
format. A reader returns a value and what is left, an error, or that it needs
more. `ReadSlice` knows the reader's buffer (`BufferSize`), which limits a line.
`Symbols` is what a wire can hold and `MaxLength` bounds the length of a text and
the number of items: the code keeps them in an int, and the assumption is that
the line with such a length fits the buffer (19 digits and 3 more bytes, of 128).
Whatever the code does by recursion or in a loop over data (`Join`, `Split`,
`AppendNat`, `ParseInt64`, `ReadItems`, `ReadInterface`) is a recursive function,
which the provers can reason about.

Conversation composes it: one caller, a Go program or `broadcast-cli`, sends
commands over one connection at a time and the server's loop (`Serve`,
`SessionEnds`) reads them and answers with what the handlers write (`Echo`,
`Keys`, `Count`, and the fixed replies in `HandleData`). A value that is no array
is ignored, and one whose first item is no text ends in an error or a recovered
panic (`CmdOf`, `Panics`): a request whose string holds a line break can leave such
a value behind. `CliArg` gives what is
typed its type; `Start` asks for CMDS unless `-skipcmds` was given, and
`IsCmdAsync` uses the answer. `sent` and `misread` compare what the server read
with what was meant. The calls are those of `Calls`: the commands without
arguments, ECHO with one value or two strings, COUNT rightly and wrongly used.

Definitions commented as *Variant* are deliberate mistakes: PROJECT.json names,
for every property, one that breaks it.

## 3. The runs

| Run | Question | Answer |
|---|---|---|
| `server` | Before shutdown, can a channel be closed twice or sent on after its close, can handlers of one client overlap, can `app.clients` lose a live session or keep a dead one? | No (`PanicOnlyInShutdown`, `HandlersSerialized`, `ClosedClientsReaped`, `SessionsRegistered`), provided that no other connection has the session's address; and `app.clients` implements Registry (`RegistrySpec`) in any case |
| `server_liveness` | Does the process end after a signal, although senders compete for a logger that stops? Is the session of a peer that hangs up reaped, although it may first have to report an event? | Yes (`ShutdownTerminates`), through exit, panic or throw; yes (`HangupReaped`) |
| `client_size` | What makes `ClientSize` wrong? | Overlapping updates, and the clients that `Close` counts out a second time; nothing else (`SizeAccounting`) |
| `stats_counters` | Do flushes and commands lose or repeat counts, is the history the window it should be, what does COUNTERS show while a flush runs, does KEYS find what matches? | No and yes (`CountConserved`, `HistoryWindow`); a value that was reset only together with the rate that shows it (`ResetsAreShown`); yes for patterns with one star and for `*x*` (`PatternKeys`) |
| `stats_sets` | Do the replies of interleaved SADD and SREM add up, does SINTER intersect? | Yes (`MembersAccounted`, `InterCorrect`) |
| `pubsub` | Does publish pass over a subscriber, can `size` hide one, does it reach somebody else, is the text the published one? | Only for a topic created twice (`ReachedUnlessReplaced`); no (`SizeCoversMembers`); only a connection that shares a subscriber's address, or after a topic was created twice (`OnlySubscribersReached`); yes for redis (`DeliveredAsPublished`). `RegistryOK` holds in the composition |
| `client_pool` | Can a connection have two users, can a caller read another's reply or read without a socket, does the pool bound the sockets? | No two users (`Exclusive`); `Do` never reads without a socket (`DoHasNetClient`); another's only after a rejected fire-and-forget command or a reply with a line break that was read in part (`OwnReplies`); yes, but for those that `Client.DoAsync` leaves behind (`SocketsBounded`) |
| `conversation` | Does the server read what the client meant, does each call get its answer and leave the connection clean, does every call return? | Yes for redis, and but for spaces and line breaks in arguments for the others (`ReadAsSent`); yes, unless a line break was sent (`InStep`, `Answered`), where the properties say which answers cannot be read; yes, unless a line break was sent or the cli lacks CMDS (`CallsReturn`) |

The other runs state what a comment or a help text says and show how the code
departs from it; the `findings` quote the lines.

| Run | What happens |
|---|---|
| `double_close` | `app.Close` and `RunClient` both close a client: panic |
| `smembers_frame` | SMEMBERS announces one length and writes another number of elements |
| `lost_subscription` | two first subscriptions to a topic: one of them is lost |
| `aliased_message` | line protocol: a late delivery shows the publisher's next command |

The models show more departures, which have no run of their own:

- The watcher deletes `app.clients[client.Address()]` whichever client is stored
  there (server.go:181), and registration overwrites whoever is there (server.go:176),
  so sessions that share an address may lose their entries, and then `app.Close`
  does not close them. `SessionsRegistered` says that there is no other way to lose
  one.
- `app.clients` is used by several goroutines without a lock, so the runtime may
  throw at any time (`MapRace`); `PanicOnlyInShutdown` is about channels only.
- `Close` sets `app.Closed` first (server.go:135), so the accept loop, and with
  it `main`, may return before the clients are closed and the backends unloaded.
- `ClientSize++` and `--` that overlap lose an update; `SizeAccounting` says that
  nothing else does before shutdown.
- DECR of a missing key stores -n and answers n (memorybackend.go:115), so that
  DECR and a following GET disagree (`DecrBy`).
- KEYS without a pattern fills the first entry of its result only (`KeysAll`). The
  other entries are empty strings, which the client cannot read: with two keys or
  more the call fails (`Answer`).
- KEYS a*b lists keys in which b is not last, and KEYS a*b*c compares c with the
  text that begins with b, so it misses matches (`Found`).
- An empty string cannot be read back (client.go:354 asks for two bytes): ECHO
  without arguments, or of "" in redis, fails and costs the connection.
- A string ends at a line break (client.go:137-142 write no length, although the
  comment above says so): the rest of it is taken for the next reply, or in the
  line protocol for the next command. If the rest begins like an array the reader
  waits for its items: after ECHO of a text with a line break and `*2` the next call
  does not return, and in the interface protocol it is the server that waits.
- A string, or a request of the line protocol, of more than 128 bytes with its
  ends cannot be read (`ReadSlice`).
- In the interface protocol the handlers of stats and pubsub, which expect
  `[][]byte`, see no arguments (`Count`).
- `broadcast-cli -skipcmds` waits for the reply of COUNT, which has none, for ever
  (`CallsReturn` excludes it). It also types what it is given: an argument t is
  sent as `true` (`CliArg`).
- INCR wraps around at the ends of int64 (`IncrBy`).
- A topic holds addresses, so a connection that reuses the address of an earlier
  subscriber gets its messages (`OnlySubscribersReached` says that nobody else
  does), and a session whose peer is gone can end its subscription, by address
  (`Unsubscribe`); and a late watcher may hide a live connection with its address
  (`FoundUnlessShadowed`).
- `Client.DoAsync` takes a connection and never puts it back (client.go:53-57),
  so each call leaves a socket open (`Drop`).
- A fire-and-forget command that the server rejects is answered nevertheless.
  The answer stays on the connection and is read by the next caller as its own.
- After a failed `Read` the connection has no netClient, and the benchmark's
  pipeline and the CLI's SUBSCRIBE loop call `Read` again: panic (`ReadPanics`).
- Delivery goroutines write to a subscriber's buffer without a lock, and the
  parts of two messages may interleave (`Deliver`).

### Bounds

| Run | Instance | Why it is enough |
|---|---|---|
| server (safety) | 2 connections, 2 addresses, 2 requests, both kinds of protocol | two sessions meet in every pair of control states, with the same address (one after the other, or while the first session has lost its peer) or with two addresses; the two requests allow a second one after the first has been answered, and one on each session |
| server (liveness) | 2 connections, 1 address, 1 request, handlers in goroutines (which wait for more than inline ones), no symmetry | two sessions, the accept loop and `Close` compete for the logger; address reuse is forced |
| ClientSize | 3 clients | three updates overlap: accept loop, watcher, `Close` |
| StatsCounters | the keys aa and aba, 5 patterns, amounts 1 and 3, 3 bits, history 2, 6 steps | two commands overflow an integer; a count and three flushes overflow the history; a flush, a DEL and a new COUNT fall into one COUNTERS; texts of a pattern overlap in a key |
| StatsSets | 2 connections, 2 keys, 3 members, 2 arguments, 4 commands | two multi-argument commands interleave on sets that two others have filled |
| PubSub | 3 connections, 2 addresses, 1 topic, 3 commands | two subscribers and a publisher, or one that subscribes, leaves and is published to; an address used twice, also by two open sessions |
| Conversation | 2 calls, 3 protocols, cli and program, 7 typed texts and 14 values (empty, with spaces, CR, LF, too long, each type; line breaks followed by a string, an empty array or the header of an array), 2 keys, a buffer of 10, texts of up to 20 | the second call meets whatever the first left on the connection; lines of 10 symbols fit and of 11 do not |
| ClientPool | 2 callers, 3 connections, 1 idle, batches of 2, 4 commands | both callers hold a connection while the pool is full or empty; a failed batch is followed by another user of the same connection |

`MaxRequests`, `MaxBatch`, `MaxOps`, `MaxCmds`, `MaxCalls`, `MaxKeys` and `MaxArgs`
bound the input, and `MaxHistory`, `Bits`, `BufferSize` and `MaxIdle` are
parameters of the code (100, 64, 128, and 1 by default).
Deadlock is checked in the server runs (the process's end is the action
`Terminated`). In the others the input bound stops the run.

### Fairness

`FairSpec` gives weak fairness to each goroutine that can take a step by itself,
which is what the Go scheduler gives. A send on `ctx.Events` gets strong
fairness: the runtime queues blocked senders first in, first out, so a sender is
served if the logger goes on receiving. A handler is sure to return only once
its peer is gone, as it may block writing to a peer that does not read. Peers,
signals and `AcceptTCP` have no fairness.

In Conversation the caller's read and each session's loop have weak fairness:
they are goroutines that go on while there is something to read. The caller need
not ask.

## 4. The proofs

| Theorem | Module | Statement |
|---|---|---|
| `TypeCorrect` | BroadcastServerProofs | `Spec => []TypeOK` |
| `NoPanicBeforeShutdown` | BroadcastServerProofs | `Spec => []PanicOnlyInShutdown` |
| `RequestsSerialized` | BroadcastServerProofs | `Spec => []HandlersSerialized` |
| `DeadEntriesWatched` | BroadcastServerProofs | `Spec => []ClosedClientsReaped` |
| `LiveSessionsRegistered` | BroadcastServerProofs | `Spec => []SessionsRegistered` |
| `SizeAccounted` | ClientSizeProofs | `Spec => []SizeAccounting` |
| `SizeNeverShort`, `TypeCorrect` | PubSubProofs | `Spec => []SizeCoversMembers`, `Spec => []TypeOK` |
| `RegistryUsed` | PubSubProofs | `Spec => []RegistryOK` |
| `RedisDelivery` | PubSubProofs | `Spec => []DeliveredAsPublished` if not `Aliased` |
| `PublishReaches`, `StrangersExplained` | PubSubProofs | `Spec => []ReachedUnlessReplaced`, `Spec => []OnlySubscribersReached` |
| `RegistryCorrect` | RegistryProofs | `RegSpec => []RegistryOK` |
| `ServerImplementsRegistry` | BroadcastServerProofs | `Spec => RegistrySpec` |
| `TypeCorrect`, `ConnectionsExclusive` | ClientPoolProofs | `Spec => []TypeOK`, `Spec => []Exclusive` |
| `RepliesAreOwn`, `DoNeverPanics` | ClientPoolProofs | `Spec => []OwnReplies`, `Spec => []DoHasNetClient` |
| `SocketsStayBounded` | ClientPoolProofs | `Spec => []SocketsBounded` |
| `TypeCorrect`, `AnswersAddUp` | StatsSetsProofs | `Spec => []TypeOK`, `Spec => []MembersAccounted` |
| `SInterIntersects` | StatsSetsProofs | `Spec => []InterCorrect` |
| `TypeCorrect`, `CountsConserved` | StatsCountersProofs | `Spec => []TypeOK`, `Spec => []CountConserved` |
| `HistoryIsWindow`, `ResetsShown` | StatsCountersProofs | `Spec => []HistoryWindow`, `Spec => []ResetsAreShown` |
| `PatternsFound` | StatsCountersProofs | `Spec => []PatternKeys` |
| `BulkRoundTrip` | ConversationProofs | `ReadBulkPayload(WriteBulk(data) \o t) = Ok(data as bytes, t)` |
| `ArrayRoundTrip` | ConversationProofs | `ReadInterface(WriteArray(args) \o t)` is `Ok(args as received, t)` if each can be received, else `Err` |
| `RequestRoundTrip`, `ReplyRoundTrip` | ConversationProofs | what the server reads of a request, what the client reads of its reply |
| `TypeCorrect` | ConversationProofs | `Spec => []TypeOK` |
| `RequestsReadAsSent` | ConversationProofs | `Spec => []ReadAsSent` |
| `PoolInStep`, `CallsAnswered` | ConversationProofs | `Spec => []InStep`, `Spec => []Answered` |

They hold for all constants that satisfy the ASSUMEs of the modules: `None`,
`Absent` and `Empty` are none of the values they stand in for, the bounds are
naturals, keys and patterns are sequences, and (ClientSize) the set of clients is
finite. Those of Codec and Conversation: the symbols of the format, of the
commands and of the handlers are among `Symbols`, what is typed at the prompt is
one line, arguments are `Scalar`, none of them is longer than `MaxLength`, and the
line of a length fits the buffer. Nothing is assumed of what the texts hold:
line ends, prefixes and digits may be anywhere in them. `Conn`, `Addr`, `Topic`, `Key` and `Member` may be infinite.
`WidthAssumption` of StatsCounters is arithmetic rather than an assumption about
the code: `2^Bits` is twice `2^(Bits-1)`, and that is positive. The provers have
no rules for exponents.

*No panic before shutdown.* The process panics if a client is closed twice or a
handler sends after the close. `SessionInv` says why neither happens while
`app.Closed` is false: the client's channels are closed exactly when its
`RunClient` is done (`ExitInv`), and a handler goroutine exists exactly while
`RunClient` waits (`HandlersSerialized`), so that it has none when it closes.
`CurInv` and `AcceptedInv` are needed for the step that starts a session, which
must find `runner[cur]` off, and `ClosedInv` ties the flag to the control state
of `Close`, the only other closer.

*The registry.* `RegistryInv` adds that an entry is under its client's own
address and lives from registration to deletion (`EntryInv`), that a watcher
exists once the session does and deletes only after the exit (`WatchInv`), and
that a client whose address nobody shared is present from registration on
(`PresentInv`). The two theorems follow; neither needs `SessionInv`, so the
registry is right in this sense during shutdown, too.

*The refinement.* `ServerImplementsRegistry` shows that each action of the server
is a step of Registry or leaves its state alone. `RegisterClient` is `Register`,
`HangUp` of a registered client is `Leave`, the first close of a client is `End`,
`WatchDelete` is `Unregister`, and a second close changes nothing that Registry
sees (it panics). The invariant it needs beyond `RegistryInv` is `ClosedTogether`: a
client that has been accepted has a closed socket only if its `Quit` is closed, too;
of two connections with the same address one is closed or has lost its peer, and if
one of them is being registered it is the other, unless that still waits in the
backlog. That is the guard of `Register`, which Registry states of phases.

*The registry's promises.* `RegistryOK` is inductive for Registry, and PubSub's
actions are steps of Registry or leave its variables alone, so that
`RegistryUsed` follows from the same step lemma.

*Delivery.* Without aliasing a goroutine writes the message it was started with,
so `DeliveredAsPublished` is inductive given the types.

*Who is reached.* `DeliveryInv` adds to `SizeInv` that the objects and messages
a command names are its own (`NamesInv`), that the TopicChannel a command found
is still its topic's unless the topic was replaced (`FoundInv`), that a publish in
its loop has the topic's lock (`LockInv`), that whoever is subscribed and in
`app.clients` is among the topic's clients, while every address there is of
someone who subscribed (`SubsInv`), and for each publish under way that whoever it
owes a message is still to be visited or has a delivery (`LoopInv`). Publish
deletes addresses that it found gone, all at its end; `LoopInv` says that none of
them belongs to a subscriber that can be found, because nobody subscribes while
it has the lock and `RegistryOK` lets nobody else be found under the address of a
connection that is up. A stranger that is found under a member's address has
inherited it from someone who subscribed (`StrangerIsHeir`). All
of this is said of topics outside `replaced`: `CreateTopic` of a topic that has
been created meanwhile is the one step that breaks it.

*The pool.* `PoolInv` is `Exclusive` with what it rests on. A step of a caller
changes only the connection it holds, so `HolderStep` proves once what the others
keep, and each action adds what it does to its own. `OwnReplies` needs
`CallerInv`: on a session without a stray reply or the rest of one, what a caller can read is what
it is owed, in order and from the first; and `ConnInv`: a pooled connection has
nothing left to read. `Accounted` bounds the commands sent by the cardinality of
the set of those still to send, which the type of the history needs.
`SocketsBounded` compares cardinalities: an open socket is of the pool, of a busy
caller or leaked (`OpenInv`), and `Held` has no more elements than `Busy`.

*Sets.* `SetsInv` adds to `MembersAccounted` that all sets are finite
(`FiniteInv`) and that a command has added up no more than it has arguments
(`CountInv`). What the commands under way have added up is the cardinality of
`Pending`, which has an element for each unit: a step of SADD or SREM adds one,
and the answer takes out those of one connection. `InterCorrect` needs that the
loop over the sets finds a smallest one: the least element of a set of naturals
is taken from the well-foundedness of `<` (the library's `WFMin`), which needs no
induction with an operator as parameter.

*Values and counters.* `StatsInv` has four parts beside the types. `CountInv`: a
counter's value and what flushes took out of it differ from what COUNT put in by
a multiple of `2^Bits`, where the counter that a flush has recorded and not reset
counts as empty. So `FlushRecord` moves the value from one side to the other and
`FlushReset` changes nothing. `BalanceKept` is the step of COUNT, over integers
of any width; `WrapSame` turns the multiple into equality of int64 values.
`WindowInv` is `HistoryWindow` entry by entry, which `RecordIs` carries over a
flush with and without trimming; `WindowIs` turns it back into `IsSuffix`.
`ReportInv`: the counter COUNTERS is in the middle of exists, and was reset no
more often than flushed. DEL, which removes it, settles what is left to read.
`FlushInv`: a flush visits counters that exist, and the one it is at has a
recorded count. For `PatternKeys` the lemmas `OneStar` and `TwoStars` compare the
loop with the meaning of a pattern, for texts and keys of any length.

*The counter.* `SizeAccounting` is inductive together with `TypeOK` and
`CountInv`. The key lemma `StoreExact` says that a store that did not race adds
its amount to the current value; each of the three stores changes the
cardinality of one set by one.

*Publish's size test.* `SizeInv` strengthens `SizeCoversMembers` with the types,
with the fact that a running command belongs to a registered connection
(`CommandInv`), and with the finiteness of the sets of subscribers, without
which cardinalities say nothing. That `size` never becomes negative is part of
`TypeOK` and follows from the same argument: an unsubscribe decrements only
after it found a member, so there was at least one.

*The wire format.* The proofs about Codec are inductions over data. The library's
induction theorems take an operator as a parameter, so `Strong` and `Induct` state
induction over a range of naturals as a fact about a *set* of them, from the
well-foundedness of `<`, and `Recursion` shows in the same way that a function
defined step by step exists. From these come what each recursive function
computes: `AppendNat` and `ParseInt64` are inverse, `FlattenSeq`, `Join` and
`Split` go item by item, and `ReadItems` reads n items. Each writer then gets a
lemma that says what `ReadValue` makes of its output followed by any text t,
whatever reads nested values. `BulkRoundTrip` and `ArrayRoundTrip` put them
together for lists of any length: a reader stops exactly where the writer did, so
t is left. `RequestRoundTrip` and `ReplyRoundTrip` say it of the requests and
replies of the three protocols.

*The conversation.* `Conv` is the inductive invariant. Its parts, over `TypeOK`: a
connection that has not been used is clean (`Unused`); a session has at most one
request to read, complete (`Queued`); a caller that waits has its request under
way, or answered and the answer complete on the wire, or given up by a session that
could not read it (`Stage`); between calls a connection is idle (`Between`); the
last call is remembered with its texts (`Asking`). They speak of connections on
which no text with a line break was sent (`Unbroken`), where each request and
reply is read exactly, so that the four steps of a call hand one message on and
the next call meets an idle connection. `InOrder` is the part of redis, which
needs no such condition: what a session has to read is the concatenation of the
requests sent and not read yet, in order, and `RedisRequest` takes off the first.
`Answered`, `InStep` and `ReadAsSent` follow. They are not inductive by
themselves: that a reply is the right one depends on what was on the connection
before the request was written.

Model-checked only: the liveness properties `ShutdownTerminates`, `HangupReaped`
and `CallsReturn`, as fairness is out of the prover's reach. Every invariant of a
passing run, and the refinement, is a theorem. The strengthenings above were
checked by TLC as invariants before they were proved (the quotient in `Multiple`
over a bounded range).

## 5. Not modelled, and what is left

What would say more than the present theorems: that each stats command takes
effect at one moment (an abstract map that StatsSets and StatsCounters implement),
that an idle pool is an abstract set of connections, and liveness, with a prover
that has fairness.

Not modelled:

- the graph backend, an external package that `main` only registers;
- of `broadcast-cli`, help, completion, the printing of replies and the vendored
  line editor, and of `broadcast-benchmark`, arguments and timings: terminal input
  and output;
- configuration and build files, which are read before the server starts;
- two deliveries that write to one subscriber's buffer at once: `Deliver` writes
  in two parts that may interleave, and no property says that they do not,
  because they do;
- the formatting of events, and of floats beyond one decimal: other notations that
  strconv takes for a float (a sign, an exponent, Inf, more decimals) are not
  accepted as floats here, and no handler sends one;
- what `Write*` and `Read*` do when the network fails, which appears as a failed read
  or write in BroadcastServer and ClientPool.
