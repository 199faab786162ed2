# MinimalRedis in TLA+

TLA+ models of the MinimalRedis server, TLC configurations that check them on
small instances, and TLAPS proofs of what holds for every size.

## The system

A process with one detached thread per client connection (`main.cpp`). Its parts:

| part | source | module |
|---|---|---|
| values: five types in one object, expiry, modification counter | `redis_value.h` | `Keyspace` |
| keyspace: `Database::data`, one method per primitive | `db.h`, `db.cpp` 17-570 | `Keyspace`, `Database` |
| data commands | `commands.cpp` 276-1085, 1180-1277 | `Commands` |
| transactions: MULTI, EXEC, DISCARD, WATCH, UNWATCH, queueing | `commands.cpp` 14-127, 1090-1177, 1280-1311 | `Sessions` |
| publish/subscribe: `PubSubManager`, message queues, notification pipes | `db.cpp` 853-889, `commands.cpp` 1313-1407 | `PubSub` |
| connection loop: registration, `select`, cleanup | `main.cpp` 35-135 | `PubSub` |
| receive buffer and RESP parser | `main.cpp` 75-128, `resp.cpp` | `Connection`, `Resp` |
| RDB persistence, SAVE | `db.cpp` 613-851, `commands.cpp` 363-376 | `Rdb`, `Persistence` |
| save daemon | `save_daemon.cpp` | `SaveDaemon`, `PeriodicSaver` |
| Lua: `redis.call` from a script | `lua_scripting.cpp` 50-90 | `Commands`, `Sessions` |
| Lua: script cache, EVAL, EVALSHA, SCRIPT | `lua_scripting.cpp` 108-198 | not modelled |
| cluster: redirection of SET, GET, DEL, EXISTS | `commands.cpp` 129-144 | `Sessions` |
| cluster: slot table | `cluster.cpp` | `Cluster` |
| cluster: CLUSTER command | `commands.cpp` 1524-1578 | not modelled: prints a constant table |
| INFO | `commands.cpp` 1580-1611 | not modelled: formatting only |
| `DataStore` and friends | `data_store.*`, `interfaces.h`, `optimized_store.h` | not modelled: not part of the build |
| terminal client: connection, commands, responses | `clients/tui/redis_client.*`, `redis_tui.cpp` 68-135, 178-198, 297-329 | `Terminal` |
| terminal client: menus, paging, histories, charts | the rest of `redis_tui.cpp` | not modelled: display only |

All connections share one `Database`. It has no lock; a handler makes one or
several calls to it, and other threads may run between two of them.
`PubSubManager` has a mutex of its own; `client_processors`, the map from
descriptor to processor that PUBLISH uses, has none. The save daemon is a thread
of its own that calls `save_rdb` on the same database, and so does SAVE in a
client's thread. The terminal client is a separate program that talks RESP to one
connection.

## Modules

**`Keyspace`** and **`Database`** have no state of their own: every method of the
class is an operator
on the keyspace `d`, a function from the present keys to records with the fields
of `RedisValue`. A method that changes the data is an operator that yields the
new keyspace (`lpush(d, k, vs)`), one that returns something yields the result,
and one that does both is two operators (`lpop` and `LPopped`). What is kept:
`data[key]` creating a String; payloads of all five types side by side in a
value; lazy removal of expired entries exactly where the code asks
`is_expired()`; the counter; the sorted set's multimap as a sequence ordered by
score, insertion order among equals, next to the member map. Strings are small
naturals (0 is the empty string, the order is `operator<`); scores are integers;
the clock counts milliseconds. `Keyspace` has the values, expiry, the counter and
the writers that `Sessions` interleaves, and is the part the proofs are about;
`Database` extends it with the other methods.

**`Commands`** makes the handlers actions: one connection, each handler from
start to end at one instant of the clock. `last` records the command and its
reply. A reply is a tagged value, not text. A handler that refuses its arguments
changes nothing and is left out, but for HSET, which may refuse after it has
stored some pairs (`MalformedHset`). `redis_pcall_get` and `redis_pcall_set` are
what a script can do to the data.

**`Sessions`** lets several connections interleave. Each is a thread with a
program counter; an action is one Database call, or a step that touches only the
connection's own state. The data commands it has (SET, GET, DEL, EXISTS, LPUSH,
LPOP, SADD, PEXPIRE, and an EVAL whose script sets a key) cover the shapes of
handlers there are: write then count; count only if something changed; count
before the removal; write without a count; read in one call or several; not known to EXEC's dispatch (`CONTROL` stands for MULTI, WATCH, UNWATCH
and the like, queued when sent inside a transaction and refused by EXEC). EXEC
compares the watched keys one at a time, in any order (the order of an
`unordered_map`), and then runs the queue. `Served` is the set of keys whose
slots belong to this node: SET, GET, DEL and EXISTS of another key are redirected
outside a transaction and run inside one, as the code has it. History variables: `writes` counts
the changes of a key that replies acknowledged, `seen` is its value at the
WATCH, `kept` the watched keys neither removed nor written by a script since.

**`PubSub`** has one thread per descriptor, from `accept` to `close`, and the
descriptor can then be taken by the next connection. PUBLISH is cut where it
touches shared state: the copy of the subscribers, each lookup in
`client_processors`, the push, the write to the pipe. If the processor it found
is destroyed in the meantime (`stale`), the calls have no effect or reach the
processor that took its place; these are the outcomes the model gives to that
undefined behaviour. A pipe holds `PipeSize` bytes and `write` blocks when it is
full. So does a write to a client that does not read: a message and a reply are
written in a step (`Delivers`) that is the client's to allow. History: `received`, the count of PUBLISH commands, and `until`, the last
PUBLISH whose message a descriptor may still receive on a channel: none before a
SUBSCRIBE, all of them after it, those begun so far after an UNSUBSCRIBE.

**`SaveDaemon`** has the worker, the owner that calls `start` and `stop`, and
anybody who calls `trigger_save` or `set_interval`. An action lies between two
points where another thread can act: the test of `stop_requested`, taking the
mutex, `wait_for`, the decision, the save, the sleep after a failed one. A
notification reaches a worker that waits and is lost otherwise; `wait_for` may
also return by itself. The server only calls `start`: its call of `stop`
(`main.cpp:209`) comes after an endless loop, and `trigger_save` and `set_interval`
have no caller. The model has the whole public interface of the class. Time is counted in ticks since the last save (`since`) and
to the deadline (`left`). **`PeriodicSaver`** is what such a daemon promises: saves
do not overlap, none begins once a stop was requested, `stop` returns only when
none is running, every save is counted, and, as liveness, saves keep coming and a
stop comes about. `SaveDaemon!Saver` maps one to the other: the phase comes from
the two flags, a save runs while the worker is in `save_function`.

**`Rdb`** is the file format: `save_rdb`'s bytes for each entry (`Record`) and
`load_rdb` with its own control flow over any sequence of bytes (`ReadRecords`),
so that it meets the writer's bytes where the code does. Numbers are little
endian; a double is its eight bytes. **`Persistence`** puts it next to the server:
`save_rdb` opens, writes an entry as its iterator gets there in two steps (expiry,
type, key and size; then the contents), flushes and closes,
for two callers with a stream of their own each, while commands change the data,
also between the two steps. The elements of one container are written in one step.
A stream passes its bytes on in blocks of `FileBuf` and at the end, at its own
offset; the disk has `room` bytes, and a write that fails is noticed by nobody. The
process may die at any step and `main` loads the file. A save that cannot open the
file changes nothing and is left out. History: `held` is what each key held since
the saves in progress began, `mix` whether two of them overlapped, whether one
passed on a part of its bytes early, and whether an entry changed while it was
being written.

**`Resp`** is the parser of `resp.cpp` over sequences of characters (CR and LF are
characters), every function with the position it leaves and the exception it
throws, and the client's encoder. Lengths that wrap around in `size_t` are
negative numbers here; where the code then asks for a string or a vector of that
size the result is a `length_error`, which `handle_client` does not catch. `Wire` and `Boundaries` are the reference it is
checked against. **`Connection`** is the receive loop of one connection: TCP cuts
the stream anywhere, a read takes what fits into the buffer, all complete commands
are handled, the rest is kept or refused. The write of a reply may fail, which
ends the connection, and an exception that is not caught ends the server. What
`process_command` answers is a constant, `Reply`. **`Terminal`** is the client at the other end: it sends a command
on a socket that takes only what fits, waits once for data with a timeout, and
takes one line out of its parser as the response, in three views (command
interface, data browser, monitor). What the parser has left outlives the
connection. A line is a few symbols and its end another, so that a reply can be torn
inside a line; one symbol is the zero byte, at which the client cuts what it
received. History: `sent`, `answers`, `left` (what an earlier connection had left in
the parser), and `short`, `cut` and `drift`, which say what has happened that the
properties make an exception for.

**`Cluster`** is the slot table `main` fills in and the node of a key; `MCSessions`
takes `Served` from it.

The modules whose names begin with `MC` give the constants their values;
`KeyspaceProofs`, `SessionsProofs`, `RoutingProofs`, `PubSubProofs` and
`SaveDaemonProofs` hold the proofs.
Definitions marked `Bug:` are faulty variants of the definition that follows
them, kept to see that the properties notice; nothing else uses them.

## What the runs check

Runs that pass:

| run | properties | shows |
|---|---|---|
| `lists_hashes` | `RangesAgree`, `AcknowledgedChangeCounted`, `RemovedInTime` | index clamping; every change a reply acknowledges raises `mod_count`, also across changes of type; a key leaves only by DEL or when its time is over |
| `sets` | `SetAlgebra`, `AcknowledgedChangeCounted` | SINTER, SDIFF, SUNION agree on missing and mistyped keys; commands count next to scripts that do not |
| `sorted_sets` | `ZSetIndexesAgree`, `RangesAgree`, `RankIsPosition` | both indexes are one set; ZREVRANGE is ZRANGE backwards; ranks are positions where scores differ |
| `sessions` | `TransactionShape`, `WatchSound`, `RoutedOutsideExec`, `CommandsComplete` | a transaction's state is consistent; EXEC's check is sound for keys that stay and that no script wrote; a key of the other node changes only under EXEC or by a command that is not routed; every command is answered |
| `pubsub` | `NoLostWakeup`, `RegisteredIffAlive`, `InOrder`, `OnlyWhileListed`, `Delivered`, `BlockedByStuckReader` | no message is left behind a sleeping thread; messages of a publisher stay in order; UNSUBSCRIBE ends them; a queued message is delivered or its connection ends, unless its thread is blocked or writing for good; a PUBLISH blocked for good waits for a pipe whose reader is blocked in a PUBLISH or in a write to its client |
| `save_daemon` | `WorkerWhileRunning`, `StopReturns`, `ImplementsSaver` | the flags and the worker agree, so `start` never replaces a thread; a lost notification delays a stop or a save and does not lose it; `SaveDaemon` implements `PeriodicSaver`, its liveness (saves keep coming) included |
| `persistence` | `RoundTrip`, `TornFileIsPart`, `NothingInvented` | the record loop reads what was written, for every order of the hash tables; a file cut at any byte reads as a part of it; whatever saves, a full disk and crashes leave, the records hold nothing the keyspace did not hold meanwhile, up to the two exceptions below |
| `terminal` | `ParserIsExact`, `RoomLeft`, `HandledExactly`, `ShownInOrder`, `OwnReply`, `NoCommandStuck` | the parser against its reference; the buffer never fills; the server handles exactly the commands it has read whole; the client shows the server's lines in order, and the reply to the command as long as nothing came late; every command is handled in the end |

`lists_hashes`, `sessions`, `pubsub` and `terminal` check the type invariant of
their module as well.

Runs that end in a counterexample, each against a sentence of the repository:

| run | the code |
|---|---|
| `exec_isolated` | other connections write between two commands of one EXEC (`commands.cpp:1131`) |
| `restart_restores` | `load_rdb` reads a key after SELECTDB, where `save_rdb` wrote none, and is out of step from the first record on: a restart does not bring the data back (`.grok/technical.md:153`) |
| `conflict_seen` | the SET of a script is not counted, so EXEC goes through although a watched key was changed (`commands.cpp:1117`, `.grok/technical.md:16`) |
| `split_command` | a command cut by TCP inside a line or a string is refused and the connection closed; the server waits only when the cut falls between two elements (`main.cpp:103`) |

`RoundTrip`, `TornFileIsPart` and `NothingInvented` start the reader at the first
record, where it would be if SELECTDB were read as it is written; they are about
the rest of the format. `HandledExactly` is about what is handled before a
connection is refused, so it holds although commands cut inside an element are.

Some properties say less than one would like because the code does less; the
models contain the behaviour, no run singles it out:

- `AcknowledgedChangeCounted` leaves out replies 0, nil and errors. SADD of
  members left over from an earlier life as a set changes the type of the key,
  answers 0 and does not count (`commands.cpp:590`); HSET that fails half-way
  keeps what it stored, uncounted (`commands.cpp:756`). SET from a script is not
  counted either (`lua_scripting.cpp:82`), and the property says so. A key that is
  present can therefore have the count 0.
- `RemovedInTime` does not say that an expired entry is never served: LRANGE, LINDEX
  and the readers of sets, hashes and sorted sets do not ask for the expiry.
- `RankIsPosition` is about distinct scores: among equal ones ZRANGE lists the
  order of insertion and ZRANK compares the names (`redis_value.h:40`).
- SET on an expired entry that is still in the map answers OK, keeps the old expiry
  time (`db.cpp:18`), and the next GET removes the key. `README.md:145` and
  `deployment/README.md:174` say that expired keys are cleaned up on access; the
  writers, and the readers just named, do not. No property asks for it either way.
- `WatchSound` is about keys that are neither removed nor written by a script: a key
  deleted and set again by another connection has its old count, and EXEC goes
  through (`commands.cpp:1119`). `ConflictSeen` has no such exceptions and fails.
- The count after a write creates a missing key: LPUSH against DEL leaves an empty
  string nobody wrote (`db.cpp:146`).
- `OnlyWhileListed` counts by descriptor: the cleanup does not unsubscribe, and a
  new connection hears the channels of the one whose descriptor it got
  (`main.cpp:132`).
- `BlockedByStuckReader` leaves the stuck readers themselves: a subscriber that
  publishes more to its own channel in one batch than a pipe holds waits for itself,
  two can wait for each other (`commands.cpp:1392`), and a subscriber that does not
  read its socket stops the publishers of its channels once its pipe is full
  (`main.cpp:69`).
- `InOrder` takes a push and a pop as one step each; the `std::queue` they share has
  no lock.
- A loaded key has its expiry back only if it is a string: `load_rdb` has one for no
  other type, where `.grok/technical.md:152` says "Keys with expiration times
  preserved" without exception. `RoundTrip` compares the expiry of strings and asks
  nothing of the others. An empty list or hash is not stored at all (`Restored`).
- `NothingInvented` leaves two cases out. Two saves at once of a keyspace larger
  than the stream's buffer can mix their bytes. And a command that changes an entry
  between its size and its contents leaves a record whose count is not that of its
  elements, or an expiry before a value that never had it; from there on the reader
  may take data for opcodes and invent entries (`db.cpp:722-727`).
- `ParserIsExact` is about values the parser has a form for. The null bulk string is
  read as an empty one. The null array has no form: its count, like any negative
  one, ends in an exception that `handle_client` does not catch (`resp.cpp:92`), and
  so does an empty line (`resp.cpp:109`).
- `HandledExactly` and `NoCommandStuck` end with a command the client sent in part.
- `ShownInOrder` ends with a zero byte in a reply: `get_response` appends what it
  received as a C string, so the rest of the chunk, later lines included, is lost
  (`redis_client.cpp:87`).
- `OwnReply` ends with the first reply that is late or has more than one line: from
  then on each response shown belongs to an earlier command, also across a
  reconnect (`redis_client.cpp:37`). For the same reason the monitor gets the first
  line of INFO only.
- The data browser finds no key, where `redis_tui.cpp:60` and `clients/README.md:37`
  promise to browse them: `handle_keys` refuses the pattern of `KEYS *`
  (`commands.cpp:349`), and with any other answer the browser would look for a key
  in the line after the one it was given. `Terminal` has this behaviour, so the GETs
  of `redis_tui.cpp` 127-134 are never sent; no property asserts it.
- GET that loses its key between `exists` and `get` answers an empty string.
- PUBLISH may use a processor that its thread has destroyed since the lookup,
  and counts duplicate subscriptions and connections that are gone.

## Bounds

- `MaxMods` bounds `mod_count`, `MaxArgs` the variadic arguments, `Clock` the
  instants. Two counts let a key be created and then changed, to another type
  included (uncounted commands come on top; `sorted_sets` has three); two
  arguments let one command name a member twice; three instants put a command
  before, at and after an expiry. `Index` runs past both ends of every list.
- `MaxRequests` bounds the commands all connections send together. Four are WATCH,
  MULTI, EXEC and a command of either connection that may fall anywhere between,
  before, queued or of the other connection; or MULTI, two commands and EXEC.
  `exec_isolated` has five. `WatchSound`, `TransactionShape` and `RoutedOutsideExec`
  are proved without the bound. `sessions` has one key of this node and one of another.
- Two connections suffice for the races of `Sessions`: a conflict is between the
  connection that watches and one that writes. The proofs lift the bound.
- `pubsub` has two descriptors, each of which may publish, subscribe or be reused,
  two PUBLISH commands and two places in the subscriber list, so that a message
  goes to both connections or twice to one, four deliveries in all, and pipes of
  one byte, so that threads block, by themselves and on each other.
- `save_daemon`: intervals of one to three ticks, so that an interval set while the
  worker waits is shorter, equal or longer; counters of two bits, so that they wrap.
- `persistence`: two keys, starting keyspaces that have every type among them, a string of 64
  characters (the first of the long form), equal scores, an emptied list; a disk
  that is full in the first record, in the second, or not at all; a stream buffer
  that one record exceeds; one command at any point of the saves (`MaxOps`), the
  point between the size of an entry and its contents included.
- `terminal`: three commands over two connections; a command that does not fit the
  server's buffer, a socket buffer that takes one command and a part of the next, a
  reply of two lines, a value with a zero byte. The parser is checked on values of
  every type, the null bulk string included, and on arrays of
  all pairs of them, cut at every character and followed by every other value.
- Deadlock is not checked in `Commands`, `Sessions` and `Terminal`: with the bounds
  used up nothing more happens. Nor in `PubSub`, where blocked publishers really
  stop; `Delivered` and `BlockedByStuckReader` say who may. `SaveDaemon` and
  `Persistence` check it.

## Fairness

`Sessions!FairSpec`: weak fairness of each thread that is inside a command (the
scheduler runs a runnable thread; no handler waits for another). Clients are
free to stay silent. `PubSub!FairSpec`: weak fairness of what a thread does by
itself, and strong fairness of the end of the batch of commands, since a buffer
holds finitely many of them and other steps (the writes of replies) come in
between. That connections arrive, send, leave or read what is written to them is
never assumed: a write to a client may last for ever.
`SaveDaemon!FairSpec`: the worker and a `stop` that was called are scheduled, a save
and the sleep end, time passes and a wait whose time is over returns; nothing is
assumed of `start`, `trigger_save` and spurious wakeups. `Terminal!FairSpec`: the
server reads from a connection that has data, since `select` returns for it; it is
written out with what a read does instead of with `WF`, which means the same and
spares TLC the parser. It includes that the write of a short reply returns, by
success or failure. Nothing is assumed of the user or the client.

## What is proved

`SessionsProofs`, for any connections, keys and sets of commands:

- `TransactionsKeepShape`: `Spec => [](TypeOK /\ TransactionShape)`.
- `WatchIsSound`: `Spec => WatchSound`.

`TransactionShape` alone is not inductive: what a call does to the queue depends
on the command that runs, so `AtCall` ties the program counter to the command.
`WatchSound` rests on `Covered`: for a watched key that has been neither removed nor
written by a script,
`mod_count` has grown since the WATCH by at least the number of acknowledged
changes. Equal counts then mean no change. A write and its count are separate
steps, but the reply comes after the count, so `Covered` holds in between. The
step lemma for a call (`CallInv`) is proved once from what the call does to the
counters, and `KeyspaceProofs` supplies that for each method: it keeps the
keyspace well typed, and only `increment_mod_count` changes a counter, by one.

`RoutingProofs`, for any slot table besides:

- `RoutingIsKept`: `Spec => RoutedOutsideExec`.

Its invariant `Routed` says that a handler at work outside a transaction was not
redirected; a queued command is at work only inside one, which is again
`TransactionShape`. The frame lemmas say that each Database call changes the key of
its command and no other.

`PubSubProofs`, for any descriptors, channels, messages and pipe sizes:

- `RegistrationFollowsLife`: `Spec => []RegisteredIffAlive`.
- `NoWakeupIsLost`: `Spec => []NoLostWakeup`.

The second needs the invariant outside `select` too: a message that waits while
its thread is not draining is announced, by a byte or by a publisher about to
write one (`Announced`). It is disturbed when the receiver goes away between the
push and the write, so the invariant also says that a publisher that is not
marked stale holds the processor of a descriptor in use, and that is where
`RegisteredIffAlive` comes in.

`SaveDaemonProofs`, for any intervals and any range of the counters:

- `WorkerFollowsFlags`: `Spec => []WorkerWhileRunning`.
- `ImplementsSafeSaver`: `Spec => Saver!Safe`, the safety part of the refinement.

`WorkerWhileRunning` is strengthened with where the owner can be while a stop is
under way: `stop` joins only a worker that is there, and a worker leaves its loop
only after `stop_requested`. The refinement uses it for the steps that begin a save
(not after a stop was requested) and that turn the daemon off (no save running).

Assumptions: `StringAssumption` and `ScoreAssumption` (strings are naturals, 0
among them; scores are integers), `SessionsAssumption` and `PubSubAssumption`
(requests are records of an operation, a key and an argument; the bounds are
naturals, the clock starts within its bound and a pipe holds at least a byte).
Nothing is assumed about the number of connections, keys or messages.
`IntervalAssumption` and `CountsAssumption` say that there are intervals, bounded by
`MaxInterval`, and that a counter has a value.

Only model-checked:

- the liveness properties (`CommandsComplete`, `Delivered`, `BlockedByStuckReader`,
  `StopReturns`, `NoCommandStuck`, the liveness part of
  `ImplementsSaver`), which need fairness;
- everything about `Rdb`, `Persistence`, `Resp`, `Connection` and `Terminal`, whose
  readers are recursive over their input and would need induction over it;
- the properties of `Commands`, whose folds over argument lists and sequences need
  induction over data;
- `InOrder`, `OnlyWhileListed` and the full type invariant of `PubSub`, whose lists
  of descriptors pass through `SelectSeq`.

## Not modelled

- Data races inside one Database call: a call is one step. Two threads in the
  same `unordered_map` at once is undefined behaviour whose outcomes have no
  useful abstraction; the races between calls are all there. For the same reason
  `Persistence` leaves out what a rehash does to the iterator of `save_rdb`, a DEL of
  the entry it stands on, and commands between two elements of one container.
- The score NaN, which `stod` accepts (`commands.cpp:921`) and no comparison orders.
  The infinities compare like the largest and smallest scores.
- Signals (SIGPIPE), memory exhaustion, failure of `pipe()` and of `accept`.
- Text: number formats, log output, and the RESP encoding of replies but for their
  division into lines.
- The script cache of a connection (EVAL, EVALSHA, SCRIPT): private to a connection,
  the interpreter is a library.
- The CLUSTER command prints a table that never changes. Its SLOTS gives slot i to
  node i mod n, where `assigned_slots` has {0, 1} and {2, 3}; and `main` makes every
  process call itself `node1`, so a second server would redirect the same keys. A
  model of two nodes would repeat these constants.
- INFO formats counters; `DataStore` and its interfaces are not part of the build.
- `unsubscribe_all`, `save_to_file`, `load_from_file` and the daemon's event
  publisher have no caller.
- The display of the terminal client.
