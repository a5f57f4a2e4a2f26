# A TLA+ model of v3-node

v3-node joins the BNB Smart Chain peer-to-peer network through reth, keeps a
directory of the peers it is connected to, and scans gossiped transactions for
calls of watched Uniswap-V3-style pools. This directory holds TLA+ modules that
model the program, TLC configurations that check them on small instances, and
theorems checked by TLAPS. Line numbers refer to the Rust files under `src/`.

## 1. Inventory

| Part | State | Operations | Where it is hard |
|---|---|---|---|
| `PeerManager`, `PeerManagerHandle` (`network/manager.rs`) | `peers` (a `HashMap`), `rr_index`, the command channel (128), the `ManagerEvent` broadcast (256), the locals of `do_fetch_receipts` across its awaits | `connected_peers`, `fetch_receipts`, `fetch_receipts_from`; the network events; the loop of `run` | one task serves a command to its end, awaiting a remote peer without a timeout, while sessions die and open and events pile up; a peer is evicted by two independent paths; an `unwrap` on the evicted entry; a cursor over a map that changes size and order |
| `Peer` (`network/peer.rs`) | the sender of one session | `fetch_receipts` | `try_send` does not tell a full channel from a closed one |
| reth (external) | sessions, their channels, the event stream | open, die, report, answer | a session's channel closes before its end is reported; the event stream overruns |
| `Node` (`node/node.rs`) | the two receivers, spawned tasks | `start`, `handle_peer_event`, `handle_tx_event` | it subscribes after the manager runs; one task per event, so they overtake each other; the manager may be gone |
| decoder (`pool/decoder.rs`) | none | `decode_pool_calldata` | byte offsets |
| schema and start-up (`db/schema.rs`, `main.rs`) | the SQLite file | `run_migrations`, `main` | statements commit one by one; crashes, errors, two processes |
| handshake, upgrade codec (`network/handshake.rs`, `upgrade.rs`) | the stream of one connection | `handshake`, `upgrade_status`, `encode`, `decode` | two phases under one timeout; a message that is not flushed; two ends, on two implementations, that must agree |
| chain specification (`network/chainspec.rs`) | the list of hard forks, a fixed head | `bsc_mainnet`, `head` | both decide which peers' fork ids are compatible, at any point of the chain |
| row models (`db/models.rs`) | the rows of two tables | the constructors, `LiquidityChangeKind` | casts between signs and text; rows told apart by two columns; nothing calls them yet |
| configuration, errors | constants | `load_pools` | file reading |
| `sync/*`, `pool/events.rs`, `state.rs`, `math.rs`, `db/queries.rs` | | | empty files |

How they interact: `main` loads the pools, migrates the database, starts reth,
creates the manager (which subscribes to reth's events only then), spawns
`PeerManager::run` and awaits `Node::start`. reth runs `BscHandshake` on every
connection with the chain specification's forks; what it establishes is a
session. reth sends `NetworkEvent`s to the
manager and transaction events to the node. The manager sends `PeerRequest`s
into a session's channel and awaits a oneshot. The node, and any other holder
of a handle, sends commands to the manager and awaits a oneshot; the manager
broadcasts `ManagerEvent`s to the node.

What makes each part correct:
- manager: it never removes a peer that is not there or whose session lives;
  its map is what the network's events say; every call returns; an untargeted
  fetch gives up only after everybody was tried, and takes peers in turn;
- node: it is told of every change since it subscribed or is warned; the counts
  it prints are no older than their lines; its handlers end; it reports the
  calls of watched pools with their arguments;
- handshake: neither end waits for the other until a timer fires; it establishes a
  session on both ends or on none; it refuses no peer on the same chain;
- rows: every log is stored once and reads back to what it was;
- start-up: the network runs only on a full schema, and a partial one can
  always be completed.

`PROJECT.json` lists the hazards by line with the properties that cover them.

## 2. Modules

| Module | Models |
|---|---|
| `Broadcast` | tokio's bounded broadcast, seen by one receiver: a send to a full buffer overwrites the oldest value |
| `Sessions` | the environment: reth's sessions, request channels and event stream, as `src/network` uses them |
| `PeerManager` | the actor of `manager.rs` with `Peer::fetch_receipts`, on top of `Sessions` |
| `PeerDirectory` | abstract: what the manager promises its callers and subscriber. `PeerManager` implements it (`ImplementsDirectory`) |
| `DispatchOrder` | `PeerManager` with history variables that watch which peers a fetch visits and whose turn it is |
| `DataProofs` | lemmas about data, shared by the proofs: `Push` and what a queue says of a peer, positions, folds, sums over sets, recursive functions on the naturals |
| `PeerManagerProofs` | theorems about `PeerManager`: its types, the evictions, what is removed |
| `DirectoryProofs` | theorems about the map and the network it follows, and that `PeerManager` implements `PeerDirectory` |
| `DispatchOrderProofs` | the theorems about `DispatchOrder` |
| `Decoder` | `decode_pool_calldata` and the ABI layout it should follow |
| `Node` | `node.rs` on top of `PeerDirectory`, in place of the manager, and of `Decoder` |
| `NodeProofs` | the theorems about `Node` |
| `Startup` | `main.rs`, `schema.rs`, and the steps `load_pools` and `start_network` |
| `StartupProofs` | the theorems about `Startup` |
| `UpgradeCodec` | `upgrade.rs`: the upgrade message as bytes |
| `ForkSchedule` | the hard forks and the head of `chainspec.rs`, and what reth computes from them |
| `Handshake` | `handshake.rs` between two ends, on top of `UpgradeCodec` and `ForkSchedule` |
| `HandshakeProofs` | the theorems about `Handshake`, the frames of `UpgradeCodec` and the fork ids of `ForkSchedule` |
| `Rows` | `models.rs` and the constraints of the tables of `schema.rs` |
| `RowsProofs` | the theorems about `Rows` |
| `MCPeerManager`, `MCDispatchOrder`, `MCNode`, `MCHandshake`, `MCRows` | instances for TLC |

### PeerManager and the code

`peers[p]` is the session whose sender the map holds for `p` (`NoSession`: not
in the map). `order` is the order in which the `HashMap` iterates; inserting a
new key may choose any order, removing one keeps the others', overwriting keeps
it. `pc` is where the actor is: `select` in `run`; `asking` at the head of the
loop of `do_fetch_receipts` (one iteration up to its `try_send` is a step);
`waiting` at `rx.await`; `evicting` in the loops of lines 319 and 340;
`stopped` after `run`. `attempt`, `to_evict` and `cur` are its locals;
`last_err` is what the command will be answered. A command that asks no peer is
one step: nothing in it awaits. `peer_ids` of the code needs no copy, because
`order` does not change between the loop's first step and its last; that is an
argument about this very actor, and `EvictsOnlyMembers` would fail if it were
wrong (the removal's guard `p \in Connected` is the `unwrap` of line 260).

The three branches of `Peer::fetch_receipts` differ in message layout only.
Receipts are represented by the peer that sent them; how many a peer returns is
not looked at by the code and not modelled. `NewBlock` is never sent.

### Assumptions about reth (`Sessions`)

A peer has one session at a time; its task ends before the network reports it
closed; `PeerRemoved` follows a `SessionClosed`; the request channel closes
with the task, and the requests in it are dropped or failed. Session numbers
are a device to tell old senders from new ones.

The event stream is a bounded broadcast. `start_network` spawns the network
(manager.rs:387) before `PeerManager::new` subscribes to it (manager.rs:175):
what is sent until the action `Subscribe` goes to nobody, and later an overrun
overwrites the oldest value, which `EventStream` does not report. Two history
variables keep account of that: `lagged` are the peers of which any event was
lost, `lost` those of which the newest one was, with none left to read. The map
can be wrong about a peer of `lost` for good; a later event about it takes it
out of `lost` and repairs the map.

### Node and the code

The manager is `PeerDirectory`: `Changes`, `Answers(t)` and `ManagerStops` are
its `Join`/`Leave`, `Finish` and `Halt`, all of them. A peer that is in the map
may be announced as connected again (manager.rs:255 overwrites its entry), which
`OverwriteOnlyAfterLag` shows to happen after a lost event. Each spawned task is
a caller of the directory. `ManagerIsDirectory` proves that the real manager does
nothing that `PeerDirectory` does not, so the safety that `Node` has with the
directory around it is not lost with the manager in its place. That step from two
modules to the whole is an argument, not a theorem.

`missed` is the count that the next `recv` returns as `Lagged`.
After `Closed` the loop goes on (line 140 is a comment); after the channel of
transactions closed it spins, which changes no state and is no action.
An address is an opaque name with a spelling; `to_string` gives the checksum
form, which is the lower-case form for addresses without letters (`Caseless`).

An announcement carries, as history, how many changes of its peer had happened
when it was sent (`nth`); `changes[p]` counts them all. Only the guard of
`Changes` bounds them (`MaxChanges`), and `missed` is bounded by nothing:
`TypeOK` calls both naturals.

### Startup and the code

A statement of `MIGRATIONS` is what it creates and the table it needs. Each
commits by itself. `StatementFails` is any error of SQLite, `Dies` a failure
of `load_pools`, `Connection::open` or `start_network`, or a kill.

### Handshake and the code

Two ends of one connection; an end of `Nodes` runs v3-node, another runs geth.
`phase[e]` is where the future of `handshake` is: `greet` and `status` are the
two halves of reth's eth handshake (external: send the status, check the
peer's), `upgrade` is line 35, `reply` the `next().await` of line 38, `done`
after the future returned. `AfterStatus` is the version guard of line 28.
`start_send_unpin` puts the message in `sink`, and `Flush` is free to happen
whenever the stream flushes, after `done` as well; `Timeout` is line 88 and may
fire in every phase. An end that fails takes the connection down; `Cut` is the
network doing so. A message that is on its way when the connection goes down is
still read, as from a socket's buffer.

`UpgradeCodec` works on bytes: RLP writes the id 11 as itself, `false` as 128,
the extension as a list header 193 and the boolean. geth (external) puts the
extension in a list of its own, header 194: the byte that `decode` skips. geth
accepts any upgrade message with the right id. On a message that is the id alone
`advance(1)` has nothing to skip and panics (`Panicked`), which ends the handshake
and drops the connection. Neither program writes such a message: `TypeOK` leaves
the result `panicked` out, and `HandshakeTypeCorrect` proves it. The model has no
peers but v3-node and geth.

`ForkSchedule` holds the two lists of `bsc_mainnet` in their order and the head
of line 170. Of reth: `fork_id` folds the forks up to the first one ahead of
the head (EIP-2124: hash and next fork), `Accepts` is the three rules of the
fork filter. A hash is the sequence of forks folded in, so hashes are equal
exactly when the checksums were computed over the same forks. A geth knows the
same forks, or one later one, and is at any head of `Heads`. `HandshakeAssumption`
says what later means: `LaterFork` is a time after all those of the list, and a
chain that has come to it has come through the forks by block number.

### Rows and the code

`SwapRow` and `LiquidityChangeRow` are the constructors, field by field: `as`
is two's complement at the width of the column, amounts are digit sequences
without padding, addresses and hashes opaque text. `InsertSwap` and
`InsertLiquidityChange` stand for the INSERTs that nothing in `src/` executes
yet, with the tables' `UNIQUE` and `CHECK`; `Deliver` brings any log of `Logs`,
in any order and again, of which a position of a transaction has one
(`Emitted`). `Uncast`, `FromHex` and `FromStr` are what a reader of the columns
has to do. Widths and base are constants, scaled down for TLC. `RowsAssumption`
gives the logs the types of the constructors' parameters, which is what makes
`as` lossless: `u64` and `u32` are the naturals below 2 to the width; an amount
is any number, since its digits are stored whole.

## 3. Runs

| Run | Instance | Shows |
|---|---|---|
| `manager_safety` | 2 peers, 3 sessions, 1 caller, event stream of 2, other channels 1 | `TypeOK`, `EvictsOnlyMembers`, `OnlyDeadRemoved`, `DirectoryAccurate`, `OverwriteOnlyAfterLag`, `ImplementsDirectory` |
| `manager_liveness` | 2 peers, 2 sessions, 1 caller | `EveryCallReturns`, `DirectoryConverges` |
| `manager_queue` | 1 peer, 2 sessions, 2 callers on a command channel of 1 | `EveryCallReturns`, `ImplementsDirectory` |
| `dispatch_order` | 3 peers, 3 sessions, untargeted calls, manager running | `FallbackExhaustive`, `RoundRobinWhileStable` |
| `round_robin` | the same | `RoundRobin` is violated |
| `node_loop` | 2 peers, 3 changes, feed of 2, 2 handlers, 1 transaction event | `TypeOK`, `ToldOfEveryChange`, `CountsAreNoOlder`, `HandlersEnd`, `RequestsAnswered` |
| `pools_reported` | `pools.json` as shipped | `PoolsReported` is violated |
| `swap_decoded` | pools spelled with their checksum, 8 swaps | `SwapDecoded` is violated |
| `startup` | 2 processes, 3 faults | `TypeOK`, `SchemaIsPrefix`, `FullSchemaBeforeNetwork`, `StartsInTheEnd` |
| `handshake` | a v3-node and a geth, eth/66 to eth/68, 37 heads, with or without a later fork | `TypeOK`, `EstablishedIsMutual`, `NoForeignerEstablished`, `RefusesOnlyByStatus`, `RefusesOnlyForeigners`, `NobodyWaitsForever` |
| `handshake_self` | two v3-nodes | `AgreesWithItself` is violated |
| `rows` | 18 possible logs on 6 positions, 4-bit columns | `TypeOK`, `StoredOnce`, `NetLiquidity` |

Bounds. Three sessions over two peers let a peer reconnect while the other's
session dies, so old events and old senders meet new sessions. An event stream
of two overruns with two unread events, and also holds a close and a removal of
one peer together. One slot in the channels makes them full at every use. One
caller suffices for the properties of a single fetch because commands are
served one after another; what a second caller adds is queueing, and
`manager_queue` has two compete for one slot.
Three peers are the fewest for which an eviction can make the cursor skip a
waiting peer. In `node_loop`, three changes overrun the feed of two, and two
handlers overlap. Two processes and three faults stop both at different
statements and once more after a restart. The heads of `handshake` are the
moment each fork comes into force and the one before it: a fork id depends on
nothing else (`NoForeigner` and `OnlyForeignersRefused` hold for any heads). In `rows` four bits leave an index on either side of the sign,
and both ends of the unsigned range; amounts have one to three digits.

`CHECK_DEADLOCK` is off where the program may come to rest: the manager stops
with the network, a node without manager and transactions only spins, processes
that run have nothing left to start, a handshake is over.

Fairness. `select!` polls its branches in random order, so a branch that is
ready again and again is taken: strong fairness of `RecvEvent` and `Stop`, and
of the two branches of the node's loop. Weak fairness of a started task. tokio's
`mpsc` serves waiting senders in order: strong fairness of `SendCommand`. Of
reth: a session takes its requests, resolves each of them (reth's own request
timeout; the code has none) and a dead session is reported. `node_loop` assumes
that the manager answers each call, which `EveryCallReturns` shows of it.
`startup` assumes that a process that ended is started again.
`handshake` assumes that each end takes the steps of its handshake that
it can take (tokio polls the session's task; geth is the same by assumption) and
that an established session flushes its stream. It assumes of no timer that it
fires, of no stream that it is flushed during the handshake and of no network that
it cuts a connection: a deadlock of the two ends is not excused by line 88. For
`SendStatus` and `RecvStatus` the weak fairness is written with their guards
instead of `ENABLED` (`StatusFairness`), since TLC evaluates the fork ids inside
`ENABLED` without sharing partial results.

What the violated runs show:
- `RoundRobin` (manager.rs:118 says "round-robin with fallback"): a fetch finds
  `p3` dead, is served by `p1`, sets `rr_index` for the vector of three, evicts
  `p3`; the next fetch reduces it modulo two and asks `p1` again while `p2`
  waits. While nobody joins or leaves, the turns are right
  (`RoundRobinWhileStable`).
- `PoolsReported` (README.md, "Mempool access"): all 129 addresses of
  `pools.json` are lower case; line 66 of `node.rs` compares them with the
  checksum form.
- `SwapDecoded` (decoder.rs:34 and :42): the bool is read from byte 35 and the
  amount from bytes 52 to 67, instead of 67 and 84 to 99.
- `AgreesWithItself` (upgrade.rs:1 calls the message required with other BSC
  clients, which another v3-node is): `decode` skips a byte (upgrade.rs:31) that
  `encode` does not write; two v3-nodes refuse each other with ProtocolBreach.

The safety of `handshake` comes in two halves. `EstablishedIsMutual` and
`RefusesOnlyByStatus` are about the exchange, whatever a status is accepted for:
nobody is through alone, and nobody is refused but for the status. They are
proved for any forks. `NoForeignerEstablished` and `RefusesOnlyForeigners` add
which statuses are accepted, with this chain's forks, this head and reth's
filter: TLC goes through every position of a peer's head, the theorems hold for
any later fork and any heads.

Two things `handshake` leaves open on purpose. Up to eth/66 there is no upgrade
message, so an end may be established while the other one still refuses its
status: `EstablishedIsMutual` speaks of later versions. And a geth past a fork
that the list lacks is refused, and refuses (`Foreign`): the list and the head
are constants of the code.

## 4. Proofs

Each theorem holds for every value of the constants its module's assumptions
allow: any finite set of peers, any callers, handlers and processes, any
positive capacities, any number of sessions, changes and faults, any widths,
text base and logs. They rest on those assumptions (`SessionsAssumption`,
`ManagerAssumption`, `WatchAssumption`, `NodeAssumption`, `StartupAssumption`,
`HandshakeAssumption`, `RowsAssumption`), on the hypotheses a theorem states and
on the model of the environment above, on nothing else. Each invariant below was
checked by TLC, on the instance of a run, before it was proved.

### PeerManager (`PeerManagerProofs`)

`TypeCorrect` (`TypeOK`), `EvictionsSafe` (`EvictsOnlyMembers`) and
`OnlyTheDeadAreRemoved` (`OnlyDeadRemoved`).

`TypeOK` is not inductive. `Base` adds that `order` lists exactly the peers of
the map, each once (`OrderOK`: without it `Candidate` may be no peer of the
map, and `% Len(order)` a division by 0); that the locals fit the place in the
code (`Control`) and the caller being served waits for an answer (`Waits`); and
that sessions and events carry numbers of sessions already opened (`Numbered`).

For the evictions, `OneRequest` says that only the session the manager waits
for can hold a request: hence a `try_send` that fails found a dead session and
never a full channel. `Evictions` says that the peers set aside are distinct,
dead members of the map; distinct because each was the candidate of an earlier
attempt, and `PositionsDistinct` shows that `(rr_index + a) % n` meets each
position once; still there because a dead session stays dead (`DeadForever`)
and nothing else touches the map in the loop.

For `OnlyDeadRemoved`, `Exact` (by way of `Settled`) relates the map, the
sessions and the unread events: no event is left about a peer whose entry is
its current session, and nothing follows the announcement of a current session.
It holds although events get lost: losing one only shortens the queue. The
lemma `PushSettled` carries it over a push.

### The map and the network (`DirectoryProofs`)

`OverwritesFollowLoss` (`OverwriteOnlyAfterLag`) needs `Alternation`: for a
peer of which no event was lost, the queue, read from the map's entry on, never
opens a session before it has ended the one before. `SentAlternates` carries it
over a send, which may drop the oldest event, if not one about that peer.

`DirectoryIsAccurate` (`DirectoryAccurate`) needs `Accuracy`: the last unread
event about a peer tells of its present session, no event is left about a peer
of `lost`, and where the queue is silent the map is right. An overrun that costs
an older event leaves the last one in place; one that costs the last puts the
peer into `lost`. What an eviction takes out is dead (`Evictions`).

### The refinement (`DirectoryProofs`, its last part)

`ManagerIsDirectory` is `Spec => ImplementsDirectory`, step by step under the
mapping `Up`, `Progress` and the shared variables. A session's steps and the
fetch loop's attempts are stutters; an event that changes the map is `Join` or
`Leave`, each eviction a `Leave`, a reply `Finish`. What makes the reply one the
directory allows is `Verdicts`: the error carried along in `last_err` is that of
a peer still in the map and not set aside, or says `Disconnected` of one that is
out or will be. It would be wrong of a reply sent before the evictions.

### The turns (`DispatchOrderProofs`)

`FallbackIsExhaustive` (`FallbackExhaustive`): while the loop runs the map is
what it was, the peers of earlier attempts are visited (`Fallback`), and `n`
attempts from any `rr_index` meet each of `n` positions. `TurnsAreTaken`
(`RoundRobinWhileStable`): while the map has not changed since `Server` last
served and `Debtor` still waits, the cursor meets `Debtor` at an earlier attempt
than `Server`, and the loop is not past it (`Turns`). That a successful fetch
leaves the cursor behind its peer turns attempt numbers of one fetch into those
of the next, by `ModUnique`.

### Node (`NodeProofs`)

`NodeTypeCorrect` (`TypeOK`), `ToldOfChanges` (`ToldOfEveryChange`) and
`CountsNeverOlder` (`CountsAreNoOlder`), from one invariant. `FeedTrue` and
`Heard`: the newest announcement about a peer in the feed says what the
directory says, and so does what was heard last of a peer the feed is silent
about, unless something was missed. `FeedCounted` and `TaskTrue`: there are no
more announcements about a peer in the feed than it had changes, so the number
`nth` a handler got is that of a change made, and if it is the last one the
announcement is right. An answer that contradicts it is of a later change.

### Startup (`StartupProofs`)

`StartupTypeCorrect` (`TypeOK`), `PartialSchemaKnown` (`SchemaIsPrefix`) and
`NetworkAfterSchema` (`FullSchemaBeforeNetwork`) are inductive together. The
core is `ExecuteStep`: the statements create different objects (`Statements`),
so a process whose earlier statements are all in the file is at most one behind
its end (`CreatedNext`), and what it executes either is there already or is the
next one.

### Handshake (`HandshakeProofs`)

The first four theorems never expand the forks, the fork ids and the filter: they
hold whatever statuses are accepted, for any schedules and heads.

`HandshakeTypeCorrect` (`TypeOK`) and `MutualEstablishment`
(`EstablishedIsMutual`): an upgrade message in a sink or on its way comes from
an end that has accepted the status of the other and stays `Committed`
(`Messages`, `OnceCommitted`); who is in `upgrade_status` has accepted too
(`Accepting`). `Counted` bounds what an end can have under way by its phase.

`RefusalIsByStatus` (`RefusesOnlyByStatus`) needs the second invariant `Order`:
the status is read before any other message, however late a flush
(`StatusFirst`, `NoOvertaking`); a refusal is of an unwelcome status or of an
upgrade message the reader does not understand (`Judged`); a connection is down
only if it was cut, somebody refused or a timer fired (`Blame`). `FramesAgree`
is the codec's part, over the bytes: `decode` reads both frames of geth, and
geth the one of `encode`. The theorem assumes `~(Ends \subseteq Nodes)`, that
not both ends run v3-node. `NodesNeverMeet` is the other case, the divergence
`handshake_self` exhibits: `decode` never accepts what `encode` writes
(`OwnFrameIsMalformed`), so two v3-nodes never establish anything above eth/66,
with any forks and in any order.

`NoForeigner` (`NoForeignerEstablished`) and `OnlyForeignersRefused`
(`RefusesOnlyForeigners`) add which statuses are accepted. The invariant is
`Settings`, that nobody's schedule or head moves; the rest is about the values,
in the section on the forks:
- `fork_id` folds the list as it stands, the filter sorts a set. They agree only
  for a list in order: `FilterHoldsList` (the zeros of the genesis and repeated
  entries drop out on either side), and `ListInOrder` shows that the list of
  chainspec.rs is. What a head has reached is a first part of the list
  (`ReachedIsPrefix`) and folds to a first part of its forks (`FoldedPrefix`).
- Hence a fork id is a first part of the filter's forks with the fork that follows
  it (`ForkIdOfSchedule`), whatever the head. The node's head lies past its whole
  list (`HeadIsPast`), so it accepts every first part followed by the right fork
  (`NodeWelcomes`), and whoever holds the list accepts the node (`NodeIsWelcome`).
- An end past the later fork folds one more fork in than a filter of the list
  holds, so no rule of the filter finds it (`ForeignerIsRefused`).

That an order of the list matters is what the mutant `MisorderedForks` shows.
`OnlyForeignersRefused` speaks of one v3-node and one geth: two v3-nodes do
refuse each other (`NodesNeverMeet`), and two geths are not this program.

### Rows (`RowsProofs`)

The inductive invariant is `Mirrored`: the tables are the images of the delivered
logs under the constructors, and no two delivered logs have one position. What an
INSERT refuses was there already (`UniqueIsNew`), since the columns of
`UNIQUE (tx_hash, log_index)` tell positions apart (`KeysDiffer`), and `CHECK`
refuses nothing `as_str` writes.

`RowsTypeCorrect` (`TypeOK`): a cast fits its column. `EveryLogStoredOnce`
(`StoredOnce`): `CastBack` says that cast back, a value is what it was, at any
width; `DigitsReadBack` and `SignedReadsBack` that a text reads back to its
number, for any number and any base; so the rows are as many as the logs
(`RowsAndLogs`). `LiquidityAddsUp` (`NetLiquidity`): a row counts for as much as
its log (`SameAmount`), and a sum over the rows is the sum over the logs, in
whatever order a set is added up (`SumsAgree`).

Here induction over data could not be avoided, and it is done without the
library's induction theorems: 2^n is read as the number of subsets of a set of n
bits (`PowerOfTwo`); that the recursive `Digits` has a value everywhere, and a fold
its partial results, follows from a least number without one (`RecursiveFunction`,
`FoldExists`, `SumExists`); two sums over one set agree because a least
set on which they differ would differ already without one element
(`SumIsUnique`).

### Only model-checked

- Liveness (`EveryCallReturns`, `DirectoryConverges`, `HandlersEnd`,
  `RequestsAnswered`, `StartsInTheEnd`, `NobodyWaitsForever`): TLAPS has no
  `ENABLED` and so no fairness.
- The violated properties, which are false.

Every safety property of a passing run is stated by a theorem. Where a proof needs
an induction over numbers (the newest of several messages, say), it takes a least
counterexample: `LeastNatural` and `GreatestPosition` of `DataProofs`, from the
well-foundedness of subsets of a finite set.

## 5. Not modelled

Printed text and its layout; `serde` and the format of the files; the message
layouts of the eth versions and the number of receipts in an answer (the code
looks at neither: an eth/70 answer that covers a part of the blocks is an
answer like any other); the rest of reth's configuration, the genesis block,
base fee and bootnodes (data); `Display` of errors. The files
`sync/*`, `pool/events.rs`, `pool/state.rs`, `pool/math.rs` and `db/queries.rs`
are empty. The number of tasks the node spawns has no bound in the code and one
in the model. That the lines of one peer's connect and disconnect may be
printed in either order is visible in `Node` but contradicts no claim of the
repository; what can be said of them is `CountsAreNoOlder`.

## 6. Plan

Every part of the program with behaviour of its own is modelled, and every
safety property the runs check is proved. What is left:
1. when `sync/*`, `pool/*` and `db/queries.rs` are written: their modules, on
   top of `Rows` and `PeerDirectory`;
2. when the chain specification gains a fork: the list in `ForkSchedule`, the
   literals of `ListInOrder`, and `head` if it stays the last fork's time;
3. liveness, should the provers come to support fairness.
