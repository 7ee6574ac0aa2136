# TLA+ models of voyager

This directory holds TLA+ models of parts of the voyager node (`src/`).
TLC checks them. The models follow the Go source. `spec.md` is consulted
where the code relies on packages that are not in the repository, and to
classify disagreements.

## The system and its parts

`src/` is a slice of a Swarm-style storage node. Its parts, and how they
interact:

| part | source | role |
|---|---|---|
| Kademlia topology driver | `pkg/kademlia/kademlia_test.go` lines 1119-2219 (the implementation is appended to the test file) | keeps `knownPeers` and `connectedPeers`, dials peers (`manage`, `connect`), gossips new peers (`announce`), accepts inbound peers (`Pick`, `Connected`), forgets closed ones (`Disconnected`), answers `ClosestPeer` for routing |
| address algebra | package `infinity` (not in the repository; spec 4.A) | `Proximity`, `ExtendedProximity`, `DistanceCmp` on overlay addresses |
| PSlice | not in the repository | the bin-indexed peer sets Kademlia keeps |
| address book | tests only (`pkg/addressbook`) | overlay to underlay records; Kademlia reads it before dialing, hive writes it |
| hive | `pkg/hive/hive.go` | `BroadcastPeers`, the discovery driver `announce` calls; `sendPeers` reads the sender's address book, and `peersHandler` on the addressee verifies each record with `ifi.ParseAddress`, stores it and calls `Kademlia.AddPeers` |
| ifi peer records | concatenated into `pkg/localstore/mode_get_multi.go` | the signed (underlay, overlay, network id) records hive exchanges |
| pingpong | `pkg/pingpong/pingpong.go` lines 1-125 (the rest are libp2p tests) | `Ping` and its stream handler |
| debug API settlements | `pkg/debugapi/settlements.go` | lists settlements per peer, and for one peer |
| p2p layer | not in the repository | `Connect`, `Disconnect`, `Peers`; it calls `Pick`, `Connected` and `Disconnected` |
| chequebook `Init` | `unnamed/part_009` | deploys a chequebook, persists its address, makes the first deposit |
| API chunk upload and tags | `unnamed/part_002`, `unnamed/part_003` | stores a chunk and increments tag counters |
| pss websocket pump | `pkg/api/pss.go` | hands pss messages to a websocket through an unbuffered channel |
| netstore | `unnamed/part_008` | local get, network retrieval with store-back, recovery callback |
| localstore | `pkg/localstore/pin.go`, `mode_get_multi.go` | pinned-chunk pagination, multi-get |
| feeds putter | `pkg/feeds/putter.go` | stores a signed feed update wrapping a timestamped chunk |
| CLI | `cmd/voyager/cmd/cmd.go` | builds the root command and loads the config file |
| pss send endpoint | `pkg/api/pss.go` (`pssPostHandler`) | parses the targets and recipient, then calls `pss.Send` |
| ChunkPipe and splitter | `pkg/file/buffer.go`, `pkg/file/addresses/...` | re-chunk a byte stream; split it into a chunk tree |
| node, OpenAPI, tests | the rest | thin I/O, formatting, tests and fixtures |

PROJECT.json's `components` list every part with its status.

Kademlia is the part with real concurrency. Several threads act on it at once:

- one `manage` goroutine dials;
- one goroutine per inbound connection runs `Connected`;
- the p2p layer calls `Disconnected` when a connection closes;
- any caller may run `ClosestPeer`, which disconnects stale peers itself;
- `announce` spawns fire-and-forget `BroadcastPeers` goroutines.

Kademlia is where the project starts.

## Modules

- **KadAddress.** The address algebra on `AddrBits`-bit naturals, with bit 0
  most significant:
  - `Proximity` and `ExtendedProximity`;
  - `DistanceCmp`, which returns the constant `XCloserSign` when x is closer.
    The configs use the code's convention (1), which its tests confirm. Spec
    4.A states the opposite sign, and under it `closestPeer` would keep the
    farther peer: the spec, not the code, is off;
  - `CommonBinPrefix`, translated from `generateCommonBinPrefixes` bit by bit;
  - `ClosestStep` and `ClosestFrom`, which are `closestPeer`'s switch and
    its iteration as a `FoldSet`. Because the comparison is a total order on
    distinct addresses, the fold does not depend on iteration order.
- **KadDepth.** `recalcDepth` (`RecalcDepthOf`) and `binSaturated`
  (`BinSaturatedOf`). A PSlice is abstracted to its per-bin population,
  because both functions only count peers bin by bin.
- **PinnedChunks.** `PinnedChunks` of `pin.go`. The pin index is a
  function from pinned addresses to pin counters, and `IndexItems` lists it
  in key order, as shed's `Iterate` does. The iterate callback is the
  recursive `IterateFrom`. Its arguments are the closure's captured `offset`,
  `limit` and `chunks`. `PinCounter` is the lookup with its `ErrNotFound`.
- **Hive.** `BroadcastPeers` and both ends of the exchange, as operators:
  - the recursive `Batches` is the batching loop;
  - `CollectPeers` and `SendPeers` are `sendPeers`. A peer missing from the
    book is skipped, any other `Get` error fails the send, and each record
    found goes into the `Peers` message;
  - `PeersHandler` is the addressee's loop. It applies `ParseAddress`,
    then `Put`, and collects the overlays for `AddPeers`;
  - `SendBatches` sends batch after batch until a send fails.

  An address book is a function from overlays to records. Failing `Get`s
  and `Put`s are inputs, because the state store behind the book is not in
  the repository.
- **Settlements.** `settlementsHandler` (`MergeReceived`, `MergeAll`,
  `SettlementsHandler`) and `peerSettlementsHandler` (`PeerExists`,
  `PeerSettlementsHandler`). The settlement service is not in the
  repository, so its two maps and its failures are inputs (`TotalOf`). The
  list's rows come in Go map order, so they are a set.
- **Netstore.** `netstore.Get` (`NetstoreGet`). It maps the local store (a
  set of addresses), the storer's and retrieval's outcomes and the
  request's targets to three things: the result, the store afterwards, and
  the recovery goroutines started, as a sequence so that a second start
  would show.
- **PingPong.** `Ping` and the pingpong handler as two goroutines over a
  stream. The stream is two FIFO queues (`c2s`, `s2c`), each with a flag
  for its writer having closed. `reset` is the connection being lost.
  - Ping's actions are `PingOpen`, `PingWrite`, `PingRead` and
    `PingCancelled`, plus `PingFullClose`, the goroutine started by its
    deferred call.
  - The handler's actions are `HandlerRead`, `HandlerWrite`,
    `HandlerCancelled` and `HandlerFullClose`.

  A read of an empty, closed queue is `io.EOF`. `Respond` wraps the
  greeting in braces.
- **MCSequential.** Runs chequebook `Init` and ChunkPipe side by side.
  They share no state, and both modules name their program counter `pc`,
  so each is instantiated with its own (`initPc`, `pipePc`). Chequebook
  keeps its fairness; ChunkPipe has none.
- **MCStreams.** Runs the pss pump and a pingpong exchange side by side.
  They share no state; each keeps its own fairness.
- **IfiAddress.** The signed peer record of package `ifi` (its code is
  concatenated into `mode_get_multi.go`):
  - `GenerateSignData` builds the signed bytes: a prefix, the underlay, the
    overlay and the network id;
  - `NewAddress` signs them;
  - `ParseAddress` recovers the signer and compares the signer's overlay
    with the claimed one.

  A byte is a symbol and a byte string is a sequence. The crypto package is
  not in the repository, so it is abstracted:
  - a signature is (key, signed data);
  - recovery over any other data fails;
  - an overlay is the pair (key, network id), which is injective like the
    hash it stands for.
- **GetMulti.** localstore's `GetMulti` and `getMulti`. The retrieval
  index is a set of addresses and the pin index a function to counters;
  shed's `Fill` fails with `ErrNotFound` on the first missing key. The mode
  switch is a `CASE`: `request` refreshes the gc entries (the set
  `accessed`), `pin` fills the counters from the pin index, `sync` and
  `lookup` do nothing more, any other mode is `ErrInvalidMode`.
- **FeedsPutter.** `NewPutter`, `Put` and `toChunk`. `PutUint64` writes the
  timestamp as 8 big-endian bytes, a negative one in two's complement, by
  the recursive `Digits`. The chunk is refused above `ChunkSize` bytes.
  Signing and the store's `Put` may fail; errors come in the code's order.
- **Command.** `newCommand`, `setHomeDir`, `initConfig` and `Execute`. The
  file system is a function from (directory, name) paths to "ok" or "bad";
  viper's `ReadInConfig` (not in the repository) reads the named file or
  searches the home directory in its extension order.
- **PssSend.** `pssPostHandler`: `Split` at commas, `HexDecode` of each
  field, the length check `BadTarget`, the recipient, then reading the body
  and `pss.Send`, each giving its status.
- **MCPure.** The harness for the pure operators (`KadDepth`, `PinnedChunks`,
  `Hive`, `IfiAddress`, `Settlements`, `Netstore`, `GetMulti`,
  `FeedsPutter`, `Command`, `PssSend`). Its one variable is the input, and every input
  within the bounds is an initial state. Each operator is compared with a
  reference definition written from what its caller is promised.
- **Pipe.** The abstract specification of an in-process pipe:
  - the reader receives a prefix of what the writer handed over, in order
    and once each;
  - `Close` of an open pipe delivers all of it;
  - after the reader has gone, nothing more is delivered.
- **ChunkPipe.** `ChunkPipe` of `pkg/file/buffer.go`. The variables:
  - `buf` is `c.data[:c.cursor]`;
  - `out` is the writes the pipe's reader took;
  - `pc`, `b` and `nw` are where a `Write` call is.

  The actions:
  - `StartWrite` starts a `Write` call;
  - each pass of `Write`'s loop is `WriteCopy` (less than a chunk
    buffered), `WriteFlush` (a chunk written), or `WriteFlushFails` (the
    reader has closed and the write returns `ErrClosedPipe`);
  - `WriteReturn` ends the call;
  - `Close` has three branches;
  - `ReaderClose` is the environment. It over-approximates: the
    `io.ReadWriteCloser` that `NewChunkPipe` returns routes `Close` to
    `ChunkPipe.Close`, so a caller cannot close the reader end. The extra
    behaviours (a failing flush) remove none of the real ones.

  A byte is the natural giving its position in the stream. `AbsPipe` maps
  the module onto `Pipe`:
  - `accepted` is the bytes `Write` has taken;
  - `delivered` is the concatenation of `out`;
  - `state` follows `pc` and `readerClosed`.
- **Kademlia.** The topology driver. It has these variables:

  | variable | models |
  |---|---|
  | `knownPeers`, `connectedPeers`, `depth`, `waitNext`, `manageC` | the `Kad` fields |
  | `addressBook` | the overlays that have an entry in the address book |
  | `p2pPeers` | the live connections |
  | `disconnecting` | connections whose `Disconnected` call is still due |
  | `mg` | the manage goroutine's program counter and loop cursors |
  | `inbound`, `inSnap` | where each `Connected` goroutine is, and what its announce read |
  | `told` (ghost) | the `BroadcastPeers` calls made |
  | `failStreak` (ghost) | consecutive failed dials since the last success |

  Actions are split wherever the code can be preempted between a read and
  the write that depends on it. Announce reads `connectedPeers` in one step
  and sends in the next. The add to `connectedPeers` is a step of its own.
  The actions:

  | action | models |
  |---|---|
  | `ManageWake` | a wake-up on `manageC` |
  | `Pass1` | the balanced pass, up to its next dial or abort |
  | `Pass2` | the bin-filling pass, up to its next dial or abort |
  | `Dial` | `connect` with each of its outcomes, plus manage's error path |
  | `ManageAnnounce`, `ManageSend` | `announce` |
  | `ManageAdd` | the success path of the passes, or `connected()` for a bootnode |
  | `BootStep` | one bootnode of `connectBootnodes` |
  | `InboundDial` | the p2p layer calling `Pick` |
  | `ConnectedCheck`, `ConnectedSend` | `Connected` |
  | `RemoteDisconnect` | a connection closed by the remote |
  | `Disconnected` | the `Disconnected` callback |
  | `RetryElapsed` | a `tryAfter` passing |
  | `Tick` | the 30 s timer |
  | `AddPeers` | `AddPeers`, as delivered by hive |
  | `ClosestPeer` | `ClosestPeer`, including its kludge's `Disconnected` calls |

  `Init` is the state after `New` and `Start`. All of the address book is
  known, and `manageC` holds the signal from `AddPeers`.
- **ChequebookInit.** `chequebook.Init` as a run of steps over two stores
  that survive a restart: the state store (`deployKey`, `bookKey`) and the
  chain (`chain`, `deposits`). The run's locals (`pc`, `tx`, `book`) are
  lost by `Fail`, which stands for an error returned by any call or a
  crash; `Restart` starts `Init` again. The actions, in the code's order:
  `LoadStore`, `Deploy`, `PutDeploy`, `WaitDeployed`, `PutBook`,
  `SendDeposit`, `WaitForDeposit`, `Verify`. `Mine` is the chain, which
  may revert a deployment when `CanRevert` holds.
- **PssPump.** `pumpWs` and `server.Close`. The pump's select loop is
  `PumpReceive`, `PumpWrite` (which may fail and return), `PumpQuit` and
  `PumpPingFails`; its deferred calls are `PumpCleanup`. `Deliver` is pss
  calling the registered handler, whose goroutine then blocks on the
  unbuffered `dataC` until the pump receives. `Close` closes `quit`. The
  `gone` case is not modelled: the close handler runs only inside a read,
  and `pumpWs` never reads.
- **MCKademlia.** Binds the constants: 3-bit addresses seen from base 000,
  MaxPO 1, peers 100 (bin 0) and 010 (bin 1).

Some reductions keep the state space small. Each is stated where it is made:

- The passes take their read-only iterations in one step, through the
  recursive `Pass1From` and `Pass2From`. Only a dial or an abort is a step
  of its own, because those are the only points where the pass's effect can
  interleave with other goroutines. Its reads are done by then.
- `ClosestPeer`'s answer is checked as an invariant for every target address
  and skip list, instead of being stored. Its effect on the topology, the
  kludge's `Disconnected` calls, is an action.
- The ghost `told` and the announce snapshots are recorded only when the
  constant `TrackGossip` is TRUE. Only the announce run uses them.

## Runs

| run | cfg | result | what it shows |
|---|---|---|---|
| pure | MCPure.cfg | pass, 38 929 states | Eleven things hold on every input within the bounds (listed below). |
| pin_page_limit | MCPurePage.cfg | violation | `PinnedChunks` with limit 0 returns the whole index past the offset, more than `maxPage`. |
| topology | MCKademlia.cfg | pass, 417 055 states, about 2.5 min | In every interleaving of manage, an inbound `Connected`, remote disconnects, `Disconnected`, `AddPeers`, timers and `ClosestPeer`, two things hold (below). |
| prune_attempts | MCKademliaPrune.cfg | violation | A peer whose `maxConnAttempts` dials have all failed is still in the address book, against the constant's comment and spec 4.E / 8. |
| stale_connected | MCKademliaLinked.cfg | violation | A `Disconnected` that overtakes `connected()` leaves a dead peer in `connectedPeers`. |
| announce_race | MCKademliaGossip.cfg | violation | Two peers joining at once are not announced to each other. |
| bootnode_tries | MCKademliaBoot.cfg | violation | `connectBootnodes` shares one attempts counter across bootnodes, so a bootnode can be left untried (spec 4.E tries each). |
| sequential | MCSequential.cfg | pass, 215 943 states | Chequebook: through up to two failed starts, the stored chequebook is the deployed (not reverted) chequebook of the stored deployment transaction. ChunkPipe: every read but the last has exactly ChunkSize bytes, the buffer never exceeds 2 * ChunkSize, and every behaviour is a behaviour of `Pipe` (`ImplementsPipe`). |
| chequebook_redeploy | ChequebookInitDeploy.cfg | violation | A crash between `Deploy` and recording the transaction makes the restart deploy a second chequebook. |
| chequebook_deposit | ChequebookInitDeposit.cfg | violation | A crash after storing the chequebook and before the deposit means no later start ever deposits. |
| streams | MCStreams.cfg | pass, 36 800 states | Once `Close` closes `quit`, the pss pump returns and runs its defers, so `Close`'s wait ends (`QuitEndsPump`). Ping and the pingpong handler both return and close, whatever resets and cancellations happen (`PingPongEnd`). Every Pong answers its Ping in order, and Ping reports success for fewer Pongs than greetings only once the handler has ended (`ShortPingOnlyAfterHandlerEnded`). |
| pss_handler_leak | PssPumpLeak.cfg | violation | A delivery blocked on `dataC` when the pump returns never returns: a goroutine leak. |

The pure run shows eleven things:

1. `recalcDepth` equals the specification's depth on every population of up
   to 3 peers in each of 4 bins (`DepthMatchesSpec`). This holds although
   the code short-circuits on `Length <= nnLow` rather than `< nnLow`, and
   only consults the shallowest empty bin above the candidate.
2. `PinnedChunks` returns exactly the requested slice of the index, in
   address order with each item's counter, for every limit of 1 or more
   (`PageIsSlice`). Offsets run past the end of the index.
3. `BroadcastPeers` sends every peer once and in order, in full batches and
   a last shorter one (`BatchesPartition`).
4. `ParseAddress` accepts exactly the records a node signed for its own
   overlay on that network (`IfiAcceptsOnlySigned`). Cutting the signed
   underlay||overlay bytes at another point, or presenting the record
   under another network id, is refused.
5. A `BroadcastPeers` call delivers exactly the listed peers that the
   sender's book still holds, in order, batch by batch until the first
   failed send (`HiveDeliversBookedPeers`). The addressee stores the
   sender's records for them. `BroadcastPeers` returns an error exactly
   when a batch was not sent. A peer pruned since `announce` read it is
   dropped without an error.
6. The two settlements endpoints agree (`SettlementsAgree`):
   - there is one row per peer, with 0 for a missing direction;
   - the totals are the sums of the rows;
   - the peer endpoint gives a 404 exactly when the peer has no row, and
     otherwise returns that row.
7. `netstore.Get` behaves as spec 4.I and its tests describe
   (`NetstoreCachesAndRecovers`):
   - a chunk it returns is served by the next `Get` from the local store;
   - it starts the recovery callback exactly once, with its address and
     targets, exactly when it returns `ErrRecoveryAttempt`.
8. `GetMulti` is all or nothing (`GetMultiAllOrNothing`): it returns every
   requested chunk, in request order, or none and an error. In pin mode
   each chunk carries its pin counter, and an unpinned address is
   `ErrNotFound`. Only a successful request-mode call refreshes gc entries.
9. A feed update can be read back (`FeedUpdateReadable`): `Put` stores one
   chunk addressed by (topic, index, owner), and the first 8 bytes of the
   wrapped data decode, as an int64, to the timestamp given, for
   timestamps around 0 and 256 of either sign. A payload that does not fit
   is refused with nothing stored.
10. `Execute` loads the file the user selected (`ExecuteLoadsSelectedConfig`):
    the named config file if one was given, else the first `.voyager` file
    in the home directory in viper's order. A missing search result is no
    error; a missing named file or an unparsable one is.
11. `pssPostHandler` sends to every target of the parameter
    (`PssSendsEveryTarget`): with status 200 exactly when every
    comma-separated field is hex of at most `targetMaxLength` bytes and the
    recipient parses, and the targets passed to `Send` are the fields in
    order. The reference splits by the positions of the commas.

The topology run shows two things:

1. `ClosestPeer` answers the nearest live, non-skipped connected peer, or
   `WantSelf` when the base is nearer (`ClosestPeerIsClosest`).
2. A retry record never holds more failures than the limit (`TypeOK`).

The violation runs are disagreements between the code and its
specification, comments or API documentation. Each is explained in
PROJECT.json's `findings`:

- `pin_page_limit` is a `spec_code_divergence` finding. `maxPage` is called
  "the hard limit of page size", but a limit of 0 is not clamped: the
  iteration's `limit == 0` test is never met, so the whole index is
  returned. The OpenAPI description documents a minimum of 1, and the API
  handler is not in the repository, so whether limit 0 reaches the code
  is not known.
- `bootnode_tries` is a `spec_code_divergence` finding.
- `stale_connected` is the "topology peer inconsistencies bug". `ClosestPeer`
  carries a hotfix for it, but the hotfix only repairs the state when
  `ClosestPeer` happens to run.
- `prune_attempts` is a `spec_code_divergence` finding. The comment on
  `maxConnAttempts` says a peer with that many failed connects is
  non-connectable, and spec 4.E and 8 allow at most that many attempts.
  `connect` prunes only when `failedAttempts > maxConnAttempts`, on the
  next failure. Spec 4.D states the `>` rule, so the specification
  contradicts itself; with `MaxConnAttempts` 1, TLC shows one failed dial
  leaving the peer in the book.
- In `announce_race`, `connected()` announces before it adds the peer.

Every property of a passing run has a mutant in PROJECT.json. TLC finds each
one violated:

- `recalcDepth` without the empty-bin rule;
- `PinnedChunks` counting the skipped items against the limit;
- `Batches` skipping a peer between batches;
- `ParseAddress` without the overlay comparison;
- `sendPeers` failing on a peer missing from the book instead of
  skipping it;
- `peerexists` set only by `TotalSent`;
- `netstore.Get` returning a retrieved chunk without storing it;
- Ping's deferred `FullClose` missing;
- Ping taking any read error for `io.EOF`;
- ChunkPipe's copy not bounded by the buffer's free room;
- ChunkPipe writing the whole buffer instead of one chunk;
- ChunkPipe lowering the cursor without moving the rest of the buffer;
- the kludge dropped from `ClosestPeer`;
- pruning one attempt late;
- `WaitDeployed` not checking the receipt's status;
- the pump's quit case missing its `return`;
- `getMulti`'s pin mode without the pin index's `Fill` check;
- the feed timestamp written little-endian;
- `initConfig` treating a search that finds nothing as fatal;
- `BadTarget` refusing a target of exactly `targetMaxLength` bytes.

The chequebook and pss violation runs are `code_bug` findings.

## Bounds and why they suffice

- **Two peers, one in each bin, with nnLowWatermark 1.** The known peers then
  have depth 1, so bin 0 lies below depth. With saturation and
  over-saturation both 1, a single connected peer saturates bin 0, so `Pick`
  and `ConnectedCheck` both refuse and both accept. The pseudo addresses of
  pass 1 hit both bins.
- **MaxConnAttempts 1.** Pruning happens on the second consecutive failure,
  so it is reachable in a few steps, and the documented rule (pruning on
  the first) is violated after one. Backoff, mismatch and success all
  interleave with it.
- **Two bootnodes, MaxBootnodeAttempts 1.** Bootnode 2 is tried first, so an
  inbound 4 can already be connected when it is announced. This makes the
  send, and its failure in the bootnode phase, reachable. Bootnode 4 is then
  skipped by the shared attempts counter.
- **One dialer (peer 4) and at most one Connected goroutine at a time.**
  That is enough for an inbound join to race manage's dial of the other
  peer, which is the race the announce and stale-peer runs need.
- **Target addresses and skip lists.** `ClosestPeer` is checked for every
  target address, and for skip lists {} and {4}.

A coverage run (`tlc -coverage`) of the topology cfg fires every action and
every branch.

- **Chequebook: three transaction ids, two failures.** Each failed start may
  send one deployment, so three ids cover two failures and the final start.
  Two failures allow a crash in one window and a second in the next.
- **Pure operators.**
  - `recalcDepth`: bins 0..3 with up to 3 peers each.
  - `PinnedChunks`: maxPage 2 over up to 4 pinned chunks, offsets 0..4 and
    limits 1..3. Clamped, partial, empty and past-the-end pages all occur.
  - Batching: batches of 2 over up to 5 peers, covering the empty list, a
    multiple of the batch size and a remainder.
  - `ParseAddress`: 2 keys, 2 networks, and underlays of up to two bytes
    over every byte of the model. A cut can therefore move a key or network
    byte across the underlay/overlay boundary.
- **ChunkPipe: ChunkSize 2, writes of 1, 3 or 5 bytes, 7 bytes in all.**
  Writes of each size force the three loop cases: a write that fits, one
  that fills exactly one chunk, and one that needs more than one pass
  because the buffer's room bounds the copy. The reader can close before,
  during or after any of them. The run does not check deadlock: the pipe
  is finished once both ends are closed.
- **Hive exchange: three peers and batches of 2.** A list of 3 is sent
  as a full batch and a short one, and every subset of the peers can be
  missing from the book. At most one `Get` and one `Put` fail. The
  addressee is on either of two networks.
- **Settlements: two peers, amounts 0..2.** Each direction's map can hold
  either peer, both or neither. Each call of either handler can fail, and
  the peer path can fail to parse.
- **Netstore: one address.** Every combination of outcomes is an input:
  in store or not, a local error, retrieval, a `Put` error, targets and a
  callback.
- **pingpong: two greetings.** A reset or a cancellation can then fall
  before, between or after the exchanges. The run does not check
  deadlock: both goroutines finish.
  - `GetMulti`: addresses 1..3, lists of up to 2 (a repeated address
    included), every retrieval index and every pin index within it, the four modes and an invalid one.
  - Feed putter: timestamps -257, -1, 0, 1, 256 (sign and byte carries),
    payloads up to 3 bytes with `ChunkSize` 10, so the 8-byte timestamp
    plus 3 bytes is refused and 2 fits.
  - CLI: a home option or not, a config option or not, the user's home
    found or not, and every file system over the 5 paths that matter with
    two extensions, so the search order decides.
  - pss send: every targets string of up to 6 characters over "0", "g"
    and ",", with `targetMaxLength` 2: empty fields, odd lengths, non-hex
    digits and targets of 2 and 3 bytes occur.
- **pss: three deliveries.** One is received, one is in flight when the pump
  returns, and one arrives after the handler is unregistered.

## Fairness

- **ChequebookInit** (in MCSequential). Weak fairness of `Progress` (the run's steps and
  `Restart`: `Init` runs its calls in sequence and the node is restarted
  after a failed start) and of each `Mine(t)` (a sent transaction is
  eventually mined). `Fail` has none.
- **PingPong.** Weak fairness of each goroutine's steps. A read or a write
  blocks only until data, EOF or a reset is there, and the goroutine then
  runs. Resets and cancellations get none.
- **PssPump.** Weak fairness of the pump's own steps: the goroutine runs
  while a case is ready, and Go's select picks among ready cases at random.
  Failing pings, deliveries and `Close` get none.

The Kademlia runs check safety only, so no fairness is assumed there. Liveness (a
non-connectable peer is eventually pruned; manage eventually connects an
available peer) needs two kinds of fairness:

- weak fairness of the manage goroutine and of `Tick`, which the 30 s timer
  justifies;
- strong fairness of a dial's success, which the network does not
  guarantee.

This is left to a later sitting.

## Not modelled, and why

- **Kademlia.**
  - `Close` and shutdown, which have no effect on the topology invariants;
  - `SubscribePeersChange` / `notifyPeerSig` subscribers, which are
    signals only;
  - standalone mode;
  - the getters and JSON marshalling;
  - timing: tryAfter is abstracted to `RetryElapsed`;
  - bootnodes are assumed to have one underlay each.
- **Not in the repository:** the address book, PSlice, infinity and p2p.
  Only the effects Kademlia depends on are modelled.
- **hive:** one broadcast is a function of its inputs. The stream carries
  a written message intact, and a failed write counts as a failed send.
  The composition with Kademlia's concurrency is through `AddPeers`, an
  action of Kademlia.
- **API upload handler and tags:** `Tag.Inc` is not in the repository, and
  spec 4.J gives it no failure. The one interesting branch, a failing
  increment after `Put`, therefore has no contract to model against.
- **`pssWsHandler`:** the websocket upgrade. The race of `wsWg.Add` with `Close`'s `Wait` is a
  hazard without a property, because the HTTP server's shutdown order is
  not in the repository.
- **Collaborators of the new operators:** shed, viper, cac, soc, crypto
  and pss are not in the repository; only the results the code branches on
  are inputs.
- **CLI's `cfgFile` after a search.** `initConfig` writes
  `<home>/.voyager.yaml` into `cfgFile` even when the search loaded a
  `.json` file. No code in the repository reads `cfgFile` afterwards, so
  no property states it.
- **Not modelled yet:** the splitter.
  Hazards are recorded for each.
- **Not worth modelling:** node, OpenAPI and the tests. They are I/O and formatting without state of their own.

## Plan

1. Kademlia, continued:
   - a bound on the connected population of a bin below depth, which the
     pass-2 / `Connected` saturation race may exceed;
   - liveness under the fairness above (eventual pruning, eventual
     connection);
   - an abstract topology (a peer is connected only while it is linked) to
     refine to.
2. Done in sitting 1: chequebook `Init` with crash and restart, and the pss
   pump.
3. The upload handler's tag counters around `Put` (partial failure), and
   netstore's recovery.
4. Done in sitting 2, against reference definitions:
   - pin pagination;
   - hive batching;
   - ifi record parsing;
   - ChunkPipe, with its refinement of `Pipe`.

   Still to do: `calculateNumberOfChunks` and the splitter.
5. Done in sitting 3:
   - the hive exchange;
   - settlements;
   - netstore;
   - pingpong with the pss pump.
6. Done in sitting 4: `GetMulti`, the feeds putter, the CLI and the pss
   send endpoint.
