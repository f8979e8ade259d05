# Summerpoem in TLA+

A verification project for Summerpoem (SUMP), a proof-of-work UTXO currency in
Rust. It models the consensus rules, the node process, the peer-to-peer layer
from the encrypted transport up to transaction relay, mining, and the wallet. TLC
checks all of it on small instances; TLAPS proves most of the safety for every
instance: of the chain state, the node with its files and its miner, block
synchronisation and relay, the peer table, the locks, the transport, the
difficulty rule, the subsidy schedule, the mining loops, the Merkle commitment, the
binary encoding and the wallet.

## The system

| Component | State | Operations | Talks to |
|---|---|---|---|
| Chain state (`node/src/chain.rs`) | `meta`, `all`, `active`, `utxos`, `supply` | `add_block` (header checks, side chain, extend, reorganise), `locator`, `hashes_after_locator` | called under one mutex by peers, miner, loader |
| Ledger rules (`check_tx`, `validate_block_txs`) | a UTXO map passed in | validate and apply a block | chain state, mempool |
| Mempool (`mempool.rs`) | `txs`, `spends`, `bytes` | `insert`, `remove`, `update_for_block` | chain state; RPC, peers, bridge, miner |
| Miner template (`miner.rs`) | a template, outside the locks | build template, submit | chain state, mempool |
| Mining loops (`cli/src/main.rs`, `mining.rs`, `pow`, `gpu`) | the rig and the epoch of its dataset | renew the dataset, search a window of nonces, go on | templates; gate on the peer table |
| Chain file, transaction files (`store.rs`, `cli/src/main.rs`) | files of the data directory | save, load by replay, queue, bridge, `miner mine` | all processes of the data directory |
| Sync (`net/src/node.rs`) | per peer `requested_blocks` | `Hello`, `GetBlocks`, `Inv`, `GetData`, `Block` | chain state of both sides |
| Transaction relay (`net/src/node.rs`) | mempools, `banned` | `submit_tx`, `Inv`, `GetData`, `Tx`, `misbehave` | mempool, sync |
| Peer table (`net/src/node.rs`) | `peers`, `book`, `connected`, `self_addrs`, `inbound`, `banned`, `best_peer_height` | accept, dial, register, greet, gossip, ban, leave, discovery loop | sockets, miner gate |
| Locks of the peer threads | the mutexes of `Shared` | every critical section | all threads |
| Encrypted transport (`net/src/transport.rs`) | per direction a key and a counter | handshake of both sides, send, receive, time out | sync, relay, peer table |
| Binary encoding (`encode.rs`, `tx.rs`, `block.rs`, `message.rs`) | none | encode, decode, sighash preimage | files, transport, hashes |
| Wallet (`wallet`, `wallet-cli`, `cli/src/wallet.rs`, RPC of `dashboard.rs`) | keys; coins fetched for a send | fetch, select and sign, submit or queue | a node's RPC, or the chain file |
| Difficulty, emission, Merkle (`core/src`) | none | pure functions | chain state, miner, wallet |
| Crypto primitives, PoW kernels, pages | | | not modelled, see below |

What makes it hard: a dozen mutexes taken by reader threads, accept loop,
discovery, miner and bridge; a miner that works on a snapshot; forks and
reorganisations that fail halfway; messages lost with their connection, and no
timers above the handshake; a mempool that dies with the process while its files
are gone already; restarts from a chain file that is some blocks old; two
directions of frames under one shared secret; integer edges in targets and
subsidies. `PROJECT.json` lists each hazard at its line with the properties aimed
at it.

## Modules

| Module | Models | Correspondence |
|---|---|---|
| `Ledger` | `check_tx`, `validate_block_txs` | A transaction is a record, a lock `[scheme, pkh, height]`, a signature the record of what was signed. Sums are bounded by `MAX_U64` as `checked_add` bounds them. |
| `ChainState` (extends `Ledger`) | `add_block` | Variables are the fields of `ChainState`. One call is one step, because callers hold the chain mutex. Separate actions reject a header, keep a side block, extend the tip, reorganise, or discard. |
| `BlockTree`, `ForkChoice`, `ChainRefinement` | what `add_block` promises | A set of known blocks and a tip that moves only to strictly more work; `ChainRefinement` is the mapping under which `ChainState` implements it. |
| `NodeState` (extends `ChainState`) | mempool, template, bridge, files, crashes | `accept_block`, `submit_tx` and the template are each one critical section, hence one action. A template is kept across steps and may be stale. |
| `MinerLoop` | the loops of `node run` and `miner mine`, both searches | The proof-of-work function of an epoch is an arbitrary set of nonces. One attempt is one step; its window is `CHUNK` nonces and may wrap. |
| `PeerSync` (extends `BlockTree`) | the messages about blocks, saved chains, restarts | A connection is a pair of FIFO queues with one reader each; breaking it loses the queues. The chain of a node is what `ForkChoice` promises. It has no specification of its own. |
| `TxRelay` (extends `PeerSync`) | submission, relay, bans, pools that follow the tip | Composes the handlers of `PeerSync` with those of transactions and states the specification of the network. |
| `FrameChannel` | what the transport promises | Each direction delivers a prefix of what was sent. `PeerSync` and `TxRelay` assume it of their queues. |
| `Transport` | handshake and frames of one connection | A step is one write with what it follows from, or one read. Encapsulation, keys and seals are terms; a header is plain bytes, which the keys do not depend on. The network may alter an item, a header into any other header, break the connection and lose its last items. |
| `Wire` | shapes of transactions, blocks and messages; decoding; the preimage of `sighash` | A type is a codec: how it is written and how it is read, side by side, built from those of its fields as `encode_into` and `decode` are. An integer or a hash is one token. |
| `PeerTable` | connections and the tables about them | A connection is a record with a stage; an action is one critical section or handler, and of the miner's gate each read is one (`ReadPeers`, `ReadHeight`, `ReadBest`). `BOOK_ORDER` is the fixed iteration order of the address set. |
| `PeerLocks` | the mutexes of `Shared` | Each operation of each thread is a sequence of critical sections, each a sequence of mutexes. |
| `Wallet` (extends `Ledger`) | sends of light and local wallet | A session goes idle, fetched, built, sent; blocks and other sessions come in between. |
| `Difficulty` | ASERT, compact bits, median time | Arithmetic of the code with byte, word and fraction widths as parameters. |
| `Emission` | `block_reward` | Repeated squaring with a floor at every product. |
| `Merkle` | `merkle_root`, `check_roots`, duplicate check | Hashes are the terms they are computed from. |
| `SumProofs`, `LedgerProofs`, `ChainProofs`, `NodeProofs`, `NetProofs`, `ConnectionProofs`, `RulesProofs`, `WalletProofs` | proofs | see below |
| `MC*` | instances | values of the constants for the `.cfg` files |

Operators named after a defect (`OutweighsByHeight`, `KeepsFileUnlessFull`,
`KeyWithoutLabel`, ...) are plausible mistakes in the definition that follows
them. No action uses them: each shows that a property notices the mistake.

Simplifications worth knowing when reading the models next to the code:

- `run_peer` registers a peer and sends its `Hello` in one step of `PeerTable`.
- Address gossip (`GetAddr`, `Addr`) is in `PeerTable` only, sync and relay in
  `TxRelay` only, full pools, fees and sizes in `NodeState` only.
- An `Inv` or `GetData` of `TxRelay` lists blocks or one transaction.
- All rigs of `MinerLoop` search windows of one size.
- The `height` of `PeerTable` only grows. A reorganisation to a branch of more
  work and less height is in `ChainState`; when one falls between the reads of
  the miner's gate, the gate opens for a height that is no longer there.
- That a peer was counted by `ReadPeers` does not mean that it is still there at
  `ReadBest`: `MinesWhenCaughtUp` is about the peers of the last read.

## Runs that pass

| Run | Instance and bounds | Shows |
|---|---|---|
| `chain` | block universe with two branches, ties, a block invalid in each way that matters, heights up to 4, maturity 2 | most work, UTXO map equals replay and equals the unspent outputs, supply within schedule, locks respected, a valid block is rejected for no other reason; refines `ForkChoice` |
| `node` | four worlds on one universe of heights up to 3, `MAX_MEMPOOL_BYTES` 3, `SAVE_INTERVAL` 2. `Crowd`: five transactions that conflict, chain and fall below the fee floor, under a fork. `Pair`: two queued files that do not fit the mempool together, and a crash. `Branch`: another branch, and a crash. `Rivals`: a queued file under a fork that may confirm its rival | conflict index and byte count exact, pool minable after every block and reorganisation, own blocks never rejected, the chain file always loads to the chain that was saved, and a running node that disconnects no block loses no queued transaction |
| `net` | five networks of a hub A with B and C, `BLOCKS_PER_ROUND` 2, `LOCATOR_DENSE` 1, `SAVE_INTERVAL` 2. `Forking`: a new node, which may mine, between two of different heights. `Breaking`: one connection breaks. `Crashing`: one process restarts from its file. `Paying`: two rival transactions while a block may confirm one. `Reorganising`: a transaction whose coin is on one of two branches, which both grow | requests are in flight, silence means synced, offered transactions are shared, gossip dies out, all end on equal work |
| `peers` | two connections, inbound caps 2 and 1, `TARGET_PEERS` 1, two live peers of which one is learned from gossip or its own call; our own address is first in the book's order, a dead host learned from gossip comes between the peers | inbound counters exact, every address in `connected` is released by somebody, the miner passes its gate only at the height of every greeted peer, whoever greets or leaves between its reads, a reachable seed is dialed in the end |
| `transport` | releases of two versions on two networks, bodies of the largest size and above it, two frames per side, two altered items | nonces are fresh, only damage is refused, nothing gets through without the same keys, nor between nodes of different versions or networks unless a header was altered each way, a handshake ends; refines `FrameChannel` |
| `wallet` | a plain, an immature, a vault and a foreign coin; two sessions, one local, one light; three blocks; payments that are zero, exact, too large, overflowing, to an own vault | built transactions valid, balance is what can be paid, money exact |
| `rules` | `MCRules` explores six parts that share no state, one per behaviour, the others at rest. `Difficulty`: 12-bit targets, 4-bit fractions, four blocks with times from far too fast to far too slow and backwards. `Emission`: 500 blocks, past the last paid one. `Merkle`: all bodies of up to 4 transactions over 3 ids and 2 witness hashes. `Wire`: encodings with lists at their maxima and up to two edits. `MinerLoop`: 5 nonces, two epochs, heights up to 3. `PeerLocks`: readers, accept loop, miner and bridge; and these with discovery when peers advertise no port | bits exact and steering the right way; cap; only the honest body connects; one encoding per value, and newer releases are understood; a sighash binds what it signs; a found nonce is work for its epoch; no deadlock |

The bounds are named constants (`MAX_HEIGHT`, `MAX_BLOCKS`, `MAX_TXS`,
`MAX_EDITS`, `MAX_SENT`, `MAX_ALTERED`, `TOP`) or fields of a setup (`crashes`,
`drops`, `mine`, `txs`). They are enough for the cases named: a reorganisation of
two blocks needs height 3, a stale template one foreign block, a failed sync
round one fork longer than `BLOCKS_PER_ROUND`, an odd Merkle layer three leaves, a
reused nonce one frame per side, a counter that runs apart two, two nodes that read
each other's altered headers two alterations, a window that
straddles an epoch boundary two epochs. Two levels of Merkle padding (six leaves)
are beyond `MAX_TXS`. Deadlock checking is off only where a bounded history ends
(all blocks mined, all sessions done, both sides gone, a part of `MCRules` walked
through).

## Runs that show a disagreement

Each of these states what a comment, document or message of the program says,
and TLC finds a behaviour of the code that contradicts it. `PROJECT.json`
quotes the lines.

| Run | The code |
|---|---|
| `lock_order` | `Hello` takes `connected` inside `book`, discovery takes `book` inside `connected`: deadlock |
| `deep_fork` | two nodes that fork by more than a round stay unsynced, the locator never moves; and so does a new node whose first peer is ahead by more than a round, when the last block of that round comes from another peer first: a duplicate asks for no next round. Either of the two setups violates the property alone |
| `honest_ban` | a transaction that was confirmed while its announcement was under way is invalid at the receiver, who bans the honest sender for a day |
| `lost_on_crash` | a queued transaction whose file the bridge consumed is gone when the node stops |
| `timelock` | the RPC drops lock heights; the light wallet signs what no node accepts |

Also reachable in these models, and worth knowing, though no run is kept for
them:

- An announcement of known hashes only is not followed up (`node.rs:605`).
- `Hello` compares heights (`node.rs:555`), so a peer with more work but not
  more height is not asked at once; `WHITEPAPER` promises the chain of most
  work.
- A registered peer lifts the mining gate's first condition before its `Hello`
  can close the second one (`node.rs:421`, `node.rs:535`, `main.rs:297`).
- The transport keys do not depend on the headers (`transport.rs:58-62`): when the
  header of each side is altered on its way into one that the other side expects,
  nodes of different versions or networks complete the handshake, and their
  frames open. Version and network keep apart nodes that meet by mistake.
- When one of two connections to a peer ends, the peer's address leaves
  `connected` (`node.rs:488`) and is dialed although the other one is open. The
  discovery loop counts registered peers, not dials under way, so it may exceed
  `TARGET_PEERS` (`node.rs:256`), and it always takes the first free addresses
  of the book, dead ones included (`node.rs:266`).
- A reorganisation does not return the disconnected transactions to the mempool
  (`mempool.rs:107`), and a new connection is not told of the pool: a transaction
  offered while nobody was connected stays where it is. `OfferedIsShared` is
  therefore about offers on a connection.
- Two local sends from one chain file may queue spends of one coin
  (`main.rs:678`, `main.rs:693`).

## Fairness

Three modules state liveness.

- `TxRelay`: weak fairness of receiving, dialing and the end of bans, for every
  pair of nodes. Reader threads block on `recv` and on mutexes only, discovery
  comes round every few seconds, a ban has a duration. Mining, submitting,
  breaking and crashing have no fairness, and breaks and crashes are bounded by
  the setup.
- `Transport`: weak fairness of the initiator's first write and of each side's
  read timeout, nothing else: the peer and the network may stall for ever.
- `PeerTable`: weak fairness of the discovery loop and of each connection's
  thread, and strong fairness of a successful outgoing registration and of
  reading our own greeting on an outgoing connection. A host that is up does not
  refuse infinitely many dials. Banning, gossip, callers and mining have none.

## Proofs

Every theorem holds for every value of the constants that satisfies the named
assumptions of the modules; TLC checks these on every run. Besides the types of
constants they say:

| Assumption | Says | Why |
|---|---|---|
| `TxsAssumption`, `TxidAssumption` | transactions are records of the five fields; an id determines inputs, outputs and data | `txid` hashes the encoded body |
| `SupplyCapAssumption` | the whole schedule fits a u64 | `CapHolds`: they stay within `SUPPLY_CAP`, a u64 |
| `BlocksAssumption`, `BlockTreeAssumption` | positive work, a genesis block without a known parent, a median over at least one time | `BitsHold` shows the first |
| `TreePathAssumption`, `PathAssumption`, `WorkAssumption`, `CumWorkAssumption` | the recursive functions along parents exist | a parent's hash is inside its child, so parents form no cycle |
| `NodeAssumption` | the slack of a template is at most the size of a block | constants of `miner.rs` |
| `RewardAssumption` | no height in question has a subsidy of zero | it reaches zero after some 60 million blocks; from then on a template without fees pays zero and `add_block` rejects it |
| `FactorAssumption` | the cubic of `asert.rs` stays at most 2 on [0, 1) | with the code's coefficients it reaches 131071/65536 |
| `DifficultyAssumption`, `EmissionAssumption` | a target of at least three bytes, a limit below half a word, constants that are not zero | `params.rs`, `emission.rs` |
| `WalletAssumption` | keys, amounts and fees are of their kind; change comes back to an own key | `build_send` pays change to the wallet's first ML-DSA key |
| `StartAssumption`, `CoinsAssumption` | finitely many coins at height 0, with ids of their own; they and the subsidies from then on fit a u64 | `SUPPLY_CAP` again |
| `WireAssumption` | limits are numbers; what is encoded has the form its decoder allows | whatever a peer, a file or a hash got past a decoder has; the size of a block is bounded below `MAX_FIELD_LEN`, a batch of hashes below `MAX_INV` |
| `MinerAssumption` | a window is no longer than the nonces there are | 2^64 of them |

**Sums** (`SumProofs`). The models add up sizes and counters with the community
module's `SumFunction`, which folds in an order nobody knows. `SumIsIter` shows
it equal to a function defined by recursion over finite sets, `IterAgree` that
the order does not matter, `SumExcept` and `SumAdd` how a sum changes with one
entry, `SumSplit` and `SumPart` that it is the sum of its parts. `NatSetInduction` is an induction principle over the naturals as a set,
from which the recursive functions of the models are shown to exist.

**Chain state** (`LedgerProofs`, `ChainProofs`). For every block universe, every
subsidy schedule within `MAX_U64` and every bits and work function:

- `TypeCorrect`: the fields of the chain state keep their types;
- `ForkChoice`: the active chain is the path from genesis to a known tip of
  most work, and `meta` is a tree closed under parents;
- `ReplayEquivalence`: UTXO map and supply are those of replaying the active
  chain from genesis;
- `NoInflation`: the supply stays within the subsidies up to the tip;
- `TipGains`: the tip moves only to strictly more work;
- `UnspentExact`: the map holds exactly the outputs that the active chain created
  and did not spend, nothing is spent twice, and their value is covered by the
  supply;
- `LocksRespected`: no spend on the active chain came before its coinbase matured
  or its vault opened, or with another key;
- `RejectionsDeserved`: a block is called invalid only for its header or because
  its branch does not replay;
- `RefinesForkChoice`: every step is one of `ForkChoice` or a stutter.

The inductive invariant `ChainInv` joins six parts, because none is inductive
alone. That a reorganisation yields the right map needs `ActiveIsPath` (the walk
from the new block visits exactly the new active chain), which needs `KnownTree`
(parents are known, one lower, with less work, so the walk ends at genesis); that
a failed one leaves it right needs `LedgerIsReplay` of the old chain; that
extending the tip equals replaying one block more is the lemma `ReplayAppend`; the
supply bound rests on the minted amount of a block being at most its subsidy
(`ValidateBlockTxsType`), and on `Issued` being monotone. The refinement adds that
the stored work is the abstract one (`WorkIsOfTree`).

What the map holds is shown once, for any replay, and carried to the reachable
states by `ReplayEquivalence`. A place is a block and a position in it. `Hist`
relates a map to the transactions at a set of places: each output spent there was
created at an earlier place, by one transaction only, under the rules of maturity
and locks, and the map is what remains. Replay keeps it transaction by transaction
(`ApplyKeepsHist`), in the order of the code, which applies the coinbase of a
block last (`BlockKeepsHist`).

**Node** (`NodeProofs`). `NodeInv` joins `ChainInv`, the types, the conflict index
(`IndexExact`) and `PoolMinable`:

- `ChainHoldsInNode`: through start-up, offline mining, crashes and restarts the
  chain keeps what `ChainProofs` shows of `add_block` alone;
- `PoolStaysMinable`: each pooled transaction is valid in the next block;
- `PoolBooksExact`: index and byte count are exact and within the limit;
- `PoolHasNoConflicts`: no two pooled transactions spend one output;
- `BridgeNeverLoses`: a step that disconnects no block loses no queued
  transaction, from file to pool to chain, unless it became unspendable or
  too cheap.

The argument for the pool: a step that moves the tip also evicts (`AddBlockReports`
says which answers move it), so what stays is valid at the new tip by the guard of
eviction; the index tells a newcomer's conflicts exactly, and so stays
conflict-free. `BytesExact` is proved on top, with the lemmas about sums.

`HistoryInvariant` adds what outlives a step or a process: every known block has a
good header (`TreePart`), the chain file is a path of such blocks that replays
(`DiskPart`), start-up has replayed an initial part of it (`LoadPart`), and a
template is what `build_block_template` promised on its parent, however far the
tip has moved (`JobPart`, `TemplateOk`). From it:

- `StartUpSucceeds`: a start-up accepts every block of the file and ends on the
  chain that was saved. The header check of `add_block` looks at the branch alone
  (`TreeHeaderOk`), and what replays also replays up to any block (`PrefixReplays`);
- `OwnBlocksAccepted`: a block from one's own template is never rejected. The
  pooled transactions are valid one by one on the parent's map and share no input
  (`Batch`), so they apply in any order; their fees add up to what the map loses,
  which with the supply bound keeps every sum within a u64.

**Synchronisation and relay** (`NetProofs`). For any nodes, links, trees, locators
and batch sizes, and any forks, restarts and breaks. `NetInvariant` is
`SyncInv /\ RelayInv`:

- `SyncInv`: the blocks a node knows are closed under parents, whoever is asked
  for a block knows it, and a block in `requested_blocks` waits on that connection
  in one of the two queues, as a request or as itself (`RequestsWait`). A handler
  takes the head of one queue and appends to others; the proof is that each either
  keeps what it consumed going or clears the entry. `RequestsAnswered` follows;
- `RelayInv`: an offered transaction is held by an end of its link (`OfferHeld`),
  and what an end holds is on its way to the other in one of three messages, or is
  settled there (`OffersSettle`). `OffersAreShared` follows: with empty queues both
  ends hold it, or the other holds a rival;
- `SpreadInv`, inductive on top of both: a tip has the most work of all blocks its node knows; a message tells
  the truth about its sender (its tip and height, a locator of a block it has, a
  block it has); and for every link whose one end has less work than the other, a
  message that ends this is in one of the two queues: one that brings the better
  tip (`Hello`, `Inv`, `Block`) or one that asks for it (`GetBlocks`, `GetData`).
  `SyncedWithinRound` follows: where one round is enough, empty queues mean equal
  work, through drops, restarts, bans and blocks mined in between.

`SyncedWithinRound` is about the setups in which a round is enough
(`SyncsInOneRound`). Both parts of that hypothesis come from the code.
`MoreWorkIsHigher`: of two chains the longer one has more work, since `Hello` asks
only a higher peer. `WithinRound`: from some block the locator of a node names, no
tip a peer may have is more than `BLOCKS_PER_ROUND` away. Then the answer to
`GetBlocks` ends in the peer's tip (`HashesReach`), unless the locator names that
tip itself, which a node that lags does not know (`LocatorWithin`, `Lagging`).
Without the second part the statement is false, in the two ways of the run
`deep_fork`. `OneRoundIsMet`, which TLC evaluates in `MCNet`, says which of the
setups of the runs meet the hypothesis and which do not.

`OffersAreShared` needs the right reading of "dropped". An end that dropped the
transaction, or a rival of it, since the offer owes nothing any more: the handler
of a rival's `Inv` has answered already, and a reorganisation may later free the
output without a new announcement. `offered` is therefore voided when either
happens. A reading that only voids the transaction's own removal is false.

**Peer table and locks** (`ConnectionProofs`). For any connections, peers, heights and caps:

- `AddressesReleased`: every address in `connected` belongs to a connection that
  will release it. The strengthening says that this connection is outgoing or has
  been greeted, since a first greeting changes what an inbound one advertises;
- `MinerWaits`: the miner passes its gate only at a height that no greeted peer
  exceeds, whatever other threads do between its three reads. The height it read
  (`GateInv`) stays a lower bound while it reads on, and `best`, which covers every
  greeting, comes last: reading these two the other way round is the mutant of
  `MinesWhenCaughtUp`;
- `InboundCounted`: each inbound counter is the number of open inbound
  connections of its ip, and their sum stays within the cap;
- `LocksNeverCircle`: among any threads under `OneLockOrder`, some thread that is
  not at rest can go on. Every critical section takes its mutexes in ascending
  order of a rank, so who waits for the highest mutex that anybody waits for waits
  for a thread that wants a higher one. `OneLockOrder` is a hypothesis about the set
  of threads: it excludes exactly the pair of the run `lock_order`, a reader that
  handles the `Hello` of a listening peer and the discovery loop.

**Transport** (`ConnectionProofs`). For any versions, networks, bodies and
numbers of frames and alterations:

- `NoncesAreFresh`: no key seals two frames with one nonce;
- `RefinesChannel`: every step is one of `FrameChannel` or a stutter;
- `FramesNeedAgreement`: a frame is opened only between sides that hold the same
  keys, and that agree on version and network unless the headers of both were
  altered. Each side compares the other one's header, so one altered header is
  never enough; nothing else in the handshake depends on the headers;
- `RefusalsAreDeserved`: a frame is refused only after the network altered
  something, or if it was sealed above the limit: the counters of the two ends
  never drift apart.

`TransportInv` says that a side seals only under a key of its own direction and
numbers its frames from zero, that an intact frame on the wire is a sealed one
with the body of that number, and that a reader's counter is the number of frames
it opened. A frame that opens is then the next one sealed. `ConnInvariant` adds
that a side past the headers agrees with the other one or has read an altered
header (`Checked`), that both keys of a side come from one secret, and that
without alteration the frames on a wire are the contiguous rest of what was sealed
(`Window`), up to what a broken connection lost at its end.

**Difficulty, emission, Merkle commitment, mining loops and encoding**
(`RulesProofs`). For any widths, polynomial, limit, intervals and times, any cap and
decay, any leaves, and any limits, values and edits of encodings:

- `BitsHold`: a target has e bytes iff it lies between two neighbouring powers, so
  its exponent is unique; decoding what was encoded gives a target of the same
  size and mantissa, hence the same bits. A limit below half a word keeps the
  exponent within the word and the work positive;
- `TimesSteer`: exponent, split into whole powers and fraction, factor, shift and
  encoding are each monotone in the parent's time. Between two whole powers they
  are so only because the factor is at most 2, which one shift more undoes: that
  is `FactorAssumption`;
- `CapHolds`: the subsidies issued are below the partial sum of the geometric
  series with the same first term. `pow_q96` keeps its accumulator below the power
  computed so far, because each floor only lowers it;

- `MiningFindsWork`: a reported nonce is good in the epoch of its block, for every
  set of good nonces, window and order of rigs. The invariant ties the dataset to
  the template it was renewed for;
- `HeaderBindsBody`: of the bodies offered to a header, whatever their lengths,
  only the one it was made for connects. Roots of one layer determine the layer
  below up to repetition of its last leaf; two bodies of one root differ at most by
  such repetitions, because leaves and inner nodes are hashed apart, and a body
  with repeated transactions is refused;
- `OneForm`: a transaction or a block decodes to itself, and whatever else
  `decode_all` accepts is the encoding of what it returns;
- `NewerUnderstood`: a message with anything appended is read as that message, and
  one that lost its end is refused, unless it is a `Hello` that lost its nonce;
- `SignatureBinds`: two different things to sign have different preimages.

The last three rest on two properties of a codec. It is `Faithful` if reading what
it has written gives the value back, whatever follows, and `Canonical` if what it
reads is what it would have written. A token is both, and pairs, lists, frames and
tagged arms inherit them from their parts (`PairLawful`, `ListLawful`, `FramedLawful`, `ArmLawful`); the lists
of a codec are recursive functions, followed by `NatSetInduction`. Two consequences
do the rest: no encoding continues another one, so a truncated message is no other
message; and concatenated encodings have one reading, so a preimage determines body,
index and spent output. `Hello` is the one exception, because its nonce is optional.

**Wallet** (`WalletProofs`). For any sessions, payments, keys and coins, and any
interleaving of sessions, blocks and saves:

- `MoneyAddsUp`: what the wallet owns is what it owned and earned, less what exactly
  the payments that made it into a block take from it: amount and fee, or the fee
  alone of one to an own key;
- `BalancePays`: a payment is built if the displayed balance covers it, and only
  then;
- `SignedIsValid`: what `build_send` signs passes `check_tx` on the chain it asked
  about while that has not moved. Its hypothesis `LocksReadable` is about the
  constants: no coin of a wallet behind the RPC opens at a height. Without it the
  statement is false, which the run `timelock` shows; a wallet on the chain file
  needs no such hypothesis.

`WalletInv` says of a session that what it holds was fetched at a height, and is
what it would fetch now if that height is still the current one; that what it has
built is `Signed` over some selection in some order; and of each transaction in
pool, files or blocks that a session sent it. An order of the selected coins is a
listing of them, so its total is theirs (`OrderTotal`), and amount, fee and change
add up to it (`SignedPays`).

The money equation is `Money`: the weight of the wallet's outputs in the map, plus
the cost of its confirmed payments, is what it started with and earned. A
transaction moves weight from the outputs it spends to those it creates
(`ApplyTxMoves`, for any weight of outputs: the amount gives the supply, the amount
of own outputs the wallet's money). It does so only if its inputs are in the map
and its outputs are not. Hence `Placed`: every outpoint, spent or not, comes from
before height 0, from the coinbase of a block, or from a confirmed transaction, and
no confirmed transaction has an input left in the map. So a valid transaction is in
no block yet and creates new outpoints (`Fresh`). A block applies its transactions
in an order nobody knows; as they share no input, each finds its coins as they were
(`BetweenApplies`), and induction over that order gives the whole (`BlockApplies`).
Two sessions that sent the same transaction pay for it once.

Only model-checked:

- all liveness (`Converges`, `GossipEnds`, `ReachableIsDialed`, `HandshakeEnds`):
  neither fairness nor `ENABLED` is within the prover's reach;
- `QuietMeansSynced` where one round is not enough, or a heavier chain not longer:
  it holds in the setups `Forking`, `Breaking` and `Crashing` of the run `net` and
  fails in those of `deep_fork`.

## Not modelled

- **Cryptographic primitives and addresses** (`core/src/hash.rs`, `crypto`):
  hashes are injective, a signature verifies for exactly what was signed, a
  sealed frame opens only under its key and nonce.
- **Proof-of-work and GPU kernels** (`pow`, `gpu`): in `ChainState` proof of work
  is a flag of a block, in `MinerLoop` a set of nonces.
- **Wallet file, key derivation, HTTP and pages**, hash-rate statistics, release
  scripts, landing page.
- **Bytes inside a token** of `Wire`: endianness and width of integers, which the
  round-trip tests cover.
- **Bodies behind a hash**: `ChainState` lets a caller deliver a body that fails
  `check_roots`; the padded bodies that pass it are in `Merkle` alone.
- **Times beyond i64**, **two processes on one data directory** at the same
  moment, and a **transaction file read while it is written**: `NodeState` runs one
  process at a time on its directory, and its files are whole or absent.

## Plan

Done: every module above and every proof listed. What is left:

1. `DataDir`: `node run`, `miner mine` and `wallet send` as processes on one
   directory at once, with writes in two steps.
