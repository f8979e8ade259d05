----------------------------- MODULE NodeState ------------------------------
(***************************************************************************)
(* One process around a ChainState: the mempool (node/src/mempool.rs), the *)
(* miner thread and the transaction-file bridge of `sump node run`         *)
(* (cli/src/main.rs), the chain file (node/src/store.rs), the one-shot     *)
(* commands that share the data directory, and crashes.                    *)
(*                                                                         *)
(* accept_block, submit_tx and the template are each one critical section  *)
(* (chain lock, then mempool lock), hence one action each.  Mining happens *)
(* outside the locks: a template may be stale when its block is submitted. *)
(***************************************************************************)
EXTENDS ChainState

CONSTANTS
    TX_SIZE(_),         \* encoded size of a transaction
    MIN_RELAY_FEE, MIN_FEE_PER_BYTE, MAX_MEMPOOL_BYTES,
    TEMPLATE_SLACK,     \* 4096: room kept for the header and the coinbase
    SAVE_INTERVAL,      \* 32: the chain file is rewritten at these heights
    Clock,              \* readings of now()
    Setups              \* what the world does, see below

\* The transactions that arrive by RPC or from peers and those that the wallet
\* commands queue as files, the blocks mined by other nodes, and how often the
\* process may crash.
Worlds == [submitted : SUBSET Txs, queueable : SUBSET Txs, foreign : SUBSET Blocks,
           crashes : Nat]

ASSUME NodeAssumption ==
    /\ \A tx \in Txs : TX_SIZE(tx) \in Nat
    /\ MIN_RELAY_FEE \in Nat /\ MIN_FEE_PER_BYTE \in Nat
    /\ MAX_MEMPOOL_BYTES \in Nat
    /\ SAVE_INTERVAL \in Nat \ {0}
    /\ MAX_BLOCK_SIZE \in Nat /\ TEMPLATE_SLACK \in 0..MAX_BLOCK_SIZE
    /\ Clock \subseteq Nat
    /\ Setups \subseteq Worlds

\* The subsidy has not run out yet: that takes some 60 million blocks.  From
\* then on a template without fees pays zero, which add_block rejects.
ASSUME RewardAssumption == \A h \in 1..MAX_HEIGHT : BLOCK_REWARD[h] # 0

VARIABLES
    setup,     \* the world of this behaviour
    pool,      \* Mempool.txs: the pooled transactions
    spends,    \* Mempool.spends: outpoint -> txid of its spender
    bytes,     \* Mempool.bytes
    job,       \* the template being mined, or NoJob
    disk,      \* the chain file: hashes of the saved active chain
    files,     \* the *.tx files of the mempool directory
    mode,      \* "down", "loading", "run", "offline"; "refused": gave up on
               \* a block of the file or of its own
    loaded,    \* blocks of the file replayed so far by load_state
    offline,   \* the process being loaded is `sump miner mine`
    mined,     \* blocks this node has mined: the network may know them
    queued,    \* every transaction `sump wallet send` has queued
    crashes

poolVars == <<pool, spends, bytes>>
procVars == <<mode, loaded, offline>>
nodeVars == <<setup, chainVars, poolVars, procVars, job, disk, files, mined, queued,
              crashes>>

NoJob == [prev |-> Zero]

-----------------------------------------------------------------------------
(***************************************************************************)
(* Mempool.                                                                *)
(***************************************************************************)
EmptySpends == [op \in {} |-> op]

\* ChainState::validate_standalone_tx: valid in the next block.
ValidNext(tx) == ~IsCoinbase(tx) /\ TxOk(tx, Height + 1, utxos)

Need(tx) == LET perByte == TX_SIZE(tx) * MIN_FEE_PER_BYTE
            IN  IF perByte > MIN_RELAY_FEE THEN perByte ELSE MIN_RELAY_FEE

PoolTxids == {tx.txid : tx \in pool}

\* What Mempool::insert returns, in the order of its early returns.
Verdict(tx) ==
    IF tx.txid \in PoolTxids THEN "duplicate"
    ELSE IF Spent(tx) \cap DOMAIN spends # {} THEN "conflict"
    ELSE IF ~ValidNext(tx) THEN "invalid"
    ELSE IF Fee(tx, utxos) < Need(tx) THEN "low_fee"
    ELSE IF bytes + TX_SIZE(tx) > MAX_MEMPOOL_BYTES THEN "full"
    ELSE "ok"

\* Mempool::insert: only an accepted transaction changes the pool.
Insert(tx) ==
    IF Verdict(tx) = "ok"
    THEN /\ pool' = pool \cup {tx}
         /\ spends' = [op \in DOMAIN spends \cup Spent(tx) |->
                          IF op \in Spent(tx) THEN tx.txid ELSE spends[op]]
         /\ bytes' = bytes + TX_SIZE(tx)
    ELSE UNCHANGED poolVars

Sizes(ts) == SumFunction([tx \in ts |-> TX_SIZE(tx)])

\* A faulty variant: the conflict index is not cleaned.
RemoveAllKeepsSpends(gone) ==
    /\ pool' = pool \ gone
    /\ bytes' = bytes - Sizes(gone)
    /\ spends' = spends

\* Mempool::remove for each of a set of pooled transactions.
RemoveAll(gone) ==
    /\ pool' = pool \ gone
    /\ bytes' = IF bytes >= Sizes(gone) THEN bytes - Sizes(gone) ELSE 0
    /\ spends' = [op \in DOMAIN spends \ UNION {Spent(tx) : tx \in gone} |->
                     spends[op]]

BlockTxids(b)  == {BLOCK[b].txs[i].txid : i \in DOMAIN BLOCK[b].txs}
BlockSpends(b) == UNION {Spent(BLOCK[b].txs[i]) : i \in DOMAIN BLOCK[b].txs}

\* A faulty variant: what remains is not validated at the new tip.
EvictedByBlockOnly(b) ==
    {tx \in pool : \/ tx.txid \in BlockTxids(b)
                   \/ Spent(tx) \cap BlockSpends(b) # {}}

\* What update_for_block drops: the transactions of the block, the pooled
\* spenders of its inputs, and what the new tip no longer validates.
Evicted(b) ==
    LET conflicts == {spends[op] : op \in BlockSpends(b) \cap DOMAIN spends}
    IN  {tx \in pool : \/ tx.txid \in BlockTxids(b)
                       \/ tx.txid \in conflicts
                       \/ ~(/\ ~IsCoinbase(tx)
                            /\ TxOk(tx, Len(active'), utxos'))}

-----------------------------------------------------------------------------
(***************************************************************************)
(* accept_block: add_block, and if it gave a new tip the mempool update    *)
(* and, at every SAVE_INTERVAL-th height, the chain file.  A failed save   *)
(* is only logged; the file is replaced by a rename, so it is the old or   *)
(* the new one.                                                            *)
(***************************************************************************)
\* A faulty variant: the file grows by the new tip, whatever a reorg replaced.
SaveAppends ==
    IF (Len(active') - 1) % SAVE_INTERVAL = 0
    THEN disk' = Append(disk, active'[Len(active')])
    ELSE UNCHANGED disk

Save ==
    IF (Len(active') - 1) % SAVE_INTERVAL = 0
    THEN disk' \in {active', disk}
    ELSE UNCHANGED disk

AcceptBlock(b, body) ==
    /\ AddBlock(b, body)
    /\ IF ret'.res = "active"
       THEN RemoveAll(Evicted(b)) /\ Save
       ELSE UNCHANGED <<poolVars, disk>>

\* A block arrives from a peer.
ReceiveBlock(b, body) ==
    /\ mode = "run"
    /\ AcceptBlock(b, body)
    /\ UNCHANGED <<procVars, job, files, mined, queued, crashes>>

\* submit_tx, called by the RPC server or for a Tx message of a peer.
SubmitTx(tx) ==
    /\ mode = "run"
    /\ Insert(tx)
    /\ UNCHANGED <<chainVars, procVars, job, disk, files, mined, queued, crashes>>

\* A faulty variant: the file of a transaction that does not fit is removed.
KeepsFileUnlessFull(verdict) == verdict \in {"conflict", "invalid"}

\* The bridge leaves the file of a transaction it will retry.
KeepsFile(verdict) == verdict \in {"conflict", "full", "invalid"}

\* One file of the bridge loop of `node run`.
Bridge(tx) ==
    /\ mode = "run"
    /\ tx \in files
    /\ Insert(tx)
    /\ files' = IF KeepsFile(Verdict(tx)) THEN files ELSE files \ {tx}
    /\ UNCHANGED <<chainVars, procVars, job, disk, mined, queued, crashes>>

\* `wallet send` and `node submit`: another process, validating against the
\* chain file, drops a transaction file into the mempool directory.
QueueTx(tx) ==
    /\ tx \notin queued
    /\ LET r == ApplyChain(disk)
       IN  ~IsCoinbase(tx) /\ TxOk(tx, Len(disk), r.utxos)
    /\ files' = files \cup {tx}
    /\ queued' = queued \cup {tx}
    /\ UNCHANGED <<chainVars, poolVars, procVars, job, disk, mined, crashes>>

-----------------------------------------------------------------------------
(***************************************************************************)
(* Mining.  build_block_template takes candidates in arbitrary order and   *)
(* skips those that are invalid, do not fit or conflict: what it includes  *)
(* is any choice of fitting candidates to which none can be added.         *)
(***************************************************************************)
Disjoint(ts) == \A t, u \in ts : t # u => Spent(t) \cap Spent(u) = {}

Budget == IF MAX_BLOCK_SIZE > TEMPLATE_SLACK THEN MAX_BLOCK_SIZE - TEMPLATE_SLACK ELSE 0

Fits(ts) == Sizes(ts) <= Budget /\ Disjoint(ts)

\* A faulty variant: candidates are taken as they come.
IncludedUnchecked(candidates, ts) == ts = candidates

Included(candidates, ts) ==
    LET valid == {tx \in candidates : ValidNext(tx)}
    IN  /\ ts \subseteq valid
        /\ Fits(ts)
        /\ \A tx \in valid \ ts : ~Fits(ts \cup {tx})

TemplateTime(now) == LET mtp == MedianTimePast(Tip)
                     IN  IF now > mtp + 1 THEN now ELSE mtp + 1

Template(ts, now) ==
    [prev     |-> Tip,
     height   |-> Height + 1,
     time     |-> TemplateTime(now),
     bits     |-> ExpectedBits(Tip),
     txs      |-> ts,
     coinbase |-> BLOCK_REWARD[Height + 1]
                    + SumFunction([tx \in ts |-> Fee(tx, utxos)])]

\* Block b is the template t with this node's coinbase and a valid nonce.  The
\* header and the one-output coinbase fit the slack left for them.
Solves(b, t) ==
    LET txs == BLOCK[b].txs
    IN  /\ BLOCK[b].prev = t.prev
        /\ BLOCK[b].time = t.time
        /\ BLOCK[b].bits = t.bits
        /\ BLOCK[b].pow
        /\ {txs[i] : i \in 2..Len(txs)} = t.txs /\ Len(txs) = Cardinality(t.txs) + 1
        /\ IsCoinbase(txs[1]) /\ txs[1].data = t.height /\ txs[1].witnesses = <<>>
        /\ Len(txs[1].outputs) = 1 /\ txs[1].outputs[1].amount = t.coinbase
        /\ BLOCK[b].size <= TEMPLATE_SLACK + Sizes(t.txs)

\* The miner thread takes a template of the tip and the mempool.
StartJob ==
    /\ mode = "run"
    /\ job = NoJob
    /\ Height < MAX_HEIGHT
    /\ \E ts \in SUBSET pool, now \in Clock :
          Included(pool, ts) /\ job' = Template(ts, now)
    /\ UNCHANGED <<chainVars, poolVars, procVars, disk, files, mined, queued, crashes>>

\* try_mine used up its nonces: the template is dropped for a fresh one.
GiveUp ==
    /\ mode = "run"
    /\ job # NoJob
    /\ job' = NoJob
    /\ UNCHANGED <<chainVars, poolVars, procVars, disk, files, mined, queued, crashes>>

\* try_mine found a nonce; submit_block takes the block, whatever the tip is by now.
Found(b) ==
    /\ mode = "run"
    /\ job # NoJob
    /\ b \notin mined \cup setup.foreign
    /\ Solves(b, job)
    /\ AcceptBlock(b, TRUE)
    /\ job' = NoJob
    /\ mined' = mined \cup {b}
    /\ UNCHANGED <<procVars, files, queued, crashes>>

-----------------------------------------------------------------------------
(***************************************************************************)
(* Start-up: load_state gives the chain file's blocks to add_block one by  *)
(* one and refuses to start at the first error; a new NetNode has an empty *)
(* mempool.  `miner mine` loads the same file and runs without a node.     *)
(***************************************************************************)
\* Nothing in memory survives the process; the next one begins with
\* ChainState::new on genesis and an empty Mempool.
Forget ==
    /\ all' = {Genesis}
    /\ meta' = [x \in {Genesis} |->
                  [height   |-> 0,
                   cum_work |-> WORK(BLOCK[Genesis].bits),
                   time     |-> BLOCK[Genesis].time,
                   parent   |-> Zero]]
    /\ active' = <<Genesis>>
    /\ LET r == ApplyChain(<<Genesis>>)
       IN  utxos' = r.utxos /\ supply' = r.supply
    /\ ret' = [block |-> Genesis, body |-> TRUE, res |-> "active"]
    /\ pool' = {} /\ spends' = EmptySpends /\ bytes' = 0
    /\ job' = NoJob
    /\ loaded' = 1

Start(off) ==
    /\ mode = "down"
    /\ mode' = "loading"
    /\ offline' = off
    /\ UNCHANGED <<chainVars, poolVars, loaded, job, disk, files, mined, queued,
                   crashes>>

LoadBlock ==
    /\ mode = "loading"
    /\ loaded < Len(disk)
    /\ AddBlock(disk[loaded + 1], TRUE)
    /\ loaded' = loaded + 1
    /\ mode' = IF ret'.res \in {"active", "side"} THEN "loading" ELSE "refused"
    /\ UNCHANGED <<poolVars, offline, job, disk, files, mined, queued, crashes>>

LoadDone ==
    /\ mode = "loading"
    /\ loaded = Len(disk)
    /\ mode' = IF offline THEN "offline" ELSE "run"
    /\ UNCHANGED <<chainVars, poolVars, loaded, offline, job, disk, files, mined,
                   queued, crashes>>

\* One round of `miner mine`: template from the files, mine, connect, remove
\* the files of included transactions.
OfflineMine(b) ==
    /\ mode = "offline"
    /\ Height < MAX_HEIGHT
    /\ BLOCK[b].prev = Tip /\ b \notin mined \cup setup.foreign
    /\ \E ts \in SUBSET files, now \in Clock :
          /\ Included(files, ts)
          /\ Solves(b, Template(ts, now))
          /\ AddBlock(b, TRUE)
          /\ files' = IF ret'.res \in {"active", "side"} THEN files \ ts ELSE files
    /\ mode' = IF ret'.res \in {"active", "side"} THEN mode ELSE "refused"
    /\ mined' = mined \cup {b}
    /\ UNCHANGED <<poolVars, loaded, offline, job, disk, queued, crashes>>

\* The command saves the chain once, after its last round, and exits.
OfflineExit ==
    /\ mode = "offline"
    /\ disk' = active
    /\ mode' = "down"
    /\ Forget
    /\ UNCHANGED <<offline, files, mined, queued, crashes>>

\* The process ends at any point: everything but the data directory is lost.
Crash ==
    /\ mode \in {"loading", "run", "offline"}
    /\ crashes < setup.crashes
    /\ crashes' = crashes + 1
    /\ mode' = "down"
    /\ Forget
    /\ UNCHANGED <<offline, disk, files, mined, queued>>

NodeInit ==
    /\ Init
    /\ setup \in Setups
    /\ pool = {} /\ spends = EmptySpends /\ bytes = 0
    /\ job = NoJob
    /\ disk = <<Genesis>>        \* write_initial_chain
    /\ files = {} /\ queued = {} /\ mined = {}
    /\ mode = "down" /\ loaded = 1 /\ offline = FALSE
    /\ crashes = 0

NodeNext ==
    /\ \/ \E b \in setup.foreign \cup mined : ReceiveBlock(b, TRUE)
       \/ \E tx \in setup.submitted : SubmitTx(tx)
       \/ \E tx \in setup.queueable : QueueTx(tx) \/ Bridge(tx)
       \/ StartJob \/ GiveUp \/ \E b \in Blocks : Found(b)
       \/ \E off \in BOOLEAN : Start(off)
       \/ LoadBlock \/ LoadDone
       \/ \E b \in Blocks : OfflineMine(b)
       \/ OfflineExit
       \/ Crash
    /\ UNCHANGED setup

NodeSpec == NodeInit /\ [][NodeNext]_nodeVars

-----------------------------------------------------------------------------
(***************************************************************************)
(* Properties.                                                             *)
(***************************************************************************)
\* The mempool's books are exact, however transactions came and left: every
\* input of a pooled transaction points to it, so no two of them spend one
\* output, nothing else is indexed, and the bytes are counted to the limit.
SpendsIndexPool ==
    /\ DOMAIN spends = UNION {Spent(tx) : tx \in pool}
    /\ \A tx \in pool : \A op \in Spent(tx) : spends[op] = tx.txid
    /\ bytes = Sizes(pool) /\ bytes <= MAX_MEMPOOL_BYTES

\* After any sequence of blocks and reorgs each pooled transaction is valid
\* in the next block.
PoolMinable == mode = "run" => \A tx \in pool : ValidNext(tx)

\* A block this node mines is never rejected by its own add_block, even when
\* the tip or the mempool changed while it was being mined.
MinedNeverRejected ==
    [][mined' # mined => ret'.res \in {"active", "side"}]_nodeVars

\* Whatever was on the active chain when the file was written, and whatever
\* crashed since, load_state accepts the file and rebuilds its chain.
LoadReplaysFile ==
    /\ mode # "refused"
    /\ mode = "loading" => active = SubSeq(disk, 1, loaded)

Confirmed(tx) == \E i \in DOMAIN active : tx.txid \in BlockTxids(active[i])

\* While its inputs are unspent and it pays enough, a transaction is in a
\* file, in the mempool or on the active chain.
Held(tx) == tx \in files \cup pool \/ Confirmed(tx)

Kept(tx) == \/ Held(tx)
            \/ ~ValidNext(tx)
            \/ Fee(tx, utxos) < Need(tx)

\* `wallet send` says of a queued transaction that it will be included, so it
\* is kept as long as it could be.
QueuedNotLost == mode = "run" => \A tx \in queued : Kept(tx)

\* A running node never loses a queued transaction in a step that disconnects
\* no block: whatever answer the bridge gets, and whatever block arrives, it goes
\* from its file to the mempool to the chain, or ends unspendable or too cheap.
BridgeKeepsQueued ==
    [][mode = "run" /\ mode' = "run" /\ active = SubSeq(active', 1, Len(active)) =>
          \A tx \in queued : Held(tx) => Kept(tx)']_nodeVars
=============================================================================
